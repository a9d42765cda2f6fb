------------------------------ MODULE GatePasses ------------------------------
(****************************************************************************)
(* The passes of cpu/gate_opt.cc, rewrite by rewrite, on every network a     *)
(* front end builds in a few calls.  A front end's network goes through     *)
(* RunGateOptPipeline and then LowerFpgaGates, as in Compile                *)
(* (cpu/compiler.cc): the order of the passes is the state machine here,    *)
(* what each rewrite makes of the network an operator of this module, of    *)
(* GateRewrites or of GateFolds.                                            *)
(*                                                                          *)
(* FoldGates, CseGates, the canonicalizer and LowerFpgaGates walk over the  *)
(* gates in creation order, skip the erased ones and reach those that the   *)
(* walk itself adds.  One step is one visit, after which opts.callback()    *)
(* sees the network.  OptimizeNF and MergeGates work through a list that    *)
(* they draw up from the network as they find it; FactorGates is called as  *)
(* long as it finds a group.                                                *)
(****************************************************************************)
EXTENDS GateRewrites, GateFolds

\* The front ends whose networks are compiled, each a record of
\*   net         a network it starts from, and
\*   results     the terminals it has of it
\*   builders    the calls it uses
\*   operands    the inputs and constants it passes to them
\*   calls       bound on the number of calls
\*   arities     the numbers of inputs of the NANDs and NORs it builds
\*   lowerMuxes  the values of FoldGatesOpts::lower_mux
\*   norArity    FpgaSpec::nor_arity of its target
CONSTANTS FrontEnds

ASSUME PassesAssumption ==
  /\ IsFiniteSet(Inputs)
  /\ \A f \in FrontEnds :
      /\ Foldable(f.net) /\ f.net.outs = 0 /\ f.results \in Seq(Live(f.net))
      /\ f.operands \subseteq Inputs \cup {Low, High}
      /\ f.calls \in Nat
      /\ f.arities \subseteq Nat
      /\ f.lowerMuxes \subseteq BOOLEAN
      /\ f.norArity \in Nat \ {0, 1}

VARIABLES
  frontEnd,   \* the front end
  net,        \* the network
  results,    \* the terminals the front end's calls returned
  declared,   \* the inputs it declared: those its network reads
  lowerMux,   \* FoldGatesOpts::lower_mux of RunGateOptPipeline
  pass,       \* the walk in progress
  fpga,       \* whether LowerFpgaGates has been called
  pos,        \* the gate visited last
  changed,    \* the flag of the pass's own loop
  subChanged, \* the flag of the pipeline's loop without folding
  roundChanged, \* the flag of the loop over the passes
  seen,       \* seen_gates of CseGates, as pairs of a key and a gate
  plan,       \* the list OptimizeNF or MergeGates is working through
  analysis,   \* what MergeGates computed before its first rewrite
  function    \* what the front end's network does (history)

settings == <<frontEnd, results, declared, lowerMux, function>>
vars == <<settings, net, pass, fpga, pos, changed, subChanged, roundChanged, seen, plan,
          analysis>>

----------------------------------------------------------------------------
(* The visits of the canonicalizer and of CseGates.                         *)

\* One visit of RunCanonicalizer.
CanonicalizeGate(n, g) ==
  LET c == Canonicalize(n, g) IN [net |-> c, changed |-> c # n]

----------------------------------------------------------------------------
(* LowerFpgaGates.                                                          *)

\* A NAND of more than two inputs becomes the NOT of a NOR of NOTs.
WidenGate(n, g) ==
  LET nots == AddAll(n, n.ins[g], NotOf)
      nor  == NorOf(nots.net, nots.outs)
      not  == NotOf(nor.net, nor.out)
  IN  IF n.kind[g] = "nand" /\ Len(n.ins[g]) > 2
      THEN Rewritten(not.net, g, not.out)
      ELSE Unchanged(n)

\* The inputs in groups of k, the last one shorter.
Chunks(ins, k) ==
  [c \in 1 .. (Len(ins) + k - 1) \div k |->
     SubSeq(ins, (c - 1) * k + 1, IF c * k < Len(ins) THEN c * k ELSE Len(ins))]

\* Faulty: off by one.
ArityPlusOne(kind) == IF kind = "nor" THEN frontEnd.norArity + 1 ELSE 3

Arity(kind) == IF kind = "nor" THEN frontEnd.norArity ELSE 2

\* A gate with more inputs than the FPGA's becomes the dual of smaller ones.
SplitGate(n, g) ==
  LET kind  == n.kind[g]
      parts == AddAll(n, Chunks(n.ins[g], Arity(kind)),
                      LAMBDA m, ins : NewGate(m, kind, ins))
      top   == NewGate(parts.net, IF kind = "nor" THEN "nand" ELSE "nor", parts.outs)
      not   == NotOf(top.net, top.out)
  IN  IF kind \in {"nand", "nor"} /\ Len(n.ins[g]) > Arity(kind)
      THEN Rewritten(not.net, g, not.out)
      ELSE Unchanged(n)

----------------------------------------------------------------------------
(* The front end: a few calls, each on constants, inputs and the results of *)
(* earlier ones; then each result that no gate reads is declared an output, *)
(* and others may be.  High impedance is for outputs only, so no call reads *)
(* a tri-state buffer ("we should only have high impedance values on        *)
(* outputs", eval.cc).                                                      *)

Operands ==
  {t \in frontEnd.operands \cup ToSet(results) :
     t \in Gates => net.kind[t] # "tri"}

Call(builder, built) ==
  /\ pass = "build" /\ Len(results) < Len(frontEnd.results) + frontEnd.calls
  /\ builder \in frontEnd.builders
  /\ net' = built.net
  /\ results' = Append(results, built.out)
  /\ UNCHANGED <<frontEnd, declared, function, lowerMux, pass, fpga, pos, changed,
                 subChanged, roundChanged, seen, plan, analysis>>

Build ==
  \/ \E k \in frontEnd.arities : \E ins \in [1 .. k -> Operands] :
       Call("nand", NandOf(net, ins)) \/ Call("nor", NorOf(net, ins))
  \/ \E a \in Operands : Call("not", NotOf(net, a))
  \/ \E a, b \in Operands :
       Call("xor", XorOf(net, a, b)) \/ Call("tri", TriStateOf(net, a, b))
  \/ \E a, b, c \in Operands :
       Call("mux", MuxOf(net, a, b, c)) \/ Call("latch", SrLatch(net, a, b, c))

\* The terminals that may be outputs: the results of the calls, if it makes any.
Candidates ==
  IF frontEnd.calls = 0 THEN ToSet(results)
  ELSE {results[i] : i \in Len(frontEnd.results) + 1 .. Len(results)}
Unread == {t \in Candidates : net.uses[t] = {}}

\* The gates MergeGates considers, each with its cuts.
MergePlan(n, a) ==
  LET candidates == CutCandidates(n, a)
      listed == candidates.listed
      outs == Compact(listed, {k \in DOMAIN listed : listed[k] \in Gates})
  IN  [k \in DOMAIN outs |-> [out |-> outs[k], cuts |-> candidates.cuts[outs[k]]]]

\* The walk starts on a network: with the list of rewrites to try, if it has one.
Enter(walk, start) ==
  /\ pass' = walk
  /\ pos' = Sink
  /\ changed' = FALSE
  /\ seen' = {}
  /\ \E n \in {start} : \E a \in IF walk = "merge" THEN {Analysis(n, SetToSeq(declared))} ELSE {<< >>} :
       /\ analysis' = a
       /\ plan' = CASE walk = "nf"    -> NormalForms(n)
                   [] walk = "merge" -> MergePlan(n, a)
                   [] OTHER          -> << >>

Finish ==
  /\ pass = "build"
  /\ \E outs \in SUBSET Candidates \ {{}} :
       /\ Unread \subseteq outs /\ Cardinality(outs) <= MaxOutputs
       /\ net' = FoldLeft(DeclareOutput, net, SetToSeq(outs))
  /\ declared' = {t \in Inputs : net'.uses[t] # {}}
  /\ function' = Function(net', declared')
  /\ lowerMux' \in frontEnd.lowerMuxes
  /\ Enter("nf", net')
  /\ UNCHANGED <<frontEnd, results, fpga, subChanged, roundChanged>>

----------------------------------------------------------------------------
(* The walks.                                                               *)

Ahead == {g \in Live(net) : g > pos}
Reached(g) == g \in Ahead /\ \A h \in Ahead : g <= h

\* One visit: `visited` is what it makes of the network.
Visit(walk, g, visited) ==
  /\ pass = walk
  /\ Reached(g)
  /\ net' = visited.net
  /\ changed' = (changed \/ visited.changed)
  /\ pos' = g
  /\ seen' = IF walk = "cse" /\ Twins(net, seen, g) = {}
             THEN seen \cup {<<Key(net, g), g>>} ELSE seen
  /\ UNCHANGED <<settings, pass, fpga, subChanged, roundChanged, plan, analysis>>

VisitCanonicalize(g) == Visit("canonicalize", g, CanonicalizeGate(net, g))
VisitFold(g)  == ~ FoldRefuses(net, g)
                   /\ Visit("fold", g, FoldGate(net, g, lowerMux /\ ~ fpga))
VisitCse(g)   == Visit("cse", g, CseGate(net, seen, g))
VisitWiden(g) == Visit("widen", g, WidenGate(net, g))
VisitSplit(g) == Visit("split", g, SplitGate(net, g))

\* The next rewrite of the list: `rewritten` is what it may make of the network.
Rewrite(walk, rewritten) ==
  /\ pass = walk
  /\ net' \in rewritten
  /\ changed' = (changed \/ net' # net)
  /\ plan' = Tail(plan)
  /\ UNCHANGED <<settings, pass, fpga, pos, subChanged, roundChanged, seen, analysis>>

VisitNormalForm ==
  /\ pass = "nf" /\ plan # << >> /\ ClausesDistinct(net, Head(plan))
  /\ Rewrite("nf", OptimizeNF(net, Head(plan)))

VisitMerge ==
  /\ pass = "merge" /\ plan # << >>
  /\ \E scores \in {ScoreCuts(net, analysis, Head(plan).out, Head(plan).cuts)} :
       ~ MergeThrows(scores) /\ Rewrite("merge", {MergeGates(net, Head(plan).out, scores)})

Grouped == Groups(net, "nor") \cup Groups(net, "nand") # {}

\* FactorGates is called again as long as it finds a group.
VisitFactor ==
  /\ pass = "factor" /\ Grouped
  /\ net' \in FactorGates(net)
  /\ subChanged' = TRUE
  /\ roundChanged' = TRUE
  /\ UNCHANGED <<settings, pass, fpga, pos, changed, seen, plan, analysis>>

Walked(walk) == pass = walk /\ Ahead = {}

\* FoldGates and CseGates walk again as long as a walk changes something.
Again == /\ Walked("fold") \/ Walked("cse")
         /\ changed
         /\ Enter(pass, net)
         /\ subChanged' = (subChanged \/ (pass = "cse" /\ ~ fpga))
         /\ roundChanged' = TRUE
         /\ UNCHANGED <<settings, net, fpga>>

\* The order of the walks.  RunGateOptPipeline rewrites normal forms, factors,
\* canonicalizes and merges equal gates as long as one of these changes something,
\* then folds and merges into lookups, and starts over if anything changed.  (The
\* CseGates between the inner loop and FoldGates sees the network that CseGates has
\* just left as it was.)  LowerFpgaGates widens once, then folds, splits and merges
\* equal gates as long as one of the three changes something.
FromNormalForms ==
  /\ pass = "nf" /\ plan = << >>
  /\ Enter("factor", net)
  /\ subChanged' = changed
  /\ roundChanged' = (roundChanged \/ changed)
  /\ UNCHANGED <<settings, net, fpga>>

FromFactor ==
  /\ pass = "factor" /\ ~ Grouped
  /\ Enter("canonicalize", net)
  /\ UNCHANGED <<settings, net, fpga, subChanged, roundChanged>>

FromCanonicalize ==
  /\ Walked("canonicalize")
  /\ Enter("cse", net)
  /\ subChanged' = (subChanged \/ changed)
  /\ roundChanged' = (roundChanged \/ changed)
  /\ UNCHANGED <<settings, net, fpga>>

FromCse ==
  /\ Walked("cse") /\ ~ changed
  /\ Enter(CASE subChanged                            -> "nf"
             [] ~ subChanged /\ fpga /\ ~ roundChanged -> "done"
             [] OTHER                                 -> "fold", net)
  /\ subChanged' = FALSE
  /\ roundChanged' = (roundChanged /\ ~ fpga)
  /\ UNCHANGED <<settings, net, fpga>>

FromFold ==
  /\ Walked("fold") /\ ~ changed
  /\ fpga \/ ~ MergeRefuses(net, declared)
  /\ Enter(IF fpga THEN "split" ELSE "merge", net)
  /\ UNCHANGED <<settings, net, fpga, subChanged, roundChanged>>

FromMerge ==
  /\ pass = "merge" /\ plan = << >>
  /\ Enter(IF roundChanged \/ changed THEN "nf" ELSE "widen", net)
  /\ fpga' = ~ (roundChanged \/ changed)
  /\ roundChanged' = FALSE
  /\ UNCHANGED <<settings, net, subChanged>>

FromWiden ==
  /\ Walked("widen")
  /\ Enter("fold", net)
  /\ roundChanged' = FALSE
  /\ UNCHANGED <<settings, net, fpga, subChanged>>

FromSplit ==
  /\ Walked("split")
  /\ Enter("cse", net)
  /\ roundChanged' = (roundChanged \/ changed)
  /\ UNCHANGED <<settings, net, fpga, subChanged>>

\* An assertion or an exception ends the program: OptimizeNF at a clause that has
\* an input twice, FoldGates at a table of one input that is neither of its four,
\* MergeGates at a network that its order or its tree cannot take and at a gate of which
\* it has not met all inputs.
Refused ==
  \/ pass = "nf" /\ plan # << >> /\ ~ ClausesDistinct(net, Head(plan))
  \/ pass = "fold" /\ \E g \in Ahead : Reached(g) /\ FoldRefuses(net, g)
  \/ Walked("fold") /\ ~ changed /\ ~ fpga /\ MergeRefuses(net, declared)
  \/ pass = "merge" /\ plan # << >>
       /\ MergeThrows(ScoreCuts(net, analysis, Head(plan).out, Head(plan).cuts))

Fail == Refused /\ Enter("failed", net) /\ UNCHANGED <<settings, net, fpga, subChanged, roundChanged>>

Pass ==
  \/ \E g \in Ahead : \/ VisitCanonicalize(g) \/ VisitFold(g) \/ VisitCse(g)
                      \/ VisitWiden(g) \/ VisitSplit(g)
  \/ VisitNormalForm \/ VisitFactor \/ VisitMerge
  \/ Again \/ FromNormalForms \/ FromFactor \/ FromCanonicalize \/ FromCse
  \/ FromFold \/ FromMerge \/ FromWiden \/ FromSplit
  \/ Fail

Ended == {"done", "failed"}
Done == pass \in Ended /\ UNCHANGED vars

Init ==
  /\ frontEnd \in FrontEnds
  /\ net = frontEnd.net /\ results = frontEnd.results
  /\ declared = {} /\ lowerMux = FALSE
  /\ pass = "build" /\ fpga = FALSE
  /\ pos = Sink
  /\ changed = FALSE /\ subChanged = FALSE /\ roundChanged = FALSE
  /\ seen = {}
  /\ plan = << >> /\ analysis = << >>
  /\ function = << >>

Next == Build \/ Finish \/ Pass \/ Done

\* The thread that runs the passes does not stop half-way: WF_vars(Pass), as a
\* step of Pass is enabled from the first walk to the end of the last.
Running == []<>(<<TRUE>>_vars) \/ <>[](pass \in {"build"} \cup Ended)

Spec == Init /\ [][Next]_vars /\ Running

----------------------------------------------------------------------------
\* Every call and every visit leaves a network that is well formed, each list of users
\* exact and no gate reading one that CseGates or Canonicalize has erased, and as the
\* rewrites rely on: a select and its complement opposite, no buffer read, each table of
\* the size of its inputs.  No pass reads an input that the front end did not.  CseGates
\* lists gates that it has visited, each under its key or under one that reads a gate
\* that is gone: it merges no gate with one that has changed since it was listed.
PassesWellFormed ==
  /\ Foldable(net)
  /\ pass # "build" => \A t \in Inputs \ declared : net.uses[t] = {}
  /\ pass = "cse" => Current(net, seen) /\ \A s \in seen : s[2] <= pos

\* No visit changes what the network does: for each value of the inputs, the
\* outputs it allows are those the front end's network allowed.
FunctionKept == pass # "build" => Function(net, declared) = function

\* LowerFpgaGates leaves NANDs and NORs of the sizes the FPGA has, no gate that
\* nothing reads, none that FoldGates would simplify and none that duplicates another.
\* (Of NORs with more than two inputs FoldGates drops the neutral inputs but leaves a
\* deciding one: such a NOR may read High.)
IsNot(t) == t \in Gates /\ net.kind[t] = "not"
Neutral(kind) == IF kind = "nor" THEN Low ELSE High
Lowered ==
  pass = "done" =>
    \A g \in Live(net) :
      LET in   == InputsOf(net, g)
          kind == net.kind[g]
          size == Len(net.ins[g])
          most == IF kind = "nor" THEN frontEnd.norArity ELSE 2
      IN  /\ ~ HasNoUse(net, g)
          /\ kind = "not" => net.ins[g][1] \notin {Low, High} /\ ~ IsNot(net.ins[g][1])
          /\ kind = "lookup" => {Low, High} \cap in = {}
          /\ kind \in {"nand", "nor"} =>
               /\ size \in 2 .. most
               /\ Neutral(kind) \notin in
               /\ size = 2 => {Low, High} \cap in = {} /\ \E t \in in : ~ IsNot(t)
          /\ \A h \in Live(net) : Key(net, g) = Key(net, h) => g = h

\* What MergeGates relies on.  When Check says that d post-dominates a gate, each path
\* from the gate to an output really goes through d, also around the network's feedback:
\* only then may a lookup in d's place do without the gate.  And each cut found for a
\* gate determines it: else ScoreCut would take the gate for low.
Stopped(stop) ==
  [net EXCEPT !.uses = [t \in DOMAIN net.uses |-> IF t \in stop THEN {} ELSE net.uses[t]]]
Determined(cut) ==
  Iterated(LAMBDA S : S \cup {g \in Live(net) : net.ins[g] # << >> /\ InputsOf(net, g) \subseteq S},
           ToSet(cut), Cardinality(Live(net)))
AnalysisSound ==
  pass = "merge" /\ ~ changed =>
    /\ \A t \in analysis.known \cap Gates : \A d \in (analysis.known \cap Gates) \ {t} :
         Check(analysis.walk, d, t) => Sink \notin Downstream(Stopped({d}), UsersOf(net, t))
    /\ \A k \in DOMAIN plan : \A c \in DOMAIN plan[k].cuts :
         plan[k].out \in Determined(plan[k].cuts[c])

\* What the passes hand to Lower is what it asserts: nothing reads an erased gate
\* ("encountered a use of a dead gate", lower_gates.cc:45), and a lookup has two inputs
\* and their complements (lower_gates.cc:68).
LowerAccepts ==
  pass = "done" =>
    /\ ReadsLive(net)
    /\ \A g \in Live(net) : net.kind[g] = "lookup" => Len(net.ins[g]) = 4

\* Once the front end is done the passes come to an end: no two rewrites undo each
\* other for ever, and no walk adds gates faster than it visits them.  (Latches
\* whose inputs are constants are outside the instances checked: of those,
\* FoldGates makes rings of NOTs, on which it never ends.)
Terminates == pass # "build" ~> pass \in Ended

=============================================================================
