----------------------------- MODULE GateRewrites -----------------------------
(****************************************************************************)
(* The passes of cpu/gate_opt.cc that look for larger rewrites: OptimizeNF, *)
(* FactorGates and MergeGates, as what one rewrite makes of a network.      *)
(* Where OptimizeNF and FactorGates take the first of several equal choices *)
(* in the order of a hash map or of insertion, an operator here returns the *)
(* set of them.                                                             *)
(****************************************************************************)
EXTENDS GateGraph

IsGate(net, t, kinds) == t \in Gates /\ net.kind[t] \in kinds

\* One gate for each element of args, in order, and the terminals they return.
AddAll(net, args, add(_, _)) ==
  FoldLeft(LAMBDA acc, arg : LET m == add(acc.net, arg)
                             IN  [net |-> m.net, outs |-> Append(acc.outs, m.out)],
           [net |-> net, outs |-> << >>], args)

----------------------------------------------------------------------------
(* OptimizeNF.  A NAND or NOR of NANDs, NORs and NOTs is a normal form: its *)
(* clauses are sets of literals, and a literal is an input and whether it   *)
(* is negated.  (A clause is the mask and the parity of the code.)          *)

Dual(kind) == IF kind = "nor" THEN "nand" ELSE "nor"

\* The inputs of g that are clauses; a dual one only if nothing else uses it.
ClausePlaces(net, g) ==
  {i \in DOMAIN net.ins[g] :
     LET h == net.ins[g][i]
     IN  \/ IsGate(net, h, {net.kind[g], "not"})
         \/ IsGate(net, h, {Dual(net.kind[g])}) /\ Cardinality(net.uses[h]) = 1}

IsNormalForm(net, g) ==
  LET places == ClausePlaces(net, g)
  IN  /\ net.kind[g] \in {"nand", "nor"}
      /\ \/ Cardinality(places) > 1
         \/ \E i \in places : IsGate(net, net.ins[g][i], {Dual(net.kind[g])})

NormalForm(net, g) ==
  [ root    |-> g,
    clauses |-> {net.ins[g][i] : i \in ClausePlaces(net, g)},
    extras  |-> Compact(net.ins[g], DOMAIN net.ins[g] \ ClausePlaces(net, g)) ]

\* The normal forms the pass finds before it rewrites any.
NormalForms(net) ==
  LET roots == InOrder({g \in Live(net) : IsNormalForm(net, g)})
  IN  [k \in DOMAIN roots |-> NormalForm(net, roots[k])]

\* Input i of a clause as a literal.
Literal(net, h, i) ==
  LET t == net.ins[h][i]
  IN  IF IsGate(net, t, {"not"}) THEN <<net.ins[t][1], TRUE>> ELSE <<t, FALSE>>
Literals(net, h) == {Literal(net, h, i) : i \in DOMAIN net.ins[h]}
Variables(clause) == {l[1] : l \in clause}

\* The assertion that no clause has an input twice; dual clauses are taken apart.
ClausesDistinct(net, nf) ==
  \A h \in nf.clauses :
    net.kind[h] # Dual(net.kind[nf.root]) =>
      Cardinality(Variables(Literals(net, h))) = Len(net.ins[h])

ClauseSets(net, nf) ==
  UNION {IF net.kind[h] = Dual(net.kind[nf.root])
         THEN {{l} : l \in Literals(net, h)} ELSE {Literals(net, h)} : h \in nf.clauses}

\* ab + abc = ab.
Absorb(cs) == {c \in cs : \A d \in cs : ~ (d \subseteq c /\ d # c)}

\* Two clauses of the same inputs that differ in the sign of one.
Pairs(cs) ==
  {p \in SUBSET cs : \E c, d \in p :
     p = {c, d} /\ Variables(c) = Variables(d) /\ Cardinality(c \ d) = 1}

\* The ways to pair clauses off until no two are left that could be paired.
Pairings(cs) ==
  {m \in SUBSET Pairs(cs) :
     /\ \A p, q \in m : p = q \/ p \cap q = {}
     /\ \A p \in Pairs(cs) : \E q \in m : p \cap q # {}}

\* Each pair is replaced by what its clauses have in common.
Combine(cs, pairing) ==
  (cs \ UNION pairing) \cup {{l \in UNION p : \A c \in p : l \in c} : p \in pairing}

\* The sets of clauses that absorbing and combining in turn ends with: each round
\* but the last leaves at least one clause less.
Minimised(cs) ==
  Iterated(LAMBDA forms : UNION {{Combine(c, pairing) : pairing \in Pairings(c)} :
                                   c \in {Absorb(d) : d \in forms}},
           {cs}, Cardinality(cs) + 1)

\* The gate of root's kind with the extra inputs and a gate for each clause.
Rebuild(net, nf, cs) ==
  LET kind   == net.kind[nf.root]
      inputs == SetToSeq(UNION {Variables(Literals(net, h)) : h \in nf.clauses})
      nots   == AddAll(net, inputs, NotOf)
      Signed(l) == LET i == CHOOSE i \in DOMAIN inputs : inputs[i] = l[1]
                   IN  IF l[2] THEN nots.outs[i] ELSE l[1]
      inner  == AddAll(nots.net, SetToSeq(cs),
                       LAMBDA n, c : NewGate(n, kind, SetToSeq({Signed(l) : l \in c})))
      root   == NewGate(inner.net, kind, nf.extras \o inner.outs)
  IN  ReplaceAllUsesWith(root.net, nf.root, root.out)

\* What the rewrite of one normal form makes of the network.
OptimizeNF(net, nf) ==
  LET cs   == ClauseSets(net, nf)
      flat == \E h \in nf.clauses : net.kind[h] = Dual(net.kind[nf.root])
  IN  {IF flat \/ ms # cs THEN Rebuild(net, nf, ms) ELSE net : ms \in Minimised(cs)}

----------------------------------------------------------------------------
(* FactorGates: of gates with inputs in common, one gate of these.          *)

OfKind(net, kind) == {g \in Live(net) : net.kind[g] = kind}

\* The inputs that gates of the kind use more than once between them.
SharedInputs(net, kind) ==
  {t \in UNION {InputsOf(net, g) : g \in OfKind(net, kind)} :
     Cardinality({u \in net.uses[t] : u[1] \in OfKind(net, kind)}) > 1}

GatesWith(net, kind, inputs) ==
  {g \in OfKind(net, kind) : inputs \subseteq InputsOf(net, g)}

IsOnlyUsedByNot(net, t) ==
  net.uses[t] # {} /\ \A u \in UsersOf(net, t) : IsGate(net, u, {"not"})

MaxBenefit(k, n) == 2 * k * n - 2 * n - 4 * k
Benefit(net, gates, n) ==
  LET k == Cardinality(gates)
  IN  2 * k * n - 2 * n - 6 * k + 2 * Cardinality({g \in gates : IsOnlyUsedByNot(net, g)})

Groups(net, kind) ==
  {inputs \in SUBSET SharedInputs(net, kind) :
     LET gates == GatesWith(net, kind, inputs)
         n     == Cardinality(inputs)
     IN  n > 1 /\ MaxBenefit(Cardinality(gates), n) > 0 /\ Benefit(net, gates, n) > 0}

\* g without the shared inputs, and the AND or OR of it and the factored gate in
\* its place everywhere but in that AND or OR.
FactorOne(net, kind, inputs, factored, g) ==
  LET rest == FoldLeft(LAMBDA n, t : EraseInputs(n, g, t), net, SetToSeq(inputs))
      rep  == IF kind = "nor" THEN AndOf(rest, factored, g) ELSE OrOf(rest, factored, g)
  IN  ReplaceUsesExcept(rep.net, g, rep.out, rep.net.ins[rep.out][1])

FactorGroup(net, kind, inputs) ==
  LET factored == NewGate(net, kind, SetToSeq(inputs))
  IN  FoldLeft(LAMBDA n, g : FactorOne(n, kind, inputs, factored.out, g),
               factored.net, InOrder(GatesWith(net, kind, inputs)))

\* One of the largest groups that pay off.
FactorKind(net, kind) ==
  LET groups == Groups(net, kind)
  IN  IF groups = {} THEN {net}
      ELSE {FactorGroup(net, kind, inputs) :
              inputs \in {a \in groups : \A b \in groups : Cardinality(a) >= Cardinality(b)}}

FactorGates(net) == UNION {FactorKind(n, "nand") : n \in FactorKind(net, "nor")}

----------------------------------------------------------------------------
(* MergeGates: gates between an output and a cut of at most two terminals   *)
(* become one lookup.  What the pass computes before its first rewrite and  *)
(* uses for all of them is a record of the order without its sinks, the     *)
(* sources, the sinks, the terminals known to the post-dominators, and the  *)
(* walk through their tree.                                                 *)

\* TopoSort takes no constants, the tree needs a user of every terminal of the order, of
\* the inputs and the gates, and Sccs takes no gate that reads itself.
MergeRefuses(net, inputs) ==
  \/ \E t \in {Low, High} : net.uses[t] # {}
  \/ \E t \in inputs \cup Live(net) : net.uses[t] = {}
  \/ \E g \in Live(net) : g \in InputsOf(net, g)

Analysis(net, inputs) ==
  LET down    == Dependents(net)
      sinks   == <<Sink>> \o InOrder(FeedbackSinks(net, down))
      sources == inputs \o InOrder(FeedbackSources(net, down))
      order   == TopoSort(net, sources, ToSet(sinks))
  IN  [ order   |-> order,
        sinks   |-> sinks,
        sources |-> sources,
        known   |-> KnownTerminals(net, order, sinks),
        walk    |-> WalkTree(PostDominatorTree(net, order, sinks, DefaultTerminal(inputs)), sinks) ]

\* cut with those terminals of acc that it lacks.
Joined(acc, cut) == cut \o Compact(acc, {i \in DOMAIN acc : acc[i] \notin ToSet(cut)})

\* collect: the joins of the cuts of g's inputs, one input after the other, that have at
\* most two terminals, and the inputs whose cuts have been asked for.
Collect(cuts, ins) ==
  LET Joins(acc, t) == LET all == [k \in DOMAIN cuts[t] |-> Joined(acc, cuts[t][k])]
                       IN  Compact(all, {k \in DOMAIN all : Len(all[k]) <= 2})
      Ask(s, t) == IF s.accs = << >> THEN s
                   ELSE [ accs  |-> FoldLeft(LAMBDA all, acc : all \o Joins(acc, t), << >>, s.accs),
                          asked |-> Append(s.asked, t) ]
  IN  FoldLeft(Ask, [accs |-> << << >> >>, asked |-> << >>], ins)

AppendNew(s, x) == IF x \in ToSet(s) THEN s ELSE Append(s, x)

\* GetCutCandidates: for each terminal of the order the cuts that all its paths from the
\* sources meet, and the terminals in the order in which they get an entry.  (A cut found
\* again is left out: it would score the same.)
CutCandidates(net, analysis) ==
  LET first == [ cuts   |-> [t \in Terminals |->
                               IF t \in ToSet(analysis.sources) THEN << <<t>> >> ELSE << >>],
                 listed |-> analysis.sources ]
      Add(s, out) ==
        LET collected == Collect(s.cuts, net.ins[out])
            own       == IF Len(net.ins[out]) <= 2 THEN << <<out>> >> ELSE << >>
        IN  [ cuts   |-> [s.cuts EXCEPT ![out] = FoldLeft(AppendNew, @, own \o collected.accs)],
              listed |-> FoldLeft(AppendNew, s.listed, <<out>> \o collected.asked) ]
  IN  FoldLeft(Add, first,
               SubSeq(analysis.order, Len(analysis.sources) + 1, Len(analysis.order)))

\* The value of g on each row of the cut's two terminals, from those of its inputs.
Table(net, g, funs) ==
  LET all  == DOMAIN net.ins[g]
      V(i, row) == funs[net.ins[g][i]][row]
      Value(row) ==
        CASE net.kind[g] = "mux" -> (V(1, row) /\ V(3, row)) \/ (V(2, row) /\ V(4, row))
          [] net.kind[g] \in {"not", "nor"} -> \A i \in all : ~ V(i, row)
          [] net.kind[g] = "nand" -> \E i \in all : ~ V(i, row)
          [] net.kind[g] = "lookup" ->
               net.lut[g][1 + (IF V(1, row) THEN 1 ELSE 0) + (IF V(2, row) THEN 2 ELSE 0)]
  IN  [row \in 1 .. 4 |-> Value(row)]

\* What the walk does on a gate whose inputs it has met.  It fails at a gate that the pass
\* has added and at a tri-state buffer, and throws where a table is missing: the count of
\* a gate's inputs may be complete before they have all been met, as a terminal of the cut
\* that the others determine is met, and counted, again.
Meet(net, analysis, s, g) ==
  IF g \notin analysis.known THEN [s EXCEPT !.end = "failed"]
  ELSE IF ~ (InputsOf(net, g) \subseteq DOMAIN s.funs) THEN [s EXCEPT !.end = "thrown"]
  ELSE IF net.kind[g] = "tri" THEN [s EXCEPT !.end = "failed"]
  ELSE [s EXCEPT !.funs = (g :> Table(net, g, s.funs)) @@ @,
                 !.met  = @ \cup {g},
                 !.todo = Append(@, g)]

\* WalkCut: from the terminals of the cut to their users.  A gate is met when its inputs
\* have been counted, a terminal of the cut too, whose table is then another one; the walk
\* does not go on behind out.  (The output gate, whose inputs are kMaxOutputs, is not met.)
WalkCut(net, analysis, out, cut) ==
  LET Count(s, u) ==
        IF s.end # "none" \/ u = Sink THEN s
        ELSE LET counted == [s EXCEPT !.seen[u] = @ + 1]
             IN  IF counted.seen[u] = Len(net.ins[u]) THEN Meet(net, analysis, counted, u)
                 ELSE counted
      Step(s) ==
        IF s.todo = << >> \/ s.end # "none" THEN s
        ELSE FoldLeft(Count, [s EXCEPT !.todo = Tail(@)],
                      IF Head(s.todo) = out THEN << >> ELSE UserList(net, Head(s.todo)))
  IN  Iterated(Step,
               [ todo |-> cut, seen |-> [g \in Live(net) |-> 0], met |-> {}, end |-> "none",
                 funs |-> [t \in ToSet(cut) |->
                             [row \in 1 .. 4 |->
                                Bit(row - 1, CHOOSE i \in DOMAIN cut : cut[i] = t) = 1]] ],
               Len(cut) + Cardinality(Live(net)))

GetCost(net, g) ==
  LET n == Len(net.ins[g])
  IN  CASE net.kind[g] \in {"not", "nand", "nor"} -> 2 * n
        [] net.kind[g] = "mux"    -> 4
        [] net.kind[g] = "lookup" -> (2 ^ (n \div 2)) * (n \div 2)
        [] net.kind[g] = "tri"    -> 2
        [] net.kind[g] = "dead"   -> 0

CostOf(net, gates) == FoldSet(LAMBDA g, sum : GetCost(net, g) + sum, 0, gates)

\* Faulty: all gates that the walk has met, also those used outside it.
RemovableAll(analysis, out, met) == met

Removable(analysis, out, met) == {g \in met : Check(analysis.walk, out, g)}

\* ScoreCut.  An out that the walk has not met is low.
ScoreCut(net, analysis, out, cut) ==
  LET walk      == WalkCut(net, analysis, out, cut)
      removable == Removable(analysis, out, walk.met)
  IN  [ cut       |-> cut,
        thrown    |-> walk.end = "thrown",
        scored    |-> walk.end = "none" /\ removable # {},
        function  |-> IF out \in DOMAIN walk.funs THEN walk.funs[out]
                      ELSE [row \in 1 .. 4 |-> FALSE],
        score     |-> CostOf(net, removable),
        removable |-> removable ]

ScoreCuts(net, analysis, out, cuts) ==
  [k \in DOMAIN cuts |-> ScoreCut(net, analysis, out, cuts[k])]

\* funs.at throws in one of the walks.
MergeThrows(scores) == \E k \in DOMAIN scores : scores[k].thrown

\* FindNot: the complement of t that there is, if any.
FindNot(net, t) ==
  LET nots == {u \in UsersOf(net, t) : IsGate(net, u, {"not"})}
  IN  IF IsGate(net, t, {"not"}) THEN net.ins[t][1]
      ELSE IF nots = {} THEN Null ELSE InOrder(nots)[1]

EraseAll(net, gates) == FoldSet(LAMBDA g, n : Erase(n, g), net, gates)

\* The lookup in place of out, with the complements that exist and new ones; net itself if
\* that does not pay off.  Only the complements are kept of what is to be removed.
Merge(net, out, best) ==
  LET cut      == best.cut
      found    == [i \in DOMAIN cut |-> FindNot(net, cut[i])]
      missing  == {i \in DOMAIN cut : found[i] = Null}
      kept     == best.removable \cap ToSet(found)
      nots     == AddAll(net, [i \in DOMAIN cut |-> i],
                         LAMBDA n, i : IF found[i] # Null THEN [net |-> n, out |-> found[i]]
                                       ELSE NotOf(n, cut[i]))
      lookup   == AddLookup(nots.net, "lookup", cut \o nots.outs, best.function)
  IN  IF best.score > 8 /\ best.score - 2 * Cardinality(kept) > 8 + 2 * Cardinality(missing)
      THEN EraseAll(ReplaceAllUsesWith(lookup, out, NextGate(nots.net)),
                    best.removable \ kept)
      ELSE net

\* What the rewrite of out makes of the network, with the first of its best cuts.
MergeGates(net, out, scores) ==
  LET valid  == {k \in DOMAIN scores : scores[k].scored}
      Better(j, k) == \/ scores[j].score > scores[k].score
                      \/ scores[j].score = scores[k].score /\ j < k
  IN  IF valid = {} THEN net
      ELSE Merge(net, out, scores[CHOOSE k \in valid : \A j \in valid \ {k} : Better(k, j)])

=============================================================================
