----------------------------- MODULE GateNetwork -----------------------------
(****************************************************************************)
(* The life of a GateNetwork (cpu/gate_lib.h): a front end builds gates,    *)
(* closes feedback loops and declares the outputs; then the passes of       *)
(* cpu/gate_opt.cc rewrite the network through the calls below, in any      *)
(* order.  No pass hands in a terminal of a gate it has seen erased: every  *)
(* operand is a terminal that is live when the call is made.  Erase is for  *)
(* gates that nothing reads: MergeGates also erases gates that are still    *)
(* read (see GatePasses), and that call is not among these.                 *)
(****************************************************************************)
EXTENDS GateNet

VARIABLE net

vars == <<net>>

Init == net = EmptyNet

----------------------------------------------------------------------------
\* Room for the gates a call may add: the bound on the deque gates_.
Room(n) == net.size + n <= MaxGates

\* The front end is at work until the last output is declared.
Building(n) == net.outs < MaxOutputs /\ Room(n)

Not(a) == /\ Building(1)
          /\ net' = NotOf(net, a).net

Nand(a, b) == /\ Building(1)
              /\ net' = NandOf(net, <<a, b>>).net

Nor(a, b) == /\ Building(1)
             /\ net' = NorOf(net, <<a, b>>).net

Xor(a, b) == /\ Building(3)
             /\ net' = XorOf(net, a, b).net

Mux(sel, high, low) == /\ Building(2)
                       /\ net' = MuxOf(net, sel, high, low).net

TriStateBuffer(enable, data) == /\ Building(2)
                                /\ net' = TriStateOf(net, enable, data).net

MakeSrLatch(s, r, reset) == /\ Building(2)
                            /\ net' = SrLatch(net, s, r, reset).net

Output(t) == /\ Building(0)
             /\ net' = DeclareOutput(net, t)

\* The passes run on a finished network.
Optimizing == net.outs = MaxOutputs

Reads(g) == {net.ins[g][i] : i \in DOMAIN net.ins[g]}

\* A NAND or NOR loses the inputs that read t.
DropInputs(g, t) == /\ Optimizing
                    /\ net.kind[g] \in {"nand", "nor"}
                    /\ net' = EraseInputs(net, g, t)

\* FoldGates: the users of g move to a constant, to an operand of g or to an
\* operand of an operand.
Replacements(g) ==
  {Low, High} \cup Reads(g) \cup UNION {Reads(h) : h \in Reads(g) \cap Gates}
Replace(g, r) == /\ Optimizing
                 /\ net' = ReplaceAllUsesWith(net, g, r)

\* FactorGates: the users of g move to And(f, g), but for the NAND inside it.
Factor(g, f) ==
  /\ Optimizing
  /\ Room(2)
  /\ LET n == NandOf(net, <<f, g>>)
         r == NotOf(n.net, n.out)
     IN  net' = ReplaceUsesExcept(r.net, g, r.out, n.out)

\* CseGates: g is a copy of h, its inputs in another order at most.
Merge(g, h) == /\ Optimizing
               /\ g # h
               /\ net.kind[g] = net.kind[h] /\ net.lut[g] = net.lut[h]
               /\ Reads(g) = Reads(h)
               /\ net' = Erase(ReplaceAllUsesWith(net, g, h), g)

CanonicalizeGate(g) == /\ Optimizing
                       /\ net' = Canonicalize(net, g)

Build ==
  \/ \E a \in LiveTerminals(net) : Not(a) \/ Output(a)
  \/ \E a, b \in LiveTerminals(net) :
        Nand(a, b) \/ Nor(a, b) \/ Xor(a, b) \/ TriStateBuffer(a, b)
  \/ \E a, b, c \in LiveTerminals(net) : Mux(a, b, c) \/ MakeSrLatch(a, b, c)

Rewrite ==
  \/ \E g \in Live(net) : CanonicalizeGate(g)
  \/ \E g \in Live(net) : \E t \in Reads(g) : DropInputs(g, t)
  \/ \E g \in Live(net) : \E t \in Replacements(g) : Replace(g, t)
  \/ \E g, h \in Live(net) : Merge(g, h) \/ Factor(g, h)

Next == Build \/ Rewrite

Spec == Init /\ [][Next]_vars

----------------------------------------------------------------------------
\* The fields have their types, and a position no gate holds has no inputs.
TypeOK == IsNet(net) /\ DeadIsBare(net)

\* A user is listed in uses_ exactly where an input of it reads.  Every
\* assert(erased) and assert(inserted) of gate_lib.cc is an instance, and
\* ReplaceAllUsesWith, HasNoUse and Erase are right only if it holds.
UsesExact == ExactUses(net)

\* No gate and no output reads an erased gate: what Lower asserts of the network
\* it is given ("encountered a use of a dead gate", lower_gates.cc), and what its
\* lowered.at(input) throws on.
NoDeadRead == ReadsLive(net)

\* An erased gate is out of the network for good: it has no inputs and no users,
\* and no call revives it.
ErasedForGood ==
  [][\A g \in 1 .. net.size : net.kind[g] = "dead" =>
       /\ net'.kind[g] = "dead"
       /\ net'.ins[g] = << >>
       /\ net'.uses[g] = {}]_vars

\* The inductive invariant the proofs use: the three invariants above together.
IInv == WellFormed(net)

=============================================================================
