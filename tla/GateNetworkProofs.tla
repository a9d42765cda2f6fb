--------------------------- MODULE GateNetworkProofs ---------------------------
(****************************************************************************)
(* Proofs about GateNetwork, for every number of gates, outputs and input   *)
(* bits.                                                                    *)
(****************************************************************************)
EXTENDS GateNetwork, GateFoldsProofs

LEMMA InitSound == Init => IInv
<1> SUFFICES IsNet(EmptyNet) /\ Listed(EmptyNet) /\ ReadsLive(EmptyNet)
               /\ DeadIsBare(EmptyNet)
  BY SoundIsWellFormed DEF Init, IInv, Sound
<1>1. MaxGates \in Nat /\ MaxOutputs \in Nat /\ Sink \notin Gates /\ Null \notin Terminals
  BY NetAssumption, NullIsNoTerminal DEF Sink, Gates
<1>2. IsNet(EmptyNet)
  <2>1. [i \in 1 .. MaxOutputs |-> Null] \in Seq(Terminals \cup {Null})
    BY <1>1
  <2>2. << >> \in Seq(Terminals \cup {Null}) /\ << >> \in Seq(BOOLEAN)
    OBVIOUS
  <2>3. {<<Sink, i>> : i \in 1 .. MaxOutputs} \in SUBSET (Users \X Nat)
    BY <1>1 DEF Users
  <2> QED  BY <1>1, <2>1, <2>2, <2>3 DEF EmptyNet, IsNet, Kinds
<1>3. /\ \A u \in Users : EmptyNet.ins[u] =
           IF u = Sink THEN [i \in 1 .. MaxOutputs |-> Null] ELSE << >>
      /\ \A t \in Terminals : EmptyNet.uses[t] = {}
      /\ EmptyNet.uses[Null] = {<<Sink, i>> : i \in 1 .. MaxOutputs}
      /\ \A g \in Gates : EmptyNet.kind[g] = "dead"
      /\ EmptyNet.outs = 0
  BY <1>1 DEF EmptyNet
<1>4. /\ DOMAIN EmptyNet.ins[Sink] = 1 .. MaxOutputs
      /\ \A u \in Users : \A i \in DOMAIN EmptyNet.ins[u] :
           u = Sink /\ i > 0 /\ EmptyNet.ins[u][i] = Null
  <2>1. Sink \in Users
    BY DEF Users
  <2>2. ASSUME NEW u \in Users, u # Sink PROVE DOMAIN EmptyNet.ins[u] = {}
    BY <1>3, <2>2
  <2>3. \A i \in 1 .. MaxOutputs : i > 0
    BY <1>1
  <2>4. /\ DOMAIN EmptyNet.ins[Sink] = 1 .. MaxOutputs
        /\ \A i \in 1 .. MaxOutputs : EmptyNet.ins[Sink][i] = Null
    BY <1>3, <2>1
  <2> QED  BY <2>2, <2>3, <2>4
<1>5. Listed(EmptyNet)
  BY <1>1, <1>3, <1>4 DEF Listed
<1>6. ReadsLive(EmptyNet)
  BY <1>3, <1>4 DEF ReadsLive
<1>7. DeadIsBare(EmptyNet)
  BY <1>1, <1>3, <1>4 DEF DeadIsBare, Users
<1> QED  BY <1>2, <1>5, <1>6, <1>7

LEMMA ReadsAreLive ==
  ASSUME Sound(net), NEW g \in Live(net)
  PROVE  Reads(g) \in SUBSET LiveTerminals(net)
<1>1. g \in Users /\ g # Sink
  BY LiveFacts DEF Sound, Users, Gates, Sink
<1> QED  BY <1>1 DEF Sound, ReadsLive, Reads

LEMMA ReplacementsAreLive ==
  ASSUME Sound(net), NEW g \in Live(net)
  PROVE  Replacements(g) \in SUBSET LiveTerminals(net)
<1>1. \A h \in Reads(g) \cap Gates : h \in Live(net)
  <2>1. Inputs \cap Gates = {} /\ Low \notin Gates /\ High \notin Gates
    BY NetAssumption DEF Gates
  <2> QED  BY <2>1, ReadsAreLive DEF LiveTerminals
<1>2. \A h \in Reads(g) \cap Gates : Reads(h) \in SUBSET LiveTerminals(net)
  BY <1>1, ReadsAreLive
<1> QED  BY <1>2, ReadsAreLive, LiveFacts DEF Replacements, Sound

\* Every call leaves a sound network in which no gate is revived.
LEMMA NextStep == IInv /\ Next => Step(net, net')
<1> SUFFICES ASSUME Sound(net), Next PROVE Step(net, net')
  BY SoundIsWellFormed DEF IInv
<1>1. net.size \in Nat
  BY NetFields DEF Sound
<1>2. ASSUME NEW a \in LiveTerminals(net), Not(a)  PROVE Step(net, net')
  <2>1. net.size < MaxGates /\ net' = NotOf(net, a).net
    BY <1>1, <1>2, NetAssumption DEF Not, Building, Room
  <2> QED  BY <2>1, NotOfExtends DEF Extends
<1>3. ASSUME NEW a \in LiveTerminals(net), NEW b \in LiveTerminals(net),
             Nand(a, b) \/ Nor(a, b)
      PROVE  Step(net, net')
  <2> DEFINE s == <<a, b>>
  <2>1. net.size < MaxGates /\ s \in Seq(LiveTerminals(net))
    BY <1>1, <1>3, NetAssumption DEF Nand, Nor, Building, Room
  <2>2. net' = NandOf(net, s).net \/ net' = NorOf(net, s).net
    BY <1>3 DEF Nand, Nor
  <2> HIDE DEF s
  <2> QED  BY <2>1, <2>2, NandNorOf DEF Extends
<1>4. ASSUME NEW a \in LiveTerminals(net), NEW b \in LiveTerminals(net), Xor(a, b)
      PROVE  Step(net, net')
  BY <1>4, XorOfExtends DEF Xor, Building, Room, Extends
<1>5. ASSUME NEW a \in LiveTerminals(net), NEW b \in LiveTerminals(net),
             TriStateBuffer(a, b)
      PROVE  Step(net, net')
  BY <1>5, TriStateOfExtends DEF TriStateBuffer, Building, Room, Extends
<1>6. ASSUME NEW a \in LiveTerminals(net), NEW b \in LiveTerminals(net),
             NEW c \in LiveTerminals(net), MakeSrLatch(a, b, c)
      PROVE  Step(net, net')
  BY <1>6, SrLatchSound DEF MakeSrLatch, Building, Room
<1>7. ASSUME NEW a \in LiveTerminals(net), NEW b \in LiveTerminals(net),
             NEW c \in LiveTerminals(net), Mux(a, b, c)
      PROVE  Step(net, net')
  BY <1>7, MuxOfExtends DEF Mux, Building, Room, Extends
<1>8. ASSUME NEW t \in LiveTerminals(net), Output(t)  PROVE Step(net, net')
  <2>1. net.outs < MaxOutputs /\ net' = DeclareOutput(net, t)
    BY <1>8 DEF Output, Building
  <2>2. /\ Sound(net') /\ net'.size = net.size /\ Live(net') = Live(net)
    BY <2>1, DeclareOutputSound
  <2> QED  BY <2>2, ShrinkStep
<1>9. ASSUME NEW g \in Live(net), CanonicalizeGate(g)  PROVE Step(net, net')
  <2>1. /\ Sound(net') /\ net'.size = net.size
        /\ Live(net') \in {Live(net), Live(net) \ {g}}
    BY <1>9, CanonicalizeSound DEF CanonicalizeGate
  <2> QED  BY <2>1, ShrinkStep
<1>10. ASSUME NEW g \in Live(net), NEW t, DropInputs(g, t)  PROVE Step(net, net')
  <2>1. Sound(net') /\ net'.size = net.size /\ Live(net') = Live(net)
    BY <1>10, EraseInputsSound DEF DropInputs
  <2> QED  BY <2>1, ShrinkStep
<1>11. ASSUME NEW g \in Live(net), NEW t \in Replacements(g), Replace(g, t)
       PROVE  Step(net, net')
  <2>1. net' = ReplaceUsesExcept(net, g, t, Null) /\ t \in LiveTerminals(net)
    BY <1>11, ReplacementsAreLive DEF Replace, ReplaceAllUsesWith
  <2>2. Sound(net') /\ net'.size = net.size /\ Live(net') = Live(net)
    BY <2>1, ReplaceUsesSound
  <2> QED  BY <2>2, ShrinkStep
<1>12. ASSUME NEW g \in Live(net), NEW h \in Live(net), Merge(g, h)
       PROVE  Step(net, net')
  <2> DEFINE m == ReplaceUsesExcept(net, g, h, Null)
  <2>1. h # g /\ net' = Erase(m, g)
    BY <1>12 DEF Merge, ReplaceAllUsesWith
  <2>2. h \in LiveTerminals(net)
    BY DEF LiveTerminals
  <2>3. Sound(m) /\ m.size = net.size /\ Live(m) = Live(net) /\ m.uses[g] = {}
    BY <2>1, <2>2, ReplaceUsesSound
  <2> HIDE DEF m
  <2>4. Sound(net') /\ net'.size = net.size /\ Live(net') = Live(net) \ {g}
    BY <2>1, <2>3, EraseSound
  <2> QED  BY <2>4, ShrinkStep
<1>13. ASSUME NEW g \in Live(net), NEW f \in Live(net), Factor(g, f)
       PROVE  Step(net, net')
  <2> DEFINE s == <<f, g>>
             n == NandOf(net, s)
             r == NotOf(n.net, n.out)
  <2>1. /\ net.size + 2 <= MaxGates /\ net.size < MaxGates
        /\ net' = ReplaceUsesExcept(r.net, g, r.out, n.out)
    BY <1>1, <1>13, NetAssumption DEF Factor, Room
  <2>2. s \in Seq(LiveTerminals(net))
    BY DEF LiveTerminals
  <2> HIDE DEF s
  <2>3. Extends(net, n.net, 1) /\ n.out \in LiveTerminals(n.net)
    BY <2>1, <2>2, NandNorOf DEF LiveTerminals
  <2> HIDE DEF n
  <2>4. Extends(net, r.net, 2) /\ r.out \in LiveTerminals(r.net)
    BY <2>1, <2>3, ThenNot
  <2> HIDE DEF r
  <2>5. Sound(r.net) /\ g \in Live(r.net) /\ Step(net, r.net)
    BY <2>4 DEF Extends, Step
  <2>6. Sound(net') /\ net'.size = r.net.size /\ Live(net') = Live(r.net)
    BY <2>1, <2>4, <2>5, ReplaceUsesSound
  <2> QED  BY <2>5, <2>6, ShrinkStep, StepTrans
<1>14. CASE Build
  BY <1>2, <1>3, <1>4, <1>5, <1>6, <1>8, <1>14, <1>7 DEF Build
<1>15. CASE Rewrite
  BY <1>9, <1>10, <1>11, <1>12, <1>13, <1>15 DEF Rewrite
<1> QED  BY <1>14, <1>15 DEF Next

\* Step, spelt out as ErasedForGood states it.
LEMMA StepErases ==
  ASSUME Sound(net), Step(net, net')
  PROVE  \A g \in 1 .. net.size : net.kind[g] = "dead" =>
           /\ net'.kind[g] = "dead"
           /\ net'.ins[g] = << >>
           /\ net'.uses[g] = {}
<1> SUFFICES ASSUME NEW g \in 1 .. net.size, net.kind[g] = "dead"
             PROVE  /\ net'.kind[g] = "dead"
                    /\ net'.ins[g] = << >>
                    /\ net'.uses[g] = {}
  OBVIOUS
<1>1. g \in Gates /\ g \in Terminals /\ Sound(net')
  BY NetFields, NetAssumption DEF Sound, Step, Gates, Terminals
<1>2. net'.kind[g] = "dead"
  BY <1>1 DEF Step, Live
<1>3. net'.ins[g] = << >>
  BY <1>1, <1>2 DEF Sound, DeadIsBare
<1>4. g \notin LiveTerminals(net') /\ g # Null
  BY <1>1, <1>2, NetAssumption, NullIsNoTerminal DEF LiveTerminals, Live, Gates
<1>5. \A u \in Users : \A i \in Nat : <<u, i>> \notin net'.uses[g]
  <2> SUFFICES ASSUME NEW u \in Users, NEW i \in Nat, <<u, i>> \in net'.uses[g]
               PROVE  FALSE
    OBVIOUS
  <2>1. i \in DOMAIN net'.ins[u] /\ net'.ins[u][i] = g
    BY <1>1 DEF Sound, Listed
  <2> QED  BY <1>1, <1>4, <2>1 DEF Sound, ReadsLive
<1>6. net'.uses[g] \in SUBSET (Users \X Nat)
  BY <1>1, NetFields DEF Sound
<1> QED  BY <1>2, <1>3, <1>5, <1>6

LEMMA StepInvariant == IInv /\ [Next]_vars => IInv'
<1>1. ASSUME IInv, Next PROVE IInv'
  BY <1>1, NextStep, SoundIsWellFormed DEF IInv, Step
<1>2. ASSUME IInv, UNCHANGED vars PROVE IInv'
  BY <1>2 DEF vars, IInv
<1> QED  BY <1>1, <1>2

\* The well-formedness of the network is invariant: the strengthening the
\* theorems below are read off.
THEOREM Invariant == Spec => []IInv
BY InitSound, StepInvariant, PTL DEF Spec

\* The fields of a network keep their types through every call of the front end
\* and of the passes.
THEOREM TypeCorrect == Spec => []TypeOK
<1>1. IInv => TypeOK
  BY DEF IInv, WellFormed, TypeOK
<1> QED  BY <1>1, Invariant, PTL

\* uses_ is at all times the exact inverse of the inputs, so none of the
\* assertions of gate_lib.cc on insertions and erasures can fail.
THEOREM UsesStayExact == Spec => []UsesExact
<1>1. IInv => UsesExact
  BY DEF IInv, WellFormed, UsesExact
<1> QED  BY <1>1, Invariant, PTL

\* No call leaves a gate or an output reading an erased gate: the network is
\* always one Lower accepts.
THEOREM NothingReadsTheDead == Spec => []NoDeadRead
<1>1. IInv => NoDeadRead
  BY DEF IInv, WellFormed, NoDeadRead
<1> QED  BY <1>1, Invariant, PTL

\* No call revives an erased gate or gives it an input or a user.
THEOREM ErasureIsFinal == Spec => ErasedForGood
<1> DEFINE Kept == \A g \in 1 .. net.size : net.kind[g] = "dead" =>
                      /\ net'.kind[g] = "dead"
                      /\ net'.ins[g] = << >>
                      /\ net'.uses[g] = {}
<1>1. IInv /\ [Next]_vars => [Kept]_vars
  <2>1. IInv /\ Next => Kept
    BY NextStep, StepErases, SoundIsWellFormed DEF IInv
  <2> QED  BY <2>1
<1>2. ErasedForGood <=> [][Kept]_vars
  BY DEF ErasedForGood
<1> HIDE DEF Kept
<1> QED  BY <1>1, <1>2, Invariant, PTL DEF Spec

=============================================================================
