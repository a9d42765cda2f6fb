---------------------------- MODULE GateEvalProofs ----------------------------
(****************************************************************************)
(* EvaluateStep loses no change, whatever network it is given, in whatever  *)
(* order it visits the users of a terminal, and however often gates change  *)
(* their value in one call.                                                 *)
(*                                                                          *)
(* The inductive invariant says where a change that a gate has not followed *)
(* yet is still noted: a terminal the gate reads is in the queue, or the    *)
(* gate is among the users still to be visited.  When the call returns      *)
(* there is neither.                                                        *)
(****************************************************************************)
EXTENDS GateEval, SequenceTheorems, TLAPS

Values == Known \cup {"none"}

\* What a gate can read: constants aside, what EvaluateStep enqueues.
Variable == Gates \cup Inputs

TypeInv ==
  /\ net \in Networks
  /\ state \in [Terminals -> Values]
  /\ queue \in Seq(Variable)
  /\ users \in SUBSET (Live(net) \X Nat)
  /\ running \in BOOLEAN

\* Between two calls nothing is pending, and the caller has seen the inputs.
Idle ==
  ~ running => /\ queue = << >> /\ users = {}
               /\ shown.inputs = [i \in Inputs |-> state[i]]

\* The constants and the inputs have their values from the first call on.
Grounded ==
  \/ /\ state[Low] = "low" /\ state[High] = "high"
     /\ \A i \in Inputs : state[i] \in {"low", "high"}
  \/ ~ running /\ \A t \in Variable : state[t] = "none"

\* A gate with a value, or one that has been told a value, has the one its inputs decide.
Accords(g) ==
  (state[g] # "none" \/ Told(g)) /\ ComputeValue(net, state, g) # "none" =>
    state[g] = ComputeValue(net, state, g)

\* A visit to g is still to come.
Awaited(g) ==
  \E i \in DOMAIN net.ins[g] :
    \/ \E k \in DOMAIN queue : queue[k] = net.ins[g][i]
    \/ <<g, i>> \in users

Tracked == \A g \in Live(net) : Accords(g) \/ Awaited(g)

Inv == TypeInv /\ Idle /\ Grounded /\ Tracked

----------------------------------------------------------------------------
\* The kinds of terminals do not overlap.
LEMMA TerminalsApart ==
  /\ Terminals = Variable \cup {Low, High}
  /\ Gates \cap Inputs = {}
  /\ Low \notin Variable /\ High \notin Variable /\ Low # High
  /\ Sink \notin Gates
<1>1. Gates \in SUBSET Int
  BY DEF Gates
<1>2. Sink \notin Gates
  BY DEF Gates, Sink
<1> QED  BY <1>1, <1>2, NetAssumption DEF Terminals, Variable

\* A live gate of a network reads live gates, inputs and constants.
LEMMA ReadsOfLive ==
  ASSUME NEW n \in Networks, NEW g \in Live(n)
  PROVE  /\ g \in Gates /\ IsNet(n)
         /\ n.ins[g] \in Seq(Terminals)
         /\ DOMAIN n.ins[g] \in SUBSET Nat
         /\ \A i \in DOMAIN n.ins[g] : n.ins[g][i] \in Live(n) \cup Inputs \cup {Low, High}
<1>1. IsNet(n) /\ ReadsLive(n) /\ g \in Gates
  BY EvalAssumption DEF WellFormed, Live
<1>2. g \in Users /\ g # Sink
  BY <1>1, TerminalsApart DEF Users
<1>3. \A i \in DOMAIN n.ins[g] : n.ins[g][i] \in Live(n) \cup Inputs \cup {Low, High}
  BY <1>1, <1>2 DEF ReadsLive, LiveTerminals
<1>4. n.ins[g] \in Seq(Terminals \cup {Null})
  BY <1>1, <1>2 DEF IsNet
<1>5. Live(n) \cup Inputs \cup {Low, High} \in SUBSET Terminals
  BY DEF Live, Terminals
<1>6. n.ins[g] \in Seq(Terminals)
  <2>1. /\ Len(n.ins[g]) \in Nat /\ DOMAIN n.ins[g] = 1 .. Len(n.ins[g])
        /\ n.ins[g] = [i \in 1 .. Len(n.ins[g]) |-> n.ins[g][i]]
    BY <1>4
  <2>2. \A i \in 1 .. Len(n.ins[g]) : n.ins[g][i] \in Terminals
    BY <1>3, <1>5, <2>1
  <2> QED  BY <2>1, <2>2, IsASeq
<1> QED  BY <1>1, <1>3, <1>4, <1>6

\* The value of a gate depends on the values of its inputs only.
LEMMA ValueOfReads ==
  ASSUME NEW n, NEW g, NEW s, NEW t,
         \A i \in DOMAIN n.ins[g] : s[n.ins[g][i]] = t[n.ins[g][i]]
  PROVE  ComputeValue(n, s, g) = ComputeValue(n, t, g)
<1>1. Read(n, s, g) = Read(n, t, g)
  BY DEF Read
<1> QED  BY <1>1 DEF ComputeValue

\* What compute_value reads of a live gate.
LEMMA ReadValues ==
  ASSUME NEW n \in Networks, NEW g \in Live(n), NEW st \in [Terminals -> Values]
  PROVE  /\ DOMAIN Read(n, st, g) = 1 .. Len(n.ins[g])
         /\ \A i \in DOMAIN Read(n, st, g) :
              /\ Read(n, st, g)[i] \in {"low", "high", "none"}
              /\ st[n.ins[g][i]] # "none" => Read(n, st, g)[i] # "none"
<1>1. n.ins[g] \in Seq(Terminals)
  BY ReadsOfLive
<1>2. DOMAIN n.ins[g] = 1 .. Len(n.ins[g])
  BY <1>1
<1>3. \A i \in DOMAIN n.ins[g] : n.ins[g][i] \in Terminals
  BY <1>1
<1>4. \A i \in DOMAIN n.ins[g] : st[n.ins[g][i]] \in {"low", "high", "z", "none"}
  BY <1>3 DEF Values, Known
<1> QED  BY <1>2, <1>4 DEF Read

\* A gate of a known kind has the inputs compute_value reads by their number.
LEMMA ShapeOfLive ==
  ASSUME NEW n \in Networks, NEW g \in Live(n)
  PROVE  /\ n.kind[g] \in {"not", "tri", "mux", "nand", "nor", "lookup"}
         /\ n.kind[g] = "not" => 1 \in DOMAIN n.ins[g]
         /\ n.kind[g] = "tri" => 1 \in DOMAIN n.ins[g] /\ 3 \in DOMAIN n.ins[g]
         /\ n.kind[g] = "mux" => /\ 1 \in DOMAIN n.ins[g] /\ 3 \in DOMAIN n.ins[g]
                                 /\ 4 \in DOMAIN n.ins[g]
<1>1. n.ins[g] \in Seq(Terminals) /\ g \in Gates /\ IsNet(n)
  BY ReadsOfLive
<1>2. DOMAIN n.ins[g] = 1 .. Len(n.ins[g]) /\ Len(n.ins[g]) \in Nat
  BY <1>1
<1>3. WellShaped(n)
  BY EvalAssumption
<1>4. n.kind[g] \in Kinds /\ n.kind[g] # "dead"
  BY <1>1 DEF IsNet, Live
<1> QED  BY <1>2, <1>3, <1>4 DEF WellShaped, Kinds

\* compute_value returns a level, high impedance or nothing.
LEMMA ValueIsKnown ==
  ASSUME NEW n \in Networks, NEW g \in Live(n), NEW st \in [Terminals -> Values]
  PROVE  /\ ComputeValue(n, st, g) \in Values
         /\ (\A i \in DOMAIN n.ins[g] : st[n.ins[g][i]] # "none") =>
              ComputeValue(n, st, g) # "none"
<1> DEFINE in == Read(n, st, g)
<1>1. DOMAIN in = 1 .. Len(n.ins[g]) /\ DOMAIN in = DOMAIN n.ins[g]
  BY ReadValues, ReadsOfLive
<1>2. \A i \in DOMAIN in : /\ in[i] \in {"low", "high", "none"}
                           /\ st[n.ins[g][i]] # "none" => in[i] # "none"
  BY ReadValues
<1> HIDE DEF in
<1>3. CASE n.kind[g] = "not"
  <2>1. ComputeValue(n, st, g) = Flip(in[1])
    BY <1>3 DEF ComputeValue, in
  <2>2. 1 \in DOMAIN in /\ 1 \in DOMAIN n.ins[g]
    BY <1>1, <1>3, ShapeOfLive
  <2> QED  BY <1>2, <2>1, <2>2 DEF Flip, Values, Known
<1>4. CASE n.kind[g] = "tri"
  <2>1. ComputeValue(n, st, g) = Switch(in[1], in[3], "z")
    BY <1>4 DEF ComputeValue, in
  <2>2. {1, 3} \subseteq DOMAIN in /\ {1, 3} \subseteq DOMAIN n.ins[g]
    BY <1>1, <1>4, ShapeOfLive
  <2> QED  BY <1>2, <2>1, <2>2 DEF Switch, Values, Known
<1>5. CASE n.kind[g] = "mux"
  <2>1. ComputeValue(n, st, g) = IF in[3] = in[4] THEN in[3] ELSE Switch(in[1], in[3], in[4])
    BY <1>5 DEF ComputeValue, in
  <2>2. {1, 3, 4} \subseteq DOMAIN in /\ {1, 3, 4} \subseteq DOMAIN n.ins[g]
    BY <1>1, <1>5, ShapeOfLive
  <2> QED  BY <1>2, <2>1, <2>2 DEF Switch, Values, Known
<1>6. CASE n.kind[g] = "nand"
  <2>1. ComputeValue(n, st, g) = Decide(in, "low", "high")
    BY <1>6 DEF ComputeValue, in
  <2> QED  BY <1>1, <1>2, <2>1 DEF Decide, Flip, Values, Known
<1>7. CASE n.kind[g] = "nor"
  <2>1. ComputeValue(n, st, g) = Decide(in, "high", "low")
    BY <1>7 DEF ComputeValue, in
  <2> QED  BY <1>1, <1>2, <2>1 DEF Decide, Flip, Values, Known
<1>8. CASE n.kind[g] = "lookup"
  <2>1. ComputeValue(n, st, g) = LookUp(n.lut[g], in)
    BY <1>8 DEF ComputeValue, in
  <2>2. \A b : FromBool(b) \in {"low", "high"}
    BY DEF FromBool
  <2>3. CASE \E i \in DOMAIN in : in[i] = "none"
    <3>1. LookUp(n.lut[g], in) = "none"
      BY <2>3 DEF LookUp
    <3> QED  BY <1>1, <1>2, <2>1, <2>3, <3>1 DEF Values, Known
  <2>4. CASE ~ \E i \in DOMAIN in : in[i] = "none"
    <3>1. LookUp(n.lut[g], in) \in {"low", "high"}
      BY <2>2, <2>4 DEF LookUp
    <3> QED  BY <2>1, <3>1 DEF Values, Known
  <2> QED  BY <2>3, <2>4
<1> QED  BY <1>3, <1>4, <1>5, <1>6, <1>7, <1>8, ShapeOfLive

\* The users of a terminal are the gates that read it.
LEMMA UsersRead ==
  ASSUME NEW n \in Networks, NEW t \in Terminals
  PROVE  /\ {u \in n.uses[t] : u[1] # Sink} \in SUBSET (Live(n) \X Nat)
         /\ \A g \in Live(n) : \A i \in DOMAIN n.ins[g] :
              n.ins[g][i] = t => <<g, i>> \in {u \in n.uses[t] : u[1] # Sink}
<1>1. IsNet(n) /\ ExactUses(n) /\ DeadIsBare(n)
  BY EvalAssumption DEF WellFormed
<1>2. n.uses[t] = UNION {Slots(u, n.ins[u], t) : u \in Users}
  BY <1>1 DEF ExactUses
<1>3. ASSUME NEW w \in n.uses[t], w[1] # Sink
      PROVE  w \in Live(n) \X Nat
  <2>1. PICK u \in Users : w \in Slots(u, n.ins[u], t)
    BY <1>2
  <2>2. PICK i \in DOMAIN n.ins[u] : w = <<u, i>>
    BY <2>1 DEF Slots
  <2>3. u \in Gates
    BY <1>3, <2>2 DEF Users
  <2>4. n.ins[u] \in Seq(Terminals \cup {Null})
    BY <1>1 DEF IsNet
  <2>5. i \in Nat /\ n.ins[u] # << >>
    BY <2>4
  <2>6. n.kind[u] # "dead"
    BY <1>1, <2>3, <2>5 DEF DeadIsBare
  <2> QED  BY <2>2, <2>3, <2>5, <2>6 DEF Live
<1>4. ASSUME NEW g \in Live(n), NEW i \in DOMAIN n.ins[g], n.ins[g][i] = t
      PROVE  <<g, i>> \in n.uses[t] /\ g # Sink
  <2>1. g \in Users /\ g # Sink
    BY TerminalsApart DEF Live, Users
  <2>2. <<g, i>> \in Slots(g, n.ins[g], t)
    BY <1>4 DEF Slots
  <2> QED  BY <1>2, <2>1, <2>2
<1> QED  BY <1>3, <1>4

----------------------------------------------------------------------------
\* Where a gate's inputs and value have not changed, neither has its accord.
LEMMA AccordKept ==
  ASSUME NEW g, net' = net, state'[g] = state[g],
         \A i \in DOMAIN net.ins[g] : state'[net.ins[g][i]] = state[net.ins[g][i]]
  PROVE  Accords(g)' <=> Accords(g)
<1>1. ComputeValue(net, state, g)' = ComputeValue(net, state, g)
  <2>1. ComputeValue(net, state', g) = ComputeValue(net, state, g)
    BY ValueOfReads
  <2> QED  BY <2>1
<1>2. Told(g)' <=> Told(g)
  BY DEF Told
<1> QED  BY <1>1, <1>2 DEF Accords

LEMMA InitInv == Init => Inv
<1> SUFFICES ASSUME Init PROVE Inv
  OBVIOUS
<1>1. net \in Networks /\ state = Nothing
  BY DEF Init
<1>2. \A t \in Terminals : state[t] = "none"
  BY <1>1 DEF Nothing
<1>3. TypeInv
  <2>1. state \in [Terminals -> Values]
    BY <1>1 DEF Nothing, Values
  <2>2. queue \in Seq(Variable)
    BY DEF Init
  <2>3. users = {} /\ running = FALSE
    BY DEF Init
  <2> QED  BY <1>1, <2>1, <2>2, <2>3 DEF TypeInv
<1>4. Idle
  <2>1. Inputs \in SUBSET Terminals
    BY DEF Terminals
  <2> QED  BY <1>2, <2>1 DEF Init, Idle
<1>5. Grounded
  BY <1>1, <1>2, TerminalsApart DEF Grounded, Init
<1>6. ASSUME NEW g \in Live(net)
      PROVE  Accords(g)
  <2>1. g \in Terminals /\ \A i \in DOMAIN net.ins[g] : net.ins[g][i] \in Terminals
    BY <1>1, ReadsOfLive, TerminalsApart DEF Variable
  <2> QED  BY <1>2, <2>1 DEF Accords, Told
<1> QED  BY <1>3, <1>4, <1>5, <1>6 DEF Inv, Tracked

\* EvaluateStep enqueues every input, and a gate that reads none of them reads nothing
\* that has changed.
LEMMA CallInv ==
  ASSUME Inv, NEW inputs \in InputValues, EvaluateStep(inputs)
  PROVE  Inv'
<1> USE DEF Inv
<1>1. net' = net /\ users' = users /\ queue' = InputOrder /\ running' = TRUE /\ ~ running
  BY DEF EvaluateStep
<1>2. \A t \in Terminals : state'[t] = CASE t \in Inputs -> inputs[t]
                                         [] t = Low      -> "low"
                                         [] t = High     -> "high"
                                         [] t \in Gates  -> state[t]
  BY DEF EvaluateStep
<1>3. state'[Low] = "low" /\ state'[High] = "high"
  BY <1>2, TerminalsApart DEF Variable
<1>4. \A t \in Inputs : state'[t] \in {"low", "high"}
  BY <1>2, TerminalsApart DEF Variable, InputValues
<1>5. \A t \in Gates : state'[t] = state[t]
  BY <1>2, TerminalsApart DEF Variable
<1>6. TypeInv'
  <2>1. state' \in [Terminals -> Values]
    <3>1. \A t \in Terminals : state'[t] \in Values
      BY <1>3, <1>4, <1>5, TerminalsApart DEF Variable, TypeInv, Values, Known
    <3> DEFINE f == [t \in Terminals |-> CASE t \in Inputs -> inputs[t]
                                            [] t = Low      -> "low"
                                            [] t = High     -> "high"
                                            [] t \in Gates  -> state[t]]
    <3>2. state' = f
      BY DEF EvaluateStep
    <3>3. \A t \in Terminals : f[t] \in Values
      BY <3>1, <3>2
    <3>4. f \in [Terminals -> Values]
      BY <3>3
    <3> QED  BY <3>2, <3>4
  <2>2. InputOrder \in Seq(Variable)
    <3>1. /\ InputOrder \in Seq(Inputs) /\ Len(InputOrder) \in Nat
          /\ InputOrder = [i \in 1 .. Len(InputOrder) |-> InputOrder[i]]
      BY EvalAssumption
    <3>2. \A i \in 1 .. Len(InputOrder) : InputOrder[i] \in Variable
      BY <3>1 DEF Variable
    <3> QED  BY <3>1, <3>2, IsASeq
  <2> QED  BY <1>1, <2>1, <2>2 DEF TypeInv
<1>7. Idle' /\ Grounded'
  BY <1>1, <1>3, <1>4 DEF Idle, Grounded
<1>8. ASSUME NEW g \in Live(net)
      PROVE  Accords(g)' \/ Awaited(g)'
  <2>0. net \in Networks /\ g \in Gates
        /\ \A i \in DOMAIN net.ins[g] : net.ins[g][i] \in Live(net) \cup Inputs \cup {Low, High}
    BY ReadsOfLive DEF TypeInv
  <2>1. CASE \E i \in DOMAIN net.ins[g] : net.ins[g][i] \in Inputs
    <3>1. PICK i \in DOMAIN net.ins[g] : net.ins[g][i] \in Inputs
      BY <2>1
    <3>2. \E k \in DOMAIN InputOrder : InputOrder[k] = net.ins[g][i]
      BY <3>1, EvalAssumption
    <3>3. Awaited(g)'
      BY <1>1, <3>2 DEF Awaited
    <3> QED  BY <3>3
  <2>2. CASE ~ \E i \in DOMAIN net.ins[g] : net.ins[g][i] \in Inputs
    <3>1. \A i \in DOMAIN net.ins[g] : net.ins[g][i] \in Gates \cup {Low, High}
      BY <2>0, <2>2 DEF Live
    <3>2. state'[g] = state[g]
      BY <1>5, <2>0
    <3>3. CASE state[Low] = "low" /\ state[High] = "high"
      <4>1. \A i \in DOMAIN net.ins[g] : state'[net.ins[g][i]] = state[net.ins[g][i]]
        BY <1>3, <1>5, <3>1, <3>3
      <4>2. Accords(g)' <=> Accords(g)
        BY <1>1, <3>2, <4>1, AccordKept
      <4>3. ~ Awaited(g)
        <5>1. queue = << >> /\ users = {}
          BY <1>1 DEF Idle
        <5> QED  BY <5>1 DEF Awaited
      <4> QED  BY <4>2, <4>3 DEF Tracked
    <3>4. CASE \A t \in Variable : state[t] = "none"
      <4>1. \A t \in Gates : state'[t] = "none"
        BY <1>5, <3>4 DEF Variable
      <4>2. ~ Told(g)' /\ state'[g] = "none"
        BY <1>1, <2>0, <3>1, <4>1 DEF Told
      <4> QED  BY <4>2 DEF Accords
    <3> QED  BY <3>3, <3>4 DEF Grounded
  <2> QED  BY <2>1, <2>2
<1> QED  BY <1>1, <1>6, <1>7, <1>8 DEF Tracked

\* The users of the terminal taken are exactly those that waited for it.
LEMMA TakeInv ==
  ASSUME Inv, NextTerminal
  PROVE  Inv'
<1> USE DEF Inv
<1> DEFINE t == Head(queue)
<1>1. /\ net' = net /\ state' = state /\ running' = running /\ running = TRUE
      /\ users = {} /\ queue # << >> /\ queue' = Tail(queue)
      /\ users' = {u \in net.uses[t] : u[1] # Sink}
  BY DEF NextTerminal, Take, TypeInv
<1>2. /\ queue \in Seq(Variable) /\ Len(queue) \in Nat /\ Len(queue) >= 1
      /\ t = queue[1] /\ 1 \in DOMAIN queue /\ DOMAIN queue = 1 .. Len(queue)
  BY <1>1 DEF TypeInv
<1>3. /\ Tail(queue) \in Seq(Variable) /\ DOMAIN Tail(queue) = 1 .. Len(queue) - 1
      /\ \A k \in 1 .. Len(queue) - 1 : Tail(queue)[k] = queue[k + 1]
  BY <1>1, <1>2
<1>4. t \in Terminals /\ net \in Networks
  BY <1>2, TerminalsApart DEF TypeInv
<1> HIDE DEF t
<1>5. TypeInv'
  BY <1>1, <1>3, <1>4, UsersRead DEF TypeInv
<1>6. Idle' /\ Grounded'
  BY <1>1 DEF Idle, Grounded
<1>7. ASSUME NEW g \in Live(net)
      PROVE  Accords(g)' \/ Awaited(g)'
  <2>1. Accords(g)' <=> Accords(g)
    BY <1>1, AccordKept
  <2>2. ASSUME Awaited(g)
        PROVE  Awaited(g)'
    <3>1. PICK i \in DOMAIN net.ins[g], k \in DOMAIN queue : queue[k] = net.ins[g][i]
      BY <1>1, <2>2 DEF Awaited
    <3>2. CASE k = 1
      <4>1. <<g, i>> \in users'
        BY <1>1, <1>2, <1>4, <3>1, <3>2, UsersRead
      <4> QED  BY <1>1, <4>1 DEF Awaited
    <3>3. CASE k # 1
      <4>1. k - 1 \in DOMAIN queue' /\ queue'[k - 1] = net.ins[g][i]
        BY <1>1, <1>2, <1>3, <3>1, <3>3
      <4> QED  BY <1>1, <4>1 DEF Awaited
    <3> QED  BY <3>2, <3>3
  <2> QED  BY <2>1, <2>2 DEF Tracked
<1> QED  BY <1>1, <1>5, <1>6, <1>7 DEF Tracked

\* A gate that takes a new value leaves a note for every gate that reads it, itself
\* included; one that takes none has nothing to follow.
LEMMA VisitInv ==
  ASSUME Inv, NEW u \in users, VisitUser(u)
  PROVE  Inv'
<1> USE DEF Inv
<1> DEFINE g   == u[1]
           val == ComputeValue(net, state, g)
<1>1. net' = net /\ running' = running /\ users' = users \ {u}
  BY DEF VisitUser
<1>2. net \in Networks /\ g \in Live(net) /\ g \in Gates /\ u = <<g, u[2]>>
  BY DEF TypeInv, Live
<1>3. running
  BY DEF TypeInv, Idle
<1>4. CASE Changes(g, val)
  <2>1. state' = [state EXCEPT ![g] = val] /\ queue' = Append(queue, g)
    BY <1>4 DEF VisitUser
  <2>2. val \in Values /\ val # "none"
    BY <1>2, <1>4, ValueIsKnown DEF Changes, TypeInv
  <2> HIDE DEF val
  <2>3. TypeInv'
    <3>1. state' \in [Terminals -> Values]
      BY <2>1, <2>2 DEF TypeInv
    <3>2. queue' \in Seq(Variable)
      BY <1>2, <2>1 DEF TypeInv, Variable
    <3> QED  BY <1>1, <3>1, <3>2 DEF TypeInv
  <2>4. Idle'
    BY <1>1, <1>3 DEF Idle
  <2>5. Grounded'
    <3>1. /\ state[Low] = "low" /\ state[High] = "high"
          /\ \A i \in Inputs : state[i] \in {"low", "high"}
      BY <1>3 DEF Grounded
    <3>2. g # Low /\ g # High
      BY <1>2, TerminalsApart DEF Variable
    <3>3. g \notin Inputs
      BY <1>2, TerminalsApart
    <3>4. \A t \in Terminals : t # g => state'[t] = state[t]
      BY <2>1 DEF TypeInv
    <3>5. Low \in Terminals /\ High \in Terminals /\ Inputs \in SUBSET Terminals
      BY TerminalsApart DEF Variable
    <3> QED  BY <3>1, <3>2, <3>3, <3>4, <3>5 DEF Grounded
  <2>6. ASSUME NEW h \in Live(net)
        PROVE  Accords(h)' \/ Awaited(h)'
    <3>1. \A x \in Terminals : x # g => state'[x] = state[x]
      BY <2>1 DEF TypeInv
    <3>2. /\ h \in Terminals /\ \A i \in DOMAIN net.ins[h] : net.ins[h][i] \in Terminals
      BY <1>2, ReadsOfLive, TerminalsApart DEF Variable
    <3>3. CASE \E i \in DOMAIN net.ins[h] : net.ins[h][i] = g
      <4>1. Len(queue) + 1 \in DOMAIN queue' /\ queue'[Len(queue) + 1] = g
        BY <2>1 DEF TypeInv
      <4> QED  BY <1>1, <3>3, <4>1 DEF Awaited
    <3>4. CASE ~ \E i \in DOMAIN net.ins[h] : net.ins[h][i] = g
      <4>1. \A i \in DOMAIN net.ins[h] : state'[net.ins[h][i]] = state[net.ins[h][i]]
        BY <3>1, <3>2, <3>4
      <4>2. CASE h = g
        <5>1. ComputeValue(net, state, g)' = val
          <6>1. ComputeValue(net, state', g) = ComputeValue(net, state, g)
            BY <4>1, <4>2, ValueOfReads
          <6> QED  BY <1>1, <6>1 DEF val
        <5>2. state'[g] = val
          BY <1>2, <2>1, TerminalsApart DEF TypeInv, Variable
        <5> QED  BY <1>1, <4>2, <5>1, <5>2 DEF Accords
      <4>3. CASE h # g
        <5>1. Accords(h)' <=> Accords(h)
          BY <1>1, <3>1, <3>2, <4>1, <4>3, AccordKept
        <5>2. Awaited(h) => Awaited(h)'
          <6>1. \A k \in DOMAIN queue : k \in DOMAIN queue' /\ queue'[k] = queue[k]
            BY <2>1 DEF TypeInv
          <6>2. \A i : <<h, i>> \in users => <<h, i>> \in users'
            BY <1>1, <1>2, <4>3
          <6> QED  BY <1>1, <6>1, <6>2 DEF Awaited
        <5> QED  BY <5>1, <5>2 DEF Tracked
      <4> QED  BY <4>2, <4>3
    <3> QED  BY <3>3, <3>4
  <2> QED  BY <1>1, <2>3, <2>4, <2>5, <2>6 DEF Tracked
<1>5. CASE ~ Changes(g, val)
  <2>1. state' = state /\ queue' = queue
    BY <1>5 DEF VisitUser
  <2>2. TypeInv' /\ Idle' /\ Grounded'
    BY <1>1, <1>3, <2>1 DEF TypeInv, Idle, Grounded
  <2>3. ASSUME NEW h \in Live(net)
        PROVE  Accords(h)' \/ Awaited(h)'
    <3>1. Accords(h)' <=> Accords(h)
      BY <1>1, <2>1, AccordKept
    <3>2. CASE h = g
      BY <1>5, <3>1, <3>2 DEF Changes, Accords
    <3>3. CASE h # g
      <4>1. \A i : <<h, i>> \in users => <<h, i>> \in users'
        BY <1>1, <1>2, <3>3
      <4>2. Awaited(h) => Awaited(h)'
        BY <1>1, <2>1, <4>1 DEF Awaited
      <4> QED  BY <3>1, <4>2 DEF Tracked
    <3> QED  BY <3>2, <3>3
  <2> QED  BY <1>1, <2>2, <2>3 DEF Tracked
<1> QED  BY <1>4, <1>5

LEMMA ReturnInv ==
  ASSUME Inv, Return
  PROVE  Inv'
<1> USE DEF Inv
<1>1. /\ net' = net /\ state' = state /\ queue' = queue /\ users' = users
      /\ queue = << >> /\ users = {} /\ running' = FALSE
  BY DEF Return
<1>2. shown'.inputs = [i \in Inputs |-> state[i]]
  BY DEF Return
<1>3. TypeInv' /\ Idle' /\ Grounded'
  BY <1>1, <1>2 DEF TypeInv, Idle, Grounded
<1>4. ASSUME NEW g \in Live(net)
      PROVE  Accords(g)' \/ Awaited(g)'
  <2>1. Accords(g)' <=> Accords(g)
    BY <1>1, AccordKept
  <2>2. Awaited(g)' <=> Awaited(g)
    BY <1>1 DEF Awaited
  <2> QED  BY <2>1, <2>2 DEF Tracked
<1> QED  BY <1>1, <1>3, <1>4 DEF Tracked

LEMMA StutterInv ==
  ASSUME Inv, UNCHANGED vars
  PROVE  Inv'
<1> USE DEF Inv
<1>1. /\ net' = net /\ state' = state /\ queue' = queue /\ users' = users
      /\ running' = running /\ shown' = shown
  BY DEF vars
<1>2. TypeInv' /\ Idle' /\ Grounded'
  BY <1>1 DEF TypeInv, Idle, Grounded
<1>3. ASSUME NEW g \in Live(net)
      PROVE  Accords(g)' \/ Awaited(g)'
  <2>1. Accords(g)' <=> Accords(g)
    BY <1>1, AccordKept
  <2>2. Awaited(g)' <=> Awaited(g)
    BY <1>1 DEF Awaited
  <2> QED  BY <2>1, <2>2 DEF Tracked
<1> QED  BY <1>1, <1>2, <1>3 DEF Tracked

LEMMA NextInv ==
  ASSUME Inv, [Next]_vars
  PROVE  Inv'
<1>1. CASE \E inputs \in InputValues : EvaluateStep(inputs)
  BY <1>1, CallInv
<1>2. CASE NextTerminal
  BY <1>2, TakeInv
<1>3. CASE \E u \in users : VisitUser(u)
  BY <1>3, VisitInv
<1>4. CASE Return
  BY <1>4, ReturnInv
<1>5. CASE UNCHANGED vars
  BY <1>5, StutterInv
<1> QED  BY <1>1, <1>2, <1>3, <1>4, <1>5 DEF Next, Evaluate

LEMMA Invariant == Spec => []Inv
<1> QED  BY InitInv, NextInv, PTL DEF Spec

----------------------------------------------------------------------------
LEMMA InvUpToDate == Inv => UpToDate
<1> SUFFICES ASSUME Inv, NEW g \in Live(net), ~ running
    PROVE  Told(g) /\ ComputeValue(net, state, g) # "none" =>
             state[g] = ComputeValue(net, state, g)
  BY DEF UpToDate
<1>1. queue = << >> /\ users = {}
  BY DEF Inv, Idle
<1>2. ~ Awaited(g)
  BY <1>1 DEF Awaited
<1>3. Accords(g)
  BY <1>2 DEF Inv, Tracked
<1> QED  BY <1>3 DEF Accords

\* A gate all of whose inputs have values has one that they decide.
LEMMA InvSettled == Inv /\ Determined => Settled
<1> SUFFICES ASSUME Inv, Determined, NEW g \in Live(net), ~ running, state[g] # "none"
    PROVE  ComputeValue(net, state, g) = state[g]
  BY DEF Settled
<1>1. queue = << >> /\ users = {} /\ shown.inputs = [i \in Inputs |-> state[i]]
  BY DEF Inv, Idle
<1>2. ~ Awaited(g)
  BY <1>1 DEF Awaited
<1>3. Accords(g)
  BY <1>2 DEF Inv, Tracked
<1>4. net \in Networks /\ state \in [Terminals -> Values]
  BY DEF Inv, TypeInv
<1>5. /\ g \in Gates
      /\ \A i \in DOMAIN net.ins[g] : net.ins[g][i] \in Live(net) \cup Inputs \cup {Low, High}
  BY <1>4, ReadsOfLive
<1>6. /\ state[Low] # "none" /\ state[High] # "none"
      /\ \A i \in Inputs : state[i] \in {"low", "high"}
  BY <1>5 DEF Inv, Grounded, Variable
<1>7. \A h \in Live(net) : state[h] # "none"
  BY <1>1, <1>6 DEF Determined, InputValues
<1>8. \A i \in DOMAIN net.ins[g] : state[net.ins[g][i]] # "none"
  BY <1>5, <1>6, <1>7
<1>9. ComputeValue(net, state, g) # "none"
  BY <1>4, <1>8, ValueIsKnown
<1> QED  BY <1>3, <1>9 DEF Accords

\* Whatever networks and inputs the callers of EvaluateStep hand in, and in whatever order
\* it visits the users of a terminal: when it returns, each gate that has been told a value
\* has the one its inputs decide.
THEOREM NoChangeIsLost == Spec => []UpToDate
<1> QED  BY Invariant, InvUpToDate, PTL

\* As long as the calls leave no gate without a value, they leave a stable network: the
\* assertion under DEBUG_EVAL holds of every network in which each gate gets a value.
THEOREM SettledWhenDetermined == Spec => [](Determined => Settled)
<1> QED  BY Invariant, InvSettled, PTL
=============================================================================
