------------------------------ MODULE LowerGates ------------------------------
(****************************************************************************)
(* Lower (cpu/lower_gates.cc): a gate network becomes a transistor network,  *)
(* which is then evaluated as TransistorEval describes.  A gate may read one *)
(* that is lowered after it, or itself; it is connected to a placeholder,    *)
(* and the placeholders are replaced in the end, in the order of a hash map. *)
(****************************************************************************)
EXTENDS TransistorEval, GateValues

CONSTANTS
  GateNetworks,  \* the gate networks that are lowered
  Wirings,       \* networks built by hand, with their inputs, outputs and specification
  InputOrder     \* the input bits in the order of their declaration

\* What connections may lead to besides pins.
Leads(size) == {Vdd, Vss} \cup {InputBit(i) : i \in 0 .. size - 1}

\* Each gate has the inputs that its transistors are made for, and no placeholder has
\* the number of an input.
ASSUME LowerAssumption ==
  /\ \A n \in GateNetworks : WellFormed(n) /\ WellShaped(n)
  /\ InputOrder \in Seq(Inputs)
  /\ {InputOrder[i] : i \in DOMAIN InputOrder} = Inputs
  /\ Placeholder(MaxGates) < InputBit(Len(InputOrder))
  /\ \A w \in Wirings :
       w.inputs \in Nat /\ IsWiring(w.net, Leads(w.inputs)) /\ DropsUnconnected(w.net)

VARIABLES
  gates,     \* the gate network; None for one built by hand
  phase,     \* "lower", "replace", "evaluate"
  lowered,   \* the node of each terminal, so far
  pending    \* the gates whose placeholders are still to be replaced

vars == <<net, inputs, outputs, spec, row, state, initial, queue, level, rest, table,
          verdict, gates, phase, lowered, pending>>

lowerVars == <<gates, phase, lowered, pending>>

----------------------------------------------------------------------------
\* The inputs and the constants have nodes, a live gate has a placeholder.
Placed(gnet) ==
  [t \in LiveTerminals(gnet) |->
     CASE t = Low         -> Vss
       [] t = High        -> Vdd
       [] t \in Inputs    -> InputBit((CHOOSE i \in DOMAIN InputOrder : InputOrder[i] = t) - 1)
       [] t \in Gates   -> Placeholder(t)]

\* The transistors of gate g.
Transistorize(gnet, nodes, n, g) ==
  LET in == [i \in DOMAIN gnet.ins[g] |-> nodes[gnet.ins[g][i]]]
  IN  CASE gnet.kind[g] = "not"    -> MakeNot(n, in[1])
        [] gnet.kind[g] = "tri"    -> MakeTriStateBuffer(n, in[1], in[2], in[3])
        [] gnet.kind[g] = "mux"    -> MakeMux(n, in[1], in[2], in[3], in[4])
        [] gnet.kind[g] = "nand"   -> MakeNand(n, in)
        [] gnet.kind[g] = "nor"    -> MakeNor(n, in)
        [] gnet.kind[g] = "lookup" -> MakeLookup(n, in[1], in[2], in[3], in[4], gnet.lut[g])

\* A lookup of other than two inputs and their complements is stopped by an
\* assertion.
LowerGate(g) ==
  /\ phase = "lower"
  /\ g \in pending /\ \A h \in pending : g <= h
  /\ gates.kind[g] = "lookup" => Len(gates.ins[g]) = 4
  /\ \E made \in {Transistorize(gates, lowered, net, g)} :
       /\ net' = made.net
       /\ lowered' = [lowered EXCEPT ![g] = made.out]
  /\ pending' = pending \ {g}
  /\ UNCHANGED <<inputs, outputs, spec, row, state, initial, queue, level, rest, table,
                 verdict, gates, phase>>

AllLowered ==
  /\ phase = "lower" /\ pending = {}
  /\ phase' = "replace"
  /\ pending' = Live(gates)
  /\ UNCHANGED <<evalVars, gates, lowered>>

Replace(g) ==
  /\ phase = "replace" /\ g \in pending
  /\ net' = Rewire(net, Placeholder(g), lowered[g])
  /\ pending' = pending \ {g}
  /\ UNCHANGED <<inputs, outputs, spec, row, state, initial, queue, level, rest, table,
                 verdict, gates, phase, lowered>>

\* The value of each terminal in a row, as far as the inputs decide it.
GateValuesOf(gnet, r) ==
  LET given == [i \in Inputs |->
                  RowLevel(r, (CHOOSE k \in DOMAIN InputOrder : InputOrder[k] = i) - 1)]
  IN  Settle(gnet, Start(given), Cardinality(Live(gnet)))

OutputValues(gnet, r) ==
  LET v == GateValuesOf(gnet, r)
  IN  [o \in 1 .. gnet.outs |-> v[gnet.ins[Sink][o]]]

\* The caller evaluates the network: either EvaluateAll, or VerifySpec with what the
\* gates compute as the specification.
Call ==
  /\ phase = "replace" /\ pending = {}
  /\ phase' = "evaluate"
  /\ outputs' = [o \in 1 .. gates.outs |-> lowered[gates.ins[Sink][o]]]
  /\ inputs' = Len(InputOrder)
  /\ spec' \in {None, [r \in 0 .. 2 ^ Len(InputOrder) - 1 |-> OutputValues(gates, r)]}
  /\ BeginRow(Len(InputOrder), 0)
  /\ verdict' = "running"
  /\ UNCHANGED <<net, table, gates, lowered, pending>>

\* A network built by hand is evaluated at once, or after RunDte.
CallByHand ==
  /\ phase = "wired"
  /\ phase' = "evaluate"
  /\ BeginRow(inputs, 0)
  /\ verdict' = "running"
  /\ UNCHANGED <<net, inputs, outputs, spec, table, gates, lowered, pending>>

DropTransistors ==
  /\ phase = "wired" /\ Dropped(net) # {}
  /\ net' = RunDte(net)
  /\ outputs' = [o \in DOMAIN outputs |-> DteLookup(net, outputs[o])]
  /\ UNCHANGED <<inputs, spec, row, state, initial, queue, level, rest, table, verdict,
                 lowerVars>>

Init ==
  /\ \/ /\ gates \in GateNetworks
        /\ phase = "lower"
        /\ net = EmptyWiring /\ inputs = 0 /\ outputs = << >> /\ spec = None
        /\ lowered = Placed(gates)
        /\ pending = Live(gates)
     \/ \E w \in Wirings :
          /\ gates = None
          /\ phase = "wired"
          /\ net = w.net /\ inputs = w.inputs /\ outputs = w.outputs /\ spec = w.spec
          /\ lowered = << >> /\ pending = {}
  /\ row = 0 /\ state = << >> /\ initial = {} /\ queue = << >>
  /\ level = "undefined" /\ rest = {}
  /\ table = << >> /\ verdict = "none"

Work ==
  \/ \E g \in pending : LowerGate(g) \/ Replace(g)
  \/ AllLowered \/ Call \/ CallByHand \/ DropTransistors
  \/ (Evaluate /\ UNCHANGED lowerVars)

Done == verdict \in Verdicts /\ UNCHANGED vars

Next == Work \/ Done

\* The thread that lowers and evaluates runs on.
Spec == Init /\ [][Next]_vars /\ WF_vars(Work)

----------------------------------------------------------------------------
\* Lower leaves no placeholder behind, whatever gates read themselves or a gate
\* lowered later, and in whatever order the placeholders are replaced.
NoPlaceholderLeft ==
  phase = "evaluate" =>
    \A w \in net.wires : {w[1], w[2]} \subseteq Pins(net) \cup Leads(inputs)

\* The transistors compute what the gates do: in each row and for each order, the
\* node of a gate ends with the value the inputs give the gate, high impedance and
\* a value that they do not decide being undefined, and on the way no pin is ever
\* short.
Level(v) == IF v \in Levels THEN v ELSE "undefined"
GatesAgree ==
  phase = "evaluate" /\ gates # None =>
    /\ \A n \in DOMAIN state : state[n] # "short"
    /\ Propagated =>
         \E v \in {GateValuesOf(gates, row)} :
           \A t \in DOMAIN lowered : StateOf(lowered[t]) = Level(v[t])

\* The value that the transistors of a gate have: a tri-state buffer and a mux have none
\* before their select and its complement do.
CircuitValue(gnet, v, g) ==
  IF gnet.kind[g] \in {"tri", "mux"} /\ "none" \in {v[gnet.ins[g][1]], v[gnet.ins[g][2]]}
  THEN "none"
  ELSE ComputeValue(gnet, v, g)

\* In a state v of the network, what gate g reads is as its circuit takes it: no high
\* impedance, complements, and a lookup whose table is the same when both inputs are
\* inverted (make_lookup makes no other one).
Realised(gnet, v, g) ==
  LET in == [i \in DOMAIN gnet.ins[g] |-> v[gnet.ins[g][i]]]
      lut == gnet.lut[g]
  IN  /\ \A i \in DOMAIN in : in[i] # "z"
      /\ gnet.kind[g] \in {"tri", "mux"} => in[2] = Flip(in[1])
      /\ gnet.kind[g] = "lookup" =>
           /\ in[3] = Flip(in[1]) /\ in[4] = Flip(in[2])
           /\ Len(lut) = 4 /\ lut[1] = lut[4] /\ lut[2] = lut[3]
      /\ v[g] = CircuitValue(gnet, v, g)

\* Each value of v comes of others, and in the end of the inputs.
Founded(gnet, v) ==
  \A some \in SUBSET Live(gnet) :
    LET known == [t \in Terminals |-> IF t \in Live(gnet) \ some THEN "none" ELSE v[t]]
    IN  (\A g \in Live(gnet) : CircuitValue(gnet, known, g) # "none" => g \in some) =>
          \A g \in Live(gnet) : v[g] # "none" => g \in some

\* The networks that transistors can stand for, whatever the row.
Lowerable(gnet) ==
  \A r \in 0 .. 2 ^ Len(InputOrder) - 1 :
    \E v \in {GateValuesOf(gnet, r)} :
      Founded(gnet, v) /\ \A g \in Live(gnet) : Realised(gnet, v, g)

\* The callers' answer.  VerifySpec accepts exactly the networks whose outputs are
\* all decided by the inputs, with the gates as the specification, and EvaluateAll
\* returns a truth table, "where input 0 is the LSB" (eval.h:39), of the same ones.
\* A network built by hand is accepted against its specification, also when RunDte
\* has renumbered its transistors.
VerdictIsRight ==
  verdict \in Verdicts =>
    IF gates = None THEN spec # None => verdict = "ok"
    ELSE LET rows == [r \in 1 .. 2 ^ inputs |-> OutputValues(gates, r - 1)]
         IN  IF \A r \in DOMAIN rows : \A o \in DOMAIN outputs : rows[r][o] \in Levels
             THEN verdict = "ok" /\ table = rows
             ELSE verdict # "ok"

\* Every evaluation ends, shorts and feedback included.
Ends == <>(verdict \in Verdicts)

=============================================================================
