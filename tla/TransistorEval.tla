---------------------------- MODULE TransistorEval ----------------------------
(****************************************************************************)
(* Evaluate, EvaluateAll and VerifySpec of cpu/eval.cc for transistor        *)
(* networks: for each row of input values, levels spread from the rails and  *)
(* the inputs along the connections and through the transistors they open.   *)
(*                                                                          *)
(* Nodes are taken from a queue.  The nodes it starts with come in the order *)
(* of a hash map, so any of them may be next until all have been taken.      *)
(****************************************************************************)
EXTENDS TransistorNet

VARIABLES
  net,       \* the network
  inputs,    \* the number of its input bits
  outputs,   \* the nodes of its outputs, bit by bit
  spec,      \* VerifySpec: the expected output bits of each row; else EvaluateAll
  row,       \* the row that is evaluated
  state,     \* the state of each node in this row
  initial,   \* the nodes the row starts from that have not been taken
  queue,     \* the nodes taken up since
  level,     \* the state of the node taken last
  rest,      \* the nodes connected to it that are still to be updated
  table,     \* what the outputs were in the rows before
  verdict    \* how the call has ended

evalVars == <<net, inputs, outputs, spec, row, state, initial, queue, level, rest,
              table, verdict>>

None == << >>

Levels == {"low", "high"}
Verdicts == {"ok", "failed", "threw"}
PinState == Levels \cup {"undefined", "short"}

InputBits == {InputBit(i) : i \in 0 .. inputs - 1}

\* Input 0 is the least significant bit of a row's number.
RowLevel(r, i) == IF (r \div 2 ^ i) % 2 = 1 THEN "high" ELSE "low"

\* The map a row starts with.
StartOf(size, r) ==
  [node \in {Vdd, Vss} \cup {InputBit(i) : i \in 0 .. size - 1} |->
     CASE node = Vdd -> "high"
       [] node = Vss -> "low"
       [] node <= InputBit(0) -> RowLevel(r, InputBit(0) - node)]

BeginRow(size, r) ==
  /\ row' = r
  /\ state' = StartOf(size, r)
  /\ initial' = DOMAIN StartOf(size, r)
  /\ queue' = << >>
  /\ level' = "undefined"
  /\ rest' = {}

----------------------------------------------------------------------------
(* Evaluate.                                                                 *)

\* Faulty: a transistor leaves a drain alone that has a state.
ConductsIfUndefined(type, gate, source, drain) ==
  LET passes == IF type = "n" THEN "low" ELSE "high"
      opens  == IF type = "n" THEN "high" ELSE "low"
  IN  CASE gate = "undefined" -> drain
        [] gate # "undefined" /\ "short" \in {gate, source} -> "short"
        [] gate = opens /\ source = passes /\ drain = "undefined" -> passes
        [] OTHER -> drain

\* What a transistor does when one of its pins has just left the undefined state:
\* the new state of its drain, or the one it has.
Conducts(type, gate, source, drain) ==
  LET passes == IF type = "n" THEN "low" ELSE "high"
      opens  == IF type = "n" THEN "high" ELSE "low"
  IN  CASE gate = "undefined" -> drain
        [] gate # "undefined" /\ "short" \in {gate, source} -> "short"
        [] gate = opens /\ source = passes /\ drain # passes ->
             IF drain = "undefined" THEN passes ELSE "short"
        [] OTHER -> drain

\* A node without an entry in the map is undefined; operator[] gives it one.
StateOf(node) == IF node \in DOMAIN state THEN state[node] ELSE "undefined"

\* Faulty: a short is passed on again.
SameUnlessShort(pin) == StateOf(pin) = level /\ level # "short"

Same(pin) == StateOf(pin) = level

\* update_pin: a pin that is driven two ways is short, and its transistor is not
\* looked at again; one that was undefined takes the state, and its transistor may
\* drive its drain.
UpdatePin(pin) ==
  LET t == TransistorOf(pin)
      Set(m) == IF m = pin THEN level ELSE StateOf(m)
      read == {pin, Gate(t)} \cup
                IF Set(Gate(t)) = "undefined" THEN {} ELSE {Source(t), Drain(t)}
      drain == Conducts(TypeOf(net, t), Set(Gate(t)), Set(Source(t)), Set(Drain(t)))
  IN  CASE Same(pin) -> UNCHANGED <<state, queue>>
        [] ~ Same(pin) /\ StateOf(pin) # "undefined" ->
             /\ state' = [state EXCEPT ![pin] = "short"]
             /\ queue' = Append(queue, pin)
        [] ~ Same(pin) /\ StateOf(pin) = "undefined" ->
             /\ state' = [m \in DOMAIN state \cup read |->
                            IF m = Drain(t) THEN drain ELSE Set(m)]
             /\ queue' = IF drain = Set(Drain(t)) THEN Append(queue, pin)
                         ELSE queue \o <<pin, Drain(t)>>

Evaluating == verdict = "running"

Take(node) ==
  /\ Evaluating /\ rest = {}
  /\ level' = state[node]
  /\ rest' = ConnectedNodes(net, node)
  /\ UNCHANGED <<net, inputs, outputs, spec, row, state, table, verdict>>

TakeInitial(node) ==
  /\ Take(node)
  /\ initial' = initial \ {node}
  /\ UNCHANGED queue

TakeQueued ==
  /\ initial = {} /\ queue # << >>
  /\ Take(Head(queue))
  /\ queue' = Tail(queue)
  /\ UNCHANGED initial

\* Connected nodes are kept in order.
Visit(pin) ==
  /\ \A p \in rest : pin <= p
  /\ UpdatePin(pin)
  /\ rest' = rest \ {pin}
  /\ UNCHANGED <<net, inputs, outputs, spec, row, initial, level, table, verdict>>

----------------------------------------------------------------------------
(* EvaluateAll and VerifySpec, row by row.                                   *)

Propagated == initial = {} /\ queue = << >> /\ rest = {}

OutputStates == [o \in DOMAIN outputs |-> StateOf(outputs[o])]

\* Faulty: a floating output counts as low.
TabulatedUnlessShort == \A o \in DOMAIN outputs : OutputStates[o] # "short"

\* EvaluateAll takes a row whose outputs are all driven, VerifySpec one in which no
\* input is short and the outputs are the expected ones.
Tabulated == \A o \in DOMAIN outputs : OutputStates[o] \in Levels
AsSpecified == (\A i \in InputBits : state[i] \in Levels) /\ OutputStates = spec[row]

Accepts == IF spec = None THEN Tabulated ELSE AsSpecified

\* EvaluateAll reads an output without an entry with at(), which throws.
Throws == spec = None /\ \E o \in DOMAIN outputs :
  /\ outputs[o] \notin DOMAIN state
  /\ \A p \in 1 .. o - 1 : OutputStates[p] \in Levels

EndRow ==
  /\ Evaluating /\ Propagated
  /\ table' = Append(table, OutputStates)
  /\ IF Accepts /\ row + 1 < 2 ^ inputs
     THEN /\ BeginRow(inputs, row + 1)
          /\ UNCHANGED verdict
     ELSE /\ verdict' = IF Accepts THEN "ok" ELSE IF Throws THEN "threw" ELSE "failed"
          /\ UNCHANGED <<row, state, initial, queue, level, rest>>
  /\ UNCHANGED <<net, inputs, outputs, spec>>

Evaluate ==
  \/ \E node \in initial : TakeInitial(node)
  \/ TakeQueued
  \/ \E pin \in rest : Visit(pin)
  \/ EndRow

----------------------------------------------------------------------------
(* What the levels mean.  A node carries a level if a rail or an input with  *)
(* that level reaches it along connections and through open transistors,     *)
(* where N channels pass low levels and P channels high ones.                *)

\* What a set c of carried levels implies by one connection or one transistor.
Implied(n, c) ==
  {<<Drain(t), "low">> : t \in {t \in Transistors(n) :
     TypeOf(n, t) = "n" /\ {<<Gate(t), "high">>, <<Source(t), "low">>} \subseteq c}}
  \cup {<<Drain(t), "high">> : t \in {t \in Transistors(n) :
          TypeOf(n, t) = "p" /\ {<<Gate(t), "low">>, <<Source(t), "high">>} \subseteq c}}
  \cup UNION {{<<w[2], v>> : v \in {v \in Levels : <<w[1], v>> \in c}}
                \cup {<<w[1], v>> : v \in {v \in Levels : <<w[2], v>> \in c}} : w \in n.wires}

\* The nodes that can carry a level.
Nodes(n, start) == Pins(n) \cup DOMAIN start

\* The least set that holds the levels of `start` and all it implies.
Carried(n, start) ==
  LET closure[c \in SUBSET (Nodes(n, start) \X Levels)] ==
        LET more == Implied(n, c) IN IF more \subseteq c THEN c ELSE closure[c \cup more]
  IN  closure[{<<m, start[m]>> : m \in DOMAIN start}]

\* Whatever the order, a row ends with a short somewhere exactly if some node
\* carries both levels, and without one every node has the level it carries: a
\* short is "driven both low and high" (eval.h:31).
ShortsAreConflicts ==
  Evaluating /\ Propagated =>
    \E carried \in {Carried(net, StartOf(inputs, row))} :
      IF \E m \in DOMAIN state \cup Pins(net) : {<<m, "low">>, <<m, "high">>} \subseteq carried
      THEN \E m \in DOMAIN state : state[m] = "short"
      ELSE \A m \in DOMAIN state \cup Pins(net) :
             StateOf(m) = IF <<m, "low">> \in carried THEN "low"
                          ELSE IF <<m, "high">> \in carried THEN "high" ELSE "undefined"

=============================================================================
