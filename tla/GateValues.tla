------------------------------ MODULE GateValues ------------------------------
(****************************************************************************)
(* The logic values of a gate network: compute_value of EvaluateStep        *)
(* (cpu/eval.cc), and from it the function a network stands for, the values *)
(* its outputs take for each value of its inputs.                           *)
(*                                                                          *)
(* A state maps each terminal to "low", "high", "z" or, where the map of    *)
(* the code has no entry, "none".                                           *)
(****************************************************************************)
EXTENDS GateNet, TLC

Known == {"low", "high", "z"}
FromBool(b) == IF b THEN "high" ELSE "low"

\* A gate's inputs as compute_value reads them.  A high-impedance input, which
\* the code rejects in an assertion, counts as low.
Read(net, st, g) ==
  [i \in DOMAIN net.ins[g] |->
     LET s == st[net.ins[g][i]] IN IF s = "z" THEN "low" ELSE s]

Flip(v) == CASE v = "low" -> "high" [] v = "high" -> "low" [] v = "none" -> "none"

\* Faulty: waits for every input.
DecideLate(in, decisive, decided) ==
  CASE \E i \in DOMAIN in : in[i] = "none" -> "none"
    [] \A i \in DOMAIN in : in[i] # decisive /\ in[i] # "none" -> Flip(decided)
    [] OTHER -> decided

\* A NAND or NOR, from the input value that decides it alone.
Decide(in, decisive, decided) ==
  CASE \E i \in DOMAIN in : in[i] = decisive -> decided
    [] (\A i \in DOMAIN in : in[i] # decisive)
         /\ (\E i \in DOMAIN in : in[i] = "none") -> "none"
    [] OTHER -> Flip(decided)

LookUp(lut, in) ==
  IF \E i \in DOMAIN in : in[i] = "none"
  THEN "none"
  ELSE FromBool(\E r \in DOMAIN lut :
         /\ lut[r]
         /\ \A i \in 1 .. Len(in) \div 2 : Bit(r - 1, i) = 1 <=> in[i] = "high")

\* A switch: `on` where sel is high, `off` where it is low.
Switch(sel, on, off) ==
  CASE sel = "none" -> "none" [] sel = "high" -> on [] sel = "low" -> off

\* A gate has the inputs compute_value reads by their number.
WellShaped(net) == \A g \in Live(net) :
  /\ net.kind[g] = "not" => Len(net.ins[g]) >= 1
  /\ net.kind[g] = "tri" => Len(net.ins[g]) >= 3
  /\ net.kind[g] = "mux" => Len(net.ins[g]) >= 4

ComputeValue(net, st, g) ==
  LET in == Read(net, st, g)
  IN  CASE net.kind[g] = "dead" -> "none"
        [] net.kind[g] = "not"  -> Flip(in[1])
        [] net.kind[g] = "tri"  -> Switch(in[1], in[3], "z")
        [] net.kind[g] = "mux"  -> IF in[3] = in[4] THEN in[3]
                                   ELSE Switch(in[1], in[3], in[4])
        [] net.kind[g] = "nand" -> Decide(in, "low", "high")
        [] net.kind[g] = "nor"  -> Decide(in, "high", "low")
        [] net.kind[g] = "lookup" -> LookUp(net.lut[g], in)

\* Nothing but the inputs and the constants has a value.
Start(inputs) ==
  [t \in Terminals |-> CASE t \in DOMAIN inputs -> inputs[t]
                         [] t = Low           -> "low"
                         [] t = High          -> "high"
                         [] OTHER             -> "none"]

\* st with every gate it decides.
Decided(net, st) ==
  [t \in DOMAIN st |-> IF st[t] = "none" /\ t \in Gates THEN ComputeValue(net, st, t)
                                                      ELSE st[t]]

\* The same k times over: with k the number of gates, all that the inputs decide.
Settle(net, st, k) ==
  LET after[j \in 0 .. k] == IF j = 0 THEN {st} ELSE {Decided(net, s) : s \in after[j - 1]}
  IN  CHOOSE s \in after[k] : TRUE

\* The states in which every gate has the value its inputs give it.  Feedback may
\* leave several, or none: a gate the inputs do not decide is given each of its
\* values in turn, and a state that contradicts itself is dropped in the end.
Stable(net, inputs) ==
  LET n == Cardinality(Live(net))
      Open(s)  == {g \in Live(net) : s[g] = "none"}
      Tries(s) == LET g == CHOOSE g \in Open(s) : TRUE
                  IN  IF Open(s) = {} THEN {s}
                      ELSE {Settle(net, [s EXCEPT ![g] = v], n) :
                              v \in IF net.kind[g] = "tri" THEN Known ELSE {"low", "high"}}
      tried[k \in 0 .. n] == IF k = 0 THEN {Settle(net, Start(inputs), n)}
                             ELSE UNION {Tries(s) : s \in tried[k - 1]}
  IN  {s \in tried[n] : \A g \in Live(net) : ComputeValue(net, s, g) = s[g]}

\* What a network of these inputs does: the outputs that each value of them allows.
Function(net, bits) ==
  [inputs \in [bits -> {"low", "high"}] |->
     {[o \in 1 .. net.outs |-> v[net.ins[Sink][o]]] : v \in Stable(net, inputs)}]

=============================================================================
