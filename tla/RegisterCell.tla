----------------------------- MODULE RegisterCell -----------------------------
(****************************************************************************)
(* MakeRegister (cpu/register_file.h) for one bit of data and one bit of    *)
(* address, which is 1, on the flip-flop of cpu/gate_lib.cc, evaluated by   *)
(* EvaluateStep under the caller that GateSpec::Verify (cpu/eval.h) is.     *)
(* The read ports, tri-state buffers that keep nothing, are left out.       *)
(****************************************************************************)
EXTENDS GateEval

CONSTANTS reset, clk, wa, data   \* input bits

\* Eq(my_addr, addr): a NOR of the differing bits.
EqOf(n, a, b) == LET x == XorOf(n, a, b) IN NorOf(x.net, <<x.out>>)

\* Faulty: without reset in the second stage.
DFlipFlopNoReset(n, d) ==
  LET g0 == NandOf(n, <<d, High, reset>>)
      g1 == NandOf(g0.net, <<g0.out, clk, High>>)
      g2 == NandOf(g1.net, <<reset, clk, High>>)
      g3 == NandOf(g2.net, <<g0.out, g2.out>>)
      g4 == NandOf(g3.net, <<High, g1.out, High>>)
      g5 == NandOf(g4.net, <<g2.out, g4.out>>)
      loop0 == SetInput(g5.net, g0.out, 2, g1.out)
      loop1 == SetInput(loop0, g1.out, 3, g2.out)
      loop2 == SetInput(loop1, g2.out, 3, g3.out)
  IN  [net |-> SetInput(loop2, g4.out, 3, g5.out), out |-> g5.out]

\* MakeDFlipFlop.  The gates are made with kHighGate where a loop closes.
DFlipFlop(n, d) ==
  LET g0 == NandOf(n, <<d, High, reset>>)
      g1 == NandOf(g0.net, <<g0.out, clk, High>>)
      g2 == NandOf(g1.net, <<reset, clk, High>>)
      g3 == NandOf(g2.net, <<g0.out, g2.out>>)
      g4 == NandOf(g3.net, <<reset, g1.out, High>>)
      g5 == NandOf(g4.net, <<g2.out, g4.out>>)
      loop0 == SetInput(g5.net, g0.out, 2, g1.out)
      loop1 == SetInput(loop0, g1.out, 3, g2.out)
      loop2 == SetInput(loop1, g2.out, 3, g3.out)
  IN  [net |-> SetInput(loop2, g4.out, 3, g5.out), out |-> g5.out]

\* The mux reads the bit back unless the register is written.
Register ==
  LET enable == EqOf(EmptyNet, High, wa)
      mux    == MuxOf(enable.net, enable.out, data, data)
      value  == DFlipFlop(mux.net, mux.out)
      loop   == SetInput(value.net, mux.out, 4, value.out)
  IN  DeclareOutput(loop, value.out)

OneRegister == {Register}

\* The caller begins with every input low, and then changes clk or reset, not both, and
\* the other inputs at will in one step.
OneEdge(before, after) ==
  IF before[reset] = "none" THEN \A i \in Inputs : after[i] = "low"
  ELSE before[clk] = after[clk] \/ before[reset] = after[reset]

\* The register keeps its bit over every sequence of calls, and takes a new one on the
\* rising edge of the clock only, whatever address and data do in the same call and
\* in whatever order the users of a terminal are visited.  (This rests on InputOrder:
\* clk is declared before the data, so the loop has closed when data arrives.)
Cell == INSTANCE ClockedBit WITH
          inputs  <- shown.inputs,
          outputs <- shown.outputs,
          Staged  <- LAMBDA in, q : IF in[wa] = "high" THEN in[data] ELSE q,
          Shows   <- LAMBDA in, q : <<q>>
ImplementsRegister == Cell!Spec

=============================================================================
