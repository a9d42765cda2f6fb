------------------------------ MODULE ClockedBit ------------------------------
(****************************************************************************)
(* What a cell with a clock promises: "Stores on rising clk edge. Reset is  *)
(* active low." (cpu/gate_lib.h), as RegisterFileSpec                       *)
(* (cpu/register_file_test.cc) spells it out: what is stored on the edge is *)
(* what was staged in the step before it.                                   *)
(****************************************************************************)
CONSTANTS
  clk, reset,     \* names of inputs
  Staged(_, _),   \* what some inputs stage, from the bit that is stored
  Shows(_, _)     \* what the outputs show; the first one is the stored bit

VARIABLES inputs, outputs   \* as the caller saw them last

Init == inputs[reset] = "none"

Stored(next) ==
  CASE next[reset] = "low" -> "low"
    [] next[reset] = "high" /\ inputs[clk] = "low" /\ next[clk] = "high" ->
         Staged(inputs, outputs[1])
    [] OTHER -> outputs[1]

\* The first thing a caller does is to reset the cell.
Step == /\ inputs[reset] = "none" => inputs'[reset] = "low"
        /\ outputs' = Shows(inputs', Stored(inputs'))

Spec == Init /\ [][Step]_<<inputs, outputs>>

=============================================================================
