------------------------------ MODULE MCGateEval ------------------------------
(* A gate that reads constants only, and one that reads it.                 *)
EXTENDS GateEval

CONSTANT in0

OnConstants ==
  LET nor  == NorOf(EmptyNet, <<Low>>)
      nand == NandOf(nor.net, <<in0, nor.out>>)
  IN  {DeclareOutput(nand.net, nand.out)}

Declared == <<in0>>

Anything(before, after) == TRUE

=============================================================================
