---------------------------- MODULE MCRegisterCell ----------------------------
(* A small instance of RegisterCell.                                        *)
EXTENDS RegisterCell

\* As the tests declare them.
Declared == <<reset, clk, wa, data>>

=============================================================================
