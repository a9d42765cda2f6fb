----------------------------- MODULE MCAssembler -----------------------------
(* Small instances of Assembler.                                            *)
EXTENDS Assembler

\* Labels before, between and behind what refers to them, also more than 64
\* instructions away; padding forwards and backwards.
Layout ==
  { LabelOf("a"), LabelOf("b"), PadTo(2), PadTo(66),
    Statement("jump", [pred |-> 0], "a"), Statement("call", [pred |-> 1], "b"),
    Statement("ret", [pred |-> 0], Null) }

\* One instruction of each shape, with operands that tell its fields apart.
Shapes ==
  { Statement("movi",  [pred |-> 1, imm |-> 9, dst |-> 2], Null),
    Statement("testi", [pred |-> 0, imm |-> 4, lhs |-> 3, cmp |-> 1], Null),
    Statement("test",  [pred |-> 0, lhs |-> 1, rhs |-> 2, cmp |-> 3], Null),
    Statement("mov",   [pred |-> 0, deref_src |-> 1, src |-> 1, dst |-> 2], Null),
    Statement("sub",   [pred |-> 1, deref_src |-> 0, src |-> 3, dst |-> 1], Null),
    Statement("store", [pred |-> 0, src |-> 3, dstaddr |-> 1], Null),
    Statement("andtnz", [pred |-> 0, lhs |-> 1, rhs |-> 2], Null),
    Statement("wait",  [pred |-> 0, val |-> 1, rhs |-> 1, lhs |-> 2], Null),
    Statement("pop",   [pred |-> 0, dst |-> 3], Null),
    Statement("call3", [pred |-> 0], Null) }

AllPrograms == SeqOf(Layout, 4) \cup SeqOf(Shapes \cup {LabelOf("a")}, 3)
               \cup [1 .. 2 -> Shapes \cup Layout]

Tokens == {Sym("+"), Sym("["), Sym("]"), Sym("lt"), Sym("gt"), Sym(":"),
           Id("mov"), Id("testi"), Id("jump"), Id("r1"), Literal(3)}
AllJunk == SeqOf(Tokens, 4) \cup
           {<<Sym("("), t, u>> : t \in Tokens, u \in Tokens \cup {Sym(")")}} \cup
           {<<Id("testi"), t, u, v, w>> : t, u, v, w \in Tokens} \cup
           {<<Id("movi"), Literal(n), Id("r1")>> : n \in {15, 16, 255, 256}}

=============================================================================
