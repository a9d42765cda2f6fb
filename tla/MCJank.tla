-------------------------------- MODULE MCJank --------------------------------
(* Small instances of JankParser.                                           *)
EXTENDS JankParser

Var(n) == Node("var", n, << >>, << >>)
Call(n, args) == Node("call", n, << >>, args)
Do(e) == Simple(Null, "=", e)
Let(n, e) == Simple(Var(n), "=", e)

\* Statements about a, the parameter, and x and y, that may be declared.
Leaves == { Decl("int", "x", Null), Decl("int", "x", Var("x")), Decl("int", "y", Var("a")),
            Let("x", Var("a")), Do(Var("x")), Simple(Apply("[", <<Var("a"), Var("y")>>), "+=", Constant(1)) }
Inner == {Decl("int", "x", Null), Let("x", Var("a")), Do(Apply("-", <<Var("y")>>))}
Plains == {Let("x", Var("a")), Do(Apply("-", <<Var("y")>>))}
Nested ==
  {Braces(b) : b \in SeqOf(Inner, 2)} \cup
  {If(Var("a"), t, e) : t, e \in Plains \cup {Braces(<<Decl("int", "x", Null)>>)}} \cup
  {If(Var("x"), If(Var("a"), t, Do(Var("y"))), Null) : t \in Plains} \cup
  {While(Var("x"), t) : t \in Plains \cup {Braces(<<Decl("int", "y", Var("x"))>>)}} \cup
  {For(d, Var("x"), p, t) : d \in {Null, Decl("int", "x", Var("a")), Decl("int", "y", Null)},
                            p \in {Null, Let("x", Var("y"))},
                            t \in Plains \cup {Braces(<<Decl("int", "x", Null)>>)}}
Deeper ==
  {While(Var("a"), n) : n \in Nested} \cup {If(Var("a"), n, Braces(<<m>>)) : n \in Nested, m \in Leaves}
    \cup {For(Decl("int", "z", Null), Var("z"), Null, n) : n \in Nested}
    \cup {Braces(<<n, m>>) : n \in Nested, m \in Leaves}
Bodies ==
  {p \o b : p \in { << >>, <<Decl("int", "y", Var("a"))>>,
                    <<Decl("int", "x", Null), Decl("int", "y", Null)>> },
            b \in SeqOf(Leaves \cup Nested, 2)}
    \cup {<<d, n>> : d \in {Decl("int", "x", Null), Decl("int", "y", Null)}, n \in Deeper}
    \cup {<<Decl("int", "y", Null), n, m>> : n \in Deeper, m \in {Decl("int", "x", Null), Do(Var("y"))}}

\* A function of one parameter with these bodies.
OneFunction == {<<Fun("int", "f", <<Param("int", "a")>>, b)>> : b \in Bodies}

\* Declarations and definitions of the same few names.
Items ==
  { Global("int", "g"), Global("void", "g"), Global("int", "f"),
    Fun("int", "f", << >>, Null), Fun("void", "f", << >>, Null),
    Fun("int", "f", <<Param("int", "a")>>, Null),
    Fun("int", "f", <<Param("int", "b")>>, <<Do(Call("f", <<Var("b")>>))>>),
    Fun("int", "g", <<Param("int", "g")>>, << >>),
    Fun("void", "h", <<Param("int", "a"), Param("void", "a")>>, << >>),
    Fun("int", "h", <<Param("int", "a"), Param("int", "b")>>,
        <<Decl("int", "f", Null), Do(Call("f", <<Var("a"), Call("f", << >>)>>))>>),
    Fun("int", "k", << >>, <<Do(Apply("?", <<Var("g"), Call("f", <<Constant(1)>>), Call("h", << >>)>>))>>) }

AllPrograms == OneFunction \cup SeqOf(Items, 3)

\* Expressions of four operands, and the beginnings of others.
a == Id("a")
Infix == {"==", "<", "<<", "+", "-", "*", "?", ":"}
Chains ==
  {<<a, Sym(o), a, Sym(p), a, Sym(q), a>> : o, p, q \in Infix} \cup
  {<<a, Sym("?"), a, Sym(o), a, Sym(":"), a, Sym(p), a>> : o, p \in Infix \cup {"["}} \cup
  {<<a, Sym(o), a, Sym("["), a, Sym(p), a, Sym("]"), Sym(q), a>> : o, p, q \in Infix} \cup
  {<<Sym(u), a, Sym(o), Sym("-"), a, Sym(q), a>> : u \in {"-", "~"}, o, q \in Infix \cup {"["}}
Signs == {a, Sym("["), Sym("]"), Sym("-"), Sym("*"), Sym("?"), Sym("("), Sym(")"), Number(9)}
AllExpressions == Chains \cup SeqOf(Signs, 4)

\* Beginnings of declarations and statements.
Pieces == {Sym("int"), Id("f"), Sym("("), Sym(")"), Sym("{"), Sym(";"), Sym(",")}
Statements ==
  {<<Sym("for"), Sym("("), Sym(";"), a, Sym(";"), t, u, v>> :
     t, u, v \in {a, Sym("="), Sym(")"), Sym("if"), Sym("{"), Sym("+=")}}
AllTexts == SeqOf(Pieces, 5) \cup {InFunction(s) : s \in Statements}

NoPrograms == {}
Lists == SeqOf({Sym("int"), Id("f"), Sym("("), Sym(")"), Sym(";")}, 7)

=============================================================================
