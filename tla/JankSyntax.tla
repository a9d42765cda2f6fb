------------------------------ MODULE JankSyntax ------------------------------
(****************************************************************************)
(* The tokens of Jank (jank/lexer.h), its operators and the trees that are  *)
(* made of its programs (jank/ast.h); and, apart from the parser, what a    *)
(* program means.                                                           *)
(*                                                                          *)
(* A reference to a symbol is <<f>> for function f of the module, <<0, i>>  *)
(* for global variable i and <<f, k>> for variable k of function f, its     *)
(* parameters first; << >> stands for no symbol.                            *)
(****************************************************************************)
EXTENDS Integers, Sequences, SequencesExt

CONSTANT Null

Token(type, text, value) == [type |-> type, text |-> text, value |-> value]
Id(text) == Token("identifier", text, 0)
Number(value) == Token("literal", "", value)
Sym(type) == Token(type, "", 0)

Types == {"void", "int"}

\* The operators by the text of their tokens, with their precedence.
Binary ==
  [op \in {"==", "!="} |-> 20] @@ [op \in {"<", "<=", ">", ">="} |-> 30]
    @@ [op \in {"<<", ">>"} |-> 40] @@ [op \in {"+", "-"} |-> 50]
    @@ [op \in {"*", "/", "%"} |-> 60]
Operators == Binary @@ ("?" :> 10) @@ ("[" :> 0)
Unary == [op \in {"~", "!", "-"} |-> 70]

\* The operators that have an assignment.
Assignments == ("+=" :> "+") @@ ("-=" :> "-") @@ ("*=" :> "*") @@ ("/=" :> "/")
                 @@ ("<<=" :> "<<") @@ (">>=" :> ">>")

\* ExpressionNode, InstructionNode and Block.  The parts of an instruction are
\* its expressions, and the instructions or the block in it.
Node(op, name, ref, args) == [op |-> op, name |-> name, ref |-> ref, args |-> args]
Constant(value) == Node("literal", "", <<value>>, << >>)
Apply(op, args) == Node(op, "", << >>, args)
Assignable(e) == e.op \in {"var", "["}

Instr(kind, parts) == [kind |-> kind, parts |-> parts]
Block(names, code) == [vars |-> names, code |-> code]

\* What a statement without a keyword becomes, with its target and its operator.
Assign(target, op, e) ==
  Instr("assign", <<target, IF op = "=" THEN e ELSE Apply(Assignments[op], <<target, e>>)>>)

----------------------------------------------------------------------------
(* Programs as they are written: a sequence of globals and functions.       *)

Global(type, name) == [kind |-> "global", type |-> type, name |-> name]
Fun(type, name, params, body) ==
  [kind |-> "fun", type |-> type, name |-> name, params |-> params, body |-> body]
Param(type, name) == [type |-> type, name |-> name]

Decl(type, name, init) == [kind |-> "decl", type |-> type, name |-> name, init |-> init]
Simple(target, op, e)  == [kind |-> "simple", target |-> target, op |-> op, expr |-> e]
Braces(body)           == [kind |-> "braces", body |-> body]
If(e, then, else)      == [kind |-> "if", expr |-> e, then |-> then, else |-> else]
While(e, body)         == [kind |-> "while", expr |-> e, body |-> body]
For(init, e, step, body) ==
  [kind |-> "for", init |-> init, expr |-> e, step |-> step, body |-> body]
\* The part of a for behind its declaration.
Loop(s) == [kind |-> "loop", expr |-> s.expr, step |-> s.step, body |-> s.body]

Separated(texts) ==
  FlattenSeq([i \in DOMAIN texts |-> IF i = 1 THEN texts[i] ELSE <<Sym(",")>> \o texts[i]])
InParens(text) == <<Sym("(")>> \o text \o <<Sym(")")>>

\* An expression with parentheses wherever they may be.
RECURSIVE WrittenExpr(_)
WrittenExpr(e) ==
  LET arg(i) == WrittenExpr(e.args[i])
  IN  CASE e.op = "literal" -> <<Number(e.ref[1])>>
        [] e.op = "var"     -> <<Id(e.name)>>
        [] e.op = "call"    -> <<Id(e.name)>> \o InParens(Separated([i \in DOMAIN e.args |-> arg(i)]))
        [] e.op = "["       -> InParens(arg(1) \o <<Sym("[")>> \o arg(2) \o <<Sym("]")>>)
        [] e.op = "?"       -> InParens(arg(1) \o <<Sym("?")>> \o arg(2) \o <<Sym(":")>> \o arg(3))
        [] OTHER -> IF Len(e.args) = 1 THEN InParens(<<Sym(e.op)>> \o arg(1))
                                       ELSE InParens(arg(1) \o <<Sym(e.op)>> \o arg(2))

WrittenSimple(s) ==
  (IF s.target = Null THEN << >> ELSE WrittenExpr(s.target) \o <<Sym(s.op)>>) \o WrittenExpr(s.expr)
WrittenDecl(s) ==
  <<Sym(s.type), Id(s.name)>> \o (IF s.init = Null THEN << >> ELSE <<Sym("=")>> \o WrittenExpr(s.init))

RECURSIVE Written(_)
Written(s) ==
  CASE s.kind = "decl"   -> Append(WrittenDecl(s), Sym(";"))
    [] s.kind = "simple" -> Append(WrittenSimple(s), Sym(";"))
    [] s.kind = "braces" ->
         <<Sym("{")>> \o FlattenSeq([i \in DOMAIN s.body |-> Written(s.body[i])]) \o <<Sym("}")>>
    [] s.kind = "if"     ->
         <<Sym("if")>> \o InParens(WrittenExpr(s.expr)) \o Written(s.then)
           \o IF s.else = Null THEN << >> ELSE <<Sym("else")>> \o Written(s.else)
    [] s.kind = "while"  -> <<Sym("while")>> \o InParens(WrittenExpr(s.expr)) \o Written(s.body)
    [] s.kind = "for"    ->
         <<Sym("for")>>
           \o InParens((IF s.init = Null THEN << >> ELSE WrittenDecl(s.init)) \o <<Sym(";")>>
                         \o WrittenExpr(s.expr) \o <<Sym(";")>>
                         \o IF s.step = Null THEN << >> ELSE WrittenSimple(s.step))
           \o Written(s.body)
    [] s.kind = "global" -> <<Sym(s.type), Id(s.name), Sym(";")>>
    [] s.kind = "fun"    ->
         <<Sym(s.type), Id(s.name)>>
           \o InParens(Separated([i \in DOMAIN s.params |-> <<Sym(s.params[i].type), Id(s.params[i].name)>>]))
           \o IF s.body = Null THEN <<Sym(";")>> ELSE Written(Braces(s.body))

Text(program) == FlattenSeq([i \in DOMAIN program |-> Written(program[i])])

----------------------------------------------------------------------------
(* What a program means.  env is what each visible name refers to, and k    *)
(* the number of variables of function f that come before.                  *)

RECURSIVE Resolve(_, _)
Resolve(e, env) ==
  [e EXCEPT !.ref = IF e.op \notin {"var", "call"} THEN @
                    ELSE IF e.name \in DOMAIN env THEN env[e.name] ELSE << >>,
            !.args = [i \in DOMAIN e.args |-> Resolve(e.args[i], env)]]

\* Variables are read and functions called.
RECURSIVE Bound(_)
Bound(e) == /\ e.op = "var"  => Len(e.ref) = 2
            /\ e.op = "call" => Len(e.ref) = 1
            /\ \A i \in DOMAIN e.args : Bound(e.args[i])

\* How many variables a statement declares.
RECURSIVE Count(_), CountAll(_)
Count(s) ==
  CASE s.kind = "decl"   -> 1
    [] s.kind = "braces" -> CountAll(s.body)
    [] s.kind = "if"     -> CountAll(<<s.then>>) + IF s.else = Null THEN 0 ELSE Count(s.else)
    [] s.kind \in {"while", "loop"} -> Count(s.body)
    [] s.kind = "for"    -> Count(s.body) + IF s.init = Null THEN 0 ELSE 1
    [] s.kind = "simple" -> 0
CountAll(ss) == IF ss = << >> THEN 0 ELSE Count(Head(ss)) + CountAll(Tail(ss))

\* What names refer to in statement i of a block, and the variables before it.
Before(ss, i, k) == k + CountAll(SubSeq(ss, 1, i - 1))
EnvAt(ss, i, env, f, k) ==
  LET Declares(j, name) == ss[j].kind = "decl" /\ ss[j].name = name
      names == {ss[j].name : j \in {j \in 1 .. i - 1 : ss[j].kind = "decl"}}
  IN  env @@ [name \in names |->
                LET j == CHOOSE j \in 1 .. i - 1 : Declares(j, name)
                IN  <<f, Before(ss, j, k) + 1>>]

\* A for is a block that declares its variable; the loop is in it.
ForBlock(s) == Append(IF s.init = Null THEN << >> ELSE <<s.init>>, Loop(s))

\* The instructions that a statement becomes.
RECURSIVE Meant(_, _, _, _), MeantBlock(_, _, _, _)
Meant(s, env, f, k) ==
  LET expr(e) == Resolve(e, env)
      simple(t) == IF t.target = Null THEN Instr("expr", <<expr(t.expr)>>)
                                      ELSE Assign(expr(t.target), t.op, expr(t.expr))
  IN  CASE s.kind = "decl" ->
             IF s.init = Null THEN << >>
             ELSE <<Assign(Node("var", s.name, <<f, k + 1>>, << >>), "=", expr(s.init))>>
        [] s.kind = "simple" -> <<simple(s)>>
        [] s.kind = "braces" -> <<Instr("block", <<MeantBlock(s.body, env, f, k)>>)>>
        [] s.kind = "if"     ->
             <<Instr("if", <<expr(s.expr)>> \o Meant(s.then, env, f, k)
                             \o IF s.else = Null THEN << >>
                                ELSE Meant(s.else, env, f, k + Count(s.then)))>>
        [] s.kind = "while"  -> <<Instr("while", <<expr(s.expr)>> \o Meant(s.body, env, f, k))>>
        [] s.kind = "loop"   ->
             <<Instr("for", <<expr(s.expr), IF s.step = Null THEN Null ELSE simple(s.step)>>
                              \o Meant(s.body, env, f, k))>>
        [] s.kind = "for"    -> <<Instr("block", <<MeantBlock(ForBlock(s), env, f, k)>>)>>
MeantBlock(ss, env, f, k) ==
  LET decls == SelectSeq(ss, LAMBDA s : s.kind = "decl")
  IN  Block([i \in DOMAIN decls |-> decls[i].name],
            FlattenSeq([i \in DOMAIN ss |->
                          Meant(ss[i], EnvAt(ss, i, env, f, k), f, Before(ss, i, k))]))

\* A name that is not visible, or one that is declared where it is already.
RECURSIVE Mistaken(_, _), MistakenBlock(_, _)
Mistaken(s, env) ==
  LET expr(e) == ~ Bound(Resolve(e, env))
      simple(t) == \/ expr(t.expr)
                   \/ t.target # Null /\ (expr(t.target) \/ ~ Assignable(t.target))
  IN  CASE s.kind = "decl"   -> \/ s.type = "void" \/ s.name \in DOMAIN env
                                \/ s.init # Null /\ expr(s.init)
        [] s.kind = "simple" -> simple(s)
        [] s.kind = "braces" -> MistakenBlock(s.body, env)
        [] s.kind = "if"     -> expr(s.expr) \/ Mistaken(s.then, env)
                                \/ (s.else # Null /\ Mistaken(s.else, env))
        [] s.kind = "while"  -> expr(s.expr) \/ Mistaken(s.body, env)
        [] s.kind = "loop"   -> expr(s.expr) \/ Mistaken(s.body, env)
                                \/ (s.step # Null /\ simple(s.step))
        [] s.kind = "for"    -> MistakenBlock(ForBlock(s), env)
MistakenBlock(ss, env) == \E i \in DOMAIN ss : Mistaken(ss[i], EnvAt(ss, i, env, 1, 0))

\* The functions of a program by their first declaration, and its globals.
NamesOf(program, kind) ==
  LET firsts == {i \in DOMAIN program :
                   /\ program[i].kind = kind
                   /\ \A j \in 1 .. i - 1 : program[j].name # program[i].name}
  IN  [n \in 1 .. Cardinality(firsts) |->
         program[CHOOSE i \in firsts : Cardinality({j \in firsts : j <= i}) = n].name]
IndexIn(names, name) == CHOOSE i \in DOMAIN names : names[i] = name

\* What names refer to in item i: what has been declared up to it.
GlobalEnv(program, i) ==
  LET upTo == SubSeq(program, 1, i)
      vars == NamesOf(upTo, "global")
      funs == NamesOf(upTo, "fun")
  IN  [name \in ToSet(vars) |-> <<0, IndexIn(vars, name)>>]
        @@ [name \in ToSet(funs) |-> <<IndexIn(funs, name)>>]
ParamEnv(s, f, env) ==
  [name \in {s.params[i].name : i \in DOMAIN s.params} |->
     <<f, CHOOSE i \in DOMAIN s.params : s.params[i].name = name>>] @@ env

TypesOf(params) == [i \in DOMAIN params |-> params[i].type]
Module(globals, functions) == [globals |-> globals, functions |-> functions]
Function(s, params, body) ==
  [type |-> s.type, name |-> s.name, types |-> TypesOf(s.params), params |-> params, body |-> body]

Meaning(program) ==
  LET names == NamesOf(program, "fun")
      Items(f) == {i \in DOMAIN program : program[i].name = names[f]}
      Fn(f) ==
        LET defs == {i \in Items(f) : program[i].body # Null}
            i == IF defs = {} THEN CHOOSE i \in Items(f) : TRUE ELSE CHOOSE i \in defs : TRUE
            s == program[i]
        IN  IF defs = {} THEN Function(s, << >>, Null)
            ELSE Function(s, [p \in DOMAIN s.params |-> s.params[p].name],
                   MeantBlock(s.body, ParamEnv(s, f, GlobalEnv(program, i)), f, Len(s.params)))
  IN  Module(NamesOf(program, "global"), [f \in DOMAIN names |-> Fn(f)])

Defective(program) ==
  \/ \E i, j \in DOMAIN program :
       LET s == program[i]  t == program[j]
       IN  /\ i < j /\ s.name = t.name
           /\ \/ s.kind # "fun" \/ t.kind # "fun"
              \/ s.type # t.type \/ TypesOf(s.params) # TypesOf(t.params)
              \/ s.body # Null /\ t.body # Null
  \/ \E i \in DOMAIN program :
       LET s == program[i]
           env == GlobalEnv(program, i)
       IN  \/ s.kind = "global" /\ s.type = "void"
           \/ /\ s.kind = "fun" /\ s.body # Null
              /\ \/ \E p \in DOMAIN s.params :
                      \/ s.params[p].name \in DOMAIN env
                      \/ \E q \in DOMAIN s.params : p # q /\ s.params[p].name = s.params[q].name
                 \/ MistakenBlock(s.body, ParamEnv(s, 1, env))

=============================================================================
