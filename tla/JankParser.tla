------------------------------ MODULE JankParser ------------------------------
(****************************************************************************)
(* The parser of Jank (jank/parser.cc) and its symbol tables (jank/ast.h).  *)
(*                                                                          *)
(* Instructions are read by a machine with a stack: a frame for each block  *)
(* and each if, while and for that has been begun.  `done' is the           *)
(* instruction that has just been read, until the frame on top has it.  An  *)
(* expression is read at once: ParseExpression and what it calls are        *)
(* operators, whose result is a set with one outcome (so that TLC evaluates *)
(* it once), an error or a value and the place of the next token.           *)
(*                                                                          *)
(* The parser gives up at the first error, and what it has built until then *)
(* is not asked for.  The positions of nodes and the notes that follow an   *)
(* error are left out.                                                      *)
(****************************************************************************)
EXTENDS JankSyntax, FiniteSets, TLC

CONSTANTS
  Programs,     \* programs that are parsed
  Expressions,  \* sequences of tokens, parsed as the body of a function
  Texts,        \* other sequences of tokens
  MaxInt        \* the greatest int

ASSUME JankAssumption == MaxInt \in Nat

VARIABLES
  program,    \* the program whose text is parsed, Null if there is none (history)
  tokens,     \* its tokens
  at,         \* the place of the next token
  scopes,     \* the scopes, the module's first
  functions,  \* the functions of the module
  fun,        \* the one whose body is read
  count,      \* its variables so far
  stack,      \* what has been begun and not ended
  done,       \* the instruction that has been read, or Null
  left,       \* has a declaration been left without an error? (history)
  verdict     \* "none", "accepted", "aborted" or the error

source == <<program, tokens>>
symbols == <<scopes, functions, fun, count>>
vars == <<source, at, symbols, stack, done, left, verdict>>

----------------------------------------------------------------------------
(* Tokens and scopes.                                                       *)

Tok(i) == IF i \in DOMAIN tokens THEN tokens[i] ELSE Sym("unknown")
Is(i, type) == Tok(i).type = type
IsType(i) == Tok(i).type \in Types

Scope(parent) == [parent |-> parent, entries |-> << >>, vars |-> << >>]

\* Faulty: the enclosing scopes are not asked.
LookupHere(s, name) ==
  IF name \in DOMAIN scopes[s].entries THEN scopes[s].entries[name] ELSE << >>

RECURSIVE Lookup(_, _)
Lookup(s, name) ==
  IF name \in DOMAIN scopes[s].entries THEN scopes[s].entries[name]
  ELSE IF scopes[s].parent = 0 THEN << >>
  ELSE Lookup(scopes[s].parent, name)

\* AddVar refuses a name that is visible, from whichever scope.
MayAdd(s, name) == Lookup(s, name) = << >>
AddVar(scope, name, ref) ==
  [scope EXCEPT !.entries = (name :> ref) @@ @, !.vars = Append(@, name)]

----------------------------------------------------------------------------
(* ParseExpression.                                                         *)

Done(i, value) == {[error |-> "none", at |-> i, value |-> value]}
Failed(error) == {[error |-> error, at |-> 0, value |-> Null]}
Then(outcomes, F(_)) == UNION {IF r.error = "none" THEN F(r) ELSE {r} : r \in outcomes}
Expect(i, type, value) == IF Is(i, type) THEN Done(i + 1, value) ELSE Failed("Expected token.")

\* Faulty: every operator is right-associative.
TighterRight(op) == Operators[op]

\* The precedence that an operator on the right must have.
Tighter(op) == IF op = "?" THEN Operators[op] ELSE Operators[op] + 1

RECURSIVE ParseExpression(_, _, _), Prefix(_, _), Rest(_, _, _, _), Arguments(_, _, _)

ParseExpression(i, s, min) == Then(Prefix(i, s), LAMBDA r : Rest(r.at, r.value, s, min))

\* A name is a call if it is a function's, and else a variable.
Named(i, s, ref) ==
  CASE ref = << >>  -> Failed("Undeclared identifier.")
    [] Len(ref) = 1 ->
         Then(IF Is(i + 1, "(") /\ Is(i + 2, ")") THEN Done(i + 3, << >>)
              ELSE IF Is(i + 1, "(") THEN Arguments(i + 2, s, << >>)
              ELSE Failed("Expected '('."),
              LAMBDA r : Done(r.at, Node("call", Tok(i).text, ref, r.value)))
    [] OTHER -> IF Is(i + 1, "(") THEN Failed("Only functions can be called.")
                ELSE Done(i + 1, Node("var", Tok(i).text, ref, << >>))

Arguments(i, s, before) ==
  Then(ParseExpression(i, s, 0),
       LAMBDA r : IF Is(r.at, ",") THEN Arguments(r.at + 1, s, Append(before, r.value))
                  ELSE Expect(r.at, ")", Append(before, r.value)))

\* The literal must be an int: CHECK(SimpleAtoi(...)).
Prefix(i, s) ==
  CASE Is(i, "literal") -> IF Tok(i).value > MaxInt THEN Failed("aborted")
                           ELSE Done(i + 1, Constant(Tok(i).value))
    [] Is(i, "identifier") -> Named(i, s, Lookup(s, Tok(i).text))
    [] Is(i, "(") -> Then(ParseExpression(i + 1, s, 0), LAMBDA r : Expect(r.at, ")", r.value))
    [] Tok(i).type \in DOMAIN Unary ->
         Then(ParseExpression(i + 1, s, Unary[Tok(i).type]),
              LAMBDA r : Done(r.at, Apply(Tok(i).type, <<r.value>>)))
    [] OTHER -> Failed("Expected expression.")

\* lhs is followed by the operator at i.
Operation(i, lhs, s) ==
  LET op == Tok(i).type
  IN  Then(ParseExpression(i + 1, s, Tighter(op)),
           LAMBDA r :
             CASE op = "[" -> Expect(r.at, "]", Apply(op, <<lhs, r.value>>))
               [] op = "?" -> Then(IF Is(r.at, ":") THEN ParseExpression(r.at + 1, s, Tighter(op))
                                   ELSE Failed("Expected token."),
                                   LAMBDA t : Done(t.at, Apply(op, <<lhs, r.value, t.value>>)))
               [] OTHER -> Done(r.at, Apply(op, <<lhs, r.value>>)))

Rest(i, lhs, s, min) ==
  LET op == Tok(i).type
  IN  IF op \notin DOMAIN Operators \/ Operators[op] < min
      THEN Done(i, lhs)
      ELSE Then(Operation(i, lhs, s), LAMBDA r : Rest(r.at, r.value, s, min))

\* An expression in parentheses behind a keyword.
Condition(i, s) ==
  IF Is(i, "(")
  THEN Then(ParseExpression(i + 1, s, 0), LAMBDA r : Expect(r.at, ")", r.value))
  ELSE Failed("Expected token.")

\* An expression, or an assignment; then the token `end'.
Simply(i, s, end) ==
  Then(ParseExpression(i, s, 0),
       LAMBDA r :
         LET op == Tok(r.at).type
         IN  IF op \notin DOMAIN Assignments \cup {"="}
             THEN Expect(r.at, end, Instr("expr", <<r.value>>))
             ELSE IF ~ Assignable(r.value) THEN Failed("Expected assignable expression.")
             ELSE Then(ParseExpression(r.at + 1, s, 0),
                       LAMBDA q : Expect(q.at, end, Assign(r.value, op, q.value))))

\* TryParseVarDecl behind the type: the name and the expression, or Null.  The
\* expression is read before the name is declared.
VarDecl(i, s) ==
  Then(IF ~ Is(i + 1, "identifier") THEN Failed("Expected token.")
       ELSE IF Is(i + 2, "=") THEN ParseExpression(i + 3, s, 0)
       ELSE Done(i + 2, Null),
       LAMBDA r :
         CASE Is(i, "void") -> Failed("Cannot declare a void global variable")
           [] ~ Is(i, "void") /\ ~ MayAdd(s, Tok(i + 1).text) -> Failed("Attempted to redeclare.")
           [] OTHER -> Expect(r.at, ";", r.value))

\* The parameters behind "(".  One without a name is no error: "left".
RECURSIVE Parameters(_, _)
Parameters(i, before) ==
  LET params == Append(before, Param(Tok(i).type, Tok(i + 1).text))
  IN  CASE ~ IsType(i) -> Failed("Expected type.")
        [] IsType(i) /\ ~ Is(i + 1, "identifier") ->
             {[error |-> "left", at |-> i + 1, value |-> Null]}
        [] IsType(i) /\ Is(i + 1, "identifier") ->
             IF Is(i + 2, ",") THEN Parameters(i + 3, params) ELSE Expect(i + 2, ")", params)
ParamList(i) == IF Is(i, ")") THEN Done(i + 1, << >>) ELSE Parameters(i, << >>)

----------------------------------------------------------------------------
(* Parse.                                                                   *)

Running == verdict = "none"

\* ParseTopLevelDecl returns; the loop of Parse ends if there is an error.
Fail(error) ==
  /\ verdict' = error
  /\ UNCHANGED <<source, at, symbols, stack, done, left>>

\* Faulty: the parser goes back to where the declaration began.
LeaveThere(i) ==
  /\ stack' = << >> /\ done' = Null /\ left' = TRUE
  /\ UNCHANGED <<source, at, symbols, verdict>>

\* It returns without an error: the loop goes on with the token at i.
Leave(i) ==
  /\ stack' = << >> /\ done' = Null /\ left' = TRUE
  /\ at' = i
  /\ UNCHANGED <<source, symbols, verdict>>

\* A step that depends on an outcome.
Try(outcomes, A(_)) ==
  \E r \in outcomes :
    \/ r.error = "none" /\ A(r)
    \/ r.error = "left" /\ Leave(r.at)
    \/ r.error \notin {"none", "left"} /\ Fail(r.error)

AtTop == Running /\ stack = << >> /\ at <= Len(tokens)
Declares == AtTop /\ IsType(at) /\ Is(at + 1, "identifier")
ident == Tok(at + 1).text

NoDeclaration ==
  \/ AtTop /\ ~ IsType(at) /\ Fail("Expected type.")
  \/ AtTop /\ IsType(at) /\ ~ Is(at + 1, "identifier") /\ Fail("Expected identifier.")

GlobalVar ==
  /\ Declares /\ ~ Is(at + 2, "(")
  /\ Try(CASE Is(at, "void") -> Failed("Cannot declare a void global variable")
           [] ~ Is(at, "void") /\ ~ MayAdd(1, ident) -> Failed("Attempted to redeclare.")
           [] OTHER -> Expect(at + 2, ";", Null),
         LAMBDA r :
           /\ at' = r.at
           /\ scopes' = [scopes EXCEPT ![1] = AddVar(@, ident, <<0, Len(@.vars) + 1>>)]
           /\ UNCHANGED <<source, functions, fun, count, stack, done, left, verdict>>)

\* declare_function, with the function's number: a new one, or that of one with
\* the same signature.
DeclareFunction(params) ==
  LET ref == Lookup(1, ident)
      known == ref # << >>
  IN  CASE known /\ Len(ref) # 1 -> Failed("Attempted to declare function.")
        [] known /\ Len(ref) = 1 ->
             IF functions[ref[1]].type = Tok(at).type /\ functions[ref[1]].types = TypesOf(params)
             THEN Done(0, ref[1]) ELSE Failed("Attempted to redeclare function.")
        [] ~ known -> Done(0, Len(functions) + 1)
Declared(f, params) ==
  IF f \in DOMAIN functions THEN functions
  ELSE Append(functions, Function([type |-> Tok(at).type, name |-> ident, params |-> params], << >>, Null))
WithFunction(f) == [scopes EXCEPT ![1].entries = (ident :> <<f>>) @@ @]

\* The number of the function, its parameters and the place behind them.
Header ==
  Then(ParamList(at + 3),
       LAMBDA r : Then(DeclareFunction(r.value),
                       LAMBDA d : Done(r.at, [f |-> d.value, params |-> r.value])))
IsFunction == Declares /\ Is(at + 2, "(")

Prototype ==
  /\ IsFunction
  /\ \A r \in Header : r.error = "none" => ~ Is(r.at, "{")
  /\ Try(Then(Header, LAMBDA r : Expect(r.at, ";", r.value)),
         LAMBDA r :
           /\ at' = r.at
           /\ functions' = Declared(r.value.f, r.value.params)
           /\ scopes' = WithFunction(r.value.f)
           /\ UNCHANGED <<source, fun, count, stack, done, left, verdict>>)

\* The parameters have a scope of their own; they may not be visible either.
Frame(kind, scope, expr) ==
  [kind |-> kind, scope |-> scope, expr |-> expr, step |-> Null, code |-> << >>]
Names(params) == [i \in DOMAIN params |-> params[i].name]
MayDefine(f, params) ==
  /\ \A i \in DOMAIN params : params[i].name # ident /\ MayAdd(1, params[i].name)
  /\ \A i, j \in DOMAIN params : i # j => params[i].name # params[j].name
DefinitionScope(f, params) ==
  [ parent |-> 1, vars |-> Names(params),
    entries |-> [n \in ToSet(Names(params)) |-> <<f, IndexIn(Names(params), n)>>] ]
Definition ==
  /\ IsFunction
  /\ \E r \in Header :
       /\ r.error = "none" /\ Is(r.at, "{")
       /\ LET f == r.value.f
              params == r.value.params
              funs == Declared(f, params)
          IN  IF funs[f].body # Null THEN Fail("Duplicate function definition.")
              ELSE IF ~ MayDefine(f, params) THEN Fail("Attempted to redeclare.")
              ELSE /\ functions' = [funs EXCEPT ![f].params = Names(params)]
                   /\ scopes' = WithFunction(f) \o <<DefinitionScope(f, params), Scope(Len(scopes) + 1)>>
                   /\ stack' = <<Frame("body", Len(scopes) + 2, Null)>>
                   /\ fun' = f /\ count' = Len(params)
                   /\ at' = r.at + 1
                   /\ UNCHANGED <<source, done, left, verdict>>

----------------------------------------------------------------------------
(* Blocks and instructions.                                                 *)

Top == stack[Len(stack)]
Under == SubSeq(stack, 1, Len(stack) - 1)
Reading(kinds) == Running /\ stack # << >> /\ done = Null /\ Top.kind \in kinds
InBlock == Reading({"body", "block"})

\* Faulty: the variable of a for belongs to the block around it.
DeclaredAround(s, var) ==
  [scopes EXCEPT ![IF Top.kind = "for init" THEN scopes[s].parent ELSE s] =
     AddVar(@, var, <<fun, count + 1>>)]

DeclaredIn(s, var) == [scopes EXCEPT ![s] = AddVar(@, var, <<fun, count + 1>>)]

\* A declaration in a block, or in the head of a for.
LocalVar ==
  /\ Reading({"body", "block", "for init"}) /\ IsType(at)
  /\ Try(VarDecl(at, Top.scope),
         LAMBDA r :
           LET ref == <<fun, count + 1>>
               code == IF r.value = Null THEN << >>
                       ELSE <<Assign(Node("var", ident, ref, << >>), "=", r.value)>>
           IN  /\ at' = r.at
               /\ scopes' = DeclaredIn(Top.scope, ident)
               /\ count' = count + 1
               /\ stack' = Append(Under, [Top EXCEPT !.code = @ \o code,
                                            !.kind = IF @ = "for init" THEN "for head" ELSE @])
               /\ UNCHANGED <<source, functions, fun, done, left, verdict>>)

\* "}".
ThisBlock == Block(scopes[Top.scope].vars, Top.code)
CloseBlock ==
  /\ InBlock /\ (Is(at, "}") \/ at > Len(tokens))
  /\ Try(Expect(at, "}", Null),
         LAMBDA r :
           /\ at' = r.at
           /\ stack' = Under
           /\ IF Top.kind = "body"
              THEN functions' = [functions EXCEPT ![fun].body = ThisBlock] /\ UNCHANGED done
              ELSE done' = Instr("block", <<ThisBlock>>) /\ UNCHANGED functions
           /\ UNCHANGED <<source, scopes, fun, count, left, verdict>>)

\* ParseInstruction is called.
AtInstruction ==
  \/ Reading({"if", "while", "for"})
  \/ InBlock /\ ~ IsType(at) /\ ~ Is(at, "}") /\ at <= Len(tokens)
Keywords == {"if", "while", "for", "{"}

Push(i, frame) ==
  /\ at' = i
  /\ stack' = Append(stack, frame)
  /\ UNCHANGED <<source, functions, fun, count, done, left, verdict>>
InNewScope(i, kind) ==
  /\ scopes' = Append(scopes, Scope(Top.scope))
  /\ Push(i, Frame(kind, Len(scopes) + 1, Null))

OpenBlock == AtInstruction /\ Is(at, "{") /\ InNewScope(at + 1, "block")

IfOrWhile ==
  /\ AtInstruction /\ Tok(at).type \in {"if", "while"}
  /\ Try(Condition(at + 1, Top.scope),
         LAMBDA r : Push(r.at, Frame(Tok(at).type, Top.scope, r.value)) /\ UNCHANGED scopes)

OpenFor ==
  /\ AtInstruction /\ Is(at, "for")
  /\ Try(Expect(at + 1, "(", Null), LAMBDA r : InNewScope(r.at, "for init"))

NoForInit ==
  /\ Reading({"for init"}) /\ ~ IsType(at)
  /\ Try(Expect(at, ";", Null),
         LAMBDA r :
           /\ at' = r.at
           /\ stack' = Append(Under, [Top EXCEPT !.kind = "for head"])
           /\ UNCHANGED <<source, symbols, done, left, verdict>>)

\* The step of a for: none, or an instruction without a keyword, which is refused
\* without an error.
Step(i, s) ==
  CASE Is(i, ")") -> Done(i + 1, Null)
    [] Tok(i).type \in Keywords -> {[error |-> "left", at |-> i, value |-> Null]}
    [] OTHER -> Simply(i, s, ")")
ForHead ==
  /\ Reading({"for head"})
  /\ Try(Then(ParseExpression(at, Top.scope, 0),
              LAMBDA r :
                IF ~ Is(r.at, ";") THEN Failed("Expected token.")
                ELSE Then(Step(r.at + 1, Top.scope),
                          LAMBDA q : Done(q.at, [expr |-> r.value, step |-> q.value]))),
         LAMBDA r :
           /\ at' = r.at
           /\ stack' = Append(Under, [Top EXCEPT !.kind = "for", !.expr = r.value.expr,
                                                 !.step = r.value.step])
           /\ UNCHANGED <<source, symbols, done, left, verdict>>)

Plain ==
  /\ AtInstruction /\ Tok(at).type \notin Keywords
  /\ Try(Simply(at, Top.scope, ";"),
         LAMBDA r : /\ at' = r.at
                    /\ done' = r.value
                    /\ UNCHANGED <<source, symbols, stack, left, verdict>>)

\* The frame on top takes the instruction that has been read.
Finished == Running /\ done # Null
Take ==
  /\ Finished
  /\ \/ Top.kind \in {"body", "block"}
     \/ Top.kind = "if" /\ Top.code = << >> /\ Is(at, "else")
  /\ stack' = Append(Under, [Top EXCEPT !.code = Append(@, done)])
  /\ at' = IF Top.kind = "if" THEN at + 1 ELSE at
  /\ done' = Null
  /\ UNCHANGED <<source, symbols, left, verdict>>

\* ... and is an instruction that has been read itself.
Complete ==
  /\ Finished
  /\ \/ Top.kind \in {"while", "for"}
     \/ Top.kind = "if" /\ (Top.code # << >> \/ ~ Is(at, "else"))
  /\ done' = IF Top.kind = "for"
             THEN LET loop == Instr("for", <<Top.expr, Top.step, done>>)
                  IN  Instr("block", <<Block(scopes[Top.scope].vars, Append(Top.code, loop))>>)
             ELSE Instr(Top.kind, <<Top.expr>> \o Append(Top.code, done))
  /\ stack' = Under
  /\ UNCHANGED <<source, at, symbols, left, verdict>>

EndOfText ==
  /\ Running /\ stack = << >> /\ at > Len(tokens)
  /\ verdict' = "accepted"
  /\ UNCHANGED <<source, at, symbols, stack, done, left>>

Parses ==
  \/ NoDeclaration \/ GlobalVar \/ Prototype \/ Definition
  \/ LocalVar \/ CloseBlock \/ OpenBlock \/ IfOrWhile \/ OpenFor \/ NoForInit \/ ForHead
  \/ Plain \/ Take \/ Complete \/ EndOfText

Returned == ~ Running /\ UNCHANGED vars

\* int f(int a) { e; }
InFunction(e) ==
  <<Sym("int"), Id("f"), Sym("("), Sym("int"), Id("a"), Sym(")"), Sym("{")>> \o e
    \o <<Sym(";"), Sym("}")>>

Init ==
  /\ \/ \E p \in Programs : program = p /\ tokens = Text(p)
     \/ \E e \in Expressions : program = Null /\ tokens = InFunction(e)
     \/ \E t \in Texts : program = Null /\ tokens = t
  /\ at = 1
  /\ scopes = <<Scope(0)>>
  /\ functions = << >> /\ fun = 0 /\ count = 0
  /\ stack = << >> /\ done = Null /\ left = FALSE
  /\ verdict = "none"

Next == Parses \/ Returned

\* Parse is a function: it runs until it returns.
Spec == Init /\ [][Next]_vars /\ WF_vars(Parses)

----------------------------------------------------------------------------
Accepted == verdict = "accepted"

\* An accepted program is one without defects, and its tree is the one it stands
\* for: each name is what is visible where it is used, a declaration with a value
\* is an assignment in its place, and a for is a block with its variable.
ParsesAsWritten ==
  Accepted /\ program # Null =>
    /\ ~ Defective(program)
    /\ Module(scopes[1].vars, functions) = Meaning(program)

\* Only a program with a defect is refused.
RefusesOnlyMistakes == ~ Running /\ ~ Accepted /\ program # Null => Defective(program)

\* The operators that an expression leaves open at its ends: those that compete
\* for an operand with an operator next to it.
RECURSIVE OpenLeft(_), OpenRight(_)
OpenLeft(e) ==
  IF Len(e.args) < 2 \/ e.op = "call" THEN {} ELSE {Operators[e.op]} \cup OpenLeft(e.args[1])
OpenRight(e) ==
  IF e.args = << >> \/ e.op \in {"call", "["} THEN {}
  ELSE {IF Len(e.args) = 1 THEN Unary[e.op] ELSE Operators[e.op]}
         \cup OpenRight(e.args[Len(e.args)])

\* An operator has an operand on its left that binds as tightly or, to "?", more
\* tightly; on its right one that binds more tightly or, to "?", as tightly.
RECURSIVE Ordered(_)
Ordered(e) ==
  /\ \A i \in DOMAIN e.args : Ordered(e.args[i])
  /\ Len(e.args) = 1 => OpenLeft(e.args[1]) = {}
  /\ Len(e.args) > 1 =>
       /\ \A p \in OpenRight(e.args[1]) : p > Operators[e.op] \/ (e.op # "?" /\ p = Operators[e.op])
       /\ \A i \in 2 .. Len(e.args) : \A p \in OpenLeft(e.args[i]) :
            p > Operators[e.op] \/ (e.op = "?" /\ p = Operators[e.op])

\* The tokens of an expression without parentheses.
RECURSIVE Yield(_)
Yield(e) ==
  LET arg(i) == Yield(e.args[i])
  IN  CASE e.op = "literal" -> <<Number(e.ref[1])>>
        [] e.op = "var" -> <<Id(e.name)>>
        [] e.op = "[" -> arg(1) \o <<Sym("[")>> \o arg(2) \o <<Sym("]")>>
        [] e.op = "?" -> arg(1) \o <<Sym("?")>> \o arg(2) \o <<Sym(":")>> \o arg(3)
        [] OTHER -> IF Len(e.args) = 1 THEN <<Sym(e.op)>> \o arg(1)
                                       ELSE arg(1) \o <<Sym(e.op)>> \o arg(2)

\* Whatever the tokens of an expression: the tree has them all in their order, and
\* is the one that the operators' precedence and associativity ask for.
IsSentence(text) ==
  program = Null /\ text \in Expressions /\ tokens = InFunction(text) /\ Sym("(") \notin ToSet(text)
FollowsPrecedence ==
  LET text == SubSeq(tokens, 8, Len(tokens) - 2)
  IN  Accepted /\ IsSentence(text) =>
        LET instr == functions[1].body.code[1]
        IN  instr.kind = "expr" => Ordered(instr.parts[1]) /\ Yield(instr.parts[1]) = text

\* Parse returns.
Returns == <>(~ Running)

\* parser_test.cc says of "int f() { int ; }" that the identifier that is missing
\* is an error: what is accepted has no declaration that was given up.
NothingLeft == Accepted => ~ left

=============================================================================
