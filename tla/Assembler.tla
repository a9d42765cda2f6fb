------------------------------ MODULE Assembler ------------------------------
(****************************************************************************)
(* ParseAssembly (isa/assembler.cc): two passes of Parse over the tokens of *)
(* a program, the first of which finds the addresses of the labels, the     *)
(* second of which hands each instruction to DispatchInstruction (generated *)
(* by isa/isa.cc), and so to the encoder.                                   *)
(*                                                                          *)
(* A token is a record of its type, its text (of an identifier) and its     *)
(* value (of a literal).  A step reads a padding directive, a label, the    *)
(* beginning of an instruction up to its first plain operand, or one        *)
(* operand more.  A failed assertion of the encoder is the verdict          *)
(* "aborted".                                                               *)
(****************************************************************************)
EXTENDS Isa, SequencesExt

CONSTANTS
  Programs,   \* programs that are assembled, as sequences of statements
  Junk,       \* other sequences of tokens
  Limit,      \* the instruction that is one too many: 1024
  Null

VARIABLES
  lines,      \* the statements of the program, Null if it is junk (history)
  tokens,     \* its tokens
  pass,       \* 1 or 2
  at,         \* the place of the next token
  pc,         \* Parse's count of instructions
  counted,    \* ParseAssembly's, in the first pass
  labels,     \* the addresses of the labels
  cur,        \* the instruction being read; Null between statements
  emitted,    \* the words that the encoder has
  errors,     \* the errors in the context
  verdict     \* what ParseAssembly returned

source == <<lines, tokens>>
vars == <<source, pass, at, pc, counted, labels, cur, emitted, errors, verdict>>

----------------------------------------------------------------------------
(* The tokens.                                                              *)

TokenSet == [type : STRING, text : STRING, value : Nat]
Token(type, text, value) == [type |-> type, text |-> text, value |-> value]
Id(text) == Token("identifier", text, 0)
Literal(value) == Token("literal", "", value)
Sym(type) == Token(type, "", 0)

\* Tokenizer::peek: the token at place i, or an unknown one behind the end.
Tok(i) == IF i \in DOMAIN tokens THEN tokens[i] ELSE Sym("unknown")
Is(i, type) == Tok(i).type = type

RegisterNames == <<"r0", "r1", "r2", "r3">>
IsRegister(i) == Is(i, "identifier") /\ Tok(i).text \in ToSet(RegisterNames)
ToRegister(i) == (CHOOSE r \in DOMAIN RegisterNames : RegisterNames[r] = Tok(i).text) - 1

\* kComparators: the codes of the comparisons there are, and the others.
Comparators == [eq |-> 0, lt |-> 1, ne |-> 2, ge |-> 3]
Swapped == {"le", "gt"}
IsComparator(i) == Tok(i).type \in DOMAIN Comparators \cup Swapped

InstrOf(mnemonic) ==
  Instructions[CHOOSE i \in DOMAIN Instructions : Instructions[i].mnemonic = mnemonic]
Mnemonics == {Instructions[i].mnemonic : i \in DOMAIN Instructions}

----------------------------------------------------------------------------
(* DispatchInstruction.                                                     *)

Has(name) == name \in InstrOf(cur.mnemonic).params
RegisterFields(instr) ==
  SelectSeq(instr.fields, LAMBDA f : f \in {"lhs", "rhs", "dst", "src", "dstaddr"})
ImmFields(instr) == SelectSeq(instr.fields, LAMBDA f : f \in {"imm", "val"})

\* The operands in the order of the fields; one that is missing is zero.
Operand(instr, c, field) ==
  LET Nth(fields, values) ==
        LET i == CHOOSE i \in DOMAIN fields : fields[i] = field
        IN  IF i \in DOMAIN values THEN values[i] ELSE 0
      Use(option) == IF option = Null THEN 0 ELSE option
  IN  CASE field = "pred"      -> c.pred
        [] field = "cmp"       -> Use(c.cmp)
        [] field = "deref_src" -> Use(c.deref)
        [] field = "jumpaddr"  -> Use(c.jump)
        [] field \in {"imm", "val"} -> Nth(ImmFields(instr), c.imms)
        [] OTHER               -> Nth(RegisterFields(instr), c.registers)
Operands(c) ==
  LET instr == InstrOf(c.mnemonic)
  IN  [f \in instr.params |-> Operand(instr, c, f)]

\* Faulty: operands that are left do not matter.
CompleteEnough(c) ==
  LET instr == InstrOf(c.mnemonic)
  IN  /\ Len(c.registers) >= Len(RegisterFields(instr))
      /\ Len(c.imms) >= Len(ImmFields(instr))
      /\ "cmp" \in instr.params => c.cmp # Null
      /\ "jumpaddr" \in instr.params => c.jump # Null

\* None is missing, and none is left.
Complete(c) ==
  LET instr == InstrOf(c.mnemonic)
  IN  /\ Len(c.registers) = Len(RegisterFields(instr))
      /\ Len(c.imms) = Len(ImmFields(instr))
      /\ c.cmp # Null   <=> "cmp" \in instr.params
      /\ c.deref # Null <=> "deref_src" \in instr.params
      /\ c.jump # Null  <=> "jumpaddr" \in instr.params

\* What the encoder asserts of the operands.
Encodable(c) == \A f \in InstrOf(c.mnemonic).params : FitsIn(f, Operands(c)[f])
Word(c) == Encode(InstrOf(c.mnemonic), Operands(c))

Reading(mnemonic, pred, deref, registers) ==
  [ mnemonic |-> mnemonic, pred |-> pred, deref |-> deref, registers |-> registers,
    imms |-> << >>, cmp |-> Null, jump |-> Null ]
Padding == Reading("mov", 0, 0, <<0, 0>>)
Readings ==
  [ mnemonic : Mnemonics, pred : {0, 1}, deref : {0, 1, Null}, registers : Seq(0 .. 3),
    imms : Seq(Nat), cmp : {0, 1, 2, 3, Null}, jump : Nat \cup {Null} ]

----------------------------------------------------------------------------
(* Parse.                                                                   *)

Running == verdict = "none"
BetweenStatements == Running /\ cur = Null /\ at \in DOMAIN tokens
InInstruction == Running /\ cur # Null

\* Parse returns false, with an error in the context.
Fail(message) ==
  /\ errors' = errors \cup {message}
  /\ verdict' = "rejected"
  /\ UNCHANGED <<source, pass, at, pc, counted, labels, cur, emitted>>

\* Faulty: the padding is not counted by ParseAssembly.
CountsNoPadding(n) == UNCHANGED <<counted, errors>>

\* The first pass's callback for n instructions, whose verdict is not asked for.
CountPadding(n) ==
  /\ counted' = counted + n
  /\ errors' = errors \cup IF counted < Limit /\ Limit <= counted + n
                           THEN {"Too many instructions."} ELSE {}

\* "(20)": instructions without effect up to this address.
IsPadding == Is(at, "(") /\ Is(at + 1, "literal") /\ Is(at + 2, ")")
\* Faulty: the directive's tokens stay where they are.
PadStays ==
  /\ BetweenStatements
  /\ IsPadding /\ Tok(at + 1).value >= pc
  /\ pc' = Tok(at + 1).value
  /\ UNCHANGED <<source, pass, at, counted, labels, cur, emitted, errors, verdict>>

Pad ==
  /\ BetweenStatements
  /\ IsPadding /\ Tok(at + 1).value >= pc
  /\ LET n == Tok(at + 1).value - pc
     IN  IF pass = 1
         THEN CountPadding(n) /\ UNCHANGED emitted
         ELSE /\ emitted' = emitted \o [i \in 1 .. n |-> Word(Padding)]
              /\ UNCHANGED <<counted, errors>>
  /\ pc' = Tok(at + 1).value
  /\ at' = at + 3
  /\ UNCHANGED <<source, pass, labels, cur, verdict>>

PadFails ==
  /\ BetweenStatements
  /\ Is(at, "(")
  /\ \/ ~ IsPadding /\ Fail("Unexpected token.")
     \/ IsPadding /\ Tok(at + 1).value < pc /\ Fail("Attempted to pad.")

\* "+" before a mnemonic (or, without effect, before a label).
Pred == IF Is(at, "+") THEN 1 ELSE 0
first == at + Pred
Named == BetweenStatements /\ ~ Is(at, "(") /\ Is(first, "identifier")

\* label_def_callback: the label's address is the first pass's count.
Defined(name) ==
  [l \in DOMAIN labels \cup {name} |-> IF l = name THEN counted ELSE labels[l]]

\* Faulty: a second definition replaces the first.
LabelOverwrites ==
  /\ Named /\ Is(first + 1, ":")
  /\ labels' = IF pass = 1 THEN Defined(Tok(first).text) ELSE labels
  /\ at' = first + 2
  /\ UNCHANGED <<source, pass, pc, counted, cur, emitted, errors, verdict>>

Label ==
  /\ Named /\ Is(first + 1, ":")
  /\ pass = 1 => Tok(first).text \notin DOMAIN labels
  /\ labels' = IF pass = 1 THEN Defined(Tok(first).text) ELSE labels
  /\ at' = first + 2
  /\ UNCHANGED <<source, pass, pc, counted, cur, emitted, errors, verdict>>

LabelFails ==
  /\ Named /\ Is(first + 1, ":")
  /\ pass = 1 /\ Tok(first).text \in DOMAIN labels
  /\ Fail("Label redefined.")

\* A mnemonic, and "[r1]" if the instruction has a source that may be in memory.
KnownMnemonic == Named /\ ~ Is(first + 1, ":") /\ Tok(first).text \in Mnemonics
MayDeref == "deref_src" \in InstrOf(Tok(first).text).params
Derefs == MayDeref /\ Is(first + 1, "[")
Mnemonic ==
  /\ KnownMnemonic
  /\ IF Derefs
     THEN /\ IsRegister(first + 2) /\ Is(first + 3, "]")
          /\ cur' = Reading(Tok(first).text, Pred, 1, <<ToRegister(first + 2)>>)
          /\ at' = first + 4
     ELSE /\ cur' = Reading(Tok(first).text, Pred, IF MayDeref THEN 0 ELSE Null, << >>)
          /\ at' = first + 1
  /\ UNCHANGED <<source, pass, pc, counted, labels, emitted, errors, verdict>>

MnemonicFails ==
  \/ /\ BetweenStatements /\ ~ Is(at, "(") /\ ~ Is(first, "identifier")
     /\ Fail("Unexpected token.")
  \/ /\ Named /\ ~ Is(first + 1, ":") /\ Tok(first).text \notin Mnemonics
     /\ Fail("Unexpected token.")
  \/ /\ KnownMnemonic /\ Derefs /\ ~ (IsRegister(first + 2) /\ Is(first + 3, "]"))
     /\ Fail(IF first + 2 > Len(tokens) THEN "Unexpected end of file." ELSE "Unexpected token.")

\* The operands.
Take(c) ==
  /\ cur' = c
  /\ at' = at + 1
  /\ UNCHANGED <<source, pass, pc, counted, labels, emitted, errors, verdict>>

TakeRegister ==
  /\ InInstruction /\ IsRegister(at)
  /\ Take([cur EXCEPT !.registers = Append(@, ToRegister(at))])

SecondOperand == cur.cmp = Null /\ Len(cur.registers) + Len(cur.imms) = 1
TakeComparator ==
  /\ InInstruction /\ Tok(at).type \in DOMAIN Comparators /\ SecondOperand
  /\ Take([cur EXCEPT !.cmp = Comparators[Tok(at).type]])

TakeImmediate ==
  /\ InInstruction /\ Is(at, "literal") /\ Tok(at).value < 256
  /\ Take([cur EXCEPT !.imms = Append(@, Tok(at).value)])

IsTarget == /\ InInstruction /\ Is(at, "identifier") /\ ~ IsRegister(at)
            /\ cur.jump = Null /\ Has("jumpaddr")
\* Faulty: the address keeps its upper bits.
TakeLabelUncut ==
  /\ IsTarget /\ (pass = 1 \/ Tok(at).text \in DOMAIN labels)
  /\ Take([cur EXCEPT !.jump = IF pass = 1 THEN 0 ELSE labels[Tok(at).text]])

TakeLabel ==
  /\ IsTarget /\ (pass = 1 \/ Tok(at).text \in DOMAIN labels)
  /\ Take([cur EXCEPT !.jump = IF pass = 1 THEN 0 ELSE labels[Tok(at).text] % 64])

OperandFails ==
  \/ /\ InInstruction /\ IsComparator(at) /\ ~ SecondOperand /\ Fail("Unexpected token.")
  \/ /\ InInstruction /\ Tok(at).type \in Swapped /\ SecondOperand
     /\ Fail("Unsupported comparator.")
  \/ /\ InInstruction /\ Is(at, "literal") /\ Tok(at).value >= 256 /\ Fail("Unexpected token.")
  \/ /\ IsTarget /\ pass = 2 /\ Tok(at).text \notin DOMAIN labels /\ Fail("Unknown label.")

\* No token that could be an operand: the instruction ends.
AtEnd == InInstruction /\ ~ (IsRegister(at) \/ IsComparator(at) \/ Is(at, "literal") \/ IsTarget)

Count ==
  /\ AtEnd /\ pass = 1
  /\ counted' = counted + 1
  /\ IF counted + 1 = Limit
     THEN /\ errors' = errors \cup {"Too many instructions.", "Failed to parse instruction"}
          /\ verdict' = "rejected"
     ELSE UNCHANGED <<errors, verdict>>
  /\ pc' = pc + 1
  /\ cur' = Null
  /\ UNCHANGED <<source, pass, at, labels, emitted>>

\* The visitor is called before DispatchInstruction looks whether an operand is
\* missing or left.
Dispatch ==
  /\ AtEnd /\ pass = 2
  /\ IF Encodable(cur)
     THEN /\ emitted' = Append(emitted, Word(cur))
          /\ IF Complete(cur)
             THEN UNCHANGED <<errors, verdict>>
             ELSE /\ errors' = errors \cup {"Failed to parse instruction"}
                  /\ verdict' = "rejected"
     ELSE verdict' = "aborted" /\ UNCHANGED <<emitted, errors>>
  /\ pc' = pc + 1
  /\ cur' = Null
  /\ UNCHANGED <<source, pass, at, counted, labels>>

\* The end of a pass.
EndPass ==
  /\ Running /\ cur = Null /\ at > Len(tokens)
  /\ IF pass = 1
     THEN pass' = 2 /\ at' = 1 /\ pc' = 0 /\ UNCHANGED verdict
     ELSE verdict' = "accepted" /\ UNCHANGED <<pass, at, pc>>
  /\ UNCHANGED <<source, counted, labels, cur, emitted, errors>>

Step ==
  \/ Pad \/ PadFails \/ Label \/ LabelFails \/ Mnemonic \/ MnemonicFails
  \/ TakeRegister \/ TakeComparator \/ TakeImmediate \/ TakeLabel \/ OperandFails
  \/ Count \/ Dispatch \/ EndPass

Returned == ~ Running /\ UNCHANGED vars

----------------------------------------------------------------------------
(* The programs.  A statement is a label, a padding directive or an         *)
(* instruction, whose jump address is a label; it is written as in          *)
(* emulator_test.cc.                                                        *)

LabelOf(name) == [kind |-> "label", name |-> name]
PadTo(address) == [kind |-> "pad", to |-> address]
Statement(op, args, target) == [kind |-> "instr", op |-> op, args |-> args, target |-> target]

WrittenField(st, field) ==
  CASE field = "pred" -> << >>
    [] field = "deref_src" -> << >>
    [] field = "src" /\ "deref_src" \in DOMAIN st.args /\ st.args.deref_src = 1 ->
         <<Sym("["), Id(RegisterNames[st.args.src + 1]), Sym("]")>>
    [] field \in {"imm", "val"} -> <<Literal(st.args[field])>>
    [] field = "jumpaddr" -> <<Id(st.target)>>
    [] OTHER -> <<Id(RegisterNames[st.args[field] + 1])>>
Comparison(st, rhs) ==
  << Id(RegisterNames[st.args.lhs + 1]),
     Sym(CHOOSE c \in DOMAIN Comparators : Comparators[c] = st.args.cmp), rhs >>
Written(st) ==
  CASE st.kind = "label" -> <<Id(st.name), Sym(":")>>
    [] st.kind = "pad"   -> <<Sym("("), Literal(st.to), Sym(")")>>
    [] st.kind = "instr" ->
         (IF st.args.pred = 1 THEN <<Sym("+")>> ELSE << >>) \o <<Id(st.op)>> \o
         CASE st.op = "testi" -> Comparison(st, Literal(st.args.imm))
           [] st.op = "test"  -> Comparison(st, Id(RegisterNames[st.args.rhs + 1]))
           [] OTHER -> FlattenSeq([i \in DOMAIN InstrOf(st.op).fields |->
                                     WrittenField(st, InstrOf(st.op).fields[i])])
Printed(program) == FlattenSeq([i \in DOMAIN program |-> Written(program[i])])

\* The address of statement i.
AddressOf(program, i) ==
  LET address[k \in 0 .. Len(program)] ==
        IF k = 0 THEN 0
        ELSE CASE program[k].kind = "label" -> address[k - 1]
               [] program[k].kind = "pad"   -> program[k].to
               [] program[k].kind = "instr" -> address[k - 1] + 1
  IN  address[i - 1]

\* What is assembled is a sequence of tokens, and what is missing (Null, for
\* std::nullopt) is no number and no instruction.
ASSUME AssemblerAssumption ==
  /\ Limit \in Nat \ {0}
  /\ \A p \in Programs : Printed(p) \in Seq(TokenSet)
  /\ \A t \in Junk : t \in Seq(TokenSet)
  /\ Null \notin Int /\ Null \notin Readings

Init ==
  /\ \/ \E p \in Programs : lines = p /\ tokens = Printed(p)
     \/ \E t \in Junk : lines = Null /\ tokens = t
  /\ pass = 1 /\ at = 1 /\ pc = 0 /\ counted = 0
  /\ labels = << >> /\ cur = Null
  /\ emitted = << >> /\ errors = {} /\ verdict = "none"

Next == Step \/ Returned

\* ParseAssembly is a function: it runs until it returns.
Spec == Init /\ [][Next]_vars /\ WF_vars(Step)

----------------------------------------------------------------------------
\* The program's meaning, word by word and without passes: the words before it
\* give a statement its address, and the label's address is where a jump goes.
Accepted == verdict = "accepted"
Refused  == verdict \in {"rejected", "aborted"}

Defective ==
  \/ \E i, j \in DOMAIN lines : i # j /\ lines[i].kind = "label" /\ lines[i] = lines[j]
  \/ \E i \in DOMAIN lines :
       \/ lines[i].kind = "instr" /\ lines[i].target # Null /\ LabelOf(lines[i].target) \notin ToSet(lines)
       \/ lines[i].kind = "pad" /\ lines[i].to < AddressOf(lines, i)
Size == AddressOf(lines, Len(lines) + 1)

Meant(i) ==
  IF lines[i].target = Null THEN lines[i].args
  ELSE LET l == CHOOSE l \in DOMAIN lines : lines[l] = LabelOf(lines[i].target)
       IN  ("jumpaddr" :> AddressOf(lines, l) % 64) @@ lines[i].args

\* An accepted program is one without defects, and has become the words that it
\* stands for: each instruction at its address, instructions without effect where
\* it is padded, and jumps to where their labels are.
AssemblesProgram ==
  Accepted /\ lines # Null =>
    /\ ~ Defective
    /\ Len(emitted) = Size
    /\ \A i \in DOMAIN lines :
         CASE lines[i].kind = "instr" ->
                Decode[emitted[AddressOf(lines, i) + 1]] = [op |-> lines[i].op, args |-> Meant(i)]
           [] lines[i].kind = "pad" ->
                \A a \in AddressOf(lines, i) + 1 .. lines[i].to :
                  Decode[emitted[a]] = [op |-> "mov", args |-> [pred |-> 0, deref_src |-> 0,
                                                                src |-> 0, dst |-> 0]]
           [] lines[i].kind = "label" -> TRUE

\* Only a program that has a defect, or that fills the memory, is refused.
RefusesOnlyDefects == Refused /\ lines # Null => Defective \/ Size >= Limit

\* The passes agree: what the first one has counted before a label is what the
\* second one has emitted when it comes to it, and in the end.
PassesAgree ==
  pass = 2 =>
    /\ BetweenStatements /\ Is(first + 1, ":") => labels[Tok(first).text] = Len(emitted)
    /\ Accepted => Len(emitted) = counted

\* Whatever the tokens: an accepted program's instructions have as many registers
\* as it names, so that none is dropped or made up.
RegistersOf(word) == Len(RegisterFields(InstrOf(Decode[word].op)))
NothingDropped ==
  Accepted /\ (\A i \in DOMAIN tokens : ~ Is(i, "(")) =>
    Cardinality({i \in DOMAIN tokens : IsRegister(i) /\ ~ Is(i + 1, ":")}) =
      FoldFunction(LAMBDA word, n : RegistersOf(word) + n, 0, emitted)

\* ParseAssembly returns.
Returns == <>(~ Running)

=============================================================================
