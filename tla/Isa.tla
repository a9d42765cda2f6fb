--------------------------------- MODULE Isa ---------------------------------
(****************************************************************************)
(* The instruction set that BuildIsa defines (isa/isa.cc), and what is      *)
(* generated from it: the decoder of words into instructions (encdec) and   *)
(* the tables that Decoder::spec (cpu/decoder.h) reads.                     *)
(*                                                                          *)
(* A word has 11 bits, bit 10 first in an encoding; 7 stands for a bit of   *)
(* an operand.  Every mask of a field is a run of adjacent bits, which      *)
(* stands here for the mask: <<high bit, low bit>>.                         *)
(****************************************************************************)
EXTENDS Integers, Sequences, FiniteSets, Functions, TLC

Words == 0 .. 2047

BitOf(n, i) == (n \div 2 ^ i) % 2

\* _pext_u32 on the bits of a field.
Extract(word, bits) == (word \div 2 ^ bits[2]) % 2 ^ (bits[1] - bits[2] + 1)

Field(high, low, semantics) == [bits |-> <<high, low>>, semantics |-> semantics]

Fields ==
  [ pred      |-> Field(10, 10, {"Predication"}),
    imm       |-> Field(5, 2, {"AluRhs", "Immediate"}),
    cmp       |-> Field(7, 6, {"AluCmp"}),
    lhs       |-> Field(9, 8, {"RegReadAddr0", "AluLhs"}),
    rhs       |-> Field(5, 4, {"RegReadAddr1", "AluRhs"}),
    dst       |-> Field(9, 8, {"RegReadAddr0", "AluLhs", "RegWriteAddr"}),
    src       |-> Field(5, 4, {"RegReadAddr1", "AluRhs"}),
    dstaddr   |-> Field(9, 8, {"RegReadAddr0", "AluLhs"}),
    val       |-> Field(6, 6, {"TestBitVal"}),
    deref_src |-> Field(6, 6, {"DerefSrc"}),
    jumpaddr  |-> Field(9, 4, {"JumpAddr"}) ]

Instruction(mnemonic, encoding, params, semantics) ==
  [ mnemonic |-> mnemonic, encoding |-> encoding, fields |-> <<"pred">> \o params,
    params |-> {"pred"} \cup {params[i] : i \in DOMAIN params}, semantics |-> semantics ]

ImmToReg      == <<"imm", "dst">>
RegOrMemToReg == <<"deref_src", "src", "dst">>

Instructions ==
  << Instruction("addi",    <<7,7,7,0,0,7,7,7,7,0,0>>, ImmToReg, {}),
     Instruction("movi",    <<7,7,7,0,1,7,7,7,7,0,0>>, ImmToReg, {"AluZeroLhs"}),
     Instruction("subi",    <<7,7,7,1,0,7,7,7,7,0,0>>, ImmToReg, {"AluNotRhs", "AluCarryIn"}),
     Instruction("subitnz", <<7,7,7,1,1,7,7,7,7,0,0>>, ImmToReg,
                 {"AluNotRhs", "AluCarryIn", "FlagSet", "CmpNz"}),
     Instruction("testi",   <<7,7,7,7,7,7,7,7,7,0,1>>, <<"imm", "lhs", "cmp">>,
                 {"AluNotRhs", "AluCarryIn", "FlagSet"}),
     Instruction("add",     <<7,7,7,0,7,7,7,0,1,1,1>>, RegOrMemToReg, {}),
     Instruction("mov",     <<7,7,7,0,7,7,7,1,0,1,0>>, RegOrMemToReg, {"AluZeroLhs"}),
     Instruction("sub",     <<7,7,7,0,7,7,7,0,0,1,0>>, RegOrMemToReg, {"AluNotRhs", "AluCarryIn"}),
     Instruction("subr",    <<7,7,7,1,7,7,7,0,1,1,1>>, RegOrMemToReg, {"AluNotRhs", "AluNot"}),
     Instruction("subtnz",  <<7,7,7,1,7,7,7,0,0,1,0>>, RegOrMemToReg,
                 {"AluNotRhs", "AluCarryIn", "FlagSet", "CmpNz"}),
     Instruction("addtnz",  <<7,7,7,1,7,7,7,1,0,1,0>>, RegOrMemToReg, {"FlagSet", "CmpNz"}),
     Instruction("and",     <<7,7,7,1,0,7,7,1,1,1,0>>, <<"src", "dst">>, {"AluAnd"}),
     Instruction("andtnz",  <<7,7,7,1,1,7,7,1,1,1,0>>, <<"lhs", "rhs">>,
                 {"AluAnd", "FlagSet", "CmpNz"}),
     Instruction("store",   <<7,7,7,0,0,7,7,1,1,1,0>>, <<"src", "dstaddr">>, {"AluZeroLhs", "StMem"}),
     Instruction("ldgpi",   <<7,7,7,0,1,7,7,1,1,1,0>>, <<"src", "dst">>, {"AluZeroLhs", "LdGpi"}),
     Instruction("jump",    <<7,7,7,7,7,7,7,0,1,1,0>>, <<"jumpaddr">>, {"Jump"}),
     Instruction("call",    <<7,7,7,7,7,7,7,0,0,1,1>>, <<"jumpaddr">>, {"Jump", "PushPc"}),
     Instruction("test",    <<7,7,7,7,7,7,7,1,0,1,1>>, <<"lhs", "rhs", "cmp">>,
                 {"AluNotRhs", "AluCarryIn", "FlagSet"}),
     Instruction("wait",    <<7,7,7,0,7,7,7,1,1,1,1>>, <<"val", "rhs", "lhs">>,
                 {"AluNotRhs", "AluCarryIn", "Wait", "LdGpi"}),
     Instruction("retpop",  <<7,7,7,1,1,0,0,1,1,1,1>>, <<"dst">>, {"AluZeroLhs", "PopPc", "PopReg"}),
     Instruction("pop",     <<7,7,7,1,1,0,1,1,1,1,1>>, <<"dst">>, {"PopReg"}),
     Instruction("membank", <<7,7,7,1,0,0,0,1,1,1,1>>, <<"lhs">>, {"MemBankSet"}),
     Instruction("not",     <<7,7,7,1,0,0,1,1,1,1,1>>, <<"dst">>, {"AluZeroRhs", "AluNot"}),
     Instruction("shr",     <<7,7,7,1,1,1,0,1,1,1,1>>, <<"dst">>, {"AluShr", "AluZeroRhs"}),
     Instruction("rombank", <<7,7,7,1,0,1,0,1,1,1,1>>, <<"lhs">>, {"RomBankSet"}),
     Instruction("push",    <<7,7,7,1,0,1,1,1,1,1,1>>, <<"lhs">>, {"AluZeroRhs", "PushReg"}),
     Instruction("jump3",   <<7,0,0,1,1,1,1,1,1,1,1>>, << >>, {"Jump", "Indirect"}),
     Instruction("call3",   <<7,1,0,1,1,1,1,1,1,1,1>>, << >>, {"Jump", "PushPc", "Indirect"}),
     Instruction("ret",     <<7,0,1,1,1,1,1,1,1,1,1>>, << >>, {"PopPc"}),
     Instruction("invflag", <<7,1,1,1,1,1,1,1,1,1,1>>, << >>,
                 {"AluZeroLhs", "FlagGet", "AluCarryIn", "AluNot", "FlagSet"}) >>

Encodes(instr, word) ==
  \A i \in 1 .. 11 : instr.encoding[i] \in {7, BitOf(word, 11 - i)}

\* The instructions with which a word agrees, by their places in Instructions.
Candidates ==
  [word \in Words |-> {i \in DOMAIN Instructions : Encodes(Instructions[i], word)}]

\* What DefineInstruction checks of each instruction before it adds it: none of
\* its words is taken, and its operand bits are those of its fields, each once.
\* As the program counts them, no word is left over either.  Fields with the same
\* semantics have the same bits (GetFieldBits), but for the operands of the ALU.
OperandBits(instr) == {10 - (i - 1) : i \in {i \in 1 .. 11 : instr.encoding[i] = 7}}
BitsOf(param) == Fields[param].bits[2] .. Fields[param].bits[1]
ASSUME IsaAssumption ==
  /\ \A word \in Words : Cardinality(Candidates[word]) = 1
  /\ \A i \in DOMAIN Instructions :
       LET instr == Instructions[i]
       IN  /\ OperandBits(instr) = UNION {BitsOf(p) : p \in instr.params}
           /\ \A p, q \in instr.params : p # q =>
                /\ BitsOf(p) \cap BitsOf(q) = {}
                /\ Fields[p].semantics \cap Fields[q].semantics = {}
  /\ \A f, g \in DOMAIN Fields :
       (Fields[f].semantics \cap Fields[g].semantics) \ {"AluLhs", "AluRhs"} # {} =>
         Fields[f].bits = Fields[g].bits

Earliest(places) == CHOOSE i \in places : \A j \in places : i <= j
Latest(places) == CHOOSE i \in places : \A j \in places : i >= j

\* The encoder: the opcode with each operand in its bits.
Opcode(instr) ==
  LET Set(i) == IF instr.encoding[i] = 1 THEN 2 ^ (11 - i) ELSE 0
  IN  FoldFunction(+, 0, [i \in 1 .. 11 |-> Set(i)])
FitsIn(param, value) == value < 2 ^ (Fields[param].bits[1] - Fields[param].bits[2] + 1)
Encode(instr, args) ==
  Opcode(instr)
    + FoldFunction(+, 0, [p \in instr.params |-> args[p] * 2 ^ Fields[p].bits[2]])

\* DecodeInstruction: the first instruction that fits, with its operands.
DecodeInstruction(word) ==
  LET instr == Instructions[Earliest(Candidates[word])]
  IN  [ op   |-> instr.mnemonic,
        args |-> [p \in instr.params |-> Extract(word, Fields[p].bits)] ]

Decode == [word \in Words |-> DecodeInstruction(word)]

\* GetFieldBits: the bits of the fields with these semantics.
AllSemantics == UNION {Fields[f].semantics : f \in DOMAIN Fields}
FieldBits ==
  [semantics \in AllSemantics |->
     Fields[CHOOSE f \in DOMAIN Fields : semantics \in Fields[f].semantics].bits]

=============================================================================
