---------------------------- MODULE EmulatorProofs ----------------------------
(****************************************************************************)
(* The emulator keeps its types and holds only calls on its stack, fails    *)
(* without effect, and implements the instruction set: proofs for every set *)
(* of programs.                                                             *)
(*                                                                          *)
(* The proofs about a step go by the mnemonic of the instruction.  First    *)
(* come lemmas about the instruction set: which instruction a word is,      *)
(* which signals the decoder raises for it and what the ALU computes from   *)
(* them; then what the signals make of the machine.                         *)
(*                                                                          *)
(* The tables of isa.cc are per instruction.  Here they are turned round:   *)
(* for each semantics the mnemonics that have it, for each field the        *)
(* mnemonics that take it, so that a proof about a mnemonic is left with    *)
(* memberships in sets of strings.  That each word fits exactly one         *)
(* instruction is IsaAssumption, which TLC evaluates.                       *)
(****************************************************************************)
EXTENDS Emulator, FiniteSetTheorems, SequenceTheorems, TLAPS

Nibbles == 0 .. 15

InstructionOf(w) == Instructions[Latest(Candidates[w])]
Mnemonic(w) == InstructionOf(w).mnemonic
Raises(w, semantics) == semantics \in InstructionOf(w).semantics
Takes(w, param) == param \in InstructionOf(w).params

Computing == {"addi", "movi", "subi", "add", "mov", "sub", "subr", "and", "ldgpi",
              "not", "shr", "pop"}
Counting == {"subitnz", "subtnz", "addtnz"}
Testing == {"testi", "test", "andtnz", "invflag"}
Jumping == {"jump", "call", "jump3", "call3"}
Returning == {"ret", "retpop"}
Mnemonics == Computing \cup Counting \cup Testing \cup Jumping \cup Returning
               \cup {"store", "push", "membank", "rombank", "wait"}

----------------------------------------------------------------------------
\* What Instruction makes of its arguments.
LEMMA InstructionParts ==
  \A mnemonic, encoding, params, semantics :
    LET instr == Instruction(mnemonic, encoding, params, semantics)
    IN  /\ instr.mnemonic = mnemonic
        /\ instr.params = {"pred"} \cup {params[i] : i \in DOMAIN params}
        /\ instr.semantics = semantics
  BY DEF Instruction

\* A row of the table, without the encoding.
Row(i, mnemonic, params, semantics) ==
  /\ Instructions[i].mnemonic = mnemonic
  /\ Instructions[i].params = {"pred"} \cup params
  /\ Instructions[i].semantics = semantics

\* The instructions with an immediate operand.
LEMMA ImmediateRows ==
  /\ Row(1, "addi", {"imm", "dst"}, {})
  /\ Row(2, "movi", {"imm", "dst"}, {"AluZeroLhs"})
  /\ Row(3, "subi", {"imm", "dst"}, {"AluNotRhs", "AluCarryIn"})
  /\ Row(4, "subitnz", {"imm", "dst"},
          {"AluNotRhs", "AluCarryIn", "FlagSet", "CmpNz"})
  /\ Row(5, "testi", {"imm", "lhs", "cmp"}, {"AluNotRhs", "AluCarryIn", "FlagSet"})
  BY InstructionParts DEF Row, Instructions, ImmToReg, RegOrMemToReg

\* The instructions whose operand may be in memory.
LEMMA MemoryRows ==
  /\ Row(6, "add", {"deref_src", "src", "dst"}, {})
  /\ Row(7, "mov", {"deref_src", "src", "dst"}, {"AluZeroLhs"})
  /\ Row(8, "sub", {"deref_src", "src", "dst"}, {"AluNotRhs", "AluCarryIn"})
  /\ Row(9, "subr", {"deref_src", "src", "dst"}, {"AluNotRhs", "AluNot"})
  /\ Row(10, "subtnz", {"deref_src", "src", "dst"},
          {"AluNotRhs", "AluCarryIn", "FlagSet", "CmpNz"})
  /\ Row(11, "addtnz", {"deref_src", "src", "dst"}, {"FlagSet", "CmpNz"})
  BY InstructionParts DEF Row, Instructions, ImmToReg, RegOrMemToReg

\* The others with two operands or with an address.
LEMMA RegisterRows ==
  /\ Row(12, "and", {"src", "dst"}, {"AluAnd"})
  /\ Row(13, "andtnz", {"lhs", "rhs"}, {"AluAnd", "FlagSet", "CmpNz"})
  /\ Row(14, "store", {"src", "dstaddr"}, {"AluZeroLhs", "StMem"})
  /\ Row(15, "ldgpi", {"src", "dst"}, {"AluZeroLhs", "LdGpi"})
  /\ Row(16, "jump", {"jumpaddr"}, {"Jump"})
  /\ Row(17, "call", {"jumpaddr"}, {"Jump", "PushPc"})
  /\ Row(18, "test", {"lhs", "rhs", "cmp"}, {"AluNotRhs", "AluCarryIn", "FlagSet"})
  /\ Row(19, "wait", {"val", "rhs", "lhs"},
          {"AluNotRhs", "AluCarryIn", "Wait", "LdGpi"})
  BY InstructionParts DEF Row, Instructions, ImmToReg, RegOrMemToReg

\* The instructions with one register.
LEMMA OneRegisterRows ==
  /\ Row(20, "retpop", {"dst"}, {"AluZeroLhs", "PopPc", "PopReg"})
  /\ Row(21, "pop", {"dst"}, {"PopReg"})
  /\ Row(22, "membank", {"lhs"}, {"MemBankSet"})
  /\ Row(23, "not", {"dst"}, {"AluZeroRhs", "AluNot"})
  /\ Row(24, "shr", {"dst"}, {"AluShr", "AluZeroRhs"})
  /\ Row(25, "rombank", {"lhs"}, {"RomBankSet"})
  /\ Row(26, "push", {"lhs"}, {"AluZeroRhs", "PushReg"})
  BY InstructionParts DEF Row, Instructions, ImmToReg, RegOrMemToReg

\* The instructions without operands.
LEMMA NoOperandRows ==
  /\ Row(27, "jump3", {}, {"Jump", "Indirect"})
  /\ Row(28, "call3", {}, {"Jump", "PushPc", "Indirect"})
  /\ Row(29, "ret", {}, {"PopPc"})
  /\ Row(30, "invflag", {},
          {"AluZeroLhs", "FlagGet", "AluCarryIn", "AluNot", "FlagSet"})
  BY InstructionParts DEF Row, Instructions, ImmToReg, RegOrMemToReg

\* It has thirty instructions, and their operands are fields.
LEMMA InstructionTable ==
  /\ DOMAIN Instructions = 1 .. 30
  /\ \A i \in 1 .. 30 : /\ Instructions[i].params \in SUBSET DOMAIN Fields
                        /\ Instructions[i].mnemonic \in Mnemonics
<1>1. DOMAIN Instructions = 1 .. 30
  BY DEF Instructions
<1>2. \A i \in 1 .. 30 : Instructions[i].params \in SUBSET DOMAIN Fields
  BY ImmediateRows, MemoryRows, RegisterRows, OneRegisterRows,
     NoOperandRows DEF Row, Fields
<1>3. \A i \in 1 .. 30 : Instructions[i].mnemonic \in Mnemonics
  BY ImmediateRows, MemoryRows, RegisterRows, OneRegisterRows,
     NoOperandRows DEF Row, Mnemonics, Computing, Counting, Testing, Jumping, Returning
<1> QED  BY <1>1, <1>2, <1>3

\* A word is one instruction: the decoder of the program, which takes the first that
\* fits, and the one of the hardware, which takes the last, agree on it.
LEMMA OneInstruction ==
  ASSUME NEW w \in Words
  PROVE  \E i \in 1 .. 30 : /\ InstructionOf(w) = Instructions[i]
                            /\ Instructions[Earliest(Candidates[w])] = Instructions[i]
                            /\ Encodes(Instructions[i], w)
<1>1. /\ Candidates[w] \in SUBSET (1 .. 30)
      /\ \A i \in Candidates[w] : Encodes(Instructions[i], w)
  BY InstructionTable DEF Candidates
<1>2. IsFiniteSet(1 .. 30)
  <2>1. 1 \in Int /\ 30 \in Int
    OBVIOUS
  <2> QED  BY <2>1, FS_Interval, Zenon
<1>3. IsFiniteSet(Candidates[w])
  BY <1>1, <1>2, FS_Subset
<1>4. PICK i : Candidates[w] = {i}
  BY <1>3, FS_Singleton, IsaAssumption
<1>5. i \in 1 .. 30 /\ Encodes(Instructions[i], w)
  BY <1>1, <1>4
<1>6. Earliest(Candidates[w]) = i /\ Latest(Candidates[w]) = i
  BY <1>4, <1>5 DEF Earliest, Latest
<1> QED  BY <1>5, <1>6 DEF InstructionOf

\* What DecodeInstruction returns: the mnemonic, and each operand from its bits.
LEMMA DecodedWord ==
  ASSUME NEW w \in Words
  PROVE  /\ Decode[w].op = Mnemonic(w)
         /\ DOMAIN Decode[w].args = InstructionOf(w).params
         /\ \A p \in InstructionOf(w).params :
              Decode[w].args[p] = Extract(w, Fields[p].bits)
         /\ InstructionOf(w).params \in SUBSET DOMAIN Fields
         /\ Mnemonic(w) \in Mnemonics
<1>1. /\ InstructionOf(w).params \in SUBSET DOMAIN Fields
      /\ Mnemonic(w) \in Mnemonics
  BY OneInstruction, InstructionTable DEF Mnemonic
<1>2. Decode[w] = DecodeInstruction(w)
  BY DEF Decode
<1>3. Decode[w].op = Mnemonic(w)
  BY <1>2, OneInstruction DEF DecodeInstruction, Mnemonic
<1>4. Decode[w].args = [p \in InstructionOf(w).params |-> Extract(w, Fields[p].bits)]
  BY <1>2, OneInstruction DEF DecodeInstruction
<1> QED  BY <1>1, <1>3, <1>4

----------------------------------------------------------------------------
\* For each semantics, the instructions that have it.
LEMMA SemanticsByMnemonic ==
  ASSUME NEW w \in Words
  PROVE
    /\ Raises(w, "AluZeroLhs") <=>
         Mnemonic(w) \in {"movi", "mov", "store", "ldgpi", "retpop", "invflag"}
    /\ Raises(w, "AluNotRhs") <=>
         Mnemonic(w) \in {"subi", "subitnz", "testi", "sub", "subr", "subtnz",
                          "test", "wait"}
    /\ Raises(w, "AluCarryIn") <=>
         Mnemonic(w) \in {"subi", "subitnz", "testi", "sub", "subtnz", "test",
                          "wait", "invflag"}
    /\ Raises(w, "FlagSet") <=>
         Mnemonic(w) \in {"subitnz", "testi", "subtnz", "addtnz", "andtnz", "test",
                          "invflag"}
    /\ Raises(w, "CmpNz") <=>
         Mnemonic(w) \in {"subitnz", "subtnz", "addtnz", "andtnz"}
    /\ Raises(w, "AluNot") <=> Mnemonic(w) \in {"subr", "not", "invflag"}
    /\ Raises(w, "AluAnd") <=> Mnemonic(w) \in {"and", "andtnz"}
    /\ Raises(w, "StMem") <=> Mnemonic(w) = "store"
    /\ Raises(w, "LdGpi") <=> Mnemonic(w) \in {"ldgpi", "wait"}
    /\ Raises(w, "Jump") <=> Mnemonic(w) \in Jumping
    /\ Raises(w, "PushPc") <=> Mnemonic(w) \in {"call", "call3"}
    /\ Raises(w, "Wait") <=> Mnemonic(w) = "wait"
    /\ Raises(w, "PopPc") <=> Mnemonic(w) \in Returning
    /\ Raises(w, "PopReg") <=> Mnemonic(w) \in {"retpop", "pop"}
    /\ Raises(w, "MemBankSet") <=> Mnemonic(w) = "membank"
    /\ Raises(w, "AluZeroRhs") <=> Mnemonic(w) \in {"not", "shr", "push"}
    /\ Raises(w, "AluShr") <=> Mnemonic(w) = "shr"
    /\ Raises(w, "RomBankSet") <=> Mnemonic(w) = "rombank"
    /\ Raises(w, "PushReg") <=> Mnemonic(w) = "push"
    /\ Raises(w, "Indirect") <=> Mnemonic(w) \in {"jump3", "call3"}
    /\ Raises(w, "FlagGet") <=> Mnemonic(w) = "invflag"
<1>1. PICK i \in 1 .. 30 : InstructionOf(w) = Instructions[i]
  BY OneInstruction
<1> QED  BY <1>1, ImmediateRows, MemoryRows, RegisterRows, OneRegisterRows, NoOperandRows
         DEF Row, Mnemonic, Raises, Jumping, Returning, Testing

\* For each field, the instructions that take it.
LEMMA ParamsByMnemonic ==
  ASSUME NEW w \in Words
  PROVE
    /\ Takes(w, "pred")
    /\ Takes(w, "imm") <=>
         Mnemonic(w) \in {"addi", "movi", "subi", "subitnz", "testi"}
    /\ Takes(w, "dst") <=>
         Mnemonic(w) \in {"addi", "movi", "subi", "subitnz", "add", "mov", "sub",
                          "subr", "subtnz", "addtnz", "and", "ldgpi", "retpop",
                          "pop", "not", "shr"}
    /\ Takes(w, "lhs") <=>
         Mnemonic(w) \in {"testi", "andtnz", "test", "wait", "membank", "rombank",
                          "push"}
    /\ Takes(w, "cmp") <=> Mnemonic(w) \in {"testi", "test"}
    /\ Takes(w, "deref_src") <=>
         Mnemonic(w) \in {"add", "mov", "sub", "subr", "subtnz", "addtnz"}
    /\ Takes(w, "src") <=>
         Mnemonic(w) \in {"add", "mov", "sub", "subr", "subtnz", "addtnz", "and",
                          "store", "ldgpi"}
    /\ Takes(w, "rhs") <=> Mnemonic(w) \in {"andtnz", "test", "wait"}
    /\ Takes(w, "dstaddr") <=> Mnemonic(w) = "store"
    /\ Takes(w, "jumpaddr") <=> Mnemonic(w) \in {"jump", "call"}
    /\ Takes(w, "val") <=> Mnemonic(w) = "wait"
<1>1. PICK i \in 1 .. 30 : InstructionOf(w) = Instructions[i]
  BY OneInstruction
<1> QED  BY <1>1, ImmediateRows, MemoryRows, RegisterRows, OneRegisterRows, NoOperandRows
         DEF Row, Mnemonic, Takes

----------------------------------------------------------------------------
\* The bits of a semantics are those of any field that has it, if these agree.
LEMMA FieldBitsOf ==
  ASSUME NEW semantics, NEW f \in DOMAIN Fields, semantics \in Fields[f].semantics,
         \A g \in DOMAIN Fields : semantics \in Fields[g].semantics =>
                                    Fields[g].bits = Fields[f].bits
  PROVE  FieldBits[semantics] = Fields[f].bits
<1> DEFINE Has(g) == semantics \in Fields[g].semantics
<1>1. semantics \in AllSemantics
  BY DEF AllSemantics
<1>2. FieldBits[semantics] = Fields[CHOOSE g \in DOMAIN Fields : Has(g)].bits
  BY <1>1 DEF FieldBits
<1>3. \E g \in DOMAIN Fields : Has(g)
  OBVIOUS
<1>4. \A g \in DOMAIN Fields : Has(g) => Fields[g].bits = Fields[f].bits
  OBVIOUS
<1> HIDE DEF Has
<1> QED  BY <1>2, <1>3, <1>4

\* The bits that the decoder and Op read.
LEMMA BitsOfSemantics ==
  /\ FieldBits["Predication"] = <<10, 10>>
  /\ FieldBits["RegReadAddr0"] = <<9, 8>>
  /\ FieldBits["RegWriteAddr"] = <<9, 8>>
  /\ FieldBits["RegReadAddr1"] = <<5, 4>>
  /\ FieldBits["Immediate"] = <<5, 2>>
  /\ FieldBits["AluCmp"] = <<7, 6>>
  /\ FieldBits["TestBitVal"] = <<6, 6>>
  /\ FieldBits["DerefSrc"] = <<6, 6>>
  /\ FieldBits["JumpAddr"] = <<9, 4>>
<1> DEFINE At(semantics, f) ==
      /\ f \in DOMAIN Fields /\ semantics \in Fields[f].semantics
      /\ \A g \in DOMAIN Fields : semantics \in Fields[g].semantics =>
                                    Fields[g].bits = Fields[f].bits
<1>1. /\ At("Predication", "pred") /\ At("RegReadAddr0", "lhs") /\ At("RegWriteAddr", "dst")
      /\ At("RegReadAddr1", "rhs") /\ At("Immediate", "imm") /\ At("AluCmp", "cmp")
  BY DEF Fields, Field
<1>2. /\ At("TestBitVal", "val") /\ At("DerefSrc", "deref_src") /\ At("JumpAddr", "jumpaddr")
  BY DEF Fields, Field
<1>3. \A semantics, f : At(semantics, f) => FieldBits[semantics] = Fields[f].bits
  BY FieldBitsOf
<1>4. /\ Fields["pred"].bits = <<10, 10>> /\ Fields["lhs"].bits = <<9, 8>>
      /\ Fields["dst"].bits = <<9, 8>> /\ Fields["rhs"].bits = <<5, 4>>
      /\ Fields["imm"].bits = <<5, 2>> /\ Fields["cmp"].bits = <<7, 6>>
      /\ Fields["val"].bits = <<6, 6>> /\ Fields["deref_src"].bits = <<6, 6>>
      /\ Fields["jumpaddr"].bits = <<9, 4>>
  BY DEF Fields, Field
<1> HIDE DEF At
<1> QED  BY <1>1, <1>2, <1>3, <1>4

\* The bits of each field.
LEMMA BitsOfFields ==
  /\ Fields["pred"].bits = <<10, 10>> /\ Fields["jumpaddr"].bits = <<9, 4>>
  /\ Fields["lhs"].bits = <<9, 8>> /\ Fields["dst"].bits = <<9, 8>>
  /\ Fields["dstaddr"].bits = <<9, 8>>
  /\ Fields["rhs"].bits = <<5, 4>> /\ Fields["src"].bits = <<5, 4>>
  /\ Fields["imm"].bits = <<5, 2>> /\ Fields["cmp"].bits = <<7, 6>>
  /\ Fields["val"].bits = <<6, 6>> /\ Fields["deref_src"].bits = <<6, 6>>
  BY DEF Fields, Field

\* An operand has the range of its bits.
LEMMA ExtractRange ==
  ASSUME NEW w \in Words
  PROVE  /\ Extract(w, <<10, 10>>) \in 0 .. 1
         /\ Extract(w, <<9, 8>>) \in 0 .. 3
         /\ Extract(w, <<5, 4>>) \in 0 .. 3
         /\ Extract(w, <<5, 2>>) \in 0 .. 15
         /\ Extract(w, <<7, 6>>) \in 0 .. 3
         /\ Extract(w, <<6, 6>>) \in 0 .. 1
         /\ Extract(w, <<9, 4>>) \in 0 .. 63
  BY DEF Extract, Words

\* An indirect jump goes through register 3: its words have both bits of the address
\* of port 1 set.  And invflag compares with kGe.
LEMMA FixedOperands ==
  ASSUME NEW w \in Words
  PROVE  /\ Mnemonic(w) \in {"jump3", "call3"} => Extract(w, <<5, 4>>) = 3
         /\ Mnemonic(w) = "invflag" => Extract(w, <<7, 6>>) = 3
<1>1. PICK i \in 1 .. 30 : InstructionOf(w) = Instructions[i] /\ Encodes(Instructions[i], w)
  BY OneInstruction
<1>2. Mnemonic(w) \in {"jump3", "call3"} => i \in {27, 28}
  BY <1>1, ImmediateRows, MemoryRows, RegisterRows, OneRegisterRows, NoOperandRows
     DEF Row, Mnemonic
<1>3. Mnemonic(w) = "invflag" => i = 30
  BY <1>1, ImmediateRows, MemoryRows, RegisterRows, OneRegisterRows, NoOperandRows
     DEF Row, Mnemonic
<1>4. /\ Instructions[27].encoding = <<7,0,0,1,1,1,1,1,1,1,1>>
      /\ Instructions[28].encoding = <<7,1,0,1,1,1,1,1,1,1,1>>
      /\ Instructions[30].encoding = <<7,1,1,1,1,1,1,1,1,1,1>>
  BY DEF Instructions, Instruction
<1>5. i \in {27, 28} => BitOf(w, 5) = 1 /\ BitOf(w, 4) = 1
  <2> SUFFICES ASSUME i \in {27, 28} PROVE BitOf(w, 5) = 1 /\ BitOf(w, 4) = 1
    OBVIOUS
  <2>1. Instructions[i].encoding[6] = 1 /\ Instructions[i].encoding[7] = 1
    BY <1>4
  <2>2. \A k \in 1 .. 11 : Instructions[i].encoding[k] \in {7, BitOf(w, 11 - k)}
    BY <1>1 DEF Encodes
  <2>3. Instructions[i].encoding[6] \in {7, BitOf(w, 11 - 6)}
    BY <2>2
  <2>4. Instructions[i].encoding[7] \in {7, BitOf(w, 11 - 7)}
    BY <2>2
  <2> QED  BY <2>1, <2>3, <2>4
<1>6. i = 30 => BitOf(w, 7) = 1 /\ BitOf(w, 6) = 1
  <2> SUFFICES ASSUME i = 30 PROVE BitOf(w, 7) = 1 /\ BitOf(w, 6) = 1
    OBVIOUS
  <2>1. Instructions[i].encoding[4] = 1 /\ Instructions[i].encoding[5] = 1
    BY <1>4
  <2>2. \A k \in 1 .. 11 : Instructions[i].encoding[k] \in {7, BitOf(w, 11 - k)}
    BY <1>1 DEF Encodes
  <2>3. Instructions[i].encoding[4] \in {7, BitOf(w, 11 - 4)}
    BY <2>2
  <2>4. Instructions[i].encoding[5] \in {7, BitOf(w, 11 - 5)}
    BY <2>2
  <2> QED  BY <2>1, <2>3, <2>4
<1>7. BitOf(w, 5) = 1 /\ BitOf(w, 4) = 1 => Extract(w, <<5, 4>>) = 3
  BY DEF BitOf, Extract, Words
<1>8. BitOf(w, 7) = 1 /\ BitOf(w, 6) = 1 => Extract(w, <<7, 6>>) = 3
  BY DEF BitOf, Extract, Words
<1> QED  BY <1>2, <1>3, <1>5, <1>6, <1>7, <1>8

----------------------------------------------------------------------------
\* The signals of Decoder::spec, by what the instruction raises and takes.
LEMMA SignalsRaised ==
  ASSUME NEW w \in Words, NEW pm \in BOOLEAN
  PROVE  LET dec == Decoder[pm][w]
         IN  /\ dec.write_enable <=> ~ pm /\ Takes(w, "dst")
             /\ dec.cmp = IF Raises(w, "CmpNz") THEN 2 ELSE Extract(w, <<7, 6>>)
             /\ dec.no_jump <=> pm \/ ~ Raises(w, "Jump")
             /\ dec.indirect <=> Raises(w, "Indirect")
             /\ dec.membank_set <=> ~ pm /\ Raises(w, "MemBankSet")
             /\ dec.rombank_set <=> ~ pm /\ Raises(w, "RomBankSet")
             /\ dec.pop <=> ~ pm /\ Raises(w, "PopReg")
             /\ dec.push <=> ~ pm /\ Raises(w, "PushReg")
             /\ dec.store <=> ~ pm /\ Raises(w, "StMem")
             /\ dec.pop_pc <=> ~ pm /\ Raises(w, "PopPc")
             /\ dec.push_pc <=> ~ pm /\ Raises(w, "PushPc")
             /\ dec.deref_src <=> Extract(w, <<6, 6>>) = 1 /\ Takes(w, "deref_src")
             /\ dec.load_gpi <=> Raises(w, "LdGpi")
             /\ dec.flag_set <=> ~ pm /\ Raises(w, "FlagSet")
             /\ dec.flag_get <=> Raises(w, "FlagGet")
             /\ dec.wait <=> Raises(w, "Wait")
<1> DEFINE dec == SignalsOf(w, pm)
<1> DEFINE Has(semantics) == \E p \in InstructionOf(w).params : semantics \in Fields[p].semantics
<1>1. Decoder[pm][w] = dec
  BY DEF Decoder
<1>3. InstructionOf(w).params \in SUBSET DOMAIN Fields
  BY DecodedWord
<1>4. /\ Has("RegWriteAddr") <=> Takes(w, "dst")
      /\ Has("DerefSrc") <=> Takes(w, "deref_src")
  BY <1>3 DEF Takes, Fields, Field
<1>5. dec.write_enable <=> ~ pm /\ Has("RegWriteAddr")
  BY DEF SignalsOf, Raises, InstructionOf
<1>6. dec.deref_src <=> Extract(w, FieldBits["DerefSrc"]) = 1 /\ Has("DerefSrc")
  BY DEF SignalsOf, Raises, InstructionOf
<1>7. dec.cmp = IF Raises(w, "CmpNz") THEN 2 ELSE Extract(w, FieldBits["AluCmp"])
  BY DEF SignalsOf, Raises, InstructionOf
<1>8. dec.no_jump <=> pm \/ ~ Raises(w, "Jump")
  BY DEF SignalsOf, Raises, InstructionOf
<1>9. dec.membank_set <=> ~ pm /\ Raises(w, "MemBankSet")
  BY DEF SignalsOf, Raises, InstructionOf
<1>10. dec.rombank_set <=> ~ pm /\ Raises(w, "RomBankSet")
  BY DEF SignalsOf, Raises, InstructionOf
<1>11. dec.pop <=> ~ pm /\ Raises(w, "PopReg")
  BY DEF SignalsOf, Raises, InstructionOf
<1>12. dec.push <=> ~ pm /\ Raises(w, "PushReg")
  BY DEF SignalsOf, Raises, InstructionOf
<1>13. dec.store <=> ~ pm /\ Raises(w, "StMem")
  BY DEF SignalsOf, Raises, InstructionOf
<1>14. dec.pop_pc <=> ~ pm /\ Raises(w, "PopPc")
  BY DEF SignalsOf, Raises, InstructionOf
<1>15. dec.push_pc <=> ~ pm /\ Raises(w, "PushPc")
  BY DEF SignalsOf, Raises, InstructionOf
<1>16. dec.flag_set <=> ~ pm /\ Raises(w, "FlagSet")
  BY DEF SignalsOf, Raises, InstructionOf
<1>17. dec.indirect <=> Raises(w, "Indirect")
  BY DEF SignalsOf, Raises, InstructionOf
<1>18. dec.load_gpi <=> Raises(w, "LdGpi")
  BY DEF SignalsOf, Raises, InstructionOf
<1>19. dec.flag_get <=> Raises(w, "FlagGet")
  BY DEF SignalsOf, Raises, InstructionOf
<1>20. dec.wait <=> Raises(w, "Wait")
  BY DEF SignalsOf, Raises, InstructionOf
<1> HIDE DEF dec, Has
<1> QED  BY <1>1, <1>4, <1>5, <1>6, <1>7, <1>8, <1>9, <1>10, <1>11, <1>12,
            <1>13, <1>14, <1>15, <1>16, <1>17, <1>18, <1>19, <1>20, BitsOfSemantics

\* The flags of the ALU.
LEMMA AluFlagsRaised ==
  ASSUME NEW w \in Words, NEW pm \in BOOLEAN
  PROVE  LET flags == Decoder[pm][w].alu_flags
         IN  /\ flags.a_enable <=> ~ Raises(w, "AluZeroLhs")
             /\ flags.b_lut = IF Raises(w, "AluZeroRhs") THEN 0
                              ELSE IF Raises(w, "AluNotRhs") THEN 1 ELSE 2
             /\ flags.c_enable <=> Takes(w, "imm")
             /\ flags.carry_in = IF Raises(w, "AluCarryIn") THEN 1 ELSE 0
             /\ flags.compute_and <=> Raises(w, "AluAnd")
             /\ flags.not_out <=> Raises(w, "AluNot")
             /\ flags.shr <=> Raises(w, "AluShr")
<1> DEFINE flags == SignalsOf(w, pm).alu_flags
<1> DEFINE Has(semantics) == \E p \in InstructionOf(w).params : semantics \in Fields[p].semantics
<1>1. Decoder[pm][w].alu_flags = flags
  BY DEF Decoder
<1>3. InstructionOf(w).params \in SUBSET DOMAIN Fields
  BY DecodedWord
<1>4. Has("Immediate") <=> Takes(w, "imm")
  BY <1>3 DEF Takes, Fields, Field
<1>5. flags = [ a_enable    |-> ~ Raises(w, "AluZeroLhs"),
                b_lut       |-> IF Raises(w, "AluZeroRhs") THEN 0
                                ELSE IF Raises(w, "AluNotRhs") THEN 1 ELSE 2,
                c_enable    |-> Has("Immediate"),
                carry_in    |-> IF Raises(w, "AluCarryIn") THEN 1 ELSE 0,
                compute_and |-> Raises(w, "AluAnd"),
                not_out     |-> Raises(w, "AluNot"),
                shr         |-> Raises(w, "AluShr") ]
  BY DEF SignalsOf, Raises, InstructionOf
<1> HIDE DEF flags, Has
<1>6. /\ flags.a_enable <=> ~ Raises(w, "AluZeroLhs")
      /\ flags.b_lut = IF Raises(w, "AluZeroRhs") THEN 0
                       ELSE IF Raises(w, "AluNotRhs") THEN 1 ELSE 2
      /\ flags.c_enable <=> Has("Immediate")
  BY <1>5
<1>7. /\ flags.carry_in = IF Raises(w, "AluCarryIn") THEN 1 ELSE 0
      /\ flags.compute_and <=> Raises(w, "AluAnd")
      /\ flags.not_out <=> Raises(w, "AluNot")
      /\ flags.shr <=> Raises(w, "AluShr")
  BY <1>5
<1> QED  BY <1>1, <1>4, <1>6, <1>7

----------------------------------------------------------------------------
\* Its three outputs are taken from that.
LEMMA ZeroOutput ==
  ASSUME NEW out, NEW n,
         out = [res |-> n % 16, carry_out |-> n \div 16, zero |-> (n % 16 = 0)]
  PROVE  out.zero <=> n % 16 = 0
  OBVIOUS

\* The outputs of the ALU are parts of what it computes.
LEMMA AluOutputs ==
  ASSUME NEW a, NEW b, NEW c, NEW flags
  PROVE  LET out   == Alu(a, b, c, flags)
             whole == Computed(a, b, c, flags)
         IN  /\ out.res = whole % 16
             /\ out.carry_out = whole \div 16
             /\ out.zero <=> whole % 16 = 0
<1> DEFINE whole == Computed(a, b, c, flags)
<1>1. Alu(a, b, c, flags) =
        [res |-> whole % 16, carry_out |-> whole \div 16, zero |-> (whole % 16 = 0)]
  BY DEF Alu
<1> HIDE DEF whole
<1>2. Alu(a, b, c, flags).zero <=> whole % 16 = 0
  BY <1>1, ZeroOutput, Zenon
<1>3. /\ Alu(a, b, c, flags).res = whole % 16
      /\ Alu(a, b, c, flags).carry_out = whole \div 16
  BY <1>1
<1> QED  BY <1>2, <1>3 DEF whole

\* The bitwise conjunction of two nibbles is a nibble.
LEMMA AndBitsRange ==
  ASSUME NEW x \in Nibbles, NEW y \in Nibbles
  PROVE  AndBits(x, y) \in Nibbles
<1>1. \A n \in Nibbles, i \in {0, 1, 2, 3} : BitOf(n, i) \in {0, 1}
  BY DEF BitOf, Nibbles
<1> QED  BY <1>1 DEF AndBits, Nibbles

\* Whatever the flags, the result is a nibble, the carry a bit, and zero says whether
\* the result is.
LEMMA AluRange ==
  ASSUME NEW a \in Nibbles, NEW b \in Nibbles, NEW c \in Nibbles, NEW flags,
         flags.b_lut \in {0, 1, 2}, flags.carry_in \in {0, 1}
  PROVE  LET out == Alu(a, b, c, flags)
         IN  /\ out.res \in Nibbles
             /\ out.carry_out \in {0, 1}
             /\ out.zero <=> out.res = 0
<1> DEFINE x   == Left(a, flags)
           y   == Right(b, c, flags)
           rhs == LutOut(y, flags)
           sum == Summed(x, rhs, flags)
           whole == Shaped(sum, flags)
<1>1. Computed(a, b, c, flags) = whole
  BY DEF Computed
<1>2. x \in Nibbles /\ y \in Nibbles
  BY DEF Nibbles, Left, Right
<1> HIDE DEF x, y
<1>3. rhs \in Nibbles
  BY <1>2 DEF Nibbles, LutOut
<1> HIDE DEF rhs
<1>4. sum \in 0 .. 31
  BY <1>2, <1>3, AndBitsRange DEF Nibbles, Summed
<1> HIDE DEF sum
<1>5. whole \in 0 .. 31
  BY <1>4 DEF Shaped
<1> HIDE DEF whole
<1>6. whole % 16 \in Nibbles /\ whole \div 16 \in {0, 1}
  BY <1>5 DEF Nibbles
<1> QED  BY <1>1, <1>6, AluOutputs

\* The uses that the instructions make of it.
LEMMA AluAdds ==
  ASSUME NEW a \in Nibbles, NEW b \in Nibbles, NEW c \in Nibbles, NEW flags,
         flags.b_lut = 2, flags.carry_in = 0,
         ~ flags.compute_and, ~ flags.not_out, ~ flags.shr
  PROVE  LET x == Left(a, flags)
             y == Right(b, c, flags)
             out == Alu(a, b, c, flags)
         IN  /\ out.res = (x + y) % 16
             /\ out.zero <=> out.res = 0
<1>1. Computed(a, b, c, flags) = Left(a, flags) + Right(b, c, flags)
  BY DEF Computed, Shaped, Summed, LutOut, Left, Right, Nibbles
<1> QED  BY <1>1, AluOutputs

\* With the inverted operand and a carry it subtracts, and its outputs compare.
LEMMA AluSubtracts ==
  ASSUME NEW a \in Nibbles, NEW b \in Nibbles, NEW c \in Nibbles, NEW flags,
         flags.b_lut = 1, flags.carry_in = 1,
         ~ flags.compute_and, ~ flags.not_out, ~ flags.shr
  PROVE  LET x == Left(a, flags)
             y == Right(b, c, flags)
             out == Alu(a, b, c, flags)
         IN  /\ out.res = (x - y) % 16
             /\ out.zero <=> x = y
             /\ out.carry_out = 1 <=> x >= y
<1>1. Left(a, flags) \in Nibbles /\ Right(b, c, flags) \in Nibbles
  BY DEF Left, Right, Nibbles
<1>2. Computed(a, b, c, flags) = 16 + Left(a, flags) - Right(b, c, flags)
  BY DEF Computed, Shaped, Summed, LutOut, Left, Right, Nibbles
<1>3. \A x, y \in Nibbles : /\ (16 + x - y) % 16 = (x - y) % 16
                            /\ (16 + x - y) % 16 = 0 <=> x = y
                            /\ (16 + x - y) \div 16 = 1 <=> x >= y
  BY DEF Nibbles
<1> QED  BY <1>1, <1>2, <1>3, AluOutputs

\* Without the carry, and with the sum inverted, it subtracts the other way round.
LEMMA AluSubtractsReversed ==
  ASSUME NEW a \in Nibbles, NEW b \in Nibbles, NEW c \in Nibbles, NEW flags,
         flags.b_lut = 1, flags.carry_in = 0,
         ~ flags.compute_and, flags.not_out, ~ flags.shr
  PROVE  Alu(a, b, c, flags).res = (Right(b, c, flags) - Left(a, flags)) % 16
<1>1. Left(a, flags) \in Nibbles /\ Right(b, c, flags) \in Nibbles
  BY DEF Left, Right, Nibbles
<1>2. Summed(Left(a, flags), LutOut(Right(b, c, flags), flags), flags)
        = Left(a, flags) + 15 - Right(b, c, flags)
  BY <1>1 DEF Summed, LutOut, Nibbles
<1>3. Computed(a, b, c, flags) = 16 + Right(b, c, flags) - Left(a, flags)
  BY <1>1, <1>2 DEF Computed, Shaped, Nibbles
<1>4. \A x, y \in Nibbles : (16 + y - x) % 16 = (y - x) % 16
  BY DEF Nibbles
<1> QED  BY <1>1, <1>3, <1>4, AluOutputs

\* With compute_and it takes the bits that both operands have.
LEMMA AluConjoins ==
  ASSUME NEW a \in Nibbles, NEW b \in Nibbles, NEW c \in Nibbles, NEW flags,
         flags.b_lut = 2, flags.compute_and, ~ flags.not_out, ~ flags.shr
  PROVE  LET out == Alu(a, b, c, flags)
         IN  /\ out.res = AndBits(Left(a, flags), Right(b, c, flags))
             /\ out.zero <=> out.res = 0
<1>1. Left(a, flags) \in Nibbles /\ Right(b, c, flags) \in Nibbles
  BY DEF Left, Right, Nibbles
<1>2. AndBits(Left(a, flags), Right(b, c, flags)) \in Nibbles
  BY <1>1, AndBitsRange
<1>3. Computed(a, b, c, flags) = AndBits(Left(a, flags), Right(b, c, flags))
  BY DEF Computed, Shaped, Summed, LutOut
<1> QED  BY <1>2, <1>3, AluOutputs DEF Nibbles

\* Without a right operand it passes the left one on, inverted or shifted.
LEMMA AluUnary ==
  ASSUME NEW a \in Nibbles, NEW b \in Nibbles, NEW c \in Nibbles, NEW flags,
         flags.b_lut = 0, flags.carry_in = 0, ~ flags.compute_and
  PROVE  LET x == Left(a, flags)
             res == Alu(a, b, c, flags).res
         IN  /\ ~ flags.not_out /\ ~ flags.shr => res = x
             /\ flags.not_out /\ ~ flags.shr => res = 15 - x
             /\ ~ flags.not_out /\ flags.shr => res = x \div 2
<1> DEFINE x == Left(a, flags)
<1>1. x \in Nibbles
  BY DEF Left, Nibbles
<1>2. Summed(x, LutOut(Right(b, c, flags), flags), flags) = x
  BY <1>1 DEF Summed, LutOut, Nibbles
<1>3. Computed(a, b, c, flags) = Shaped(x, flags)
  BY <1>2 DEF Computed
<1> HIDE DEF x
<1>4. Alu(a, b, c, flags).res = Shaped(x, flags) % 16
  BY <1>3, AluOutputs
<1>5. ~ flags.not_out /\ ~ flags.shr => Alu(a, b, c, flags).res = x
  BY <1>1, <1>4 DEF Shaped, Nibbles
<1>6. flags.not_out /\ ~ flags.shr => Alu(a, b, c, flags).res = 15 - x
  BY <1>1, <1>4 DEF Shaped, Nibbles
<1>7. ~ flags.not_out /\ flags.shr => Alu(a, b, c, flags).res = x \div 2
  BY <1>1, <1>4 DEF Shaped, Nibbles
<1> QED  BY <1>5, <1>6, <1>7 DEF x

\* With the sum of a 0, a flag and a carry inverted, the carry is the negated flag.
LEMMA AluInverts ==
  ASSUME NEW a \in Nibbles, NEW b \in {0, 15}, NEW c \in Nibbles, NEW flags,
         flags.b_lut = 2, flags.carry_in = 1, ~ flags.a_enable, ~ flags.c_enable,
         ~ flags.compute_and, flags.not_out, ~ flags.shr
  PROVE  Alu(a, b, c, flags).carry_out = 1 <=> b = 0
<1>1. Left(a, flags) = 0 /\ Right(b, c, flags) = b
  BY DEF Left, Right
<1>2. Summed(Left(a, flags), LutOut(Right(b, c, flags), flags), flags) = b + 1
  BY <1>1 DEF Summed, LutOut
<1>3. Computed(a, b, c, flags) = 30 - b
  BY <1>2 DEF Computed, Shaped
<1> QED  BY <1>3, AluOutputs


----------------------------------------------------------------------------
\* What a running machine fetches is a word of the program's ROM.
LEMMA Fetched ==
  ASSUME TypeOK, Running
  PROVE  word \in Words /\ pc \in 0 .. Size(program) - 1
<1>1. program \in Programs /\ pc \in 0 .. 1023 /\ pc < Size(program)
  BY DEF TypeOK, Running, Addresses
<1>2. Size(program) \in 0 .. 1024
  BY <1>1, EmulatorAssumption
<1>3. pc \in 0 .. Size(program) - 1
  BY <1>1, <1>2, SMTT(30)
<1>4. Rom(program, pc) \in Words
  BY <1>1, <1>3, EmulatorAssumption
<1> QED  BY <1>3, <1>4 DEF word

\* Each operand has the range of its bits, and the register that is written is the one
\* that is read first.
LEMMA Operands ==
  ASSUME word \in Words
  PROVE  /\ Operand("RegReadAddr0") \in 0 .. 3
         /\ Operand("RegReadAddr1") \in 0 .. 3
         /\ Operand("RegWriteAddr") = Operand("RegReadAddr0")
         /\ Operand("Immediate") \in Nibble
         /\ Operand("JumpAddr") \in 0 .. 63
         /\ PredMismatch \in BOOLEAN
BY BitsOfSemantics, ExtractRange DEF Operand, PredMismatch, Nibble

\* The two read ports show nibbles, unless an access leaves the two banks.
LEMMA Ports ==
  ASSUME TypeOK, word \in Words, NEW dec, ~ OutOfRam(dec)
  PROVE  /\ ReadPort0 \in Nibble
         /\ ReadPort1(dec) \in Nibble
         /\ dec.flag_get => ReadPort1(dec) = IF flag THEN 15 ELSE 0
<1>1. ReadPort0 \in Nibble
  BY Operands DEF TypeOK, ReadPort0
<1>2. regs[Operand("RegReadAddr1")] \in Nibble
  BY Operands DEF TypeOK
<1>3. dec.deref_src => ram[<<membank, regs[Operand("RegReadAddr1")]>>] \in Nibble
  BY <1>2 DEF OutOfRam, TypeOK
<1>4. \A port \in Nibble : gpi[port] \in Nibble
  BY DEF TypeOK
<1>5. ReadPort1(dec) \in Nibble
  BY <1>2, <1>3, <1>4 DEF ReadPort1, Nibble
<1> QED  BY <1>1, <1>5 DEF ReadPort1

\* The flags that the decoder gives the ALU have the values it expects.
LEMMA SignalFlags ==
  ASSUME word \in Words
  PROVE  /\ Signals.alu_flags.b_lut \in {0, 1, 2}
         /\ Signals.alu_flags.carry_in \in 0 .. 1
<1>1. PredMismatch \in BOOLEAN
  BY Operands
<1> QED  BY <1>1, AluFlagsRaised DEF Signals

\* So the ALU returns a nibble.
LEMMA AluResult ==
  ASSUME TypeOK, word \in Words, ~ OutOfRam(Signals)
  PROVE  /\ AluOut(Signals).res \in Nibble
         /\ AluRes(Signals) \in Nibble
<1>1. AluOut(Signals).res \in Nibble
  <2>1. Nibble = Nibbles
    BY DEF Nibble, Nibbles
  <2> QED  BY <2>1, Ports, Operands, SignalFlags, AluRange DEF AluOut
<1> QED  BY <1>1 DEF AluRes, TypeOK

----------------------------------------------------------------------------
\* One of the adders of the PC: the PC with the carry, or the address.
AdderFlags(dec, carry) ==
  [ a_enable    |-> dec.no_jump,
    b_lut       |-> IF dec.no_jump THEN 0 ELSE 2,
    c_enable    |-> dec.indirect,
    carry_in    |-> carry,
    compute_and |-> FALSE, not_out |-> FALSE, shr |-> FALSE ]
AdderSum(dec, x, y, z, carry) == Alu(x, y, z, AdderFlags(dec, carry)).res
AdderCarry(dec, x, y, z, carry) == Alu(x, y, z, AdderFlags(dec, carry)).carry_out

\* What the flags of such an adder are.
LEMMA AdderFlagsAre ==
  ASSUME NEW dec, NEW carry
  PROVE  LET flags == AdderFlags(dec, carry)
         IN  /\ flags.a_enable <=> dec.no_jump
             /\ flags.b_lut = IF dec.no_jump THEN 0 ELSE 2
             /\ flags.c_enable <=> dec.indirect
             /\ flags.carry_in = carry
             /\ ~ flags.compute_and /\ ~ flags.not_out /\ ~ flags.shr
<1> DEFINE flags == AdderFlags(dec, carry)
<1>1. flags.a_enable <=> dec.no_jump
  BY DEF AdderFlags
<1>2. flags.c_enable <=> dec.indirect
  BY DEF AdderFlags
<1>3. ~ flags.compute_and /\ ~ flags.not_out /\ ~ flags.shr
  BY DEF AdderFlags
<1>4. flags.b_lut = (IF dec.no_jump THEN 0 ELSE 2) /\ flags.carry_in = carry
  BY DEF AdderFlags
<1> QED  BY <1>1, <1>2, <1>3, <1>4
\* Without a jump an adder counts, and with one it passes the address on.
LEMMA AdderCounts ==
  ASSUME NEW dec, dec.no_jump
  PROVE  /\ \A x, y, z \in 0 .. 15, carry \in 0 .. 1 :
              AdderSum(dec, x, y, z, carry) = (x + carry) % 16
         /\ \A x, y, z \in 0 .. 15, carry \in 0 .. 1 :
              AdderCarry(dec, x, y, z, carry) = (x + carry) \div 16
<1> SUFFICES ASSUME NEW x \in 0 .. 15, NEW y \in 0 .. 15, NEW z \in 0 .. 15,
                    NEW carry \in 0 .. 1
             PROVE  /\ AdderSum(dec, x, y, z, carry) = (x + carry) % 16
                    /\ AdderCarry(dec, x, y, z, carry) = (x + carry) \div 16
  OBVIOUS
<1> DEFINE flags == AdderFlags(dec, carry)
<1>1. /\ flags.a_enable /\ flags.b_lut = 0 /\ flags.carry_in = carry
      /\ ~ flags.compute_and /\ ~ flags.not_out /\ ~ flags.shr
  BY AdderFlagsAre
<1> HIDE DEF flags
<1>2. Computed(x, y, z, flags) = x + carry
  BY <1>1 DEF Computed, Shaped, Summed, LutOut, Left
<1> QED  BY <1>1, <1>2, AluOutputs DEF AdderSum, AdderCarry, flags

\* With a jump it passes the address on, without a carry.
LEMMA AdderPasses ==
  ASSUME NEW dec, ~ dec.no_jump
  PROVE  \A x, y, z \in 0 .. 15 :
           /\ AdderSum(dec, x, y, z, 0) = IF dec.indirect THEN z ELSE y
           /\ AdderCarry(dec, x, y, z, 0) = 0
<1> SUFFICES ASSUME NEW x \in 0 .. 15, NEW y \in 0 .. 15, NEW z \in 0 .. 15
             PROVE  /\ AdderSum(dec, x, y, z, 0) = IF dec.indirect THEN z ELSE y
                    /\ AdderCarry(dec, x, y, z, 0) = 0
  OBVIOUS
<1> DEFINE flags == AdderFlags(dec, 0)
           address == IF dec.indirect THEN z ELSE y
<1>1. /\ ~ flags.a_enable /\ flags.b_lut = 2 /\ flags.carry_in = 0
      /\ ~ flags.compute_and /\ ~ flags.not_out /\ ~ flags.shr
  BY AdderFlagsAre
<1>2. flags.c_enable <=> dec.indirect
  BY AdderFlagsAre
<1> HIDE DEF flags
<1>3. Right(y, z, flags) = address
  BY <1>2 DEF Right
<1>4. address \in 0 .. 15
  OBVIOUS
<1> HIDE DEF address
<1>5. Computed(x, y, z, flags) = address
  BY <1>1, <1>3, <1>4 DEF Computed, Shaped, Summed, LutOut, Left
<1>6. address % 16 = address /\ address \div 16 = 0
  BY <1>4
<1>7. AdderSum(dec, x, y, z, 0) = address /\ AdderCarry(dec, x, y, z, 0) = 0
  BY <1>1, <1>5, <1>6, AluOutputs DEF AdderSum, AdderCarry, flags
<1> QED  BY <1>7 DEF address

\* NextPc in terms of them: two low bits, four in the middle, and the bank.
LEMMA NextPcAdders ==
  ASSUME NEW dec, NEW at, NEW bank
  PROVE  LET address == Operand("JumpAddr")
             steps   == PredMismatch \/ (Proceeds(dec) /\ dec.no_jump)
             one     == IF steps THEN 1 ELSE 0
             low  == at % 4
             mid  == (at \div 4) % 16
             high == at \div 64
             y1 == address % 4
             y2 == address \div 4
             a1 == AdderSum(dec, low, y1, 0, one)
             c1 == BitOf(a1, 2)
             a2 == AdderSum(dec, mid, y2, ReadPort1(dec), c1)
             c2 == AdderCarry(dec, mid, y2, ReadPort1(dec), c1)
             a3 == AdderSum(dec, high, bank, bank, c2)
         IN  NextPc(dec, at, bank) = 64 * a3 + 4 * a2 + (a1 % 4)
BY Zenon DEF NextPc, AdderSum, AdderCarry, AdderFlags

\* The parts of a PC: two low bits, four in the middle, and the bank.
LEMMA PcParts ==
  ASSUME NEW at \in Addresses
  PROVE  /\ at % 4 \in 0 .. 3 /\ (at \div 4) % 16 \in 0 .. 15 /\ at \div 64 \in 0 .. 15
         /\ at = 64 * (at \div 64) + 4 * ((at \div 4) % 16) + (at % 4)
<1>1. at % 4 \in 0 .. 3 /\ (at \div 4) % 16 \in 0 .. 15 /\ at \div 64 \in 0 .. 15
  BY DEF Addresses
<1>2. at = 64 * (at \div 64) + 4 * ((at \div 4) % 16) + (at % 4)
  BY DEF Addresses
<1> QED  BY <1>1, <1>2

\* A PC that does not jump goes to the next address, or stays where it is.
LEMMA NextPcSteps ==
  ASSUME word \in Words, NEW dec, dec.no_jump, ReadPort1(dec) \in Nibble,
         NEW at \in Addresses, NEW bank \in Nibble
  PROVE  NextPc(dec, at, bank) = IF PredMismatch \/ Proceeds(dec)
                                 THEN (at + 1) % 1024 ELSE at
<1> DEFINE address == Operand("JumpAddr")
           steps   == PredMismatch \/ (Proceeds(dec) /\ dec.no_jump)
           one     == IF steps THEN 1 ELSE 0
<1>1. PICK low \in 0 .. 3, mid \in 0 .. 15, high \in 0 .. 15 :
        /\ low = at % 4 /\ mid = (at \div 4) % 16 /\ high = at \div 64
        /\ at = 64 * high + 4 * mid + low
  BY PcParts
<1>2. PICK z \in 0 .. 15, bk \in 0 .. 15 : z = ReadPort1(dec) /\ bk = bank
  BY DEF Nibble
<1>3. PICK y1 \in 0 .. 15, y2 \in 0 .. 15 : y1 = address % 4 /\ y2 = address \div 4
  <2>1. address \in 0 .. 63
    BY Operands
  <2> QED  BY <2>1 DEF Nibble
<1>4. PICK o \in 0 .. 1 : o = one
  OBVIOUS
<1> DEFINE a1 == AdderSum(dec, low, y1, 0, o)
           c1 == BitOf(a1, 2)
           a2 == AdderSum(dec, mid, y2, z, c1)
           c2 == AdderCarry(dec, mid, y2, z, c1)
           a3 == AdderSum(dec, high, bk, bk, c2)
<1>5. NextPc(dec, at, bank) = 64 * a3 + 4 * a2 + (a1 % 4)
  BY <1>2, <1>1, <1>3, <1>4, NextPcAdders, Zenon
<1> HIDE DEF one
<1>6. low \in 0 .. 15 /\ 0 \in 0 .. 15
  OBVIOUS
<1>7. \A x, y, v \in 0 .. 15, carry \in 0 .. 1 : AdderSum(dec, x, y, v, carry) = (x + carry) % 16
  BY AdderCounts, Zenon
<1>8. \A x, y, v \in 0 .. 15, carry \in 0 .. 1 :
        AdderCarry(dec, x, y, v, carry) = (x + carry) \div 16
  BY AdderCounts, Zenon
<1>9. a1 = low + o
  <2>1. a1 = (low + o) % 16
    BY <1>7, <1>6
  <2> QED  BY <2>1
<1>10. c1 = (low + o) \div 4 /\ c1 \in 0 .. 1
  BY <1>9 DEF BitOf
<1>11. a1 % 4 = low + o - 4 * c1
  BY <1>9, <1>10
<1> HIDE DEF a1, c1
<1>12. a2 = (mid + c1) % 16 /\ c2 = (mid + c1) \div 16
  <2>1. a2 = (mid + c1) % 16
    BY <1>7, <1>10
  <2>2. c2 = (mid + c1) \div 16
    BY <1>8, <1>10
  <2> QED  BY <2>1, <2>2
<1> HIDE DEF a2, c2
<1>13. c2 \in 0 .. 1 /\ a2 = mid + c1 - 16 * c2
  BY <1>10, <1>12
<1>14. a3 = (high + c2) % 16
  BY <1>7, <1>13
<1> HIDE DEF a3
<1>15. 64 * a3 + 4 * a2 + (a1 % 4) = (64 * high + 4 * mid + low + o) % 1024
  <2> DEFINE l == a1 % 4
             m == a2
             h == a3
  <2>1. l \in 0 .. 3 /\ m \in 0 .. 15 /\ h \in 0 .. 15
    BY <1>10, <1>11, <1>12, <1>13, <1>14
  <2>2. low + o = l + 4 * c1 /\ mid + c1 = m + 16 * c2
    BY <1>10, <1>11, <1>13
  <2> HIDE DEF l, m, h
  <2>3. h = (high + c2) % 16
    BY <1>14 DEF h
  <2>4. 64 * high + 4 * mid + low + o = 64 * (high + c2) + 4 * m + l
    BY <1>10, <1>13, <2>1, <2>2
  <2>5. \/ h = high + c2
        \/ high + c2 = 16 /\ h = 0
    BY <1>13, <2>3
  <2>6. 64 * h + 4 * m + l = (64 * high + 4 * mid + low + o) % 1024
    BY <1>13, <2>1, <2>4, <2>5
  <2> QED  BY <2>6 DEF l, m, h
<1>16. NextPc(dec, at, bank) = (64 * high + 4 * mid + low + o) % 1024
  BY <1>5, <1>15
<1>17. NextPc(dec, at, bank) = (at + o) % 1024
  BY <1>1, <1>16
<1> QED  BY <1>4, <1>17 DEF one, Addresses

\* A jump goes to the address in the bank, or to register 3's.
LEMMA NextPcJumps ==
  ASSUME word \in Words, NEW dec, ~ dec.no_jump, ~ PredMismatch, ReadPort1(dec) \in Nibble,
         NEW at \in Addresses, NEW bank \in Nibble
  PROVE  NextPc(dec, at, bank) =
           64 * bank + IF dec.indirect THEN 4 * ReadPort1(dec) ELSE Operand("JumpAddr")
<1> DEFINE address == Operand("JumpAddr")
           steps   == PredMismatch \/ (Proceeds(dec) /\ dec.no_jump)
           one     == IF steps THEN 1 ELSE 0
<1>1. PICK low \in 0 .. 3, mid \in 0 .. 15, high \in 0 .. 15 :
        /\ low = at % 4 /\ mid = (at \div 4) % 16 /\ high = at \div 64
  BY PcParts
<1>2. PICK z \in 0 .. 15, bk \in 0 .. 15 : z = ReadPort1(dec) /\ bk = bank
  BY DEF Nibble
<1>3. PICK y1 \in 0 .. 3, y2 \in 0 .. 15 : /\ y1 = address % 4 /\ y2 = address \div 4
                                         /\ 4 * y2 + y1 = address
  <2>1. address \in 0 .. 63
    BY Operands
  <2> QED  BY <2>1 DEF Nibble
<1>4. one = 0
  OBVIOUS
<1> DEFINE a1 == AdderSum(dec, low, y1, 0, 0)
           c1 == BitOf(a1, 2)
           a2 == AdderSum(dec, mid, y2, z, c1)
           c2 == AdderCarry(dec, mid, y2, z, c1)
           a3 == AdderSum(dec, high, bk, bk, c2)
<1>5. NextPc(dec, at, bank) = 64 * a3 + 4 * a2 + (a1 % 4)
  BY <1>2, <1>1, <1>3, <1>4, NextPcAdders, Zenon
<1> HIDE DEF one, address
<1>6. low \in 0 .. 15 /\ y1 \in 0 .. 15 /\ 0 \in 0 .. 15
  OBVIOUS
<1>7. \A x, y, v \in 0 .. 15 : AdderSum(dec, x, y, v, 0) = IF dec.indirect THEN v ELSE y
  BY AdderPasses
<1>8. \A x, y, v \in 0 .. 15 : AdderCarry(dec, x, y, v, 0) = 0
  BY AdderPasses
<1>9. a1 = IF dec.indirect THEN 0 ELSE y1
  BY <1>7, <1>6
<1>10. c1 = 0 /\ a1 % 4 = IF dec.indirect THEN 0 ELSE y1
  BY <1>9 DEF BitOf
<1> HIDE DEF a1, c1
<1>11. a2 = (IF dec.indirect THEN z ELSE y2) /\ c2 = 0
  <2>1. a2 = IF dec.indirect THEN z ELSE y2
    BY <1>7, <1>10
  <2>2. c2 = 0
    BY <1>8, <1>10
  <2> QED  BY <2>1, <2>2
<1> HIDE DEF a2, c2
<1>12. a3 = bk
  BY <1>7, <1>6, <1>11
<1> HIDE DEF a3
<1>13. 64 * a3 + 4 * a2 + (a1 % 4) =
        64 * bk + IF dec.indirect THEN 4 * z ELSE 4 * y2 + y1
  BY <1>10, <1>11, <1>12
<1>14. NextPc(dec, at, bank) = 64 * bk + IF dec.indirect THEN 4 * z ELSE 4 * y2 + y1
  BY <1>5, <1>13
<1> QED  BY <1>2, <1>3, <1>14 DEF address

----------------------------------------------------------------------------
\* The signals of an instruction, by its name: those that jump, call and return, ...
LEMMA ControlSignals ==
  ASSUME word \in Words
  PROVE  /\ Signals.no_jump <=> PredMismatch \/ Mnemonic(word) \notin Jumping
         /\ Signals.push_pc <=> ~ PredMismatch /\ Mnemonic(word) \in {"call", "call3"}
         /\ Signals.pop_pc <=> ~ PredMismatch /\ Mnemonic(word) \in Returning
         /\ Signals.indirect <=> Mnemonic(word) \in {"jump3", "call3"}
         /\ Signals.wait <=> Mnemonic(word) = "wait"
<1>0. PredMismatch \in BOOLEAN
  BY Operands
<1>1. Signals.no_jump <=> PredMismatch \/ Mnemonic(word) \notin Jumping
  BY <1>0, SignalsRaised, SemanticsByMnemonic DEF Signals
<1>2. Signals.push_pc <=> ~ PredMismatch /\ Mnemonic(word) \in {"call", "call3"}
  BY <1>0, SignalsRaised, SemanticsByMnemonic DEF Signals
<1>3. Signals.pop_pc <=> ~ PredMismatch /\ Mnemonic(word) \in Returning
  BY <1>0, SignalsRaised, SemanticsByMnemonic DEF Signals
<1>4. Signals.indirect <=> Mnemonic(word) \in {"jump3", "call3"}
  BY <1>0, SignalsRaised, SemanticsByMnemonic DEF Signals
<1>5. Signals.wait <=> Mnemonic(word) = "wait"
  BY <1>0, SignalsRaised, SemanticsByMnemonic DEF Signals
<1> QED  BY <1>1, <1>2, <1>3, <1>4, <1>5

\* ... those that change the rest of the machine, ...
LEMMA EffectSignals ==
  ASSUME word \in Words
  PROVE  /\ Signals.write_enable <=> ~ PredMismatch /\ Takes(word, "dst")
         /\ Signals.membank_set <=> ~ PredMismatch /\ Mnemonic(word) = "membank"
         /\ Signals.rombank_set <=> ~ PredMismatch /\ Mnemonic(word) = "rombank"
         /\ Signals.push <=> ~ PredMismatch /\ Mnemonic(word) = "push"
         /\ Signals.pop <=> ~ PredMismatch /\ Mnemonic(word) \in {"retpop", "pop"}
         /\ Signals.store <=> ~ PredMismatch /\ Mnemonic(word) = "store"
         /\ Signals.flag_set <=> ~ PredMismatch /\ Mnemonic(word) \in Counting \cup Testing
<1>0. PredMismatch \in BOOLEAN
  BY Operands
<1>1. Signals.write_enable <=> ~ PredMismatch /\ Takes(word, "dst")
  BY <1>0, SignalsRaised DEF Signals
<1>2. Signals.membank_set <=> ~ PredMismatch /\ Mnemonic(word) = "membank"
  BY <1>0, SignalsRaised, SemanticsByMnemonic DEF Signals
<1>3. Signals.rombank_set <=> ~ PredMismatch /\ Mnemonic(word) = "rombank"
  BY <1>0, SignalsRaised, SemanticsByMnemonic DEF Signals
<1>4. Signals.push <=> ~ PredMismatch /\ Mnemonic(word) = "push"
  BY <1>0, SignalsRaised, SemanticsByMnemonic DEF Signals
<1>5. Signals.pop <=> ~ PredMismatch /\ Mnemonic(word) \in {"retpop", "pop"}
  BY <1>0, SignalsRaised, SemanticsByMnemonic DEF Signals
<1>6. Signals.store <=> ~ PredMismatch /\ Mnemonic(word) = "store"
  BY <1>0, SignalsRaised, SemanticsByMnemonic DEF Signals
<1>7. Signals.flag_set <=> ~ PredMismatch /\ Mnemonic(word) \in Counting \cup Testing
  BY <1>0, SignalsRaised, SemanticsByMnemonic DEF Signals, Counting, Testing
<1> QED  BY <1>1, <1>2, <1>3, <1>4, <1>5, <1>6, <1>7

\* ... and those that choose the right operand and the comparison.
LEMMA SourceSignals ==
  ASSUME word \in Words
  PROVE  /\ Signals.deref_src <=> Extract(word, <<6, 6>>) = 1 /\ Takes(word, "deref_src")
         /\ Signals.load_gpi <=> Mnemonic(word) \in {"ldgpi", "wait"}
         /\ Signals.flag_get <=> Mnemonic(word) = "invflag"
         /\ Signals.cmp = IF Raises(word, "CmpNz") THEN 2 ELSE Extract(word, <<7, 6>>)
<1>0. PredMismatch \in BOOLEAN
  BY Operands
<1>1. Signals.deref_src <=> Extract(word, <<6, 6>>) = 1 /\ Takes(word, "deref_src")
  BY <1>0, SignalsRaised DEF Signals
<1>2. Signals.load_gpi <=> Mnemonic(word) \in {"ldgpi", "wait"}
  BY <1>0, SignalsRaised, SemanticsByMnemonic DEF Signals
<1>3. Signals.flag_get <=> Mnemonic(word) = "invflag"
  BY <1>0, SignalsRaised, SemanticsByMnemonic DEF Signals
<1>4. Signals.cmp = IF Raises(word, "CmpNz") THEN 2 ELSE Extract(word, <<7, 6>>)
  BY <1>0, SignalsRaised DEF Signals
<1> QED  BY <1>1, <1>2, <1>3, <1>4

\* What a call and a return make of a sequence.
LEMMA Pushed ==
  ASSUME NEW S, NEW s \in Seq(S), NEW x \in S
  PROVE  /\ Append(s, x) \in Seq(S)
         /\ Len(Append(s, x)) = Len(s) + 1
         /\ \A i \in DOMAIN Append(s, x) :
              Append(s, x)[i] = IF i \in DOMAIN s THEN s[i] ELSE x
  OBVIOUS

\* A return leaves the entries below the last one as they are.
LEMMA Popped ==
  ASSUME NEW S, NEW s \in Seq(S), s # << >>
  PROVE  LET t == SubSeq(s, 1, Len(s) - 1)
         IN  /\ t \in Seq(S)
             /\ Len(t) = Len(s) - 1
             /\ \A i \in DOMAIN t : i \in DOMAIN s /\ t[i] = s[i]
             /\ s[Len(s)] \in S
<1>1. PICK n \in Nat : Len(s) = n + 1
  <2>1. Len(s) \in Nat /\ Len(s) > 0
    OBVIOUS
  <2>2. Len(s) - 1 \in Nat
    BY <2>1
  <2> QED  BY <2>1, <2>2
<1>2. Len(s) - 1 = n /\ s[Len(s)] \in S /\ \A i \in 1 .. n : i \in DOMAIN s /\ s[i] \in S
  BY <1>1
<1>3. /\ SubSeq(s, 1, n) \in Seq(S)
      /\ Len(SubSeq(s, 1, n)) = IF 1 <= n THEN n - 1 + 1 ELSE 0
      /\ \A i \in 1 .. n - 1 + 1 : SubSeq(s, 1, n)[i] = s[1 + i - 1]
  BY <1>2, SubSeqProperties
<1>4. Len(SubSeq(s, 1, n)) = n
  BY <1>3
<1>5. \A i \in 1 .. n : SubSeq(s, 1, n)[i] = s[i]
  BY <1>3
<1>6. DOMAIN SubSeq(s, 1, n) = 1 .. n
  BY <1>3, <1>4
<1> QED  BY <1>1, <1>2, <1>3, <1>4, <1>5, <1>6

\* The PC stays within its ten bits.
LEMMA NextPcRange ==
  ASSUME word \in Words, NEW at \in Addresses, NEW bank \in Nibble,
         ReadPort1(Signals) \in Nibble
  PROVE  NextPc(Signals, at, bank) \in Addresses
<1>1. CASE Signals.no_jump
  <2>1. NextPc(Signals, at, bank) = IF PredMismatch \/ Proceeds(Signals)
                                    THEN (at + 1) % 1024 ELSE at
    BY <1>1, NextPcSteps
  <2> QED  BY <2>1 DEF Addresses
<1>2. CASE ~ Signals.no_jump
  <2>1. ~ PredMismatch
    BY <1>2, ControlSignals
  <2>2. NextPc(Signals, at, bank) =
          64 * bank + IF Signals.indirect THEN 4 * ReadPort1(Signals) ELSE Operand("JumpAddr")
    BY <1>2, <2>1, NextPcJumps
  <2>3. Operand("JumpAddr") \in 0 .. 63
    BY Operands
  <2> QED  BY <2>2, <2>3 DEF Addresses, Nibble
<1> QED  BY <1>1, <1>2

\* An instruction that has run keeps the state within its types, ...
LEMMA OpTyped ==
  ASSUME TypeOK, Op(Signals)
  PROVE  TypeOK'
<1> DEFINE S == Signals
<1>1. /\ Running /\ ~ OutOfRam(S) /\ ~ StackFails(S) /\ SetBanks(S) /\ Proceed(S)
      /\ UNCHANGED <<program, gpi, error>>
  BY DEF Op
<1>2. word \in Words
  BY <1>1, Fetched
<1>3. /\ ReadPort0 \in Nibble /\ ReadPort1(S) \in Nibble
      /\ AluOut(S).res \in Nibble /\ AluRes(S) \in Nibble
  BY <1>1, <1>2, Ports, AluResult
<1>10. ~ (S.push_pc /\ S.pop_pc)
  BY <1>2, ControlSignals DEF Returning
<1> HIDE DEF S
<1>4. membank' \in Nibble /\ rombank' \in Nibble /\ bak' \in Nibble
  BY <1>1, <1>3 DEF SetBanks, NextBak, TypeOK
<1>5. ram' \in [Banks \X Nibble -> Nibble]
  BY <1>1, <1>3 DEF SetBanks, TypeOK
<1>6. regs' \in [0 .. 3 -> Nibble]
  BY <1>1, <1>3 DEF Proceed, TypeOK
<1>7. flag' \in BOOLEAN
  BY <1>1 DEF Proceed, TypeOK, Compared
<1>8. stack' \in Seq(Addresses) /\ Len(stack') <= StackLimit
  <2>0. stack \in Seq(Addresses) /\ Len(stack) \in Nat /\ Len(stack) <= 4
    <3>1. stack \in Seq(Addresses) /\ Len(stack) <= 4
      BY DEF TypeOK, StackLimit
    <3> QED  BY <3>1
  <2>1. CASE S.push_pc
    <3>1. stack' = Append(stack, pc)
      BY <1>1, <1>10, <2>1 DEF Proceed, NextStack
    <3>4. pc \in Addresses
      BY DEF TypeOK
    <3>2. Len(stack) < 4
      BY <1>1, <2>0, <2>1 DEF StackFails, StackLimit
    <3>3. Append(stack, pc) \in Seq(Addresses) /\ Len(Append(stack, pc)) = Len(stack) + 1
      BY <2>0, <3>4, Pushed
    <3> QED  BY <2>0, <3>1, <3>2, <3>3 DEF StackLimit
  <2>2. CASE ~ S.push_pc /\ S.pop_pc
    <3>1. stack' = SubSeq(stack, 1, Len(stack) - 1)
      BY <1>1, <2>2 DEF Proceed, NextStack
    <3>2. stack # << >>
      BY <1>1, <2>2 DEF StackFails
    <3>3. /\ SubSeq(stack, 1, Len(stack) - 1) \in Seq(Addresses)
          /\ Len(SubSeq(stack, 1, Len(stack) - 1)) = Len(stack) - 1
      BY <2>0, <3>2, Popped
    <3> QED  BY <2>0, <3>1, <3>3 DEF StackLimit
  <2>3. CASE ~ S.push_pc /\ ~ S.pop_pc
    BY <1>1, <2>3 DEF Proceed, NextStack, TypeOK
  <2> QED  BY <2>1, <2>2, <2>3
<1>9. pc' \in Addresses
  <2> DEFINE at == IF S.pop_pc THEN stack[Len(stack)] ELSE pc
  <2>1. at \in Addresses
    <3>1. stack \in Seq(Addresses) /\ pc \in Addresses
      BY DEF TypeOK
    <3>2. S.pop_pc => stack # << >>
      BY <1>1 DEF StackFails
    <3>3. stack # << >> => stack[Len(stack)] \in Addresses
      BY <3>1, Popped
    <3> QED  BY <3>1, <3>2, <3>3
  <2>2. pc' = NextPc(S, at, rombank')
    BY <1>1 DEF Proceed
  <2> QED  BY <1>2, <1>3, <1>4, <2>1, <2>2, NextPcRange DEF S
<1> QED  BY <1>1, <1>4, <1>5, <1>6, <1>7, <1>8, <1>9 DEF TypeOK

\* ... and so does one that throws half-way.
LEMMA ThrowTyped ==
  ASSUME TypeOK, Throw(Signals)
  PROVE  TypeOK'
<1> DEFINE S == Signals
<1>1. /\ Running /\ ~ OutOfRam(S) /\ SetBanks(S)
      /\ error' = IF S.push_pc THEN "overflow" ELSE "underflow"
      /\ UNCHANGED <<program, regs, gpi, pc, flag, stack>>
  BY DEF Throw
<1>2. word \in Words
  BY <1>1, Fetched
<1>3. ReadPort0 \in Nibble /\ AluOut(S).res \in Nibble /\ AluRes(S) \in Nibble
  BY <1>1, <1>2, Ports, AluResult
<1> HIDE DEF S
<1>4. membank' \in Nibble /\ rombank' \in Nibble /\ bak' \in Nibble
  BY <1>1, <1>3 DEF SetBanks, NextBak, TypeOK
<1>5. ram' \in [Banks \X Nibble -> Nibble]
  BY <1>1, <1>3 DEF SetBanks, TypeOK
<1> QED  BY <1>1, <1>4, <1>5 DEF TypeOK

\* The machine starts with values of its types.
LEMMA InitTyped == Init => TypeOK
<1> SUFFICES ASSUME Init PROVE TypeOK
  OBVIOUS
<1>1. program \in Programs
  BY DEF Init
<1>2. /\ regs \in [0 .. 3 -> Nibble] /\ ram \in [Banks \X Nibble -> Nibble]
      /\ pc \in Addresses
  <2>1. /\ Registers(program) \subseteq [0 .. 3 -> Nibble]
        /\ Starts(program) \subseteq Addresses
        /\ Memory(program) \in [Banks \X Nibble -> Nibble]
    <3>1. Registers(program) \subseteq [0 .. 3 -> Nibble]
      BY <1>1, EmulatorAssumption
    <3>2. Starts(program) \subseteq Addresses
      BY <1>1, EmulatorAssumption
    <3>3. Memory(program) \in [Banks \X Nibble -> Nibble]
      BY <1>1, EmulatorAssumption
    <3> QED  BY <3>1, <3>2, <3>3
  <2> QED  BY <2>1 DEF Init
<1> QED  BY <1>1, <1>2 DEF Init, TypeOK, Nibble, StackLimit

\* No step takes a value out of its type.
LEMMA StepTyped ==
  ASSUME TypeOK, [Next]_vars
  PROVE  TypeOK'
<1>1. CASE Op(Signals)
  BY <1>1, OpTyped
<1>2. CASE Throw(Signals)
  BY <1>2, ThrowTyped
<1>3. CASE Undefined(Signals)
  BY <1>3 DEF Undefined, TypeOK, machine
<1>4. CASE OutOfBounds
  BY <1>4 DEF OutOfBounds, TypeOK, machine
<1>5. CASE UNCHANGED vars
  BY <1>5 DEF vars, machine, TypeOK
<1>6. CASE \E port \in GpiPorts, value \in GpiValues(program) : SetGpi(port, value)
  <2>1. PICK port \in GpiPorts, value \in GpiValues(program) : SetGpi(port, value)
    BY <1>6
  <2>2. value \in Nibble
    BY EmulatorAssumption DEF TypeOK
  <2> QED  BY <2>1, <2>2 DEF SetGpi, TypeOK
<1> QED  BY <1>1, <1>2, <1>3, <1>4, <1>5, <1>6 DEF Next, Stopped

\* Type correctness (the assertions of Integer in cpu/types.h, and the depth of the
\* call stack), for every set of programs.
THEOREM TypeCorrect == Spec => []TypeOK
<1>1. TypeOK /\ [Next]_vars => TypeOK'
  BY StepTyped
<1> QED  BY <1>1, InitTyped, PTL DEF Spec

\* Each entry of the call stack is the address of a call.
LEMMA StepKeepsCalls ==
  ASSUME TypeOK, StackHoldsCalls, [Next]_vars
  PROVE  StackHoldsCalls'
<1>1. stack \in Seq(Addresses)
  BY DEF TypeOK
<1>2. ASSUME UNCHANGED <<program, stack>> PROVE StackHoldsCalls'
  BY <1>2 DEF StackHoldsCalls
<1>3. CASE Op(Signals)
  <2> DEFINE S == Signals
             Holds(s) == \A i \in DOMAIN s :
                           /\ s[i] < Size(program)
                           /\ Decode[Rom(program, s[i])].op \in {"call", "call3"}
  <2>1. Running /\ ~ StackFails(S) /\ stack' = NextStack(S) /\ program' = program
    BY <1>3 DEF Op, Proceed
  <2>2. word \in Words
    BY <2>1, Fetched
  <2>3. ~ (S.push_pc /\ S.pop_pc)
    BY <2>2, ControlSignals DEF Returning
  <2>4. S.push_pc => Decode[word].op \in {"call", "call3"}
    BY <2>2, ControlSignals, DecodedWord
  <2>5. Holds(stack)
    BY DEF StackHoldsCalls
  <2> SUFFICES Holds(stack')
    BY <2>1 DEF StackHoldsCalls
  <2> HIDE DEF S
  <2>6. CASE S.push_pc
    <3>1. stack' = Append(stack, pc)
      BY <2>1, <2>3, <2>6 DEF NextStack
    <3>2. pc \in Addresses /\ pc < Size(program)
      BY <2>1 DEF TypeOK, Running
    <3>3. Decode[Rom(program, pc)].op \in {"call", "call3"}
      BY <2>4, <2>6 DEF word
    <3>4. \A i \in DOMAIN Append(stack, pc) :
            Append(stack, pc)[i] = IF i \in DOMAIN stack THEN stack[i] ELSE pc
      BY <1>1, <3>2, Pushed
    <3> QED  BY <2>5, <3>1, <3>2, <3>3, <3>4
  <2>7. CASE ~ S.push_pc /\ S.pop_pc
    <3>1. stack' = SubSeq(stack, 1, Len(stack) - 1)
      BY <2>1, <2>7 DEF NextStack
    <3>2. stack # << >>
      BY <2>1, <2>7 DEF StackFails
    <3>3. \A i \in DOMAIN stack' : i \in DOMAIN stack /\ stack'[i] = stack[i]
      BY <1>1, <3>1, <3>2, Popped
    <3> QED  BY <2>5, <3>3
  <2>8. CASE ~ S.push_pc /\ ~ S.pop_pc
    <3>1. stack' = stack
      BY <2>1, <2>8 DEF NextStack
    <3> QED  BY <2>5, <3>1
  <2> QED  BY <2>6, <2>7, <2>8
<1>4. CASE Throw(Signals)
  BY <1>2, <1>4 DEF Throw
<1>5. CASE Undefined(Signals) \/ OutOfBounds \/ UNCHANGED vars
  BY <1>2, <1>5 DEF Undefined, OutOfBounds, vars, machine
<1>6. CASE \E port \in GpiPorts, value \in GpiValues(program) : SetGpi(port, value)
  BY <1>2, <1>6 DEF SetGpi
<1> QED  BY <1>3, <1>4, <1>5, <1>6 DEF Next, Stopped

\* Whatever a program does, its call stack holds addresses of calls.
THEOREM CallsOnStack == Spec => []StackHoldsCalls
<1>1. Init => StackHoldsCalls
  BY DEF Init, StackHoldsCalls
<1>2. TypeOK /\ StackHoldsCalls /\ [Next]_vars => StackHoldsCalls'
  BY StepKeepsCalls
<1> QED  BY <1>1, <1>2, TypeCorrect, PTL DEF Spec

\* An instruction that throws is a call or a return: none of the assignments that
\* come before the stack is touched is its.
LEMMA ThrowChangesNothing ==
  ASSUME TypeOK, Throw(Signals)
  PROVE  UNCHANGED machine
<1> DEFINE S == Signals
<1>1. Running /\ StackFails(S) /\ SetBanks(S) /\ UNCHANGED <<regs, gpi, pc, flag, stack>>
  BY DEF Throw
<1>2. word \in Words
  BY <1>1, Fetched
<1>3. S.push_pc \/ S.pop_pc
  BY <1>1 DEF StackFails
<1>4. ~ S.membank_set /\ ~ S.rombank_set /\ ~ S.push /\ ~ S.store
  BY <1>2, <1>3, ControlSignals, EffectSignals DEF Returning
<1> HIDE DEF S
<1>5. UNCHANGED <<membank, rombank, bak, ram>>
  BY <1>1, <1>4 DEF SetBanks, NextBak
<1> QED  BY <1>1, <1>5 DEF machine

\* An instruction that fails leaves the machine as it was.
THEOREM ThrowsWithoutEffect == Spec => ThrowLeavesMachine
<1>1. TypeOK /\ [Next]_vars => [error' # error => UNCHANGED machine]_vars
  <2> SUFFICES ASSUME TypeOK, Next, error' # error PROVE UNCHANGED machine
    OBVIOUS
  <2>1. CASE Throw(Signals)
    BY <2>1, ThrowChangesNothing
  <2>2. CASE Undefined(Signals) \/ OutOfBounds
    BY <2>2 DEF Undefined, OutOfBounds
  <2> QED  BY <2>1, <2>2 DEF Next, Op, SetGpi, Stopped, vars
<1> QED  BY <1>1, TypeCorrect, PTL DEF Spec, ThrowLeavesMachine

----------------------------------------------------------------------------
\* What the abstract instruction set calls the instruction and its operands.
LEMMA AbstractInstruction ==
  ASSUME word \in Words
  PROVE  /\ Abstract!instr = Mnemonic(word)
         /\ \A p : Takes(word, p) => /\ p \in DOMAIN Abstract!arg
                                     /\ Abstract!arg[p] = Extract(word, Fields[p].bits)
         /\ \A p : ~ Takes(word, p) => p \notin DOMAIN Abstract!arg
         /\ Mnemonic(word) \in Mnemonics
BY DecodedWord, Zenon DEF Abstract!instr, Abstract!arg, CodeAt, word, Takes

\* The operands by their names, as bits of the word.
LEMMA AbstractOperands ==
  ASSUME word \in Words
  PROVE  /\ Abstract!arg.pred = Extract(word, <<10, 10>>)
         /\ Takes(word, "imm") => Abstract!arg.imm = Extract(word, <<5, 2>>)
         /\ Takes(word, "dst") => Abstract!arg.dst = Extract(word, <<9, 8>>)
         /\ Takes(word, "lhs") => Abstract!arg.lhs = Extract(word, <<9, 8>>)
         /\ Takes(word, "dstaddr") => Abstract!arg.dstaddr = Extract(word, <<9, 8>>)
         /\ Takes(word, "src") => Abstract!arg.src = Extract(word, <<5, 4>>)
         /\ Takes(word, "rhs") => Abstract!arg.rhs = Extract(word, <<5, 4>>)
         /\ Takes(word, "deref_src") => Abstract!arg.deref_src = Extract(word, <<6, 6>>)
         /\ Takes(word, "val") => Abstract!arg.val = Extract(word, <<6, 6>>)
         /\ Takes(word, "cmp") => Abstract!arg.cmp = Extract(word, <<7, 6>>)
         /\ Takes(word, "jumpaddr") => Abstract!arg.jumpaddr = Extract(word, <<9, 4>>)
<1> DEFINE A == Abstract!arg
<1>1. \A p : Takes(word, p) => A[p] = Extract(word, Fields[p].bits)
  BY AbstractInstruction
<1>2. Takes(word, "pred")
  BY ParamsByMnemonic
<1> HIDE DEF A
<1>3. A.pred = Extract(word, <<10, 10>>)
  BY <1>1, <1>2, BitsOfFields
<1>4. /\ Takes(word, "imm") => A.imm = Extract(word, <<5, 2>>)
      /\ Takes(word, "dst") => A.dst = Extract(word, <<9, 8>>)
      /\ Takes(word, "lhs") => A.lhs = Extract(word, <<9, 8>>)
      /\ Takes(word, "dstaddr") => A.dstaddr = Extract(word, <<9, 8>>)
  BY <1>1, BitsOfFields
<1>5. /\ Takes(word, "src") => A.src = Extract(word, <<5, 4>>)
      /\ Takes(word, "rhs") => A.rhs = Extract(word, <<5, 4>>)
      /\ Takes(word, "deref_src") => A.deref_src = Extract(word, <<6, 6>>)
  BY <1>1, BitsOfFields
<1>6. /\ Takes(word, "val") => A.val = Extract(word, <<6, 6>>)
      /\ Takes(word, "cmp") => A.cmp = Extract(word, <<7, 6>>)
      /\ Takes(word, "jumpaddr") => A.jumpaddr = Extract(word, <<9, 4>>)
  BY <1>1, BitsOfFields
<1> QED  BY <1>3, <1>4, <1>5, <1>6 DEF A

\* The operands of the emulator are those bits too.
LEMMA OperandBitsAre ==
  /\ Operand("Predication") = Extract(word, <<10, 10>>)
  /\ Operand("RegReadAddr0") = Extract(word, <<9, 8>>)
  /\ Operand("RegWriteAddr") = Extract(word, <<9, 8>>)
  /\ Operand("RegReadAddr1") = Extract(word, <<5, 4>>)
  /\ Operand("Immediate") = Extract(word, <<5, 2>>)
  /\ Operand("TestBitVal") = Extract(word, <<6, 6>>)
  /\ Operand("JumpAddr") = Extract(word, <<9, 4>>)
BY BitsOfSemantics DEF Operand

\* A predicated instruction is taken if the flag is set.
LEMMA TakenMatches ==
  ASSUME word \in Words
  PROVE  Abstract!Taken <=> ~ PredMismatch
BY AbstractOperands, OperandBitsAre DEF Abstract!Taken, PredMismatch

\* The accesses to RAM that the emulator refuses are those that the instruction set does
\* not define, but for those of an instruction that is not taken.
LEMMA UndefinedMatches ==
  ASSUME TypeOK, word \in Words
  PROVE  /\ OutOfRam(Signals) => Abstract!Undefined
         /\ Abstract!Undefined /\ Abstract!Taken => OutOfRam(Signals)
<1>1. Abstract!TouchesRam <=>
        \/ Mnemonic(word) = "store"
        \/ Takes(word, "deref_src") /\ Extract(word, <<6, 6>>) = 1
  BY AbstractInstruction, AbstractOperands DEF Abstract!TouchesRam
<1>2. membank \notin Banks <=> membank > 1
  <2>1. membank \in 0 .. 15
    BY DEF TypeOK, Nibble
  <2> QED  BY <2>1 DEF Banks
<1>3. Signals.deref_src <=> Extract(word, <<6, 6>>) = 1 /\ Takes(word, "deref_src")
  BY SourceSignals
<1>4. Signals.store <=> ~ PredMismatch /\ Mnemonic(word) = "store"
  BY EffectSignals
<1> QED  BY <1>1, <1>2, <1>3, <1>4, TakenMatches DEF Abstract!Undefined, OutOfRam

----------------------------------------------------------------------------
\* The instructions with a right operand, and those that compute one.
WithSource == {"addi", "movi", "subi", "subitnz", "testi", "add", "mov", "sub", "subr",
               "subtnz", "addtnz", "and", "store", "ldgpi", "test", "andtnz", "wait"}

\* The operands of the ALU are the instruction's.
LeftOperand == Left(ReadPort0, Signals.alu_flags)
RightOperand == Right(ReadPort1(Signals), Operand("Immediate"), Signals.alu_flags)

\* Whatever selects it - an immediate, a register, RAM or an input - the right operand
\* of the ALU is the one that the instruction set names.
LEMMA RightIsSource ==
  ASSUME TypeOK, word \in Words, ~ OutOfRam(Signals), Mnemonic(word) \in WithSource
  PROVE  RightOperand = Abstract!Source /\ RightOperand \in Nibble
<1> DEFINE m == Mnemonic(word)
           r == regs[Extract(word, <<5, 4>>)]
           A == Abstract!arg
<1>1. Abstract!instr = m
  BY AbstractInstruction
<1>2. Signals.alu_flags.c_enable <=> Takes(word, "imm")
  BY Operands, AluFlagsRaised DEF Signals
<1>3. /\ ReadPort1(Signals) \in Nibble
      /\ Operand("Immediate") = Extract(word, <<5, 2>>)
      /\ Operand("Immediate") \in Nibble
  BY Ports, Operands, OperandBitsAre
<1>4. RightOperand = (IF Takes(word, "imm") THEN Extract(word, <<5, 2>>)
                                              ELSE ReadPort1(Signals))
  BY <1>2, <1>3 DEF RightOperand, Right
<1>5. RightOperand \in Nibble
  BY <1>3, <1>4
<1>6. Operand("RegReadAddr1") = Extract(word, <<5, 4>>)
  BY OperandBitsAre
<1>7. m # "invflag" => ~ Signals.flag_get
  BY SourceSignals
<1> HIDE DEF m, A
<1>8. CASE m \in {"addi", "movi", "subi", "subitnz", "testi"}
  <2>1. Takes(word, "imm") /\ A.imm = Extract(word, <<5, 2>>)
    BY <1>8, ParamsByMnemonic, AbstractOperands DEF m, A
  <2>2. Abstract!Source = A.imm
    BY <1>1, <1>8 DEF Abstract!Source, A
  <2> QED  BY <1>4, <1>5, <2>1, <2>2
<1>9. CASE m \in {"add", "mov", "sub", "subr", "subtnz", "addtnz"}
  <2>1. /\ ~ Takes(word, "imm") /\ Takes(word, "src") /\ Takes(word, "deref_src")
        /\ A.src = Extract(word, <<5, 4>>) /\ A.deref_src = Extract(word, <<6, 6>>)
    BY <1>9, ParamsByMnemonic, AbstractOperands DEF m, A
  <2>2. Abstract!Source = IF A.deref_src = 1 THEN ram[<<membank, regs[A.src]>>]
                                             ELSE regs[A.src]
    BY <1>1, <1>9 DEF Abstract!Source, A
  <2>3. /\ Signals.deref_src <=> A.deref_src = 1
        /\ ~ Signals.load_gpi /\ ~ Signals.flag_get
    BY <1>9, <2>1, SourceSignals DEF m
  <2>4. ReadPort1(Signals) = IF A.deref_src = 1 THEN ram[<<membank, r>>] ELSE r
    BY <1>6, <2>3 DEF ReadPort1
  <2> QED  BY <1>4, <1>5, <2>1, <2>2, <2>4
<1>10. CASE m \in {"and", "store", "test", "andtnz"}
  <2>1. /\ ~ Takes(word, "imm") /\ ~ Takes(word, "deref_src")
        /\ m \in {"and", "store"} => A.src = Extract(word, <<5, 4>>)
        /\ m \in {"test", "andtnz"} => A.rhs = Extract(word, <<5, 4>>)
    BY <1>10, ParamsByMnemonic, AbstractOperands DEF m, A
  <2>2. Abstract!Source = r
    BY <1>1, <1>10, <2>1 DEF Abstract!Source, A
  <2>3. ~ Signals.deref_src /\ ~ Signals.load_gpi /\ ~ Signals.flag_get
    BY <1>10, <2>1, SourceSignals DEF m
  <2>4. ReadPort1(Signals) = r
    BY <1>6, <2>3 DEF ReadPort1
  <2> QED  BY <1>4, <1>5, <2>1, <2>2, <2>4
<1>11. CASE m \in {"ldgpi", "wait"}
  <2>1. /\ ~ Takes(word, "imm") /\ ~ Takes(word, "deref_src")
        /\ m = "ldgpi" => A.src = Extract(word, <<5, 4>>)
        /\ m = "wait" => A.rhs = Extract(word, <<5, 4>>)
    BY <1>11, ParamsByMnemonic, AbstractOperands DEF m, A
  <2>2. Abstract!Source = gpi[r]
    BY <1>1, <1>11, <2>1 DEF Abstract!Source, A
  <2>3. ~ Signals.deref_src /\ Signals.load_gpi /\ ~ Signals.flag_get
    BY <1>11, <2>1, SourceSignals DEF m
  <2>4. ReadPort1(Signals) = gpi[r]
    BY <1>6, <2>3 DEF ReadPort1
  <2> QED  BY <1>4, <1>5, <2>1, <2>2, <2>4
<1> QED  BY <1>8, <1>9, <1>10, <1>11 DEF WithSource, m

\* Bit for bit the same conjunction.
LEMMA BitwiseIsAndBits ==
  ASSUME NEW x \in Nibble, NEW y \in Nibble
  PROVE  Abstract!Bitwise(x, y) = AndBits(x, y)
<1>1. /\ BitOf(x, 0) = (x \div 1) % 2 /\ BitOf(x, 1) = (x \div 2) % 2
      /\ BitOf(x, 2) = (x \div 4) % 2 /\ BitOf(x, 3) = (x \div 8) % 2
  BY DEF BitOf, Nibble
<1>2. /\ BitOf(y, 0) = (y \div 1) % 2 /\ BitOf(y, 1) = (y \div 2) % 2
      /\ BitOf(y, 2) = (y \div 4) % 2 /\ BitOf(y, 3) = (y \div 8) % 2
  BY DEF BitOf, Nibble
<1>3. PICK a0, a1, a2, a3 \in 0 .. 1 :
        a0 = BitOf(x, 0) /\ a1 = BitOf(x, 1) /\ a2 = BitOf(x, 2) /\ a3 = BitOf(x, 3)
  BY DEF BitOf, Nibble
<1>4. PICK b0, b1, b2, b3 \in 0 .. 1 :
        b0 = BitOf(y, 0) /\ b1 = BitOf(y, 1) /\ b2 = BitOf(y, 2) /\ b3 = BitOf(y, 3)
  BY DEF BitOf, Nibble
<1>5. AndBits(x, y) = a0 * b0 + 2 * a1 * b1 + 4 * a2 * b2 + 8 * a3 * b3
  BY <1>3, <1>4, Zenon DEF AndBits
<1>6. Abstract!Bitwise(x, y) = 1 * a0 * b0 + 2 * a1 * b1 + 4 * a2 * b2 + 8 * a3 * b3
  BY <1>1, <1>2, <1>3, <1>4, Zenon DEF Abstract!Bitwise
<1>7. 1 * a0 * b0 = a0 * b0
  OBVIOUS
<1> QED  BY <1>5, <1>6, <1>7, Zenon

----------------------------------------------------------------------------
Adding == {"addi", "add", "addtnz", "movi", "mov", "ldgpi", "store"}
Subtracting == {"subi", "subitnz", "sub", "subtnz", "testi", "test", "wait"}
Comparing == {"testi", "test", "wait"}

\* What the ALU gets and gives back.
LEMMA AluInputs ==
  ASSUME TypeOK, word \in Words, ~ OutOfRam(Signals)
  PROVE  /\ ReadPort0 \in Nibbles /\ ReadPort1(Signals) \in Nibbles
         /\ Operand("Immediate") \in Nibbles
         /\ AluOut(Signals).zero <=> AluOut(Signals).res = 0
         /\ LeftOperand = IF Mnemonic(word) \in {"movi", "mov", "store", "ldgpi", "retpop",
                                                  "invflag"}
                          THEN 0 ELSE ReadPort0
<1>1. Nibble = Nibbles
  BY DEF Nibble, Nibbles
<1>2. /\ ReadPort0 \in Nibbles /\ ReadPort1(Signals) \in Nibbles
      /\ Operand("Immediate") \in Nibbles
  BY <1>1, Ports, Operands
<1>3. AluOut(Signals).zero <=> AluOut(Signals).res = 0
  BY <1>2, SignalFlags, AluRange DEF AluOut
<1>4. Signals.alu_flags.a_enable <=> ~ Raises(word, "AluZeroLhs")
  BY Operands, AluFlagsRaised DEF Signals
<1>5. LeftOperand = IF Raises(word, "AluZeroLhs") THEN 0 ELSE ReadPort0
  BY <1>4 DEF LeftOperand, Left
<1> QED  BY <1>2, <1>3, <1>5, SemanticsByMnemonic

\* The flags by which the ALU is told what to compute.
LEMMA FlagsByMnemonic ==
  ASSUME word \in Words
  PROVE  LET flags == Signals.alu_flags
             m     == Mnemonic(word)
         IN  /\ flags.b_lut = IF m \in {"not", "shr", "push"} THEN 0
                              ELSE IF m \in Subtracting \cup {"subr"} THEN 1 ELSE 2
             /\ flags.carry_in = IF m \in Subtracting \cup {"invflag"} THEN 1 ELSE 0
             /\ flags.compute_and <=> m \in {"and", "andtnz"}
             /\ flags.not_out <=> m \in {"subr", "not", "invflag"}
             /\ flags.shr <=> m = "shr"
<1> DEFINE flags == Signals.alu_flags
           m     == Mnemonic(word)
<1>1. PredMismatch \in BOOLEAN
  BY Operands
<1>2. flags.b_lut = IF m \in {"not", "shr", "push"} THEN 0
                    ELSE IF m \in Subtracting \cup {"subr"} THEN 1 ELSE 2
  <2>1. flags.b_lut = IF Raises(word, "AluZeroRhs") THEN 0
                      ELSE IF Raises(word, "AluNotRhs") THEN 1 ELSE 2
    BY <1>1, AluFlagsRaised DEF Signals
  <2>2. Raises(word, "AluZeroRhs") <=> m \in {"not", "shr", "push"}
    BY SemanticsByMnemonic
  <2>3. Raises(word, "AluNotRhs") <=> m \in Subtracting \cup {"subr"}
    BY SemanticsByMnemonic DEF Subtracting
  <2> QED  BY <2>1, <2>2, <2>3
<1>3. flags.carry_in = IF m \in Subtracting \cup {"invflag"} THEN 1 ELSE 0
  <2>1. flags.carry_in = IF Raises(word, "AluCarryIn") THEN 1 ELSE 0
    BY <1>1, AluFlagsRaised DEF Signals
  <2>2. Raises(word, "AluCarryIn") <=> m \in Subtracting \cup {"invflag"}
    BY SemanticsByMnemonic DEF Subtracting
  <2> QED  BY <2>1, <2>2
<1>4. flags.compute_and <=> m \in {"and", "andtnz"}
  BY <1>1, AluFlagsRaised, SemanticsByMnemonic DEF Signals
<1>5. flags.not_out <=> m \in {"subr", "not", "invflag"}
  BY <1>1, AluFlagsRaised, SemanticsByMnemonic DEF Signals
<1>6. flags.shr <=> m = "shr"
  BY <1>1, AluFlagsRaised, SemanticsByMnemonic DEF Signals
<1> QED  BY <1>2, <1>3, <1>4, <1>5, <1>6

\* What it computes, by the name of the instruction.
LEMMA Sums ==
  ASSUME TypeOK, word \in Words, ~ OutOfRam(Signals), Mnemonic(word) \in Adding
  PROVE  AluOut(Signals).res = (LeftOperand + RightOperand) % 16
<1> DEFINE flags == Signals.alu_flags
<1>1. flags.b_lut = 2 /\ flags.carry_in = 0
  BY FlagsByMnemonic DEF Adding, Subtracting
<1>2. ~ flags.compute_and /\ ~ flags.not_out /\ ~ flags.shr
  BY FlagsByMnemonic DEF Adding
<1> QED  BY <1>1, <1>2, AluInputs, AluAdds DEF AluOut, LeftOperand, RightOperand

\* The instructions that subtract or compare.
LEMMA Differences ==
  ASSUME TypeOK, word \in Words, ~ OutOfRam(Signals), Mnemonic(word) \in Subtracting
  PROVE  /\ AluOut(Signals).res = (LeftOperand - RightOperand) % 16
         /\ AluOut(Signals).zero <=> LeftOperand = RightOperand
         /\ AluOut(Signals).carry_out = 1 <=> LeftOperand >= RightOperand
<1> DEFINE flags == Signals.alu_flags
<1>1. flags.b_lut = 1 /\ flags.carry_in = 1
  BY FlagsByMnemonic DEF Subtracting
<1>2. ~ flags.compute_and /\ ~ flags.not_out /\ ~ flags.shr
  BY FlagsByMnemonic DEF Subtracting
<1> QED  BY <1>1, <1>2, AluInputs, AluSubtracts DEF AluOut, LeftOperand, RightOperand

\* subr subtracts the other way round.
LEMMA ReversedDifference ==
  ASSUME TypeOK, word \in Words, ~ OutOfRam(Signals), Mnemonic(word) = "subr"
  PROVE  AluOut(Signals).res = (RightOperand - LeftOperand) % 16
<1> DEFINE flags == Signals.alu_flags
<1>1. flags.b_lut = 1 /\ flags.carry_in = 0
  BY FlagsByMnemonic DEF Subtracting
<1>2. ~ flags.compute_and /\ flags.not_out /\ ~ flags.shr
  BY FlagsByMnemonic
<1> QED  BY <1>1, <1>2, AluInputs, AluSubtractsReversed DEF AluOut, LeftOperand, RightOperand

\* The two that take the bits that both operands have.
LEMMA Conjunctions ==
  ASSUME TypeOK, word \in Words, ~ OutOfRam(Signals), Mnemonic(word) \in {"and", "andtnz"}
  PROVE  AluOut(Signals).res = AndBits(LeftOperand, RightOperand)
<1> DEFINE flags == Signals.alu_flags
<1>1. flags.b_lut = 2
  BY FlagsByMnemonic DEF Subtracting
<1>2. flags.compute_and /\ ~ flags.not_out /\ ~ flags.shr
  BY FlagsByMnemonic
<1> QED  BY <1>1, <1>2, AluInputs, AluConjoins DEF AluOut, LeftOperand, RightOperand

\* Those that disable the right operand.
LEMMA UnaryResults ==
  ASSUME TypeOK, word \in Words, ~ OutOfRam(Signals)
  PROVE  /\ Mnemonic(word) = "push" => AluOut(Signals).res = LeftOperand
         /\ Mnemonic(word) = "not" => AluOut(Signals).res = 15 - LeftOperand
         /\ Mnemonic(word) = "shr" => AluOut(Signals).res = LeftOperand \div 2
<1> DEFINE flags == Signals.alu_flags
           m     == Mnemonic(word)
<1> SUFFICES ASSUME m \in {"push", "not", "shr"}
             PROVE  /\ m = "push" => AluOut(Signals).res = LeftOperand
                    /\ m = "not" => AluOut(Signals).res = 15 - LeftOperand
                    /\ m = "shr" => AluOut(Signals).res = LeftOperand \div 2
  OBVIOUS
<1>1. flags.b_lut = 0 /\ flags.carry_in = 0
  BY FlagsByMnemonic DEF Subtracting
<1>2. /\ ~ flags.compute_and
      /\ flags.not_out <=> m = "not"
      /\ flags.shr <=> m = "shr"
  BY FlagsByMnemonic
<1>3. LET res == Alu(ReadPort0, ReadPort1(Signals), Operand("Immediate"), flags).res
          x   == Left(ReadPort0, flags)
      IN  /\ ~ flags.not_out /\ ~ flags.shr => res = x
          /\ flags.not_out /\ ~ flags.shr => res = 15 - x
          /\ ~ flags.not_out /\ flags.shr => res = x \div 2
  BY <1>1, <1>2, AluInputs, AluUnary
<1> QED  BY <1>2, <1>3 DEF AluOut, LeftOperand

\* invflag: the carry out of the inverted sum of 0, the flag and the carry is the
\* negated flag.
LEMMA FlagInverted ==
  ASSUME TypeOK, word \in Words, ~ OutOfRam(Signals), Mnemonic(word) = "invflag"
  PROVE  AluOut(Signals).carry_out = 1 <=> ~ flag
<1> DEFINE flags == Signals.alu_flags
           b     == ReadPort1(Signals)
<1>1. flags.b_lut = 2 /\ flags.carry_in = 1
  BY FlagsByMnemonic DEF Subtracting
<1>2. ~ flags.compute_and /\ flags.not_out /\ ~ flags.shr
  BY FlagsByMnemonic
<1>3. ~ flags.a_enable /\ ~ flags.c_enable
  BY Operands, AluFlagsRaised, SemanticsByMnemonic, ParamsByMnemonic DEF Signals
<1>4. b = IF flag THEN 15 ELSE 0
  BY Ports, SourceSignals
<1> HIDE DEF b
<1>5. b \in {0, 15} /\ (b = 0 <=> ~ flag)
  BY <1>4
<1>6. Alu(ReadPort0, b, Operand("Immediate"), flags).carry_out = 1 <=> b = 0
  BY <1>1, <1>2, <1>3, <1>5, AluInputs, AluInverts
<1> QED  BY <1>5, <1>6 DEF AluOut, b

----------------------------------------------------------------------------
WithResult == Computing \cup Counting \cup {"retpop"}

\* An instruction that writes a register writes what the instruction set says.
LEMMA ResultMatches ==
  ASSUME TypeOK, word \in Words, ~ OutOfRam(Signals), ~ PredMismatch,
         Mnemonic(word) \in WithResult
  PROVE  /\ AluRes(Signals) = Abstract!Result
         /\ Takes(word, "dst") /\ Abstract!arg.dst = Operand("RegWriteAddr")
<1> DEFINE m == Mnemonic(word)
           b == regs[Abstract!arg.dst]
           y == Abstract!Source
           result == AluOut(Signals).res
<1>1. Abstract!instr = m
  BY AbstractInstruction
<1>2. Takes(word, "dst")
  BY ParamsByMnemonic DEF WithResult, Computing, Counting
<1>3. Abstract!arg.dst = Operand("RegWriteAddr") /\ b = ReadPort0 /\ b \in Nibble
  BY <1>2, AbstractOperands, OperandBitsAre, Operands DEF ReadPort0, TypeOK
<1>4. m \notin {"pop", "retpop"} => AluRes(Signals) = result
  BY EffectSignals DEF AluRes
<1>5. m \in WithSource => RightOperand = y /\ y \in Nibble
  BY RightIsSource
<1>6. LeftOperand = IF m \in {"movi", "mov", "store", "ldgpi", "retpop", "invflag"} THEN 0 ELSE b
  BY <1>3, AluInputs
<1>7. /\ m \in Adding => result = (LeftOperand + RightOperand) % 16
      /\ m \in Subtracting => result = (LeftOperand - RightOperand) % 16
      /\ m = "subr" => result = (RightOperand - LeftOperand) % 16
      /\ m \in {"and", "andtnz"} => result = AndBits(LeftOperand, RightOperand)
  BY Sums, Differences, ReversedDifference, Conjunctions
<1>8. /\ m = "not" => result = 15 - LeftOperand
      /\ m = "shr" => result = LeftOperand \div 2
  BY UnaryResults
<1> HIDE DEF m, b, y, result
<1>9. CASE m \in {"addi", "add", "addtnz"}
  <2>1. Abstract!Result = (b + y) % 16
    BY <1>1, <1>9 DEF Abstract!Result, b, y
  <2> QED  BY <1>2, <1>3, <1>4, <1>5, <1>6, <1>7, <1>9, <2>1 DEF Adding, WithSource
<1>10. CASE m \in {"subi", "subitnz", "sub", "subtnz"}
  <2>1. Abstract!Result = (b - y) % 16
    BY <1>1, <1>10 DEF Abstract!Result, b, y
  <2> QED  BY <1>2, <1>3, <1>4, <1>5, <1>6, <1>7, <1>10, <2>1 DEF Subtracting, WithSource
<1>11. CASE m = "subr"
  <2>1. Abstract!Result = (y - b) % 16
    BY <1>1, <1>11 DEF Abstract!Result, b, y
  <2> QED  BY <1>2, <1>3, <1>4, <1>5, <1>6, <1>7, <1>11, <2>1 DEF WithSource
<1>12. CASE m \in {"movi", "mov", "ldgpi"}
  <2>1. Abstract!Result = y
    BY <1>1, <1>12 DEF Abstract!Result, y
  <2>2. y \in 0 .. 15 /\ LeftOperand = 0 /\ RightOperand = y
    BY <1>5, <1>6, <1>12 DEF WithSource, Nibble
  <2>3. (0 + y) % 16 = y
    BY <2>2
  <2> QED  BY <1>2, <1>3, <1>4, <1>7, <1>12, <2>1, <2>2, <2>3 DEF Adding
<1>13. CASE m = "and"
  <2>1. Abstract!Result = Abstract!Bitwise(b, y)
    BY <1>1, <1>13 DEF Abstract!Result, b, y
  <2>2. y \in Nibble /\ LeftOperand = b /\ RightOperand = y
    BY <1>5, <1>6, <1>13 DEF WithSource
  <2>3. Abstract!Bitwise(b, y) = AndBits(b, y)
    BY <1>3, <2>2, BitwiseIsAndBits
  <2> QED  BY <1>2, <1>3, <1>4, <1>7, <1>13, <2>1, <2>2, <2>3
<1>14. CASE m \in {"not", "shr"}
  <2>1. Abstract!Result = IF m = "not" THEN 15 - b ELSE b \div 2
    BY <1>1, <1>14 DEF Abstract!Result, b
  <2> QED  BY <1>2, <1>3, <1>4, <1>6, <1>8, <1>14, <2>1
<1>15. CASE m \in {"pop", "retpop"}
  <2>1. Abstract!Result = bak
    BY <1>1, <1>15 DEF Abstract!Result
  <2>2. AluRes(Signals) = bak
    BY <1>15, EffectSignals DEF AluRes, m
  <2> QED  BY <1>2, <1>3, <2>1, <2>2
<1> QED  BY <1>9, <1>10, <1>11, <1>12, <1>13, <1>14, <1>15
         DEF WithResult, Computing, Counting, m

\* An instruction that sets the flag sets it as the instruction set says.
LEMMA CountMatches ==
  ASSUME TypeOK, word \in Words, ~ OutOfRam(Signals), ~ PredMismatch,
         Mnemonic(word) \in Counting
  PROVE  Compared(Signals) = (Abstract!Result # 0)
<1>1. Signals.cmp = 2
  BY SourceSignals, SemanticsByMnemonic DEF Counting
<1>2. AluOut(Signals).res = Abstract!Result
  <2>1. AluRes(Signals) = Abstract!Result
    BY ResultMatches DEF WithResult
  <2>2. AluRes(Signals) = AluOut(Signals).res
    BY EffectSignals DEF AluRes, Counting
  <2> QED  BY <2>1, <2>2
<1>3. Compared(Signals) = (AluOut(Signals).zero <=> FALSE)
  BY <1>1 DEF Compared
<1>4. AluOut(Signals).zero <=> AluOut(Signals).res = 0
  BY AluInputs
<1> QED  BY <1>2, <1>3, <1>4

TestOutcome ==
  CASE Abstract!instr = "andtnz"  -> Abstract!Bitwise(regs[Abstract!arg.lhs], Abstract!Source) # 0
    [] Abstract!instr = "invflag" -> ~ flag
    [] OTHER                      -> Abstract!Comparison

\* A test compares, or takes the conjunction, or inverts the flag.
LEMMA TestMatches ==
  ASSUME TypeOK, word \in Words, ~ OutOfRam(Signals), ~ PredMismatch,
         Mnemonic(word) \in Testing
  PROVE  Compared(Signals) = TestOutcome
<1> DEFINE m == Mnemonic(word)
           a == regs[Abstract!arg.lhs]
           y == Abstract!Source
<1>1. Abstract!instr = m
  BY AbstractInstruction
<1>2. AluOut(Signals).zero <=> AluOut(Signals).res = 0
  BY AluInputs
<1>3. CASE m = "andtnz"
  <2>1. Signals.cmp = 2
    BY <1>3, SourceSignals, SemanticsByMnemonic
  <2>2. LeftOperand = a /\ a \in Nibble
    BY <1>3, AluInputs, AbstractOperands, ParamsByMnemonic, OperandBitsAre, Operands
       DEF ReadPort0, TypeOK
  <2>3. RightOperand = y /\ y \in Nibble
    BY <1>3, RightIsSource DEF WithSource
  <2>4. AluOut(Signals).res = Abstract!Bitwise(a, y)
    BY <1>3, <2>2, <2>3, Conjunctions, BitwiseIsAndBits
  <2>5. Compared(Signals) = (AluOut(Signals).zero <=> FALSE)
    BY <2>1 DEF Compared
  <2>6. TestOutcome = (Abstract!Bitwise(a, y) # 0)
    BY <1>1, <1>3 DEF TestOutcome
  <2> QED  BY <1>2, <2>4, <2>5, <2>6
<1>4. CASE m = "invflag"
  <2>1. Signals.cmp = 3
    BY <1>4, SourceSignals, SemanticsByMnemonic, FixedOperands
  <2>2. Compared(Signals) = (AluOut(Signals).carry_out = 1 <=> TRUE)
    BY <2>1 DEF Compared
  <2>3. TestOutcome = ~ flag
    BY <1>1, <1>4 DEF TestOutcome
  <2>4. AluOut(Signals).carry_out = 1 <=> ~ flag
    BY <1>4, FlagInverted
  <2> QED  BY <2>2, <2>3, <2>4
<1>5. CASE m \in {"testi", "test"}
  <2>1. Signals.cmp = Abstract!arg.cmp /\ Abstract!arg.cmp \in 0 .. 3
    BY <1>5, SourceSignals, SemanticsByMnemonic, ParamsByMnemonic, AbstractOperands, ExtractRange
  <2>2. LeftOperand = a /\ a \in Nibble
    BY <1>5, AluInputs, AbstractOperands, ParamsByMnemonic, OperandBitsAre, Operands
       DEF ReadPort0, TypeOK
  <2>3. RightOperand = y /\ y \in Nibble
    BY <1>5, RightIsSource DEF WithSource
  <2>4. /\ AluOut(Signals).zero <=> a = y
        /\ AluOut(Signals).carry_out = 1 <=> a >= y
    BY <1>5, <2>2, <2>3, Differences DEF Subtracting
  <2>5. TestOutcome = Abstract!Comparison
    BY <1>1, <1>5 DEF TestOutcome
  <2>6. PICK c \in 0 .. 3 : c = Abstract!arg.cmp
    BY <2>1
  <2>7. Abstract!Comparison = CASE c = 0 -> a = y [] c = 1 -> a < y
                                [] c = 2 -> a # y [] c = 3 -> a >= y
    BY <2>6 DEF Abstract!Comparison
  <2>8. Compared(Signals) = IF c \in {0, 2} THEN (a = y <=> c = 0) ELSE (a >= y <=> c = 3)
    BY <2>1, <2>4, <2>6 DEF Compared
  <2>9. (a < y) <=> ~ (a >= y)
    BY <2>2, <2>3 DEF Nibble
  <2> QED  BY <2>5, <2>7, <2>8, <2>9
<1> QED  BY <1>3, <1>4, <1>5 DEF Testing

----------------------------------------------------------------------------
\* An instruction that runs has been fetched, and is defined.
LEMMA OpRuns ==
  ASSUME TypeOK, Op(Signals)
  PROVE  /\ word \in Words /\ ~ OutOfRam(Signals) /\ ~ StackFails(Signals)
         /\ SetBanks(Signals) /\ Proceed(Signals)
         /\ UNCHANGED <<program, gpi, error>>
         /\ Abstract!Fetches
         /\ Abstract!instr = Mnemonic(word)
BY Fetched, AbstractInstruction DEF Op, Running, Abstract!Fetches

\* If its predicate matches it is executed.
LEMMA OpExecutes ==
  ASSUME TypeOK, Op(Signals), ~ PredMismatch, NEW ops, Mnemonic(word) \in ops
  PROVE  Abstract!Executes(ops)
BY OpRuns, TakenMatches, UndefinedMatches DEF Abstract!Executes

\* What an instruction does not name it leaves as it is.
LEMMA Untouched ==
  ASSUME TypeOK, Op(Signals)
  PROVE  LET acts(ops) == ~ PredMismatch /\ Mnemonic(word) \in ops
         IN  /\ ~ acts({"membank"}) => membank' = membank
             /\ ~ acts({"rombank"}) => rombank' = rombank
             /\ ~ acts({"push"}) => bak' = bak
             /\ ~ acts({"store"}) => ram' = ram
             /\ ~ acts(WithResult) => regs' = regs
             /\ ~ acts(Counting \cup Testing) => flag' = flag
             /\ ~ acts({"call", "call3", "ret", "retpop"}) => stack' = stack
<1> DEFINE acts(ops) == ~ PredMismatch /\ Mnemonic(word) \in ops
           S == Signals
<1>1. word \in Words /\ SetBanks(S) /\ Proceed(S)
  BY OpRuns
<1>2. /\ S.membank_set <=> acts({"membank"})
      /\ S.rombank_set <=> acts({"rombank"})
      /\ S.push <=> acts({"push"})
      /\ S.store <=> acts({"store"})
  BY <1>1, EffectSignals
<1>3. S.flag_set <=> acts(Counting \cup Testing)
  BY <1>1, EffectSignals
<1>4. S.write_enable <=> acts(WithResult)
  <2>1. Takes(word, "dst") <=> Mnemonic(word) \in WithResult
    BY <1>1, ParamsByMnemonic DEF WithResult, Computing, Counting
  <2> QED  BY <1>1, <2>1, EffectSignals
<1>5. S.push_pc \/ S.pop_pc <=> acts({"call", "call3", "ret", "retpop"})
  BY <1>1, ControlSignals DEF Returning
<1>6. Operand("RegWriteAddr") = Operand("RegReadAddr0")
  BY <1>1, Operands
<1>7. regs \in [0 .. 3 -> Nibble]
  BY DEF TypeOK
<1> HIDE DEF acts, S
<1>8. /\ ~ acts({"membank"}) => membank' = membank
      /\ ~ acts({"rombank"}) => rombank' = rombank
      /\ ~ acts({"push"}) => bak' = bak
      /\ ~ acts({"store"}) => ram' = ram
  BY <1>1, <1>2 DEF SetBanks, NextBak
<1>9. ~ acts(WithResult) => regs' = regs
  BY <1>1, <1>4, <1>6, <1>7 DEF Proceed, ReadPort0
<1>10. ~ acts(Counting \cup Testing) => flag' = flag
  BY <1>1, <1>3 DEF Proceed
<1>11. ~ acts({"call", "call3", "ret", "retpop"}) => stack' = stack
  BY <1>1, <1>5 DEF Proceed, NextStack
<1> QED  BY <1>8, <1>9, <1>10, <1>11 DEF acts

\* Unless it waits, jumps or returns, it goes on to the next address.
LEMMA PcAdvances ==
  ASSUME TypeOK, Op(Signals),
         PredMismatch \/ Mnemonic(word) \notin Jumping \cup Returning \cup {"wait"}
  PROVE  Abstract!Advance
<1> DEFINE S == Signals
<1>1. word \in Words /\ Proceed(S) /\ ~ OutOfRam(S)
  BY OpRuns
<1>2. S.no_jump /\ ~ S.pop_pc /\ (PredMismatch \/ ~ S.wait)
  BY <1>1, ControlSignals
<1>3. ReadPort1(S) \in Nibble
  BY <1>1, Ports
<1>4. rombank' \in Nibble /\ pc \in Addresses
  BY OpTyped DEF TypeOK
<1>5. NextPc(S, pc, rombank') = IF PredMismatch \/ Proceeds(S) THEN (pc + 1) % 1024 ELSE pc
  BY <1>1, <1>2, <1>3, <1>4, NextPcSteps
<1>6. PredMismatch \/ Proceeds(S)
  BY <1>2 DEF Proceeds
<1>7. pc' = NextPc(S, pc, rombank')
  BY <1>1, <1>2 DEF Proceed
<1> QED  BY <1>5, <1>6, <1>7 DEF Abstract!Advance, Abstract!After

\* An instruction whose predicate does not match is skipped.
LEMMA SkipStep ==
  ASSUME TypeOK, Op(Signals), PredMismatch
  PROVE  Abstract!Skip
BY OpRuns, Untouched, PcAdvances, TakenMatches DEF Abstract!Skip

\* The arithmetic instructions.
LEMMA ComputeStep ==
  ASSUME TypeOK, Op(Signals), ~ PredMismatch, Mnemonic(word) \in Computing
  PROVE  Abstract!Compute
<1>1. Abstract!Executes(Computing)
  BY OpExecutes
<1>2. regs' = [regs EXCEPT ![Abstract!arg.dst] = Abstract!Result]
  BY OpRuns, ResultMatches, EffectSignals DEF WithResult, Proceed
<1>3. Abstract!Advance
  BY PcAdvances DEF Computing, Jumping, Returning
<1>4. UNCHANGED <<program, gpi, ram, bak, flag, stack, membank, rombank, error>>
  BY OpRuns, Untouched DEF Computing, Counting, Testing
<1> QED  BY <1>1, <1>2, <1>3, <1>4 DEF Abstract!Compute, Computing

\* Those that set the flag too.
LEMMA ComputeAndTestStep ==
  ASSUME TypeOK, Op(Signals), ~ PredMismatch, Mnemonic(word) \in Counting
  PROVE  Abstract!ComputeAndTest
<1>1. Abstract!Executes(Counting)
  BY OpExecutes
<1>2. regs' = [regs EXCEPT ![Abstract!arg.dst] = Abstract!Result]
  BY OpRuns, ResultMatches, EffectSignals DEF WithResult, Proceed
<1>3. flag' = (Abstract!Result # 0)
  BY OpRuns, CountMatches, EffectSignals DEF Proceed
<1>4. Abstract!Advance
  BY PcAdvances DEF Counting, Jumping, Returning
<1>5. UNCHANGED <<program, gpi, ram, bak, stack, membank, rombank, error>>
  BY OpRuns, Untouched DEF Counting
<1> QED  BY <1>1, <1>2, <1>3, <1>4, <1>5 DEF Abstract!ComputeAndTest, Counting

\* Those that set only the flag.
LEMMA TestStep ==
  ASSUME TypeOK, Op(Signals), ~ PredMismatch, Mnemonic(word) \in Testing
  PROVE  Abstract!Test
<1>1. Abstract!Executes(Testing)
  BY OpExecutes
<1>2. flag' = TestOutcome
  BY OpRuns, TestMatches, EffectSignals DEF Proceed
<1>3. Abstract!Advance
  BY PcAdvances DEF Testing, Jumping, Returning
<1>4. UNCHANGED <<program, regs, gpi, ram, bak, stack, membank, rombank, error>>
  BY OpRuns, Untouched DEF Testing, WithResult, Computing, Counting
<1> QED  BY <1>1, <1>2, <1>3, <1>4 DEF Abstract!Test, Testing, TestOutcome

\* The instructions that move a value to RAM, to bak or to a bank.
LEMMA MoveStep ==
  ASSUME TypeOK, Op(Signals), ~ PredMismatch,
         Mnemonic(word) \in {"store", "push", "membank", "rombank"}
  PROVE  Abstract!Store \/ Abstract!Push \/ Abstract!MemBank \/ Abstract!RomBank
<1> DEFINE m == Mnemonic(word)
<1>1. word \in Words /\ SetBanks(Signals) /\ ~ OutOfRam(Signals)
  BY OpRuns
<1>2. Abstract!Advance
  BY PcAdvances DEF Jumping, Returning
<1>3. UNCHANGED <<program, regs, gpi, flag, stack, error>>
  BY OpRuns, Untouched DEF Testing, WithResult, Computing, Counting
<1>4. m # "store" => /\ ReadPort0 = regs[Abstract!arg.lhs]
                     /\ LeftOperand = ReadPort0
  BY <1>1, AbstractOperands, ParamsByMnemonic, OperandBitsAre, AluInputs DEF ReadPort0
<1>5. CASE m = "store"
  <2>1. ReadPort0 = regs[Abstract!arg.dstaddr]
    BY <1>1, <1>5, AbstractOperands, ParamsByMnemonic, OperandBitsAre DEF ReadPort0
  <2>2. UNCHANGED <<membank, rombank, bak>>
    BY <1>5, Untouched
  <2>3. AluRes(Signals) = Abstract!Source
    <3>1. AluRes(Signals) = AluOut(Signals).res
      BY <1>1, <1>5, EffectSignals DEF AluRes
    <3>2. AluOut(Signals).res = (LeftOperand + RightOperand) % 16 /\ LeftOperand = 0
      BY <1>1, <1>5, Sums, AluInputs DEF Adding
    <3>3. RightOperand = Abstract!Source /\ RightOperand \in 0 .. 15
      BY <1>1, <1>5, RightIsSource DEF WithSource, Nibble
    <3> QED  BY <3>1, <3>2, <3>3
  <2>4. ram' = [ram EXCEPT ![<<membank, regs[Abstract!arg.dstaddr]>>] = Abstract!Source]
    BY <1>1, <1>5, <2>1, <2>2, <2>3, EffectSignals DEF SetBanks
  <2> QED  BY <1>2, <1>3, <1>5, <2>2, <2>4, OpExecutes DEF Abstract!Store
<1>6. CASE m = "push"
  <2>1. bak' = regs[Abstract!arg.lhs]
    BY <1>1, <1>4, <1>6, UnaryResults, EffectSignals DEF SetBanks, NextBak
  <2>2. UNCHANGED <<membank, rombank, ram>>
    BY <1>6, Untouched
  <2> QED  BY <1>2, <1>3, <1>6, <2>1, <2>2, OpExecutes DEF Abstract!Push
<1>7. CASE m = "membank"
  <2>1. membank' = regs[Abstract!arg.lhs]
    BY <1>1, <1>4, <1>7, EffectSignals DEF SetBanks
  <2>2. UNCHANGED <<rombank, bak, ram>>
    BY <1>7, Untouched
  <2> QED  BY <1>2, <1>3, <1>7, <2>1, <2>2, OpExecutes DEF Abstract!MemBank
<1>8. CASE m = "rombank"
  <2>1. rombank' = regs[Abstract!arg.lhs]
    BY <1>1, <1>4, <1>8, EffectSignals DEF SetBanks
  <2>2. UNCHANGED <<membank, bak, ram>>
    BY <1>8, Untouched
  <2> QED  BY <1>2, <1>3, <1>8, <2>1, <2>2, OpExecutes DEF Abstract!RomBank
<1> QED  BY <1>5, <1>6, <1>7, <1>8

----------------------------------------------------------------------------
\* A jump or a call goes to the target that the instruction names.
LEMMA JumpsToTarget ==
  ASSUME TypeOK, Op(Signals), ~ PredMismatch, Mnemonic(word) \in Jumping
  PROVE  pc' = Abstract!Target
<1> DEFINE S == Signals
           m == Mnemonic(word)
<1>1. word \in Words /\ Proceed(S) /\ ~ OutOfRam(S) /\ Abstract!instr = m
  BY OpRuns
<1>2. ~ S.no_jump /\ ~ S.pop_pc /\ (S.indirect <=> m \in {"jump3", "call3"})
  BY <1>1, ControlSignals DEF Jumping, Returning
<1>3. ReadPort1(S) \in Nibble
  BY <1>1, Ports
<1>4. rombank' = rombank /\ rombank \in Nibble /\ pc \in Addresses
  BY Untouched DEF Jumping, TypeOK
<1>5. NextPc(S, pc, rombank') =
        64 * rombank + IF S.indirect THEN 4 * ReadPort1(S) ELSE Operand("JumpAddr")
  BY <1>1, <1>2, <1>3, <1>4, NextPcJumps
<1>6. pc' = NextPc(S, pc, rombank')
  BY <1>1, <1>2 DEF Proceed
<1>7. m \in {"jump3", "call3"} => ReadPort1(S) = regs[3]
  <2>1. SUFFICES ASSUME m \in {"jump3", "call3"} PROVE ReadPort1(S) = regs[3]
    OBVIOUS
  <2>2. Operand("RegReadAddr1") = 3
    BY <1>1, <2>1, FixedOperands, OperandBitsAre
  <2>3. ~ S.deref_src /\ ~ S.load_gpi /\ ~ S.flag_get
    BY <1>1, <2>1, SourceSignals, ParamsByMnemonic
  <2> QED  BY <2>2, <2>3 DEF ReadPort1
<1>8. m \notin {"jump3", "call3"} => Operand("JumpAddr") = Abstract!arg.jumpaddr
  BY <1>1, AbstractOperands, ParamsByMnemonic, OperandBitsAre DEF Jumping
<1> QED  BY <1>1, <1>2, <1>5, <1>6, <1>7, <1>8 DEF Abstract!Target

\* A jump changes the PC alone.
LEMMA JumpStep ==
  ASSUME TypeOK, Op(Signals), ~ PredMismatch, Mnemonic(word) \in {"jump", "jump3"}
  PROVE  Abstract!Jump
<1>1. Abstract!Executes({"jump", "jump3"})
  BY OpExecutes
<1>2. pc' = Abstract!Target
  BY JumpsToTarget DEF Jumping
<1>3. UNCHANGED <<program, regs, gpi, ram, bak, flag, stack, membank, rombank, error>>
  BY OpRuns, Untouched DEF Testing, WithResult, Computing, Counting
<1> QED  BY <1>1, <1>2, <1>3 DEF Abstract!Jump

\* A call finds room on the stack and leaves its own address there.
LEMMA CallStep ==
  ASSUME TypeOK, Op(Signals), ~ PredMismatch, Mnemonic(word) \in {"call", "call3"}
  PROVE  Abstract!Call
<1>1. Abstract!Executes({"call", "call3"})
  BY OpExecutes
<1>2. pc' = Abstract!Target
  BY JumpsToTarget DEF Jumping
<1>3. UNCHANGED <<program, regs, gpi, ram, bak, flag, membank, rombank, error>>
  BY OpRuns, Untouched DEF Testing, WithResult, Computing, Counting
<1>4. Signals.push_pc /\ ~ Signals.pop_pc
  BY OpRuns, ControlSignals DEF Returning
<1>5. Len(stack) < 4
  <2>1. Len(stack) \in Nat
    <3>1. stack \in Seq(Addresses)
      BY DEF TypeOK
    <3> QED  BY <3>1
  <2> QED  BY <1>4, <2>1, OpRuns DEF StackFails, StackLimit
<1>6. stack' = Append(stack, pc)
  BY <1>4, OpRuns DEF Proceed, NextStack
<1> QED  BY <1>1, <1>2, <1>3, <1>5, <1>6 DEF Abstract!Call

\* A return goes to the address after the one on top of the stack.
LEMMA ReturnStep ==
  ASSUME TypeOK, Op(Signals), ~ PredMismatch, Mnemonic(word) \in Returning
  PROVE  Abstract!Return
<1> DEFINE S == Signals
           m == Mnemonic(word)
<1>1. word \in Words /\ Proceed(S) /\ ~ OutOfRam(S) /\ ~ StackFails(S) /\ Abstract!instr = m
  BY OpRuns
<1>2. Abstract!Executes({"ret", "retpop"})
  BY OpExecutes DEF Returning
<1>3. S.no_jump /\ S.pop_pc /\ ~ S.push_pc /\ ~ S.wait
  BY <1>1, ControlSignals DEF Returning, Jumping
<1>4. stack # << >> /\ stack' = SubSeq(stack, 1, Len(stack) - 1)
  BY <1>1, <1>3 DEF StackFails, Proceed, NextStack
<1>5. stack[Len(stack)] \in Addresses
  BY <1>4, Popped DEF TypeOK
<1>6. pc' = Abstract!After(stack[Len(stack)])
  <2>1. ReadPort1(S) \in Nibble /\ rombank' \in Nibble
    BY <1>1, Ports, OpTyped DEF TypeOK
  <2>2. Proceeds(S)
    BY <1>3 DEF Proceeds
  <2>3. NextPc(S, stack[Len(stack)], rombank') = (stack[Len(stack)] + 1) % 1024
    BY <1>1, <1>3, <1>5, <2>1, <2>2, NextPcSteps
  <2> QED  BY <1>1, <1>3, <2>3 DEF Proceed, Abstract!After
<1>7. regs' = IF Abstract!instr = "retpop"
              THEN [regs EXCEPT ![Abstract!arg.dst] = Abstract!Result] ELSE regs
  <2>1. CASE m = "retpop"
    BY <1>1, <2>1, ResultMatches, EffectSignals DEF WithResult, Proceed
  <2>2. CASE m # "retpop"
    BY <1>1, <2>2, Untouched DEF WithResult, Computing, Counting, Returning
  <2> QED  BY <1>1, <2>1, <2>2
<1>8. UNCHANGED <<program, gpi, ram, bak, flag, membank, rombank, error>>
  BY OpRuns, Untouched DEF Testing, Counting, Returning
<1> QED  BY <1>2, <1>4, <1>6, <1>7, <1>8 DEF Abstract!Return

\* A wait goes on when the input compares with the register as it wants.
LEMMA WaitStep ==
  ASSUME TypeOK, Op(Signals), ~ PredMismatch, Mnemonic(word) = "wait"
  PROVE  Abstract!Wait
<1> DEFINE S == Signals
           a == regs[Abstract!arg.lhs]
<1>1. word \in Words /\ Proceed(S) /\ ~ OutOfRam(S)
  BY OpRuns
<1>2. Abstract!Executes({"wait"})
  BY OpExecutes
<1>3. S.no_jump /\ ~ S.pop_pc /\ S.wait
  BY <1>1, ControlSignals DEF Returning, Jumping
<1>4. LeftOperand = a /\ RightOperand = Abstract!Source /\ Operand("TestBitVal") = Abstract!arg.val
  BY <1>1, AluInputs, RightIsSource, AbstractOperands, ParamsByMnemonic, OperandBitsAre
     DEF ReadPort0, WithSource
<1>5. Proceeds(S) <=> ((Abstract!Source = a) <=> (Abstract!arg.val = 1))
  <2>1. AluOut(S).zero <=> LeftOperand = RightOperand
    BY <1>1, Differences DEF Subtracting
  <2>2. Proceeds(S) <=> (AluOut(S).zero <=> Operand("TestBitVal") = 1)
    BY <1>3 DEF Proceeds
  <2> QED  BY <1>4, <2>1, <2>2
<1>6. pc' = IF Proceeds(S) THEN Abstract!After(pc) ELSE pc
  <2>1. ReadPort1(S) \in Nibble /\ rombank' \in Nibble /\ pc \in Addresses
    BY <1>1, Ports, OpTyped DEF TypeOK
  <2>2. NextPc(S, pc, rombank') = IF PredMismatch \/ Proceeds(S) THEN (pc + 1) % 1024 ELSE pc
    BY <1>1, <1>3, <2>1, NextPcSteps
  <2> QED  BY <1>1, <1>3, <2>2 DEF Proceed, Abstract!After
<1>7. UNCHANGED <<program, regs, gpi, ram, bak, flag, stack, membank, rombank, error>>
  BY OpRuns, Untouched DEF Testing, WithResult, Computing, Counting
<1> QED  BY <1>2, <1>5, <1>6, <1>7 DEF Abstract!Wait

\* So an instruction that runs does what the instruction set says.
LEMMA OpStep ==
  ASSUME TypeOK, Op(Signals)
  PROVE  Abstract!Next
<1> DEFINE m == Mnemonic(word)
<1>1. CASE PredMismatch
  BY <1>1, SkipStep DEF Abstract!Next
<1>2. CASE ~ PredMismatch
  <2>1. m \in Mnemonics
    BY OpRuns, AbstractInstruction
  <2>2. CASE m \in Computing
    BY <1>2, <2>2, ComputeStep DEF Abstract!Next
  <2>3. CASE m \in Counting
    BY <1>2, <2>3, ComputeAndTestStep DEF Abstract!Next
  <2>4. CASE m \in Testing
    BY <1>2, <2>4, TestStep DEF Abstract!Next
  <2>5. CASE m \in {"jump", "jump3"}
    BY <1>2, <2>5, JumpStep DEF Abstract!Next
  <2>6. CASE m \in {"call", "call3"}
    BY <1>2, <2>6, CallStep DEF Abstract!Next
  <2>7. CASE m \in Returning
    BY <1>2, <2>7, ReturnStep DEF Abstract!Next
  <2>8. CASE m = "wait"
    BY <1>2, <2>8, WaitStep DEF Abstract!Next
  <2>9. CASE m \in {"store", "push", "membank", "rombank"}
    BY <1>2, <2>9, MoveStep DEF Abstract!Next
  <2> QED  BY <2>1, <2>2, <2>3, <2>4, <2>5, <2>6, <2>7, <2>8, <2>9 DEF Mnemonics, Jumping
<1> QED  BY <1>1, <1>2

\* One that throws does so where the instruction set says, with the machine as it was.
LEMMA ThrowStep ==
  ASSUME TypeOK, Throw(Signals)
  PROVE  Abstract!Next
<1> DEFINE S == Signals
<1>1. /\ Running /\ ~ OutOfRam(S) /\ StackFails(S) /\ program' = program
      /\ error' = IF S.push_pc THEN "overflow" ELSE "underflow"
  BY DEF Throw
<1>2. word \in Words
  BY <1>1, Fetched
<1>3. UNCHANGED machine
  BY ThrowChangesNothing
<1>4. ASSUME ~ PredMismatch, NEW ops, Mnemonic(word) \in ops
      PROVE  Abstract!Executes(ops)
  BY <1>1, <1>2, <1>4, AbstractInstruction, TakenMatches, UndefinedMatches
     DEF Abstract!Executes, Abstract!Fetches, Running
<1>5. CASE S.push_pc
  <2>1. ~ PredMismatch /\ Mnemonic(word) \in {"call", "call3"} /\ ~ S.pop_pc
    BY <1>2, <1>5, ControlSignals DEF Returning
  <2>2. Len(stack) >= 4
    BY <1>1, <2>1 DEF StackFails, StackLimit
  <2>3. Abstract!Executes({"call", "call3"})
    BY <1>4, <2>1
  <2>4. Abstract!Reason("overflow")
    BY <2>2, <2>3 DEF Abstract!Reason
  <2>5. Abstract!Fault("overflow")
    BY <1>1, <1>3, <1>5, <2>4 DEF Abstract!Fault, machine
  <2> QED  BY <2>5 DEF Abstract!Next
<1>6. CASE ~ S.push_pc
  <2>1. S.pop_pc /\ stack = << >>
    BY <1>1, <1>6 DEF StackFails
  <2>2. ~ PredMismatch /\ Mnemonic(word) \in {"ret", "retpop"}
    BY <1>2, <2>1, ControlSignals DEF Returning
  <2>3. Abstract!Executes({"ret", "retpop"})
    BY <1>4, <2>2
  <2>4. Abstract!Reason("underflow")
    BY <2>1, <2>3 DEF Abstract!Reason
  <2>5. Abstract!Fault("underflow")
    BY <1>1, <1>3, <1>6, <2>4 DEF Abstract!Fault, machine
  <2> QED  BY <2>5 DEF Abstract!Next
<1> QED  BY <1>5, <1>6

\* The emulator implements the instruction set: every step is one of it, or changes
\* nothing.
THEOREM EmulatorImplementsIsa == Spec => ImplementsIsa
<1>1. Init => Abstract!Init
  BY DEF Init, Abstract!Init
<1>2. TypeOK /\ [Next]_vars => [Abstract!Next]_(Abstract!vars)
  <2> SUFFICES ASSUME TypeOK, [Next]_vars PROVE Abstract!Next \/ UNCHANGED Abstract!vars
    OBVIOUS
  <2>1. CASE Op(Signals)
    BY <2>1, OpStep
  <2>2. CASE Throw(Signals)
    BY <2>2, ThrowStep
  <2>3. CASE Undefined(Signals)
    <3>1. word \in Words /\ Abstract!Fetches
      BY <2>3, Fetched DEF Undefined, Running, Abstract!Fetches
    <3>2. Abstract!Reason("undefined")
      BY <2>3, <3>1, UndefinedMatches DEF Undefined, Abstract!Reason
    <3>3. Abstract!Fault("undefined")
      BY <2>3, <3>2 DEF Undefined, Abstract!Fault, machine
    <3> QED  BY <3>3 DEF Abstract!Next
  <2>4. CASE OutOfBounds
    <3>1. Abstract!Reason("out of bounds")
      BY <2>4 DEF OutOfBounds, Abstract!Reason
    <3>2. Abstract!Fault("out of bounds")
      BY <2>4, <3>1 DEF OutOfBounds, Abstract!Fault, machine
    <3> QED  BY <3>2 DEF Abstract!Next
  <2>5. CASE \E port \in GpiPorts, value \in GpiValues(program) : SetGpi(port, value)
    <3>1. PICK port \in GpiPorts, value \in GpiValues(program) : SetGpi(port, value)
      BY <2>5
    <3>2. port \in 0 .. 15 /\ value \in 0 .. 15
      BY EmulatorAssumption DEF TypeOK, Nibble
    <3>3. gpi' = [gpi EXCEPT ![port] = gpi'[port]] /\ gpi'[port] \in 0 .. 15
      BY <3>1, <3>2 DEF SetGpi, TypeOK, Nibble
    <3> QED  BY <3>1, <3>2, <3>3 DEF SetGpi, Abstract!Input, Abstract!Next
  <2>6. CASE UNCHANGED vars
    BY <2>6 DEF vars, machine, Abstract!vars
  <2> QED  BY <2>1, <2>2, <2>3, <2>4, <2>5, <2>6 DEF Next, Stopped
<1> QED  BY <1>1, <1>2, TypeCorrect, PTL DEF Spec, ImplementsIsa, Abstract!Spec

=============================================================================
