------------------------------- MODULE Datapath -------------------------------
(****************************************************************************)
(* The combinational parts of the CPU as their specifications compute them: *)
(* Alu<bw>::spec (cpu/alu.h) and Decoder::spec (cpu/decoder.h).             *)
(****************************************************************************)
EXTENDS Isa

AndBits(x, y) ==
  BitOf(x, 0) * BitOf(y, 0) + 2 * BitOf(x, 1) * BitOf(y, 1)
    + 4 * BitOf(x, 2) * BitOf(y, 2) + 8 * BitOf(x, 3) * BitOf(y, 3)

\* Alu<4>::spec.  The operands that the flags let through, and what they make of the
\* right one.
Left(a, flags) == IF flags.a_enable THEN a ELSE 0
Right(b, c, flags) == IF flags.c_enable THEN c ELSE b
LutOut(y, flags) ==
  CASE flags.b_lut = 0 -> 0
    [] flags.b_lut = 1 -> 15 - y
    [] flags.b_lut = 2 -> y
    [] flags.b_lut = 3 -> 15

\* The sum has a fifth bit, the carry; not_out inverts it too, and shr shifts it in.
Summed(x, y, flags) ==
  IF flags.compute_and THEN AndBits(x, y) ELSE x + y + flags.carry_in
Shaped(sum, flags) ==
  LET out == IF flags.not_out THEN 31 - sum ELSE sum
  IN  IF flags.shr THEN out \div 2 ELSE out

Computed(a, b, c, flags) ==
  Shaped(Summed(Left(a, flags), LutOut(Right(b, c, flags), flags), flags), flags)
Alu(a, b, c, flags) ==
  LET res == Computed(a, b, c, flags)
  IN  [res |-> res % 16, carry_out |-> res \div 16, zero |-> res % 16 = 0]

\* Decoder::spec: the last instruction that fits, and the signals it raises.  Those
\* that change the machine are held back if the predicate does not match.
SignalsOf(word, pred_mismatch) ==
  LET instr == Instructions[Latest(Candidates[word])]
      Is(semantics)  == semantics \in instr.semantics
      Has(semantics) == \E p \in instr.params : semantics \in Fields[p].semantics
      Acts(semantics) == ~ pred_mismatch /\ Is(semantics)
  IN  [ write_enable |-> ~ pred_mismatch /\ Has("RegWriteAddr"),
        cmp          |-> IF Is("CmpNz") THEN 2 ELSE Extract(word, FieldBits["AluCmp"]),
        no_jump      |-> pred_mismatch \/ ~ Is("Jump"),
        indirect     |-> Is("Indirect"),
        membank_set  |-> Acts("MemBankSet"),
        rombank_set  |-> Acts("RomBankSet"),
        pop          |-> Acts("PopReg"),
        push         |-> Acts("PushReg"),
        store        |-> Acts("StMem"),
        pop_pc       |-> Acts("PopPc"),
        push_pc      |-> Acts("PushPc"),
        deref_src    |-> Extract(word, FieldBits["DerefSrc"]) = 1 /\ Has("DerefSrc"),
        load_gpi     |-> Is("LdGpi"),
        flag_set     |-> Acts("FlagSet"),
        flag_get     |-> Is("FlagGet"),
        wait         |-> Is("Wait"),
        alu_flags    |->
          [ a_enable    |-> ~ Is("AluZeroLhs"),
            b_lut       |-> IF Is("AluZeroRhs") THEN 0
                            ELSE IF Is("AluNotRhs") THEN 1 ELSE 2,
            c_enable    |-> Has("Immediate"),
            carry_in    |-> IF Is("AluCarryIn") THEN 1 ELSE 0,
            compute_and |-> Is("AluAnd"),
            not_out     |-> Is("AluNot"),
            shr         |-> Is("AluShr") ] ]

Decoder ==
  [pred_mismatch \in BOOLEAN |-> [word \in Words |-> SignalsOf(word, pred_mismatch)]]

=============================================================================
