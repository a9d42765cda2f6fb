------------------------------- MODULE Emulator -------------------------------
(****************************************************************************)
(* The emulator (isa/emulator.{h,cc}): Op executes one instruction the way  *)
(* the hardware does, through the decoder's signals and the ALU, and        *)
(* computes the next PC with three 4-bit adders.  Between two steps the     *)
(* driver may change a general purpose input.                               *)
(*                                                                          *)
(* push_pc and pop_pc throw when the call stack is full or empty; the       *)
(* exception leaves step(), and the machine is then as the part of Op that  *)
(* has run left it.  RAM has two banks: what a load or store with a higher  *)
(* bank does is undefined, and the model stops there.                       *)
(****************************************************************************)
EXTENDS Datapath

CONSTANTS
  Programs,      \* the programs
  Size(_),       \* the number of words of a program
  Rom(_, _),     \* the word of a program at an address
  Registers(_),  \* the register files that a program may find
  Starts(_),     \* the addresses that it may start from
  Memory(_),     \* what it finds in RAM: a function of bank and address
  GpiValues(_),  \* the values that its inputs change to
  GpiPorts       \* the inputs that change

Nibble == 0 .. 15
Addresses == 0 .. 1023
Banks == {0, 1}
StackLimit == 4

ASSUME EmulatorAssumption ==
  /\ \A p \in Programs :
       /\ Size(p) \in 0 .. 1024
       /\ \A a \in 0 .. Size(p) - 1 : Rom(p, a) \in Words
       /\ Registers(p) \subseteq [0 .. 3 -> Nibble]
       /\ Starts(p) \subseteq Addresses
       /\ Memory(p) \in [Banks \X Nibble -> Nibble]
       /\ GpiValues(p) \subseteq Nibble
  /\ GpiPorts \subseteq Nibble

VARIABLES
  program,    \* whose ROM rom_ is
  regs, gpi, ram, pc, bak, flag, stack, membank, rombank,   \* MachineState
  error       \* why the emulator stopped, "none" if it has not

machine == <<regs, gpi, ram, pc, bak, flag, stack, membank, rombank>>
vars == <<program, machine, error>>

word == Rom(program, pc)

Init ==
  /\ program \in Programs
  /\ regs \in Registers(program)
  /\ gpi = [port \in Nibble |-> 0]
  /\ ram = Memory(program)
  /\ pc \in Starts(program)
  /\ bak = 0
  /\ flag \in BOOLEAN
  /\ stack = << >>
  /\ membank = 0 /\ rombank = 0
  /\ error = "none"

----------------------------------------------------------------------------
\* ParsedFields::Get.
Operand(semantics) == Extract(word, FieldBits[semantics])

PredMismatch == Operand("Predication") = 1 /\ ~ flag
Signals == Decoder[PredMismatch][word]

ReadPort0 == regs[Operand("RegReadAddr0")]

\* Read port 1, or what it addresses in RAM or among the inputs, or the flag.
ReadPort1(dec) ==
  LET register == regs[Operand("RegReadAddr1")]
      loaded   == IF dec.deref_src THEN ram[<<membank, register>>] ELSE register
      input    == IF dec.load_gpi THEN gpi[loaded] ELSE loaded
  IN  IF dec.flag_get THEN (IF flag THEN 15 ELSE 0) ELSE input

AluOut(dec) == Alu(ReadPort0, ReadPort1(dec), Operand("Immediate"), dec.alu_flags)
AluRes(dec) == IF dec.pop THEN bak ELSE AluOut(dec).res

\* A load or store outside the two banks.
OutOfRam(dec) == membank \notin Banks /\ (dec.deref_src \/ dec.store)

\* Faulty: the bit is compared with the carry.
ProceedsOnCarry(dec) ==
  ~ dec.wait \/ (AluOut(dec).carry_out = 1 <=> Operand("TestBitVal") = 1)

\* A wait stays where it is until the comparison comes out as TestBitVal says.
Proceeds(dec) == ~ dec.wait \/ (AluOut(dec).zero <=> Operand("TestBitVal") = 1)

\* The next PC from the PC `at`: two low bits, four middle bits and the bank, each
\* through an adder with the carry of the one below; a jump disables the PC and
\* enables the address.  The carry that goes in makes the step to the next address.
NextPc(dec, at, bank) ==
  LET address == Operand("JumpAddr")
      steps   == PredMismatch \/ (Proceeds(dec) /\ dec.no_jump)
      Add(x, y, z, carry) ==
        Alu(x, y, z, [ a_enable    |-> dec.no_jump,
                       b_lut       |-> IF dec.no_jump THEN 0 ELSE 2,
                       c_enable    |-> dec.indirect,
                       carry_in    |-> carry,
                       compute_and |-> FALSE, not_out |-> FALSE, shr |-> FALSE ])
      low    == Add(at % 4, address % 4, 0, IF steps THEN 1 ELSE 0)
      middle == Add((at \div 4) % 16, address \div 4, ReadPort1(dec), BitOf(low.res, 2))
      high   == Add(at \div 64, bank, bank, middle.carry_out)
  IN  64 * high.res + 4 * middle.res + (low.res % 4)

\* The flag after a comparison: kEq 0, kLt 1, kNe 2, kGe 3.
Compared(dec) == IF dec.cmp \in {0, 2}
                 THEN AluOut(dec).zero <=> dec.cmp = 0
                 ELSE AluOut(dec).carry_out = 1 <=> dec.cmp = 3

\* Faulty: a fifth entry is let in.
StackFailsLate(dec) == \/ dec.push_pc /\ Len(stack) > StackLimit
                       \/ dec.pop_pc /\ stack = << >>

StackFails(dec) == \/ dec.push_pc /\ Len(stack) >= StackLimit
                   \/ dec.pop_pc /\ stack = << >>

\* Faulty: a call pushes the address after its own.
NextStackReturn(dec) ==
  CASE dec.push_pc -> Append(stack, (pc + 1) % 1024)
    [] dec.pop_pc  -> SubSeq(stack, 1, Len(stack) - 1)
    [] OTHER       -> stack

\* A call pushes its own address: NextPc steps on from it after the return.
NextStack(dec) ==
  CASE dec.push_pc -> Append(stack, pc)
    [] dec.pop_pc  -> SubSeq(stack, 1, Len(stack) - 1)
    [] OTHER       -> stack

\* Faulty: a pop takes the value out of the register.
NextBakCleared(dec) ==
  IF dec.push THEN AluOut(dec).res ELSE IF dec.pop THEN 0 ELSE bak

NextBak(dec) == IF dec.push THEN AluOut(dec).res ELSE bak

----------------------------------------------------------------------------
Running == error = "none" /\ pc < Size(program)

\* The part of Op before the call stack is touched.
SetBanks(dec) ==
  /\ membank' = IF dec.membank_set THEN ReadPort0 ELSE membank
  /\ rombank' = IF dec.rombank_set THEN ReadPort0 ELSE rombank
  /\ bak' = NextBak(dec)
  /\ ram' = IF dec.store THEN [ram EXCEPT ![<<membank', ReadPort0>>] = AluRes(dec)] ELSE ram

\* The rest of it.
Proceed(dec) ==
  /\ stack' = NextStack(dec)
  /\ pc' = NextPc(dec, IF dec.pop_pc THEN stack[Len(stack)] ELSE pc, rombank')
  /\ regs' = [regs EXCEPT ![Operand("RegWriteAddr")] =
                            IF dec.write_enable THEN AluRes(dec) ELSE ReadPort0]
  /\ flag' = IF dec.flag_set THEN Compared(dec) ELSE flag

Op(dec) == /\ Running /\ ~ OutOfRam(dec) /\ ~ StackFails(dec)
           /\ SetBanks(dec)
           /\ Proceed(dec)
           /\ UNCHANGED <<program, gpi, error>>

Throw(dec) == /\ Running /\ ~ OutOfRam(dec) /\ StackFails(dec)
              /\ SetBanks(dec)
              /\ error' = IF dec.push_pc THEN "overflow" ELSE "underflow"
              /\ UNCHANGED <<program, regs, gpi, pc, flag, stack>>

\* step() refuses a PC outside the ROM.
OutOfBounds == /\ error = "none" /\ pc >= Size(program)
               /\ error' = "out of bounds"
               /\ UNCHANGED <<program, machine>>

Undefined(dec) == /\ Running /\ OutOfRam(dec)
                  /\ error' = "undefined"
                  /\ UNCHANGED <<program, machine>>

\* The driver changes an input between two steps.
SetGpi(port, value) == /\ error = "none"
                       /\ gpi' = [gpi EXCEPT ![port] = value]
                       /\ UNCHANGED <<program, regs, ram, pc, bak, flag, stack,
                                      membank, rombank, error>>

Stopped == error # "none" /\ UNCHANGED vars

Next == \/ Op(Signals) \/ Throw(Signals) \/ Undefined(Signals)
        \/ OutOfBounds \/ Stopped
        \/ \E port \in GpiPorts, value \in GpiValues(program) : SetGpi(port, value)

Spec == Init /\ [][Next]_vars

----------------------------------------------------------------------------
\* The registers keep their widths, the PC its ten bits and the stack its limit:
\* the assertions of Integer (cpu/types.h) hold.
TypeOK ==
  /\ program \in Programs
  /\ regs \in [0 .. 3 -> Nibble]
  /\ gpi \in [Nibble -> Nibble]
  /\ ram \in [Banks \X Nibble -> Nibble]
  /\ pc \in Addresses
  /\ bak \in Nibble
  /\ flag \in BOOLEAN
  /\ stack \in Seq(Addresses) /\ Len(stack) <= StackLimit
  /\ membank \in Nibble /\ rombank \in Nibble
  /\ error \in {"none", "overflow", "underflow", "out of bounds", "undefined"}

\* Whatever a program does with calls, predicates, jumps and returns, each entry
\* of the call stack is the address of a call.
StackHoldsCalls ==
  \A i \in DOMAIN stack :
    /\ stack[i] < Size(program)
    /\ Decode[Rom(program, stack[i])].op \in {"call", "call3"}

\* An instruction that throws has had no effect before it does: the user finds the
\* machine at the instruction, although Op has run half-way (emulator.cc:69-75).
ThrowLeavesMachine == [][error' # error => UNCHANGED machine]_vars

CodeAt(p, a) == Decode[Rom(p, a)]
Abstract == INSTANCE AbstractIsa WITH Code <- CodeAt

\* What the program sees is the instruction set as isa.cc describes it.
ImplementsIsa == Abstract!Spec

=============================================================================
