----------------------------- MODULE AbstractIsa -----------------------------
(****************************************************************************)
(* What each instruction does, as the comments of BuildIsa (isa/isa.cc) and *)
(* the cases of emulator_test.cc say: no encodings, no signals, no adders.  *)
(* A program has an instruction with operands at each of its addresses.     *)
(****************************************************************************)
EXTENDS Integers, Sequences

CONSTANTS
  Size(_),     \* the number of instructions of a program
  Code(_, _)   \* the instruction of a program at an address

VARIABLES program, regs, gpi, ram, pc, bak, flag, stack, membank, rombank, error

vars == <<program, regs, gpi, ram, pc, bak, flag, stack, membank, rombank, error>>

Init == stack = << >> /\ error = "none"

----------------------------------------------------------------------------
instr == Code(program, pc).op
arg   == Code(program, pc).args

Fetches == error = "none" /\ pc < Size(program)

\* "+": the instruction takes effect only if the flag is set.
Taken == arg.pred = 1 => flag

TouchesRam == \/ instr = "store"
              \/ "deref_src" \in DOMAIN arg /\ arg.deref_src = 1
Undefined == TouchesRam /\ membank > 1
Executes(ops) == Fetches /\ Taken /\ ~ Undefined /\ instr \in ops

After(address) == (address + 1) % 1024
Advance == pc' = After(pc)

\* a or [a], an immediate or a register: the right operand.
Source ==
  CASE instr \in {"addi", "movi", "subi", "subitnz", "testi"} -> arg.imm
    [] instr \in {"add", "mov", "sub", "subr", "subtnz", "addtnz"} ->
         IF arg.deref_src = 1 THEN ram[<<membank, regs[arg.src]>>] ELSE regs[arg.src]
    [] instr \in {"and", "store"} -> regs[arg.src]
    [] instr = "ldgpi" -> gpi[regs[arg.src]]
    [] instr \in {"test", "andtnz"} -> regs[arg.rhs]
    [] instr = "wait" -> gpi[regs[arg.rhs]]

\* Both bits set, at each of the four places.
Bitwise(x, y) ==
  LET bit(n, weight) == (n \div weight) % 2
      both(weight) == weight * bit(x, weight) * bit(y, weight)
  IN  both(1) + both(2) + both(4) + both(8)

\* The new value of dst.
Result ==
  LET b == regs[arg.dst]
  IN  CASE instr \in {"addi", "add", "addtnz"} -> (b + Source) % 16
        [] instr \in {"subi", "subitnz", "sub", "subtnz"} -> (b - Source) % 16
        [] instr = "subr" -> (Source - b) % 16
        [] instr \in {"movi", "mov", "ldgpi"} -> Source
        [] instr = "and" -> Bitwise(b, Source)
        [] instr = "not" -> 15 - b
        [] instr = "shr" -> b \div 2
        [] instr \in {"pop", "retpop"} -> bak

Comparison ==
  LET a == regs[arg.lhs]
  IN  CASE arg.cmp = 0 -> a = Source
        [] arg.cmp = 1 -> a < Source
        [] arg.cmp = 2 -> a # Source
        [] arg.cmp = 3 -> a >= Source

----------------------------------------------------------------------------
Compute ==
  /\ Executes({"addi", "movi", "subi", "add", "mov", "sub", "subr", "and", "ldgpi",
               "not", "shr", "pop"})
  /\ regs' = [regs EXCEPT ![arg.dst] = Result]
  /\ Advance
  /\ UNCHANGED <<program, gpi, ram, bak, flag, stack, membank, rombank, error>>

ComputeAndTest ==
  /\ Executes({"subitnz", "subtnz", "addtnz"})
  /\ regs' = [regs EXCEPT ![arg.dst] = Result]
  /\ flag' = (Result # 0)
  /\ Advance
  /\ UNCHANGED <<program, gpi, ram, bak, stack, membank, rombank, error>>

Test ==
  /\ Executes({"testi", "test", "andtnz", "invflag"})
  /\ flag' = CASE instr = "andtnz"  -> Bitwise(regs[arg.lhs], Source) # 0
               [] instr = "invflag" -> ~ flag
               [] OTHER             -> Comparison
  /\ Advance
  /\ UNCHANGED <<program, regs, gpi, ram, bak, stack, membank, rombank, error>>

Store ==
  /\ Executes({"store"})
  /\ ram' = [ram EXCEPT ![<<membank, regs[arg.dstaddr]>>] = Source]
  /\ Advance
  /\ UNCHANGED <<program, regs, gpi, bak, flag, stack, membank, rombank, error>>

Push ==
  /\ Executes({"push"})
  /\ bak' = regs[arg.lhs]
  /\ Advance
  /\ UNCHANGED <<program, regs, gpi, ram, flag, stack, membank, rombank, error>>

MemBank ==
  /\ Executes({"membank"})
  /\ membank' = regs[arg.lhs]
  /\ Advance
  /\ UNCHANGED <<program, regs, gpi, ram, bak, flag, stack, rombank, error>>

RomBank ==
  /\ Executes({"rombank"})
  /\ rombank' = regs[arg.lhs]
  /\ Advance
  /\ UNCHANGED <<program, regs, gpi, ram, bak, flag, stack, membank, error>>

\* rombank:imm6, or rombank:r3:00.
Target == 64 * rombank + IF instr \in {"jump3", "call3"} THEN 4 * regs[3] ELSE arg.jumpaddr

Jump ==
  /\ Executes({"jump", "jump3"})
  /\ pc' = Target
  /\ UNCHANGED <<program, regs, gpi, ram, bak, flag, stack, membank, rombank, error>>

Call ==
  /\ Executes({"call", "call3"})
  /\ Len(stack) < 4
  /\ stack' = Append(stack, pc)
  /\ pc' = Target
  /\ UNCHANGED <<program, regs, gpi, ram, bak, flag, membank, rombank, error>>

Return ==
  /\ Executes({"ret", "retpop"})
  /\ stack # << >>
  /\ pc' = After(stack[Len(stack)])
  /\ stack' = SubSeq(stack, 1, Len(stack) - 1)
  /\ regs' = IF instr = "retpop" THEN [regs EXCEPT ![arg.dst] = Result] ELSE regs
  /\ UNCHANGED <<program, gpi, ram, bak, flag, membank, rombank, error>>

Wait ==
  /\ Executes({"wait"})
  /\ pc' = IF (Source = regs[arg.lhs]) <=> (arg.val = 1) THEN After(pc) ELSE pc
  /\ UNCHANGED <<program, regs, gpi, ram, bak, flag, stack, membank, rombank, error>>

Skip ==
  /\ Fetches /\ ~ Taken
  /\ Advance
  /\ UNCHANGED <<program, regs, gpi, ram, bak, flag, stack, membank, rombank, error>>

\* The emulator gives up, with the machine as the program left it: on a fifth call,
\* on a return without a call, outside the ROM, or at an access to RAM after a bank
\* that does not exist has been selected.
Reason(why) ==
  CASE why = "overflow"      -> Executes({"call", "call3"}) /\ Len(stack) >= 4
    [] why = "underflow"     -> Executes({"ret", "retpop"}) /\ stack = << >>
    [] why = "out of bounds" -> error = "none" /\ pc >= Size(program)
    [] why = "undefined"     -> Fetches /\ Undefined
Fault(why) ==
  /\ Reason(why)
  /\ error' = why
  /\ UNCHANGED <<program, regs, gpi, ram, pc, bak, flag, stack, membank, rombank>>

Input ==
  /\ \E port \in 0 .. 15 : /\ gpi' = [gpi EXCEPT ![port] = gpi'[port]]
                          /\ gpi'[port] \in 0 .. 15
  /\ UNCHANGED <<program, regs, ram, pc, bak, flag, stack, membank, rombank, error>>

Next ==
  \/ Compute \/ ComputeAndTest \/ Test \/ Store \/ Push \/ MemBank \/ RomBank
  \/ Jump \/ Call \/ Return \/ Wait \/ Skip \/ Input
  \/ \E why \in {"overflow", "underflow", "out of bounds", "undefined"} : Fault(why)

Spec == Init /\ [][Next]_vars

=============================================================================
