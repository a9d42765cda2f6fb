------------------------------ MODULE MCEmulator ------------------------------
(* Small instances of Emulator.                                             *)
EXTENDS Emulator

\* Where the two low bits, the middle four and the bank carry.
Carries == {0, 3, 63, 1023}

\* For each word of the instruction set, a full ROM with it at these places, and
\* returns at all others.
Ret == 511
OneWord == {<<"word", w>> : w \in Words}

\* Register files in which no two registers agree, sums carry and do not, and the
\* operands of a comparison come in both orders; and one in which all agree.
Few == { [r \in 0 .. 3 |-> <<3, 9, 14, 1>>[r + 1]],
         [r \in 0 .. 3 |-> <<15, 1, 0, 8>>[r + 1]],
         [r \in 0 .. 3 |-> 1] }

\* Each nibble of RAM differs from its neighbours and from the other bank's.
Pattern == [cell \in Banks \X Nibble |-> (7 * cell[2] + 5 * cell[1] + 2) % 16]

\* Short programs: every ROM of three of these words.  Calls, plain and predicated
\* returns, what changes the flag, the spare register and the input they meet, and
\* accesses to memory in the banks 0, 1 and 5.
Code(op, args) == [op |-> op, args |-> args]
Vocabulary ==
  { Code("call",    [pred |-> 0, jumpaddr |-> 0]),
    Code("call",    [pred |-> 1, jumpaddr |-> 2]),
    Code("ret",     [pred |-> 0]),
    Code("ret",     [pred |-> 1]),
    Code("retpop",  [pred |-> 0, dst |-> 3]),
    Code("push",    [pred |-> 0, lhs |-> 0]),
    Code("wait",    [pred |-> 0, lhs |-> 1, rhs |-> 1, val |-> 1]),
    Code("invflag", [pred |-> 0]),
    Code("membank", [pred |-> 0, lhs |-> 1]),
    Code("membank", [pred |-> 1, lhs |-> 0]),
    Code("store",   [pred |-> 0, src |-> 0, dstaddr |-> 2]),
    Code("mov",     [pred |-> 0, deref_src |-> 1, src |-> 2, dst |-> 0]),
    Code("rombank", [pred |-> 0, lhs |-> 1]),
    Code("jump3",   [pred |-> 1]) }
ShortWords == {w \in Words : Decode[w] \in Vocabulary}
ShortProgram == {<<"short", p>> : p \in [0 .. 2 -> ShortWords]}
OneFile == {[r \in 0 .. 3 |-> <<5, 1, 2, 0>>[r + 1]]}

Zeros == [cell \in Banks \X Nibble |-> 0]

\* Both kinds of program, and what each finds.  A single word meets no input.
AllPrograms == OneWord \cup ShortProgram
IsWord(p) == p[1] = "word"
SizeOf(p) == IF IsWord(p) THEN 1024 ELSE 3
WordAt(p, a) == IF ~ IsWord(p) THEN p[2][a] ELSE IF a \in Carries THEN p[2] ELSE Ret
Files(p) == IF IsWord(p) THEN Few ELSE OneFile
Beginnings(p) == IF IsWord(p) THEN Carries ELSE {0}
Ram(p) == IF IsWord(p) THEN Pattern ELSE Zeros
Inputs(p) == IF IsWord(p) THEN {} ELSE {0, 1}

=============================================================================
