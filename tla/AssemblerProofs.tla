--------------------------- MODULE AssemblerProofs ---------------------------
(****************************************************************************)
(* The two passes of ParseAssembly agree, whatever the tokens.              *)
(*                                                                          *)
(* Where a pass is in the program is its Place: the next token, the         *)
(* instruction it is reading and its count of instructions.  The passes     *)
(* differ in the address they have for a jump, which is left out of the     *)
(* place: how the reading goes on depends on whether there is one, never on *)
(* which one.  So each place has a successor that is the same for both      *)
(* passes, After.                                                           *)
(*                                                                          *)
(* The first pass leaves behind a set of places: the start is in it, and    *)
(* so is the successor of each but the last; and each that is before a      *)
(* label has the count that is the label's address.  The second pass never  *)
(* leaves that set.                                                         *)
(*                                                                          *)
(* The encoder and the decoder: the operands are added to the opcode one    *)
(* after the other.  Each fills bits that were zero and changes no other    *)
(* one, for the fields of an instruction have no bit in common.  So in the  *)
(* end each operand can be extracted, the bits of the opcode are there, and *)
(* the instruction is the only one with which the word agrees.              *)
(*                                                                          *)
(* No register is lost: in the second pass the registers among the tokens   *)
(* that have been read are those of the words emitted and of the            *)
(* instruction being read.  An instruction that is complete has as many as  *)
(* its mnemonic calls for, and it is decoded to that mnemonic.              *)
(****************************************************************************)
EXTENDS Assembler, FiniteSetTheorems, NaturalsInduction, TLAPS

\* The first token of a statement behind its "+", and what is left of an
\* instruction without the address of its jump.
FirstAt(i) == IF Is(i, "+") THEN i + 1 ELSE i
WithoutTarget(c) == [c EXCEPT !.jump = IF @ = Null THEN Null ELSE 0]
Cut(c) == IF c = Null THEN Null ELSE WithoutTarget(c)

PlaceOf(i, c, n) == [at |-> i, cur |-> Cut(c), n |-> n]
Place == PlaceOf(at, cur, pc)
Start == PlaceOf(1, Null, 0)

\* The successor of a place between statements.
Takes(mnemonic, field) == field \in InstrOf(mnemonic).params
AfterMnemonic(i, pred) ==
  LET text == Tok(i).text
      memory == Takes(text, "deref_src")
  IN  IF memory /\ Is(i + 1, "[")
      THEN [at |-> i + 4, cur |-> Reading(text, pred, 1, <<ToRegister(i + 2)>>)]
      ELSE [at |-> i + 1, cur |-> Reading(text, pred, IF memory THEN 0 ELSE Null, << >>)]

\* The place at the end of the program, and those before labels.
Final(c) == c.cur = Null /\ c.at > Len(tokens)
AtLabel(c) == c.cur = Null /\ c.at \in DOMAIN tokens /\ Is(FirstAt(c.at) + 1, ":")
NameAt(c) == Tok(FirstAt(c.at)).text

AfterStatement(c) ==
  IF Is(c.at, "(") THEN PlaceOf(c.at + 3, Null, Tok(c.at + 1).value)
  ELSE IF Is(FirstAt(c.at) + 1, ":") THEN PlaceOf(FirstAt(c.at) + 2, Null, c.n)
  ELSE LET next == AfterMnemonic(FirstAt(c.at), IF Is(c.at, "+") THEN 1 ELSE 0)
       IN  PlaceOf(next.at, next.cur, c.n)

\* The successor of a place in an instruction: an operand more, or its end.
Aims(c, i) == Is(i, "identifier") /\ c.jump = Null /\ Takes(c.mnemonic, "jumpaddr")
AfterOperand(c) ==
  IF IsRegister(c.at)
  THEN PlaceOf(c.at + 1, [c.cur EXCEPT !.registers = Append(@, ToRegister(c.at))], c.n)
  ELSE IF IsComparator(c.at)
  THEN PlaceOf(c.at + 1, [c.cur EXCEPT !.cmp = Comparators[Tok(c.at).type]], c.n)
  ELSE IF Is(c.at, "literal")
  THEN PlaceOf(c.at + 1, [c.cur EXCEPT !.imms = Append(@, Tok(c.at).value)], c.n)
  ELSE IF Aims(c.cur, c.at)
  THEN PlaceOf(c.at + 1, [c.cur EXCEPT !.jump = 0], c.n)
  ELSE PlaceOf(c.at, Null, c.n + 1)

After(c) == IF c.cur = Null THEN AfterStatement(c) ELSE AfterOperand(c)

----------------------------------------------------------------------------

\* The invariant.  The words are of any kind: what the encoder makes of an
\* instruction does not matter here.
EmittedTyped == \E S : emitted \in Seq(S)
TypeInv ==
  /\ tokens \in Seq(TokenSet)
  /\ pass \in {1, 2} /\ at \in Nat \ {0} /\ pc \in Nat /\ counted \in Nat
  /\ labels \in [DOMAIN labels -> Nat]
  /\ cur \in Readings \cup {Null}
  /\ EmittedTyped

\* Parse counts what ParseAssembly counts, and what is emitted.  When the encoder
\* aborts, Parse has counted the instruction that is not emitted.
Counts ==
  /\ pass = 1 => counted = pc /\ emitted = << >>
  /\ pass = 2 /\ verdict # "aborted" => Len(emitted) = pc

\* V is what the first pass has left behind, with the place where it is.
FirstPass(V) ==
  /\ Start \in V /\ Place \in V
  /\ \A c \in V : c # Place =>
       /\ ~ Final(c) /\ After(c) \in V
       /\ AtLabel(c) => NameAt(c) \in DOMAIN labels /\ labels[NameAt(c)] = c.n

\* The second pass is in V.  All of V has a successor in V but for the end of the
\* program, which has the first pass's count.
SecondPass(V) ==
  /\ Place \in V
  /\ \A c \in V :
       /\ Final(c) => c.n = counted
       /\ ~ Final(c) => After(c) \in V
       /\ AtLabel(c) => labels[NameAt(c)] = c.n

PassesInv ==
  /\ pass = 1 => \E V : FirstPass(V)
  /\ pass = 2 => \E V : SecondPass(V)
  /\ Accepted => pass = 2 /\ Final(Place)

AssemblerInv == TypeInv /\ Counts /\ PassesInv

----------------------------------------------------------------------------

\* Lemmas about tokens, registers and what is left of an instruction.
RegisterNumber(text) == (CHOOSE r \in DOMAIN RegisterNames : RegisterNames[r] = text) - 1

LEMMA RegisterOfText == \A i : ToRegister(i) = RegisterNumber(Tok(i).text)
  BY DEF ToRegister, RegisterNumber

\* The places of a program are those of its tokens.
LEMMA PlacesOfTokens ==
  ASSUME UNCHANGED tokens, NEW c
  PROVE  /\ Final(c)' <=> Final(c)
         /\ AtLabel(c)' <=> AtLabel(c)
         /\ NameAt(c)' = NameAt(c)
         /\ After(c)' = After(c)
<1>1. \A i : Tok(i)' = Tok(i)
  BY DEF Tok
<1>2. \A i, type : Is(i, type)' <=> Is(i, type)
  BY <1>1 DEF Is
<1>3. \A i : /\ IsRegister(i)' <=> IsRegister(i)
             /\ IsComparator(i)' <=> IsComparator(i)
             /\ FirstAt(i)' = FirstAt(i)
  BY <1>1, <1>2 DEF IsRegister, IsComparator, FirstAt
<1>4. \A i : ToRegister(i)' = RegisterNumber(Tok(i)'.text)
  BY DEF ToRegister, RegisterNumber
<1>5. \A i : ToRegister(i)' = ToRegister(i)
  BY <1>1, <1>4, RegisterOfText
<1>6. \A i, pred : AfterMnemonic(i, pred)' = AfterMnemonic(i, pred)
  BY <1>1, <1>2, <1>5 DEF AfterMnemonic
<1>7. AfterStatement(c)' = AfterStatement(c)
  BY <1>1, <1>2, <1>3, <1>6 DEF AfterStatement
<1>8. Aims(c.cur, c.at)' <=> Aims(c.cur, c.at)
  BY <1>2 DEF Aims
<1>9. AfterOperand(c)' = AfterOperand(c)
  BY <1>1, <1>2, <1>3, <1>5, <1>8 DEF AfterOperand
<1>10. (Final(c)' <=> Final(c)) /\ (AtLabel(c)' <=> AtLabel(c))
  BY <1>2, <1>3 DEF Final, AtLabel
<1>11. NameAt(c)' = NameAt(c)
  BY <1>1, <1>3 DEF NameAt
<1>12. After(c)' = After(c)
  BY <1>7, <1>9 DEF After
<1> QED  BY <1>10, <1>11, <1>12

\* A literal has a value, as any token.
LEMMA ValuesTyped ==
  ASSUME tokens \in Seq(TokenSet)
  PROVE  \A i : Tok(i).value \in Nat
<1>1. Sym("unknown").value = 0
  BY DEF Sym, Token
<1>2. ASSUME NEW i \in DOMAIN tokens
      PROVE  tokens[i].value \in Nat
  <2>1. tokens[i] \in TokenSet
    OBVIOUS
  <2> QED  BY <2>1 DEF TokenSet
<1> QED  BY <1>1, <1>2 DEF Tok

\* There are four registers.
LEMMA RegistersTyped ==
  \A i : IsRegister(i) => ToRegister(i) \in 0 .. 3
  BY DEF IsRegister, ToRegister, RegisterNames, ToSet

\* An instruction without its jump address is still one, and jumps if it did.
LEMMA ReadingsTyped ==
  /\ Null \notin Readings
  /\ \A c \in Readings : Cut(c) \in Readings /\ Cut(c) # Null
  /\ \A c \in Readings : Cut(c).mnemonic = c.mnemonic
  /\ \A c \in Readings : Cut(c).jump = Null <=> c.jump = Null
<1>1. Null \notin Readings /\ Null \notin Int
  BY AssemblerAssumption
<1>2. \A c \in Readings : Cut(c) = [c EXCEPT !.jump = IF c.jump = Null THEN Null ELSE 0]
  BY <1>1 DEF Cut, WithoutTarget
<1>3. \A c \in Readings : Cut(c) \in Readings
  BY <1>2 DEF Readings
<1>4. \A c \in Readings : Cut(c).mnemonic = c.mnemonic /\ (Cut(c).jump = Null <=> c.jump = Null)
  BY <1>1, <1>2 DEF Readings
<1> QED  BY <1>1, <1>3, <1>4

\* What is taken does not depend on the jump address.
LEMMA TakenIsCut ==
  ASSUME NEW c \in Readings
  PROVE  /\ \A rs \in Seq(0 .. 3) :
              /\ [c EXCEPT !.registers = rs] \in Readings
              /\ Cut([c EXCEPT !.registers = rs]) = Cut([Cut(c) EXCEPT !.registers = rs])
         /\ \A is \in Seq(Nat) :
              /\ [c EXCEPT !.imms = is] \in Readings
              /\ Cut([c EXCEPT !.imms = is]) = Cut([Cut(c) EXCEPT !.imms = is])
         /\ \A o \in {0, 1, 2, 3} :
              /\ [c EXCEPT !.cmp = o] \in Readings
              /\ Cut([c EXCEPT !.cmp = o]) = Cut([Cut(c) EXCEPT !.cmp = o])
         /\ \A a \in Nat :
              /\ [c EXCEPT !.jump = a] \in Readings
              /\ Cut([c EXCEPT !.jump = a]) = Cut([Cut(c) EXCEPT !.jump = 0])
<1>1. \A d \in Readings : Cut(d) = [d EXCEPT !.jump = IF d.jump = Null THEN Null ELSE 0]
  BY AssemblerAssumption DEF Cut, WithoutTarget
<1>2. 0 # Null /\ \A a \in Nat : a # Null
  BY AssemblerAssumption
<1> DEFINE j == IF c.jump = Null THEN Null ELSE 0
<1>3. Cut(c) = [c EXCEPT !.jump = j]
  BY <1>1
<1>4. j \in Nat \cup {Null} /\ (IF j = Null THEN Null ELSE 0) = j
  BY <1>2
<1> HIDE DEF j
<1>5. ASSUME NEW rs \in Seq(0 .. 3)
      PROVE  /\ [c EXCEPT !.registers = rs] \in Readings
             /\ Cut([c EXCEPT !.registers = rs]) = Cut([Cut(c) EXCEPT !.registers = rs])
  <2>1. [c EXCEPT !.registers = rs] \in Readings
    BY DEF Readings
  <2> DEFINE d == [c EXCEPT !.registers = rs]
             e == [[c EXCEPT !.jump = j] EXCEPT !.registers = rs]
  <2>2. e \in Readings /\ e.jump = j
    BY <1>4 DEF Readings
  <2>3. d.jump = c.jump
    BY DEF Readings
  <2>4. Cut(d) = [d EXCEPT !.jump = j] /\ Cut(e) = [e EXCEPT !.jump = j]
    BY <1>1, <1>4, <2>1, <2>2, <2>3 DEF j
  <2>5. [d EXCEPT !.jump = j] = [e EXCEPT !.jump = j]
    BY DEF Readings
  <2> HIDE DEF d, e
  <2>6. Cut(d) = Cut(e)
    BY <2>4, <2>5
  <2> QED  BY <1>3, <2>1, <2>6 DEF d, e
<1>6. ASSUME NEW is \in Seq(Nat)
      PROVE  /\ [c EXCEPT !.imms = is] \in Readings
             /\ Cut([c EXCEPT !.imms = is]) = Cut([Cut(c) EXCEPT !.imms = is])
  <2>1. [c EXCEPT !.imms = is] \in Readings
    BY DEF Readings
  <2> DEFINE d == [c EXCEPT !.imms = is]
             e == [[c EXCEPT !.jump = j] EXCEPT !.imms = is]
  <2>2. e \in Readings /\ e.jump = j
    BY <1>4 DEF Readings
  <2>3. d.jump = c.jump
    BY DEF Readings
  <2>4. Cut(d) = [d EXCEPT !.jump = j] /\ Cut(e) = [e EXCEPT !.jump = j]
    BY <1>1, <1>4, <2>1, <2>2, <2>3 DEF j
  <2>5. [d EXCEPT !.jump = j] = [e EXCEPT !.jump = j]
    BY DEF Readings
  <2> HIDE DEF d, e
  <2>6. Cut(d) = Cut(e)
    BY <2>4, <2>5
  <2> QED  BY <1>3, <2>1, <2>6 DEF d, e
<1>7. ASSUME NEW o \in {0, 1, 2, 3}
      PROVE  /\ [c EXCEPT !.cmp = o] \in Readings
             /\ Cut([c EXCEPT !.cmp = o]) = Cut([Cut(c) EXCEPT !.cmp = o])
  <2>1. [c EXCEPT !.cmp = o] \in Readings
    BY DEF Readings
  <2> DEFINE d == [c EXCEPT !.cmp = o]
             e == [[c EXCEPT !.jump = j] EXCEPT !.cmp = o]
  <2>2. e \in Readings /\ e.jump = j
    BY <1>4 DEF Readings
  <2>3. d.jump = c.jump
    BY DEF Readings
  <2>4. Cut(d) = [d EXCEPT !.jump = j] /\ Cut(e) = [e EXCEPT !.jump = j]
    BY <1>1, <1>4, <2>1, <2>2, <2>3 DEF j
  <2>5. [d EXCEPT !.jump = j] = [e EXCEPT !.jump = j]
    BY DEF Readings
  <2> HIDE DEF d, e
  <2>6. Cut(d) = Cut(e)
    BY <2>4, <2>5
  <2> QED  BY <1>3, <2>1, <2>6 DEF d, e
<1>8. ASSUME NEW a \in Nat
      PROVE  /\ [c EXCEPT !.jump = a] \in Readings
             /\ Cut([c EXCEPT !.jump = a]) = Cut([Cut(c) EXCEPT !.jump = 0])
  <2>1. [c EXCEPT !.jump = a] \in Readings
    BY DEF Readings
  <2> DEFINE d == [c EXCEPT !.jump = a]
             e == [[c EXCEPT !.jump = j] EXCEPT !.jump = 0]
  <2>2. e \in Readings /\ e.jump = 0
    BY <1>4 DEF Readings
  <2>3. d.jump = a
    BY DEF Readings
  <2>4. Cut(d) = [d EXCEPT !.jump = 0] /\ Cut(e) = [e EXCEPT !.jump = 0]
    BY <1>1, <1>2, <2>1, <2>2, <2>3
  <2>5. [d EXCEPT !.jump = 0] = [e EXCEPT !.jump = 0]
    BY DEF Readings
  <2> HIDE DEF d, e
  <2>6. Cut(d) = Cut(e)
    BY <2>4, <2>5
  <2> QED  BY <1>3, <2>1, <2>6 DEF d, e
<1> QED  BY <1>5, <1>6, <1>7, <1>8

----------------------------------------------------------------------------

\* What each step of a pass does: it goes to the successor of its place.
Follows ==
  /\ ~ Final(Place)
  /\ Place' = After(Place)
  /\ UNCHANGED <<tokens, pass>>
  /\ verdict' # "accepted"

Labels ==
  /\ pass = 1 =>
       /\ \A l \in DOMAIN labels : l \in DOMAIN labels' /\ labels'[l] = labels[l]
       /\ AtLabel(Place) => NameAt(Place) \in DOMAIN labels' /\ labels'[NameAt(Place)] = pc
  /\ pass = 2 => UNCHANGED <<labels, counted>>

\* Padding: Parse's count, ParseAssembly's and the words go forward together.
LEMMA PadAdvances ==
  ASSUME TypeInv, Counts, Pad
  PROVE  TypeInv' /\ Counts' /\ Follows /\ Labels
<1>1. /\ at \in DOMAIN tokens /\ cur = Null
      /\ Is(at, "(") /\ Is(at + 1, "literal") /\ Tok(at + 1).value >= pc
      /\ pc' = Tok(at + 1).value /\ at' = at + 3
      /\ UNCHANGED <<tokens, pass, labels, cur, verdict>>
      /\ verdict = "none"
  BY DEF Pad, BetweenStatements, Running, IsPadding, source
<1> DEFINE n == Tok(at + 1).value - pc
<1>2. n \in Nat /\ Tok(at + 1).value \in Nat
  BY <1>1, ValuesTyped DEF TypeInv
<1>3. pass = 1 => TypeInv' /\ Counts'
  <2> SUFFICES ASSUME pass = 1
               PROVE  TypeInv' /\ Counts'
    OBVIOUS
  <2>1. counted' = counted + n /\ emitted' = emitted
    BY DEF Pad, CountPadding
  <2>2. TypeInv'
    BY <1>1, <1>2, <2>1 DEF TypeInv, EmittedTyped
  <2>3. Counts'
    BY <1>1, <1>2, <2>1 DEF Counts, TypeInv
  <2> QED  BY <2>2, <2>3
<1>4. pass = 2 => TypeInv' /\ Counts'
  <2> SUFFICES ASSUME pass = 2
               PROVE  TypeInv' /\ Counts'
    OBVIOUS
  <2> DEFINE w == Word(Padding)
  <2>1. emitted' = emitted \o [i \in 1 .. n |-> w] /\ counted' = counted
    <3>1. pass # 1
      OBVIOUS
    <3> QED  BY <3>1, Zenon DEF Pad
  <2>2. PICK S : emitted \in Seq(S)
    BY DEF TypeInv, EmittedTyped
  <2> DEFINE T == S \cup {w}
  <2> DEFINE more == [i \in 1 .. n |-> w]
  <2>3. more \in Seq(T) /\ Len(more) = n
    <3> HIDE DEF n, w
    <3> QED  BY <1>2
  <2>4. emitted \in Seq(T)
    BY <2>2
  <2>5. emitted \o more \in Seq(T) /\ Len(emitted \o more) = Len(emitted) + n
    <3> HIDE DEF n, w, more, T
    <3> QED  BY <2>3, <2>4
  <2>6. emitted' \in Seq(T) /\ Len(emitted') = Len(emitted) + n
    BY <2>1, <2>5
  <2> HIDE DEF w, T, more
  <2>7. TypeInv'
    <3>1. EmittedTyped'
      BY <2>6 DEF EmittedTyped
    <3> QED  BY <1>1, <1>2, <2>1, <3>1 DEF TypeInv
  <2>8. Counts'
    BY <1>1, <1>2, <2>6 DEF Counts, TypeInv
  <2> QED  BY <2>7, <2>8
<1>5. Place.at = at /\ Place.cur = Null /\ Place.n = pc
  BY <1>1 DEF Place, PlaceOf, Cut
<1>6. ~ Final(Place)
  BY <1>1, <1>5 DEF Final, TypeInv
<1>7. After(Place) = PlaceOf(at + 3, Null, Tok(at + 1).value)
  BY <1>1, <1>5 DEF After, AfterStatement
<1>8. Place' = PlaceOf(at + 3, Null, Tok(at + 1).value)
  BY <1>1 DEF Place, PlaceOf, Cut
<1>9. ~ AtLabel(Place)
  BY <1>1, <1>5 DEF AtLabel, FirstAt, Is
<1>10. Follows
  BY <1>1, <1>6, <1>7, <1>8 DEF Follows
<1>11. Labels
  BY <1>1, <1>9 DEF Labels, Pad
<1> QED  BY <1>3, <1>4, <1>10, <1>11 DEF TypeInv

\* A label gets the count, which is the place's, and no earlier one changes.
LEMMA LabelAdvances ==
  ASSUME TypeInv, Counts, Label
  PROVE  TypeInv' /\ Counts' /\ Follows /\ Labels
<1> DEFINE f == FirstAt(at)
           name == Tok(f).text
<1>1. first = f
  BY DEF TypeInv, first, Pred, FirstAt
<1>2. /\ at \in DOMAIN tokens /\ cur = Null /\ ~ Is(at, "(")
      /\ Is(f + 1, ":")
      /\ pass = 1 => name \notin DOMAIN labels
      /\ labels' = IF pass = 1 THEN Defined(name) ELSE labels
      /\ at' = f + 2
  BY <1>1 DEF Label, Named, BetweenStatements
<1>3. /\ verdict = "none"
      /\ UNCHANGED <<tokens, pass, pc, counted, cur, emitted, verdict>>
  BY DEF Label, Named, BetweenStatements, Running, source
<1>4. f \in Nat \ {0}
  BY DEF TypeInv, FirstAt
<1>5. Place = PlaceOf(at, Null, pc) /\ Place.at = at /\ Place.cur = Null /\ Place.n = pc
  BY <1>2 DEF Place, PlaceOf, Cut
<1>6. ~ Final(Place)
  BY <1>2, <1>5 DEF Final, TypeInv
<1>7. After(Place) = PlaceOf(f + 2, Null, pc)
  BY <1>2, <1>5 DEF After, AfterStatement
<1>8. Place' = PlaceOf(f + 2, Null, pc)
  BY <1>2, <1>3 DEF Place, PlaceOf, Cut
<1>9. NameAt(Place) = name
  BY <1>5 DEF NameAt
<1> HIDE DEF name, f
<1>10. labels' \in [DOMAIN labels' -> Nat]
  BY <1>2 DEF Defined, TypeInv
<1>11. TypeInv'
  BY <1>2, <1>3, <1>4, <1>10 DEF TypeInv, EmittedTyped
<1>12. Counts'
  BY <1>3 DEF Counts
<1>13. Follows
  BY <1>3, <1>6, <1>7, <1>8 DEF Follows
<1>14. pass = 1 =>
         /\ \A l \in DOMAIN labels : l \in DOMAIN labels' /\ labels'[l] = labels[l]
         /\ name \in DOMAIN labels' /\ labels'[name] = pc
  BY <1>2 DEF Defined, Counts
<1>15. Labels
  BY <1>2, <1>3, <1>9, <1>14 DEF Labels, TypeInv
<1> QED  BY <1>11, <1>12, <1>13, <1>15

\* Steps that leave the labels and the counts alone, and do not start at a label.
Quiet ==
  /\ UNCHANGED <<tokens, pass, pc, counted, labels, emitted, verdict>>
  /\ verdict = "none"

LEMMA QuietAdvances ==
  ASSUME TypeInv, Counts, Quiet, ~ AtLabel(Place), ~ Final(Place), Place' = After(Place),
         at' \in Nat \ {0}, cur' \in Readings
  PROVE  TypeInv' /\ Counts' /\ Follows /\ Labels
<1>1. TypeInv'
  BY DEF Quiet, TypeInv, EmittedTyped
<1>2. Counts'
  BY DEF Quiet, Counts
<1>3. Follows
  BY DEF Quiet, Follows
<1>4. Labels
  BY DEF Quiet, Labels
<1> QED  BY <1>1, <1>2, <1>3, <1>4

LEMMA ReadingTyped ==
  ASSUME NEW m \in Mnemonics, NEW p \in {0, 1}, NEW d \in {0, 1, Null}, NEW rs \in Seq(0 .. 3)
  PROVE  Reading(m, p, d, rs) \in Readings
  BY DEF Reading, Readings

\* The beginning of an instruction.
LEMMA MnemonicAdvances ==
  ASSUME TypeInv, Counts, Mnemonic
  PROVE  TypeInv' /\ Counts' /\ Follows /\ Labels
<1> DEFINE f == FirstAt(at)
           text == Tok(f).text
           pred == IF Is(at, "+") THEN 1 ELSE 0
<1>1. first = f /\ Pred = pred
  BY DEF TypeInv, first, Pred, FirstAt
<1>2. /\ at \in DOMAIN tokens /\ cur = Null /\ ~ Is(at, "(")
      /\ ~ Is(f + 1, ":") /\ text \in Mnemonics
  BY <1>1 DEF Mnemonic, KnownMnemonic, Named, BetweenStatements
<1>3. Quiet
  BY DEF Quiet, Mnemonic, KnownMnemonic, Named, BetweenStatements, Running, source
<1>4. MayDeref <=> Takes(text, "deref_src")
  BY <1>1 DEF MayDeref, Takes
<1>5. f \in Nat \ {0} /\ pred \in {0, 1}
  BY DEF TypeInv, FirstAt
<1>6. Place = PlaceOf(at, Null, pc) /\ Place.at = at /\ Place.cur = Null /\ Place.n = pc
  BY <1>2 DEF Place, PlaceOf, Cut
<1>7. ~ Final(Place) /\ ~ AtLabel(Place)
  BY <1>2, <1>6 DEF Final, AtLabel, TypeInv
<1> DEFINE next == AfterMnemonic(f, pred)
<1>8. After(Place) = PlaceOf(next.at, next.cur, pc)
  BY <1>2, <1>6 DEF After, AfterStatement
<1>9. /\ at' = next.at /\ cur' = next.cur
      /\ at' \in Nat \ {0} /\ cur' \in Readings
  <2>1. CASE Derefs
    <3>1. /\ Takes(text, "deref_src") /\ Is(f + 1, "[")
          /\ IsRegister(f + 2)
          /\ cur' = Reading(text, pred, 1, <<ToRegister(f + 2)>>)
          /\ at' = f + 4
      BY <1>1, <1>4, <2>1 DEF Derefs, Mnemonic
    <3>2. next = [at |-> f + 4, cur |-> Reading(text, pred, 1, <<ToRegister(f + 2)>>)]
      BY <3>1 DEF AfterMnemonic
    <3>3. <<ToRegister(f + 2)>> \in Seq(0 .. 3)
      BY <3>1, RegistersTyped
    <3> HIDE DEF f, text, pred
    <3>4. cur' \in Readings
      BY <1>2, <1>5, <3>1, <3>3, ReadingTyped
    <3>5. at' = next.at /\ cur' = next.cur
      BY <3>1, <3>2
    <3> QED  BY <1>5, <3>1, <3>4, <3>5
  <2>2. CASE ~ Derefs
    <3>1. /\ ~ (Takes(text, "deref_src") /\ Is(f + 1, "["))
          /\ cur' = Reading(text, pred, IF Takes(text, "deref_src") THEN 0 ELSE Null, << >>)
          /\ at' = f + 1
      BY <1>1, <1>4, <2>2 DEF Derefs, Mnemonic
    <3>2. next = [at |-> f + 1,
                  cur |-> Reading(text, pred, IF Takes(text, "deref_src") THEN 0 ELSE Null, << >>)]
      BY <3>1 DEF AfterMnemonic
    <3>3. << >> \in Seq(0 .. 3) /\ (IF Takes(text, "deref_src") THEN 0 ELSE Null) \in {0, 1, Null}
      OBVIOUS
    <3> HIDE DEF f, text, pred
    <3>4. cur' \in Readings
      BY <1>2, <1>5, <3>1, <3>3, ReadingTyped
    <3>5. at' = next.at /\ cur' = next.cur
      BY <3>1, <3>2
    <3> QED  BY <1>5, <3>1, <3>4, <3>5
  <2> QED  BY <2>1, <2>2
<1>10. Place' = PlaceOf(at', cur', pc)
  BY <1>3 DEF Place, PlaceOf, Cut, Quiet
<1>11. Place' = After(Place)
  BY <1>8, <1>9, <1>10
<1> QED  BY <1>3, <1>7, <1>9, <1>11, QuietAdvances

\* An operand more.
LEMMA TakeAdvances ==
  ASSUME TypeInv, Counts, InInstruction, NEW c \in Readings, Take(c),
         After(Place) = PlaceOf(at + 1, c, pc)
  PROVE  TypeInv' /\ Counts' /\ Follows /\ Labels
<1>1. Quiet /\ cur' = c /\ at' = at + 1
  BY DEF Quiet, Take, InInstruction, Running, source
<1>2. Place.cur # Null
  BY ReadingsTyped DEF InInstruction, TypeInv, Place, PlaceOf
<1>3. ~ Final(Place) /\ ~ AtLabel(Place)
  BY <1>2 DEF Final, AtLabel
<1>4. Place' = PlaceOf(at + 1, c, pc)
  BY <1>1 DEF Place, PlaceOf, Cut, Quiet
<1> QED  BY <1>1, <1>3, <1>4, QuietAdvances DEF TypeInv

\* The place of a pass that reads an instruction.
LEMMA PlaceInInstruction ==
  ASSUME TypeInv, InInstruction
  PROVE  /\ cur \in Readings
         /\ Place.at = at /\ Place.n = pc /\ Place.cur = Cut(cur) /\ Place.cur # Null
         /\ After(Place) = AfterOperand(Place)
         /\ Aims(Place.cur, at) <=> Is(at, "identifier") /\ cur.jump = Null /\ Has("jumpaddr")
<1>1. cur \in Readings
  BY DEF TypeInv, InInstruction
<1>2. Place.at = at /\ Place.n = pc /\ Place.cur = Cut(cur) /\ Place.cur # Null
  BY <1>1, ReadingsTyped DEF Place, PlaceOf
<1>3. After(Place) = AfterOperand(Place)
  BY <1>2 DEF After
<1>4. Cut(cur).mnemonic = cur.mnemonic /\ (Cut(cur).jump = Null <=> cur.jump = Null)
  BY <1>1, ReadingsTyped
<1>5. Aims(Cut(cur), at) <=> Is(at, "identifier") /\ cur.jump = Null /\ Has("jumpaddr")
  BY <1>4 DEF Aims, Has, Takes
<1> QED  BY <1>1, <1>2, <1>3, <1>5

LEMMA TakeRegisterAdvances ==
  ASSUME TypeInv, Counts, TakeRegister
  PROVE  TypeInv' /\ Counts' /\ Follows /\ Labels
<1> DEFINE rs == Append(cur.registers, ToRegister(at))
           c == [cur EXCEPT !.registers = rs]
<1>1. InInstruction /\ IsRegister(at) /\ Take(c)
  BY DEF TakeRegister
<1>2. cur \in Readings /\ Cut(cur).registers = cur.registers
  BY <1>1, PlaceInInstruction DEF Cut, WithoutTarget, Readings
<1>3. rs \in Seq(0 .. 3)
  BY <1>1, <1>2, RegistersTyped DEF Readings
<1>4. c \in Readings /\ Cut(c) = Cut([Cut(cur) EXCEPT !.registers = rs])
  <2> HIDE DEF rs
  <2> QED  BY <1>2, <1>3, TakenIsCut
<1>5. After(Place) = PlaceOf(at + 1, [Cut(cur) EXCEPT !.registers = rs], pc)
  BY <1>1, <1>2, PlaceInInstruction DEF AfterOperand
<1> HIDE DEF c, rs
<1>6. After(Place) = PlaceOf(at + 1, c, pc)
  BY <1>4, <1>5 DEF PlaceOf
<1> QED  BY <1>1, <1>4, <1>6, TakeAdvances

LEMMA TakeComparatorAdvances ==
  ASSUME TypeInv, Counts, TakeComparator
  PROVE  TypeInv' /\ Counts' /\ Follows /\ Labels
<1> DEFINE o == Comparators[Tok(at).type]
           c == [cur EXCEPT !.cmp = o]
<1>1. InInstruction /\ Tok(at).type \in DOMAIN Comparators /\ Take(c)
  BY DEF TakeComparator
<1>2. cur \in Readings
  BY <1>1, PlaceInInstruction
<1>3. o \in {0, 1, 2, 3} /\ IsComparator(at) /\ ~ IsRegister(at)
  BY <1>1 DEF Comparators, IsComparator, IsRegister, Is
<1>4. c \in Readings /\ Cut(c) = Cut([Cut(cur) EXCEPT !.cmp = o])
  <2> HIDE DEF o
  <2> QED  BY <1>2, <1>3, TakenIsCut
<1>5. After(Place) = PlaceOf(at + 1, [Cut(cur) EXCEPT !.cmp = o], pc)
  BY <1>1, <1>3, PlaceInInstruction DEF AfterOperand
<1> HIDE DEF c, o
<1>6. After(Place) = PlaceOf(at + 1, c, pc)
  BY <1>4, <1>5 DEF PlaceOf
<1> QED  BY <1>1, <1>4, <1>6, TakeAdvances

LEMMA TakeImmediateAdvances ==
  ASSUME TypeInv, Counts, TakeImmediate
  PROVE  TypeInv' /\ Counts' /\ Follows /\ Labels
<1> DEFINE is == Append(cur.imms, Tok(at).value)
           c == [cur EXCEPT !.imms = is]
<1>1. InInstruction /\ Is(at, "literal") /\ Take(c)
  BY DEF TakeImmediate
<1>2. cur \in Readings /\ Cut(cur).imms = cur.imms
  BY <1>1, PlaceInInstruction DEF Cut, WithoutTarget, Readings
<1>3. is \in Seq(Nat) /\ ~ IsRegister(at) /\ ~ IsComparator(at)
  <2>1. Tok(at).value \in Nat /\ cur.imms \in Seq(Nat)
    BY <1>2, ValuesTyped DEF TypeInv, Readings
  <2>2. ~ IsRegister(at) /\ ~ IsComparator(at)
    BY <1>1 DEF IsRegister, IsComparator, Is, Comparators, Swapped
  <2> QED  BY <2>1, <2>2
<1>4. c \in Readings /\ Cut(c) = Cut([Cut(cur) EXCEPT !.imms = is])
  <2> HIDE DEF is
  <2> QED  BY <1>2, <1>3, TakenIsCut
<1>5. After(Place) = PlaceOf(at + 1, [Cut(cur) EXCEPT !.imms = is], pc)
  BY <1>1, <1>2, <1>3, PlaceInInstruction DEF AfterOperand
<1> HIDE DEF c, is
<1>6. After(Place) = PlaceOf(at + 1, c, pc)
  BY <1>4, <1>5 DEF PlaceOf
<1> QED  BY <1>1, <1>4, <1>6, TakeAdvances

LEMMA TakeLabelAdvances ==
  ASSUME TypeInv, Counts, TakeLabel
  PROVE  TypeInv' /\ Counts' /\ Follows /\ Labels
<1> DEFINE a == IF pass = 1 THEN 0 ELSE labels[Tok(at).text] % 64
           c == [cur EXCEPT !.jump = a]
<1>1. IsTarget /\ (pass = 1 \/ Tok(at).text \in DOMAIN labels) /\ Take(c)
  BY DEF TakeLabel
<1>2. /\ InInstruction /\ Is(at, "identifier") /\ ~ IsRegister(at)
      /\ cur.jump = Null /\ Has("jumpaddr")
  BY <1>1 DEF IsTarget
<1>3. cur \in Readings /\ Aims(Cut(cur), at)
  BY <1>2, PlaceInInstruction
<1>4. a \in Nat
  BY <1>1 DEF TypeInv
<1>5. ~ IsComparator(at) /\ ~ Is(at, "literal")
  BY <1>2 DEF IsComparator, Is, Comparators, Swapped
<1>6. c \in Readings /\ Cut(c) = Cut([Cut(cur) EXCEPT !.jump = 0])
  <2> HIDE DEF a
  <2> QED  BY <1>3, <1>4, TakenIsCut
<1>7. After(Place) = PlaceOf(at + 1, [Cut(cur) EXCEPT !.jump = 0], pc)
  BY <1>2, <1>3, <1>5, PlaceInInstruction DEF AfterOperand
<1> HIDE DEF c, a
<1>8. After(Place) = PlaceOf(at + 1, c, pc)
  BY <1>6, <1>7 DEF PlaceOf
<1> QED  BY <1>1, <1>2, <1>6, <1>8, TakeAdvances

\* The end of an instruction.
LEMMA EndFollows ==
  ASSUME TypeInv, AtEnd
  PROVE  /\ ~ Final(Place) /\ ~ AtLabel(Place)
         /\ After(Place) = PlaceOf(at, Null, pc + 1)
<1>1. /\ InInstruction /\ ~ IsRegister(at) /\ ~ IsComparator(at) /\ ~ Is(at, "literal")
      /\ ~ (Is(at, "identifier") /\ cur.jump = Null /\ Has("jumpaddr"))
  BY DEF AtEnd, IsTarget
<1>2. ~ Final(Place) /\ ~ AtLabel(Place)
  BY <1>1, PlaceInInstruction DEF Final, AtLabel
<1> QED  BY <1>1, <1>2, PlaceInInstruction DEF AfterOperand

LEMMA CountAdvances ==
  ASSUME TypeInv, Counts, Count
  PROVE  TypeInv' /\ Counts' /\ Follows /\ Labels
<1>1. /\ AtEnd /\ pass = 1 /\ cur' = Null
      /\ counted' = counted + 1 /\ pc' = pc + 1
      /\ UNCHANGED <<tokens, pass, at, labels, emitted>>
      /\ verdict = "none" /\ verdict' \in {"none", "rejected"}
  BY DEF Count, AtEnd, InInstruction, Running, source
<1>2. TypeInv'
  BY <1>1 DEF TypeInv, EmittedTyped
<1>3. Counts'
  BY <1>1 DEF Counts
<1>4. Place' = PlaceOf(at, Null, pc + 1)
  BY <1>1 DEF Place, PlaceOf, Cut
<1>5. Follows
  BY <1>1, <1>4, EndFollows DEF Follows
<1>6. Labels
  BY <1>1, EndFollows DEF Labels
<1> QED  BY <1>2, <1>3, <1>5, <1>6

LEMMA DispatchAdvances ==
  ASSUME TypeInv, Counts, Dispatch
  PROVE  TypeInv' /\ Counts' /\ Follows /\ Labels
<1>1. /\ AtEnd /\ pass = 2 /\ cur' = Null /\ pc' = pc + 1
      /\ UNCHANGED <<tokens, pass, at, counted, labels>>
      /\ verdict = "none"
  BY DEF Dispatch, AtEnd, InInstruction, Running, source
<1> DEFINE w == Word(cur)
<1>2. \/ verdict' \in {"none", "rejected"} /\ emitted' = Append(emitted, w)
      \/ verdict' = "aborted" /\ emitted' = emitted
  BY <1>1 DEF Dispatch
<1>3. PICK S : emitted \in Seq(S)
  BY DEF TypeInv, EmittedTyped
<1> HIDE DEF w
<1>4. Append(emitted, w) \in Seq(S \cup {w}) /\ Len(Append(emitted, w)) = Len(emitted) + 1
  BY <1>3
<1>5. EmittedTyped'
  BY <1>2, <1>3, <1>4 DEF EmittedTyped
<1>6. TypeInv'
  BY <1>1, <1>5 DEF TypeInv
<1>7. Counts'
  BY <1>1, <1>2, <1>4 DEF Counts
<1>8. Place' = PlaceOf(at, Null, pc + 1)
  BY <1>1 DEF Place, PlaceOf, Cut
<1>9. Follows
  BY <1>1, <1>2, <1>8, EndFollows DEF Follows
<1>10. Labels
  BY <1>1 DEF Labels
<1> QED  BY <1>6, <1>7, <1>9, <1>10

----------------------------------------------------------------------------

\* The set of places left behind grows by the successor.
LEMMA FirstPassGrows ==
  ASSUME NEW V, FirstPass(V), pass = 1, Follows, Labels
  PROVE  \E W : FirstPass(W)'
<1>1. PICK p : p = Place'
  OBVIOUS
<1> DEFINE W == V \cup {p}
<1>2. /\ p = After(Place) /\ ~ Final(Place) /\ UNCHANGED tokens
      /\ p = Place'
  BY <1>1 DEF Follows
<1>3. (Start \in W)' /\ (Place \in W)'
  BY <1>2 DEF FirstPass, Start, PlaceOf, Cut
<1>4. ASSUME NEW c \in W, c # p
      PROVE  /\ (~ Final(c))' /\ (After(c) \in W)'
             /\ AtLabel(c)' => NameAt(c)' \in DOMAIN labels' /\ labels'[NameAt(c)'] = c.n
  <2>1. c \in V
    BY <1>4
  <2>2. c = Place => ~ Final(c) /\ After(c) \in W
    BY <1>2
  <2>3. c # Place => ~ Final(c) /\ After(c) \in W
    BY <2>1 DEF FirstPass
  <2>4. c = Place => (AtLabel(c) => NameAt(c) \in DOMAIN labels' /\ labels'[NameAt(c)] = c.n)
    BY DEF Labels, Place, PlaceOf
  <2>5. c # Place => (AtLabel(c) => NameAt(c) \in DOMAIN labels' /\ labels'[NameAt(c)] = c.n)
    BY <2>1 DEF Labels, FirstPass
  <2>6. /\ Final(c)' <=> Final(c)
        /\ AtLabel(c)' <=> AtLabel(c)
        /\ NameAt(c)' = NameAt(c)
        /\ After(c)' = After(c)
    BY <1>2, PlacesOfTokens
  <2>7. ~ Final(c) /\ After(c) \in W
    BY <2>2, <2>3
  <2> HIDE DEF W
  <2>8. (~ Final(c))' /\ (After(c) \in W)'
    BY <2>6, <2>7
  <2>9. AtLabel(c)' => NameAt(c)' \in DOMAIN labels' /\ labels'[NameAt(c)'] = c.n
    BY <2>4, <2>5, <2>6
  <2> QED  BY <2>8, <2>9
<1> HIDE DEF W
<1>5. FirstPass(W)'
  BY <1>2, <1>3, <1>4 DEF FirstPass
<1> QED  BY <1>5

\* The second pass stays in the set.
LEMMA SecondPassStays ==
  ASSUME NEW V, SecondPass(V), pass = 2, Follows, Labels
  PROVE  SecondPass(V)'
<1>1. Place' = After(Place) /\ ~ Final(Place) /\ UNCHANGED <<tokens, labels, counted>>
  BY DEF Follows, Labels
<1>2. (Place \in V)'
  BY <1>1 DEF SecondPass
<1>3. ASSUME NEW c \in V
      PROVE  /\ Final(c)' => c.n = counted'
             /\ ~ Final(c)' => After(c)' \in V
             /\ AtLabel(c)' => labels'[NameAt(c)'] = c.n
  <2>1. /\ Final(c)' <=> Final(c)
        /\ AtLabel(c)' <=> AtLabel(c)
        /\ NameAt(c)' = NameAt(c)
        /\ After(c)' = After(c)
    BY <1>1, PlacesOfTokens
  <2>2. /\ Final(c) => c.n = counted
        /\ ~ Final(c) => After(c) \in V
        /\ AtLabel(c) => labels[NameAt(c)] = c.n
    BY DEF SecondPass
  <2> QED  BY <1>1, <2>1, <2>2
<1> QED  BY <1>2, <1>3 DEF SecondPass

\* The set that the first pass leaves behind is that of the second.
LEMMA PassEnds ==
  ASSUME NEW V, FirstPass(V), TypeInv, Counts, pass = 1, EndPass
  PROVE  SecondPass(V)'
<1>1. /\ cur = Null /\ at > Len(tokens) /\ at' = 1 /\ pc' = 0
      /\ UNCHANGED <<tokens, counted, labels, cur>>
  BY DEF EndPass, source
<1>2. (Place \in V)'
  BY <1>1 DEF Place, Start, FirstPass
<1>3. Final(Place) /\ Place.n = counted /\ ~ AtLabel(Place)
  BY <1>1 DEF Final, AtLabel, Place, PlaceOf, Cut, Counts, TypeInv
<1>4. ASSUME NEW c \in V
      PROVE  /\ Final(c)' => c.n = counted'
             /\ ~ Final(c)' => After(c)' \in V
             /\ AtLabel(c)' => labels'[NameAt(c)'] = c.n
  <2>1. /\ Final(c)' <=> Final(c)
        /\ AtLabel(c)' <=> AtLabel(c)
        /\ NameAt(c)' = NameAt(c)
        /\ After(c)' = After(c)
    BY <1>1, PlacesOfTokens
  <2>2. /\ Final(c) => c.n = counted
        /\ ~ Final(c) => After(c) \in V
        /\ AtLabel(c) => labels[NameAt(c)] = c.n
    BY <1>3 DEF FirstPass
  <2> QED  BY <1>1, <2>1, <2>2
<1> QED  BY <1>2, <1>4 DEF SecondPass

----------------------------------------------------------------------------
Advance ==
  \/ Pad \/ Label \/ Mnemonic \/ TakeRegister \/ TakeComparator \/ TakeImmediate
  \/ TakeLabel \/ Count \/ Dispatch
Failing == Running /\ \E message : Fail(message)

\* A step of a pass goes on, fails, ends the pass or does nothing.
LEMMA StepKinds == Next <=> Advance \/ PadFails \/ LabelFails \/ MnemonicFails
                              \/ OperandFails \/ EndPass \/ Returned
  BY DEF Next, Step, Advance

LEMMA FailuresFail ==
  ASSUME PadFails \/ LabelFails \/ MnemonicFails \/ OperandFails
  PROVE  Failing
<1>1. CASE PadFails
  BY <1>1 DEF PadFails, Failing, BetweenStatements
<1>2. CASE LabelFails
  BY <1>2 DEF LabelFails, Failing, Named, BetweenStatements
<1>3. CASE MnemonicFails
  BY <1>3 DEF MnemonicFails, Failing, KnownMnemonic, Named, BetweenStatements
<1>4. CASE OperandFails
  BY <1>4 DEF OperandFails, Failing, IsTarget, InInstruction
<1> QED  BY <1>1, <1>2, <1>3, <1>4

LEMMA AdvanceAdvances ==
  ASSUME TypeInv, Counts, Advance
  PROVE  TypeInv' /\ Counts' /\ Follows /\ Labels
  BY PadAdvances, LabelAdvances, MnemonicAdvances, TakeRegisterAdvances, TakeComparatorAdvances,
     TakeImmediateAdvances, TakeLabelAdvances, CountAdvances, DispatchAdvances DEF Advance

\* A pass that stands still.
LEMMA Rests ==
  ASSUME AssemblerInv, UNCHANGED <<tokens, pass, at, pc, counted, labels, cur, emitted>>,
         \/ verdict' = verdict
         \/ verdict = "none" /\ verdict' = "rejected"
         \/ verdict = "none" /\ verdict' = "accepted" /\ pass = 2 /\ Final(Place)
  PROVE  AssemblerInv'
<1>1. TypeInv' /\ Counts'
  BY DEF AssemblerInv, TypeInv, Counts, EmittedTyped
<1>2. Place' = Place /\ Start' = Start
  BY DEF Place, Start, PlaceOf, Cut
<1>3. ASSUME NEW c
      PROVE  /\ Final(c)' <=> Final(c)
             /\ AtLabel(c)' <=> AtLabel(c)
             /\ NameAt(c)' = NameAt(c)
             /\ After(c)' = After(c)
  BY PlacesOfTokens
<1>4. ASSUME NEW V, FirstPass(V)
      PROVE  FirstPass(V)'
  BY <1>2, <1>3, <1>4 DEF FirstPass
<1>5. ASSUME NEW V, SecondPass(V)
      PROVE  SecondPass(V)'
  BY <1>2, <1>3, <1>5 DEF SecondPass
<1>6. Final(Place)' <=> Final(Place)
  <2>1. PICK p : p = Place
    OBVIOUS
  <2>2. Final(p)' <=> Final(p)
    BY <1>3
  <2> QED  BY <1>2, <2>1, <2>2 DEF Final
<1>7. Accepted' => pass' = 2 /\ Final(Place)'
  BY <1>6 DEF Accepted, AssemblerInv, PassesInv
<1>8. pass' = 1 => \E V : FirstPass(V)'
  BY <1>4 DEF AssemblerInv, PassesInv
<1>9. pass' = 2 => \E V : SecondPass(V)'
  BY <1>5 DEF AssemblerInv, PassesInv
<1>10. PassesInv'
  BY <1>7, <1>8, <1>9 DEF PassesInv
<1> QED  BY <1>1, <1>10 DEF AssemblerInv

\* The first pass has left nothing behind.
LEMMA Initially == Init => AssemblerInv
<1> SUFFICES ASSUME Init
             PROVE  AssemblerInv
  OBVIOUS
<1>1. /\ pass = 1 /\ at = 1 /\ pc = 0 /\ counted = 0
      /\ labels = << >> /\ cur = Null /\ emitted = << >> /\ verdict = "none"
  BY DEF Init
<1>2. tokens \in Seq(TokenSet)
  BY AssemblerAssumption DEF Init
<1>3. EmittedTyped
  BY <1>1 DEF EmittedTyped
<1>4. TypeInv
  BY <1>1, <1>2, <1>3 DEF TypeInv
<1>5. Counts
  BY <1>1 DEF Counts
<1>6. Place = Start
  BY <1>1 DEF Place, Start
<1>7. FirstPass({Start})
  BY <1>6 DEF FirstPass
<1>8. PassesInv
  BY <1>1, <1>7 DEF PassesInv, Accepted
<1> QED  BY <1>4, <1>5, <1>8 DEF AssemblerInv

\* Every step keeps the invariant.
LEMMA Preserved == AssemblerInv /\ [Next]_vars => AssemblerInv'
<1> SUFFICES ASSUME AssemblerInv, [Next]_vars
             PROVE  AssemblerInv'
  OBVIOUS
<1>1. pass \in {1, 2}
  BY DEF AssemblerInv, TypeInv
<1>2. CASE Advance
  <2>1. TypeInv' /\ Counts' /\ Follows /\ Labels
    BY <1>2, AdvanceAdvances DEF AssemblerInv
  <2>2. pass' = pass /\ ~ Accepted'
    BY <2>1 DEF Follows, Accepted
  <2>3. pass = 1 => \E W : FirstPass(W)'
    BY <2>1, FirstPassGrows DEF AssemblerInv, PassesInv
  <2>4. pass = 2 => \E W : SecondPass(W)'
    BY <2>1, SecondPassStays DEF AssemblerInv, PassesInv
  <2>5. PassesInv'
    BY <2>2, <2>3, <2>4 DEF PassesInv
  <2> QED  BY <2>1, <2>5 DEF AssemblerInv
<1>3. CASE PadFails \/ LabelFails \/ MnemonicFails \/ OperandFails
  <2>1. Failing
    BY <1>3, FailuresFail
  <2>2. UNCHANGED <<tokens, pass, at, pc, counted, labels, cur, emitted>>
    BY <2>1 DEF Failing, Fail, source
  <2>3. verdict = "none" /\ verdict' = "rejected"
    BY <2>1 DEF Failing, Fail, Running
  <2> QED  BY <2>2, <2>3, Rests
<1>4. CASE EndPass /\ pass = 1
  <2>1. /\ pass' = 2 /\ at' = 1 /\ pc' = 0 /\ verdict' = "none"
        /\ UNCHANGED <<tokens, counted, labels, cur, emitted>>
    BY <1>4 DEF EndPass, Running, source
  <2>2. TypeInv'
    BY <2>1 DEF TypeInv, EmittedTyped, AssemblerInv
  <2>3. Counts'
    BY <1>4, <2>1 DEF Counts, AssemblerInv
  <2>4. \E V : SecondPass(V)'
    BY <1>4, PassEnds DEF AssemblerInv, PassesInv
  <2>5. PassesInv'
    BY <2>1, <2>4 DEF PassesInv, Accepted
  <2> QED  BY <2>2, <2>3, <2>5 DEF AssemblerInv
<1>5. CASE EndPass /\ pass = 2
  <2>1. Final(Place)
    BY <1>5 DEF EndPass, Final, Place, PlaceOf, Cut
  <2>2. /\ verdict = "none" /\ verdict' = "accepted"
        /\ UNCHANGED <<tokens, pass, at, pc, counted, labels, cur, emitted>>
    BY <1>5 DEF EndPass, Running, source
  <2> QED  BY <1>5, <2>1, <2>2, Rests
<1>6. CASE Returned \/ UNCHANGED vars
  <2>1. UNCHANGED <<tokens, pass, at, pc, counted, labels, cur, emitted, verdict>>
    BY <1>6 DEF Returned, vars, source
  <2> QED  BY <2>1, Rests
<1> QED  BY <1>1, <1>2, <1>3, <1>4, <1>5, <1>6, StepKinds

\* The invariant is what the run checks, and more.
LEMMA InvImplies == AssemblerInv => PassesAgree
<1> SUFFICES ASSUME AssemblerInv, pass = 2
             PROVE  /\ BetweenStatements /\ Is(first + 1, ":") =>
                         labels[Tok(first).text] = Len(emitted)
                    /\ Accepted => Len(emitted) = counted
  BY DEF PassesAgree
<1>1. PICK V : SecondPass(V)
  BY DEF AssemblerInv, PassesInv
<1>2. Place \in V /\ Place.n = pc
  BY <1>1 DEF SecondPass, Place, PlaceOf
<1>3. verdict # "aborted" => Len(emitted) = pc
  BY DEF AssemblerInv, Counts
<1>4. ASSUME BetweenStatements, Is(first + 1, ":")
      PROVE  labels[Tok(first).text] = Len(emitted)
  <2>1. first = FirstAt(at)
    BY DEF first, Pred, FirstAt, AssemblerInv, TypeInv
  <2>2. AtLabel(Place) /\ NameAt(Place) = Tok(first).text
    BY <1>4, <2>1 DEF AtLabel, NameAt, Place, PlaceOf, Cut, BetweenStatements
  <2>3. labels[Tok(first).text] = pc
    BY <1>1, <1>2, <2>2 DEF SecondPass
  <2>4. verdict = "none"
    BY <1>4 DEF BetweenStatements, Running
  <2> QED  BY <1>3, <2>3, <2>4
<1>5. ASSUME Accepted
      PROVE  Len(emitted) = counted
  <2>1. Final(Place) /\ verdict = "accepted"
    BY <1>5 DEF AssemblerInv, PassesInv, Accepted
  <2>2. pc = counted
    BY <1>1, <1>2, <2>1 DEF SecondPass
  <2> QED  BY <1>3, <2>1, <2>2
<1> QED  BY <1>4, <1>5

\* The passes agree, whatever the tokens: when the second pass comes to a label it
\* has emitted as many words as the label's address says, and in the end as many
\* as the first pass has counted.
THEOREM AddressesAreRight == Spec => []PassesAgree
  BY Initially, Preserved, InvImplies, PTL DEF Spec

----------------------------------------------------------------------------
(* Sums of the values of a function.                                        *)

\* A set of numbers has a smallest.
LEMMA LeastElement ==
  ASSUME NEW T \in SUBSET Nat, T # {}
  PROVE  \E m \in T : \A k \in T : m <= k
<1> DEFINE R == OpToRel(<, Nat)
<1>1. PICK m \in T : \A k \in T : ~ (<<k, m>> \in R)
  <2> HIDE DEF R
  <2>1. IsWellFoundedOn(R, Nat)
    BY NatLessThanWellFounded DEF R
  <2> QED  BY <2>1, WFMin
<1>2. \A k \in Nat : k < m => <<k, m>> \in R
  BY DEF OpToRel
<1>3. \A k \in T : ~ (k < m)
  BY <1>1, <1>2
<1>4. \A k \in T : m <= k
  <2> HIDE DEF R
  <2> QED  BY <1>3
<1> QED  BY <1>4

\* Induction on the size of the subsets of a finite set: a set B of subsets that has one has
\* one of the smallest size.
LEMMA SmallestOf ==
  ASSUME NEW D, IsFiniteSet(D), NEW B \in SUBSET (SUBSET D), B # {}
  PROVE  \E s \in B : \A x \in s : s \ {x} \notin B
<1> DEFINE T == {Cardinality(s) : s \in B}
<1>1. \A s \in B : IsFiniteSet(s) /\ Cardinality(s) \in Nat
  BY FS_Subset, FS_CardinalityType
<1>2. T \in SUBSET Nat /\ T # {}
  BY <1>1
<1>3. PICK m \in T : \A k \in T : m <= k
  <2> HIDE DEF T
  <2> QED  BY <1>2, LeastElement
<1>4. PICK s \in B : m = Cardinality(s)
  OBVIOUS
<1>5. ASSUME NEW x \in s, s \ {x} \in B  PROVE FALSE
  <2>1. Cardinality(s \ {x}) = Cardinality(s) - 1
    BY <1>1, FS_RemoveElement
  <2>2. Cardinality(s \ {x}) \in T
    BY <1>5
  <2> HIDE DEF T
  <2> QED  BY <1>1, <1>3, <1>4, <2>1, <2>2
<1> QED  BY <1>5

\* f summed over the subsets of its domain, element by element in any order.
Sums(f, G) ==
  /\ G[{}] = 0
  /\ \A s \in SUBSET DOMAIN f : \A x \in s : G[s] = f[x] + G[s \ {x}]

\* There are such sums, ...
LEMMA SumsExist ==
  ASSUME NEW f, IsFiniteSet(DOMAIN f), \A x \in DOMAIN f : f[x] \in Nat
  PROVE  \E G \in [SUBSET DOMAIN f -> Nat] : Sums(f, G)
<1> DEFINE D == DOMAIN f
           Right(E, G) == /\ G[{}] = 0
                          /\ \A s \in SUBSET E : \A x \in s : G[s] = f[x] + G[s \ {x}]
           B == {E \in SUBSET D : ~ \E G \in [SUBSET E -> Nat] : Right(E, G)}
<1>1. ASSUME B # {}  PROVE FALSE
  <2>1. PICK E \in B : \A x \in E : E \ {x} \notin B
    <3> HIDE DEF B
    <3>1. B \in SUBSET (SUBSET D)
      BY DEF B
    <3> HIDE DEF D
    <3> QED  BY <1>1, <3>1, SmallestOf DEF D
  <2>2. E # {}
    <3> DEFINE G == [s \in SUBSET {} |-> 0]
    <3>1. G \in [SUBSET {} -> Nat] /\ Right({}, G)
      OBVIOUS
    <3> QED  BY <2>1, <3>1
  <2>3. PICK e \in E : TRUE
    BY <2>2
  <2> DEFINE F == E \ {e}
  <2>4. PICK H \in [SUBSET F -> Nat] : Right(F, H)
    BY <2>1, <2>3
  <2> DEFINE G == [s \in SUBSET E |-> H[s \ {e}] + IF e \in s THEN f[e] ELSE 0]
  <2>5. e \in D /\ f[e] \in Nat /\ \A s \in SUBSET E : s \ {e} \in SUBSET F /\ H[s \ {e}] \in Nat
    BY <2>3, <2>4
  <2>6. G \in [SUBSET E -> Nat]
    BY <2>5
  <2>7. G[{}] = 0
    <3>1. {} \ {e} = {} /\ H[{}] = 0 /\ {} \in SUBSET E
      BY <2>4
    <3> QED  BY <3>1
  <2>8. ASSUME NEW s \in SUBSET E, NEW x \in s  PROVE G[s] = f[x] + G[s \ {x}]
    <3>1. s \ {x} \in SUBSET E /\ f[x] \in Nat
      OBVIOUS
    <3>2. CASE x = e
      <4>1. (s \ {x}) \ {e} = s \ {e} /\ e \notin s \ {x}
        BY <3>2
      <4>2. G[s] = H[s \ {e}] + f[e] /\ G[s \ {x}] = H[s \ {e}] + 0
        BY <3>1, <3>2, <4>1
      <4> HIDE DEF G
      <4> QED  BY <2>5, <3>2, <4>2
    <3>3. CASE x # e
      <4> DEFINE t == s \ {e}
                 more == IF e \in s THEN f[e] ELSE 0
      <4>1. t \in SUBSET F /\ x \in t /\ (s \ {x}) \ {e} = t \ {x} /\ (e \in s \ {x} <=> e \in s)
        BY <3>3
      <4>2. H[t] = f[x] + H[t \ {x}]
        BY <2>4, <4>1
      <4>3. G[s] = H[t] + more /\ G[s \ {x}] = H[t \ {x}] + more
        BY <3>1, <4>1
      <4>4. H[t] \in Nat /\ H[t \ {x}] \in Nat /\ more \in Nat
        BY <2>4, <2>5, <4>1
      <4> HIDE DEF G, t, more
      <4> QED  BY <3>1, <4>2, <4>3, <4>4
    <3> QED  BY <3>2, <3>3
  <2>9. Right(E, G)
    BY <2>7, <2>8
  <2> HIDE DEF G, Right
  <2> QED  BY <2>1, <2>6, <2>9
<1>2. D \notin B
  BY <1>1
<1> QED  BY <1>2 DEF Sums

\* ... and a fold that chooses its elements finds the sum.
LEMMA FoldIsSum ==
  ASSUME NEW f, IsFiniteSet(DOMAIN f), NEW G, Sums(f, G), NEW iter,
         iter = [s \in SUBSET DOMAIN f |->
                   IF s = {} THEN 0
                   ELSE LET x == CHOOSE x \in s : TRUE IN f[x] + iter[s \ {x}]]
  PROVE  iter[DOMAIN f] = G[DOMAIN f]
<1> DEFINE D == DOMAIN f
           B == {s \in SUBSET D : iter[s] # G[s]}
<1>1. ASSUME B # {}  PROVE FALSE
  <2>1. PICK s \in B : \A x \in s : s \ {x} \notin B
    <3> HIDE DEF B
    <3>1. B \in SUBSET (SUBSET D)
      BY DEF B
    <3> HIDE DEF D
    <3> QED  BY <1>1, <3>1, SmallestOf DEF D
  <2>2. CASE s = {}
    BY <2>1, <2>2 DEF Sums
  <2>3. CASE s # {}
    <3> DEFINE x == CHOOSE x \in s : TRUE
    <3>1. x \in s
      BY <2>3
    <3>2. iter[s] = f[x] + iter[s \ {x}]
      BY <2>1, <2>3
    <3> HIDE DEF x
    <3>3. s \ {x} \in SUBSET D /\ iter[s \ {x}] = G[s \ {x}]
      BY <2>1, <3>1
    <3>4. G[s] = f[x] + G[s \ {x}]
      BY <2>1, <3>1 DEF Sums
    <3> QED  BY <2>1, <3>2, <3>3, <3>4
  <2> QED  BY <2>2, <2>3
<1> QED  BY <1>1

\* FoldFunction with + is such a sum of the values of a function.
LEMMA TotalIsSum ==
  ASSUME NEW f, IsFiniteSet(DOMAIN f), \A x \in DOMAIN f : f[x] \in Nat, NEW G, Sums(f, G)
  PROVE  FoldFunction(+, 0, f) = G[DOMAIN f]
<1> DEFINE D == DOMAIN f
           Own(a) == a = [s \in SUBSET D |->
                            IF s = {} THEN 0
                            ELSE LET x == CHOOSE x \in s : TRUE IN f[x] + a[s \ {x}]]
           iter == CHOOSE a : Own(a)
<1>1. FoldFunction(+, 0, f) = iter[D]
  BY DEF FoldFunction, FoldFunctionOnSet, MapThenFoldSet
<1>2. PICK H \in [SUBSET D -> Nat] : Sums(f, H)
  BY SumsExist
<1>3. Own(H)
  <2> DEFINE H1 == [s \in SUBSET D |->
                      IF s = {} THEN 0 ELSE LET x == CHOOSE x \in s : TRUE IN f[x] + H[s \ {x}]]
  <2>1. H = [s \in SUBSET D |-> H[s]]
    BY <1>2
  <2>2. \A s \in SUBSET D :
          H[s] = IF s = {} THEN 0 ELSE LET x == CHOOSE x \in s : TRUE IN f[x] + H[s \ {x}]
    BY <1>2 DEF Sums
  <2>3. [s \in SUBSET D |-> H[s]] = H1
    BY <2>2
  <2> QED  BY <2>1, <2>3
<1>4. Own(iter)
  BY <1>3
<1> HIDE DEF iter
<1>5. iter[D] = G[D]
  BY <1>4, FoldIsSum
<1> QED  BY <1>1, <1>5

----------------------------------------------------------------------------
(* Words and their bits.                                                    *)

Bits == 0 .. 10
SumOf(b) == b[0] + 2 * b[1] + 4 * b[2] + 8 * b[3] + 16 * b[4] + 32 * b[5] + 64 * b[6]
            + 128 * b[7] + 256 * b[8] + 512 * b[9] + 1024 * b[10]

\* The powers of 2 that there are in a word.
LEMMA PowersOf2 ==
  /\ 2 ^ 0 = 1 /\ 2 ^ 1 = 2 /\ 2 ^ 2 = 4 /\ 2 ^ 3 = 8 /\ 2 ^ 4 = 16 /\ 2 ^ 5 = 32
  /\ 2 ^ 6 = 64 /\ 2 ^ 7 = 128 /\ 2 ^ 8 = 256 /\ 2 ^ 9 = 512 /\ 2 ^ 10 = 1024
OBVIOUS

\* A word is the sum of its bits.
LEMMA WordIsSum ==
  ASSUME NEW c \in Words
  PROVE  /\ \A j \in Bits : BitOf(c, j) \in {0, 1}
         /\ c = SumOf([j \in Bits |-> BitOf(c, j)])
<1> DEFINE q(k) == c \div k
<1>1. /\ q(1) = c /\ q(2) = q(1) \div 2 /\ q(4) = q(2) \div 2 /\ q(8) = q(4) \div 2
      /\ q(16) = q(8) \div 2 /\ q(32) = q(16) \div 2 /\ q(64) = q(32) \div 2
      /\ q(128) = q(64) \div 2 /\ q(256) = q(128) \div 2 /\ q(512) = q(256) \div 2
      /\ q(1024) = q(512) \div 2 /\ q(1024) \in {0, 1}
  BY DEF Words
<1>2. /\ q(1) \in Nat /\ q(2) \in Nat /\ q(4) \in Nat /\ q(8) \in Nat
      /\ q(16) \in Nat /\ q(32) \in Nat /\ q(64) \in Nat /\ q(128) \in Nat
      /\ q(256) \in Nat /\ q(512) \in Nat /\ q(1024) \in Nat
  BY DEF Words
<1>3. /\ BitOf(c, 0) = q(1) % 2 /\ BitOf(c, 1) = q(2) % 2
      /\ BitOf(c, 2) = q(4) % 2 /\ BitOf(c, 3) = q(8) % 2
      /\ BitOf(c, 4) = q(16) % 2 /\ BitOf(c, 5) = q(32) % 2
      /\ BitOf(c, 6) = q(64) % 2 /\ BitOf(c, 7) = q(128) % 2
      /\ BitOf(c, 8) = q(256) % 2 /\ BitOf(c, 9) = q(512) % 2
      /\ BitOf(c, 10) = q(1024) % 2
  BY PowersOf2 DEF BitOf
<1> DEFINE d(j) == BitOf(c, j)
<1> HIDE DEF q
<1>4. \A n \in Nat : n = 2 * (n \div 2) + (n % 2) /\ n % 2 \in {0, 1}
  OBVIOUS
<1>5. /\ q(1) = 2 * q(2) + BitOf(c, 0) /\ q(2) = 2 * q(4) + BitOf(c, 1)
      /\ q(4) = 2 * q(8) + BitOf(c, 2) /\ q(8) = 2 * q(16) + BitOf(c, 3)
      /\ q(16) = 2 * q(32) + BitOf(c, 4) /\ q(32) = 2 * q(64) + BitOf(c, 5)
      /\ q(64) = 2 * q(128) + BitOf(c, 6) /\ q(128) = 2 * q(256) + BitOf(c, 7)
      /\ q(256) = 2 * q(512) + BitOf(c, 8) /\ q(512) = 2 * q(1024) + BitOf(c, 9)
      /\ q(1024) = 2 * 0 + BitOf(c, 10)
  <2>1. q(1024) % 2 = q(1024)
    BY <1>1
  <2>2. \A n \in Nat : \A m, r : m = n \div 2 /\ r = n % 2 => n = 2 * m + r
    BY <1>4
  <2>3. q(1) = 2 * q(2) + BitOf(c, 0)
    BY <1>1, <1>2, <1>3, <2>2
  <2>4. q(2) = 2 * q(4) + BitOf(c, 1)
    BY <1>1, <1>2, <1>3, <2>2
  <2>5. q(4) = 2 * q(8) + BitOf(c, 2)
    BY <1>1, <1>2, <1>3, <2>2
  <2>6. q(8) = 2 * q(16) + BitOf(c, 3)
    BY <1>1, <1>2, <1>3, <2>2
  <2>7. q(16) = 2 * q(32) + BitOf(c, 4)
    BY <1>1, <1>2, <1>3, <2>2
  <2>8. q(32) = 2 * q(64) + BitOf(c, 5)
    BY <1>1, <1>2, <1>3, <2>2
  <2>9. q(64) = 2 * q(128) + BitOf(c, 6)
    BY <1>1, <1>2, <1>3, <2>2
  <2>10. q(128) = 2 * q(256) + BitOf(c, 7)
    BY <1>1, <1>2, <1>3, <2>2
  <2>11. q(256) = 2 * q(512) + BitOf(c, 8)
    BY <1>1, <1>2, <1>3, <2>2
  <2>12. q(512) = 2 * q(1024) + BitOf(c, 9)
    BY <1>1, <1>2, <1>3, <2>2
  <2>13. q(1024) = 2 * 0 + BitOf(c, 10)
    BY <1>1, <1>3, <2>1
  <2> QED  BY <2>3, <2>4, <2>5, <2>6, <2>7, <2>8, <2>9, <2>10, <2>11, <2>12, <2>13
<1>6. \A j \in Bits : d(j) \in {0, 1}
  BY <1>2, <1>3, <1>4 DEF Bits
<1>7. SumOf([j \in Bits |-> BitOf(c, j)]) =
        d(0) + 2 * d(1) + 4 * d(2) + 8 * d(3) + 16 * d(4) + 32 * d(5) + 64 * d(6)
          + 128 * d(7) + 256 * d(8) + 512 * d(9) + 1024 * d(10)
  BY DEF SumOf, Bits
<1>8. c = d(0) + 2 * d(1) + 4 * d(2) + 8 * d(3) + 16 * d(4) + 32 * d(5) + 64 * d(6)
          + 128 * d(7) + 256 * d(8) + 512 * d(9) + 1024 * d(10)
  <2>1. d(0) \in Int /\ d(1) \in Int /\ d(2) \in Int /\ d(3) \in Int /\ d(4) \in Int /\ d(5) \in Int
        /\ d(6) \in Int /\ d(7) \in Int /\ d(8) \in Int /\ d(9) \in Int /\ d(10) \in Int
    BY <1>6 DEF Bits
  <2> HIDE DEF d
  <2>2. c = q(1)
    BY <1>1
  <2> QED  BY <1>2, <1>5, <2>1, <2>2 DEF d
<1> QED  BY <1>6, <1>7, <1>8

\* Eleven bits make a word.
LEMMA Below2048 ==
  ASSUME NEW x0 \in {0, 1}, NEW x1 \in {0, 1}, NEW x2 \in {0, 1}, NEW x3 \in {0, 1},
         NEW x4 \in {0, 1}, NEW x5 \in {0, 1}, NEW x6 \in {0, 1}, NEW x7 \in {0, 1},
         NEW x8 \in {0, 1}, NEW x9 \in {0, 1}, NEW x10 \in {0, 1}
  PROVE  x0 + 2 * x1 + 4 * x2 + 8 * x3 + 16 * x4 + 32 * x5 + 64 * x6
            + 128 * x7 + 256 * x8 + 512 * x9 + 1024 * x10 \in Words
<1> DEFINE l == x0 + 2 * x1 + 4 * x2 + 8 * x3 
           m == x4 + 2 * x5 + 4 * x6 + 8 * x7
           h == x8 + 2 * x9 + 4 * x10
<1>1. l \in 0 .. 15
  OBVIOUS
<1>2. m \in 0 .. 15
  OBVIOUS
<1>3. h \in 0 .. 7
  OBVIOUS
<1>4. x0 + 2 * x1 + 4 * x2 + 8 * x3 + 16 * x4 + 32 * x5 + 64 * x6
            + 128 * x7 + 256 * x8 + 512 * x9 + 1024 * x10 = l + 16 * m + 256 * h
  OBVIOUS
<1> HIDE DEF l, m, h
<1>5. l + 16 * m + 256 * h \in Words
  BY <1>1, <1>2, <1>3 DEF Words
<1> QED  BY <1>4, <1>5

\* The sum of eleven bits is a word with these bits.
LEMMA SumHasBits ==
  ASSUME NEW b \in [Bits -> {0, 1}]
  PROVE  SumOf(b) \in Words /\ \A j \in Bits : BitOf(SumOf(b), j) = b[j]
<1>1. \A j \in Bits : b[j] \in {0, 1}
  OBVIOUS
<1> DEFINE w == SumOf(b)
<1>2. w \in Words
  <2>1. /\ b[0] \in {0, 1} /\ b[1] \in {0, 1} /\ b[2] \in {0, 1} /\ b[3] \in {0, 1}
        /\ b[4] \in {0, 1} /\ b[5] \in {0, 1} /\ b[6] \in {0, 1} /\ b[7] \in {0, 1}
        /\ b[8] \in {0, 1} /\ b[9] \in {0, 1} /\ b[10] \in {0, 1}
    BY <1>1 DEF Bits
  <2> QED  BY <2>1, Below2048 DEF SumOf
<1>3. BitOf(w, 0) = b[0]
  <2>1. w \div 1 = b[0] + 2 * b[1] + 4 * b[2] + 8 * b[3] + 16 * b[4] + 32 * b[5]
                   + 64 * b[6] + 128 * b[7] + 256 * b[8] + 512 * b[9] + 1024 * b[10]
    BY <1>1 DEF Bits, SumOf
  <2> HIDE DEF w
  <2> QED  BY <1>1, <2>1, PowersOf2 DEF Bits, BitOf
<1>4. BitOf(w, 1) = b[1]
  <2>1. w \div 2 = b[1] + 2 * b[2] + 4 * b[3] + 8 * b[4] + 16 * b[5] + 32 * b[6]
                   + 64 * b[7] + 128 * b[8] + 256 * b[9] + 512 * b[10]
    BY <1>1 DEF Bits, SumOf
  <2> HIDE DEF w
  <2> QED  BY <1>1, <2>1, PowersOf2 DEF Bits, BitOf
<1>5. BitOf(w, 2) = b[2]
  <2>1. w \div 4 = b[2] + 2 * b[3] + 4 * b[4] + 8 * b[5] + 16 * b[6] + 32 * b[7]
                   + 64 * b[8] + 128 * b[9] + 256 * b[10]
    BY <1>1 DEF Bits, SumOf
  <2> HIDE DEF w
  <2> QED  BY <1>1, <2>1, PowersOf2 DEF Bits, BitOf
<1>6. BitOf(w, 3) = b[3]
  <2>1. w \div 8 = b[3] + 2 * b[4] + 4 * b[5] + 8 * b[6] + 16 * b[7] + 32 * b[8]
                   + 64 * b[9] + 128 * b[10]
    BY <1>1 DEF Bits, SumOf
  <2> HIDE DEF w
  <2> QED  BY <1>1, <2>1, PowersOf2 DEF Bits, BitOf
<1>7. BitOf(w, 4) = b[4]
  <2>1. w \div 16 = b[4] + 2 * b[5] + 4 * b[6] + 8 * b[7] + 16 * b[8] + 32 * b[9] + 64 * b[10]
    BY <1>1 DEF Bits, SumOf
  <2> HIDE DEF w
  <2> QED  BY <1>1, <2>1, PowersOf2 DEF Bits, BitOf
<1>8. BitOf(w, 5) = b[5]
  <2>1. w \div 32 = b[5] + 2 * b[6] + 4 * b[7] + 8 * b[8] + 16 * b[9] + 32 * b[10]
    BY <1>1 DEF Bits, SumOf
  <2> HIDE DEF w
  <2> QED  BY <1>1, <2>1, PowersOf2 DEF Bits, BitOf
<1>9. BitOf(w, 6) = b[6]
  <2>1. w \div 64 = b[6] + 2 * b[7] + 4 * b[8] + 8 * b[9] + 16 * b[10]
    BY <1>1 DEF Bits, SumOf
  <2> HIDE DEF w
  <2> QED  BY <1>1, <2>1, PowersOf2 DEF Bits, BitOf
<1>10. BitOf(w, 7) = b[7]
  <2>1. w \div 128 = b[7] + 2 * b[8] + 4 * b[9] + 8 * b[10]
    BY <1>1 DEF Bits, SumOf
  <2> HIDE DEF w
  <2> QED  BY <1>1, <2>1, PowersOf2 DEF Bits, BitOf
<1>11. BitOf(w, 8) = b[8]
  <2>1. w \div 256 = b[8] + 2 * b[9] + 4 * b[10]
    BY <1>1 DEF Bits, SumOf
  <2> HIDE DEF w
  <2> QED  BY <1>1, <2>1, PowersOf2 DEF Bits, BitOf
<1>12. BitOf(w, 9) = b[9]
  <2>1. w \div 512 = b[9] + 2 * b[10]
    BY <1>1 DEF Bits, SumOf
  <2> HIDE DEF w
  <2> QED  BY <1>1, <2>1, PowersOf2 DEF Bits, BitOf
<1>13. BitOf(w, 10) = b[10]
  <2>1. w \div 1024 = b[10]
    BY <1>1 DEF Bits, SumOf
  <2> HIDE DEF w
  <2> QED  BY <1>1, <2>1, PowersOf2 DEF Bits, BitOf
<1> QED  BY <1>2, <1>3, <1>4, <1>5, <1>6, <1>7, <1>8, <1>9, <1>10, <1>11, <1>12, <1>13 DEF Bits

\* A number below 2 in bit 10 of a word, where it had none.
LEMMA Added10to10 ==
  ASSUME NEW c \in Nat, c < 2048, \A j \in 10 .. 10 : BitOf(c, j) = 0, NEW v \in Nat, v < 2
  PROVE  LET w == c + v * 1024
         IN  /\ w \in Words /\ (w \div 1024) % 2 = v
             /\ \A j \in Bits \ (10 .. 10) : BitOf(w, j) = BitOf(c, j)
<1> DEFINE w == c + v * 1024
<1>1. (c \div 1024) % 2 = 0
  BY PowersOf2 DEF BitOf
<1>2. PICK top \in 0 .. 0 : \E r \in 0 .. 1023 : c = 2048 * top + r
  <2> DEFINE q == c \div 1024
             t == q \div 2
  <2>1. q \in 0 .. 1 /\ c % 1024 \in 0 .. 1023 /\ c = 1024 * q + (c % 1024)
    OBVIOUS
  <2> DEFINE r == c % 1024
  <2> HIDE DEF q, r
  <2>2. t \in 0 .. 0 /\ q = 2 * t
    BY <1>1, <2>1 DEF q
  <2> HIDE DEF t
  <2>3. c = 2048 * t + r
    BY <2>1, <2>2 DEF r
  <2> QED  BY <2>1, <2>2, <2>3 DEF r
<1>3. PICK r \in 0 .. 1023 : c = 2048 * top + r
  BY <1>2
<1>4. w \in 0 .. 2047
  BY <1>3
<1>5. w \div 1024 = 2 * top + v
  BY <1>3
<1>6. (w \div 1024) % 2 = v
  BY <1>5
<1>7. /\ (w \div 1) % 2 = (c \div 1) % 2 /\ (w \div 2) % 2 = (c \div 2) % 2
  BY <1>3
<1>8. /\ (w \div 4) % 2 = (c \div 4) % 2 /\ (w \div 8) % 2 = (c \div 8) % 2
  BY <1>3
<1>9. /\ (w \div 16) % 2 = (c \div 16) % 2 /\ (w \div 32) % 2 = (c \div 32) % 2
  BY <1>3
<1>10. /\ (w \div 64) % 2 = (c \div 64) % 2 /\ (w \div 128) % 2 = (c \div 128) % 2
  BY <1>3
<1>11. /\ (w \div 256) % 2 = (c \div 256) % 2 /\ (w \div 512) % 2 = (c \div 512) % 2
  BY <1>3
<1>12. \A j \in Bits \ (10 .. 10) : BitOf(w, j) = BitOf(c, j)
  <2>1. Bits \ (10 .. 10) = {0, 1, 2, 3, 4, 5, 6, 7, 8, 9}
    BY DEF Bits
  <2> HIDE DEF w
  <2>2. /\ BitOf(w, 0) = BitOf(c, 0) /\ BitOf(w, 1) = BitOf(c, 1)
        /\ BitOf(w, 2) = BitOf(c, 2) /\ BitOf(w, 3) = BitOf(c, 3)
        /\ BitOf(w, 4) = BitOf(c, 4) /\ BitOf(w, 5) = BitOf(c, 5)
        /\ BitOf(w, 6) = BitOf(c, 6) /\ BitOf(w, 7) = BitOf(c, 7)
        /\ BitOf(w, 8) = BitOf(c, 8) /\ BitOf(w, 9) = BitOf(c, 9)
    BY <1>7, <1>8, <1>9, <1>10, <1>11, PowersOf2 DEF BitOf
  <2> QED  BY <2>1, <2>2
<1> QED  BY <1>4, <1>6, <1>12 DEF Words

\* A number below 16 in bits 2 to 5 of a word, where it had none.
LEMMA Added2to5 ==
  ASSUME NEW c \in Nat, c < 2048, \A j \in 2 .. 5 : BitOf(c, j) = 0, NEW v \in Nat, v < 16
  PROVE  LET w == c + v * 4
         IN  /\ w \in Words /\ (w \div 4) % 16 = v
             /\ \A j \in Bits \ (2 .. 5) : BitOf(w, j) = BitOf(c, j)
<1> DEFINE w == c + v * 4
<1>1. (c \div 4) % 16 = 0
  BY PowersOf2 DEF BitOf
<1>2. PICK top \in 0 .. 31 : \E r \in 0 .. 3 : c = 64 * top + r
  <2> DEFINE q == c \div 4
             t == q \div 16
  <2>1. q \in 0 .. 511 /\ c % 4 \in 0 .. 3 /\ c = 4 * q + (c % 4)
    OBVIOUS
  <2> DEFINE r == c % 4
  <2> HIDE DEF q, r
  <2>2. t \in 0 .. 31 /\ q = 16 * t
    BY <1>1, <2>1 DEF q
  <2> HIDE DEF t
  <2>3. c = 64 * t + r
    BY <2>1, <2>2 DEF r
  <2> QED  BY <2>1, <2>2, <2>3 DEF r
<1>3. PICK r \in 0 .. 3 : c = 64 * top + r
  BY <1>2
<1>4. w \in 0 .. 2047
  BY <1>3
<1>5. w \div 4 = 16 * top + v
  BY <1>3
<1>6. (w \div 4) % 16 = v
  BY <1>5
<1>7. /\ (w \div 1) % 2 = (c \div 1) % 2 /\ (w \div 2) % 2 = (c \div 2) % 2
  BY <1>3
<1>8. /\ w \div 64 = top \div 1 /\ w \div 128 = top \div 2
  BY <1>3
<1>9. /\ c \div 64 = top \div 1 /\ c \div 128 = top \div 2
  BY <1>3
<1>10. /\ w \div 256 = top \div 4 /\ w \div 512 = top \div 8
  BY <1>3
<1>11. /\ c \div 256 = top \div 4 /\ c \div 512 = top \div 8
  BY <1>3
<1>12. w \div 1024 = top \div 16
  BY <1>3
<1>13. c \div 1024 = top \div 16
  BY <1>3
<1>14. \A j \in Bits \ (2 .. 5) : BitOf(w, j) = BitOf(c, j)
  <2>1. Bits \ (2 .. 5) = {0, 1, 6, 7, 8, 9, 10}
    BY DEF Bits
  <2> HIDE DEF w
  <2>2. /\ BitOf(w, 0) = BitOf(c, 0) /\ BitOf(w, 1) = BitOf(c, 1)
        /\ BitOf(w, 6) = BitOf(c, 6) /\ BitOf(w, 7) = BitOf(c, 7)
        /\ BitOf(w, 8) = BitOf(c, 8) /\ BitOf(w, 9) = BitOf(c, 9)
        /\ BitOf(w, 10) = BitOf(c, 10)
    BY <1>7, <1>8, <1>9, <1>10, <1>11, <1>12, <1>13, PowersOf2 DEF BitOf
  <2> QED  BY <2>1, <2>2
<1> QED  BY <1>4, <1>6, <1>14 DEF Words

\* A number below 4 in bits 6 and 7.
LEMMA Added6to7 ==
  ASSUME NEW c \in Nat, c < 2048, \A j \in 6 .. 7 : BitOf(c, j) = 0, NEW v \in Nat, v < 4
  PROVE  LET w == c + v * 64
         IN  /\ w \in Words /\ (w \div 64) % 4 = v
             /\ \A j \in Bits \ (6 .. 7) : BitOf(w, j) = BitOf(c, j)
<1> DEFINE w == c + v * 64
<1>1. (c \div 64) % 4 = 0
  BY PowersOf2 DEF BitOf
<1>2. PICK top \in 0 .. 7 : \E r \in 0 .. 63 : c = 256 * top + r
  <2> DEFINE q == c \div 64
             t == q \div 4
  <2>1. q \in 0 .. 31 /\ c % 64 \in 0 .. 63 /\ c = 64 * q + (c % 64)
    OBVIOUS
  <2> DEFINE r == c % 64
  <2> HIDE DEF q, r
  <2>2. t \in 0 .. 7 /\ q = 4 * t
    BY <1>1, <2>1 DEF q
  <2> HIDE DEF t
  <2>3. c = 256 * t + r
    BY <2>1, <2>2 DEF r
  <2> QED  BY <2>1, <2>2, <2>3 DEF r
<1>3. PICK r \in 0 .. 63 : c = 256 * top + r
  BY <1>2
<1>4. w \in 0 .. 2047
  BY <1>3
<1>5. w \div 64 = 4 * top + v
  BY <1>3
<1>6. (w \div 64) % 4 = v
  BY <1>5
<1>7. /\ (w \div 1) % 2 = (c \div 1) % 2 /\ (w \div 2) % 2 = (c \div 2) % 2
  BY <1>3
<1>8. /\ (w \div 4) % 2 = (c \div 4) % 2 /\ (w \div 8) % 2 = (c \div 8) % 2
  BY <1>3
<1>9. /\ (w \div 16) % 2 = (c \div 16) % 2 /\ (w \div 32) % 2 = (c \div 32) % 2
  BY <1>3
<1>10. /\ w \div 256 = top \div 1 /\ w \div 512 = top \div 2
  BY <1>3
<1>11. /\ c \div 256 = top \div 1 /\ c \div 512 = top \div 2
  BY <1>3
<1>12. w \div 1024 = top \div 4
  BY <1>3
<1>13. c \div 1024 = top \div 4
  BY <1>3
<1>14. \A j \in Bits \ (6 .. 7) : BitOf(w, j) = BitOf(c, j)
  <2>1. Bits \ (6 .. 7) = {0, 1, 2, 3, 4, 5, 8, 9, 10}
    BY DEF Bits
  <2> HIDE DEF w
  <2>2. /\ BitOf(w, 0) = BitOf(c, 0) /\ BitOf(w, 1) = BitOf(c, 1)
        /\ BitOf(w, 2) = BitOf(c, 2) /\ BitOf(w, 3) = BitOf(c, 3)
        /\ BitOf(w, 4) = BitOf(c, 4) /\ BitOf(w, 5) = BitOf(c, 5)
        /\ BitOf(w, 8) = BitOf(c, 8) /\ BitOf(w, 9) = BitOf(c, 9)
        /\ BitOf(w, 10) = BitOf(c, 10)
    BY <1>7, <1>8, <1>9, <1>10, <1>11, <1>12, <1>13, PowersOf2 DEF BitOf
  <2> QED  BY <2>1, <2>2
<1> QED  BY <1>4, <1>6, <1>14 DEF Words

\* A number below 4 in bits 8 and 9.
LEMMA Added8to9 ==
  ASSUME NEW c \in Nat, c < 2048, \A j \in 8 .. 9 : BitOf(c, j) = 0, NEW v \in Nat, v < 4
  PROVE  LET w == c + v * 256
         IN  /\ w \in Words /\ (w \div 256) % 4 = v
             /\ \A j \in Bits \ (8 .. 9) : BitOf(w, j) = BitOf(c, j)
<1> DEFINE w == c + v * 256
<1>1. (c \div 256) % 4 = 0
  BY PowersOf2 DEF BitOf
<1>2. PICK top \in 0 .. 1 : \E r \in 0 .. 255 : c = 1024 * top + r
  <2> DEFINE q == c \div 256
             t == q \div 4
  <2>1. q \in 0 .. 7 /\ c % 256 \in 0 .. 255 /\ c = 256 * q + (c % 256)
    OBVIOUS
  <2> DEFINE r == c % 256
  <2> HIDE DEF q, r
  <2>2. t \in 0 .. 1 /\ q = 4 * t
    BY <1>1, <2>1 DEF q
  <2> HIDE DEF t
  <2>3. c = 1024 * t + r
    BY <2>1, <2>2 DEF r
  <2> QED  BY <2>1, <2>2, <2>3 DEF r
<1>3. PICK r \in 0 .. 255 : c = 1024 * top + r
  BY <1>2
<1>4. w \in 0 .. 2047
  BY <1>3
<1>5. w \div 256 = 4 * top + v
  BY <1>3
<1>6. (w \div 256) % 4 = v
  BY <1>5
<1>7. /\ (w \div 1) % 2 = (c \div 1) % 2 /\ (w \div 2) % 2 = (c \div 2) % 2
  BY <1>3
<1>8. /\ (w \div 4) % 2 = (c \div 4) % 2 /\ (w \div 8) % 2 = (c \div 8) % 2
  BY <1>3
<1>9. /\ (w \div 16) % 2 = (c \div 16) % 2 /\ (w \div 32) % 2 = (c \div 32) % 2
  BY <1>3
<1>10. /\ (w \div 64) % 2 = (c \div 64) % 2 /\ (w \div 128) % 2 = (c \div 128) % 2
  BY <1>3
<1>11. w \div 1024 = top \div 1
  BY <1>3
<1>12. c \div 1024 = top \div 1
  BY <1>3
<1>13. \A j \in Bits \ (8 .. 9) : BitOf(w, j) = BitOf(c, j)
  <2>1. Bits \ (8 .. 9) = {0, 1, 2, 3, 4, 5, 6, 7, 10}
    BY DEF Bits
  <2> HIDE DEF w
  <2>2. /\ BitOf(w, 0) = BitOf(c, 0) /\ BitOf(w, 1) = BitOf(c, 1)
        /\ BitOf(w, 2) = BitOf(c, 2) /\ BitOf(w, 3) = BitOf(c, 3)
        /\ BitOf(w, 4) = BitOf(c, 4) /\ BitOf(w, 5) = BitOf(c, 5)
        /\ BitOf(w, 6) = BitOf(c, 6) /\ BitOf(w, 7) = BitOf(c, 7)
        /\ BitOf(w, 10) = BitOf(c, 10)
    BY <1>7, <1>8, <1>9, <1>10, <1>11, <1>12, PowersOf2 DEF BitOf
  <2> QED  BY <2>1, <2>2
<1> QED  BY <1>4, <1>6, <1>13 DEF Words

\* A number below 4 in bits 4 and 5.
LEMMA Added4to5 ==
  ASSUME NEW c \in Nat, c < 2048, \A j \in 4 .. 5 : BitOf(c, j) = 0, NEW v \in Nat, v < 4
  PROVE  LET w == c + v * 16
         IN  /\ w \in Words /\ (w \div 16) % 4 = v
             /\ \A j \in Bits \ (4 .. 5) : BitOf(w, j) = BitOf(c, j)
<1> DEFINE w == c + v * 16
<1>1. (c \div 16) % 4 = 0
  BY PowersOf2 DEF BitOf
<1>2. PICK top \in 0 .. 31 : \E r \in 0 .. 15 : c = 64 * top + r
  <2> DEFINE q == c \div 16
             t == q \div 4
  <2>1. q \in 0 .. 127 /\ c % 16 \in 0 .. 15 /\ c = 16 * q + (c % 16)
    OBVIOUS
  <2> DEFINE r == c % 16
  <2> HIDE DEF q, r
  <2>2. t \in 0 .. 31 /\ q = 4 * t
    BY <1>1, <2>1 DEF q
  <2> HIDE DEF t
  <2>3. c = 64 * t + r
    BY <2>1, <2>2 DEF r
  <2> QED  BY <2>1, <2>2, <2>3 DEF r
<1>3. PICK r \in 0 .. 15 : c = 64 * top + r
  BY <1>2
<1>4. w \in 0 .. 2047
  BY <1>3
<1>5. w \div 16 = 4 * top + v
  BY <1>3
<1>6. (w \div 16) % 4 = v
  BY <1>5
<1>7. /\ (w \div 1) % 2 = (c \div 1) % 2 /\ (w \div 2) % 2 = (c \div 2) % 2
  BY <1>3
<1>8. /\ (w \div 4) % 2 = (c \div 4) % 2 /\ (w \div 8) % 2 = (c \div 8) % 2
  BY <1>3
<1>9. /\ w \div 64 = top \div 1 /\ w \div 128 = top \div 2
  BY <1>3
<1>10. /\ c \div 64 = top \div 1 /\ c \div 128 = top \div 2
  BY <1>3
<1>11. /\ w \div 256 = top \div 4 /\ w \div 512 = top \div 8
  BY <1>3
<1>12. /\ c \div 256 = top \div 4 /\ c \div 512 = top \div 8
  BY <1>3
<1>13. w \div 1024 = top \div 16
  BY <1>3
<1>14. c \div 1024 = top \div 16
  BY <1>3
<1>15. \A j \in Bits \ (4 .. 5) : BitOf(w, j) = BitOf(c, j)
  <2>1. Bits \ (4 .. 5) = {0, 1, 2, 3, 6, 7, 8, 9, 10}
    BY DEF Bits
  <2> HIDE DEF w
  <2>2. /\ BitOf(w, 0) = BitOf(c, 0) /\ BitOf(w, 1) = BitOf(c, 1)
        /\ BitOf(w, 2) = BitOf(c, 2) /\ BitOf(w, 3) = BitOf(c, 3)
        /\ BitOf(w, 6) = BitOf(c, 6) /\ BitOf(w, 7) = BitOf(c, 7)
        /\ BitOf(w, 8) = BitOf(c, 8) /\ BitOf(w, 9) = BitOf(c, 9)
        /\ BitOf(w, 10) = BitOf(c, 10)
    BY <1>7, <1>8, <1>9, <1>10, <1>11, <1>12, <1>13, <1>14, PowersOf2 DEF BitOf
  <2> QED  BY <2>1, <2>2
<1> QED  BY <1>4, <1>6, <1>15 DEF Words

\* A number below 2 in bit 6.
LEMMA Added6to6 ==
  ASSUME NEW c \in Nat, c < 2048, \A j \in 6 .. 6 : BitOf(c, j) = 0, NEW v \in Nat, v < 2
  PROVE  LET w == c + v * 64
         IN  /\ w \in Words /\ (w \div 64) % 2 = v
             /\ \A j \in Bits \ (6 .. 6) : BitOf(w, j) = BitOf(c, j)
<1> DEFINE w == c + v * 64
<1>1. (c \div 64) % 2 = 0
  BY PowersOf2 DEF BitOf
<1>2. PICK top \in 0 .. 15 : \E r \in 0 .. 63 : c = 128 * top + r
  <2> DEFINE q == c \div 64
             t == q \div 2
  <2>1. q \in 0 .. 31 /\ c % 64 \in 0 .. 63 /\ c = 64 * q + (c % 64)
    OBVIOUS
  <2> DEFINE r == c % 64
  <2> HIDE DEF q, r
  <2>2. t \in 0 .. 15 /\ q = 2 * t
    BY <1>1, <2>1 DEF q
  <2> HIDE DEF t
  <2>3. c = 128 * t + r
    BY <2>1, <2>2 DEF r
  <2> QED  BY <2>1, <2>2, <2>3 DEF r
<1>3. PICK r \in 0 .. 63 : c = 128 * top + r
  BY <1>2
<1>4. w \in 0 .. 2047
  BY <1>3
<1>5. w \div 64 = 2 * top + v
  BY <1>3
<1>6. (w \div 64) % 2 = v
  BY <1>5
<1>7. /\ (w \div 1) % 2 = (c \div 1) % 2 /\ (w \div 2) % 2 = (c \div 2) % 2
  BY <1>3
<1>8. /\ (w \div 4) % 2 = (c \div 4) % 2 /\ (w \div 8) % 2 = (c \div 8) % 2
  BY <1>3
<1>9. /\ (w \div 16) % 2 = (c \div 16) % 2 /\ (w \div 32) % 2 = (c \div 32) % 2
  BY <1>3
<1>10. /\ w \div 128 = top \div 1 /\ w \div 256 = top \div 2
  BY <1>3
<1>11. /\ c \div 128 = top \div 1 /\ c \div 256 = top \div 2
  BY <1>3
<1>12. /\ w \div 512 = top \div 4 /\ w \div 1024 = top \div 8
  BY <1>3
<1>13. /\ c \div 512 = top \div 4 /\ c \div 1024 = top \div 8
  BY <1>3
<1>14. \A j \in Bits \ (6 .. 6) : BitOf(w, j) = BitOf(c, j)
  <2>1. Bits \ (6 .. 6) = {0, 1, 2, 3, 4, 5, 7, 8, 9, 10}
    BY DEF Bits
  <2> HIDE DEF w
  <2>2. /\ BitOf(w, 0) = BitOf(c, 0) /\ BitOf(w, 1) = BitOf(c, 1)
        /\ BitOf(w, 2) = BitOf(c, 2) /\ BitOf(w, 3) = BitOf(c, 3)
        /\ BitOf(w, 4) = BitOf(c, 4) /\ BitOf(w, 5) = BitOf(c, 5)
        /\ BitOf(w, 7) = BitOf(c, 7) /\ BitOf(w, 8) = BitOf(c, 8)
        /\ BitOf(w, 9) = BitOf(c, 9) /\ BitOf(w, 10) = BitOf(c, 10)
    BY <1>7, <1>8, <1>9, <1>10, <1>11, <1>12, <1>13, PowersOf2 DEF BitOf
  <2> QED  BY <2>1, <2>2
<1> QED  BY <1>4, <1>6, <1>14 DEF Words

\* A number below 64 in bits 4 to 9.
LEMMA Added4to9 ==
  ASSUME NEW c \in Nat, c < 2048, \A j \in 4 .. 9 : BitOf(c, j) = 0, NEW v \in Nat, v < 64
  PROVE  LET w == c + v * 16
         IN  /\ w \in Words /\ (w \div 16) % 64 = v
             /\ \A j \in Bits \ (4 .. 9) : BitOf(w, j) = BitOf(c, j)
<1> DEFINE w == c + v * 16
<1>1. (c \div 16) % 64 = 0
  BY PowersOf2 DEF BitOf
<1>2. PICK top \in 0 .. 1 : \E r \in 0 .. 15 : c = 1024 * top + r
  <2> DEFINE q == c \div 16
             t == q \div 64
  <2>1. q \in 0 .. 127 /\ c % 16 \in 0 .. 15 /\ c = 16 * q + (c % 16)
    OBVIOUS
  <2> DEFINE r == c % 16
  <2> HIDE DEF q, r
  <2>2. t \in 0 .. 1 /\ q = 64 * t
    BY <1>1, <2>1 DEF q
  <2> HIDE DEF t
  <2>3. c = 1024 * t + r
    BY <2>1, <2>2 DEF r
  <2> QED  BY <2>1, <2>2, <2>3 DEF r
<1>3. PICK r \in 0 .. 15 : c = 1024 * top + r
  BY <1>2
<1>4. w \in 0 .. 2047
  BY <1>3
<1>5. w \div 16 = 64 * top + v
  BY <1>3
<1>6. (w \div 16) % 64 = v
  BY <1>5
<1>7. /\ (w \div 1) % 2 = (c \div 1) % 2 /\ (w \div 2) % 2 = (c \div 2) % 2
  BY <1>3
<1>8. /\ (w \div 4) % 2 = (c \div 4) % 2 /\ (w \div 8) % 2 = (c \div 8) % 2
  BY <1>3
<1>9. w \div 1024 = top \div 1
  BY <1>3
<1>10. c \div 1024 = top \div 1
  BY <1>3
<1>11. \A j \in Bits \ (4 .. 9) : BitOf(w, j) = BitOf(c, j)
  <2>1. Bits \ (4 .. 9) = {0, 1, 2, 3, 10}
    BY DEF Bits
  <2> HIDE DEF w
  <2>2. /\ BitOf(w, 0) = BitOf(c, 0) /\ BitOf(w, 1) = BitOf(c, 1)
        /\ BitOf(w, 2) = BitOf(c, 2) /\ BitOf(w, 3) = BitOf(c, 3)
        /\ BitOf(w, 10) = BitOf(c, 10)
    BY <1>7, <1>8, <1>9, <1>10, PowersOf2 DEF BitOf
  <2> QED  BY <2>1, <2>2
<1> QED  BY <1>4, <1>6, <1>11 DEF Words

\* A field, the number of values it has, and its lowest bit.
FieldAt(p, high, low) == Fields[p].bits = <<high, low>>

\* The fields of the instruction set and their bits.
LEMMA FieldPlaces ==
  /\ DOMAIN Fields = {"pred", "imm", "cmp", "lhs", "rhs", "dst", "src", "dstaddr", "val",
                      "deref_src", "jumpaddr"}
  /\ FieldAt("pred", 10, 10) /\ FieldAt("imm", 5, 2) /\ FieldAt("cmp", 7, 6)
  /\ FieldAt("lhs", 9, 8) /\ FieldAt("dst", 9, 8) /\ FieldAt("dstaddr", 9, 8)
  /\ FieldAt("rhs", 5, 4) /\ FieldAt("src", 5, 4) /\ FieldAt("val", 6, 6)
  /\ FieldAt("deref_src", 6, 6) /\ FieldAt("jumpaddr", 9, 4)
BY DEF Fields, FieldAt, Field

\* An operand that fits its field is what is extracted from it, and changes no other bit.
LEMMA FieldAdded ==
  ASSUME NEW p \in DOMAIN Fields, NEW c \in Words, \A j \in BitsOf(p) : BitOf(c, j) = 0,
         NEW v \in Nat, FitsIn(p, v)
  PROVE  LET w == c + v * 2 ^ Fields[p].bits[2]
         IN  /\ w \in Words /\ Extract(w, Fields[p].bits) = v
             /\ \A j \in Bits \ BitsOf(p) : BitOf(w, j) = BitOf(c, j)
<1>1. ASSUME NEW high \in Bits, NEW low \in Bits, FieldAt(p, high, low)
      PROVE  /\ BitsOf(p) = low .. high /\ Fields[p].bits[2] = low
             /\ FitsIn(p, v) <=> v < 2 ^ (high - low + 1)
             /\ \A w : Extract(w, Fields[p].bits) = (w \div 2 ^ low) % 2 ^ (high - low + 1)
  BY <1>1 DEF FieldAt, BitsOf, FitsIn, Extract
<1>2. CASE FieldAt(p, 10, 10)
  <2>1. /\ BitsOf(p) = 10 .. 10 /\ Fields[p].bits[2] = 10 /\ v < 2
        /\ \A w : Extract(w, Fields[p].bits) = (w \div 1024) % 2
    BY <1>1, <1>2, PowersOf2 DEF Bits
  <2>2. \A j \in 10 .. 10 : BitOf(c, j) = 0
    BY <2>1
  <2> DEFINE w == c + v * 1024
  <2>3. /\ w \in Words /\ (w \div 1024) % 2 = v
        /\ \A j \in Bits \ (10 .. 10) : BitOf(w, j) = BitOf(c, j)
    BY <2>1, <2>2, Added10to10 DEF Words
  <2>4. c + v * 2 ^ Fields[p].bits[2] = w
    BY <2>1, PowersOf2
  <2> HIDE DEF w
  <2> QED  BY <2>1, <2>3, <2>4
<1>3. CASE FieldAt(p, 5, 2)
  <2>1. /\ BitsOf(p) = 2 .. 5 /\ Fields[p].bits[2] = 2 /\ v < 16
        /\ \A w : Extract(w, Fields[p].bits) = (w \div 4) % 16
    BY <1>1, <1>3, PowersOf2 DEF Bits
  <2>2. \A j \in 2 .. 5 : BitOf(c, j) = 0
    BY <2>1
  <2> DEFINE w == c + v * 4
  <2>3. /\ w \in Words /\ (w \div 4) % 16 = v
        /\ \A j \in Bits \ (2 .. 5) : BitOf(w, j) = BitOf(c, j)
    BY <2>1, <2>2, Added2to5 DEF Words
  <2>4. c + v * 2 ^ Fields[p].bits[2] = w
    BY <2>1, PowersOf2
  <2> HIDE DEF w
  <2> QED  BY <2>1, <2>3, <2>4
<1>4. CASE FieldAt(p, 7, 6)
  <2>1. /\ BitsOf(p) = 6 .. 7 /\ Fields[p].bits[2] = 6 /\ v < 4
        /\ \A w : Extract(w, Fields[p].bits) = (w \div 64) % 4
    BY <1>1, <1>4, PowersOf2 DEF Bits
  <2>2. \A j \in 6 .. 7 : BitOf(c, j) = 0
    BY <2>1
  <2> DEFINE w == c + v * 64
  <2>3. /\ w \in Words /\ (w \div 64) % 4 = v
        /\ \A j \in Bits \ (6 .. 7) : BitOf(w, j) = BitOf(c, j)
    BY <2>1, <2>2, Added6to7 DEF Words
  <2>4. c + v * 2 ^ Fields[p].bits[2] = w
    BY <2>1, PowersOf2
  <2> HIDE DEF w
  <2> QED  BY <2>1, <2>3, <2>4
<1>5. CASE FieldAt(p, 9, 8)
  <2>1. /\ BitsOf(p) = 8 .. 9 /\ Fields[p].bits[2] = 8 /\ v < 4
        /\ \A w : Extract(w, Fields[p].bits) = (w \div 256) % 4
    BY <1>1, <1>5, PowersOf2 DEF Bits
  <2>2. \A j \in 8 .. 9 : BitOf(c, j) = 0
    BY <2>1
  <2> DEFINE w == c + v * 256
  <2>3. /\ w \in Words /\ (w \div 256) % 4 = v
        /\ \A j \in Bits \ (8 .. 9) : BitOf(w, j) = BitOf(c, j)
    BY <2>1, <2>2, Added8to9 DEF Words
  <2>4. c + v * 2 ^ Fields[p].bits[2] = w
    BY <2>1, PowersOf2
  <2> HIDE DEF w
  <2> QED  BY <2>1, <2>3, <2>4
<1>6. CASE FieldAt(p, 5, 4)
  <2>1. /\ BitsOf(p) = 4 .. 5 /\ Fields[p].bits[2] = 4 /\ v < 4
        /\ \A w : Extract(w, Fields[p].bits) = (w \div 16) % 4
    BY <1>1, <1>6, PowersOf2 DEF Bits
  <2>2. \A j \in 4 .. 5 : BitOf(c, j) = 0
    BY <2>1
  <2> DEFINE w == c + v * 16
  <2>3. /\ w \in Words /\ (w \div 16) % 4 = v
        /\ \A j \in Bits \ (4 .. 5) : BitOf(w, j) = BitOf(c, j)
    BY <2>1, <2>2, Added4to5 DEF Words
  <2>4. c + v * 2 ^ Fields[p].bits[2] = w
    BY <2>1, PowersOf2
  <2> HIDE DEF w
  <2> QED  BY <2>1, <2>3, <2>4
<1>7. CASE FieldAt(p, 6, 6)
  <2>1. /\ BitsOf(p) = 6 .. 6 /\ Fields[p].bits[2] = 6 /\ v < 2
        /\ \A w : Extract(w, Fields[p].bits) = (w \div 64) % 2
    BY <1>1, <1>7, PowersOf2 DEF Bits
  <2>2. \A j \in 6 .. 6 : BitOf(c, j) = 0
    BY <2>1
  <2> DEFINE w == c + v * 64
  <2>3. /\ w \in Words /\ (w \div 64) % 2 = v
        /\ \A j \in Bits \ (6 .. 6) : BitOf(w, j) = BitOf(c, j)
    BY <2>1, <2>2, Added6to6 DEF Words
  <2>4. c + v * 2 ^ Fields[p].bits[2] = w
    BY <2>1, PowersOf2
  <2> HIDE DEF w
  <2> QED  BY <2>1, <2>3, <2>4
<1>8. CASE FieldAt(p, 9, 4)
  <2>1. /\ BitsOf(p) = 4 .. 9 /\ Fields[p].bits[2] = 4 /\ v < 64
        /\ \A w : Extract(w, Fields[p].bits) = (w \div 16) % 64
    BY <1>1, <1>8, PowersOf2 DEF Bits
  <2>2. \A j \in 4 .. 9 : BitOf(c, j) = 0
    BY <2>1
  <2> DEFINE w == c + v * 16
  <2>3. /\ w \in Words /\ (w \div 16) % 64 = v
        /\ \A j \in Bits \ (4 .. 9) : BitOf(w, j) = BitOf(c, j)
    BY <2>1, <2>2, Added4to9 DEF Words
  <2>4. c + v * 2 ^ Fields[p].bits[2] = w
    BY <2>1, PowersOf2
  <2> HIDE DEF w
  <2> QED  BY <2>1, <2>3, <2>4
<1> QED  BY <1>2, <1>3, <1>4, <1>5, <1>6, <1>7, <1>8, FieldPlaces

----------------------------------------------------------------------------
(* The instructions.                                                        *)

\* What holds of every instruction.
Shaped(instr) ==
  /\ instr.encoding \in [1 .. 11 -> {0, 1, 7}]
  /\ instr.params \in SUBSET DOMAIN Fields
  /\ instr.fields \in Seq(instr.params)
  /\ instr.mnemonic \notin {"r0", "r1", "r2", "r3"}

\* The lists of operands there are.
Params ==
  {ImmToReg, RegOrMemToReg, <<"imm", "lhs", "cmp">>, <<"src", "dst">>, <<"lhs", "rhs">>,
   <<"src", "dstaddr">>, <<"jumpaddr">>, <<"lhs", "rhs", "cmp">>, <<"val", "rhs", "lhs">>,
   <<"dst">>, <<"lhs">>, << >>}

\* What Instruction makes of a row of the table has that shape, ...
LEMMA InstructionShaped ==
  ASSUME NEW mnemonic, mnemonic \notin {"r0", "r1", "r2", "r3"},
         NEW encoding \in [1 .. 11 -> {0, 1, 7}],
         NEW params \in Params,
         NEW semantics
  PROVE  Shaped(Instruction(mnemonic, encoding, params, semantics))
<1> DEFINE instr == Instruction(mnemonic, encoding, params, semantics)
<1>1. params \in Seq(DOMAIN Fields)
  <2> DEFINE D == DOMAIN Fields
  <2>1. /\ "imm" \in D /\ "cmp" \in D /\ "lhs" \in D /\ "rhs" \in D /\ "dst" \in D /\ "src" \in D
        /\ "dstaddr" \in D /\ "val" \in D /\ "deref_src" \in D /\ "jumpaddr" \in D
    BY FieldPlaces
  <2> HIDE DEF D
  <2>2. \A a, b, c \in D : <<a, b, c>> \in Seq(D)
    OBVIOUS
  <2>3. \A a, b \in D : <<a, b>> \in Seq(D)
    OBVIOUS
  <2>4. \A a \in D : <<a>> \in Seq(D)
    OBVIOUS
  <2>5. << >> \in Seq(D)
    OBVIOUS
  <2>6. /\ ImmToReg \in Seq(D) /\ RegOrMemToReg \in Seq(D) /\ <<"imm", "lhs", "cmp">> \in Seq(D)
        /\ <<"lhs", "rhs", "cmp">> \in Seq(D) /\ <<"val", "rhs", "lhs">> \in Seq(D)
    BY Zenon, <2>1, <2>2, <2>3 DEF ImmToReg, RegOrMemToReg
  <2>7. /\ <<"src", "dst">> \in Seq(D) /\ <<"lhs", "rhs">> \in Seq(D)
        /\ <<"src", "dstaddr">> \in Seq(D)
    BY Zenon, <2>1, <2>3
  <2>8. <<"jumpaddr">> \in Seq(D) /\ <<"dst">> \in Seq(D) /\ <<"lhs">> \in Seq(D)
    BY Zenon, <2>1, <2>4
  <2> QED  BY Zenon, <2>5, <2>6, <2>7, <2>8 DEF D, Params
<1>2. /\ instr.mnemonic = mnemonic /\ instr.encoding = encoding
      /\ instr.fields = <<"pred">> \o params
      /\ instr.params = {"pred"} \cup {params[i] : i \in DOMAIN params}
  BY DEF Instruction
<1>3. instr.params \in SUBSET DOMAIN Fields
  BY <1>1, <1>2, FieldPlaces
<1>4. instr.fields \in Seq(instr.params)
  <2> DEFINE S == {"pred"} \cup {params[i] : i \in DOMAIN params}
  <2>1. params \in Seq(S)
    <3>1. Len(params) \in Nat /\ DOMAIN params = 1 .. Len(params)
                              /\ params = [i \in 1 .. Len(params) |-> params[i]]
      BY <1>1
    <3>2. \A i \in 1 .. Len(params) : params[i] \in S
      BY <3>1
    <3> HIDE DEF S
    <3> QED  BY <3>1, <3>2
  <2>2. "pred" \in S
    OBVIOUS
  <2> HIDE DEF S
  <2>3. <<"pred">> \o params \in Seq(S)
    BY <2>1, <2>2
  <2> QED  BY <1>2, <2>3 DEF S
<1> QED  BY <1>2, <1>3, <1>4 DEF Shaped

\* ... and so have the instructions.
LEMMA InstructionsShaped ==
  DOMAIN Instructions = 1 .. 30 /\ \A i \in DOMAIN Instructions : Shaped(Instructions[i])
<1>1. DOMAIN Instructions = 1 .. 30
  BY DEF Instructions
<1>2. Shaped(Instructions[1])
  <2> DEFINE e == <<7,7,7,0,0,7,7,7,7,0,0>>
             p == ImmToReg
             s == {}
  <2>1. Instructions[1] = Instruction("addi", e, p, s)
    BY DEF Instructions
  <2>2. e \in [1 .. 11 -> {0, 1, 7}]
    OBVIOUS
  <2>3. p \in Params
    BY DEF Params
  <2>4. "addi" \notin {"r0", "r1", "r2", "r3"}
    OBVIOUS
  <2> HIDE DEF e, p, s
  <2> QED  BY <2>1, <2>2, <2>3, <2>4, InstructionShaped
<1>3. Shaped(Instructions[2])
  <2> DEFINE e == <<7,7,7,0,1,7,7,7,7,0,0>>
             p == ImmToReg
             s == {"AluZeroLhs"}
  <2>1. Instructions[2] = Instruction("movi", e, p, s)
    BY DEF Instructions
  <2>2. e \in [1 .. 11 -> {0, 1, 7}]
    OBVIOUS
  <2>3. p \in Params
    BY DEF Params
  <2>4. "movi" \notin {"r0", "r1", "r2", "r3"}
    OBVIOUS
  <2> HIDE DEF e, p, s
  <2> QED  BY <2>1, <2>2, <2>3, <2>4, InstructionShaped
<1>4. Shaped(Instructions[3])
  <2> DEFINE e == <<7,7,7,1,0,7,7,7,7,0,0>>
             p == ImmToReg
             s == {"AluNotRhs", "AluCarryIn"}
  <2>1. Instructions[3] = Instruction("subi", e, p, s)
    BY DEF Instructions
  <2>2. e \in [1 .. 11 -> {0, 1, 7}]
    OBVIOUS
  <2>3. p \in Params
    BY DEF Params
  <2>4. "subi" \notin {"r0", "r1", "r2", "r3"}
    OBVIOUS
  <2> HIDE DEF e, p, s
  <2> QED  BY <2>1, <2>2, <2>3, <2>4, InstructionShaped
<1>5. Shaped(Instructions[4])
  <2> DEFINE e == <<7,7,7,1,1,7,7,7,7,0,0>>
             p == ImmToReg
             s == {"AluNotRhs", "AluCarryIn", "FlagSet", "CmpNz"}
  <2>1. Instructions[4] = Instruction("subitnz", e, p, s)
    BY DEF Instructions
  <2>2. e \in [1 .. 11 -> {0, 1, 7}]
    OBVIOUS
  <2>3. p \in Params
    BY DEF Params
  <2>4. "subitnz" \notin {"r0", "r1", "r2", "r3"}
    OBVIOUS
  <2> HIDE DEF e, p, s
  <2> QED  BY <2>1, <2>2, <2>3, <2>4, InstructionShaped
<1>6. Shaped(Instructions[5])
  <2> DEFINE e == <<7,7,7,7,7,7,7,7,7,0,1>>
             p == <<"imm", "lhs", "cmp">>
             s == {"AluNotRhs", "AluCarryIn", "FlagSet"}
  <2>1. Instructions[5] = Instruction("testi", e, p, s)
    BY DEF Instructions
  <2>2. e \in [1 .. 11 -> {0, 1, 7}]
    OBVIOUS
  <2>3. p \in Params
    BY DEF Params
  <2>4. "testi" \notin {"r0", "r1", "r2", "r3"}
    OBVIOUS
  <2> HIDE DEF e, p, s
  <2> QED  BY <2>1, <2>2, <2>3, <2>4, InstructionShaped
<1>7. Shaped(Instructions[6])
  <2> DEFINE e == <<7,7,7,0,7,7,7,0,1,1,1>>
             p == RegOrMemToReg
             s == {}
  <2>1. Instructions[6] = Instruction("add", e, p, s)
    BY DEF Instructions
  <2>2. e \in [1 .. 11 -> {0, 1, 7}]
    OBVIOUS
  <2>3. p \in Params
    BY DEF Params
  <2>4. "add" \notin {"r0", "r1", "r2", "r3"}
    OBVIOUS
  <2> HIDE DEF e, p, s
  <2> QED  BY <2>1, <2>2, <2>3, <2>4, InstructionShaped
<1>8. Shaped(Instructions[7])
  <2> DEFINE e == <<7,7,7,0,7,7,7,1,0,1,0>>
             p == RegOrMemToReg
             s == {"AluZeroLhs"}
  <2>1. Instructions[7] = Instruction("mov", e, p, s)
    BY DEF Instructions
  <2>2. e \in [1 .. 11 -> {0, 1, 7}]
    OBVIOUS
  <2>3. p \in Params
    BY DEF Params
  <2>4. "mov" \notin {"r0", "r1", "r2", "r3"}
    OBVIOUS
  <2> HIDE DEF e, p, s
  <2> QED  BY <2>1, <2>2, <2>3, <2>4, InstructionShaped
<1>9. Shaped(Instructions[8])
  <2> DEFINE e == <<7,7,7,0,7,7,7,0,0,1,0>>
             p == RegOrMemToReg
             s == {"AluNotRhs", "AluCarryIn"}
  <2>1. Instructions[8] = Instruction("sub", e, p, s)
    BY DEF Instructions
  <2>2. e \in [1 .. 11 -> {0, 1, 7}]
    OBVIOUS
  <2>3. p \in Params
    BY DEF Params
  <2>4. "sub" \notin {"r0", "r1", "r2", "r3"}
    OBVIOUS
  <2> HIDE DEF e, p, s
  <2> QED  BY <2>1, <2>2, <2>3, <2>4, InstructionShaped
<1>10. Shaped(Instructions[9])
  <2> DEFINE e == <<7,7,7,1,7,7,7,0,1,1,1>>
             p == RegOrMemToReg
             s == {"AluNotRhs", "AluNot"}
  <2>1. Instructions[9] = Instruction("subr", e, p, s)
    BY DEF Instructions
  <2>2. e \in [1 .. 11 -> {0, 1, 7}]
    OBVIOUS
  <2>3. p \in Params
    BY DEF Params
  <2>4. "subr" \notin {"r0", "r1", "r2", "r3"}
    OBVIOUS
  <2> HIDE DEF e, p, s
  <2> QED  BY <2>1, <2>2, <2>3, <2>4, InstructionShaped
<1>11. Shaped(Instructions[10])
  <2> DEFINE e == <<7,7,7,1,7,7,7,0,0,1,0>>
             p == RegOrMemToReg
             s == {"AluNotRhs", "AluCarryIn", "FlagSet", "CmpNz"}
  <2>1. Instructions[10] = Instruction("subtnz", e, p, s)
    BY DEF Instructions
  <2>2. e \in [1 .. 11 -> {0, 1, 7}]
    OBVIOUS
  <2>3. p \in Params
    BY DEF Params
  <2>4. "subtnz" \notin {"r0", "r1", "r2", "r3"}
    OBVIOUS
  <2> HIDE DEF e, p, s
  <2> QED  BY <2>1, <2>2, <2>3, <2>4, InstructionShaped
<1>12. Shaped(Instructions[11])
  <2> DEFINE e == <<7,7,7,1,7,7,7,1,0,1,0>>
             p == RegOrMemToReg
             s == {"FlagSet", "CmpNz"}
  <2>1. Instructions[11] = Instruction("addtnz", e, p, s)
    BY DEF Instructions
  <2>2. e \in [1 .. 11 -> {0, 1, 7}]
    OBVIOUS
  <2>3. p \in Params
    BY DEF Params
  <2>4. "addtnz" \notin {"r0", "r1", "r2", "r3"}
    OBVIOUS
  <2> HIDE DEF e, p, s
  <2> QED  BY <2>1, <2>2, <2>3, <2>4, InstructionShaped
<1>13. Shaped(Instructions[12])
  <2> DEFINE e == <<7,7,7,1,0,7,7,1,1,1,0>>
             p == <<"src", "dst">>
             s == {"AluAnd"}
  <2>1. Instructions[12] = Instruction("and", e, p, s)
    BY DEF Instructions
  <2>2. e \in [1 .. 11 -> {0, 1, 7}]
    OBVIOUS
  <2>3. p \in Params
    BY DEF Params
  <2>4. "and" \notin {"r0", "r1", "r2", "r3"}
    OBVIOUS
  <2> HIDE DEF e, p, s
  <2> QED  BY <2>1, <2>2, <2>3, <2>4, InstructionShaped
<1>14. Shaped(Instructions[13])
  <2> DEFINE e == <<7,7,7,1,1,7,7,1,1,1,0>>
             p == <<"lhs", "rhs">>
             s == {"AluAnd", "FlagSet", "CmpNz"}
  <2>1. Instructions[13] = Instruction("andtnz", e, p, s)
    BY DEF Instructions
  <2>2. e \in [1 .. 11 -> {0, 1, 7}]
    OBVIOUS
  <2>3. p \in Params
    BY DEF Params
  <2>4. "andtnz" \notin {"r0", "r1", "r2", "r3"}
    OBVIOUS
  <2> HIDE DEF e, p, s
  <2> QED  BY <2>1, <2>2, <2>3, <2>4, InstructionShaped
<1>15. Shaped(Instructions[14])
  <2> DEFINE e == <<7,7,7,0,0,7,7,1,1,1,0>>
             p == <<"src", "dstaddr">>
             s == {"AluZeroLhs", "StMem"}
  <2>1. Instructions[14] = Instruction("store", e, p, s)
    BY DEF Instructions
  <2>2. e \in [1 .. 11 -> {0, 1, 7}]
    OBVIOUS
  <2>3. p \in Params
    BY DEF Params
  <2>4. "store" \notin {"r0", "r1", "r2", "r3"}
    OBVIOUS
  <2> HIDE DEF e, p, s
  <2> QED  BY <2>1, <2>2, <2>3, <2>4, InstructionShaped
<1>16. Shaped(Instructions[15])
  <2> DEFINE e == <<7,7,7,0,1,7,7,1,1,1,0>>
             p == <<"src", "dst">>
             s == {"AluZeroLhs", "LdGpi"}
  <2>1. Instructions[15] = Instruction("ldgpi", e, p, s)
    BY DEF Instructions
  <2>2. e \in [1 .. 11 -> {0, 1, 7}]
    OBVIOUS
  <2>3. p \in Params
    BY DEF Params
  <2>4. "ldgpi" \notin {"r0", "r1", "r2", "r3"}
    OBVIOUS
  <2> HIDE DEF e, p, s
  <2> QED  BY <2>1, <2>2, <2>3, <2>4, InstructionShaped
<1>17. Shaped(Instructions[16])
  <2> DEFINE e == <<7,7,7,7,7,7,7,0,1,1,0>>
             p == <<"jumpaddr">>
             s == {"Jump"}
  <2>1. Instructions[16] = Instruction("jump", e, p, s)
    BY DEF Instructions
  <2>2. e \in [1 .. 11 -> {0, 1, 7}]
    OBVIOUS
  <2>3. p \in Params
    BY DEF Params
  <2>4. "jump" \notin {"r0", "r1", "r2", "r3"}
    OBVIOUS
  <2> HIDE DEF e, p, s
  <2> QED  BY <2>1, <2>2, <2>3, <2>4, InstructionShaped
<1>18. Shaped(Instructions[17])
  <2> DEFINE e == <<7,7,7,7,7,7,7,0,0,1,1>>
             p == <<"jumpaddr">>
             s == {"Jump", "PushPc"}
  <2>1. Instructions[17] = Instruction("call", e, p, s)
    BY DEF Instructions
  <2>2. e \in [1 .. 11 -> {0, 1, 7}]
    OBVIOUS
  <2>3. p \in Params
    BY DEF Params
  <2>4. "call" \notin {"r0", "r1", "r2", "r3"}
    OBVIOUS
  <2> HIDE DEF e, p, s
  <2> QED  BY <2>1, <2>2, <2>3, <2>4, InstructionShaped
<1>19. Shaped(Instructions[18])
  <2> DEFINE e == <<7,7,7,7,7,7,7,1,0,1,1>>
             p == <<"lhs", "rhs", "cmp">>
             s == {"AluNotRhs", "AluCarryIn", "FlagSet"}
  <2>1. Instructions[18] = Instruction("test", e, p, s)
    BY DEF Instructions
  <2>2. e \in [1 .. 11 -> {0, 1, 7}]
    OBVIOUS
  <2>3. p \in Params
    BY DEF Params
  <2>4. "test" \notin {"r0", "r1", "r2", "r3"}
    OBVIOUS
  <2> HIDE DEF e, p, s
  <2> QED  BY <2>1, <2>2, <2>3, <2>4, InstructionShaped
<1>20. Shaped(Instructions[19])
  <2> DEFINE e == <<7,7,7,0,7,7,7,1,1,1,1>>
             p == <<"val", "rhs", "lhs">>
             s == {"AluNotRhs", "AluCarryIn", "Wait", "LdGpi"}
  <2>1. Instructions[19] = Instruction("wait", e, p, s)
    BY DEF Instructions
  <2>2. e \in [1 .. 11 -> {0, 1, 7}]
    OBVIOUS
  <2>3. p \in Params
    BY DEF Params
  <2>4. "wait" \notin {"r0", "r1", "r2", "r3"}
    OBVIOUS
  <2> HIDE DEF e, p, s
  <2> QED  BY <2>1, <2>2, <2>3, <2>4, InstructionShaped
<1>21. Shaped(Instructions[20])
  <2> DEFINE e == <<7,7,7,1,1,0,0,1,1,1,1>>
             p == <<"dst">>
             s == {"AluZeroLhs", "PopPc", "PopReg"}
  <2>1. Instructions[20] = Instruction("retpop", e, p, s)
    BY DEF Instructions
  <2>2. e \in [1 .. 11 -> {0, 1, 7}]
    OBVIOUS
  <2>3. p \in Params
    BY DEF Params
  <2>4. "retpop" \notin {"r0", "r1", "r2", "r3"}
    OBVIOUS
  <2> HIDE DEF e, p, s
  <2> QED  BY <2>1, <2>2, <2>3, <2>4, InstructionShaped
<1>22. Shaped(Instructions[21])
  <2> DEFINE e == <<7,7,7,1,1,0,1,1,1,1,1>>
             p == <<"dst">>
             s == {"PopReg"}
  <2>1. Instructions[21] = Instruction("pop", e, p, s)
    BY DEF Instructions
  <2>2. e \in [1 .. 11 -> {0, 1, 7}]
    OBVIOUS
  <2>3. p \in Params
    BY DEF Params
  <2>4. "pop" \notin {"r0", "r1", "r2", "r3"}
    OBVIOUS
  <2> HIDE DEF e, p, s
  <2> QED  BY <2>1, <2>2, <2>3, <2>4, InstructionShaped
<1>23. Shaped(Instructions[22])
  <2> DEFINE e == <<7,7,7,1,0,0,0,1,1,1,1>>
             p == <<"lhs">>
             s == {"MemBankSet"}
  <2>1. Instructions[22] = Instruction("membank", e, p, s)
    BY DEF Instructions
  <2>2. e \in [1 .. 11 -> {0, 1, 7}]
    OBVIOUS
  <2>3. p \in Params
    BY DEF Params
  <2>4. "membank" \notin {"r0", "r1", "r2", "r3"}
    OBVIOUS
  <2> HIDE DEF e, p, s
  <2> QED  BY <2>1, <2>2, <2>3, <2>4, InstructionShaped
<1>24. Shaped(Instructions[23])
  <2> DEFINE e == <<7,7,7,1,0,0,1,1,1,1,1>>
             p == <<"dst">>
             s == {"AluZeroRhs", "AluNot"}
  <2>1. Instructions[23] = Instruction("not", e, p, s)
    BY DEF Instructions
  <2>2. e \in [1 .. 11 -> {0, 1, 7}]
    OBVIOUS
  <2>3. p \in Params
    BY DEF Params
  <2>4. "not" \notin {"r0", "r1", "r2", "r3"}
    OBVIOUS
  <2> HIDE DEF e, p, s
  <2> QED  BY <2>1, <2>2, <2>3, <2>4, InstructionShaped
<1>25. Shaped(Instructions[24])
  <2> DEFINE e == <<7,7,7,1,1,1,0,1,1,1,1>>
             p == <<"dst">>
             s == {"AluShr", "AluZeroRhs"}
  <2>1. Instructions[24] = Instruction("shr", e, p, s)
    BY DEF Instructions
  <2>2. e \in [1 .. 11 -> {0, 1, 7}]
    OBVIOUS
  <2>3. p \in Params
    BY DEF Params
  <2>4. "shr" \notin {"r0", "r1", "r2", "r3"}
    OBVIOUS
  <2> HIDE DEF e, p, s
  <2> QED  BY <2>1, <2>2, <2>3, <2>4, InstructionShaped
<1>26. Shaped(Instructions[25])
  <2> DEFINE e == <<7,7,7,1,0,1,0,1,1,1,1>>
             p == <<"lhs">>
             s == {"RomBankSet"}
  <2>1. Instructions[25] = Instruction("rombank", e, p, s)
    BY DEF Instructions
  <2>2. e \in [1 .. 11 -> {0, 1, 7}]
    OBVIOUS
  <2>3. p \in Params
    BY DEF Params
  <2>4. "rombank" \notin {"r0", "r1", "r2", "r3"}
    OBVIOUS
  <2> HIDE DEF e, p, s
  <2> QED  BY <2>1, <2>2, <2>3, <2>4, InstructionShaped
<1>27. Shaped(Instructions[26])
  <2> DEFINE e == <<7,7,7,1,0,1,1,1,1,1,1>>
             p == <<"lhs">>
             s == {"AluZeroRhs", "PushReg"}
  <2>1. Instructions[26] = Instruction("push", e, p, s)
    BY DEF Instructions
  <2>2. e \in [1 .. 11 -> {0, 1, 7}]
    OBVIOUS
  <2>3. p \in Params
    BY DEF Params
  <2>4. "push" \notin {"r0", "r1", "r2", "r3"}
    OBVIOUS
  <2> HIDE DEF e, p, s
  <2> QED  BY <2>1, <2>2, <2>3, <2>4, InstructionShaped
<1>28. Shaped(Instructions[27])
  <2> DEFINE e == <<7,0,0,1,1,1,1,1,1,1,1>>
             p == << >>
             s == {"Jump", "Indirect"}
  <2>1. Instructions[27] = Instruction("jump3", e, p, s)
    BY DEF Instructions
  <2>2. e \in [1 .. 11 -> {0, 1, 7}]
    OBVIOUS
  <2>3. p \in Params
    BY DEF Params
  <2>4. "jump3" \notin {"r0", "r1", "r2", "r3"}
    OBVIOUS
  <2> HIDE DEF e, p, s
  <2> QED  BY <2>1, <2>2, <2>3, <2>4, InstructionShaped
<1>29. Shaped(Instructions[28])
  <2> DEFINE e == <<7,1,0,1,1,1,1,1,1,1,1>>
             p == << >>
             s == {"Jump", "PushPc", "Indirect"}
  <2>1. Instructions[28] = Instruction("call3", e, p, s)
    BY DEF Instructions
  <2>2. e \in [1 .. 11 -> {0, 1, 7}]
    OBVIOUS
  <2>3. p \in Params
    BY DEF Params
  <2>4. "call3" \notin {"r0", "r1", "r2", "r3"}
    OBVIOUS
  <2> HIDE DEF e, p, s
  <2> QED  BY <2>1, <2>2, <2>3, <2>4, InstructionShaped
<1>30. Shaped(Instructions[29])
  <2> DEFINE e == <<7,0,1,1,1,1,1,1,1,1,1>>
             p == << >>
             s == {"PopPc"}
  <2>1. Instructions[29] = Instruction("ret", e, p, s)
    BY DEF Instructions
  <2>2. e \in [1 .. 11 -> {0, 1, 7}]
    OBVIOUS
  <2>3. p \in Params
    BY DEF Params
  <2>4. "ret" \notin {"r0", "r1", "r2", "r3"}
    OBVIOUS
  <2> HIDE DEF e, p, s
  <2> QED  BY <2>1, <2>2, <2>3, <2>4, InstructionShaped
<1>31. Shaped(Instructions[30])
  <2> DEFINE e == <<7,1,1,1,1,1,1,1,1,1,1>>
             p == << >>
             s == {"AluZeroLhs", "FlagGet", "AluCarryIn", "AluNot", "FlagSet"}
  <2>1. Instructions[30] = Instruction("invflag", e, p, s)
    BY DEF Instructions
  <2>2. e \in [1 .. 11 -> {0, 1, 7}]
    OBVIOUS
  <2>3. p \in Params
    BY DEF Params
  <2>4. "invflag" \notin {"r0", "r1", "r2", "r3"}
    OBVIOUS
  <2> HIDE DEF e, p, s
  <2> QED  BY <2>1, <2>2, <2>3, <2>4, InstructionShaped
<1>32. \A i \in 1 .. 30 : Shaped(Instructions[i])
  <2> HIDE DEF Instructions, Shaped
  <2> QED  BY <1>2, <1>3, <1>4, <1>5, <1>6, <1>7, <1>8, <1>9, <1>10, <1>11, <1>12, <1>13,
              <1>14, <1>15, <1>16, <1>17, <1>18, <1>19, <1>20, <1>21, <1>22, <1>23, <1>24,
                      <1>25, <1>26, <1>27, <1>28, <1>29, <1>30, <1>31
<1> QED  BY <1>1, <1>32

\* The places of Fields.
LEMMA FieldsFinite == IsFiniteSet(DOMAIN Fields)
<1> DEFINE Add(S, x) == S \cup {x}
<1>1. \A S, x : IsFiniteSet(S) => IsFiniteSet(Add(S, x))
  BY FS_AddElement
<1>2. DOMAIN Fields = Add(Add(Add(Add(Add(Add(Add(Add(Add(Add(Add({}, "pred"), "imm"), "cmp"),
        "lhs"), "rhs"), "dst"), "src"), "dstaddr"), "val"), "deref_src"), "jumpaddr")
  BY FieldPlaces
<1>3. IsFiniteSet({})
  BY FS_EmptySet
<1> HIDE DEF Add
<1> QED  BY <1>1, <1>2, <1>3

\* A field is no more than its bits: words that agree on these have the same operand.
LEMMA SameExtract ==
  ASSUME NEW p \in DOMAIN Fields, NEW c \in Words, NEW d \in Words,
         \A j \in BitsOf(p) : BitOf(c, j) = BitOf(d, j)
  PROVE  Extract(c, Fields[p].bits) = Extract(d, Fields[p].bits)
<1> DEFINE Of1(w, k) == (w \div k) % 2
<1>1. ASSUME NEW q \in Nat
      PROVE  /\ q % 4 = (q % 2) + 2 * ((q \div 2) % 2)
             /\ q % 16 = (q % 2) + 2 * ((q \div 2) % 2) + 4 * ((q \div 4) % 2)
                         + 8 * ((q \div 8) % 2)
             /\ q % 64 = (q % 16) + 16 * ((q \div 16) % 2) + 32 * ((q \div 32) % 2)
  OBVIOUS
<1>2. ASSUME NEW w \in Nat
      PROVE  /\ w \div 4 \in Nat /\ w \div 16 \in Nat /\ w \div 64 \in Nat /\ w \div 256 \in Nat
             /\ (w \div 4) \div 2 = w \div 8 /\ (w \div 4) \div 4 = w \div 16
             /\ (w \div 4) \div 8 = w \div 32 /\ (w \div 16) \div 2 = w \div 32
             /\ (w \div 16) \div 4 = w \div 64 /\ (w \div 16) \div 8 = w \div 128
             /\ (w \div 16) \div 16 = w \div 256 /\ (w \div 16) \div 32 = w \div 512
             /\ (w \div 64) \div 2 = w \div 128 /\ (w \div 256) \div 2 = w \div 512
  <2>1. (w \div 4) \div 2 = w \div 8
    OBVIOUS
  <2>2. (w \div 4) \div 4 = w \div 16
    OBVIOUS
  <2>3. (w \div 4) \div 8 = w \div 32
    OBVIOUS
  <2>4. (w \div 16) \div 2 = w \div 32
    OBVIOUS
  <2>5. (w \div 16) \div 4 = w \div 64
    OBVIOUS
  <2>6. (w \div 16) \div 8 = w \div 128
    OBVIOUS
  <2>7. (w \div 16) \div 16 = w \div 256
    OBVIOUS
  <2>8. (w \div 16) \div 32 = w \div 512
    OBVIOUS
  <2>9. (w \div 64) \div 2 = w \div 128
    OBVIOUS
  <2>10. (w \div 256) \div 2 = w \div 512
    OBVIOUS
  <2> QED  BY <2>1, <2>2, <2>3, <2>4, <2>5, <2>6, <2>7, <2>8, <2>9, <2>10
<1>3. /\ \A w : BitOf(w, 10) = (w \div 1024) % 2 /\ BitOf(w, 9) = (w \div 512) % 2
      /\ \A w : BitOf(w, 8) = (w \div 256) % 2 /\ BitOf(w, 7) = (w \div 128) % 2
      /\ \A w : BitOf(w, 6) = (w \div 64) % 2 /\ BitOf(w, 5) = (w \div 32) % 2
      /\ \A w : BitOf(w, 4) = (w \div 16) % 2 /\ BitOf(w, 3) = (w \div 8) % 2
      /\ \A w : BitOf(w, 2) = (w \div 4) % 2
  BY PowersOf2 DEF BitOf
<1>4. CASE FieldAt(p, 10, 10)
  <2>1. \A w : Extract(w, Fields[p].bits) = (w \div 1024) % 2
    BY <1>4, PowersOf2 DEF FieldAt, Extract
  <2>2. 10 \in BitsOf(p)
    BY <1>4 DEF FieldAt, BitsOf
  <2> QED  BY <1>3, <2>1, <2>2
<1>5. CASE FieldAt(p, 6, 6)
  <2>1. \A w : Extract(w, Fields[p].bits) = (w \div 64) % 2
    BY <1>5, PowersOf2 DEF FieldAt, Extract
  <2>2. 6 \in BitsOf(p)
    BY <1>5 DEF FieldAt, BitsOf
  <2> QED  BY <1>3, <2>1, <2>2
<1>6. CASE FieldAt(p, 5, 2)
  <2>1. \A w : Extract(w, Fields[p].bits) = (w \div 4) % 16
    BY <1>6, PowersOf2 DEF FieldAt, Extract
  <2>2. 2 \in BitsOf(p) /\ 3 \in BitsOf(p) /\ 4 \in BitsOf(p) /\ 5 \in BitsOf(p)
    BY <1>6 DEF FieldAt, BitsOf
  <2>3. ASSUME NEW w \in Words
        PROVE  (w \div 4) % 16
           = BitOf(w, 2) + 2 * BitOf(w, 3) + 4 * BitOf(w, 4) + 8 * BitOf(w, 5)
    <3> DEFINE q == w \div 4
    <3>1. w \in Nat
      BY DEF Words
    <3>2. q \in Nat
      BY <1>2, <3>1
    <3>3. /\ BitOf(w, 2) = q % 2
          /\ BitOf(w, 3) = (q \div 2) % 2
          /\ BitOf(w, 4) = (q \div 4) % 2
          /\ BitOf(w, 5) = (q \div 8) % 2
      BY <1>2, <1>3, <3>1
    <3>4. q = w \div 4
      OBVIOUS
    <3> HIDE DEF q
    <3>5. q % 16 = (q % 2) + 2 * ((q \div 2) % 2) + 4 * ((q \div 4) % 2) + 8 * ((q \div 8) % 2)
      BY <1>1, <3>2
    <3> QED  BY <3>3, <3>4, <3>5
  <2> QED  BY <2>1, <2>2, <2>3
<1>7. CASE FieldAt(p, 7, 6)
  <2>1. \A w : Extract(w, Fields[p].bits) = (w \div 64) % 4
    BY <1>7, PowersOf2 DEF FieldAt, Extract
  <2>2. 6 \in BitsOf(p) /\ 7 \in BitsOf(p)
    BY <1>7 DEF FieldAt, BitsOf
  <2>3. ASSUME NEW w \in Words
        PROVE  (w \div 64) % 4 = BitOf(w, 6) + 2 * BitOf(w, 7)
    <3> DEFINE q == w \div 64
    <3>1. w \in Nat
      BY DEF Words
    <3>2. q \in Nat
      BY <1>2, <3>1
    <3> HIDE DEF q
    <3> QED  BY <1>1, <1>2, <1>3, <3>1, <3>2 DEF q
  <2> QED  BY <2>1, <2>2, <2>3
<1>8. CASE FieldAt(p, 9, 8)
  <2>1. \A w : Extract(w, Fields[p].bits) = (w \div 256) % 4
    BY <1>8, PowersOf2 DEF FieldAt, Extract
  <2>2. 8 \in BitsOf(p) /\ 9 \in BitsOf(p)
    BY <1>8 DEF FieldAt, BitsOf
  <2>3. ASSUME NEW w \in Words
        PROVE  (w \div 256) % 4 = BitOf(w, 8) + 2 * BitOf(w, 9)
    <3> DEFINE q == w \div 256
    <3>1. w \in Nat
      BY DEF Words
    <3>2. q \in Nat
      BY <1>2, <3>1
    <3> HIDE DEF q
    <3> QED  BY <1>1, <1>2, <1>3, <3>1, <3>2 DEF q
  <2> QED  BY <2>1, <2>2, <2>3
<1>9. CASE FieldAt(p, 5, 4)
  <2>1. \A w : Extract(w, Fields[p].bits) = (w \div 16) % 4
    BY <1>9, PowersOf2 DEF FieldAt, Extract
  <2>2. 4 \in BitsOf(p) /\ 5 \in BitsOf(p)
    BY <1>9 DEF FieldAt, BitsOf
  <2>3. ASSUME NEW w \in Words
        PROVE  (w \div 16) % 4 = BitOf(w, 4) + 2 * BitOf(w, 5)
    <3> DEFINE q == w \div 16
    <3>1. w \in Nat
      BY DEF Words
    <3>2. q \in Nat
      BY <1>2, <3>1
    <3> HIDE DEF q
    <3> QED  BY <1>1, <1>2, <1>3, <3>1, <3>2 DEF q
  <2> QED  BY <2>1, <2>2, <2>3
<1>10. CASE FieldAt(p, 9, 4)
  <2>1. \A w : Extract(w, Fields[p].bits) = (w \div 16) % 64
    BY <1>10, PowersOf2 DEF FieldAt, Extract
  <2>2. /\ 4 \in BitsOf(p) /\ 5 \in BitsOf(p) /\ 6 \in BitsOf(p) /\ 7 \in BitsOf(p)
        /\ 8 \in BitsOf(p) /\ 9 \in BitsOf(p)
    BY <1>10 DEF FieldAt, BitsOf
  <2>3. ASSUME NEW w \in Words
        PROVE  (w \div 16) % 64
           = BitOf(w, 4) + 2 * BitOf(w, 5) + 4 * BitOf(w, 6) + 8 * BitOf(w, 7)
               + 16 * BitOf(w, 8) + 32 * BitOf(w, 9)
    <3> DEFINE q == w \div 16
    <3>1. w \in Nat
      BY DEF Words
    <3>2. q \in Nat
      BY <1>2, <3>1
    <3>3. /\ BitOf(w, 4) = q % 2
          /\ BitOf(w, 5) = (q \div 2) % 2
          /\ BitOf(w, 6) = (q \div 4) % 2
          /\ BitOf(w, 7) = (q \div 8) % 2
          /\ BitOf(w, 8) = (q \div 16) % 2
          /\ BitOf(w, 9) = (q \div 32) % 2
      BY <1>2, <1>3, <3>1
    <3>4. q = w \div 16
      OBVIOUS
    <3> HIDE DEF q
    <3>5. /\ q % 64 = (q % 16) + 16 * ((q \div 16) % 2) + 32 * ((q \div 32) % 2)
          /\ q % 16 = (q % 2) + 2 * ((q \div 2) % 2) + 4 * ((q \div 4) % 2) + 8 * ((q \div 8) % 2)
      BY <1>1, <3>2
    <3> QED  BY <3>3, <3>4, <3>5
  <2> QED  BY <2>1, <2>2, <2>3
<1> QED  BY <1>4, <1>5, <1>6, <1>7, <1>8, <1>9, <1>10, FieldPlaces

\* The opcode has the bits of the encoding, and none where the operands are.
LEMMA OpcodeBits ==
  ASSUME NEW instr, instr.encoding \in [1 .. 11 -> {0, 1, 7}]
  PROVE  /\ Opcode(instr) \in Words
         /\ \A j \in Bits : BitOf(Opcode(instr), j) = IF instr.encoding[11 - j] = 1 THEN 1 ELSE 0
<1> DEFINE e == instr.encoding
           D == 1 .. 11
           Set(i) == IF e[i] = 1 THEN 2 ^ (11 - i) ELSE 0
           f == [i \in D |-> Set(i)]
           b == [j \in Bits |-> IF e[11 - j] = 1 THEN 1 ELSE 0]
<1>1. Opcode(instr) = FoldFunction(+, 0, f)
  BY DEF Opcode
<1>2. b \in [Bits -> {0, 1}] /\ \A j \in Bits : b[j] = IF e[11 - j] = 1 THEN 1 ELSE 0
  OBVIOUS
<1>3. /\ f[1] = 1024 * b[10] /\ f[2] = 512 * b[9] /\ f[3] = 256 * b[8] /\ f[4] = 128 * b[7]
      /\ f[5] = 64 * b[6] /\ f[6] = 32 * b[5] /\ f[7] = 16 * b[4] /\ f[8] = 8 * b[3]
      /\ f[9] = 4 * b[2] /\ f[10] = 2 * b[1] /\ f[11] = b[0]
  BY PowersOf2 DEF Bits
<1>4. DOMAIN f = D /\ IsFiniteSet(D)
  <2>1. IsFiniteSet(1 .. 11)
    BY FS_Interval, 1 \in Int, 11 \in Int
  <2> QED  BY <2>1
<1> HIDE DEF e, b, f, Set
<1>5. \A i \in D : f[i] \in Nat
  BY <1>2, <1>3 DEF Bits
<1>6. PICK G \in [SUBSET D -> Nat] : Sums(f, G)
  BY <1>4, <1>5, SumsExist
<1>7. FoldFunction(+, 0, f) = G[D]
  BY <1>4, <1>5, <1>6, TotalIsSum
<1>8. \A k \in 1 .. 11 : G[1 .. k] = f[k] + G[1 .. k - 1]
  <2> SUFFICES ASSUME NEW k \in 1 .. 11 PROVE G[1 .. k] = f[k] + G[1 .. k - 1]
    OBVIOUS
  <2>1. 1 .. k \in SUBSET D /\ k \in 1 .. k /\ (1 .. k) \ {k} = 1 .. k - 1
    OBVIOUS
  <2>2. \A s \in SUBSET D : \A x \in s : G[s] = f[x] + G[s \ {x}]
    BY <1>4, <1>6 DEF Sums
  <2> HIDE DEF D
  <2> QED  BY <2>1, <2>2
<1>9. 1 .. 0 = {} /\ G[{}] = 0
  BY <1>6 DEF Sums
<1>10. /\ G[1 .. 1] = f[1] + 0 /\ G[1 .. 2] = f[2] + G[1 .. 1] /\ G[1 .. 3] = f[3] + G[1 .. 2]
       /\ G[1 .. 4] = f[4] + G[1 .. 3] /\ G[1 .. 5] = f[5] + G[1 .. 4]
       /\ G[1 .. 6] = f[6] + G[1 .. 5] /\ G[1 .. 7] = f[7] + G[1 .. 6]
       /\ G[1 .. 8] = f[8] + G[1 .. 7] /\ G[1 .. 9] = f[9] + G[1 .. 8]
       /\ G[1 .. 10] = f[10] + G[1 .. 9] /\ G[D] = f[11] + G[1 .. 10]
  BY <1>8, <1>9
<1>11. G[D] = SumOf(b)
  BY <1>2, <1>3, <1>10 DEF SumOf, Bits
<1>12. SumOf(b) \in Words /\ \A j \in Bits : BitOf(SumOf(b), j) = b[j]
  BY <1>2, SumHasBits
<1>13. Opcode(instr) = SumOf(b)
  BY <1>1, <1>7, <1>11
<1>14. \A j \in Bits : BitOf(SumOf(b), j) = IF e[11 - j] = 1 THEN 1 ELSE 0
  BY <1>2, <1>12
<1> QED  BY <1>12, <1>13, <1>14 DEF e

----------------------------------------------------------------------------
(* The encoder and the decoder.                                             *)

\* The operands of an instruction, as the encoder asserts them.
Args(instr, args) == \A p \in instr.params : args[p] \in Nat /\ FitsIn(p, args[p])

\* The opcode with the operands in `fields`: the others are zero, the operands are the ones
\* given, and no other bit has changed.
Encoded(instr, args, fields, word) ==
  /\ word \in Words
  /\ \A p \in fields : Extract(word, Fields[p].bits) = args[p]
  /\ \A j \in Bits : (\A p \in fields : j \notin BitsOf(p)) =>
                        BitOf(word, j) = BitOf(Opcode(instr), j)

\* One operand more.
LEMMA OperandAdded ==
  ASSUME NEW i \in DOMAIN Instructions, NEW args, Args(Instructions[i], args),
         NEW fields \in SUBSET Instructions[i].params, NEW p \in Instructions[i].params \ fields,
         NEW word, Encoded(Instructions[i], args, fields, word)
  PROVE  Encoded(Instructions[i], args, fields \cup {p}, word + args[p] * 2 ^ Fields[p].bits[2])
<1> DEFINE instr == Instructions[i]
           v == args[p]
           w == word + v * 2 ^ Fields[p].bits[2]
<1>1. /\ instr.params \in SUBSET DOMAIN Fields
      /\ instr.encoding \in [1 .. 11 -> {0, 1, 7}]
  BY InstructionsShaped DEF Shaped
<1>2. /\ OperandBits(instr) = UNION {BitsOf(q) : q \in instr.params}
      /\ \A q, r \in instr.params : q # r => BitsOf(q) \cap BitsOf(r) = {}
  BY Zenon, IsaAssumption
<1> HIDE DEF instr
<1>3. p \in DOMAIN Fields /\ v \in Nat /\ FitsIn(p, v) /\ word \in Words
  BY <1>1 DEF Args, Encoded, instr
<1>4. BitsOf(p) \in SUBSET Bits
  BY <1>3, FieldPlaces DEF FieldAt, BitsOf, Bits
<1>5. ASSUME NEW j \in BitsOf(p)  PROVE BitOf(word, j) = 0
  <2>1. j \in Bits /\ \A q \in fields : j \notin BitsOf(q)
    BY <1>2, <1>4, <1>5 DEF instr
  <2>2. BitOf(word, j) = BitOf(Opcode(instr), j)
    BY <2>1 DEF Encoded, instr
  <2>3. j \in OperandBits(instr)
    BY <1>2, <1>5 DEF instr
  <2>4. instr.encoding[11 - j] = 7
    BY <1>1, <2>1, <2>3 DEF OperandBits, Bits
  <2>5. BitOf(Opcode(instr), j) = 0
    BY <1>1, <2>1, <2>4, OpcodeBits
  <2> QED  BY <2>2, <2>5
<1>6. /\ w \in Words /\ Extract(w, Fields[p].bits) = v
      /\ \A j \in Bits \ BitsOf(p) : BitOf(w, j) = BitOf(word, j)
  BY <1>3, <1>5, FieldAdded
<1> HIDE DEF w
<1>7. ASSUME NEW q \in fields  PROVE Extract(w, Fields[q].bits) = args[q]
  <2>1. q \in DOMAIN Fields /\ q \in instr.params /\ q # p
    BY <1>1 DEF instr
  <2>2. BitsOf(q) \in SUBSET Bits
    BY <2>1, FieldPlaces DEF FieldAt, BitsOf, Bits
  <2>3. \A j \in BitsOf(q) : BitOf(w, j) = BitOf(word, j)
    BY <1>2, <1>6, <2>1, <2>2 DEF instr
  <2>4. Extract(w, Fields[q].bits) = Extract(word, Fields[q].bits)
    BY <1>3, <1>6, <2>1, <2>3, SameExtract
  <2> QED  BY <2>4 DEF Encoded
<1>8. \A j \in Bits : (\A q \in fields \cup {p} : j \notin BitsOf(q)) =>
                         BitOf(w, j) = BitOf(Opcode(instr), j)
  BY <1>6 DEF Encoded, instr
<1>9. Encoded(instr, args, fields \cup {p}, w)
  BY <1>6, <1>7, <1>8 DEF Encoded
<1> QED  BY <1>9 DEF instr, w

\* And so all of them.
LEMMA AllEncoded ==
  ASSUME NEW i \in DOMAIN Instructions, NEW args, Args(Instructions[i], args)
  PROVE  Encoded(Instructions[i], args, Instructions[i].params, Encode(Instructions[i], args))
<1> DEFINE instr == Instructions[i]
           D == instr.params
           f == [p \in D |-> args[p] * 2 ^ Fields[p].bits[2]]
           c == Opcode(instr)
<1>1. D \in SUBSET DOMAIN Fields /\ instr.encoding \in [1 .. 11 -> {0, 1, 7}]
  BY InstructionsShaped DEF Shaped
<1>2. IsFiniteSet(D) /\ DOMAIN f = D
  BY <1>1, FieldsFinite, FS_Subset
<1>3. ASSUME NEW p \in D  PROVE f[p] \in Nat
  <2>1. args[p] \in Nat
    BY DEF Args
  <2>2. 2 ^ Fields[p].bits[2] \in Nat
    <3>1. Fields[p].bits[2] \in Bits
      BY <1>1, FieldPlaces DEF FieldAt, Bits
    <3>2. ASSUME NEW j \in Bits  PROVE 2 ^ j \in Nat
      <4>1. CASE j = 0
        BY <4>1, PowersOf2
      <4>2. CASE j = 1
        BY <4>2, PowersOf2
      <4>3. CASE j = 2
        BY <4>3, PowersOf2
      <4>4. CASE j = 3
        BY <4>4, PowersOf2
      <4>5. CASE j = 4
        BY <4>5, PowersOf2
      <4>6. CASE j = 5
        BY <4>6, PowersOf2
      <4>7. CASE j = 6
        BY <4>7, PowersOf2
      <4>8. CASE j = 7
        BY <4>8, PowersOf2
      <4>9. CASE j = 8
        BY <4>9, PowersOf2
      <4>10. CASE j = 9
        BY <4>10, PowersOf2
      <4>11. CASE j = 10
        BY <4>11, PowersOf2
      <4> QED  BY <4>1, <4>2, <4>3, <4>4, <4>5, <4>6, <4>7, <4>8, <4>9, <4>10, <4>11 DEF Bits
    <3> QED  BY <3>1, <3>2
  <2> QED  BY <2>1, <2>2
<1>4. Encode(instr, args) = c + FoldFunction(+, 0, f)
  BY DEF Encode
<1>5. \A p \in D : f[p] = args[p] * 2 ^ Fields[p].bits[2]
  OBVIOUS
<1> HIDE DEF f
<1>6. PICK G \in [SUBSET D -> Nat] : Sums(f, G)
  BY <1>2, <1>3, SumsExist
<1>7. FoldFunction(+, 0, f) = G[D]
  BY <1>2, <1>3, <1>6, TotalIsSum
<1>8. c \in Words
  BY <1>1, OpcodeBits
<1> DEFINE B == {s \in SUBSET D : ~ Encoded(instr, args, s, c + G[s])}
<1>9. ASSUME B # {}  PROVE FALSE
  <2>1. PICK s \in B : \A x \in s : s \ {x} \notin B
    <3> HIDE DEF B
    <3>1. B \in SUBSET (SUBSET D)
      BY DEF B
    <3> HIDE DEF D
    <3> QED  BY <1>2, <1>9, <3>1, SmallestOf
  <2>2. CASE s = {}
    <3>1. c + G[s] = c
      BY <1>6, <1>8, <2>2 DEF Sums, Words
    <3>2. Encoded(instr, args, {}, c)
      BY <1>8 DEF Encoded
    <3> QED  BY <2>1, <2>2, <3>1, <3>2
  <2>3. ASSUME NEW p \in s  PROVE FALSE
    <3>1. p \in D /\ s \ {p} \in SUBSET D /\ p \notin s \ {p} /\ (s \ {p}) \cup {p} = s
      BY <2>1
    <3>2. Encoded(instr, args, s \ {p}, c + G[s \ {p}])
      BY <2>1, <2>3, <3>1
    <3>3. Encoded(instr, args, s, (c + G[s \ {p}]) + f[p])
      <4> DEFINE word == c + G[s \ {p}]
      <4> HIDE DEF word
      <4>1. Encoded(instr, args, s \ {p}, word)
        BY <3>2 DEF word
      <4>2. Encoded(instr, args, (s \ {p}) \cup {p}, word + args[p] * 2 ^ Fields[p].bits[2])
        BY <3>1, <4>1, OperandAdded
      <4> QED  BY <1>5, <3>1, <4>2 DEF word
    <3>4. G[s] = f[p] + G[s \ {p}]
      BY <1>2, <1>6, <2>1, <2>3 DEF Sums
    <3>5. (c + G[s \ {p}]) + f[p] = c + G[s]
      BY <1>3, <1>6, <1>8, <3>1, <3>4 DEF Words
    <3> QED  BY <2>1, <3>3, <3>5
  <2> QED  BY <2>2, <2>3
<1>10. Encoded(instr, args, D, c + G[D])
  BY <1>9
<1> QED  BY <1>4, <1>7, <1>10

\* Decoding undoes encoding: a word that the encoder makes of an instruction and operands that
\* fit its fields is decoded to that instruction and these operands, and to no other.
THEOREM DecodeUndoesEncode ==
  ASSUME NEW i \in DOMAIN Instructions, NEW args, Args(Instructions[i], args)
  PROVE  LET instr == Instructions[i]
         IN  /\ Encode(instr, args) \in Words
             /\ Decode[Encode(instr, args)] =
                  [op |-> instr.mnemonic, args |-> [p \in instr.params |-> args[p]]]
<1> DEFINE instr == Instructions[i]
           w == Encode(instr, args)
<1>1. Encoded(instr, args, instr.params, w)
  BY AllEncoded
<1>2. instr.encoding \in [1 .. 11 -> {0, 1, 7}]
  BY InstructionsShaped DEF Shaped
<1>3. OperandBits(instr) = UNION {BitsOf(q) : q \in instr.params}
  BY Zenon, IsaAssumption
<1> HIDE DEF w
<1>4. w \in Words /\ \A p \in instr.params : Extract(w, Fields[p].bits) = args[p]
  BY <1>1 DEF Encoded
<1>5. Encodes(instr, w)
  <2> HIDE DEF instr
  <2> SUFFICES ASSUME NEW k \in 1 .. 11, instr.encoding[k] # 7
               PROVE  instr.encoding[k] = BitOf(w, 11 - k)
    BY DEF Encodes
  <2> DEFINE j == 11 - k
  <2>1. j \in Bits /\ 11 - j = k
    BY DEF Bits
  <2>2. j \notin OperandBits(instr)
    BY DEF OperandBits
  <2>3. BitOf(w, j) = BitOf(Opcode(instr), j)
    BY <1>1, <1>3, <2>1, <2>2 DEF Encoded
  <2>4. BitOf(Opcode(instr), j) = IF instr.encoding[11 - j] = 1 THEN 1 ELSE 0
    BY <1>2, <2>1, OpcodeBits
  <2> QED  BY <1>2, <2>1, <2>3, <2>4
<1>6. Candidates[w] = {i}
  <2>1. i \in Candidates[w]
    BY <1>4, <1>5 DEF Candidates
  <2>2. Cardinality(Candidates[w]) = 1
    BY Zenon, <1>4, IsaAssumption
  <2>3. IsFiniteSet(Candidates[w])
    <3>1. Candidates[w] \in SUBSET (1 .. 30)
      BY <1>4, InstructionsShaped DEF Candidates
    <3>2. IsFiniteSet(1 .. 30)
      BY FS_Interval, 1 \in Int, 30 \in Int
    <3> QED  BY <3>1, <3>2, FS_Subset
  <2>4. PICK x : Candidates[w] = {x}
    BY <2>2, <2>3, FS_Singleton
  <2> QED  BY <2>1, <2>4
<1>7. Earliest(Candidates[w]) = i
  <2>1. i \in 1 .. 30
    BY InstructionsShaped
  <2> HIDE DEF instr
  <2> QED  BY <1>6, <2>1 DEF Earliest
<1>8. DecodeInstruction(w) = [op |-> instr.mnemonic, args |-> [p \in instr.params |-> args[p]]]
  BY <1>4, <1>7 DEF DecodeInstruction
<1>9. Decode[w] = DecodeInstruction(w)
  BY <1>4 DEF Decode
<1> QED  BY <1>4, <1>8, <1>9 DEF w

----------------------------------------------------------------------------
(* No register is lost.                                                     *)

\* The registers of the words emitted.
TotalOf(e) == FoldFunction(LAMBDA word, n : RegistersOf(word) + n, 0, e)

\* f has the registers of the n words of e.
Lists(f, e, n) ==
  /\ DOMAIN e = 1 .. n /\ DOMAIN f = 1 .. n
  /\ \A k \in 1 .. n : f[k] = RegistersOf(e[k]) /\ f[k] \in Nat

\* The registers of the words emitted are a sum.
LEMMA TotalSums ==
  ASSUME NEW e, NEW n \in Nat, NEW f, Lists(f, e, n), NEW G, Sums(f, G)
  PROVE  TotalOf(e) = G[1 .. n]
<1>0. /\ DOMAIN e = 1 .. n /\ DOMAIN f = 1 .. n
      /\ \A k \in 1 .. n : f[k] = RegistersOf(e[k]) /\ f[k] \in Nat
  BY DEF Lists
<1> DEFINE D == DOMAIN e
           Own(a) == a = [s \in SUBSET D |->
                            IF s = {} THEN 0
                            ELSE LET x == CHOOSE x \in s : TRUE
                                 IN RegistersOf(e[x]) + a[s \ {x}]]
           iter == CHOOSE a : Own(a)
<1>1. TotalOf(e) = iter[D]
  BY DEF TotalOf, FoldFunction, FoldFunctionOnSet, MapThenFoldSet
<1>2. IsFiniteSet(DOMAIN f) /\ \A x \in DOMAIN f : f[x] \in Nat
  <2>1. IsFiniteSet(1 .. n)
    BY FS_Interval, 1 \in Int, n \in Int
  <2> QED  BY <1>0, <2>1
<1>3. PICK H \in [SUBSET D -> Nat] : Sums(f, H)
  BY <1>0, <1>2, SumsExist
<1>4. Own(H)
  <2> DEFINE H1 == [s \in SUBSET D |->
                      IF s = {} THEN 0
                      ELSE LET x == CHOOSE x \in s : TRUE IN RegistersOf(e[x]) + H[s \ {x}]]
  <2>1. H = [s \in SUBSET D |-> H[s]]
    BY <1>3
  <2>2. \A s \in SUBSET D :
          H[s] = IF s = {} THEN 0
                 ELSE LET x == CHOOSE x \in s : TRUE IN RegistersOf(e[x]) + H[s \ {x}]
    <3> SUFFICES ASSUME NEW s \in SUBSET D, s # {}
                 PROVE  LET x == CHOOSE x \in s : TRUE
                        IN  H[s] = RegistersOf(e[x]) + H[s \ {x}]
      BY <1>0, <1>3 DEF Sums
    <3> DEFINE x == CHOOSE x \in s : TRUE
    <3>1. x \in s /\ x \in 1 .. n
      BY <1>0
    <3> HIDE DEF x
    <3>2. H[s] = f[x] + H[s \ {x}]
      BY <1>0, <1>3, <3>1 DEF Sums
    <3>3. H[s] = RegistersOf(e[x]) + H[s \ {x}]
      BY <1>0, <3>1, <3>2
    <3> QED  BY <3>3 DEF x
  <2>3. [s \in SUBSET D |-> H[s]] = H1
    BY <2>2
  <2> QED  BY <2>1, <2>3
<1>5. Own(iter)
  BY <1>4
<1> HIDE DEF iter
<1>6. iter = [s \in SUBSET DOMAIN f |->
                IF s = {} THEN 0
                ELSE LET x == CHOOSE x \in s : TRUE IN f[x] + iter[s \ {x}]]
  <2> DEFINE A(s) == IF s = {} THEN 0
                     ELSE LET x == CHOOSE x \in s : TRUE IN RegistersOf(e[x]) + iter[s \ {x}]
             C(s) == IF s = {} THEN 0
                     ELSE LET x == CHOOSE x \in s : TRUE IN f[x] + iter[s \ {x}]
  <2>1. ASSUME NEW s \in SUBSET (1 .. n)  PROVE A(s) = C(s)
    <3> DEFINE x == CHOOSE x \in s : TRUE
    <3>1. s # {} => x \in 1 .. n
      OBVIOUS
    <3> HIDE DEF x
    <3>2. s # {} => RegistersOf(e[x]) = f[x]
      BY <1>0, <3>1
    <3>3. s # {} => RegistersOf(e[x]) + iter[s \ {x}] = f[x] + iter[s \ {x}]
      BY <3>2
    <3> QED  BY <3>3 DEF x
  <2>2. iter = [s \in SUBSET D |-> A(s)]
    BY <1>5
  <2>3. DOMAIN f = D /\ D = 1 .. n
    BY <1>0
  <2> HIDE DEF A, C, D
  <2>4. iter = [s \in SUBSET DOMAIN f |-> C(s)]
    BY <2>1, <2>2, <2>3
  <2> QED  BY <2>4 DEF C
<1>7. iter[DOMAIN f] = G[DOMAIN f]
  BY <1>2, <1>6, FoldIsSum
<1> QED  BY <1>0, <1>1, <1>7

\* A word more adds its registers.
LEMMA TotalAppended ==
  ASSUME NEW S, NEW e \in Seq(S), \A k \in DOMAIN e : RegistersOf(e[k]) \in Nat,
         NEW w \in S, RegistersOf(w) \in Nat
  PROVE  /\ TotalOf(e) \in Nat
         /\ TotalOf(Append(e, w)) = TotalOf(e) + RegistersOf(w)
<1> DEFINE n == Len(e)
           m == n + 1
           e1 == Append(e, w)
<1>1. /\ n \in Nat /\ m \in Nat /\ m = n + 1 /\ DOMAIN e = 1 .. n /\ DOMAIN e1 = 1 .. m
      /\ e1[m] = w /\ \A k \in 1 .. n : e1[k] = e[k]
  OBVIOUS
<1> HIDE DEF n, m, e1
<1> DEFINE f1 == [k \in 1 .. m |-> RegistersOf(e1[k])]
           f == [k \in 1 .. n |-> RegistersOf(e[k])]
<1>2. DOMAIN f1 = 1 .. m /\ \A k \in 1 .. m : f1[k] = RegistersOf(e1[k]) /\ f1[k] \in Nat
  <2>1. \A k \in 1 .. m : k \in 1 .. n \/ k = m
    BY <1>1
  <2>2. \A k \in 1 .. m : RegistersOf(e1[k]) \in Nat
    BY <1>1, <2>1
  <2> QED  BY <2>2
<1>3. DOMAIN f = 1 .. n /\ \A k \in 1 .. n : f[k] = RegistersOf(e[k]) /\ f[k] \in Nat
  BY <1>1
<1>4. \A k \in 1 .. n : f[k] = f1[k]
  BY <1>1
<1>5. IsFiniteSet(1 .. m)
  BY <1>1, FS_Interval, 1 \in Int
<1>6. f1[m] = RegistersOf(w)
  BY <1>1
<1> HIDE DEF f, f1
<1>7. PICK G \in [SUBSET (1 .. m) -> Nat] : Sums(f1, G)
  BY <1>2, <1>5, SumsExist
<1> DEFINE E == 1 .. n
           E1 == 1 .. m
<1>8. /\ E \in SUBSET E1 /\ m \in E1 /\ E1 \ {m} = E
      /\ DOMAIN f = E /\ DOMAIN f1 = E1 /\ \A k \in E : f[k] = f1[k]
  BY <1>1, <1>2, <1>3, <1>4
<1>9. Sums(f, G) /\ G[E1] = f1[m] + G[E]
  <2> HIDE DEF E, E1
  <2> QED  BY <1>7, <1>8 DEF Sums
<1>10. TotalOf(e) = G[1 .. n]
  <2>1. Lists(f, e, n)
    BY <1>1, <1>3 DEF Lists
  <2> QED  BY <1>1, <1>9, <2>1, TotalSums
<1>11. TotalOf(e1) = G[1 .. m]
  <2>1. Lists(f1, e1, m)
    BY <1>1, <1>2 DEF Lists
  <2> QED  BY <1>1, <1>7, <2>1, TotalSums
<1>12. G[1 .. n] \in Nat
  <2>1. 1 .. n \in SUBSET (1 .. m)
    BY <1>1
  <2> QED  BY <1>7, <2>1
<1>13. TotalOf(e) \in Nat /\ TotalOf(e1) = RegistersOf(w) + TotalOf(e)
  BY <1>6, <1>9, <1>10, <1>11, <1>12
<1>14. TotalOf(e1) = TotalOf(e) + RegistersOf(w)
  BY <1>13
<1> QED  BY <1>13, <1>14 DEF e1

\* No words, no registers.
LEMMA TotalOfNone == TotalOf(<< >>) = 0
<1> DEFINE f == [k \in 1 .. 0 |-> 0]
<1>1. Lists(f, << >>, 0)
  BY DEF Lists
<1>2. IsFiniteSet(1 .. 0)
  BY FS_Interval, 1 \in Int, 0 \in Int
<1> HIDE DEF f
<1>3. PICK G \in [SUBSET (1 .. 0) -> Nat] : Sums(f, G)
  BY <1>1, <1>2, SumsExist DEF Lists
<1>4. TotalOf(<< >>) = G[1 .. 0]
  BY <1>1, <1>3, 0 \in Nat, TotalSums
<1> QED  BY <1>3, <1>4 DEF Sums

\* The registers named before place k, but for labels.
RegistersBefore(k) == {i \in DOMAIN tokens : i < k /\ IsRegister(i) /\ ~ Is(i + 1, ":")}
CountsAt(k) == IsRegister(k) /\ ~ Is(k + 1, ":")

\* The next token adds itself, if it counts.
LEMMA RegistersCounted ==
  ASSUME tokens \in Seq(TokenSet), NEW k \in Nat
  PROVE  /\ IsFiniteSet(RegistersBefore(k)) /\ Cardinality(RegistersBefore(k)) \in Nat
         /\ ~ CountsAt(k) => RegistersBefore(k + 1) = RegistersBefore(k)
         /\ CountsAt(k) => Cardinality(RegistersBefore(k + 1)) = Cardinality(RegistersBefore(k)) + 1
<1> DEFINE R == RegistersBefore(k)
           R1 == RegistersBefore(k + 1)
<1>1. Len(tokens) \in Nat /\ DOMAIN tokens = 1 .. Len(tokens)
  OBVIOUS
<1>2. IsFiniteSet(DOMAIN tokens)
  BY <1>1, FS_Interval, 1 \in Int
<1>3. IsFiniteSet(R)
  BY <1>2, FS_Subset DEF RegistersBefore
<1>4. \A i \in DOMAIN tokens : i < k + 1 <=> i < k \/ i = k
  BY <1>1
<1>5. ASSUME ~ CountsAt(k)  PROVE R1 = R
  BY <1>4, <1>5 DEF RegistersBefore, CountsAt
<1>6. ASSUME CountsAt(k)  PROVE R1 = R \cup {k} /\ k \notin R
  <2>1. k \in DOMAIN tokens
    BY <1>6 DEF CountsAt, IsRegister, Is, Tok, Sym, Token
  <2> QED  BY <1>4, <1>6, <2>1 DEF RegistersBefore, CountsAt
<1> HIDE DEF R, R1
<1>7. Cardinality(R) \in Nat
  BY <1>3, FS_CardinalityType
<1>8. CountsAt(k) => Cardinality(R1) = Cardinality(R) + 1
  BY <1>3, <1>6, FS_AddElement
<1> QED  BY <1>3, <1>5, <1>7, <1>8 DEF R, R1

\* What is counted depends on the tokens only.
LEMMA CountStays ==
  ASSUME UNCHANGED tokens, NEW k
  PROVE  RegistersBefore(k)' = RegistersBefore(k) /\ (Is(k, ":")' <=> Is(k, ":"))
  BY DEF RegistersBefore, IsRegister, Is, Tok

\* An operand that the encoder is handed is a number.
LEMMA OperandsFit ==
  ASSUME NEW c \in Readings, Encodable(c)
  PROVE  \E i \in DOMAIN Instructions :
           /\ InstrOf(c.mnemonic) = Instructions[i] /\ Instructions[i].mnemonic = c.mnemonic
           /\ Args(Instructions[i], Operands(c))
<1> DEFINE i == CHOOSE i \in DOMAIN Instructions : Instructions[i].mnemonic = c.mnemonic
           instr == Instructions[i]
<1>1. c.mnemonic \in Mnemonics
  BY DEF Readings
<1>2. \E k \in DOMAIN Instructions : Instructions[k].mnemonic = c.mnemonic
  BY <1>1 DEF Mnemonics
<1>3. i \in DOMAIN Instructions /\ instr.mnemonic = c.mnemonic
  BY <1>2
<1>4. InstrOf(c.mnemonic) = instr
  BY DEF InstrOf
<1> HIDE DEF i
<1>5. ASSUME NEW f \in instr.params  PROVE Operand(instr, c, f) \in Nat
  <2>1. /\ c.pred \in {0, 1} /\ c.cmp \in {0, 1, 2, 3, Null} /\ c.deref \in {0, 1, Null}
        /\ c.jump \in Nat \cup {Null} /\ c.imms \in Seq(Nat) /\ c.registers \in Seq(0 .. 3)
    BY DEF Readings
  <2>2. \A k \in DOMAIN c.imms : c.imms[k] \in Nat
    BY <2>1
  <2>3. \A k \in DOMAIN c.registers : c.registers[k] \in Nat
    BY <2>1
  <2> DEFINE Nth(fields, values) ==
               LET k == CHOOSE k \in DOMAIN fields : fields[k] = f
               IN  IF k \in DOMAIN values THEN values[k] ELSE 0
             Use(option) == IF option = Null THEN 0 ELSE option
  <2>4. \A fields : Nth(fields, c.imms) \in Nat /\ Nth(fields, c.registers) \in Nat
    BY <2>2, <2>3
  <2>5. Use(c.cmp) \in Nat /\ Use(c.deref) \in Nat /\ Use(c.jump) \in Nat /\ c.pred \in Nat
    BY <2>1
  <2>6. Operand(instr, c, f) =
          CASE f = "pred"      -> c.pred
            [] f = "cmp"       -> Use(c.cmp)
            [] f = "deref_src" -> Use(c.deref)
            [] f = "jumpaddr"  -> Use(c.jump)
            [] f \in {"imm", "val"} -> Nth(ImmFields(instr), c.imms)
            [] OTHER           -> Nth(RegisterFields(instr), c.registers)
    BY DEF Operand
  <2> HIDE DEF Nth, Use, instr
  <2> QED  BY <2>4, <2>5, <2>6
<1>6. Operands(c) = [f \in instr.params |-> Operand(instr, c, f)]
  BY <1>4 DEF Operands
<1>7. \A f \in instr.params : FitsIn(f, Operands(c)[f])
  BY <1>4 DEF Encodable
<1>8. Args(instr, Operands(c))
  BY <1>5, <1>6, <1>7 DEF Args
<1> QED  BY <1>3, <1>4, <1>8

\* A word has the registers of the instruction it is made of.
LEMMA WordRegisters ==
  ASSUME NEW c \in Readings, Encodable(c)
  PROVE  Word(c) \in Words /\ RegistersOf(Word(c)) = Len(RegisterFields(InstrOf(c.mnemonic)))
<1>1. PICK i \in DOMAIN Instructions :
           /\ InstrOf(c.mnemonic) = Instructions[i] /\ Instructions[i].mnemonic = c.mnemonic
           /\ Args(Instructions[i], Operands(c))
  BY OperandsFit
<1> DEFINE w == Encode(Instructions[i], Operands(c))
<1>2. w \in Words /\ Decode[w].op = c.mnemonic
  <2> DEFINE instr == Instructions[i]
             args == Operands(c)
  <2>1. Args(instr, args) /\ instr.mnemonic = c.mnemonic
    BY <1>1
  <2>2. /\ Encode(instr, args) \in Words
        /\ Decode[Encode(instr, args)] =
             [op |-> instr.mnemonic, args |-> [p \in instr.params |-> args[p]]]
    <3> HIDE DEF args
    <3> QED  BY <2>1, DecodeUndoesEncode
  <2>3. Decode[w].op = instr.mnemonic
    <3>1. w = Encode(instr, args)
      OBVIOUS
    <3> HIDE DEF instr, w, args
    <3> QED  BY <2>2, <3>1
  <2> QED  BY <2>1, <2>2, <2>3
<1>3. Word(c) = w
  BY <1>1 DEF Word
<1> HIDE DEF w
<1> QED  BY <1>2, <1>3 DEF RegistersOf

\* No mnemonic is a register.
LEMMA MnemonicsAreNoRegisters ==
  ASSUME NEW k, Tok(k).text \in Mnemonics
  PROVE  ~ IsRegister(k)
<1>1. Tok(k).text \notin {"r0", "r1", "r2", "r3"}
  <2>1. PICK i \in DOMAIN Instructions : Tok(k).text = Instructions[i].mnemonic
    BY DEF Mnemonics
  <2>2. Shaped(Instructions[i])
    BY InstructionsShaped
  <2> QED  BY <2>1, <2>2 DEF Shaped
<1>2. ToSet(RegisterNames) = {"r0", "r1", "r2", "r3"}
  <2>1. DOMAIN RegisterNames = {1, 2, 3, 4}
    BY DEF RegisterNames
  <2>2. /\ RegisterNames[1] = "r0" /\ RegisterNames[2] = "r1"
        /\ RegisterNames[3] = "r2" /\ RegisterNames[4] = "r3"
    BY DEF RegisterNames
  <2>3. ToSet(RegisterNames) = {RegisterNames[i] : i \in DOMAIN RegisterNames}
    BY DEF ToSet
  <2> QED  BY <2>1, <2>2, <2>3
<1> QED  BY <1>1, <1>2 DEF IsRegister

\* In the second pass the registers that have been read are in the words emitted or in the
\* instruction being read, unless the last one was followed by ":", at which the pass ends.
NoPadding == \A i \in DOMAIN tokens : ~ Is(i, "(")
Held == IF cur = Null THEN 0 ELSE Len(cur.registers)
AllHeld ==
  /\ TotalOf(emitted) \in Nat
  /\ \A k \in DOMAIN emitted : RegistersOf(emitted[k]) \in Nat
  /\ Is(at, ":") \/ Cardinality(RegistersBefore(at)) = TotalOf(emitted) + Held
HeldInv == NoPadding /\ pass = 2 /\ verdict \in {"none", "accepted"} => AllHeld

\* A step that emits nothing.
LEMMA HeldAt ==
  ASSUME UNCHANGED <<tokens, emitted>>, AllHeld, NEW k, at' = k,
         Is(k, ":") \/ Cardinality(RegistersBefore(k)) = TotalOf(emitted) + Held'
  PROVE  AllHeld'
<1>1. RegistersBefore(k)' = RegistersBefore(k) /\ (Is(k, ":")' <=> Is(k, ":"))
  BY CountStays
<1>2. TotalOf(emitted)' = TotalOf(emitted)
  <2>1. emitted' = emitted
    OBVIOUS
  <2> QED  BY <2>1
<1>3. \A i \in DOMAIN emitted : RegistersOf(emitted'[i]) \in Nat
  BY DEF AllHeld
<1>4. TotalOf(emitted) \in Nat /\ DOMAIN emitted' = DOMAIN emitted
  BY DEF AllHeld
<1>5. (Is(at, ":") \/ Cardinality(RegistersBefore(at)) = TotalOf(emitted) + Held)'
  <2>1. /\ Is(at, ":")' <=> Is(k, ":")
        /\ RegistersBefore(at)' = RegistersBefore(k)
    BY <1>1 DEF RegistersBefore, IsRegister, Is, Tok
  <2>2. Is(at, ":")' \/ Cardinality(RegistersBefore(at)') = TotalOf(emitted)' + Held'
    BY <1>2, <2>1
  <2> QED  BY <2>2
<1> QED  BY <1>2, <1>3, <1>4, <1>5 DEF AllHeld

\* A label has no register, whatever it is called.
LEMMA LabelHeld ==
  ASSUME TypeInv, AllHeld, Label
  PROVE  AllHeld'
<1>1. /\ UNCHANGED <<tokens, emitted>> /\ at \in DOMAIN tokens /\ cur = Null /\ cur' = Null
      /\ at' = first + 2 /\ Is(first, "identifier") /\ Is(first + 1, ":")
  BY DEF Label, Named, BetweenStatements, source
<1>2. at \in Nat /\ tokens \in Seq(TokenSet)
  BY DEF TypeInv
<1>3. first = IF Is(at, "+") THEN at + 1 ELSE at
  BY <1>2 DEF first, Pred
<1>4. first \in Nat
  BY <1>2, <1>3
<1>5. ~ Is(at, ":")
  BY <1>1, <1>3 DEF Is
<1>6. RegistersBefore(first) = RegistersBefore(at)
  <2>1. Is(at, "+") => ~ CountsAt(at)
    BY DEF CountsAt, IsRegister, Is
  <2> QED  BY <1>2, <1>3, <2>1, RegistersCounted
<1>7. RegistersBefore(first + 1) = RegistersBefore(first)
  BY <1>1, <1>2, <1>4, RegistersCounted DEF CountsAt
<1>8. RegistersBefore((first + 1) + 1) = RegistersBefore(first + 1)
  <2>1. ~ CountsAt(first + 1)
    BY <1>1 DEF CountsAt, IsRegister, Is
  <2>2. first + 1 \in Nat
    BY <1>4
  <2> QED  BY <1>2, <2>1, <2>2, RegistersCounted
<1>9. (first + 1) + 1 = first + 2
  BY <1>4
<1>10. Held = 0 /\ Held' = 0
  BY <1>1 DEF Held
<1>11. Cardinality(RegistersBefore(at)) = TotalOf(emitted) + Held
  BY <1>5 DEF AllHeld
<1> DEFINE k == first + 2
<1>12. at' = k /\ Cardinality(RegistersBefore(k)) = TotalOf(emitted) + Held'
  BY <1>1, <1>6, <1>7, <1>8, <1>9, <1>10, <1>11
<1> HIDE DEF k
<1> QED  BY <1>1, <1>12, HeldAt

\* A mnemonic has none, and one in brackets behind it.
LEMMA MnemonicHeld ==
  ASSUME TypeInv, Counts, AllHeld, Mnemonic
  PROVE  AllHeld'
<1>1. /\ UNCHANGED <<tokens, emitted>> /\ at \in DOMAIN tokens /\ cur = Null
      /\ Is(first, "identifier") /\ Tok(first).text \in Mnemonics
  BY DEF Mnemonic, KnownMnemonic, Named, BetweenStatements, source
<1>2. at \in Nat /\ tokens \in Seq(TokenSet)
  BY DEF TypeInv
<1>3. first = IF Is(at, "+") THEN at + 1 ELSE at
  BY <1>2 DEF first, Pred
<1>4. first \in Nat
  BY <1>2, <1>3
<1>5. ~ Is(at, ":")
  BY <1>1, <1>3 DEF Is
<1>6. RegistersBefore(first) = RegistersBefore(at)
  <2>1. Is(at, "+") => ~ CountsAt(at)
    BY DEF CountsAt, IsRegister, Is
  <2> QED  BY <1>2, <1>3, <2>1, RegistersCounted
<1>7. RegistersBefore(first + 1) = RegistersBefore(first)
  <2>1. ~ CountsAt(first)
    BY <1>1, MnemonicsAreNoRegisters DEF CountsAt
  <2> QED  BY <1>2, <1>4, <2>1, RegistersCounted
<1>8. Cardinality(RegistersBefore(first + 1)) = TotalOf(emitted) /\ TotalOf(emitted) \in Nat
  BY <1>1, <1>5, <1>6, <1>7 DEF AllHeld, Held
<1>9. cur' # Null /\ Len(cur'.registers) = IF Derefs THEN 1 ELSE 0
  <2>1. cur' \in Readings
    <3>1. first \in Nat /\ Tok(first).text \in Mnemonics /\ Pred \in {0, 1}
      BY <1>1, <1>4 DEF Pred
    <3>2. CASE Derefs
      <4>1. ToRegister(first + 2) \in 0 .. 3
        BY <3>2, RegistersTyped DEF Mnemonic
      <4>2. <<ToRegister(first + 2)>> \in Seq(0 .. 3)
        BY <4>1
      <4> QED  BY <3>1, <3>2, <4>2, ReadingTyped DEF Mnemonic
    <3>3. CASE ~ Derefs
      <4>1. << >> \in Seq(0 .. 3)
        OBVIOUS
      <4>2. (IF MayDeref THEN 0 ELSE Null) \in {0, 1, Null}
        OBVIOUS
      <4> QED  BY <3>1, <3>3, <4>1, <4>2, ReadingTyped DEF Mnemonic
    <3> QED  BY <3>2, <3>3
  <2>2. cur' # Null
    BY <2>1, ReadingsTyped
  <2>3. cur'.registers = IF Derefs THEN <<ToRegister(first + 2)>> ELSE << >>
    BY DEF Mnemonic, Reading
  <2>4. Len(<<ToRegister(first + 2)>>) = 1 /\ Len(<< >>) = 0
    OBVIOUS
  <2> QED  BY <2>2, <2>3, <2>4
<1>10. CASE ~ Derefs
  <2>1. at' = first + 1 /\ Held' = 0
    BY <1>9, <1>10 DEF Mnemonic, Held
  <2> DEFINE k == first + 1
  <2>2. at' = k /\ Cardinality(RegistersBefore(k)) = TotalOf(emitted) + Held'
    BY <1>8, <2>1
  <2> HIDE DEF k
  <2> QED  BY <1>1, <2>2, HeldAt
<1>11. CASE Derefs
  <2>1. /\ at' = first + 4 /\ Held' = 1
        /\ Is(first + 1, "[") /\ IsRegister(first + 2) /\ Is(first + 3, "]")
    BY <1>9, <1>11 DEF Mnemonic, Held, Derefs
  <2> DEFINE f == first
  <2>2. f \in Nat /\ f + 1 \in Nat /\ f + 2 \in Nat /\ f + 3 \in Nat
        /\ (f + 1) + 1 = f + 2 /\ (f + 2) + 1 = f + 3 /\ (f + 3) + 1 = f + 4
    BY <1>4
  <2> HIDE DEF f
  <2>3. ~ CountsAt(f + 1) /\ CountsAt(f + 2) /\ ~ CountsAt(f + 3)
    BY <2>1, <2>2 DEF CountsAt, IsRegister, Is, f
  <2>4. RegistersBefore(f + 2) = RegistersBefore(f + 1)
    BY <1>2, <2>2, <2>3, RegistersCounted
  <2>5. Cardinality(RegistersBefore(f + 3)) = Cardinality(RegistersBefore(f + 2)) + 1
    BY <1>2, <2>2, <2>3, RegistersCounted
  <2>6. RegistersBefore(f + 4) = RegistersBefore(f + 3)
    BY <1>2, <2>2, <2>3, RegistersCounted
  <2> DEFINE k == f + 4
  <2>7. at' = k /\ Cardinality(RegistersBefore(k)) = TotalOf(emitted) + Held'
    BY <1>8, <2>1, <2>4, <2>5, <2>6 DEF f
  <2> HIDE DEF k
  <2> QED  BY <1>1, <2>7, HeldAt
<1> QED  BY <1>10, <1>11

\* A register is counted as it is taken, or the next token is ":".
LEMMA TakeRegisterHeld ==
  ASSUME TypeInv, Counts, AllHeld, TakeRegister
  PROVE  AllHeld'
<1>1. /\ UNCHANGED <<tokens, emitted>> /\ cur # Null /\ IsRegister(at) /\ at' = at + 1
      /\ cur' = [cur EXCEPT !.registers = Append(@, ToRegister(at))]
  BY DEF TakeRegister, Take, InInstruction, source
<1>2. at \in Nat /\ tokens \in Seq(TokenSet) /\ cur \in Readings
  BY <1>1 DEF TypeInv
<1>3. ~ Is(at, ":")
  BY <1>1 DEF IsRegister, Is
<1>4. /\ Cardinality(RegistersBefore(at)) = TotalOf(emitted) + Len(cur.registers)
      /\ TotalOf(emitted) \in Nat
  BY <1>1, <1>3 DEF AllHeld, Held
<1> DEFINE k == at + 1
<1>5. CASE Is(k, ":")
  <2> HIDE DEF k
  <2>1. at' = k
    BY <1>1 DEF k
  <2> QED  BY <1>1, <1>5, <2>1, HeldAt
<1>6. CASE ~ Is(k, ":")
  <2>1. Cardinality(RegistersBefore(k)) = Cardinality(RegistersBefore(at)) + 1
    BY <1>1, <1>2, <1>6, RegistersCounted DEF CountsAt
  <2>2. Held' = Len(cur.registers) + 1 /\ Len(cur.registers) \in Nat
    <3>1. cur.registers \in Seq(0 .. 3) /\ cur'.registers = Append(cur.registers, ToRegister(at))
      BY <1>1, <1>2 DEF Readings
    <3>2. cur' # Null
      <4>1. ToRegister(at) \in 0 .. 3
        BY <1>1, RegistersTyped
      <4>2. Append(cur.registers, ToRegister(at)) \in Seq(0 .. 3)
        BY <3>1, <4>1
      <4>3. cur' \in Readings
        BY <1>1, <1>2, <4>2, TakenIsCut
      <4> QED  BY <4>3, ReadingsTyped
    <3>3. Len(cur'.registers) = Len(cur.registers) + 1
      BY <3>1
    <3> QED  BY <3>1, <3>2, <3>3 DEF Held
  <2>3. at' = k /\ Cardinality(RegistersBefore(k)) = TotalOf(emitted) + Held'
    <3>1. at' = k
      BY <1>1
    <3> HIDE DEF k
    <3> QED  BY <1>4, <2>1, <2>2, <3>1
  <2> HIDE DEF k
  <2> QED  BY <1>1, <2>3, HeldAt
<1> QED  BY <1>5, <1>6

\* Other operands are no registers.
LEMMA TakeOtherHeld ==
  ASSUME TypeInv, AllHeld, InInstruction, ~ IsRegister(at), ~ Is(at, ":"),
         NEW c \in Readings, Take(c), c.registers = cur.registers
  PROVE  AllHeld'
<1>1. UNCHANGED <<tokens, emitted>> /\ cur # Null /\ at' = at + 1 /\ cur' = c
  BY DEF Take, InInstruction, source
<1>2. at \in Nat /\ tokens \in Seq(TokenSet)
  BY DEF TypeInv
<1>3. Cardinality(RegistersBefore(at)) = TotalOf(emitted) + Len(cur.registers)
  BY <1>1 DEF AllHeld, Held
<1>4. Held' = Len(cur.registers)
  <2>1. c # Null
    BY ReadingsTyped
  <2> QED  BY <1>1, <2>1 DEF Held
<1> DEFINE k == at + 1
<1>5. RegistersBefore(k) = RegistersBefore(at)
  BY <1>2, RegistersCounted DEF CountsAt
<1>6. at' = k /\ Cardinality(RegistersBefore(k)) = TotalOf(emitted) + Held'
  BY <1>1, <1>3, <1>4, <1>5
<1> HIDE DEF k
<1> QED  BY <1>1, <1>6, HeldAt

\* A comparator, a literal and a label are such operands.
LEMMA TakesHeld ==
  ASSUME TypeInv, AllHeld, TakeComparator \/ TakeImmediate \/ TakeLabel
  PROVE  AllHeld'
<1>1. InInstruction /\ cur \in Readings
  BY DEF TakeComparator, TakeImmediate, TakeLabel, IsTarget, InInstruction, TypeInv
<1>2. tokens \in Seq(TokenSet)
  BY DEF TypeInv
<1>3. CASE TakeComparator
  <2> DEFINE o == Comparators[Tok(at).type]
             c == [cur EXCEPT !.cmp = o]
  <2>1. Tok(at).type \in {"eq", "lt", "ne", "ge"} /\ Take(c)
    BY <1>3 DEF TakeComparator, Comparators
  <2>2. o \in {0, 1, 2, 3}
    BY <2>1 DEF Comparators
  <2>3. ~ IsRegister(at) /\ ~ Is(at, ":")
    BY <2>1 DEF IsRegister, Is
  <2> HIDE DEF o
  <2>4. c \in Readings
    BY <1>1, <2>2, TakenIsCut
  <2>5. c.registers = cur.registers
    BY <1>1 DEF Readings
  <2> HIDE DEF c
  <2> QED  BY <1>1, <2>1, <2>3, <2>4, <2>5, TakeOtherHeld
<1>4. CASE TakeImmediate
  <2> DEFINE is == Append(cur.imms, Tok(at).value)
             c == [cur EXCEPT !.imms = is]
  <2>1. Is(at, "literal") /\ Take(c)
    BY <1>4 DEF TakeImmediate
  <2>2. is \in Seq(Nat)
    BY <1>1, <1>2, ValuesTyped DEF Readings
  <2>3. ~ IsRegister(at) /\ ~ Is(at, ":")
    BY <2>1 DEF IsRegister, Is
  <2> HIDE DEF is
  <2>4. c \in Readings
    BY <1>1, <2>2, TakenIsCut
  <2>5. c.registers = cur.registers
    BY <1>1 DEF Readings
  <2> HIDE DEF c
  <2> QED  BY <1>1, <2>1, <2>3, <2>4, <2>5, TakeOtherHeld
<1>5. CASE TakeLabel
  <2> DEFINE a == IF pass = 1 THEN 0 ELSE labels[Tok(at).text] % 64
             c == [cur EXCEPT !.jump = a]
  <2>1. IsTarget /\ Take(c) /\ (pass = 1 \/ Tok(at).text \in DOMAIN labels)
    BY <1>5 DEF TakeLabel
  <2>2. a \in Nat
    BY <2>1 DEF TypeInv
  <2>3. ~ IsRegister(at) /\ ~ Is(at, ":")
    BY <2>1 DEF IsTarget, Is
  <2> HIDE DEF a
  <2>4. c \in Readings
    BY <1>1, <2>2, TakenIsCut
  <2>5. c.registers = cur.registers
    BY <1>1 DEF Readings
  <2> HIDE DEF c
  <2> QED  BY <1>1, <2>1, <2>3, <2>4, <2>5, TakeOtherHeld
<1> QED  BY <1>3, <1>4, <1>5

\* The registers of a complete instruction become those of its word.
LEMMA DispatchHeld ==
  ASSUME TypeInv, AllHeld, Dispatch, verdict' \in {"none", "accepted"}
  PROVE  AllHeld'
<1>1. /\ UNCHANGED <<tokens, at>> /\ cur # Null /\ cur' = Null
      /\ Encodable(cur) /\ Complete(cur) /\ emitted' = Append(emitted, Word(cur))
  BY DEF Dispatch, AtEnd, InInstruction, source
<1>2. cur \in Readings /\ at \in Nat
  BY <1>1 DEF TypeInv
<1> DEFINE w == Word(cur)
<1>3. RegistersOf(w) = Len(cur.registers) /\ Len(cur.registers) \in Nat
  <2>1. RegistersOf(w) = Len(RegisterFields(InstrOf(cur.mnemonic)))
    BY <1>1, <1>2, WordRegisters
  <2>2. Len(cur.registers) = Len(RegisterFields(InstrOf(cur.mnemonic)))
    BY <1>1 DEF Complete
  <2>3. cur.registers \in Seq(0 .. 3)
    BY <1>2 DEF Readings
  <2> QED  BY <2>1, <2>2, <2>3
<1> HIDE DEF w
<1>4. \A k \in DOMAIN emitted : RegistersOf(emitted[k]) \in Nat
  BY DEF AllHeld
<1>5. PICK S : emitted \in Seq(S)
  BY DEF TypeInv, EmittedTyped
<1> DEFINE T == S \cup {w}
<1>6. emitted \in Seq(T) /\ w \in T
  BY <1>5
<1>7. emitted' = Append(emitted, w)
  BY <1>1 DEF w
<1> HIDE DEF T
<1>8. TotalOf(emitted) \in Nat /\ TotalOf(Append(emitted, w)) = TotalOf(emitted) + RegistersOf(w)
  BY <1>3, <1>4, <1>6, TotalAppended
<1>9. TotalOf(emitted') = TotalOf(emitted) + Len(cur.registers)
  BY <1>3, <1>7, <1>8
<1>10. \A k \in DOMAIN emitted' : RegistersOf(emitted'[k]) \in Nat
  <2> SUFFICES ASSUME NEW k \in DOMAIN emitted'  PROVE RegistersOf(emitted'[k]) \in Nat
    OBVIOUS
  <2>1. (k \in DOMAIN emitted /\ emitted'[k] = emitted[k]) \/ emitted'[k] = w
    BY <1>6, <1>7
  <2> QED  BY <1>3, <1>4, <2>1
<1>11. /\ Is(at, ":")' <=> Is(at, ":")
       /\ RegistersBefore(at)' = RegistersBefore(at)
  BY <1>1 DEF RegistersBefore, IsRegister, Is, Tok
<1>12. Held' = 0 /\ Held = Len(cur.registers)
  BY <1>1 DEF Held
<1>13. Is(at, ":")' \/ Cardinality(RegistersBefore(at)') = TotalOf(emitted)' + Held'
  <2>1. Is(at, ":") \/ Cardinality(RegistersBefore(at)) = TotalOf(emitted) + Len(cur.registers)
    BY <1>12 DEF AllHeld
  <2>2. TotalOf(emitted)' = TotalOf(emitted')
    OBVIOUS
  <2>3. TotalOf(emitted') + 0 = TotalOf(emitted) + Len(cur.registers)
    BY <1>3, <1>8, <1>9
  <2> QED  BY <1>11, <1>12, <2>1, <2>2, <2>3
<1>14. TotalOf(emitted)' \in Nat
  BY <1>3, <1>8, <1>9
<1> QED  BY <1>10, <1>13, <1>14 DEF AllHeld

\* The second pass begins with nothing.
LEMMA NothingHeld ==
  ASSUME TypeInv, Counts, EndPass, pass = 1
  PROVE  AllHeld'
<1>1. /\ UNCHANGED <<tokens, emitted, cur>> /\ at' = 1 /\ cur = Null /\ emitted = << >>
  BY DEF EndPass, source, Counts
<1>2. RegistersBefore(at)' = {}
  <2>1. DOMAIN tokens' = 1 .. Len(tokens')
    BY <1>1 DEF TypeInv
  <2> QED  BY <1>1, <2>1 DEF RegistersBefore
<1>3. Cardinality(RegistersBefore(at)') = 0
  BY <1>2, FS_EmptySet
<1>4. TotalOf(emitted)' = 0
  BY <1>1, TotalOfNone
<1>5. Held' = 0
  BY <1>1 DEF Held
<1>6. DOMAIN emitted' = {}
  BY <1>1
<1>7. (\A k \in DOMAIN emitted : RegistersOf(emitted[k]) \in Nat)'
  BY <1>6
<1> QED  BY <1>3, <1>4, <1>5, <1>7 DEF AllHeld

\* Nothing has moved.
LEMMA HeldStays ==
  ASSUME UNCHANGED <<tokens, at, cur, emitted>>, AllHeld
  PROVE  AllHeld'
<1>1. Held' = Held
  BY DEF Held
<1>2. at' = at
  OBVIOUS
<1> QED  BY <1>1, <1>2, HeldAt DEF AllHeld

\* Every step keeps the count.
LEMMA HeldPreserved ==
  ASSUME AssemblerInv, HeldInv, [Next]_vars
  PROVE  HeldInv'
<1> SUFFICES ASSUME NoPadding', pass' = 2, verdict' \in {"none", "accepted"}  PROVE AllHeld'
  BY DEF HeldInv
<1>1. TypeInv /\ Counts
  BY DEF AssemblerInv
<1>2. ASSUME UNCHANGED tokens, pass = 2, verdict \in {"none", "accepted"}
      PROVE  NoPadding /\ AllHeld
  <2>1. NoPadding
    BY <1>2 DEF NoPadding, Is, Tok
  <2> QED  BY <1>2, <2>1 DEF HeldInv
<1>3. CASE Advance
  <2>1. UNCHANGED tokens /\ pass' = pass
    BY <1>1, <1>3, AdvanceAdvances DEF Follows
  <2>2. verdict = "none"
    BY <1>3 DEF Advance, Pad, Label, Mnemonic, TakeRegister, TakeComparator, TakeImmediate,
                TakeLabel, Count, Dispatch, AtEnd, IsTarget, InInstruction, KnownMnemonic,
                Named, BetweenStatements, Running
  <2>3. NoPadding /\ AllHeld /\ pass = 2
    BY <1>2, <2>1, <2>2
  <2>4. ~ Pad
    BY <2>3 DEF Pad, BetweenStatements, IsPadding, NoPadding
  <2>5. ~ Count
    BY <2>3 DEF Count
  <2>6. CASE Label
    BY <1>1, <2>3, <2>6, LabelHeld
  <2>7. CASE Mnemonic
    BY <1>1, <2>3, <2>7, MnemonicHeld
  <2>8. CASE TakeRegister
    BY <1>1, <2>3, <2>8, TakeRegisterHeld
  <2>9. CASE TakeComparator \/ TakeImmediate \/ TakeLabel
    BY <1>1, <2>3, <2>9, TakesHeld
  <2>10. CASE Dispatch
    BY <1>1, <2>3, <2>10, DispatchHeld
  <2> QED  BY <1>3, <2>4, <2>5, <2>6, <2>7, <2>8, <2>9, <2>10 DEF Advance
<1>4. CASE PadFails \/ LabelFails \/ MnemonicFails \/ OperandFails
  <2>1. verdict' = "rejected"
    BY <1>4, FailuresFail DEF Failing, Fail
  <2> QED  BY <2>1
<1>5. CASE EndPass
  <2>1. CASE pass = 1
    BY <1>1, <1>5, <2>1, NothingHeld
  <2>2. CASE pass # 1
    <3>1. UNCHANGED <<tokens, at, cur, emitted>> /\ pass = 2 /\ verdict = "none"
      BY <1>5, <2>2 DEF EndPass, source, Running
    <3> QED  BY <1>2, <3>1, HeldStays
  <2> QED  BY <2>1, <2>2
<1>6. CASE Returned \/ UNCHANGED vars
  <2>1. UNCHANGED <<tokens, at, cur, emitted>> /\ pass = 2 /\ verdict \in {"none", "accepted"}
    BY <1>6 DEF Returned, vars, source
  <2> QED  BY <1>2, <2>1, HeldStays
<1> QED  BY <1>3, <1>4, <1>5, <1>6, StepKinds

\* At the end of the second pass all tokens have been read and nothing is being read.
LEMMA HeldInTheEnd == AssemblerInv /\ HeldInv => NothingDropped
<1> SUFFICES ASSUME AssemblerInv, HeldInv, Accepted, NoPadding
             PROVE  Cardinality({i \in DOMAIN tokens : IsRegister(i) /\ ~ Is(i + 1, ":")}) =
                      FoldFunction(LAMBDA word, n : RegistersOf(word) + n, 0, emitted)
  BY DEF NothingDropped, NoPadding
<1>1. TypeInv /\ pass = 2 /\ Final(Place)
  BY DEF AssemblerInv, PassesInv
<1>2. cur = Null /\ at > Len(tokens)
  <2>1. Cut(cur) = Null /\ at > Len(tokens)
    BY <1>1 DEF Final, Place, PlaceOf
  <2> QED  BY <1>1, <2>1, ReadingsTyped DEF TypeInv
<1>3. AllHeld
  BY <1>1 DEF HeldInv, Accepted
<1>4. at \in Nat /\ DOMAIN tokens = 1 .. Len(tokens) /\ Len(tokens) \in Nat
  BY <1>1 DEF TypeInv
<1>5. ~ Is(at, ":")
  BY <1>2, <1>4 DEF Is, Tok, Sym, Token
<1>6. RegistersBefore(at) = {i \in DOMAIN tokens : IsRegister(i) /\ ~ Is(i + 1, ":")}
  BY <1>2, <1>4 DEF RegistersBefore
<1>7. Cardinality(RegistersBefore(at)) = TotalOf(emitted)
  BY <1>2, <1>3, <1>5 DEF AllHeld, Held
<1> QED  BY <1>6, <1>7 DEF TotalOf

\* Whatever the tokens: a program that is accepted, and has no padding, has as many
\* registers in its words as it names.
THEOREM NoRegisterIsLost == Spec => []NothingDropped
<1> DEFINE Inv == AssemblerInv /\ HeldInv
<1>1. Init => Inv
  <2>1. Init => pass = 1
    BY DEF Init
  <2> QED  BY <2>1, Initially DEF HeldInv
<1>2. Inv /\ [Next]_vars => Inv'
  BY HeldPreserved, Preserved
<1>3. Inv => NothingDropped
  BY HeldInTheEnd
<1> QED  BY <1>1, <1>2, <1>3, PTL DEF Spec

=============================================================================
