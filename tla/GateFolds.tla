------------------------------- MODULE GateFolds -------------------------------
(****************************************************************************)
(* FoldGates and CseGates (cpu/gate_opt.cc), gate by gate: what one visit   *)
(* of these walks makes of a network.                                       *)
(****************************************************************************)
EXTENDS GateValues

----------------------------------------------------------------------------
(* FoldGates.                                                               *)

Unchanged(n) == [net |-> n, changed |-> FALSE]
Rewritten(n, g, r) == [net |-> ReplaceAllUsesWith(n, g, r), changed |-> TRUE]

\* The input of the NOT that input i of g reads; Null if it reads no NOT.
SkipNot(n, g, i) ==
  LET h == n.ins[g][i]
  IN  IF h \in Gates /\ n.kind[h] = "not" THEN n.ins[h][1] ELSE Null

FoldNot(n, g) ==
  LET skipped == SkipNot(n, g, 1)
  IN  CASE skipped # Null      -> Rewritten(n, g, skipped)
        [] n.ins[g][1] = Low   -> Rewritten(n, g, High)
        [] n.ins[g][1] = High  -> Rewritten(n, g, Low)
        [] OTHER               -> Unchanged(n)

FoldMux(n, g, lower) ==
  LET in == n.ins[g]
      hi == NandOf(n, <<in[1], in[3]>>)
      lo == NandOf(hi.net, <<in[2], in[4]>>)
      or == NandOf(lo.net, <<hi.out, lo.out>>)
  IN  IF lower THEN Rewritten(or.net, g, or.out)
      ELSE CASE in[1] = High -> Rewritten(n, g, in[3])
             [] in[1] = Low  -> Rewritten(n, g, in[4])
             [] OTHER        -> Unchanged(n)

FoldTri(n, g) ==
  IF n.ins[g][1] = High THEN Rewritten(n, g, n.ins[g][3]) ELSE Unchanged(n)

\* A NAND or NOR: of no inputs a constant; of two NOTs the dual of their inputs;
\* of a decisive input constant.  Canonicalize has dropped its neutral inputs.
FoldDual(n, g) ==
  LET nor == n.kind[g] = "nor"
      a   == SkipNot(n, g, 1)
      b   == SkipNot(n, g, 2)
      dual == IF nor THEN AndOf(n, a, b) ELSE OrOf(n, a, b)
      decisive == IF nor THEN High ELSE Low
      decided  == IF nor THEN Low ELSE High
  IN  IF Len(n.ins[g]) = 0 THEN Rewritten(n, g, decisive)
      ELSE IF Len(n.ins[g]) # 2 THEN Unchanged(n)
      ELSE IF a # Null /\ b # Null THEN Rewritten(dual.net, g, dual.out)
      ELSE IF decisive \in InputsOf(n, g) THEN Rewritten(n, g, decided)
      ELSE Unchanged(n)

Satisfiable(lut) == \E r \in DOMAIN lut : lut[r]

\* A lookup of one logical input is a constant, the input or its complement; a
\* table of four rows, as MergeGates makes them, is none of these but for Low.
FoldRefuses(n, g) ==
  LET c == Canonicalize(n, g)
  IN  /\ c.kind[g] = "lookup" /\ Len(c.ins[g]) = 2
      /\ Len(c.lut[g]) = 4 /\ Satisfiable(c.lut[g])

FoldLookup(n, g) ==
  IF Len(n.ins[g]) # 2 THEN Unchanged(n)
  ELSE CASE ~ Satisfiable(n.lut[g]) -> Rewritten(n, g, Low)
         [] n.lut[g] = <<TRUE, FALSE>>  -> Rewritten(n, g, n.ins[g][2])
         [] n.lut[g] = <<FALSE, TRUE>>  -> Rewritten(n, g, n.ins[g][1])
         [] n.lut[g] = <<TRUE, TRUE>>   -> Rewritten(n, g, High)

Fold(n, g, lower) ==
  CASE n.kind[g] = "not"    -> FoldNot(n, g)
    [] n.kind[g] = "mux"    -> FoldMux(n, g, lower)
    [] n.kind[g] = "tri"    -> FoldTri(n, g)
    [] n.kind[g] \in {"nand", "nor"} -> FoldDual(n, g)
    [] n.kind[g] = "lookup" -> FoldLookup(n, g)
    [] n.kind[g] = "dead"   -> Unchanged(n)

\* One visit of FoldGates.  Canonicalize reports a change exactly if it made one.
FoldGate(n, g, lower) ==
  LET c == Canonicalize(n, g)
      f == Fold(c, g, lower)
  IN  [net |-> f.net, changed |-> f.changed \/ c # n]

----------------------------------------------------------------------------
(* CseGates.                                                                *)

\* What operator< compares of two gates: a NAND's or NOR's inputs in any order,
\* the others' in theirs.
Key(n, g) ==
  <<n.kind[g], n.lut[g],
    IF n.kind[g] \in {"nand", "nor"}
    THEN [t \in InputsOf(n, g) |-> Cardinality(Slots(g, n.ins[g], t))]
    ELSE n.ins[g]>>

\* The gate of this walk that was equal to g when the walk reached it, if any.
Twins(n, seen, g) == {s[2] : s \in {s \in seen : s[1] = Key(n, g)}}

\* Faulty: the gate merged away is not erased.
CseKeepsGate(n, seen, g) ==
  IF Twins(n, seen, g) = {}
  THEN Unchanged(n)
  ELSE Rewritten(n, g, CHOOSE h \in Twins(n, seen, g) : TRUE)

CseGate(n, seen, g) ==
  IF Twins(n, seen, g) = {}
  THEN Unchanged(n)
  ELSE [net |-> Erase(ReplaceAllUsesWith(n, g, CHOOSE h \in Twins(n, seen, g) : TRUE), g),
        changed |-> TRUE]

----------------------------------------------------------------------------
(* What the rewrites rely on in the networks that they are given.           *)

\* The two inputs always have opposite values.
IsNotOf(n, b, a) == b \in Gates /\ n.kind[b] = "not" /\ n.ins[b][1] = a
Opposite(n, a, b) ==
  IsNotOf(n, a, b) \/ IsNotOf(n, b, a) \/ <<a, b>> \in {<<Low, High>>, <<High, Low>>}

\* The inputs of g that come with their complements, as positions of both.
PairsOf(n, g) ==
  CASE n.kind[g] \in {"mux", "tri"} -> {<<1, 2>>}
    [] n.kind[g] = "lookup" -> {<<i, i + LogicalEnd(n, g)>> : i \in 1 .. LogicalEnd(n, g)}
    [] OTHER -> {}
Paired(n) ==
  \A g \in Live(n) : \A p \in PairsOf(n, g) : Opposite(n, n.ins[g][p[1]], n.ins[g][p[2]])

\* High impedance goes to outputs only ("we should only have high impedance values on
\* outputs", eval.cc).
NoBufferRead(n) ==
  \A g \in Live(n) : \A t \in InputsOf(n, g) : t \in Gates => n.kind[t] # "tri"

\* A lookup has at most two inputs, and a row of its table for each value of them; of one
\* input it may have all rows twice (MergeGates).
TableShape(lut, ins) ==
  \/ Len(ins) = 0 /\ Len(lut) = 1
  \/ Len(ins) = 2 /\ Len(lut) = 2
  \/ Len(ins) = 2 /\ Len(lut) = 4 /\ lut[3] = lut[1] /\ lut[4] = lut[2]
  \/ Len(ins) = 4 /\ Len(lut) = 4
TablesFit(n) ==
  \A g \in Live(n) : n.kind[g] = "lookup" => TableShape(n.lut[g], n.ins[g])

Foldable(n) ==
  WellFormed(n) /\ WellShaped(n) /\ Paired(n) /\ NoBufferRead(n) /\ TablesFit(n)

\* A gate of the walk of CseGates is listed under its key, or under one that reads a
\* gate that is gone, as merging changes the inputs of gates already listed: no later
\* gate has that key.
Mentions(key, t) ==
  IF key[1] \in {"nand", "nor"} THEN t \in DOMAIN key[3]
                                ELSE \E i \in DOMAIN key[3] : key[3][i] = t
Current(n, seen) ==
  \A s \in seen : /\ s[2] \in Live(n)
                  /\ \/ s[1] = Key(n, s[2])
                     \/ \E t \in Gates \ Live(n) : Mentions(s[1], t)

=============================================================================
