------------------------------- MODULE GateNet -------------------------------
(****************************************************************************)
(* The gate network of cpu/gate_lib.{h,cc} as a value: what a GateNetwork   *)
(* holds, and each operation on it as an operator from a network to the     *)
(* network the call leaves behind.  The passes that rewrite networks are    *)
(* state machines of their own (GateNetwork, GatePasses) over such a value.  *)
(*                                                                          *)
(* A gate is its position in the deque gates_; position 0 is output_gate_,  *)
(* the fake gate whose inputs are the outputs of the network.  Every other  *)
(* gate has one output, so the terminal {gate, 0} is the gate itself; the   *)
(* terminals with a null gate are the input bits, kLowGate and kHighGate.   *)
(* Input positions count from 1.  A lookup's inputs are its logical inputs  *)
(* followed by their complements, and entry r + 1 of its table is the value *)
(* on row r, whose bit j - 1 is the value of logical input j.  The order    *)
(* in which uses_ enumerates the users of a terminal is not kept: no        *)
(* operation of this module depends on it.                                  *)
(****************************************************************************)
EXTENDS Positions

CONSTANTS
  MaxGates,    \* bound on the number of gates ever added
  MaxOutputs,  \* kMaxOutputs, the number of output slots
  Inputs,      \* the input bits of the network
  Low, High,   \* kLowGate, kHighGate
  Null         \* kNullTerminal, what an undeclared output slot reads

ASSUME NetAssumption ==
  /\ MaxGates \in Nat
  /\ MaxOutputs \in Nat
  /\ Inputs \cap Int = {}
  /\ Low \notin Inputs \cup Int
  /\ High \notin Inputs \cup Int \cup {Low}
  /\ Null \notin Inputs \cup Int \cup {Low, High}

Gates == 1 .. MaxGates
Sink == 0
Users == Gates \cup {Sink}
Terminals == Gates \cup Inputs \cup {Low, High}
Kinds == {"dead", "not", "tri", "mux", "nand", "nor", "lookup"}

IsNet(net) ==
  net \in [ size : 0 .. MaxGates,       \* gates_.size(), the fake gate aside
            outs : 0 .. MaxOutputs,     \* output_offsets_.back()
            kind : [Gates -> Kinds],
            lut  : [Gates -> Seq(BOOLEAN)],   \* lookup_data_, one entry per row
            ins  : [Users -> Seq(Terminals \cup {Null})],
            uses : [Terminals \cup {Null} -> SUBSET (Users \X Nat)] ]

Live(net) == {g \in Gates : net.kind[g] # "dead"}
LiveTerminals(net) == Live(net) \cup Inputs \cup {Low, High}

\* The input slots of user g that read t, as entries of uses_.
Slots(g, ins, t) == {<<g, i>> : i \in {j \in DOMAIN ins : ins[j] = t}}

\* What g reads.
InputsOf(net, g) == {net.ins[g][i] : i \in DOMAIN net.ins[g]}

\* uses_ is the exact inverse of the inputs: a user is listed under a terminal
\* once for each input of it that reads the terminal, and under no other.  The
\* output slots stay listed under kNullTerminal for good (DeclareOutput).
ExactUses(net) ==
  /\ \A t \in Terminals : net.uses[t] = UNION {Slots(u, net.ins[u], t) : u \in Users}
  /\ net.uses[Null] = {<<Sink, i>> : i \in 1 .. MaxOutputs}

\* Nothing reads an erased gate, and exactly the output slots not declared yet
\* read kNullTerminal.
ReadsLive(net) ==
  \A u \in Users : \A i \in DOMAIN net.ins[u] :
    IF u = Sink /\ i > net.outs THEN net.ins[u][i] = Null
                               ELSE net.ins[u][i] \in LiveTerminals(net)

\* An erased gate, like a position not yet taken, has no inputs.
DeadIsBare(net) ==
  /\ \A g \in Gates : net.kind[g] = "dead" => net.ins[g] = << >>
  /\ \A g \in Gates : g > net.size => net.kind[g] = "dead"
  /\ DOMAIN net.ins[Sink] = 1 .. MaxOutputs

WellFormed(net) == IsNet(net) /\ ExactUses(net) /\ ReadsLive(net) /\ DeadIsBare(net)

----------------------------------------------------------------------------
\* Gives user g the inputs ins: every use of the old ones is unregistered,
\* every use of the new ones registered.
Reregister(net, g, ins) ==
  [net EXCEPT
     !.ins[g] = ins,
     !.uses = [t \in DOMAIN @ |-> (@[t] \ Slots(g, net.ins[g], t))
                                     \cup Slots(g, ins, t)]]

----------------------------------------------------------------------------
EmptyNet ==
  [ size |-> 0,
    outs |-> 0,
    kind |-> [g \in Gates |-> "dead"],
    lut  |-> [g \in Gates |-> << >>],
    ins  |-> [g \in Users |-> IF g = Sink THEN [i \in 1 .. MaxOutputs |-> Null]
                                          ELSE << >>],
    uses |-> [t \in Terminals \cup {Null} |->
                IF t = Null THEN {<<Sink, i>> : i \in 1 .. MaxOutputs} ELSE {}] ]

\* The position the next gate takes.
NextGate(net) == net.size + 1

AddLookup(net, kind, ins, lut) ==
  LET g == NextGate(net)
  IN  Reregister([net EXCEPT !.size = g,
                             !.kind[g] = kind,
                             !.lut[g] = lut],
                 g, ins)

AddGate(net, kind, ins) == AddLookup(net, kind, ins, << >>)

\* The new output slot is registered as a user of t; the slot's entry under
\* kNullTerminal stays, as in the code.
DeclareOutput(net, t) ==
  LET o == net.outs + 1
  IN  [net EXCEPT !.outs = o,
                  !.ins[Sink][o] = t,
                  !.uses[t] = @ \cup {<<Sink, o>>}]

\* The input slots of `slots` read r where they read t, and uses_ follows.
Redirect(net, slots, t, r) ==
  [net EXCEPT
     !.ins  = [u \in DOMAIN @ |->
                 [i \in DOMAIN @[u] |-> IF <<u, i>> \in slots THEN r ELSE @[u][i]]],
     !.uses = [x \in DOMAIN @ |-> (@[x] \ IF x = t THEN slots ELSE {})
                                     \cup IF x = r THEN slots ELSE {}]]

\* Faulty: the old input keeps its entry in uses_.
SetInputKeepsUse(net, g, i, t) ==
  [net EXCEPT !.ins[g][i] = t, !.uses[t] = @ \cup {<<g, i>>}]

SetInput(net, g, i, t) ==
  IF t = net.ins[g][i]
  THEN net
  ELSE Redirect(net, {<<g, i>>}, net.ins[g][i], t)

\* Faulty: the users move to r and are still listed under g.
ReplaceKeepsUses(net, g, r, except) ==
  [Redirect(net, {u \in net.uses[g] : u[1] # except}, g, r) EXCEPT
     !.uses[g] = net.uses[g]]

\* Every use of g outside the user `except` reads r instead; Null: no exception.
ReplaceUsesExcept(net, g, r, except) ==
  IF r = g
  THEN net
  ELSE Redirect(net, {u \in net.uses[g] : u[1] # except}, g, r)

ReplaceAllUsesWith(net, g, r) == ReplaceUsesExcept(net, g, r, Null)

\* The positions EraseInputs matches: only the positive half of a lookup.
LogicalEnd(net, g) ==
  LET n == Len(net.ins[g]) IN IF net.kind[g] = "lookup" THEN n \div 2 ELSE n
Matches(net, g, t) == {i \in 1 .. LogicalEnd(net, g) : net.ins[g][i] = t}

EraseInputs(net, g, t) ==
  LET hits    == Matches(net, g, t)
      negated == IF net.kind[g] = "lookup"
                 THEN {i + LogicalEnd(net, g) : i \in hits} ELSE {}
  IN  Reregister(net, g,
        Compact(net.ins[g], (1 .. Len(net.ins[g])) \ (hits \cup negated)))

HasNoUse(net, g) == net.uses[g] = {}

\* Faulty: without inputs_.clear().
EraseKeepsInputs(net, g) == [net EXCEPT !.kind[g] = "dead"]

Erase(net, g) ==
  [Reregister(net, g, << >>) EXCEPT !.kind[g] = "dead"]

----------------------------------------------------------------------------
\* Canonicalize, in the order of the code: drop the neutral inputs of a NAND or
\* a NOR, turn a one-input one into a NOT, fold one constant into a table.
DropNeutral(net, g) ==
  CASE net.kind[g] = "nand" -> EraseInputs(net, g, High)
    [] net.kind[g] = "nor"  -> EraseInputs(net, g, Low)
    [] OTHER                -> net

\* Faulty: a NAND of one input stays a NAND.
OneInputNorIsNot(net, g) ==
  IF net.kind[g] = "nor" /\ Len(net.ins[g]) = 1
  THEN [net EXCEPT !.kind[g] = "not"]
  ELSE net

OneInputIsNot(net, g) ==
  IF net.kind[g] \in {"nand", "nor"} /\ Len(net.ins[g]) = 1
  THEN [net EXCEPT !.kind[g] = "not"]
  ELSE net

Bit(row, j) == (row \div 2 ^ (j - 1)) % 2

\* The rows of the table of g in which every logical input of J has value b.
RowsWith(net, g, J, b) ==
  {r \in DOMAIN net.lut[g] : /\ r <= 2 ^ LogicalEnd(net, g)
                             /\ \A j \in J : Bit(r - 1, j) = b}

\* Faulty: the rows kept for a High input are those in which it is low.
FoldTableRows(net, g) ==
  LET highs == Matches(net, g, High)
  IN  IF net.kind[g] # "lookup" \/ highs = {} THEN net
      ELSE [EraseInputs(net, g, High) EXCEPT
              !.lut[g] = Compact(@, RowsWith(net, g, highs, 0))]

FoldTable(net, g) ==
  LET highs == Matches(net, g, High)
      lows  == Matches(net, g, Low)
      Without(t, J, b) == [EraseInputs(net, g, t) EXCEPT
                             !.lut[g] = Compact(@, RowsWith(net, g, J, b))]
  IN  IF net.kind[g] # "lookup" THEN net
      ELSE IF highs # {} THEN Without(High, highs, 1)
      ELSE IF lows # {} THEN Without(Low, lows, 0)
      ELSE net

\* Faulty: without HasNoUse.
CanonicalizeErases(net, g) ==
  Erase(FoldTable(OneInputIsNot(DropNeutral(net, g), g), g), g)

Canonicalize(net, g) ==
  LET c == FoldTable(OneInputIsNot(DropNeutral(net, g), g), g)
  IN  IF HasNoUse(c, g) THEN Erase(c, g) ELSE c

----------------------------------------------------------------------------
\* The builders of gate_lib.h: the network with the new gates, and the terminal
\* the call returns.
NewGate(net, kind, ins) == [net |-> AddGate(net, kind, ins), out |-> NextGate(net)]

NandOf(net, ins) == NewGate(net, "nand", ins)
NorOf(net, ins)  == NewGate(net, "nor", ins)

NotOf(net, a) ==
  CASE a = High -> [net |-> net, out |-> Low]
    [] a = Low  -> [net |-> net, out |-> High]
    [] OTHER    -> NewGate(net, "not", <<a>>)

AndOf(net, a, b) == LET n == NandOf(net, <<a, b>>) IN NotOf(n.net, n.out)
OrOf(net, a, b)  == LET n == NorOf(net, <<a, b>>)  IN NotOf(n.net, n.out)

XorOf(net, a, b) ==
  LET na == NotOf(net, a)
      nb == NotOf(na.net, b)
  IN  [net |-> AddLookup(nb.net, "lookup", <<a, b, na.out, nb.out>>,
                         <<FALSE, TRUE, TRUE, FALSE>>),
       out |-> NextGate(nb.net)]

MuxOf(net, sel, high, low) ==
  LET ns == NotOf(net, sel)
  IN  NewGate(ns.net, "mux", <<sel, ns.out, high, low>>)

TriStateOf(net, enable, data) ==
  LET ne == NotOf(net, enable)
  IN  NewGate(ne.net, "tri", <<enable, ne.out, data>>)

\* Two cross-coupled NORs; SetInput closes the loop over the placeholder kHighGate.
SrLatch(net, s, r, reset) ==
  LET a == NorOf(net, <<r, High, reset>>)
      b == NorOf(a.net, <<s, High>>)
  IN  [net |-> SetInput(SetInput(b.net, a.out, 2, b.out), b.out, 2, a.out),
       out |-> a.out]

=============================================================================
