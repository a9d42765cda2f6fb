--------------------------- MODULE LowerGatesProofs ---------------------------
(****************************************************************************)
(* Lower leaves a network without placeholders, and every row of its        *)
(* evaluation ends with what the network carries: proofs for every set of   *)
(* gate networks and of transistor networks.                                *)
(*                                                                          *)
(* First the closure: what a network carries is the least set of levels     *)
(* that holds what the row starts with and is closed under wires and open   *)
(* transistors.  Then one row, by an invariant that each visit of a pin     *)
(* preserves: no node has a level that it does not carry, and a level that  *)
(* has not passed a wire waits at one end of it.  Then the builders, RunDte *)
(* and Lower: every connection they make has a pin at one end, and at the   *)
(* other a pin, a rail, an input or a placeholder that is still pending.    *)
(*                                                                          *)
(* Then what the transistors compute.  Each circuit forces its output to    *)
(* the value of its gate, in any set of levels that is closed, and is       *)
(* content with it: some labelling of the nodes with that value is closed.  *)
(* Both are invariants of Lower, of the network so far: a labelling with    *)
(* the values of the gates is closed, so nothing else is carried and no pin *)
(* is short; and whatever is closed agrees, gate by gate, with the values   *)
(* the inputs give, so no less is carried.                                  *)
(****************************************************************************)
EXTENDS LowerGates, FiniteSetTheorems, SequenceTheorems, TLAPS

\* The library's well-foundedness of < on Nat, as the least element of a set.
LEMMA LeastElement ==
  ASSUME NEW T \in SUBSET Nat, T # {}
  PROVE  \E m \in T : \A k \in T : m <= k
<1> DEFINE R == OpToRel(<, Nat)
<1>1. PICK m \in T : \A k \in T : ~ (<<k, m>> \in R)
  <2> HIDE DEF R
  <2>1. IsWellFoundedOn(R, Nat)
    BY NatLessThanWellFounded DEF R
  <2> QED  BY <2>1, WFMin
<1>2. \A k \in Nat : k < m => <<k, m>> \in R
  BY DEF OpToRel
<1>3. \A k \in T : ~ (k < m)
  BY <1>1, <1>2
<1>4. \A k \in T : m <= k
  <2> HIDE DEF R
  <2> QED  BY <1>3
<1> QED  BY <1>4

\* The levels that nodes can carry, and those that a row starts with.
Universe(n, start) == Nodes(n, start) \X Levels
Given(start) == {<<m, start[m]>> : m \in DOMAIN start}

\* A network and the levels a row starts with.
Fits(n, start) ==
  /\ n.types \in Seq({"n", "p"})
  /\ n.wires \in SUBSET (Nodes(n, start) \X Nodes(n, start))
  /\ start \in [DOMAIN start -> Levels]
  /\ IsFiniteSet(DOMAIN start)

\* What every set of carried levels that extends c and is closed contains.
Least(n, start, c) ==
  {x \in Universe(n, start) :
     \A d \in SUBSET Universe(n, start) : c \subseteq d /\ Implied(n, d) \subseteq d => x \in d}

----------------------------------------------------------------------------
(* What is carried.                                                         *)

LEMMA PinsOf ==
  ASSUME NEW n, n.types \in Seq({"n", "p"}), NEW t \in Transistors(n)
  PROVE  /\ t \in Nat /\ TypeOf(n, t) \in {"n", "p"}
         /\ Gate(t) \in Pins(n) /\ Source(t) \in Pins(n) /\ Drain(t) \in Pins(n)
<1>1. Len(n.types) \in Nat /\ DOMAIN n.types = 1 .. Len(n.types)
  OBVIOUS
<1>2. t \in 0 .. Len(n.types) - 1
  BY DEF Transistors, NumTransistors
<1>3. t + 1 \in DOMAIN n.types /\ t \in Nat
  BY <1>1, <1>2
<1>4. TypeOf(n, t) \in {"n", "p"}
  BY <1>3 DEF TypeOf
<1>5. Gate(t) \in Pins(n) /\ Source(t) \in Pins(n) /\ Drain(t) \in Pins(n)
  BY <1>1, <1>2 DEF Gate, Source, Drain, Pin, Pins, NumTransistors
<1> QED  BY <1>3, <1>4, <1>5

\* The two ways in which a set of levels implies x: along a wire and through an open
\* transistor.
ByWire(n, c, x) ==
  \E w \in n.wires, v \in Levels :
    \/ x = <<w[2], v>> /\ <<w[1], v>> \in c
    \/ x = <<w[1], v>> /\ <<w[2], v>> \in c

Through(n, c, x) ==
  \E t \in Transistors(n) :
    \/ /\ x = <<Drain(t), "low">> /\ TypeOf(n, t) = "n"
       /\ <<Gate(t), "high">> \in c /\ <<Source(t), "low">> \in c
    \/ /\ x = <<Drain(t), "high">> /\ TypeOf(n, t) = "p"
       /\ <<Gate(t), "low">> \in c /\ <<Source(t), "high">> \in c

LEMMA ImpliedMember ==
  ASSUME NEW n, NEW c, NEW x
  PROVE  x \in Implied(n, c) <=> ByWire(n, c, x) \/ Through(n, c, x)
<1> DEFINE Along(w) == {<<w[2], v>> : v \in {v \in Levels : <<w[1], v>> \in c}}
                        \cup {<<w[1], v>> : v \in {v \in Levels : <<w[2], v>> \in c}}
           N == {<<Drain(t), "low">> : t \in {t \in Transistors(n) :
                   TypeOf(n, t) = "n"
                     /\ {<<Gate(t), "high">>, <<Source(t), "low">>} \subseteq c}}
           P == {<<Drain(t), "high">> : t \in {t \in Transistors(n) :
                   TypeOf(n, t) = "p"
                     /\ {<<Gate(t), "low">>, <<Source(t), "high">>} \subseteq c}}
           W == UNION {Along(w) : w \in n.wires}
<1>1. Implied(n, c) = N \cup P \cup W
  BY Zenon DEF Implied
<1>2. ASSUME NEW w
      PROVE  x \in Along(w) <=> \E v \in Levels : \/ (x = <<w[2], v>> /\ <<w[1], v>> \in c)
                                                  \/ (x = <<w[1], v>> /\ <<w[2], v>> \in c)
  OBVIOUS
<1>3. x \in N <=> \E t \in Transistors(n) :
        /\ x = <<Drain(t), "low">> /\ TypeOf(n, t) = "n"
        /\ <<Gate(t), "high">> \in c /\ <<Source(t), "low">> \in c
  OBVIOUS
<1>4. x \in P <=> \E t \in Transistors(n) :
        /\ x = <<Drain(t), "high">> /\ TypeOf(n, t) = "p"
        /\ <<Gate(t), "low">> \in c /\ <<Source(t), "high">> \in c
  OBVIOUS
<1> HIDE DEF Along, N, P
<1>5. x \in W <=> ByWire(n, c, x)
  BY <1>2 DEF ByWire
<1> HIDE DEF W
<1>6. x \in N \/ x \in P <=> Through(n, c, x)
  BY <1>3, <1>4 DEF Through
<1> QED  BY <1>1, <1>5, <1>6

LEMMA ImpliedStays ==
  ASSUME NEW n, NEW start, Fits(n, start), NEW c \in SUBSET Universe(n, start)
  PROVE  Implied(n, c) \in SUBSET Universe(n, start)
<1> SUFFICES ASSUME NEW x \in Implied(n, c) PROVE x \in Universe(n, start)
  OBVIOUS
<1>1. CASE ByWire(n, c, x)
  BY <1>1 DEF ByWire, Fits, Universe
<1>2. CASE Through(n, c, x)
  <2>1. PICK t \in Transistors(n) : x \in {<<Drain(t), "low">>, <<Drain(t), "high">>}
    BY <1>2 DEF Through
  <2>2. Drain(t) \in Nodes(n, start)
    BY PinsOf DEF Fits, Nodes
  <2> QED  BY <2>1, <2>2 DEF Universe, Levels
<1> QED  BY <1>1, <1>2, ImpliedMember

LEMMA ImpliedGrows ==
  ASSUME NEW n, NEW c, NEW d, c \subseteq d
  PROVE  Implied(n, c) \subseteq Implied(n, d)
<1> SUFFICES ASSUME NEW x \in Implied(n, c) PROVE x \in Implied(n, d)
  OBVIOUS
<1>1. ByWire(n, c, x) => ByWire(n, d, x)
  BY DEF ByWire
<1>2. Through(n, c, x) => Through(n, d, x)
  BY DEF Through
<1> QED  BY <1>1, <1>2, ImpliedMember

LEMMA UniverseFinite ==
  ASSUME NEW n, NEW start, Fits(n, start)
  PROVE  IsFiniteSet(Universe(n, start))
<1>1. IsFiniteSet(Pins(n))
  <2>1. Len(n.types) \in Nat
    BY DEF Fits
  <2> DEFINE k == 3 * Len(n.types) - 1
  <2>2. 0 \in Int /\ k \in Int
    BY <2>1
  <2>3. Pins(n) = 0 .. k
    BY DEF Pins, NumTransistors
  <2> HIDE DEF k
  <2>4. IsFiniteSet(0 .. k)
    BY <2>2, FS_Interval, Zenon
  <2> QED  BY <2>3, <2>4
<1>2. IsFiniteSet(Nodes(n, start))
  BY <1>1, FS_Union DEF Nodes, Fits
<1>3. IsFiniteSet(Levels)
  <2>1. Levels = {"low"} \cup {"high"}
    BY DEF Levels
  <2>2. IsFiniteSet({"low"}) /\ IsFiniteSet({"high"})
    BY FS_Singleton
  <2> QED  BY <2>1, <2>2, FS_Union
<1> QED  BY <1>2, <1>3, FS_Product DEF Universe

\* Extending c by what it implies changes nothing.
LEMMA LeastOfMore ==
  ASSUME NEW n, NEW start, Fits(n, start), NEW c \in SUBSET Universe(n, start)
  PROVE  /\ Least(n, start, c) = IF Implied(n, c) \subseteq c THEN c
                                 ELSE Least(n, start, c \cup Implied(n, c))
<1>1. CASE Implied(n, c) \subseteq c
  BY <1>1 DEF Least
<1>2. \A d : c \subseteq d /\ Implied(n, d) \subseteq d <=>
             c \cup Implied(n, c) \subseteq d /\ Implied(n, d) \subseteq d
  BY ImpliedGrows
<1>3. Least(n, start, c) = Least(n, start, c \cup Implied(n, c))
  BY <1>2 DEF Least
<1> QED  BY <1>1, <1>3

\* The search for carried levels ends with the least closed set.
LEMMA CarriedIsLeast ==
  ASSUME NEW n, NEW start, Fits(n, start)
  PROVE  Carried(n, start) = Least(n, start, Given(start))
<1> DEFINE U == Universe(n, start)
           E(g) == g = [c \in SUBSET U |-> IF Implied(n, c) \subseteq c THEN c
                                           ELSE g[c \cup Implied(n, c)]]
           f == CHOOSE g : E(g)
           l == [c \in SUBSET U |-> Least(n, start, c)]
<1>1. Carried(n, start) = f[Given(start)]
  BY DEF Carried, Universe, Given
<1>2. Given(start) \in SUBSET U
  BY DEF Given, Fits, Universe, Nodes
<1>3. \A c \in SUBSET U : c \cup Implied(n, c) \in SUBSET U
  BY ImpliedStays
<1>4. E(l)
  <2>1. \A c \in SUBSET U : l[c] = IF Implied(n, c) \subseteq c THEN c
                                   ELSE l[c \cup Implied(n, c)]
    BY <1>3, LeastOfMore
  <2> QED  BY <2>1
<1>5. E(f)
  <2> HIDE DEF E
  <2> QED  BY <1>4
<1>6. \A c \in SUBSET U : f[c] = IF Implied(n, c) \subseteq c THEN c
                                 ELSE f[c \cup Implied(n, c)]
  <2> HIDE DEF f
  <2> QED  BY <1>5
<1> HIDE DEF f, l
<1>7. IsFiniteSet(U)
  BY UniverseFinite
<1> HIDE DEF U, E
<1>8. \A c \in SUBSET U : f[c] = Least(n, start, c)
  <2> DEFINE Bad == {k \in Nat : \E c \in SUBSET U :
                       Cardinality(U \ c) = k /\ f[c] # Least(n, start, c)}
  <2>1. ASSUME Bad # {} PROVE FALSE
    <3>1. PICK k \in Bad : \A j \in Bad : k <= j
      BY <2>1, LeastElement
    <3>2. PICK c \in SUBSET U : Cardinality(U \ c) = k /\ f[c] # Least(n, start, c)
      BY <3>1
    <3> DEFINE d == c \cup Implied(n, c)
    <3>3. ~ (Implied(n, c) \subseteq c)
      BY <1>6, <3>2, LeastOfMore DEF U
    <3>4. d \in SUBSET U /\ f[c] = f[d]
      BY <1>3, <1>6, <3>3
    <3>5. f[d] # Least(n, start, d)
      BY <3>2, <3>3, <3>4, LeastOfMore DEF U
    <3>6. U \ d \in SUBSET (U \ c) /\ U \ d # U \ c
      <4>1. Implied(n, c) \in SUBSET U
        BY ImpliedStays DEF U
      <4> QED  BY <3>3, <4>1
    <3> HIDE DEF d
    <3>7. IsFiniteSet(U \ c)
      BY <1>7, FS_Subset
    <3>8. /\ Cardinality(U \ d) \in Nat /\ Cardinality(U \ c) \in Nat
          /\ Cardinality(U \ d) <= Cardinality(U \ c)
          /\ Cardinality(U \ d) # Cardinality(U \ c)
      BY <3>6, <3>7, FS_Subset, FS_CardinalityType
    <3>9. Cardinality(U \ d) \in Bad
      BY <3>4, <3>5, <3>8
    <3>10. Cardinality(U \ c) <= Cardinality(U \ d)
      <4> HIDE DEF Bad
      <4> QED  BY <3>1, <3>2, <3>9
    <3> QED  BY <3>8, <3>10
  <2>2. \A c \in SUBSET U : Cardinality(U \ c) \in Nat
    BY <1>7, FS_Subset, FS_CardinalityType
  <2> QED  BY <2>1, <2>2
<1> QED  BY <1>1, <1>2, <1>8

\* What the levels that are carried satisfy, and that nothing less does.
LEMMA CarriedFacts ==
  ASSUME NEW n, NEW start, Fits(n, start)
  PROVE  /\ Given(start) \subseteq Carried(n, start)
         /\ Carried(n, start) \in SUBSET Universe(n, start)
         /\ Implied(n, Carried(n, start)) \subseteq Carried(n, start)
         /\ \A c \in SUBSET Universe(n, start) :
              Given(start) \subseteq c /\ Implied(n, c) \subseteq c => Carried(n, start) \subseteq c
<1> DEFINE U == Universe(n, start)
           L == Least(n, start, Given(start))
<1>1. Carried(n, start) = L
  BY CarriedIsLeast
<1>2. Given(start) \in SUBSET U
  BY DEF Given, Fits, Universe, Nodes
<1>3. L \in SUBSET U /\ Given(start) \subseteq L
  BY <1>2 DEF Least
<1>4. \A c \in SUBSET U : Given(start) \subseteq c /\ Implied(n, c) \subseteq c => L \subseteq c
  BY DEF Least
<1> HIDE DEF L
<1>5. \A x \in Implied(n, L) : x \in L
  <2> SUFFICES ASSUME NEW x \in Implied(n, L) PROVE x \in L
    OBVIOUS
  <2>1. x \in U
    BY <1>3, ImpliedStays
  <2>2. ASSUME NEW d \in SUBSET U, Given(start) \subseteq d, Implied(n, d) \subseteq d
        PROVE  x \in d
    <3>1. L \subseteq d
      BY <1>4, <2>2
    <3> QED  BY <2>2, <3>1, ImpliedGrows
  <2> QED  BY <2>1, <2>2 DEF L, Least
<1> QED  BY <1>1, <1>3, <1>4, <1>5

----------------------------------------------------------------------------
(* Evaluate, one row.                                                       *)

\* What the row starts with, the nodes it can reach, and the levels they carry.
Begin == StartOf(inputs, row)
Reach == Nodes(net, Begin)
Carries(m, v) == <<m, v>> \in Carried(net, Begin)

Shorted == \E m \in DOMAIN state : state[m] = "short"
Conflict == \E m \in Reach : Carries(m, "low") /\ Carries(m, "high")

Opens(t) == IF TypeOf(net, t) = "n" THEN "high" ELSE "low"
Passes(t) == IF TypeOf(net, t) = "n" THEN "low" ELSE "high"

\* The map has an entry for every node that is waiting or has been taken.
RowType ==
  /\ DOMAIN Begin \in SUBSET DOMAIN state
  /\ DOMAIN state \in SUBSET Reach
  /\ \A m \in DOMAIN state : state[m] \in PinState
  /\ initial \in SUBSET DOMAIN Begin
  /\ queue \in Seq(Reach)
  /\ \A k \in DOMAIN queue : StateOf(queue[k]) # "undefined"
  /\ rest \in SUBSET Reach
  /\ rest # {} => level \in Levels \cup {"short"}

\* The rails and the inputs keep what they start with, or are driven against it.
StartKept == \A m \in DOMAIN Begin : state[m] \in {Begin[m], "short"}

\* No node has, and none is about to be given, a level that it does not carry, and a
\* short has its reason.
OnlyCarried ==
  /\ \A m \in DOMAIN state : state[m] \in Levels => Carries(m, state[m])
  /\ level \in Levels => \A p \in rest : Carries(p, level)
  /\ rest # {} /\ level = "short" => Shorted
  /\ Shorted => Conflict

\* A level that has not passed a wire yet waits at one end of it: its node is still to be
\* taken, or has been taken and the other end is still to be visited.
WaitsAt(a, b) ==
  \/ a \in initial
  \/ \E k \in DOMAIN queue : queue[k] = a
  \/ b \in rest /\ level = StateOf(a)

Spread ==
  ~ Shorted => \A a \in Reach : \A b \in ConnectedNodes(net, a) :
    StateOf(a) \in Levels => StateOf(b) = StateOf(a) \/ WaitsAt(a, b)

\* An open transistor has driven its drain.
Driven ==
  ~ Shorted => \A t \in Transistors(net) :
    StateOf(Gate(t)) = Opens(t) /\ StateOf(Source(t)) = Passes(t) =>
      StateOf(Drain(t)) = Passes(t)

RowInv == RowType /\ StartKept /\ OnlyCarried /\ Spread /\ Driven

----------------------------------------------------------------------------
\* The pins of a transistor are its own, and no rail or input is one.
LEMMA PinFacts ==
  ASSUME NEW n, n.types \in Seq({"n", "p"}), NEW pin \in Pins(n)
  PROVE  /\ TransistorOf(pin) \in Transistors(n)
         /\ pin \in {Gate(TransistorOf(pin)), Source(TransistorOf(pin)),
                     Drain(TransistorOf(pin))}
         /\ \A t \in Transistors(n) : t # TransistorOf(pin) =>
              pin # Gate(t) /\ pin # Source(t) /\ pin # Drain(t)
<1>1. Len(n.types) \in Nat
  OBVIOUS
<1> DEFINE k == Len(n.types)
           u == pin \div 3
<1>2. pin \in Int /\ pin >= 0 /\ pin <= 3 * k - 1 /\ k \in Nat
  BY <1>1 DEF Pins, NumTransistors
<1> HIDE DEF k
<1>3. u \in 0 .. k - 1 /\ pin \in {3 * u + 1, 3 * u + 2, 3 * u + 0}
  BY <1>2
<1>4. u \in Transistors(n)
  BY <1>3 DEF Transistors, NumTransistors, k
<1>5. ASSUME NEW t \in Transistors(n), t # u
      PROVE  pin # 3 * t + 1 /\ pin # 3 * t + 2 /\ pin # 3 * t + 0
  <2>1. t \in Int
    BY DEF Transistors
  <2>2. u \in Int
    BY <1>3
  <2> HIDE DEF u
  <2> QED  BY <1>3, <1>5, <2>1, <2>2
<1> QED  BY <1>3, <1>4, <1>5 DEF TransistorOf, Gate, Source, Drain, Pin

LEMMA PinsApart ==
  ASSUME NEW t \in Nat, NEW s \in Nat
  PROVE  /\ Gate(t) # Drain(s) /\ Source(t) # Drain(s) /\ Gate(t) # Source(s)
         /\ Drain(t) = Drain(s) => t = s
BY DEF Gate, Source, Drain, Pin

LEMMA StartFacts ==
  ASSUME NEW size \in Nat, NEW r
  PROVE  /\ DOMAIN StartOf(size, r) = {Vdd, Vss} \cup {InputBit(i) : i \in 0 .. size - 1}
         /\ \A m \in DOMAIN StartOf(size, r) : m \in Int /\ m < 0 /\ StartOf(size, r)[m] \in Levels
         /\ StartOf(size, r) \in [DOMAIN StartOf(size, r) -> Levels]
         /\ IsFiniteSet(DOMAIN StartOf(size, r))
<1> DEFINE D == {Vdd, Vss} \cup {InputBit(i) : i \in 0 .. size - 1}
           S == StartOf(size, r)
           e(node) == CASE node = Vdd -> "high"
                        [] node = Vss -> "low"
                        [] node <= InputBit(0) -> RowLevel(r, InputBit(0) - node)
<1>1. S = [node \in D |-> e(node)]
  BY DEF StartOf
<1>2. \A m \in D : m \in Int /\ m < 0 /\ (m = Vdd \/ m = Vss \/ m <= InputBit(0))
  BY DEF Vdd, Vss, InputBit
<1>3. \A m \in D : e(m) \in Levels
  <2>1. \A i : RowLevel(r, i) \in Levels
    BY DEF RowLevel, Levels
  <2>2. Vdd # Vss /\ ~ (Vdd <= InputBit(0)) /\ ~ (Vss <= InputBit(0))
    BY DEF Vdd, Vss, InputBit
  <2>3. "high" \in Levels /\ "low" \in Levels
    BY DEF Levels
  <2> QED  BY <1>2, <2>1, <2>2, <2>3
<1>4. IsFiniteSet(D)
  <2> DEFINE k == size - 1
             f == [i \in 0 .. k |-> InputBit(i)]
  <2>1. 0 \in Int /\ k \in Int
    OBVIOUS
  <2> HIDE DEF k
  <2>2. IsFiniteSet(0 .. k)
    BY <2>1, FS_Interval, Zenon
  <2>3. {InputBit(i) : i \in 0 .. k} = {f[i] : i \in 0 .. k}
    OBVIOUS
  <2>4. IsFiniteSet({InputBit(i) : i \in 0 .. k})
    <3>1. f \in Surjection(0 .. k, {InputBit(i) : i \in 0 .. k})
      BY <2>3 DEF Surjection
    <3> QED  BY <2>2, <3>1, FS_Surjection
  <2>5. IsFiniteSet({Vdd, Vss})
    <3>1. {Vdd, Vss} = {Vdd} \cup {Vss}
      OBVIOUS
    <3>2. IsFiniteSet({Vdd}) /\ IsFiniteSet({Vss})
      BY FS_Singleton
    <3> QED  BY <3>1, <3>2, FS_Union
  <2> QED  BY <2>4, <2>5, FS_Union DEF k
<1> HIDE DEF D, e, S
<1>5. DOMAIN S = D /\ \A m \in D : S[m] = e(m)
  BY <1>1
<1> QED  BY <1>1, <1>2, <1>3, <1>4, <1>5 DEF S, D

\* While a row is evaluated its network, its inputs and its number stay.
SameRow == net' = net /\ inputs' = inputs /\ row' = row

LEMMA SameRowFacts ==
  ASSUME SameRow
  PROVE  /\ Begin' = Begin /\ Reach' = Reach
         /\ \A m, v : Carries(m, v)' <=> Carries(m, v)
         /\ \A t : Opens(t)' = Opens(t) /\ Passes(t)' = Passes(t)
<1>1. Begin' = Begin
  BY DEF SameRow, Begin
<1>2. Reach' = Reach
  BY <1>1 DEF SameRow, Reach
<1>3. Carried(net, Begin)' = Carried(net, Begin)
  BY <1>1 DEF SameRow
<1> QED  BY <1>1, <1>2, <1>3 DEF SameRow, Carries, Opens, Passes

\* What is carried is closed under wires and open transistors.
LEMMA CarriesFacts ==
  ASSUME inputs \in Nat, Fits(net, Begin)
  PROVE  /\ \A m \in DOMAIN Begin : Carries(m, Begin[m])
         /\ \A a \in Reach : \A b \in ConnectedNodes(net, a) : \A v \in Levels :
              b \in Reach /\ (Carries(a, v) => Carries(b, v))
         /\ \A t \in Transistors(net) :
              Carries(Gate(t), Opens(t)) /\ Carries(Source(t), Passes(t)) =>
                Carries(Drain(t), Passes(t))
<1> DEFINE L == Carried(net, Begin)
<1>1. /\ Given(Begin) \subseteq L /\ Implied(net, L) \subseteq L
  BY CarriedFacts
<1> HIDE DEF L
<1>2. \A m \in DOMAIN Begin : Carries(m, Begin[m])
  BY <1>1 DEF Given, Carries, L
<1>3. ASSUME NEW a \in Reach, NEW b \in ConnectedNodes(net, a), NEW v \in Levels
      PROVE  b \in Reach /\ (Carries(a, v) => Carries(b, v))
  <2>1. PICK w \in net.wires : (w[1] = a /\ w[2] = b) \/ (w[2] = a /\ w[1] = b)
    BY DEF ConnectedNodes
  <2>2. b \in Reach
    BY <2>1 DEF Fits, Reach
  <2>3. ASSUME <<a, v>> \in L
        PROVE  <<b, v>> \in L
    <3>1. ByWire(net, L, <<b, v>>)
      BY <2>1, <2>3 DEF ByWire
    <3> QED  BY <1>1, <3>1, ImpliedMember
  <2> QED  BY <2>2, <2>3 DEF Carries, L
<1>4. ASSUME NEW t \in Transistors(net), Carries(Gate(t), Opens(t)), Carries(Source(t), Passes(t))
      PROVE  Carries(Drain(t), Passes(t))
  <2>1. TypeOf(net, t) \in {"n", "p"}
    BY PinsOf DEF Fits
  <2>2. Through(net, L, <<Drain(t), Passes(t)>>)
    BY <1>4, <2>1 DEF Through, Carries, Opens, Passes, L
  <2> QED  BY <1>1, <2>2, ImpliedMember DEF Carries, L
<1> QED  BY <1>2, <1>3, <1>4

----------------------------------------------------------------------------
LEMMA BeginRowInv ==
  ASSUME inputs' \in Nat, Fits(net', StartOf(inputs', row')),
         BeginRow(inputs', row')
  PROVE  RowInv'
<1> DEFINE S == StartOf(inputs', row')
<1>1. /\ state' = S /\ initial' = DOMAIN S /\ queue' = << >> /\ level' = "undefined"
      /\ rest' = {} /\ Begin' = S
  BY DEF BeginRow, Begin
<1>2. \A m \in DOMAIN S : m \in Int /\ m < 0 /\ S[m] \in Levels
  BY StartFacts
<1>3. \A m \in DOMAIN S : <<m, S[m]>> \in Carried(net', S)
  BY CarriedFacts DEF Given
<1>4. DOMAIN S \in SUBSET Reach'
  BY <1>1 DEF Reach, Nodes
<1> HIDE DEF S
<1>5. \A m \in DOMAIN state' : state'[m] \in Levels /\ state'[m] # "short" /\ state'[m] # "undefined"
  BY <1>1, <1>2 DEF Levels
<1>6. RowType'
  <2>1. \A m \in DOMAIN state' : state'[m] \in PinState
    BY <1>5 DEF PinState
  <2>2. queue' \in Seq(Reach') /\ DOMAIN queue' = {}
    BY <1>1
  <2> QED  BY <1>1, <1>4, <2>1, <2>2 DEF RowType
<1>7. ~ Shorted'
  BY <1>5 DEF Shorted
<1>8. StartKept'
  BY <1>1 DEF StartKept
<1>9. OnlyCarried'
  <2>1. \A m \in DOMAIN Begin' : Carries(m, Begin[m])'
    BY <1>3, <1>1 DEF Carries
  <2>2. level' \notin Levels
    BY <1>1 DEF Levels
  <2> QED  BY <1>1, <1>7, <2>1, <2>2 DEF OnlyCarried
<1>10. Spread'
  <2>1. \A a : StateOf(a)' \in Levels => a \in initial'
    BY <1>1 DEF StateOf, Levels
  <2> QED  BY <2>1 DEF Spread, WaitsAt
<1>11. Driven'
  <2>1. ASSUME NEW t \in Transistors(net')
        PROVE  StateOf(Gate(t))' = "undefined"
    <3>1. t \in Nat
      BY DEF Transistors
    <3>2. Gate(t) \in Int /\ Gate(t) >= 0
      BY <3>1 DEF Gate, Pin
    <3>3. Gate(t) \notin DOMAIN S
      BY <1>2, <3>2
    <3> QED  BY <1>1, <3>3 DEF StateOf
  <2>2. \A t : Opens(t)' # "undefined"
    BY DEF Opens
  <2> QED  BY <2>1, <2>2 DEF Driven
<1> QED  BY <1>6, <1>8, <1>9, <1>10, <1>11 DEF RowInv

\* Taking a node hands its level to everything it is connected with.
LEMMA TakeInv ==
  ASSUME inputs \in Nat, Fits(net, Begin), RowInv, NEW node \in DOMAIN state,
         state[node] # "undefined", Take(node), SameRow,
         initial' \in SUBSET initial, queue' \in Seq(Reach),
         \A k \in DOMAIN queue' : \E j \in DOMAIN queue : queue[j] = queue'[k],
         \A a \in initial : a = node \/ a \in initial',
         \A j \in DOMAIN queue : queue[j] = node \/ \E k \in DOMAIN queue' : queue'[k] = queue[j]
  PROVE  RowInv'
<1> USE DEF RowInv
<1>1. /\ state' = state /\ level' = state[node] /\ rest' = ConnectedNodes(net, node)
      /\ rest = {}
  BY DEF Take
<1>2. /\ Begin' = Begin /\ Reach' = Reach /\ net' = net
      /\ \A m, v : Carries(m, v)' <=> Carries(m, v)
      /\ \A t : Opens(t)' = Opens(t) /\ Passes(t)' = Passes(t)
  BY SameRowFacts DEF SameRow
<1>3. \A m : StateOf(m)' = StateOf(m)
  BY <1>1 DEF StateOf
<1>4. node \in Reach /\ state[node] \in Levels \cup {"short"} /\ StateOf(node) = state[node]
  BY DEF RowType, PinState, StateOf
<1>5. \A b \in ConnectedNodes(net, node) : \A v \in Levels :
        b \in Reach /\ (Carries(node, v) => Carries(b, v))
  BY <1>4, CarriesFacts
<1>6. RowType'
  <2>1. rest' \in SUBSET Reach
    BY <1>1, <1>5 DEF Levels
  <2>2. (\A k \in DOMAIN queue : StateOf(queue[k]) # "undefined")'
    <3> SUFFICES ASSUME NEW k \in DOMAIN queue' PROVE StateOf(queue'[k]) # "undefined"
      BY <1>1 DEF StateOf
    <3>1. PICK j \in DOMAIN queue : queue[j] = queue'[k]
      OBVIOUS
    <3> QED  BY <3>1 DEF RowType
  <2>3. initial' \in SUBSET DOMAIN Begin'
    BY <1>2 DEF RowType
  <2>4. /\ DOMAIN Begin' \in SUBSET DOMAIN state' /\ DOMAIN state' \in SUBSET Reach'
        /\ \A m \in DOMAIN state' : state'[m] \in PinState
    BY <1>1, <1>2 DEF RowType
  <2>5. queue' \in Seq(Reach') /\ rest' \in SUBSET Reach' /\ level' \in Levels \cup {"short"}
    BY <1>1, <1>2, <1>4, <2>1
  <2> QED  BY <2>2, <2>3, <2>4, <2>5 DEF RowType
<1>7. Shorted' <=> Shorted
  BY <1>1 DEF Shorted
<1>8. StartKept'
  BY <1>1, <1>2 DEF StartKept
<1>9. OnlyCarried'
  <2>1. \A m \in DOMAIN state' : state'[m] \in Levels => Carries(m, state[m])'
    BY <1>1, <1>2 DEF OnlyCarried
  <2>2. ASSUME level' \in Levels, NEW p \in rest'
        PROVE  Carries(p, level)'
    <3>1. Carries(node, level')
      BY <1>1, <2>2 DEF OnlyCarried
    <3>2. Carries(p, level')
      BY <1>1, <1>5, <2>2, <3>1
    <3> QED  BY <1>2, <3>2 DEF Carries
  <2>3. level' = "short" => Shorted'
    BY <1>1 DEF Shorted
  <2>4. Shorted' => Conflict'
    BY <1>2, <1>7 DEF OnlyCarried, Conflict
  <2> QED  BY <1>1, <2>1, <2>2, <2>3, <2>4 DEF OnlyCarried
<1>10. Spread'
  <2> SUFFICES ASSUME ~ Shorted', NEW a \in Reach, NEW b \in ConnectedNodes(net, a),
                      StateOf(a) \in Levels
               PROVE  StateOf(b) = StateOf(a) \/ WaitsAt(a, b)'
    BY <1>2, <1>3 DEF Spread
  <2>1. StateOf(b) = StateOf(a) \/ WaitsAt(a, b)
    BY <1>7 DEF Spread
  <2>2. CASE a = node
    BY <1>1, <1>3, <1>4, <2>2 DEF WaitsAt
  <2>3. CASE a # node
    <3>1. ~ (b \in rest)
      BY <1>1
    <3>2. CASE a \in initial
      BY <2>3, <3>2 DEF WaitsAt
    <3>3. CASE \E k \in DOMAIN queue : queue[k] = a
      BY <2>3, <3>3 DEF WaitsAt
    <3> QED  BY <2>1, <3>1, <3>2, <3>3 DEF WaitsAt
  <2> QED  BY <2>2, <2>3
<1>11. Driven'
  BY <1>2, <1>3, <1>7 DEF Driven
<1> QED  BY <1>6, <1>8, <1>9, <1>10, <1>11

LEMMA TakeInitialInv ==
  ASSUME inputs \in Nat, Fits(net, Begin), RowInv, NEW node \in initial, TakeInitial(node)
  PROVE  RowInv'
<1>1. /\ Take(node) /\ initial' = initial \ {node} /\ queue' = queue
  BY DEF TakeInitial
<1>2. SameRow
  BY <1>1 DEF Take, SameRow
<1>3. node \in DOMAIN state /\ state[node] # "undefined"
  <2>1. node \in DOMAIN Begin
    BY DEF RowInv, RowType
  <2>2. Begin[node] \in Levels
    BY <2>1, StartFacts DEF Begin
  <2> QED  BY <2>1, <2>2 DEF RowInv, RowType, StartKept, Levels
<1>4. queue' \in Seq(Reach)
  BY <1>1 DEF RowInv, RowType
<1> QED  BY <1>1, <1>2, <1>3, <1>4, TakeInv

LEMMA TakeQueuedInv ==
  ASSUME inputs \in Nat, Fits(net, Begin), RowInv, TakeQueued
  PROVE  RowInv'
<1> DEFINE node == Head(queue)
<1>1. /\ Take(node) /\ initial' = initial /\ queue' = Tail(queue) /\ queue # << >>
  BY DEF TakeQueued
<1>2. SameRow
  BY <1>1 DEF Take, SameRow
<1>3. queue \in Seq(Reach) /\ Len(queue) \in Nat /\ DOMAIN queue = 1 .. Len(queue)
  BY DEF RowInv, RowType
<1>4. /\ Len(queue) >= 1 /\ node = queue[1] /\ 1 \in DOMAIN queue
      /\ queue' \in Seq(Reach) /\ DOMAIN queue' = 1 .. Len(queue) - 1
      /\ \A k \in 1 .. Len(queue) - 1 : queue'[k] = queue[k + 1]
  BY <1>1, <1>3
<1> HIDE DEF node
<1>5. node \in DOMAIN state /\ state[node] # "undefined"
  <2>1. StateOf(node) # "undefined"
    BY <1>4 DEF RowInv, RowType
  <2> QED  BY <2>1 DEF StateOf
<1>6. \A k \in DOMAIN queue' : \E j \in DOMAIN queue : queue[j] = queue'[k]
  <2> SUFFICES ASSUME NEW k \in DOMAIN queue' PROVE k + 1 \in DOMAIN queue /\ queue[k + 1] = queue'[k]
    OBVIOUS
  <2> QED  BY <1>3, <1>4
<1>7. \A j \in DOMAIN queue : queue[j] = node \/ \E k \in DOMAIN queue' : queue'[k] = queue[j]
  <2> SUFFICES ASSUME NEW j \in DOMAIN queue, j # 1
               PROVE  j - 1 \in DOMAIN queue' /\ queue'[j - 1] = queue[j]
    BY <1>4
  <2> QED  BY <1>3, <1>4
<1>8. initial' \in SUBSET initial /\ \A a \in initial : a = node \/ a \in initial'
  BY <1>1
<1> QED  BY <1>1, <1>2, <1>4, <1>5, <1>6, <1>7, <1>8, TakeInv

----------------------------------------------------------------------------
(* update_pin.                                                              *)

\* The states of the nodes once pin has the level, before its transistor is looked at.
Set(pin, m) == IF m = pin THEN level ELSE StateOf(m)

\* The state its drain then has.
DrainOf(pin) ==
  LET t == TransistorOf(pin)
  IN  Conducts(TypeOf(net, t), Set(pin, Gate(t)), Set(pin, Source(t)), Set(pin, Drain(t)))

\* What a visit leaves alone.
VisitFrame(pin) ==
  /\ SameRow /\ initial' = initial /\ level' = level /\ rest' = rest \ {pin}
  /\ pin \in rest

\* A node that has no level yet is a pin of a transistor.
LEMMA UndefinedIsPin ==
  ASSUME inputs \in Nat, RowType, StartKept, NEW m \in Reach, StateOf(m) = "undefined"
  PROVE  m \in Pins(net)
<1>1. CASE m \in DOMAIN Begin
  <2>1. Begin[m] \in Levels
    BY <1>1, StartFacts DEF Begin
  <2>2. state[m] # "undefined" /\ m \in DOMAIN state
    BY <1>1, <2>1 DEF RowType, StartKept, Levels
  <2> QED  BY <2>2 DEF StateOf
<1>2. CASE m \notin DOMAIN Begin
  BY <1>2 DEF Reach, Nodes
<1> QED  BY <1>1, <1>2

\* The pin is as it should be already.
LEMMA VisitSame ==
  ASSUME inputs \in Nat, Fits(net, Begin), RowInv, NEW pin, VisitFrame(pin),
         state' = state, queue' = queue, StateOf(pin) = level
  PROVE  RowInv'
<1> USE DEF RowInv
<1>1. /\ Begin' = Begin /\ Reach' = Reach /\ net' = net
      /\ \A m, v : Carries(m, v)' <=> Carries(m, v)
      /\ \A t : Opens(t)' = Opens(t) /\ Passes(t)' = Passes(t)
  BY SameRowFacts DEF SameRow, VisitFrame
<1>2. /\ initial' = initial /\ level' = level /\ rest' = rest \ {pin}
  BY DEF VisitFrame
<1>3. \A m : StateOf(m)' = StateOf(m)
  BY DEF StateOf
<1>4. RowType'
  <2>1. (\A k \in DOMAIN queue : StateOf(queue[k]) # "undefined")'
    BY DEF StateOf, RowType
  <2>2. /\ DOMAIN Begin' \in SUBSET DOMAIN state' /\ DOMAIN state' \in SUBSET Reach'
        /\ \A m \in DOMAIN state' : state'[m] \in PinState
    BY <1>1 DEF RowType
  <2>3. /\ initial' \in SUBSET DOMAIN Begin' /\ queue' \in Seq(Reach')
        /\ rest' \in SUBSET Reach'
        /\ rest' # {} => level' \in Levels \cup {"short"}
    BY <1>1, <1>2 DEF RowType
  <2> QED  BY <2>1, <2>2, <2>3 DEF RowType
<1>5. Shorted' <=> Shorted
  BY DEF Shorted
<1>6. StartKept'
  BY <1>1 DEF StartKept
<1>7. OnlyCarried'
  <2>1. \A m \in DOMAIN state' : state'[m] \in Levels => Carries(m, state[m])'
    BY <1>1 DEF OnlyCarried, Carries
  <2>2. level' \in Levels => \A p \in rest' : Carries(p, level)'
    BY <1>1, <1>2 DEF OnlyCarried, Carries
  <2>3. rest' # {} /\ level' = "short" => Shorted'
    BY <1>2, <1>5 DEF OnlyCarried
  <2>4. Shorted' => Conflict'
    BY <1>1, <1>5 DEF OnlyCarried, Conflict
  <2> QED  BY <2>1, <2>2, <2>3, <2>4 DEF OnlyCarried
<1>8. Spread'
  <2> SUFFICES ASSUME ~ Shorted', NEW a \in Reach, NEW b \in ConnectedNodes(net, a),
                      StateOf(a) \in Levels
               PROVE  StateOf(b) = StateOf(a) \/ WaitsAt(a, b)'
    BY <1>1, <1>3 DEF Spread
  <2>1. StateOf(b) = StateOf(a) \/ WaitsAt(a, b)
    BY <1>5 DEF Spread
  <2>2. WaitsAt(a, b)' <=> \/ a \in initial
                           \/ \E k \in DOMAIN queue : queue[k] = a
                           \/ b \in rest' /\ level = StateOf(a)
    BY <1>2, <1>3 DEF WaitsAt
  <2> QED  BY <1>2, <2>1, <2>2 DEF WaitsAt
<1>9. Driven'
  BY <1>1, <1>3, <1>5 DEF Driven
<1> QED  BY <1>4, <1>6, <1>7, <1>8, <1>9

\* The pin is driven two ways.
LEMMA VisitShort ==
  ASSUME inputs \in Nat, Fits(net, Begin), RowInv, NEW pin, VisitFrame(pin),
         StateOf(pin) # level, StateOf(pin) # "undefined",
         state' = [state EXCEPT ![pin] = "short"], queue' = Append(queue, pin)
  PROVE  RowInv'
<1> USE DEF RowInv
<1>1. /\ Begin' = Begin /\ Reach' = Reach /\ net' = net
      /\ \A m, v : Carries(m, v)' <=> Carries(m, v)
  BY SameRowFacts DEF SameRow, VisitFrame
<1>2. /\ initial' = initial /\ level' = level /\ rest' = rest \ {pin} /\ pin \in rest
  BY DEF VisitFrame
<1>3. pin \in DOMAIN state /\ StateOf(pin) = state[pin] /\ pin \in Reach
  BY <1>2 DEF StateOf, RowType
<1>4. /\ DOMAIN state' = DOMAIN state /\ state'[pin] = "short"
      /\ \A m \in DOMAIN state : m # pin => state'[m] = state[m]
  BY <1>3
<1>5. Shorted'
  BY <1>3, <1>4 DEF Shorted
<1>6. queue' \in Seq(Reach) /\ DOMAIN queue' = 1 .. Len(queue) + 1 /\ Len(queue) \in Nat
      /\ DOMAIN queue = 1 .. Len(queue)
      /\ \A k \in DOMAIN queue' : queue'[k] = IF k \in DOMAIN queue THEN queue[k] ELSE pin
  BY <1>3 DEF RowType
<1>7. RowType'
  <2>1. (\A k \in DOMAIN queue : StateOf(queue[k]) # "undefined")'
    <3> SUFFICES ASSUME NEW k \in DOMAIN queue'
                 PROVE  queue'[k] \in DOMAIN state' /\ state'[queue'[k]] # "undefined"
      BY DEF StateOf
    <3>1. CASE k \in DOMAIN queue
      <4>1. StateOf(queue[k]) # "undefined"
        BY <3>1 DEF RowType
      <4> QED  BY <1>4, <1>6, <3>1, <4>1 DEF StateOf
    <3>2. CASE k \notin DOMAIN queue
      BY <1>3, <1>4, <1>6, <3>2
    <3> QED  BY <3>1, <3>2
  <2>2. /\ DOMAIN Begin' \in SUBSET DOMAIN state' /\ DOMAIN state' \in SUBSET Reach'
        /\ \A m \in DOMAIN state' : state'[m] \in PinState
    BY <1>1, <1>4 DEF RowType, PinState
  <2>3. /\ initial' \in SUBSET DOMAIN Begin' /\ queue' \in Seq(Reach')
        /\ rest' \in SUBSET Reach'
        /\ rest' # {} => level' \in Levels \cup {"short"}
    BY <1>1, <1>2, <1>6 DEF RowType
  <2> QED  BY <2>1, <2>2, <2>3 DEF RowType
<1>8. StartKept'
  BY <1>1, <1>4 DEF StartKept, RowType
<1>9. Conflict
  <2>1. state[pin] \in Levels \cup {"short"} /\ level \in Levels \cup {"short"}
    BY <1>2, <1>3 DEF RowType, PinState
  <2>2. CASE state[pin] = "short" \/ level = "short"
    BY <1>2, <1>3, <2>2 DEF OnlyCarried, Shorted
  <2>3. CASE state[pin] \in Levels /\ level \in Levels
    <3>1. Carries(pin, state[pin]) /\ Carries(pin, level)
      BY <1>2, <1>3, <2>3 DEF OnlyCarried
    <3>2. {state[pin], level} = {"low", "high"}
      BY <1>3, <2>3 DEF Levels
    <3> QED  BY <1>3, <3>1, <3>2 DEF Conflict
  <2> QED  BY <2>1, <2>2, <2>3
<1>10. OnlyCarried'
  <2>1. \A m \in DOMAIN state' : state'[m] \in Levels => Carries(m, state[m])'
    BY <1>1, <1>4 DEF OnlyCarried, Carries, Levels
  <2>2. level' \in Levels => \A p \in rest' : Carries(p, level)'
    BY <1>1, <1>2 DEF OnlyCarried, Carries
  <2>3. Conflict'
    BY <1>1, <1>9 DEF Conflict
  <2> QED  BY <1>5, <2>1, <2>2, <2>3 DEF OnlyCarried
<1> QED  BY <1>5, <1>7, <1>8, <1>10 DEF Spread, Driven

\* Nothing changes.
LEMMA UnchangedRowInv ==
  ASSUME RowInv, SameRow, state' = state, initial' = initial, queue' = queue,
         level' = level, rest' = rest
  PROVE  RowInv'
<1>1. Begin' = Begin /\ Reach' = Reach /\ net' = net
  BY SameRowFacts DEF SameRow
<1>2. \A m : StateOf(m)' = StateOf(m)
  BY DEF StateOf
<1>3. Carried(net, Begin)' = Carried(net, Begin)
  BY <1>1
<1>4. Conflict' <=> Conflict
  BY <1>1, <1>3 DEF Conflict, Carries
<1>5. RowType'
  <2>1. (\A k \in DOMAIN queue : StateOf(queue[k]) # "undefined")'
    BY DEF StateOf, RowInv, RowType
  <2> QED  BY <1>1, <2>1 DEF RowInv, RowType
<1>6. StartKept'
  BY <1>1 DEF RowInv, StartKept
<1>7. Shorted' <=> Shorted
  BY DEF Shorted
<1>8. OnlyCarried'
  <2>1. \A m \in DOMAIN state' : state'[m] \in Levels => Carries(m, state[m])'
    BY <1>3 DEF RowInv, OnlyCarried, Carries
  <2>2. level' \in Levels => \A p \in rest' : Carries(p, level)'
    BY <1>3 DEF RowInv, OnlyCarried, Carries
  <2> QED  BY <1>4, <1>7, <2>1, <2>2 DEF RowInv, OnlyCarried
<1>9. Spread'
  BY <1>1, <1>2, <1>7 DEF RowInv, Spread, WaitsAt
<1>10. Driven'
  BY <1>1, <1>2, <1>7 DEF RowInv, Driven, Opens, Passes
<1> QED  BY <1>5, <1>6, <1>8, <1>9, <1>10 DEF RowInv

\* What a transistor does to its drain, by the states of its pins.
LEMMA ConductsFacts ==
  ASSUME NEW type \in {"n", "p"}, NEW gate \in PinState, NEW source \in PinState,
         NEW drain \in PinState
  PROVE  LET opens  == IF type = "n" THEN "high" ELSE "low"
             passes == IF type = "n" THEN "low" ELSE "high"
             result == Conducts(type, gate, source, drain)
         IN  /\ \/ result = drain
                \/ result = "short" /\ (gate = "short" \/ source = "short")
                \/ /\ gate = opens /\ source = passes /\ drain \notin {passes, "undefined"}
                   /\ result = "short"
                \/ gate = opens /\ source = passes /\ drain = "undefined" /\ result = passes
             /\ gate = opens /\ source = passes => result \in {passes, "short"}
             /\ result = "undefined" => drain = "undefined"
             /\ gate = "undefined" => result = drain
             /\ drain = "short" => result = "short"
<1> DEFINE opens  == IF type = "n" THEN "high" ELSE "low"
           passes == IF type = "n" THEN "low" ELSE "high"
           result == Conducts(type, gate, source, drain)
<1>1. /\ opens \in {"high", "low"} /\ passes \in {"high", "low"}
  OBVIOUS
<1>2. /\ gate = "undefined" => result = drain
      /\ gate # "undefined" /\ (gate = "short" \/ source = "short") => result = "short"
      /\ gate = opens /\ source = passes /\ drain = passes => result = drain
      /\ gate = opens /\ source = passes /\ drain # passes =>
           result = IF drain = "undefined" THEN passes ELSE "short"
      /\ gate # "short" /\ source # "short" /\ ~ (gate = opens /\ source = passes) =>
           result = drain
  BY DEF Conducts
<1> QED  BY <1>1, <1>2

\* The pin gets its first level, and may open or close the circuit of its transistor.
LEMMA VisitStates ==
  ASSUME inputs \in Nat, Fits(net, Begin), RowInv, NEW pin \in Pins(net),
         level \in Levels \cup {"short"}, StateOf(pin) = "undefined", UpdatePin(pin)
  PROVE  LET t == TransistorOf(pin)
         IN  /\ \A m : StateOf(m)' = IF m = Drain(t) THEN DrainOf(pin) ELSE Set(pin, m)
             /\ DOMAIN state \in SUBSET DOMAIN state'
             /\ DOMAIN state' \in SUBSET Reach
             /\ \A m \in DOMAIN state' : StateOf(m)' = state'[m]
             /\ queue' = IF DrainOf(pin) = Set(pin, Drain(t)) THEN Append(queue, pin)
                         ELSE queue \o <<pin, Drain(t)>>
             /\ DrainOf(pin) # "undefined" \/ StateOf(Drain(t)) = "undefined"
             /\ pin \in DOMAIN state'
<1> DEFINE t == TransistorOf(pin)
           read == {pin, Gate(t)} \cup
                     IF Set(pin, Gate(t)) = "undefined" THEN {} ELSE {Source(t), Drain(t)}
           drain == DrainOf(pin)
<1>1. /\ state' = [m \in DOMAIN state \cup read |-> IF m = Drain(t) THEN drain ELSE Set(pin, m)]
      /\ queue' = IF drain = Set(pin, Drain(t)) THEN Append(queue, pin)
                  ELSE queue \o <<pin, Drain(t)>>
  <2>1. ~ Same(pin)
    BY DEF Same, Levels
  <2> QED  BY <2>1 DEF UpdatePin, Set, DrainOf
<1>2. t \in Transistors(net)
  BY PinFacts DEF Fits
<1>3. read \in SUBSET Reach
  <2>1. pin \in Reach /\ Gate(t) \in Reach /\ Source(t) \in Reach /\ Drain(t) \in Reach
    BY <1>2, PinsOf DEF Fits, Reach, Nodes
  <2> QED  BY <2>1
<1>4. \A m : Set(pin, m) \in PinState
  BY DEF Set, StateOf, RowInv, RowType, PinState, Levels
<1>5. TypeOf(net, t) \in {"n", "p"}
  BY <1>2, PinsOf DEF Fits
<1>6. /\ Set(pin, Gate(t)) = "undefined" => drain = Set(pin, Drain(t))
      /\ drain = "undefined" => Set(pin, Drain(t)) = "undefined"
  BY <1>4, <1>5, ConductsFacts DEF DrainOf
<1>7. ASSUME NEW m
      PROVE  StateOf(m)' = IF m = Drain(t) THEN drain ELSE Set(pin, m)
  <2>1. CASE m \in DOMAIN state \cup read
    <3>1. StateOf(m)' = state'[m]
      BY <1>1, <2>1 DEF StateOf
    <3> QED  BY <1>1, <2>1, <3>1
  <2>2. CASE m \notin DOMAIN state \cup read
    <3>1. StateOf(m)' = "undefined" /\ StateOf(m) = "undefined" /\ m # pin
      BY <1>1, <2>2 DEF StateOf
    <3>2. Set(pin, m) = "undefined"
      BY <3>1 DEF Set
    <3>3. m = Drain(t) => drain = "undefined"
      BY <1>6, <2>2, <3>2
    <3> QED  BY <3>1, <3>2, <3>3
  <2> QED  BY <2>1, <2>2
<1>8. /\ DOMAIN state' = DOMAIN state \cup read
      /\ \A m \in DOMAIN state' : StateOf(m)' = state'[m]
  BY <1>1 DEF StateOf
<1>9. drain # "undefined" \/ StateOf(Drain(t)) = "undefined"
  BY <1>6 DEF Set, Levels
<1>10. DOMAIN state \in SUBSET Reach
  BY DEF RowInv, RowType
<1> HIDE DEF drain, read
<1> QED  BY <1>1, <1>3, <1>7, <1>8, <1>9, <1>10 DEF drain, read

LEMMA VisitNew ==
  ASSUME inputs \in Nat, Fits(net, Begin), RowInv, NEW pin, VisitFrame(pin),
         StateOf(pin) = "undefined", UpdatePin(pin)
  PROVE  RowInv'
<1> USE DEF RowInv
<1> DEFINE t == TransistorOf(pin)
           drain == DrainOf(pin)
<1>1. /\ Begin' = Begin /\ Reach' = Reach /\ net' = net
      /\ \A m, v : Carries(m, v)' <=> Carries(m, v)
      /\ \A s : Opens(s)' = Opens(s) /\ Passes(s)' = Passes(s)
  BY SameRowFacts DEF SameRow, VisitFrame
<1>2. /\ initial' = initial /\ level' = level /\ rest' = rest \ {pin} /\ pin \in rest
  BY DEF VisitFrame
<1>3. /\ level \in Levels \cup {"short"} /\ pin \in Reach
  BY <1>2 DEF RowType
<1>4. pin \in Pins(net)
  BY <1>3, UndefinedIsPin
<1>5. /\ t \in Transistors(net) /\ t \in Nat /\ TypeOf(net, t) \in {"n", "p"}
      /\ pin \in {Gate(t), Source(t), Drain(t)}
      /\ Drain(t) \in Pins(net) /\ Drain(t) \in Reach
  BY <1>4, PinFacts, PinsOf DEF Fits, Reach, Nodes
<1>6. /\ \A m : StateOf(m)' = IF m = Drain(t) THEN drain ELSE Set(pin, m)
      /\ DOMAIN state \in SUBSET DOMAIN state' /\ DOMAIN state' \in SUBSET Reach
      /\ \A m \in DOMAIN state' : StateOf(m)' = state'[m]
      /\ queue' = IF drain = Set(pin, Drain(t)) THEN Append(queue, pin)
                  ELSE queue \o <<pin, Drain(t)>>
      /\ drain # "undefined" \/ StateOf(Drain(t)) = "undefined"
      /\ pin \in DOMAIN state'
  BY <1>3, <1>4, VisitStates
<1>7. \A m : Set(pin, m) \in PinState
  BY <1>3 DEF Set, StateOf, RowType, PinState, Levels
<1>8. /\ \/ drain = Set(pin, Drain(t))
         \/ drain = "short" /\ (Set(pin, Gate(t)) = "short" \/ Set(pin, Source(t)) = "short")
         \/ /\ Set(pin, Gate(t)) = Opens(t) /\ Set(pin, Source(t)) = Passes(t)
            /\ Set(pin, Drain(t)) \notin {Passes(t), "undefined"} /\ drain = "short"
         \/ /\ Set(pin, Gate(t)) = Opens(t) /\ Set(pin, Source(t)) = Passes(t)
            /\ Set(pin, Drain(t)) = "undefined" /\ drain = Passes(t)
      /\ Set(pin, Gate(t)) = Opens(t) /\ Set(pin, Source(t)) = Passes(t) =>
           drain \in {Passes(t), "short"}
      /\ Set(pin, Drain(t)) = "short" => drain = "short"
  BY <1>5, <1>7, ConductsFacts DEF DrainOf, Opens, Passes
<1> HIDE DEF t, drain
<1>9. \A s : Passes(s) \in Levels /\ Opens(s) \in Levels
  BY DEF Passes, Opens, Levels
<1>10. drain \in PinState
  BY <1>7, <1>8, <1>9 DEF PinState
\* A node's new state is its old one unless that was undefined or the new one is a short.
<1>11. \A m : StateOf(m)' = StateOf(m) \/ StateOf(m)' = "short"
                \/ (StateOf(m) = "undefined" /\ m \in {pin, Drain(t)})
  BY <1>6, <1>8, <1>9 DEF Set
<1>12. \A m : StateOf(m) = "short" => StateOf(m)' = "short"
  BY <1>6, <1>8 DEF Set
<1>13. Shorted => Shorted'
  <2> SUFFICES ASSUME NEW m \in DOMAIN state, state[m] = "short"
               PROVE  m \in DOMAIN state' /\ state'[m] = "short"
    BY DEF Shorted
  <2>1. StateOf(m) = "short" /\ m \in DOMAIN state'
    BY <1>6 DEF StateOf
  <2> QED  BY <1>6, <1>12, <2>1
<1>14. \A m : Set(pin, m) = "short" => Shorted
  <2> SUFFICES ASSUME NEW m, Set(pin, m) = "short" PROVE Shorted
    OBVIOUS
  <2>1. CASE m = pin
    BY <1>2, <2>1 DEF Set, OnlyCarried
  <2>2. CASE m # pin
    BY <2>2 DEF Set, StateOf, Shorted
  <2> QED  BY <2>1, <2>2
<1>15. \A m : Set(pin, m) \in Levels => Carries(m, Set(pin, m))
  <2> SUFFICES ASSUME NEW m, Set(pin, m) \in Levels PROVE Carries(m, Set(pin, m))
    OBVIOUS
  <2>1. CASE m = pin
    BY <1>2, <2>1 DEF Set, OnlyCarried
  <2>2. CASE m # pin
    BY <2>2 DEF Set, StateOf, OnlyCarried, Levels
  <2> QED  BY <2>1, <2>2
<1>16. Set(pin, Gate(t)) = Opens(t) /\ Set(pin, Source(t)) = Passes(t) =>
         Carries(Drain(t), Passes(t))
  BY <1>5, <1>9, <1>15, CarriesFacts
<1>17. drain = "short" => Conflict
  <2>1. CASE Set(pin, Gate(t)) = "short" \/ Set(pin, Source(t)) = "short"
                \/ Set(pin, Drain(t)) = "short"
    BY <1>14, <2>1 DEF OnlyCarried
  <2>2. CASE /\ Set(pin, Gate(t)) = Opens(t) /\ Set(pin, Source(t)) = Passes(t)
             /\ Set(pin, Drain(t)) \in Levels /\ Set(pin, Drain(t)) # Passes(t)
    <3>1. Carries(Drain(t), Passes(t)) /\ Carries(Drain(t), Set(pin, Drain(t)))
      BY <1>15, <1>16, <2>2
    <3>2. {Passes(t), Set(pin, Drain(t))} = {"low", "high"}
      BY <1>9, <2>2 DEF Levels
    <3> QED  BY <1>5, <3>1, <3>2 DEF Conflict
  <2> QED  BY <1>7, <1>8, <1>9, <2>1, <2>2 DEF PinState, Levels
<1>18. Shorted' => Conflict
  <2> SUFFICES ASSUME NEW m \in DOMAIN state', state'[m] = "short" PROVE Conflict
    BY DEF Shorted
  <2>1. CASE m = Drain(t)
    BY <1>6, <1>17, <2>1
  <2>2. CASE m # Drain(t)
    BY <1>6, <1>14, <2>2 DEF OnlyCarried
  <2> QED  BY <2>1, <2>2
<1>19. \A m : StateOf(m)' \in Levels => Carries(m, StateOf(m)')
  <2> SUFFICES ASSUME NEW m, StateOf(m)' \in Levels PROVE Carries(m, StateOf(m)')
    OBVIOUS
  <2>1. CASE m = Drain(t)
    BY <1>6, <1>8, <1>15, <1>16, <2>1 DEF Levels
  <2>2. CASE m # Drain(t)
    BY <1>6, <1>15, <2>2
  <2> QED  BY <2>1, <2>2
<1>20. /\ queue' \in Seq(Reach)
       /\ \A k \in DOMAIN queue' :
            \/ \E j \in DOMAIN queue : queue'[k] = queue[j]
            \/ queue'[k] = pin
            \/ queue'[k] = Drain(t) /\ drain # Set(pin, Drain(t))
       /\ \A k \in DOMAIN queue : \E j \in DOMAIN queue' : queue'[j] = queue[k]
       /\ \E j \in DOMAIN queue' : queue'[j] = pin
       /\ drain # Set(pin, Drain(t)) => \E j \in DOMAIN queue' : queue'[j] = Drain(t)
  <2> DEFINE q == queue
             n == Len(queue)
             x == Drain(t)
  <2>1. q \in Seq(Reach) /\ n \in Nat /\ DOMAIN q = 1 .. n /\ Len(q) = n /\ x \in Reach
    BY <1>5 DEF RowType
  <2>2. CASE drain = Set(pin, Drain(t))
    <3>1. queue' = Append(q, pin)
      BY <1>6, <2>2
    <3> HIDE DEF q, n, x
    <3>2. /\ queue' \in Seq(Reach) /\ DOMAIN queue' = 1 .. n + 1
          /\ queue'[n + 1] = pin
          /\ \A k \in 1 .. n : queue'[k] = q[k]
      BY <1>3, <2>1, <3>1
    <3> QED  BY <2>1, <2>2, <3>2 DEF q
  <2>3. CASE drain # Set(pin, Drain(t))
    <3>1. queue' = q \o <<pin, x>>
      BY <1>6, <2>3
    <3>2. q \o <<pin, x>> = Append(Append(q, pin), x)
      BY <1>3, <2>1
    <3> HIDE DEF q, n, x
    <3>3. /\ queue' \in Seq(Reach) /\ DOMAIN queue' = 1 .. n + 2
          /\ queue'[n + 1] = pin /\ queue'[n + 2] = x
          /\ \A k \in 1 .. n : queue'[k] = q[k]
      <4> DEFINE r == Append(q, pin)
      <4>1. /\ r \in Seq(Reach) /\ Len(r) = n + 1 /\ r[n + 1] = pin
            /\ \A k \in 1 .. n : r[k] = q[k]
        BY <1>3, <2>1
      <4>2. /\ Append(r, x) \in Seq(Reach) /\ DOMAIN Append(r, x) = 1 .. n + 2
            /\ Append(r, x)[n + 2] = x
            /\ \A k \in 1 .. n + 1 : Append(r, x)[k] = r[k]
        <5> HIDE DEF r
        <5> QED  BY <2>1, <4>1
      <4>3. n + 1 \in 1 .. n + 1 /\ \A k \in 1 .. n : k \in 1 .. n + 1
        BY <2>1
      <4>4. queue' = Append(r, x)
        BY <3>1, <3>2
      <4> HIDE DEF r
      <4> QED  BY <4>1, <4>2, <4>3, <4>4
    <3>4. \A k \in 1 .. n + 2 : k \in 1 .. n \/ k = n + 1 \/ k = n + 2
      BY <2>1
    <3>5. n + 1 \in 1 .. n + 2 /\ n + 2 \in 1 .. n + 2 /\ \A k \in 1 .. n : k \in 1 .. n + 2
      BY <2>1
    <3> QED  BY <2>1, <2>3, <3>3, <3>4, <3>5 DEF q, x
  <2> QED  BY <2>2, <2>3
\* No node becomes undefined, and what has been put into the queue has a state.
<1>21. \A m : StateOf(m) # "undefined" => StateOf(m)' # "undefined"
  BY <1>11
<1>22. StateOf(pin)' # "undefined"
  <2>1. level # "undefined" /\ Set(pin, pin) = level
    BY <1>3 DEF Levels, Set
  <2> QED  BY <1>6, <1>8, <1>9, <2>1 DEF Levels
<1>23. drain # Set(pin, Drain(t)) => StateOf(Drain(t))' # "undefined"
  <2>1. drain # Set(pin, Drain(t)) => drain # "undefined"
    BY <1>8, <1>9 DEF Levels
  <2> QED  BY <1>6, <2>1
<1>24. RowType'
  <2>1. (\A k \in DOMAIN queue : StateOf(queue[k]) # "undefined")'
    <3>1. \A j \in DOMAIN queue : StateOf(queue[j]) # "undefined"
      BY DEF RowType
    <3>2. ASSUME NEW m, \/ StateOf(m) # "undefined" \/ m = pin
                        \/ (m = Drain(t) /\ drain # Set(pin, Drain(t)))
          PROVE  m \in DOMAIN state' /\ state'[m] # "undefined"
      <4>1. StateOf(m)' # "undefined"
        BY <1>21, <1>22, <1>23, <3>2
      <4> QED  BY <4>1 DEF StateOf
    <3>3. \A k \in DOMAIN queue' : queue'[k] \in DOMAIN state' /\ state'[queue'[k]] # "undefined"
      BY <1>20, <3>1, <3>2
    <3> QED  BY <3>3 DEF StateOf
  <2>2. /\ DOMAIN Begin' \in SUBSET DOMAIN state' /\ DOMAIN state' \in SUBSET Reach'
    BY <1>1, <1>6 DEF RowType
  <2>3. \A m \in DOMAIN state' : state'[m] \in PinState
    <3> TAKE m \in DOMAIN state'
    <3>1. state'[m] = IF m = Drain(t) THEN drain ELSE Set(pin, m)
      BY <1>6
    <3> QED  BY <1>7, <1>10, <3>1
  <2>4. /\ initial' \in SUBSET DOMAIN Begin' /\ queue' \in Seq(Reach')
        /\ rest' \in SUBSET Reach'
        /\ rest' # {} => level' \in Levels \cup {"short"}
    BY <1>1, <1>2, <1>3, <1>20 DEF RowType
  <2> QED  BY <2>1, <2>2, <2>3, <2>4 DEF RowType
<1>25. StartKept'
  <2>1. \A m \in DOMAIN Begin : StateOf(m) # "undefined" /\ StateOf(m) = state[m]
    <3> TAKE m \in DOMAIN Begin
    <3>1. Begin[m] \in Levels
      BY StartFacts DEF Begin
    <3>2. m \in DOMAIN state /\ state[m] \in {Begin[m], "short"}
      BY DEF RowType, StartKept
    <3> QED  BY <3>1, <3>2 DEF StateOf, Levels
  <2>2. \A m \in DOMAIN Begin : StateOf(m)' = state'[m]
    BY <1>6 DEF RowType
  <2>3. \A m \in DOMAIN Begin : state'[m] \in {state[m], "short"}
    BY <1>11, <2>1, <2>2
  <2> QED  BY <1>1, <2>3 DEF StartKept
<1>26. OnlyCarried'
  <2>1. \A m \in DOMAIN state' : state'[m] \in Levels => Carries(m, state[m])'
    <3> SUFFICES ASSUME NEW m \in DOMAIN state', state'[m] \in Levels
                 PROVE  Carries(m, state'[m])
      BY <1>1 DEF Carries
    <3>1. StateOf(m)' = state'[m]
      BY <1>6
    <3>2. Carries(m, StateOf(m)')
      BY <1>19, <3>1
    <3> QED  BY <3>1, <3>2
  <2>2. level' \in Levels => \A p \in rest' : Carries(p, level)'
    BY <1>1, <1>2 DEF OnlyCarried, Carries
  <2>3. rest' # {} /\ level' = "short" => Shorted'
    BY <1>2, <1>13 DEF OnlyCarried
  <2>4. Shorted' => Conflict'
    BY <1>1, <1>18 DEF Conflict
  <2> QED  BY <2>1, <2>2, <2>3, <2>4 DEF OnlyCarried
<1>27. Spread'
  <2> SUFFICES ASSUME ~ Shorted', NEW a \in Reach, NEW b \in ConnectedNodes(net, a),
                      StateOf(a)' \in Levels
               PROVE  StateOf(b)' = StateOf(a)' \/ WaitsAt(a, b)'
    BY <1>1 DEF Spread
  <2>1. ~ Shorted
    BY <1>13
  <2>2. \A m : StateOf(m)' # "short"
    BY <1>6 DEF Shorted, StateOf
  <2>3. /\ a \in initial => WaitsAt(a, b)'
        /\ (\E k \in DOMAIN queue' : queue'[k] = a) => WaitsAt(a, b)'
        /\ b \in rest' /\ level = StateOf(a)' => WaitsAt(a, b)'
    BY <1>2 DEF WaitsAt
  <2>4. CASE StateOf(a) = "undefined"
    <3>1. \E k \in DOMAIN queue' : queue'[k] = a
      <4>1. CASE a = pin
        BY <1>20, <4>1
      <4>2. CASE a # pin
        <5>1. Set(pin, a) = "undefined"
          BY <2>4, <4>2 DEF Set
        <5>2. a = Drain(t) /\ drain # Set(pin, Drain(t))
          BY <1>6, <5>1 DEF Levels
        <5> QED  BY <1>20, <5>2
      <4> QED  BY <4>1, <4>2
    <3> QED  BY <2>3, <3>1
  <2>5. CASE StateOf(a) # "undefined"
    <3>1. StateOf(a)' = StateOf(a)
      BY <1>11, <2>2, <2>5
    <3>2. StateOf(b) = StateOf(a) \/ WaitsAt(a, b)
      BY <2>1, <3>1 DEF Spread
    <3>3. CASE StateOf(b) = StateOf(a)
      BY <1>11, <2>2, <2>5, <3>1, <3>3
    <3>4. CASE a \in initial \/ \E k \in DOMAIN queue : queue[k] = a
      BY <1>20, <2>3, <3>4
    <3>5. CASE b \in rest /\ level = StateOf(a)
      <4>1. CASE b = pin
        <5>1. StateOf(b)' \in {level, "short"}
          <6>1. Set(pin, pin) = level /\ level # "undefined"
            BY <1>3 DEF Set, Levels
          <6> QED  BY <1>6, <1>8, <4>1, <6>1
        <5> QED  BY <2>2, <3>1, <3>5, <5>1
      <4>2. CASE b # pin
        BY <1>2, <2>3, <3>1, <3>5, <4>2
      <4> QED  BY <4>1, <4>2
    <3> QED  BY <3>2, <3>3, <3>4, <3>5 DEF WaitsAt
  <2> QED  BY <2>4, <2>5
<1>28. Driven'
  <2> SUFFICES ASSUME ~ Shorted', NEW s \in Transistors(net),
                      StateOf(Gate(s))' = Opens(s), StateOf(Source(s))' = Passes(s)
               PROVE  StateOf(Drain(s))' = Passes(s)
    BY <1>1 DEF Driven
  <2>1. ~ Shorted
    BY <1>13
  <2>2. \A m : StateOf(m)' # "short"
    BY <1>6 DEF Shorted, StateOf
  <2>3. s \in Nat
    BY PinsOf DEF Fits
  <2>4. Gate(s) # Drain(t) /\ Source(s) # Drain(t)
    BY <1>5, <2>3, PinsApart
  <2>5. Set(pin, Gate(s)) = Opens(s) /\ Set(pin, Source(s)) = Passes(s)
    BY <1>6, <2>4
  <2>6. CASE s = t
    BY <1>6, <1>8, <2>2, <2>5, <2>6
  <2>7. CASE s # t
    <3>1. pin # Gate(s) /\ pin # Source(s) /\ pin # Drain(s)
      BY <1>4, <2>7, PinFacts DEF Fits, t
    <3>2. StateOf(Drain(s)) = Passes(s)
      BY <2>1, <2>5, <3>1 DEF Set, Driven
    <3> QED  BY <1>9, <1>11, <2>2, <3>2 DEF Levels
  <2> QED  BY <2>6, <2>7
<1> QED  BY <1>24, <1>25, <1>26, <1>27, <1>28

LEMMA VisitInv ==
  ASSUME inputs \in Nat, Fits(net, Begin), RowInv, NEW pin \in rest, Visit(pin)
  PROVE  RowInv'
<1>1. VisitFrame(pin) /\ UpdatePin(pin)
  BY DEF Visit, VisitFrame, SameRow
<1>2. CASE StateOf(pin) = level
  <2>1. state' = state /\ queue' = queue
    BY <1>1, <1>2 DEF UpdatePin, Same
  <2> QED  BY <1>1, <1>2, <2>1, VisitSame
<1>3. CASE StateOf(pin) # level /\ StateOf(pin) # "undefined"
  <2>1. state' = [state EXCEPT ![pin] = "short"] /\ queue' = Append(queue, pin)
    BY <1>1, <1>3 DEF UpdatePin, Same
  <2> QED  BY <1>1, <1>3, <2>1, VisitShort
<1>4. CASE StateOf(pin) # level /\ StateOf(pin) = "undefined"
  BY <1>1, <1>4, VisitNew
<1> QED  BY <1>2, <1>3, <1>4

LEMMA EvaluateInv ==
  ASSUME inputs \in Nat, Fits(net, Begin), RowInv, Evaluate,
         \A r : Fits(net, StartOf(inputs, r))
  PROVE  verdict' = "running" => RowInv'
<1>1. ASSUME NEW node \in initial, TakeInitial(node) PROVE RowInv'
  BY <1>1, TakeInitialInv
<1>2. CASE TakeQueued
  BY <1>2, TakeQueuedInv
<1>3. ASSUME NEW pin \in rest, Visit(pin) PROVE RowInv'
  BY <1>3, VisitInv
<1>4. CASE EndRow
  <2>1. CASE Accepts /\ row + 1 < 2 ^ inputs
    <3>1. BeginRow(inputs, row + 1) /\ net' = net /\ inputs' = inputs
      BY <1>4, <2>1 DEF EndRow
    <3>2. BeginRow(inputs', row')
      BY <3>1 DEF BeginRow
    <3>3. Fits(net', StartOf(inputs', row'))
      BY <3>1
    <3> QED  BY <3>1, <3>2, <3>3, BeginRowInv
  <2>2. CASE ~ (Accepts /\ row + 1 < 2 ^ inputs)
    BY <1>4, <2>2 DEF EndRow
  <2> QED  BY <2>1, <2>2
<1> QED  BY <1>1, <1>2, <1>3, <1>4 DEF Evaluate

\* When everything has spread and nothing is short, the states are closed.
LEMMA SettledIsClosed ==
  ASSUME inputs \in Nat, Fits(net, Begin), RowInv, Propagated, ~ Shorted
  PROVE  \A m \in Reach : \A v \in Levels : Carries(m, v) => StateOf(m) = v
<1> DEFINE C == {x \in Universe(net, Begin) : StateOf(x[1]) = x[2]}
<1>1. Given(Begin) \subseteq C
  <2> SUFFICES ASSUME NEW m \in DOMAIN Begin
               PROVE  <<m, Begin[m]>> \in C
    BY DEF Given
  <2>1. Begin[m] \in Levels /\ m \in Reach
    BY StartFacts DEF Begin, Reach, Nodes
  <2>2. m \in DOMAIN state /\ state[m] = Begin[m]
    BY DEF RowInv, RowType, StartKept, Shorted
  <2> QED  BY <2>1, <2>2 DEF StateOf, Universe, Reach
<1>2. ASSUME NEW x, ByWire(net, C, x) PROVE x \in C
  <2>1. PICK w \in net.wires, v \in Levels :
          \/ x = <<w[2], v>> /\ <<w[1], v>> \in C
          \/ x = <<w[1], v>> /\ <<w[2], v>> \in C
    BY <1>2 DEF ByWire
  <2>2. PICK a, b : /\ (a = w[1] /\ b = w[2]) \/ (a = w[2] /\ b = w[1])
                    /\ x = <<b, v>> /\ <<a, v>> \in C
    BY <2>1
  <2>3. a \in Reach /\ b \in Reach /\ StateOf(a) = v
    BY <2>2 DEF Fits, Reach, Universe
  <2>4. b \in ConnectedNodes(net, a)
    BY <2>2 DEF ConnectedNodes
  <2>5. StateOf(b) = v
    BY <2>3, <2>4 DEF RowInv, Spread, WaitsAt, Propagated
  <2> QED  BY <2>2, <2>3, <2>5 DEF Universe, Reach
<1>3. ASSUME NEW x, Through(net, C, x) PROVE x \in C
  <2>1. PICK t \in Transistors(net) :
          /\ x = <<Drain(t), Passes(t)>>
          /\ <<Gate(t), Opens(t)>> \in C /\ <<Source(t), Passes(t)>> \in C
    BY <1>3 DEF Through, Passes, Opens
  <2>2. StateOf(Drain(t)) = Passes(t)
    BY <2>1 DEF RowInv, Driven
  <2>3. Drain(t) \in Nodes(net, Begin) /\ Passes(t) \in Levels
    BY PinsOf DEF Fits, Nodes, Passes, Levels
  <2> QED  BY <2>1, <2>2, <2>3 DEF Universe
<1>4. Implied(net, C) \subseteq C
  BY <1>2, <1>3, ImpliedMember
<1>5. C \in SUBSET Universe(net, Begin)
  OBVIOUS
<1>6. Carried(net, Begin) \subseteq C
  <2> HIDE DEF C
  <2> QED  BY <1>1, <1>4, <1>5, CarriedFacts
<1> QED  BY <1>6 DEF Carries

LEMMA RowIsRight ==
  ASSUME inputs \in Nat, Fits(net, Begin), RowInv
  PROVE  ShortsAreConflicts
<1> SUFFICES ASSUME Propagated
             PROVE  IF \E m \in DOMAIN state \cup Pins(net) : Carries(m, "low") /\ Carries(m, "high")
                    THEN Shorted
                    ELSE \A m \in DOMAIN state \cup Pins(net) :
                           StateOf(m) = IF Carries(m, "low") THEN "low"
                                        ELSE IF Carries(m, "high") THEN "high" ELSE "undefined"
  BY DEF ShortsAreConflicts, Begin, Carries, Shorted
<1>1. DOMAIN state \cup Pins(net) = Reach
  BY DEF RowInv, RowType, Reach, Nodes
<1>2. Shorted <=> Conflict
  <2>1. Shorted => Conflict
    BY DEF RowInv, OnlyCarried
  <2>2. ASSUME Conflict, ~ Shorted PROVE FALSE
    <3>1. PICK m \in Reach : Carries(m, "low") /\ Carries(m, "high")
      BY <2>2 DEF Conflict
    <3> QED  BY <2>2, <3>1, SettledIsClosed DEF Levels
  <2> QED  BY <2>1, <2>2
<1>3. ASSUME ~ Shorted, NEW m \in Reach
      PROVE  StateOf(m) = IF Carries(m, "low") THEN "low"
                          ELSE IF Carries(m, "high") THEN "high" ELSE "undefined"
  <2>1. \A v \in Levels : Carries(m, v) => StateOf(m) = v
    BY <1>3, SettledIsClosed
  <2>2. StateOf(m) \in Levels => Carries(m, StateOf(m))
    BY DEF RowInv, OnlyCarried, StateOf, Levels
  <2>3. StateOf(m) \in Levels \cup {"undefined"}
    BY <1>3 DEF RowInv, RowType, StateOf, PinState, Shorted
  <2> QED  BY <2>1, <2>2, <2>3 DEF Levels
<1> QED  BY <1>1, <1>2, <1>3 DEF Conflict

----------------------------------------------------------------------------
(* The builders.                                                            *)

Rails == {Vdd, Vss}

\* Every wire has a pin at one end, and a pin or one of the nodes of S at the other.
WiresOf(P, S) == (P \X (P \cup S)) \cup ((P \cup S) \X P)

Joins(n, S) ==
  n \in [types : Seq({"n", "p"}), wires : SUBSET WiresOf(Pins(n), S)]

\* What a builder returns when called on n.
Adds(n, S, made) ==
  /\ Joins(made.net, S)
  /\ Pins(n) \in SUBSET Pins(made.net)
  /\ made.out \in Pins(made.net) \cup Rails

LEMMA ConnectJoins ==
  ASSUME NEW n, NEW S, Joins(n, S), NEW pairs,
         \A p \in pairs : <<p[1], p[2]>> \in WiresOf(Pins(n), S)
  PROVE  Joins(Connect(n, pairs), S) /\ Connect(n, pairs).types = n.types
<1> DEFINE c == Connect(n, pairs)
           more == {Wire(p[1], p[2]) : p \in pairs}
<1>1. c = [n EXCEPT !.wires = n.wires \cup more]
  BY DEF Connect
<1>2. \A p \in pairs : Wire(p[1], p[2]) \in WiresOf(Pins(n), S)
  BY DEF Wire, WiresOf
<1>3. more \in SUBSET WiresOf(Pins(n), S)
  BY <1>2
<1> HIDE DEF more, c
<1>4. /\ c \in [types : Seq({"n", "p"}), wires : SUBSET WiresOf(Pins(n), S)]
      /\ c.types = n.types
  BY <1>1, <1>3 DEF Joins
<1>5. Pins(c) = Pins(n)
  BY <1>4 DEF Pins, NumTransistors
<1> QED  BY <1>4, <1>5 DEF Joins, c

\* The pins of k transistors.
PinsUpTo(k) == 0 .. 3 * k - 1

LEMMA PinsOfMany ==
  ASSUME NEW k \in Nat, NEW t \in 0 .. k - 1
  PROVE  Gate(t) \in PinsUpTo(k) /\ Source(t) \in PinsUpTo(k) /\ Drain(t) \in PinsUpTo(k)
BY DEF Gate, Source, Drain, Pin, PinsUpTo

LEMMA BuiltJoins ==
  ASSUME NEW n, NEW S, Joins(n, S), NEW types \in Seq({"n", "p"}), NEW pairs, NEW out,
         NEW k \in Nat, k = NumTransistors(n) + Len(types),
         \A p \in pairs : <<p[1], p[2]>> \in WiresOf(PinsUpTo(k), S),
         out \in PinsUpTo(k) \cup Rails
  PROVE  Adds(n, S, Built(n, types, pairs, out))
<1> DEFINE longer == [n EXCEPT !.types = n.types \o types]
           made == Built(n, types, pairs, out)
<1>1. made = [net |-> Connect(longer, pairs), out |-> out]
  BY DEF Built
<1>2. n.types \in Seq({"n", "p"}) /\ n.wires \in SUBSET WiresOf(Pins(n), S)
  BY DEF Joins
<1>3. /\ n.types \o types \in Seq({"n", "p"})
      /\ Len(n.types \o types) = Len(n.types) + Len(types)
      /\ Len(n.types) \in Nat /\ Len(types) \in Nat
  BY <1>2
<1>4. longer.types = n.types \o types /\ longer.wires = n.wires
      /\ longer \in [types : Seq({"n", "p"}), wires : SUBSET WiresOf(Pins(n), S)]
  BY <1>2, <1>3 DEF Joins
<1> HIDE DEF longer
<1>5. Pins(longer) = PinsUpTo(k) /\ Pins(n) \in SUBSET PinsUpTo(k)
  BY <1>3, <1>4 DEF Pins, PinsUpTo, NumTransistors
<1>6. Joins(longer, S)
  BY <1>2, <1>4, <1>5 DEF Joins, WiresOf
<1>7. Joins(Connect(longer, pairs), S) /\ Connect(longer, pairs).types = longer.types
  BY <1>5, <1>6, ConnectJoins
<1>8. Pins(Connect(longer, pairs)) = PinsUpTo(k)
  BY <1>5, <1>7 DEF Pins, NumTransistors
<1>9. made.net = Connect(longer, pairs) /\ made.out = out
  BY <1>1
<1> QED  BY <1>5, <1>7, <1>8, <1>9 DEF Adds

LEMMA ComplementaryAdds ==
  ASSUME NEW n, NEW S, Joins(n, S), Rails \in SUBSET S,
         NEW ins \in Seq(Pins(n) \cup S), NEW series \in {"n", "p"}, NEW parallel \in {"n", "p"},
         NEW from \in Rails, NEW to \in Rails
  PROVE  Adds(n, S, Complementary(n, ins, series, parallel, from, to))
<1> DEFINE l == Len(ins)
           first == NumTransistors(n)
           Chain(i) == IF i = 0 THEN from ELSE Drain(first + i - 1)
           Across(i) == first + l + i - 1
           k == first + 2 * l
           P == PinsUpTo(k)
           pairs == UNION {{<<Chain(i - 1), Source(first + i - 1)>>,
                            <<ins[i], Gate(first + i - 1)>>,
                            <<ins[i], Gate(Across(i))>>, <<to, Source(Across(i))>>,
                            <<Chain(l), Drain(Across(i))>>} : i \in 1 .. l}
           types == [i \in 1 .. 2 * l |-> IF i <= l THEN series ELSE parallel]
<1>1. Complementary(n, ins, series, parallel, from, to) = Built(n, types, pairs, Chain(l))
  BY DEF Complementary
<1>2. l \in Nat /\ first \in Nat /\ k \in Nat
  BY DEF Joins, NumTransistors
<1>3. types \in Seq({"n", "p"}) /\ Len(types) = 2 * l
  BY <1>2
<1>4. \A i \in 1 .. l : ins[i] \in Pins(n) \cup S
  BY <1>2
<1>5. Pins(n) \in SUBSET P
  BY <1>2 DEF Pins, PinsUpTo
<1> HIDE DEF l, first
<1>6. ASSUME NEW i \in 1 .. l
      PROVE  /\ Source(first + i - 1) \in P /\ Gate(first + i - 1) \in P
             /\ Drain(first + i - 1) \in P
             /\ Source(Across(i)) \in P /\ Gate(Across(i)) \in P /\ Drain(Across(i)) \in P
  <2>1. first + i - 1 \in 0 .. k - 1 /\ Across(i) \in 0 .. k - 1
    BY <1>2
  <2> HIDE DEF k, Across
  <2> QED  BY <1>2, <2>1, PinsOfMany
<1>7. \A i \in 0 .. l : Chain(i) \in P \cup Rails
  <2> TAKE i \in 0 .. l
  <2>1. i = 0 \/ i \in 1 .. l
    BY <1>2
  <2> HIDE DEF P
  <2> QED  BY <1>6, <2>1
<1> HIDE DEF Chain, P, Across
<1>8. ASSUME NEW p \in pairs
      PROVE  <<p[1], p[2]>> \in WiresOf(P, S)
  <2>1. PICK i \in 1 .. l :
          p \in {<<Chain(i - 1), Source(first + i - 1)>>, <<ins[i], Gate(first + i - 1)>>,
                 <<ins[i], Gate(Across(i))>>, <<to, Source(Across(i))>>,
                 <<Chain(l), Drain(Across(i))>>}
    BY <1>8
  <2>2. i - 1 \in 0 .. l /\ l \in 0 .. l
    BY <1>2
  <2>3. ins[i] \in P \cup S /\ to \in P \cup S
    BY <1>4, <1>5
  <2>4. Chain(i - 1) \in P \cup S /\ Chain(l) \in P \cup S
    BY <1>7, <2>2
  <2> QED  BY <1>6, <2>1, <2>3, <2>4 DEF WiresOf
<1>9. l \in 0 .. l
  BY <1>2
<1>10. Chain(l) \in PinsUpTo(k) \cup Rails
  BY <1>7, <1>9 DEF P
<1>11. \A p \in pairs : <<p[1], p[2]>> \in WiresOf(PinsUpTo(k), S)
  BY <1>8 DEF P
<1>12. k = NumTransistors(n) + Len(types)
  BY <1>3 DEF first
<1> HIDE DEF pairs, types, k
<1> QED  BY <1>1, <1>2, <1>3, <1>10, <1>11, <1>12, BuiltJoins

LEMMA AddsMore ==
  ASSUME NEW n, NEW S, NEW a, Adds(n, S, a), NEW b, Adds(a.net, S, b)
  PROVE  Adds(n, S, b)
BY DEF Adds

LEMMA TriStateAdds ==
  ASSUME NEW n, NEW S, Joins(n, S), Rails \in SUBSET S,
         NEW enable \in Pins(n) \cup S, NEW notEnable \in Pins(n) \cup S,
         NEW data \in Pins(n) \cup S
  PROVE  Adds(n, S, MakeTriStateBuffer(n, enable, notEnable, data))
<1> DEFINE nand == MakeNand(n, <<data, enable>>)
           nor == MakeNor(nand.net, <<data, notEnable>>)
           p == NumTransistors(nor.net)
           q == p + 1
           pairs == {<<Source(p), Vdd>>, <<Source(q), Vss>>, <<Drain(p), Drain(q)>>,
                     <<nand.out, Gate(p)>>, <<nor.out, Gate(q)>>}
           types == <<"p", "n">>
<1>1. MakeTriStateBuffer(n, enable, notEnable, data) = Built(nor.net, types, pairs, Drain(q))
  BY DEF MakeTriStateBuffer
<1>2. Vdd \in Rails /\ Vss \in Rails /\ Vdd \in S /\ Vss \in S
  BY DEF Rails
<1>3. Adds(n, S, nand)
  <2>1. <<data, enable>> \in Seq(Pins(n) \cup S)
    OBVIOUS
  <2> QED  BY <1>2, <2>1, ComplementaryAdds DEF MakeNand
<1> HIDE DEF nand
<1>4. Adds(nand.net, S, nor)
  <2>1. <<data, notEnable>> \in Seq(Pins(nand.net) \cup S)
    <3>1. data \in Pins(nand.net) \cup S /\ notEnable \in Pins(nand.net) \cup S
      BY <1>3 DEF Adds
    <3> QED  BY <3>1
  <2>2. Joins(nand.net, S)
    BY <1>3 DEF Adds
  <2> QED  BY <1>2, <2>1, <2>2, ComplementaryAdds DEF MakeNor
<1> HIDE DEF nor
<1>5. Joins(nor.net, S) /\ p \in Nat
  BY <1>4 DEF Adds, Joins, NumTransistors
<1>6. types \in Seq({"n", "p"}) /\ Len(types) = 2
  OBVIOUS
<1> DEFINE P == PinsUpTo(p + 2)
<1>7. nand.out \in P \cup S /\ nor.out \in P \cup S
  <2>1. Pins(nor.net) \in SUBSET P
    BY <1>5 DEF Pins, PinsUpTo
  <2>2. nand.out \in Pins(nor.net) \cup S /\ nor.out \in Pins(nor.net) \cup S
    BY <1>3, <1>4 DEF Adds
  <2> HIDE DEF P
  <2> QED  BY <2>1, <2>2
<1>8. /\ Gate(p) \in P /\ Source(p) \in P /\ Drain(p) \in P
      /\ Gate(q) \in P /\ Source(q) \in P /\ Drain(q) \in P
  <2>1. p \in 0 .. p + 2 - 1 /\ q \in 0 .. p + 2 - 1 /\ p + 2 \in Nat
    BY <1>5
  <2> HIDE DEF q, p
  <2> QED  BY <2>1, PinsOfMany
<1> HIDE DEF P
<1>9. \A x \in pairs : <<x[1], x[2]>> \in WiresOf(P, S)
  <2> HIDE DEF p, q
  <2> QED  BY <1>2, <1>7, <1>8 DEF WiresOf
<1> HIDE DEF pairs, types, q
<1>10. p + 2 \in Nat /\ p + 2 = NumTransistors(nor.net) + Len(types)
  BY <1>5, <1>6
<1>11. Adds(nor.net, S, Built(nor.net, types, pairs, Drain(q)))
  BY <1>5, <1>6, <1>8, <1>9, <1>10, BuiltJoins DEF P
<1> QED  BY <1>1, <1>3, <1>4, <1>11, AddsMore

\* A transmission gate, whose result is a pin.
LEMMA TgAdds ==
  ASSUME NEW n, NEW S, Joins(n, S),
         NEW sel \in Pins(n) \cup S, NEW notSel \in Pins(n) \cup S, NEW x \in Pins(n) \cup S
  PROVE  /\ Adds(n, S, MakeTg(n, sel, notSel, x))
         /\ MakeTg(n, sel, notSel, x).out \in Pins(MakeTg(n, sel, notSel, x).net)
<1> DEFINE p == NumTransistors(n)
           q == p + 1
           pairs == {<<Gate(q), sel>>, <<Gate(p), notSel>>, <<Source(q), Source(p)>>,
                     <<Drain(q), Drain(p)>>, <<Source(q), x>>}
           types == <<"p", "n">>
           made == MakeTg(n, sel, notSel, x)
           P == PinsUpTo(p + 2)
<1>1. made = Built(n, types, pairs, Drain(q))
  BY DEF MakeTg
<1>2. p \in Nat
  BY DEF Joins, NumTransistors
<1>3. types \in Seq({"n", "p"}) /\ Len(types) = 2
  OBVIOUS
<1>4. Pins(n) \in SUBSET P
  BY <1>2 DEF Pins, PinsUpTo
<1>5. /\ Gate(p) \in P /\ Source(p) \in P /\ Drain(p) \in P
      /\ Gate(q) \in P /\ Source(q) \in P /\ Drain(q) \in P
  <2>1. p \in 0 .. p + 2 - 1 /\ q \in 0 .. p + 2 - 1 /\ p + 2 \in Nat
    BY <1>2
  <2> HIDE DEF q, p
  <2> QED  BY <2>1, PinsOfMany
<1> HIDE DEF P
<1>6. \A y \in pairs : <<y[1], y[2]>> \in WiresOf(P, S)
  <2> HIDE DEF p, q
  <2> QED  BY <1>4, <1>5 DEF WiresOf
<1> HIDE DEF pairs, types
<1>7. p + 2 \in Nat /\ p + 2 = NumTransistors(n) + Len(types)
  BY <1>2, <1>3
<1>8. Drain(q) \in PinsUpTo(p + 2)
  BY <1>5 DEF P
<1> HIDE DEF q
<1>9. Adds(n, S, Built(n, types, pairs, Drain(q)))
  BY <1>3, <1>6, <1>7, <1>8, BuiltJoins DEF P
<1>10. made.out = Drain(q)
  BY <1>1 DEF Built
<1> HIDE DEF made
<1>11. Drain(q) \notin Rails
  BY <1>8 DEF Rails, PinsUpTo, Vdd, Vss
<1> QED  BY <1>1, <1>9, <1>10, <1>11 DEF Adds, made

LEMMA MuxAdds ==
  ASSUME NEW n, NEW S, Joins(n, S),
         NEW sel \in Pins(n) \cup S, NEW notSel \in Pins(n) \cup S,
         NEW h \in Pins(n) \cup S, NEW l \in Pins(n) \cup S
  PROVE  Adds(n, S, MakeMux(n, sel, notSel, h, l))
<1> DEFINE x == MakeTg(n, sel, notSel, h)
           y == MakeTg(x.net, notSel, sel, l)
<1>1. MakeMux(n, sel, notSel, h, l) = Built(y.net, << >>, {<<x.out, y.out>>}, x.out)
  BY DEF MakeMux
<1>2. Adds(n, S, x) /\ x.out \in Pins(x.net)
  BY TgAdds
<1> HIDE DEF x
<1>3. /\ Joins(x.net, S)
      /\ sel \in Pins(x.net) \cup S /\ notSel \in Pins(x.net) \cup S /\ l \in Pins(x.net) \cup S
  BY <1>2 DEF Adds
<1>4. Adds(x.net, S, y) /\ y.out \in Pins(y.net)
  BY <1>3, TgAdds
<1> HIDE DEF y
<1> DEFINE k == NumTransistors(y.net)
<1>5. Joins(y.net, S) /\ x.out \in Pins(y.net) /\ Pins(y.net) = PinsUpTo(k)
  BY <1>2, <1>4 DEF Adds, Pins, PinsUpTo
<1>6. k \in Nat /\ k = k + Len(<< >>) /\ << >> \in Seq({"n", "p"})
  BY <1>5 DEF Joins, NumTransistors
<1>7. <<x.out, y.out>> \in WiresOf(PinsUpTo(k), S)
  BY <1>4, <1>5 DEF WiresOf
<1> DEFINE pairs == {<<x.out, y.out>>}
<1>8. \A p \in pairs : <<p[1], p[2]>> \in WiresOf(PinsUpTo(k), S)
  BY <1>7
<1>9. x.out \in PinsUpTo(k)
  BY <1>5
<1> HIDE DEF pairs
<1>10. Adds(y.net, S, Built(y.net, << >>, pairs, x.out))
  BY <1>5, <1>6, <1>8, <1>9, BuiltJoins
<1> QED  BY <1>1, <1>2, <1>4, <1>10, AddsMore DEF pairs

LEMMA LookupAdds ==
  ASSUME NEW n, NEW S, Joins(n, S), Rails \in SUBSET S,
         NEW x \in Pins(n) \cup S, NEW y \in Pins(n) \cup S,
         NEW nx \in Pins(n) \cup S, NEW ny \in Pins(n) \cup S, NEW lut
  PROVE  Adds(n, S, MakeLookup(n, x, y, nx, ny, lut))
<1> DEFINE first == NumTransistors(n)
           Kind(r) == IF lut[r + 1] THEN "p" ELSE "n"
           T1(r) == first + 2 * r
           T2(r) == first + 2 * r + 1
           types == [i \in 1 .. 8 |-> Kind((i - 1) \div 2)]
           chain == {<<Drain(T2(r)), Drain(T2(r + 1))>> : r \in 0 .. 2}
           rows == UNION {{<<Source(T1(r)), IF lut[r + 1] THEN Vdd ELSE Vss>>,
                           <<Gate(T1(r)), IF r % 2 = 1 THEN x ELSE nx>>,
                           <<Source(T2(r)), Drain(T1(r))>>,
                           <<Gate(T2(r)), IF r \div 2 = 1 THEN y ELSE ny>>} : r \in 0 .. 3}
           pairs == chain \cup rows
           k == first + 8
           P == PinsUpTo(k)
<1>1. MakeLookup(n, x, y, nx, ny, lut) = Built(n, types, pairs, Drain(T2(0)))
  BY DEF MakeLookup
<1>2. first \in Nat
  BY DEF Joins, NumTransistors
<1>3. types \in Seq({"n", "p"}) /\ Len(types) = 8
  <2>1. \A r : Kind(r) \in {"n", "p"}
    OBVIOUS
  <2> HIDE DEF Kind
  <2> QED  BY <2>1
<1>4. Pins(n) \in SUBSET P
  BY <1>2 DEF Pins, PinsUpTo
<1> HIDE DEF first
<1>5. ASSUME NEW r \in 0 .. 3
      PROVE  /\ Gate(T1(r)) \in P /\ Source(T1(r)) \in P /\ Drain(T1(r)) \in P
             /\ Gate(T2(r)) \in P /\ Source(T2(r)) \in P /\ Drain(T2(r)) \in P
  <2>1. T1(r) \in 0 .. k - 1 /\ T2(r) \in 0 .. k - 1 /\ k \in Nat
    BY <1>2
  <2> HIDE DEF T1, T2, k
  <2> QED  BY <2>1, PinsOfMany
<1> HIDE DEF T1, T2, P
<1>6. ASSUME NEW p \in pairs PROVE <<p[1], p[2]>> \in WiresOf(P, S)
  <2>1. CASE p \in chain
    <3>1. PICK r \in 0 .. 2 : p = <<Drain(T2(r)), Drain(T2(r + 1))>>
      BY <2>1
    <3>2. r \in 0 .. 3 /\ r + 1 \in 0 .. 3
      OBVIOUS
    <3> QED  BY <1>5, <3>1, <3>2 DEF WiresOf
  <2>2. CASE p \in rows
    <3>1. PICK r \in 0 .. 3 :
            p \in {<<Source(T1(r)), IF lut[r + 1] THEN Vdd ELSE Vss>>,
                   <<Gate(T1(r)), IF r % 2 = 1 THEN x ELSE nx>>,
                   <<Source(T2(r)), Drain(T1(r))>>,
                   <<Gate(T2(r)), IF r \div 2 = 1 THEN y ELSE ny>>}
      BY <2>2
    <3>2. Vdd \in S /\ Vss \in S
      BY DEF Rails
    <3> DEFINE u == IF lut[r + 1] THEN Vdd ELSE Vss
               v == IF r % 2 = 1 THEN x ELSE nx
               w == IF r \div 2 = 1 THEN y ELSE ny
    <3>3. u \in P \cup S /\ v \in P \cup S /\ w \in P \cup S
      BY <1>4, <3>2
    <3>4. p \in {<<Source(T1(r)), u>>, <<Gate(T1(r)), v>>, <<Source(T2(r)), Drain(T1(r))>>,
                 <<Gate(T2(r)), w>>}
      BY <3>1
    <3> HIDE DEF u, v, w
    <3> QED  BY <1>5, <3>3, <3>4 DEF WiresOf
  <2> HIDE DEF chain, rows
  <2> QED  BY <2>1, <2>2
<1>7. Drain(T2(0)) \in P
  BY <1>5
<1> HIDE DEF pairs, types
<1>8. k \in Nat /\ k = NumTransistors(n) + Len(types)
  BY <1>2, <1>3 DEF first
<1> HIDE DEF k
<1>9. Adds(n, S, Built(n, types, pairs, Drain(T2(0))))
  BY <1>3, <1>6, <1>7, <1>8, BuiltJoins DEF P
<1> QED  BY <1>1, <1>9

\* What Lower adds for one gate.
LEMMA TransistorizeAdds ==
  ASSUME NEW gnet, WellShaped(gnet), NEW g \in Live(gnet), NEW X, gnet.ins[g] \in Seq(X),
         gnet.kind[g] \in Kinds, gnet.kind[g] = "lookup" => Len(gnet.ins[g]) = 4,
         NEW n, NEW S, Joins(n, S), Rails \in SUBSET S, NEW nodes,
         \A i \in DOMAIN gnet.ins[g] : nodes[gnet.ins[g][i]] \in Pins(n) \cup S
  PROVE  Adds(n, S, Transistorize(gnet, nodes, n, g))
<1> DEFINE kind == gnet.kind[g]
           ins == gnet.ins[g]
           in == [i \in DOMAIN ins |-> nodes[ins[i]]]
<1>1. Len(ins) \in Nat /\ DOMAIN ins = 1 .. Len(ins)
  OBVIOUS
<1>2. in \in Seq(Pins(n) \cup S) /\ Len(in) = Len(ins)
  BY <1>1
<1>3. \A i \in 1 .. Len(ins) : in[i] \in Pins(n) \cup S
  BY <1>1
<1>4. kind # "dead"
  BY DEF Live
<1>5. Vdd \in Rails /\ Vss \in Rails
  BY DEF Rails
<1>6. /\ kind = "not" => Len(ins) >= 1
      /\ kind = "tri" => Len(ins) >= 3
      /\ kind = "mux" => Len(ins) >= 4
  BY DEF WellShaped
<1>7. Transistorize(gnet, nodes, n, g) =
        CASE kind = "not"    -> MakeNot(n, in[1])
          [] kind = "tri"    -> MakeTriStateBuffer(n, in[1], in[2], in[3])
          [] kind = "mux"    -> MakeMux(n, in[1], in[2], in[3], in[4])
          [] kind = "nand"   -> MakeNand(n, in)
          [] kind = "nor"    -> MakeNor(n, in)
          [] kind = "lookup" -> MakeLookup(n, in[1], in[2], in[3], in[4], gnet.lut[g])
  BY DEF Transistorize
<1>8. kind \in {"not", "tri", "mux", "nand", "nor", "lookup"}
  BY <1>4 DEF Kinds
<1>9. kind = "lookup" => Len(ins) = 4
  OBVIOUS
<1> HIDE DEF in, ins, kind
<1> DEFINE made == Transistorize(gnet, nodes, n, g)
<1> HIDE DEF made
<1>10. CASE kind = "not"
  <2>1. in[1] \in Pins(n) \cup S
    BY <1>1, <1>3, <1>6, <1>10
  <2>2. <<in[1]>> \in Seq(Pins(n) \cup S)
    BY <2>1
  <2>3. made = MakeNand(n, <<in[1]>>)
    BY <1>7, <1>10 DEF MakeNot, made
  <2> QED  BY <1>5, <2>2, <2>3, ComplementaryAdds DEF MakeNand, made
<1>11. CASE kind = "tri"
  <2>1. in[1] \in Pins(n) \cup S /\ in[2] \in Pins(n) \cup S /\ in[3] \in Pins(n) \cup S
    BY <1>1, <1>3, <1>6, <1>11
  <2>2. made = MakeTriStateBuffer(n, in[1], in[2], in[3])
    BY <1>7, <1>11 DEF made
  <2> QED  BY <2>1, <2>2, TriStateAdds DEF made
<1>12. CASE kind = "mux"
  <2>1. /\ in[1] \in Pins(n) \cup S /\ in[2] \in Pins(n) \cup S
        /\ in[3] \in Pins(n) \cup S /\ in[4] \in Pins(n) \cup S
    BY <1>1, <1>3, <1>6, <1>12
  <2>2. made = MakeMux(n, in[1], in[2], in[3], in[4])
    BY <1>7, <1>12 DEF made
  <2> QED  BY <2>1, <2>2, MuxAdds DEF made
<1>13. CASE kind = "nand"
  <2>1. made = MakeNand(n, in)
    BY <1>7, <1>13 DEF made
  <2> QED  BY <1>2, <1>5, <2>1, ComplementaryAdds DEF MakeNand, made
<1>14. CASE kind = "nor"
  <2>1. made = MakeNor(n, in)
    BY <1>7, <1>14 DEF made
  <2> QED  BY <1>2, <1>5, <2>1, ComplementaryAdds DEF MakeNor, made
<1>15. CASE kind = "lookup"
  <2>1. /\ in[1] \in Pins(n) \cup S /\ in[2] \in Pins(n) \cup S
        /\ in[3] \in Pins(n) \cup S /\ in[4] \in Pins(n) \cup S
    <3>1. Len(ins) = 4
      BY <1>9, <1>15
    <3>2. 1 \in 1 .. 4 /\ 2 \in 1 .. 4 /\ 3 \in 1 .. 4 /\ 4 \in 1 .. 4
      OBVIOUS
    <3> QED  BY <1>3, <3>1, <3>2
  <2>2. made = MakeLookup(n, in[1], in[2], in[3], in[4], gnet.lut[g])
    BY <1>7, <1>15 DEF made
  <2> QED  BY <2>1, <2>2, LookupAdds DEF made
<1> QED  BY <1>8, <1>10, <1>11, <1>12, <1>13, <1>14, <1>15 DEF made

\* Replacing a placeholder: no wire leads to it any more.
LEMMA RewireJoins ==
  ASSUME NEW n, NEW S, Joins(n, S), NEW from, from \notin Pins(n),
         NEW to \in Pins(n) \cup (S \ {from})
  PROVE  Joins(Rewire(n, from, to), S \ {from}) /\ Pins(Rewire(n, from, to)) = Pins(n)
<1> DEFINE P == Pins(n)
           R == S \ {from}
           left == {w \in n.wires : from \notin {w[1], w[2]}}
           less == [n EXCEPT !.wires = left]
           pairs == {<<to, m>> : m \in ConnectedNodes(n, from)}
<1>1. Rewire(n, from, to) = Connect(less, pairs)
  BY DEF Rewire
<1>2. n.wires \in SUBSET WiresOf(P, S) /\ n.types \in Seq({"n", "p"})
  BY DEF Joins
<1>3. left \in SUBSET WiresOf(P, R)
  BY <1>2 DEF WiresOf
<1> HIDE DEF left
<1>4. /\ less \in [types : Seq({"n", "p"}), wires : SUBSET WiresOf(P, R)]
      /\ less.types = n.types
  BY <1>2, <1>3 DEF Joins
<1> HIDE DEF less
<1>5. Pins(less) = P
  BY <1>4 DEF Pins, NumTransistors
<1>6. Joins(less, R)
  BY <1>4, <1>5 DEF Joins
<1>7. ConnectedNodes(n, from) \in SUBSET P
  BY <1>2 DEF ConnectedNodes, WiresOf
<1>8. \A p \in pairs : <<p[1], p[2]>> \in WiresOf(Pins(less), R)
  BY <1>5, <1>7 DEF WiresOf
<1> HIDE DEF pairs
<1>9. Joins(Connect(less, pairs), R) /\ Connect(less, pairs).types = less.types
  BY <1>6, <1>8, ConnectJoins
<1> QED  BY <1>1, <1>4, <1>9 DEF Pins, NumTransistors

----------------------------------------------------------------------------
(* RunDte.                                                                  *)

\* The elements of K, a set of numbers below n, are ranked without a gap.
LEMMA RankFacts ==
  ASSUME NEW n \in Nat, NEW K \in SUBSET (0 .. n - 1)
  PROVE  /\ Cardinality(K) \in Nat
         /\ \A t \in K : Cardinality({u \in K : u < t}) \in 0 .. Cardinality(K) - 1
         /\ \A j \in 0 .. Cardinality(K) - 1 : \E t \in K : Cardinality({u \in K : u < t}) = j
<1> DEFINE Below(i) == {u \in K : u < i}
           rank(i) == Cardinality(Below(i))
<1>1. \A u \in K : u \in Int /\ 0 <= u /\ u < n
  OBVIOUS
<1>2. IsFiniteSet(K) /\ Cardinality(K) \in Nat
  <2> DEFINE m == n - 1
  <2>1. 0 \in Int /\ m \in Int
    OBVIOUS
  <2> HIDE DEF m
  <2>2. IsFiniteSet(0 .. m)
    BY <2>1, FS_Interval, Zenon
  <2> QED  BY <2>2, FS_Subset, FS_CardinalityType DEF m
<1>3. \A i : IsFiniteSet(Below(i)) /\ rank(i) \in Nat
  <2> TAKE i
  <2>1. Below(i) \in SUBSET K
    OBVIOUS
  <2> HIDE DEF Below
  <2> QED  BY <1>2, <2>1, FS_Subset, FS_CardinalityType
<1>4. ASSUME NEW t \in K PROVE rank(t) \in 0 .. Cardinality(K) - 1
  <2>1. Below(t) \in SUBSET K /\ Below(t) # K
    OBVIOUS
  <2> HIDE DEF Below
  <2>2. rank(t) <= Cardinality(K) /\ rank(t) # Cardinality(K)
    BY <1>2, <2>1, FS_Subset
  <2>3. rank(t) \in Nat
    BY <1>3
  <2> HIDE DEF rank
  <2> QED  BY <1>2, <2>2, <2>3
<1>5. ASSUME NEW j \in 0 .. Cardinality(K) - 1
      PROVE  \E t \in K : rank(t) = j
  <2> DEFINE T == {i \in Nat : rank(i) > j}
  <2>1. n \in T
    <3>1. Below(n) = K
      BY <1>1
    <3>2. rank(n) = Cardinality(K)
      BY <3>1
    <3> HIDE DEF rank
    <3> QED  BY <1>2, <3>2
  <2>2. PICK i \in T : \A k \in T : i <= k
    <3> HIDE DEF T
    <3>1. T \in SUBSET Nat
      BY DEF T
    <3> QED  BY <2>1, <3>1, LeastElement
  <2>3. i \in Nat /\ rank(i) > j /\ j \in Nat
    BY <1>2, <2>2
  <2>4. i # 0
    <3>1. Below(0) = {}
      <4>1. \A u \in K : ~ (u < 0)
        BY <1>1
      <4> QED  BY <4>1
    <3>2. rank(0) = 0
      BY <3>1, FS_EmptySet
    <3> HIDE DEF rank
    <3> QED  BY <2>3, <3>2
  <2> DEFINE t == i - 1
  <2>5. t \in Nat /\ ~ (i <= t)
    BY <2>3, <2>4
  <2>6. ~ (rank(t) > j)
    <3> HIDE DEF rank, t
    <3> QED  BY <2>2, <2>5
  <2>7. \A u \in K : u < i <=> u < t \/ u = t
    BY <1>1, <2>3
  <2>8. ~ (t < t)
    BY <2>5
  <2>9. t \in K /\ rank(i) = rank(t) + 1
    <3>1. CASE t \in K
      <4>1. Below(i) = Below(t) \cup {t} /\ t \notin Below(t)
        <5> HIDE DEF t
        <5> QED  BY <2>7, <2>8, <3>1
      <4>2. IsFiniteSet(Below(t))
        BY <1>3
      <4> HIDE DEF Below, t
      <4> QED  BY <3>1, <4>1, <4>2, FS_AddElement
    <3>2. CASE t \notin K
      <4>1. Below(i) = Below(t)
        <5> HIDE DEF t
        <5> QED  BY <2>7, <3>2
      <4>2. rank(i) = rank(t)
        BY <4>1
      <4> HIDE DEF rank
      <4> QED  BY <2>3, <2>6, <4>2
    <3> QED  BY <3>1, <3>2
  <2>10. rank(t) \in Nat
    BY <1>3
  <2> HIDE DEF rank
  <2>11. rank(t) = j
    BY <2>3, <2>6, <2>9, <2>10
  <2> QED  BY <2>9, <2>11
<1> QED  BY <1>2, <1>4, <1>5

\* RunDte renumbers the transistors it keeps from zero, and all of them are connected.
LEMMA DteWiring ==
  ASSUME NEW n, NEW S, IsWiring(n, S), \A s \in S : s \in Int /\ s < 0, DropsUnconnected(n)
  PROVE  IsWiring(RunDte(n), S) /\ DropsUnconnected(RunDte(n))
<1>1. CASE Dropped(n) = {}
  BY <1>1 DEF RunDte
<1>2. CASE Dropped(n) # {}
  <2> DEFINE K == Kept(n)
             c == Cardinality(K)
             m == RunDte(n)
             N == NumTransistors(n)
             types == [i \in 1 .. c |-> TypeOf(n, CHOOSE t \in K : Renumbered(n, t) = i - 1)]
             wires == {Wire(DteLookup(n, w[1]), DteLookup(n, w[2])) : w \in n.wires}
  <2>1. m = [types |-> types, wires |-> wires]
    BY <1>2 DEF RunDte
  <2>2. n.types \in Seq({"n", "p"}) /\ n.wires \in SUBSET ((Pins(n) \cup S) \X (Pins(n) \cup S))
    BY DEF IsWiring
  <2>3. N \in Nat
    BY <2>2 DEF NumTransistors
  <2>4. K \in SUBSET (0 .. N - 1) /\ K \in SUBSET Transistors(n)
    BY DEF Kept, Transistors
  <2>5. /\ c \in Nat
        /\ \A t \in K : Renumbered(n, t) \in 0 .. c - 1
        /\ \A j \in 0 .. c - 1 : \E t \in K : Renumbered(n, t) = j
    <3> HIDE DEF K, N
    <3>1. /\ c \in Nat
          /\ \A t \in K : Cardinality({u \in K : u < t}) \in 0 .. c - 1
          /\ \A j \in 0 .. c - 1 : \E t \in K : Cardinality({u \in K : u < t}) = j
      BY <2>3, <2>4, RankFacts
    <3>2. \A t : Renumbered(n, t) = Cardinality({u \in K : u < t})
      BY DEF Renumbered, K
    <3> QED  BY <3>1, <3>2
  <2> HIDE DEF N, c
  <2>6. types \in Seq({"n", "p"}) /\ Len(types) = c
    <3>1. \A i \in 1 .. c : TypeOf(n, CHOOSE t \in K : Renumbered(n, t) = i - 1) \in {"n", "p"}
      <4> TAKE i \in 1 .. c
      <4>1. i - 1 \in 0 .. c - 1
        BY <2>5
      <4>2. (CHOOSE t \in K : Renumbered(n, t) = i - 1) \in K
        BY <2>5, <4>1
      <4> QED  BY <2>2, <2>4, <4>2, PinsOf
    <3> QED  BY <2>5, <3>1
  <2> HIDE DEF types, wires, m
  <2>7. Pins(m) = PinsUpTo(c) /\ Transistors(m) = 0 .. c - 1
    BY <2>1, <2>6 DEF Pins, PinsUpTo, Transistors, NumTransistors
  \* A pin that is connected belongs to a transistor that is kept.
  <2>8. ASSUME NEW x \in Pins(n), ConnectedNodes(n, x) # {}
        PROVE  TransistorOf(x) \in K
    <3>1. TransistorOf(x) \in Transistors(n)
          /\ x \in {Gate(TransistorOf(x)), Source(TransistorOf(x)), Drain(TransistorOf(x))}
      BY <2>2, PinFacts
    <3> QED  BY <2>8, <3>1 DEF Kept, Dropped, DropsUnconnected
  <2>9. ASSUME NEW x \in Pins(n), ConnectedNodes(n, x) # {}
        PROVE  DteLookup(n, x) \in PinsUpTo(c)
    <3>1. TransistorOf(x) \in K
      BY <2>8, <2>9
    <3>2. x >= 0 /\ x % 3 \in 0 .. 2
      BY <2>3 DEF Pins, N
    <3> DEFINE r == Renumbered(n, TransistorOf(x))
               d == x % 3
    <3>3. DteLookup(n, x) = 3 * r + d
      BY <3>1, <3>2 DEF DteLookup, Pin
    <3>4. r \in 0 .. c - 1
      BY <2>5, <3>1
    <3> HIDE DEF r, d
    <3> QED  BY <2>5, <3>2, <3>3, <3>4 DEF PinsUpTo, d
  <2>10. \A s \in S : DteLookup(n, s) = s
    BY DEF DteLookup
  <2>11. wires \in SUBSET ((Pins(m) \cup S) \X (Pins(m) \cup S))
    <3> DEFINE Q == PinsUpTo(c) \cup S
    <3> SUFFICES ASSUME NEW w \in n.wires
                 PROVE  Wire(DteLookup(n, w[1]), DteLookup(n, w[2])) \in Q \X Q
      BY <2>7 DEF wires
    <3>1. w[1] \in Pins(n) \cup S /\ w[2] \in Pins(n) \cup S
      BY <2>2
    <3>2. w[2] \in ConnectedNodes(n, w[1]) /\ w[1] \in ConnectedNodes(n, w[2])
      BY DEF ConnectedNodes
    <3>3. DteLookup(n, w[1]) \in Q /\ DteLookup(n, w[2]) \in Q
      BY <2>9, <2>10, <3>1, <3>2
    <3> HIDE DEF Q
    <3> QED  BY <3>3 DEF Wire
  <2>12. IsWiring(m, S)
    BY <2>1, <2>6, <2>11 DEF IsWiring
  <2>13. ASSUME NEW u \in Transistors(m) PROVE ConnectedNodes(m, Gate(u)) # {}
    <3>1. PICK t \in K : Renumbered(n, t) = u
      BY <2>5, <2>7
    <3>2. t \in Nat /\ Gate(t) \in Pins(n)
      BY <2>2, <2>4, PinsOf
    <3>3. ConnectedNodes(n, Gate(t)) # {}
      BY <3>1 DEF Kept, Dropped
    <3>4. PICK w \in n.wires : w[1] = Gate(t) \/ w[2] = Gate(t)
      BY <3>3 DEF ConnectedNodes
    <3>5. DteLookup(n, Gate(t)) = Gate(u)
      <4>1. Gate(t) >= 0 /\ TransistorOf(Gate(t)) = t /\ Gate(t) % 3 = 1
        BY <3>2 DEF Gate, Pin, TransistorOf
      <4> QED  BY <3>1, <4>1 DEF DteLookup, Gate
    <3>6. Wire(DteLookup(n, w[1]), DteLookup(n, w[2])) \in m.wires
      BY <2>1 DEF wires
    <3>7. PICK v \in m.wires : v[1] = Gate(u) \/ v[2] = Gate(u)
      BY <3>4, <3>5, <3>6 DEF Wire
    <3> QED  BY <3>7 DEF ConnectedNodes
  <2>14. DropsUnconnected(m)
    BY <2>13 DEF DropsUnconnected, Dropped
  <2> QED  BY <2>12, <2>14 DEF m
<1> QED  BY <1>1, <1>2

----------------------------------------------------------------------------
(* Lower, and the evaluation of what it leaves.                             *)

Waiting(G) == {Placeholder(g) : g \in G}
Declared == Leads(Len(InputOrder))

\* A gate that has been lowered has a node that is not a placeholder.
Lowering ==
  /\ gates \in GateNetworks /\ pending \in SUBSET Live(gates)
  /\ Joins(net, Declared \cup Waiting(Live(gates)))
  /\ DOMAIN lowered = LiveTerminals(gates)
  /\ \A t \in LiveTerminals(gates) :
       lowered[t] \in Pins(net) \cup Declared \cup Waiting({t} \cap pending)

\* The placeholders that have been replaced are gone.
Replacing ==
  /\ gates \in GateNetworks /\ pending \in SUBSET Live(gates)
  /\ Joins(net, Declared \cup Waiting(pending))
  /\ \A g \in Live(gates) : lowered[g] \in Pins(net) \cup Declared

Wired == inputs \in Nat /\ IsWiring(net, Leads(inputs))

LowerInv ==
  /\ phase = "lower" => Lowering
  /\ phase = "replace" => Replacing
  /\ phase = "wired" => Wired /\ DropsUnconnected(net)
  /\ phase = "evaluate" => Wired
  /\ verdict = "running" => phase = "evaluate" /\ RowInv
  /\ verdict # "running" => rest = {}

\* A network that has been wired can be evaluated, whatever the row.
LEMMA WiringFits ==
  ASSUME NEW n, NEW size \in Nat, IsWiring(n, Leads(size)), NEW r
  PROVE  Fits(n, StartOf(size, r))
<1>1. DOMAIN StartOf(size, r) = Leads(size)
  BY StartFacts DEF Leads
<1>2. n.types \in Seq({"n", "p"})
      /\ n.wires \in SUBSET ((Pins(n) \cup Leads(size)) \X (Pins(n) \cup Leads(size)))
  BY DEF IsWiring
<1>3. Nodes(n, StartOf(size, r)) = Pins(n) \cup Leads(size)
  BY <1>1 DEF Nodes
<1>4. StartOf(size, r) \in [DOMAIN StartOf(size, r) -> Levels]
      /\ IsFiniteSet(DOMAIN StartOf(size, r))
  BY StartFacts
<1> QED  BY <1>2, <1>3, <1>4 DEF Fits

LEMMA JoinsIsWiring ==
  ASSUME NEW n, NEW S, Joins(n, S)
  PROVE  IsWiring(n, S)
<1> DEFINE nodes == Pins(n) \cup S
<1>1. WiresOf(Pins(n), S) \in SUBSET (nodes \X nodes)
  BY DEF WiresOf
<1> QED  BY <1>1 DEF Joins, IsWiring

LEMMA JoinsMore ==
  ASSUME NEW n, NEW S, NEW R, S \in SUBSET R, Joins(n, S)
  PROVE  Joins(n, R)
<1>1. WiresOf(Pins(n), S) \in SUBSET WiresOf(Pins(n), R)
  BY DEF WiresOf
<1> QED  BY <1>1 DEF Joins

\* Placeholders are not pins, rails or inputs.
LEMMA PlaceholderFacts ==
  /\ \A g \in Gates : Placeholder(g) \in Int /\ Placeholder(g) < 0 /\ Placeholder(g) \notin Declared
  /\ \A n : \A g \in Gates : Placeholder(g) \notin Pins(n)
  /\ \A g, h \in Gates : Placeholder(g) = Placeholder(h) => g = h
  /\ Rails \in SUBSET Declared
<1> DEFINE l == Len(InputOrder)
<1>1. l \in Nat /\ MaxGates \in Nat /\ Placeholder(MaxGates) < InputBit(l)
  BY LowerAssumption, NetAssumption
<1>2. ASSUME NEW g \in Gates
      PROVE  /\ Placeholder(g) \in Int /\ Placeholder(g) < -4 - l
  BY <1>1 DEF Gates, Placeholder, LeastInt, InputBit
<1> HIDE DEF l
<1>3. ASSUME NEW g \in Gates PROVE Placeholder(g) \notin Leads(l)
  <2> SUFFICES ASSUME Placeholder(g) \in Leads(l) PROVE FALSE
    OBVIOUS
  <2>1. Placeholder(g) # -1 /\ Placeholder(g) # -2
    BY <1>1, <1>2
  <2>2. \A i \in 0 .. l - 1 : Placeholder(g) # -4 - i
    BY <1>1, <1>2
  <2> QED  BY <2>1, <2>2 DEF Leads, Vdd, Vss, InputBit
<1>4. \A g \in Gates : Placeholder(g) < 0
  BY <1>1, <1>2
<1>5. \A n : \A g \in Gates : Placeholder(g) \notin Pins(n)
  BY <1>4 DEF Pins
<1>6. \A g, h \in Gates : Placeholder(g) = Placeholder(h) => g = h
  BY DEF Placeholder, LeastInt, Gates
<1> QED  BY <1>2, <1>3, <1>4, <1>5, <1>6 DEF Declared, Rails, Leads, l

LEMMA NetworkFacts ==
  ASSUME NEW n \in GateNetworks
  PROVE  /\ WellShaped(n) /\ Live(n) \in SUBSET Gates
         /\ \A g \in Live(n) :
              /\ n.kind[g] \in Kinds /\ n.ins[g] \in Seq(Terminals \cup {Null})
              /\ \A i \in DOMAIN n.ins[g] : n.ins[g][i] \in LiveTerminals(n)
<1>1. WellFormed(n) /\ WellShaped(n)
  BY LowerAssumption
<1>2. n.kind \in [Gates -> Kinds] /\ n.ins \in [Users -> Seq(Terminals \cup {Null})]
  BY <1>1 DEF WellFormed, IsNet
<1>3. \A g \in Gates : g \in Users /\ g # Sink
  BY NetAssumption DEF Gates, Users, Sink
<1>4. Live(n) \in SUBSET Gates
  BY DEF Live
<1>5. ASSUME NEW g \in Live(n)
      PROVE  \A i \in DOMAIN n.ins[g] : n.ins[g][i] \in LiveTerminals(n)
  <2>1. g \in Users /\ g # Sink
    BY <1>3, <1>4
  <2> QED  BY <1>1, <2>1 DEF WellFormed, ReadsLive
<1> QED  BY <1>1, <1>2, <1>3, <1>4, <1>5

LEMMA PlacedFacts ==
  ASSUME NEW n \in GateNetworks, NEW t \in LiveTerminals(n)
  PROVE  Placed(n)[t] \in Declared \cup Waiting({t} \cap Live(n))
<1> DEFINE v == CASE t = Low         -> Vss
                  [] t = High        -> Vdd
                  [] t \in Inputs    -> InputBit((CHOOSE i \in DOMAIN InputOrder : InputOrder[i] = t) - 1)
                  [] t \in Gates     -> Placeholder(t)
<1>1. Placed(n)[t] = v
  BY DEF Placed
<1>2. t \in Inputs => InputBit((CHOOSE i \in DOMAIN InputOrder : InputOrder[i] = t) - 1) \in Declared
  <2> SUFFICES ASSUME t \in Inputs
               PROVE  InputBit((CHOOSE i \in DOMAIN InputOrder : InputOrder[i] = t) - 1) \in Declared
    OBVIOUS
  <2> DEFINE j == CHOOSE i \in DOMAIN InputOrder : InputOrder[i] = t
  <2>1. \E i \in DOMAIN InputOrder : InputOrder[i] = t
    BY LowerAssumption
  <2>2. j \in DOMAIN InputOrder
    BY <2>1
  <2> HIDE DEF j
  <2>3. j - 1 \in 0 .. Len(InputOrder) - 1
    BY <2>2, LowerAssumption
  <2> QED  BY <2>3 DEF Declared, Leads, j
<1>3. t \in Live(n) \/ t \in Inputs \/ t = Low \/ t = High
  BY DEF LiveTerminals
<1>4. Live(n) \in SUBSET Gates
  BY DEF Live
<1>5. t \in Gates => t \notin Inputs /\ t # Low /\ t # High
  BY NetAssumption DEF Gates
<1>6. Vss \in Declared /\ Vdd \in Declared
  BY DEF Declared, Leads
<1>7. t \in Live(n) => Placeholder(t) \in Waiting({t} \cap Live(n))
  BY DEF Waiting
<1>8. CASE t \in Live(n)
  <2>1. v = Placeholder(t)
    BY <1>4, <1>5, <1>8
  <2> QED  BY <1>1, <1>7, <1>8, <2>1
<1>9. CASE t \notin Live(n)
  <2>1. t \notin Gates
    BY <1>3, <1>5, <1>9
  <2>2. v \in {Vss, Vdd} \/ (t \in Inputs /\ v = InputBit((CHOOSE i \in DOMAIN InputOrder : InputOrder[i] = t) - 1))
    BY <1>3, <1>9, <2>1
  <2> QED  BY <1>1, <1>2, <1>6, <2>2
<1> QED  BY <1>8, <1>9

LEMMA InitLowerInv == Init => LowerInv
<1> SUFFICES ASSUME Init PROVE LowerInv
  OBVIOUS
<1>1. verdict = "none" /\ rest = {} /\ phase \in {"lower", "wired"}
  BY DEF Init
<1>2. CASE phase = "lower"
  <2>1. gates \in GateNetworks /\ net = EmptyWiring /\ lowered = Placed(gates) /\ pending = Live(gates)
    BY <1>2 DEF Init
  <2>2. Joins(net, Declared \cup Waiting(Live(gates)))
    <3>1. EmptyWiring = [types |-> << >>, wires |-> {}]
      BY DEF EmptyWiring
    <3>2. << >> \in Seq({"n", "p"})
      OBVIOUS
    <3> QED  BY <2>1, <3>1, <3>2 DEF Joins
  <2>3. DOMAIN lowered = LiveTerminals(gates)
    BY <2>1 DEF Placed
  <2>4. \A t \in LiveTerminals(gates) :
          lowered[t] \in Pins(net) \cup Declared \cup Waiting({t} \cap pending)
    BY <2>1, PlacedFacts
  <2>5. Lowering
    BY <2>1, <2>2, <2>3, <2>4 DEF Lowering
  <2> QED  BY <1>1, <1>2, <2>5 DEF LowerInv
<1>3. CASE phase = "wired"
  <2>1. PICK w \in Wirings : net = w.net /\ inputs = w.inputs
    BY <1>3 DEF Init
  <2>2. Wired /\ DropsUnconnected(net)
    BY <2>1, LowerAssumption DEF Wired
  <2> QED  BY <1>1, <1>3, <2>2 DEF LowerInv
<1> QED  BY <1>1, <1>2, <1>3

LEMMA LowerGateInv ==
  ASSUME LowerInv, NEW g \in pending, LowerGate(g)
  PROVE  LowerInv'
<1> DEFINE S == Declared \cup Waiting(Live(gates))
           made == Transistorize(gates, lowered, net, g)
<1>1. /\ phase = "lower" /\ phase' = phase /\ gates' = gates /\ verdict' = verdict /\ rest' = rest
      /\ net' = made.net /\ lowered' = [lowered EXCEPT ![g] = made.out]
      /\ pending' = pending \ {g}
      /\ gates.kind[g] = "lookup" => Len(gates.ins[g]) = 4
  BY DEF LowerGate
<1>2. Lowering
  BY <1>1 DEF LowerInv
<1>3. /\ gates \in GateNetworks /\ pending \in SUBSET Live(gates) /\ g \in Live(gates)
      /\ Joins(net, S)
      /\ DOMAIN lowered = LiveTerminals(gates)
      /\ \A t \in LiveTerminals(gates) :
           lowered[t] \in Pins(net) \cup Declared \cup Waiting({t} \cap pending)
  BY <1>2 DEF Lowering
<1>4. \A t \in LiveTerminals(gates) : lowered[t] \in Pins(net) \cup S
  BY <1>3 DEF Waiting
<1>5. Rails \in SUBSET S
  BY PlaceholderFacts
<1>6. /\ WellShaped(gates) /\ gates.kind[g] \in Kinds
      /\ gates.ins[g] \in Seq(Terminals \cup {Null})
      /\ \A i \in DOMAIN gates.ins[g] : gates.ins[g][i] \in LiveTerminals(gates)
  BY <1>3, NetworkFacts
<1>7. \A i \in DOMAIN gates.ins[g] : lowered[gates.ins[g][i]] \in Pins(net) \cup S
  BY <1>4, <1>6
<1> HIDE DEF made, S
<1>8. Adds(net, S, made)
  BY <1>1, <1>3, <1>5, <1>6, <1>7, TransistorizeAdds DEF made
<1>9. Joins(net', S) /\ Pins(net) \in SUBSET Pins(net') /\ made.out \in Pins(net') \cup Declared
  BY <1>1, <1>8, PlaceholderFacts DEF Adds
<1>10. Joins(net', Declared \cup Waiting(Live(gates')))
  BY <1>1, <1>9 DEF S
<1>11. DOMAIN lowered' = LiveTerminals(gates')
  BY <1>1, <1>3
<1>12. ASSUME NEW t \in LiveTerminals(gates)
       PROVE  lowered'[t] \in Pins(net') \cup Declared \cup Waiting({t} \cap pending')
  <2>1. CASE t = g
    BY <1>1, <1>3, <1>9, <2>1
  <2>2. CASE t # g
    <3>1. lowered'[t] = lowered[t] /\ {t} \cap pending' = {t} \cap pending
      BY <1>1, <1>3, <2>2
    <3> QED  BY <1>3, <1>9, <3>1
  <2> QED  BY <2>1, <2>2
<1>13. Lowering'
  <2>1. gates' \in GateNetworks /\ pending' \in SUBSET Live(gates')
    BY <1>1, <1>3
  <2>2. Declared' = Declared
    BY DEF Declared
  <2>3. \A t \in LiveTerminals(gates') :
          lowered'[t] \in Pins(net') \cup Declared' \cup Waiting({t} \cap pending')
    BY <1>1, <1>12, <2>2
  <2> QED  BY <1>10, <1>11, <2>1, <2>2, <2>3 DEF Lowering
<1> QED  BY <1>1, <1>13 DEF LowerInv

LEMMA AllLoweredInv ==
  ASSUME LowerInv, AllLowered
  PROVE  LowerInv'
<1>1. /\ phase = "lower" /\ phase' = "replace" /\ gates' = gates /\ verdict' = verdict /\ rest' = rest
      /\ net' = net /\ lowered' = lowered /\ pending = {} /\ pending' = Live(gates)
  BY DEF AllLowered, evalVars
<1>2. Lowering
  BY <1>1 DEF LowerInv
<1>3. \A g \in Live(gates) : lowered[g] \in Pins(net) \cup Declared
  BY <1>1, <1>2 DEF Lowering, LiveTerminals, Waiting
<1>4. Replacing'
  <2>1. Declared' = Declared
    BY DEF Declared
  <2>2. Joins(net', Declared' \cup Waiting(pending'))
    BY <1>1, <1>2, <2>1 DEF Lowering
  <2> QED  BY <1>1, <1>2, <1>3, <2>1, <2>2 DEF Replacing, Lowering
<1> QED  BY <1>1, <1>4 DEF LowerInv

LEMMA ReplaceInv ==
  ASSUME LowerInv, NEW g \in pending, Replace(g)
  PROVE  LowerInv'
<1> DEFINE S == Declared \cup Waiting(pending)
           from == Placeholder(g)
<1>1. /\ phase = "replace" /\ phase' = phase /\ gates' = gates /\ verdict' = verdict /\ rest' = rest
      /\ net' = Rewire(net, from, lowered[g]) /\ lowered' = lowered /\ pending' = pending \ {g}
  BY DEF Replace
<1>2. Replacing
  BY <1>1 DEF LowerInv
<1>3. /\ gates \in GateNetworks /\ pending \in SUBSET Live(gates) /\ Joins(net, S)
      /\ \A h \in Live(gates) : lowered[h] \in Pins(net) \cup Declared
  BY <1>2 DEF Replacing
<1>4. g \in Live(gates) /\ g \in Gates /\ pending \in SUBSET Gates
  BY <1>3, NetworkFacts
<1>5. from \notin Pins(net) /\ from \notin Declared
  BY <1>4, PlaceholderFacts
<1>6. S \ {from} \in SUBSET (Declared \cup Waiting(pending'))
  BY <1>1 DEF Waiting
<1>7. lowered[g] \in Pins(net) \cup (S \ {from})
  BY <1>3, <1>4, <1>5
<1> HIDE DEF S, from
<1>8. Joins(net', S \ {from}) /\ Pins(net') = Pins(net)
  BY <1>1, <1>3, <1>5, <1>7, RewireJoins
<1>9. Joins(net', Declared \cup Waiting(pending'))
  BY <1>6, <1>8, JoinsMore
<1>10. Replacing'
  <2>1. Declared' = Declared
    BY DEF Declared
  <2>2. gates' \in GateNetworks /\ pending' \in SUBSET Live(gates')
    BY <1>1, <1>3
  <2>3. \A h \in Live(gates') : lowered'[h] \in Pins(net') \cup Declared'
    BY <1>1, <1>3, <1>8, <2>1
  <2> QED  BY <1>9, <2>1, <2>2, <2>3 DEF Replacing
<1> QED  BY <1>1, <1>10 DEF LowerInv

\* The row a call begins with satisfies the invariant of the rows.
LEMMA BeginInv ==
  ASSUME Wired', BeginRow(inputs', 0)
  PROVE  RowInv'
<1>1. BeginRow(inputs', row')
  BY DEF BeginRow
<1>2. inputs' \in Nat /\ IsWiring(net', Leads(inputs'))
  BY DEF Wired
<1>3. Fits(net', StartOf(inputs', row'))
  BY <1>2, WiringFits
<1> QED  BY <1>1, <1>2, <1>3, BeginRowInv

LEMMA CallInv ==
  ASSUME LowerInv, Call
  PROVE  LowerInv'
<1>1. /\ phase = "replace" /\ pending = {} /\ phase' = "evaluate" /\ net' = net
      /\ inputs' = Len(InputOrder) /\ BeginRow(Len(InputOrder), 0) /\ verdict' = "running"
  BY DEF Call
<1>2. Joins(net, Declared)
  <2>1. Waiting(pending) = {}
    BY <1>1 DEF Waiting
  <2> QED  BY <1>1, <2>1 DEF LowerInv, Replacing
<1>3. IsWiring(net', Leads(inputs'))
  BY <1>1, <1>2, JoinsIsWiring DEF Declared
<1>4. inputs' \in Nat
  BY <1>1, LowerAssumption
<1>5. Wired'
  BY <1>3, <1>4 DEF Wired
<1>6. RowInv'
  BY <1>1, <1>5, BeginInv
<1> QED  BY <1>1, <1>5, <1>6 DEF LowerInv

LEMMA CallByHandInv ==
  ASSUME LowerInv, CallByHand
  PROVE  LowerInv'
<1>1. /\ phase = "wired" /\ phase' = "evaluate" /\ net' = net /\ inputs' = inputs
      /\ BeginRow(inputs, 0) /\ verdict' = "running"
  BY DEF CallByHand
<1>2. Wired'
  BY <1>1 DEF LowerInv, Wired
<1>3. RowInv'
  BY <1>1, <1>2, BeginInv
<1> QED  BY <1>1, <1>2, <1>3 DEF LowerInv

LEMMA DropTransistorsInv ==
  ASSUME LowerInv, DropTransistors
  PROVE  LowerInv'
<1>1. /\ phase = "wired" /\ phase' = phase /\ net' = RunDte(net) /\ inputs' = inputs
      /\ verdict' = verdict /\ rest' = rest
  BY DEF DropTransistors, lowerVars
<1>2. /\ inputs \in Nat /\ IsWiring(net, Leads(inputs)) /\ DropsUnconnected(net)
  BY <1>1 DEF LowerInv, Wired
<1>3. \A s \in Leads(inputs) : s \in Int /\ s < 0
  BY <1>2 DEF Leads, Vdd, Vss, InputBit
<1>4. IsWiring(net', Leads(inputs')) /\ DropsUnconnected(net')
  BY <1>1, <1>2, <1>3, DteWiring
<1>5. Wired'
  BY <1>1, <1>2, <1>4 DEF Wired
<1> QED  BY <1>1, <1>4, <1>5 DEF LowerInv

LEMMA EvaluateStepInv ==
  ASSUME LowerInv, Evaluate, UNCHANGED lowerVars
  PROVE  LowerInv'
<1>1. /\ phase' = phase /\ net' = net /\ inputs' = inputs
      /\ verdict' # verdict => verdict' # "running" /\ rest' = {}
      /\ verdict # "running" => FALSE
  <2>1. phase' = phase
    BY DEF lowerVars
  <2>2. ASSUME NEW node \in initial, TakeInitial(node)
        PROVE  net' = net /\ inputs' = inputs /\ verdict' = verdict /\ verdict = "running"
    BY <2>2 DEF TakeInitial, Take, Evaluating
  <2>3. CASE TakeQueued
    BY <2>1, <2>3 DEF TakeQueued, Take, Evaluating
  <2>4. ASSUME NEW pin \in rest, Visit(pin)
        PROVE  net' = net /\ inputs' = inputs /\ verdict' = verdict /\ verdict = "running"
    BY <2>4 DEF Visit, LowerInv
  <2>5. CASE EndRow
    <3>1. net' = net /\ inputs' = inputs /\ verdict = "running" /\ rest = {}
      BY <2>5 DEF EndRow, Evaluating, Propagated
    <3>2. verdict' = verdict \/ (verdict' \in {"ok", "threw", "failed"} /\ rest' = rest)
      BY <2>5 DEF EndRow
    <3> QED  BY <2>1, <3>1, <3>2
  <2> QED  BY <2>1, <2>2, <2>3, <2>4, <2>5 DEF Evaluate
<1>2. /\ phase = "evaluate" /\ Wired /\ RowInv
  BY <1>1 DEF LowerInv
<1>3. Wired'
  BY <1>1, <1>2 DEF Wired
<1>4. \A r : Fits(net, StartOf(inputs, r))
  BY <1>2, WiringFits DEF Wired
<1>5. verdict' = "running" => RowInv'
  <2>1. Fits(net, Begin)
    BY <1>4 DEF Begin
  <2> QED  BY <1>2, <1>4, <2>1, EvaluateInv DEF Wired
<1>6. verdict' # "running" => rest' = {}
  BY <1>1
<1> QED  BY <1>1, <1>2, <1>3, <1>5, <1>6 DEF LowerInv

LEMMA StepLowerInv == LowerInv /\ [Next]_vars => LowerInv'
<1> SUFFICES ASSUME LowerInv, [Next]_vars PROVE LowerInv'
  OBVIOUS
<1>1. ASSUME NEW g \in pending, LowerGate(g) PROVE LowerInv'
  BY <1>1, LowerGateInv
<1>2. ASSUME NEW g \in pending, Replace(g) PROVE LowerInv'
  BY <1>2, ReplaceInv
<1>3. CASE AllLowered
  BY <1>3, AllLoweredInv
<1>4. CASE Call
  BY <1>4, CallInv
<1>5. CASE CallByHand
  BY <1>5, CallByHandInv
<1>6. CASE DropTransistors
  BY <1>6, DropTransistorsInv
<1>7. CASE Evaluate /\ UNCHANGED lowerVars
  BY <1>7, EvaluateStepInv
<1>8. CASE UNCHANGED vars
  <2>1. /\ net' = net /\ inputs' = inputs /\ row' = row /\ state' = state /\ initial' = initial
        /\ queue' = queue /\ level' = level /\ rest' = rest /\ verdict' = verdict
        /\ gates' = gates /\ phase' = phase /\ lowered' = lowered /\ pending' = pending
    BY <1>8 DEF vars
  <2>2. Lowering' <=> Lowering
    BY <2>1 DEF Lowering, Declared
  <2>3. Replacing' <=> Replacing
    BY <2>1 DEF Replacing, Declared
  <2>4. Wired' <=> Wired
    BY <2>1 DEF Wired
  <2>5. RowInv => RowInv'
    <3>1. SameRow
      BY <2>1 DEF SameRow
    <3> QED  BY <2>1, <3>1, UnchangedRowInv
  <2> QED  BY <2>1, <2>2, <2>3, <2>4, <2>5 DEF LowerInv
<1> QED  BY <1>1, <1>2, <1>3, <1>4, <1>5, <1>6, <1>7, <1>8 DEF Next, Work, Done

\* Every reachable state satisfies the inductive invariant.
THEOREM Invariant == Spec => []LowerInv
<1>1. Init => LowerInv
  BY InitLowerInv
<1>2. LowerInv /\ [Next]_vars => LowerInv'
  BY StepLowerInv
<1> QED  BY <1>1, <1>2, PTL DEF Spec

\* Lower leaves no placeholder behind: while a network is evaluated its connections
\* lead to pins, rails and input bits only, whatever gates have been lowered, in
\* whatever order the placeholders have been replaced, and after RunDte too.
THEOREM PlaceholdersReplaced == Spec => []NoPlaceholderLeft
<1>1. LowerInv => NoPlaceholderLeft
  <2> SUFFICES ASSUME LowerInv, phase = "evaluate", NEW w \in net.wires
               PROVE  w[1] \in Pins(net) \cup Leads(inputs) /\ w[2] \in Pins(net) \cup Leads(inputs)
    BY DEF NoPlaceholderLeft
  <2> DEFINE nodes == Pins(net) \cup Leads(inputs)
  <2>1. net.wires \in SUBSET (nodes \X nodes)
    BY DEF LowerInv, Wired, IsWiring
  <2> HIDE DEF nodes
  <2> QED  BY <2>1 DEF nodes
<1> QED  BY <1>1, Invariant, PTL

\* Whatever the network, the row and the order in which the levels spread, a row ends
\* with a short exactly if some node carries both levels, and otherwise with the level
\* that each node carries.
THEOREM RowsAreRight == Spec => []ShortsAreConflicts
<1>1. LowerInv => ShortsAreConflicts
  <2> SUFFICES ASSUME LowerInv, verdict = "running" PROVE ShortsAreConflicts
    BY DEF ShortsAreConflicts, Evaluating
  <2>1. Wired /\ RowInv
    BY DEF LowerInv
  <2>2. Fits(net, Begin)
    BY <2>1, WiringFits DEF Wired, Begin
  <2> QED  BY <2>1, <2>2, RowIsRight DEF Wired
<1> QED  BY <1>1, Invariant, PTL

----------------------------------------------------------------------------
(* The levels of a network, as a set of pairs of a node and a level.         *)

\* The nodes a and b have the same levels in D.
SameIn(D, a, b) == \A l \in Levels : <<a, l>> \in D <=> <<b, l>> \in D

\* The levels at which a type of transistor opens, and which it passes.
OpensAt(type) == IF type = "n" THEN "high" ELSE "low"
PassesOn(type) == IF type = "n" THEN "low" ELSE "high"

\* What transistor t asks of D.
Conducted(D, type, t) ==
  <<Gate(t), OpensAt(type)>> \in D /\ <<Source(t), PassesOn(type)>> \in D =>
    <<Drain(t), PassesOn(type)>> \in D

\* D is closed under the connections and the transistors of n.
Closed(n, D) ==
  /\ \A w \in n.wires : SameIn(D, w[1], w[2])
  /\ \A t \in Transistors(n) : Conducted(D, TypeOf(n, t), t)

LEMMA ClosedMeansImplied ==
  ASSUME NEW n, n.types \in Seq({"n", "p"}), NEW D
  PROVE  /\ Closed(n, D) => Implied(n, D) \subseteq D
         /\ Implied(n, D) \subseteq D => Closed(n, D)
<1>1. ASSUME Closed(n, D), NEW x \in Implied(n, D)  PROVE x \in D
  <2>1. CASE ByWire(n, D, x)
    <3>1. PICK w \in n.wires, l \in Levels :
            \/ x = <<w[2], l>> /\ <<w[1], l>> \in D
            \/ x = <<w[1], l>> /\ <<w[2], l>> \in D
      BY <2>1 DEF ByWire
    <3>2. SameIn(D, w[1], w[2])
      BY <1>1 DEF Closed
    <3> QED  BY <3>1, <3>2 DEF SameIn
  <2>2. CASE Through(n, D, x)
    <3>1. PICK t \in Transistors(n) :
             \/ /\ x = <<Drain(t), "low">> /\ TypeOf(n, t) = "n"
                /\ <<Gate(t), "high">> \in D /\ <<Source(t), "low">> \in D
             \/ /\ x = <<Drain(t), "high">> /\ TypeOf(n, t) = "p"
                /\ <<Gate(t), "low">> \in D /\ <<Source(t), "high">> \in D
      BY <2>2 DEF Through
    <3>2. Conducted(D, TypeOf(n, t), t)
      BY <1>1 DEF Closed
    <3> QED  BY <3>1, <3>2 DEF Conducted, OpensAt, PassesOn
  <2> QED  BY <1>1, <2>1, <2>2, ImpliedMember
<1>2. ASSUME Implied(n, D) \subseteq D  PROVE Closed(n, D)
  <2>1. ASSUME NEW w \in n.wires  PROVE SameIn(D, w[1], w[2])
    <3>1. ASSUME NEW l \in Levels  PROVE <<w[1], l>> \in D <=> <<w[2], l>> \in D
      <4>1. <<w[1], l>> \in D => ByWire(n, D, <<w[2], l>>)
        BY DEF ByWire
      <4>2. <<w[2], l>> \in D => ByWire(n, D, <<w[1], l>>)
        BY DEF ByWire
      <4> QED  BY <1>2, <4>1, <4>2, ImpliedMember
    <3> QED  BY <3>1 DEF SameIn
  <2>2. ASSUME NEW t \in Transistors(n)  PROVE Conducted(D, TypeOf(n, t), t)
    <3>1. TypeOf(n, t) \in {"n", "p"}
      BY PinsOf
    <3> SUFFICES ASSUME <<Gate(t), OpensAt(TypeOf(n, t))>> \in D,
                        <<Source(t), PassesOn(TypeOf(n, t))>> \in D
                 PROVE  <<Drain(t), PassesOn(TypeOf(n, t))>> \in D
      BY DEF Conducted
    <3>2. Through(n, D, <<Drain(t), PassesOn(TypeOf(n, t))>>)
      BY <3>1 DEF Through, OpensAt, PassesOn
    <3> QED  BY <1>2, <3>2, ImpliedMember
  <2> QED  BY <2>1, <2>2 DEF Closed
<1> QED  BY <1>1, <1>2

\* What is carried is closed, and is part of every closed set that it starts from.
LEMMA CarriedIsClosed ==
  ASSUME NEW n, NEW start, Fits(n, start)
  PROVE  /\ Closed(n, Carried(n, start))
         /\ \A D : Closed(n, D) /\ Given(start) \subseteq D => Carried(n, start) \subseteq D
<1>1. n.types \in Seq({"n", "p"})
  BY DEF Fits
<1>2. Closed(n, Carried(n, start))
  BY <1>1, CarriedFacts, ClosedMeansImplied
<1>3. ASSUME NEW D, Closed(n, D), Given(start) \subseteq D
      PROVE  Carried(n, start) \subseteq D
  <2> DEFINE c == Universe(n, start) \cap D
  <2>1. c \in SUBSET Universe(n, start)
    OBVIOUS
  <2>2. Implied(n, c) \subseteq D
    BY <1>1, <1>3, ClosedMeansImplied, ImpliedGrows
  <2>3. Implied(n, c) \subseteq Universe(n, start)
    BY <2>1, ImpliedStays
  <2>4. Given(start) \subseteq Universe(n, start)
    BY CarriedFacts
  <2> HIDE DEF c
  <2>5. Given(start) \subseteq c /\ Implied(n, c) \subseteq c
    BY <1>3, <2>2, <2>3, <2>4 DEF c
  <2>6. Carried(n, start) \subseteq c
    BY <2>1, <2>5, CarriedFacts
  <2> QED  BY <2>6 DEF c
<1> QED  BY <1>2, <1>3

\* What a builder leaves.
LEMMA BuiltIs ==
  ASSUME NEW n, NEW S, Joins(n, S), NEW types \in Seq({"n", "p"}), NEW pairs, NEW out
  PROVE  LET made == Built(n, types, pairs, out)
         IN  /\ made.net.types = n.types \o types
             /\ made.net.wires = n.wires \cup {Wire(p[1], p[2]) : p \in pairs}
             /\ made.out = out
<1> DEFINE made == Built(n, types, pairs, out).net
           more == {Wire(p[1], p[2]) : p \in pairs}
<1> DEFINE longer == [n EXCEPT !.types = n.types \o types]
<1>3. n.types \in Seq({"n", "p"}) /\ n.types \o types \in Seq({"n", "p"})
  BY DEF Joins
<1>1. longer.types = n.types \o types /\ longer.wires = n.wires
      /\ longer \in [types : Seq({"n", "p"}), wires : SUBSET WiresOf(Pins(n), S)]
  BY <1>3 DEF Joins
<1>2. made = [longer EXCEPT !.wires = longer.wires \cup more]
  BY DEF Built, Connect
<1> HIDE DEF longer, made, more
<1>4. made.types = n.types \o types /\ made.wires = n.wires \cup more
  BY <1>1, <1>2
<1>5. Built(n, types, pairs, out).out = out
  BY DEF Built
<1> QED  BY <1>4, <1>5 DEF made, more

LEMMA BuiltTypes ==
  ASSUME NEW n, NEW S, Joins(n, S), NEW types \in Seq({"n", "p"}), NEW pairs, NEW out
  PROVE  Built(n, types, pairs, out).net.types = n.types \o types
BY BuiltIs

\* A set is closed under a network that a builder has added to if it is under what
\* was there and what the builder has added.
LEMMA BuiltClosed ==
  ASSUME NEW n, NEW S, Joins(n, S), NEW types \in Seq({"n", "p"}), NEW pairs, NEW out, NEW D
  PROVE  Closed(Built(n, types, pairs, out).net, D) <=>
           /\ Closed(n, D)
           /\ \A p \in pairs : SameIn(D, p[1], p[2])
           /\ \A i \in 1 .. Len(types) : Conducted(D, types[i], NumTransistors(n) + i - 1)
<1> DEFINE made == Built(n, types, pairs, out).net
           more == {Wire(p[1], p[2]) : p \in pairs}
           k == NumTransistors(n)
<1>1. made.types = n.types \o types /\ made.wires = n.wires \cup more
  BY BuiltIs
<1>2. n.types \in Seq({"n", "p"}) /\ k \in Nat /\ k = Len(n.types) /\ Len(types) \in Nat
  BY DEF Joins, NumTransistors
<1> HIDE DEF made
<1>3. Transistors(made) = 0 .. k + Len(types) - 1 /\ Transistors(n) = 0 .. k - 1
  BY <1>1, <1>2 DEF Transistors, NumTransistors
<1>4. \A t \in 0 .. k - 1 : TypeOf(made, t) = TypeOf(n, t)
  <2> TAKE t \in 0 .. k - 1
  <2>1. t + 1 \in 1 .. Len(n.types)
    BY <1>2
  <2> QED  BY <1>1, <1>2, <2>1 DEF TypeOf
<1>5. \A i \in 1 .. Len(types) : TypeOf(made, k + i - 1) = types[i]
  <2> TAKE i \in 1 .. Len(types)
  <2>1. k + i - 1 + 1 = Len(n.types) + i /\ i \in 1 .. Len(types)
    BY <1>2
  <2>2. (n.types \o types)[Len(n.types) + i] = types[i]
    BY <1>2
  <2> QED  BY <1>1, <2>1, <2>2 DEF TypeOf
<1>6. \A a, b : SameIn(D, Wire(a, b)[1], Wire(a, b)[2]) <=> SameIn(D, a, b)
  BY DEF Wire, SameIn
<1>7. (\A w \in made.wires : SameIn(D, w[1], w[2])) <=>
        (\A w \in n.wires : SameIn(D, w[1], w[2])) /\ \A p \in pairs : SameIn(D, p[1], p[2])
  <2> HIDE DEF k
  <2>1. (\A w \in more : SameIn(D, w[1], w[2])) <=> \A p \in pairs : SameIn(D, p[1], p[2])
    BY <1>6
  <2> HIDE DEF more
  <2> QED  BY <1>1, <2>1
<1>8. (\A t \in Transistors(made) : Conducted(D, TypeOf(made, t), t)) <=>
        /\ \A t \in Transistors(n) : Conducted(D, TypeOf(n, t), t)
        /\ \A i \in 1 .. Len(types) : Conducted(D, types[i], k + i - 1)
  <2> HIDE DEF k
  <2>1. \A t \in 0 .. k + Len(types) - 1 : t \in 0 .. k - 1 \/ \E i \in 1 .. Len(types) : t = k + i - 1
    <3> TAKE t \in 0 .. k + Len(types) - 1
    <3>1. t \notin 0 .. k - 1 => t - k + 1 \in 1 .. Len(types) /\ t = k + (t - k + 1) - 1
      BY <1>2
    <3> QED  BY <3>1
  <2>2. \A i \in 1 .. Len(types) : k + i - 1 \in 0 .. k + Len(types) - 1
    BY <1>2
  <2>3. 0 .. k - 1 \subseteq 0 .. k + Len(types) - 1
    BY <1>2
  <2> QED  BY <1>3, <1>4, <1>5, <2>1, <2>2, <2>3
<1> QED  BY <1>7, <1>8 DEF Closed, made

----------------------------------------------------------------------------
(* Labels: one level, or none, for each node.                                *)

Label == Levels \cup {"undefined"}
Labelling == [Int -> Label]
LevelsOf(f) == {x \in Int \X Levels : f[x[1]] = x[2]}

Negative(S) == \A s \in S : s \in Int /\ s < 0

LEMMA LevelsOfMember ==
  ASSUME NEW f, NEW a, NEW l
  PROVE  <<a, l>> \in LevelsOf(f) <=> a \in Int /\ l \in Levels /\ f[a] = l
BY DEF LevelsOf

LEMMA LevelsOfSame ==
  ASSUME NEW f, NEW a \in Int, NEW b \in Int, f[a] = f[b]
  PROVE  SameIn(LevelsOf(f), a, b)
BY LevelsOfMember DEF SameIn

\* Whether labels are closed under a network depends on those of its own nodes only.
LEMMA ClosedElsewhere ==
  ASSUME NEW n, NEW S, Joins(n, S), Negative(S), NEW f, NEW h,
         \A m \in Pins(n) \cup S : h[m] = f[m], Closed(n, LevelsOf(f))
  PROVE  Closed(n, LevelsOf(h))
<1>1. n.types \in Seq({"n", "p"}) /\ n.wires \in SUBSET WiresOf(Pins(n), S)
  BY DEF Joins
<1>2. Pins(n) \cup S \in SUBSET Int
  BY DEF Negative, Pins
<1>3. ASSUME NEW a \in Pins(n) \cup S, NEW l  PROVE <<a, l>> \in LevelsOf(h) <=> <<a, l>> \in LevelsOf(f)
  BY <1>2, LevelsOfMember
<1>4. ASSUME NEW w \in n.wires  PROVE SameIn(LevelsOf(h), w[1], w[2])
  <2>1. w[1] \in Pins(n) \cup S /\ w[2] \in Pins(n) \cup S
    BY <1>1 DEF WiresOf
  <2>2. SameIn(LevelsOf(f), w[1], w[2])
    BY DEF Closed
  <2> QED  BY <1>3, <2>1, <2>2 DEF SameIn
<1>5. ASSUME NEW t \in Transistors(n)  PROVE Conducted(LevelsOf(h), TypeOf(n, t), t)
  <2>1. Gate(t) \in Pins(n) /\ Source(t) \in Pins(n) /\ Drain(t) \in Pins(n)
    BY <1>1, PinsOf
  <2>2. Conducted(LevelsOf(f), TypeOf(n, t), t)
    BY DEF Closed
  <2> QED  BY <1>3, <2>1, <2>2 DEF Conducted
<1> QED  BY <1>4, <1>5 DEF Closed

\* The pins of transistors first, first + 1, ..., first + k - 1.
PinsFrom(first, k) == 3 * first .. 3 * (first + k) - 1

\* The labels of their gates, sources and drains.
Pinned(first, k, G, B, E, h) ==
  \A i \in 0 .. k - 1 : /\ h[Gate(first + i)] = G[i]
                       /\ h[Source(first + i)] = B[i]
                       /\ h[Drain(first + i)] = E[i]

\* Labels that transistors of these types keep.
Conducting(types, k, G, B, E) ==
  \A i \in 0 .. k - 1 :
    G[i] = OpensAt(types[i + 1]) /\ B[i] = PassesOn(types[i + 1]) => E[i] = PassesOn(types[i + 1])

\* Nodes that are to be connected have the same label.
Joined(pairs, h) == \A p \in pairs : p[1] \in Int /\ p[2] \in Int /\ h[p[1]] = h[p[2]]

\* h is f, but for the new pins.
Relabelled(first, k, f, G, B, E, h) ==
  /\ \A m \in Int : m \notin PinsFrom(first, k) => h[m] = f[m]
  /\ Pinned(first, k, G, B, E, h)

\* The pins of new transistors can be labelled as one likes.
LEMMA Relabel ==
  ASSUME NEW first \in Nat, NEW k \in Nat, NEW f \in Labelling,
         NEW G \in [0 .. k - 1 -> Label], NEW B \in [0 .. k - 1 -> Label],
         NEW E \in [0 .. k - 1 -> Label]
  PROVE  \E h \in Labelling : Relabelled(first, k, f, G, B, E, h)
<1> DEFINE New(m) == LET i == (m \div 3) - first
                     IN  IF m % 3 = 0 THEN E[i] ELSE IF m % 3 = 1 THEN G[i] ELSE B[i]
           h == [m \in Int |-> IF m \in PinsFrom(first, k) THEN New(m) ELSE f[m]]
<1>1. ASSUME NEW m \in PinsFrom(first, k)  PROVE (m \div 3) - first \in 0 .. k - 1 /\ m \in Int
  BY DEF PinsFrom
<1>2. \A m \in PinsFrom(first, k) : New(m) \in Label
  BY <1>1
<1>3. h \in Labelling
  <2> HIDE DEF New
  <2> QED  BY <1>2 DEF Labelling
<1>4. ASSUME NEW i \in 0 .. k - 1
      PROVE  /\ h[Gate(first + i)] = G[i]
             /\ h[Source(first + i)] = B[i]
             /\ h[Drain(first + i)] = E[i]
  <2>1. /\ Gate(first + i) \in PinsFrom(first, k) /\ Source(first + i) \in PinsFrom(first, k)
        /\ Drain(first + i) \in PinsFrom(first, k)
    BY DEF PinsFrom, Gate, Source, Drain, Pin
  <2>2. /\ (Gate(first + i) \div 3) - first = i /\ Gate(first + i) % 3 = 1
        /\ (Source(first + i) \div 3) - first = i /\ Source(first + i) % 3 = 2
        /\ (Drain(first + i) \div 3) - first = i /\ Drain(first + i) % 3 = 0
    BY DEF Gate, Source, Drain, Pin
  <2>3. New(Gate(first + i)) = G[i] /\ New(Source(first + i)) = B[i] /\ New(Drain(first + i)) = E[i]
    BY <2>2
  <2> HIDE DEF New
  <2> QED  BY <1>1, <2>1, <2>3
<1>5. \A m \in Int : m \notin PinsFrom(first, k) => h[m] = f[m]
  OBVIOUS
<1>6. Relabelled(first, k, f, G, B, E, h)
  <2> HIDE DEF h
  <2> QED  BY <1>4, <1>5 DEF Relabelled, Pinned
<1> QED  BY <1>3, <1>6

\* Labels of a network, with others for the pins that a builder adds.
Extends(n, made, f, h) ==
  /\ h \in Labelling
  /\ \A m \in Int : m \notin Pins(made.net) \ Pins(n) => h[m] = f[m]

Labelled(n, made, f, value) ==
  \E h : Extends(n, made, f, h) /\ Closed(made.net, LevelsOf(h)) /\ h[made.out] = value

LEMMA BuiltLabelled ==
  ASSUME NEW n, NEW S, Joins(n, S), Negative(S), NEW types \in Seq({"n", "p"}),
         NEW k \in Nat, k = Len(types), NEW pairs, NEW out,
         NEW f \in Labelling, Closed(n, LevelsOf(f)),
         NEW G \in [0 .. k - 1 -> Label], NEW B \in [0 .. k - 1 -> Label],
         NEW E \in [0 .. k - 1 -> Label],
         Conducting(types, k, G, B, E)
  PROVE  LET made == Built(n, types, pairs, out)
         IN  \E h : /\ Extends(n, made, f, h)
                    /\ Pinned(NumTransistors(n), k, G, B, E, h)
                    /\ Joined(pairs, h) => Closed(made.net, LevelsOf(h))
<1> DEFINE made == Built(n, types, pairs, out)
           first == NumTransistors(n)
<1>1. first \in Nat /\ first = Len(n.types) /\ n.types \in Seq({"n", "p"})
  BY DEF Joins, NumTransistors
<1>2. Pins(made.net) \ Pins(n) = PinsFrom(first, k)
  <2>1. made.net.types = n.types \o types
    BY BuiltIs
  <2>2. NumTransistors(made.net) = first + k
    BY <1>1, <2>1 DEF NumTransistors
  <2> HIDE DEF first, made
  <2>3. Pins(made.net) = 0 .. 3 * (first + k) - 1 /\ Pins(n) = 0 .. 3 * first - 1
    BY <2>2 DEF Pins, first
  <2> QED  BY <1>1, <2>3 DEF PinsFrom
<1> HIDE DEF first, made
<1>7. PICK h \in Labelling : Relabelled(first, k, f, G, B, E, h)
  BY <1>1, Relabel
<1>3. /\ \A m \in Int : m \notin PinsFrom(first, k) => h[m] = f[m]
      /\ \A i \in 0 .. k - 1 : /\ h[Gate(first + i)] = G[i]
                              /\ h[Source(first + i)] = B[i]
                              /\ h[Drain(first + i)] = E[i]
  BY <1>7 DEF Relabelled, Pinned
<1>4. Extends(n, made, f, h)
  BY <1>2, <1>3 DEF Extends
<1>5. Closed(n, LevelsOf(h))
  <2>1. \A m \in Pins(n) \cup S : m \in Int /\ m \notin PinsFrom(first, k)
    BY <1>1 DEF Pins, PinsFrom, first, Negative
  <2> QED  BY <1>3, <2>1, ClosedElsewhere
<1>6. ASSUME Joined(pairs, h)  PROVE Closed(made.net, LevelsOf(h))
  <2>1. \A p \in pairs : SameIn(LevelsOf(h), p[1], p[2])
    BY <1>6, LevelsOfSame DEF Joined
  <2>2. ASSUME NEW i \in 1 .. Len(types)  PROVE Conducted(LevelsOf(h), types[i], first + i - 1)
    <3>1. i - 1 \in 0 .. k - 1 /\ first + (i - 1) = first + i - 1 /\ (i - 1) + 1 = i
      BY <1>1
    <3>2. /\ h[Gate(first + i - 1)] = G[i - 1] /\ h[Source(first + i - 1)] = B[i - 1]
          /\ h[Drain(first + i - 1)] = E[i - 1]
      BY <1>3, <3>1
    <3>3. G[i - 1] = OpensAt(types[i]) /\ B[i - 1] = PassesOn(types[i]) =>
            E[i - 1] = PassesOn(types[i])
      BY <3>1 DEF Conducting
    <3>4. Drain(first + i - 1) \in Int
      BY <1>1 DEF Drain, Pin
    <3>5. PassesOn(types[i]) \in Levels
      BY DEF PassesOn, Levels
    <3> QED  BY <3>2, <3>3, <3>4, <3>5, LevelsOfMember DEF Conducted
  <2> QED  BY <1>5, <2>1, <2>2, BuiltClosed DEF made, first
<1> QED  BY <1>4, <1>6, <1>7 DEF made, first, Relabelled

----------------------------------------------------------------------------
(* The builders.  Labels of a network are extended to what a builder adds,   *)
(* with the value of the gate at the node that it returns; and what is       *)
(* closed under it has that value.                                           *)

LEMMA UpTo ==
  ASSUME NEW k \in Nat, NEW T, 0 \in T, \A j \in 1 .. k : j - 1 \in T => j \in T
  PROVE  \A j \in 0 .. k : j \in T
<1> DEFINE Bad == {j \in 0 .. k : j \notin T}
<1> SUFFICES ASSUME Bad # {} PROVE FALSE
  OBVIOUS
<1>1. PICK m \in Bad : \A j \in Bad : m <= j
  BY LeastElement, Bad \in SUBSET Nat
<1>2. m \in 1 .. k
  OBVIOUS
<1>3. m - 1 \in T
  <2>1. m - 1 \in 0 .. k /\ ~ (m <= m - 1)
    BY <1>2
  <2> QED  BY <1>1, <2>1
<1> QED  BY <1>2, <1>3

\* The transistors of a NAND or a NOR, as Complementary makes them.
ChainOf(first, from, i) == IF i = 0 THEN from ELSE Drain(first + i - 1)
AcrossOf(first, l, i) == first + l + i - 1
TypesOf(l, series, parallel) == [i \in 1 .. 2 * l |-> IF i <= l THEN series ELSE parallel]
PairsOf(first, l, ins, from, to, i) ==
  {<<ChainOf(first, from, i - 1), Source(first + i - 1)>>, <<ins[i], Gate(first + i - 1)>>,
   <<ins[i], Gate(AcrossOf(first, l, i))>>, <<to, Source(AcrossOf(first, l, i))>>,
   <<ChainOf(first, from, l), Drain(AcrossOf(first, l, i))>>}

LEMMA ComplementaryIs ==
  ASSUME NEW n, NEW ins, NEW series, NEW parallel, NEW from, NEW to
  PROVE  LET l == Len(ins)
             first == NumTransistors(n)
         IN  Complementary(n, ins, series, parallel, from, to) =
               Built(n, TypesOf(l, series, parallel),
                     UNION {PairsOf(first, l, ins, from, to, i) : i \in 1 .. l},
                     ChainOf(first, from, l))
BY DEF Complementary, ChainOf, AcrossOf, TypesOf, PairsOf

LEMMA ComplementaryForced ==
  ASSUME NEW n, NEW S, Joins(n, S), NEW ins \in Seq(Pins(n) \cup S),
         NEW series \in {"n", "p"}, NEW parallel \in {"n", "p"}, NEW from, NEW to,
         NEW D, Closed(Complementary(n, ins, series, parallel, from, to).net, D),
         <<from, PassesOn(series)>> \in D, <<to, PassesOn(parallel)>> \in D
  PROVE  LET out == Complementary(n, ins, series, parallel, from, to).out
         IN  /\ Closed(n, D)
             /\ (\A i \in 1 .. Len(ins) : <<ins[i], OpensAt(series)>> \in D) =>
                  <<out, PassesOn(series)>> \in D
             /\ (\E i \in 1 .. Len(ins) : <<ins[i], OpensAt(parallel)>> \in D) =>
                  <<out, PassesOn(parallel)>> \in D
<1> DEFINE l == Len(ins)
           first == NumTransistors(n)
           types == TypesOf(l, series, parallel)
           Chain(i) == ChainOf(first, from, i)
           Across(i) == AcrossOf(first, l, i)
           pairs == UNION {PairsOf(first, l, ins, from, to, i) : i \in 1 .. l}
           made == Complementary(n, ins, series, parallel, from, to)
<1>1. made = Built(n, types, pairs, Chain(l))
  BY ComplementaryIs
<1>2. l \in Nat /\ first \in Nat
  BY DEF Joins, NumTransistors
<1>3. types \in Seq({"n", "p"}) /\ Len(types) = 2 * l
      /\ \A i \in 1 .. l : types[i] = series /\ types[l + i] = parallel
  BY <1>2 DEF TypesOf
<1>4. made.out = Chain(l)
  BY <1>1, <1>3, BuiltIs
<1> HIDE DEF l, first, made, types
<1>5. /\ Closed(n, D)
      /\ \A p \in pairs : SameIn(D, p[1], p[2])
      /\ \A i \in 1 .. Len(types) : Conducted(D, types[i], first + i - 1)
  BY <1>1, <1>3, BuiltClosed DEF first, made
<1>6. ASSUME NEW i \in 1 .. l
      PROVE  /\ SameIn(D, Chain(i - 1), Source(first + i - 1))
             /\ SameIn(D, ins[i], Gate(first + i - 1))
             /\ SameIn(D, ins[i], Gate(Across(i))) /\ SameIn(D, to, Source(Across(i)))
             /\ SameIn(D, Chain(l), Drain(Across(i)))
             /\ Conducted(D, series, first + i - 1) /\ Conducted(D, parallel, Across(i))
  <2>1. /\ <<Chain(i - 1), Source(first + i - 1)>> \in pairs
        /\ <<ins[i], Gate(first + i - 1)>> \in pairs
        /\ <<ins[i], Gate(Across(i))>> \in pairs /\ <<to, Source(Across(i))>> \in pairs
        /\ <<Chain(l), Drain(Across(i))>> \in pairs
    BY DEF PairsOf
  <2>2. i \in 1 .. Len(types) /\ l + i \in 1 .. Len(types) /\ first + (l + i) - 1 = Across(i)
    BY <1>2, <1>3 DEF AcrossOf
  <2>3. Conducted(D, types[i], first + i - 1) /\ Conducted(D, types[l + i], first + (l + i) - 1)
    BY <1>5, <2>2
  <2> HIDE DEF pairs, Chain, Across
  <2>4. Conducted(D, series, first + i - 1) /\ Conducted(D, parallel, Across(i))
    BY <1>3, <2>2, <2>3
  <2>5. \A a, b : <<a, b>> \in pairs => SameIn(D, a, b)
    <3> SUFFICES ASSUME NEW a, NEW b, <<a, b>> \in pairs  PROVE SameIn(D, a, b)
      OBVIOUS
    <3>1. SameIn(D, <<a, b>>[1], <<a, b>>[2])
      BY <1>5
    <3> QED  BY <3>1
  <2> QED  BY <2>1, <2>4, <2>5
<1>7. PassesOn(series) \in Levels /\ PassesOn(parallel) \in Levels
      /\ OpensAt(series) \in Levels /\ OpensAt(parallel) \in Levels
  BY DEF PassesOn, OpensAt, Levels
<1>8. ASSUME \A i \in 1 .. l : <<ins[i], OpensAt(series)>> \in D
      PROVE  <<Chain(l), PassesOn(series)>> \in D
  <2> DEFINE T == {j \in 0 .. l : <<Chain(j), PassesOn(series)>> \in D}
  <2>1. 0 \in T
    BY <1>2 DEF ChainOf
  <2>2. ASSUME NEW j \in 1 .. l, j - 1 \in T  PROVE j \in T
    <3>1. <<Source(first + j - 1), PassesOn(series)>> \in D
      BY <1>6, <1>7, <2>2 DEF SameIn
    <3>2. <<Gate(first + j - 1), OpensAt(series)>> \in D
      BY <1>6, <1>7, <1>8 DEF SameIn
    <3>3. <<Drain(first + j - 1), PassesOn(series)>> \in D
      BY <1>6, <3>1, <3>2 DEF Conducted
    <3>4. Chain(j) = Drain(first + j - 1) /\ j \in 0 .. l
      BY DEF ChainOf
    <3> QED  BY <3>3, <3>4
  <2> HIDE DEF T
  <2>3. \A j \in 0 .. l : j \in T
    BY <1>2, <2>1, <2>2, UpTo
  <2>4. l \in 0 .. l
    BY <1>2
  <2> QED  BY <2>3, <2>4 DEF T
<1>9. ASSUME NEW i \in 1 .. l, <<ins[i], OpensAt(parallel)>> \in D
      PROVE  <<Chain(l), PassesOn(parallel)>> \in D
  <2>1. <<Gate(Across(i)), OpensAt(parallel)>> \in D /\ <<Source(Across(i)), PassesOn(parallel)>> \in D
    BY <1>6, <1>7, <1>9 DEF SameIn
  <2>2. <<Drain(Across(i)), PassesOn(parallel)>> \in D
    BY <1>6, <2>1 DEF Conducted
  <2> QED  BY <1>6, <1>7, <2>2 DEF SameIn
<1> QED  BY <1>4, <1>5, <1>8, <1>9 DEF l, made

LEMMA ComplementaryLabelled ==
  ASSUME NEW n, NEW S, Joins(n, S), Negative(S), Rails \in SUBSET S,
         NEW ins \in Seq(Pins(n) \cup S),
         NEW series \in {"n", "p"}, NEW parallel \in {"n", "p"}, series # parallel,
         NEW from \in Rails, NEW to \in Rails,
         NEW f \in Labelling, Closed(n, LevelsOf(f)),
         f[from] = PassesOn(series), f[to] = PassesOn(parallel),
         NEW w \in Label,
         (\A i \in 1 .. Len(ins) : f[ins[i]] = OpensAt(series)) => w = PassesOn(series),
         (\E i \in 1 .. Len(ins) : f[ins[i]] = OpensAt(parallel)) => w = PassesOn(parallel)
  PROVE  Labelled(n, Complementary(n, ins, series, parallel, from, to), f, w)
<1> DEFINE l == Len(ins)
           first == NumTransistors(n)
           types == TypesOf(l, series, parallel)
           Chain(i) == ChainOf(first, from, i)
           Across(i) == AcrossOf(first, l, i)
           pairs == UNION {PairsOf(first, l, ins, from, to, i) : i \in 1 .. l}
           made == Built(n, types, pairs, Chain(l))
           Level1(j) == IF j = l THEN w
                        ELSE IF \A q \in 1 .. j : f[ins[q]] = OpensAt(series) THEN PassesOn(series)
                        ELSE "undefined"
           G == [i \in 0 .. 2 * l - 1 |-> IF i < l THEN f[ins[i + 1]] ELSE f[ins[i - l + 1]]]
           B == [i \in 0 .. 2 * l - 1 |-> IF i < l THEN Level1(i) ELSE PassesOn(parallel)]
           E == [i \in 0 .. 2 * l - 1 |-> IF i < l THEN Level1(i + 1) ELSE w]
<1>1. Complementary(n, ins, series, parallel, from, to) = made
  BY ComplementaryIs
<1>2. l \in Nat /\ first \in Nat /\ DOMAIN ins = 1 .. l
  BY DEF Joins, NumTransistors
<1>3. types \in Seq({"n", "p"}) /\ Len(types) = 2 * l
      /\ \A i \in 0 .. 2 * l - 1 : types[i + 1] = IF i < l THEN series ELSE parallel
  BY <1>2 DEF TypesOf
<1>4. made.out = Chain(l)
  BY <1>3, BuiltIs
<1>5. /\ PassesOn(series) \in Levels /\ PassesOn(parallel) \in Levels
      /\ OpensAt(series) \in Levels /\ OpensAt(parallel) \in Levels
      /\ PassesOn(parallel) # PassesOn(series) /\ PassesOn(series) = OpensAt(parallel)
  BY DEF PassesOn, OpensAt, Levels
<1>6. /\ \A i \in 1 .. l : ins[i] \in Int /\ f[ins[i]] \in Label /\ ins[i] \in Pins(n) \cup S
      /\ \A j : Level1(j) \in Label
  <2>1. \A i \in 1 .. l : ins[i] \in Pins(n) \cup S
    BY <1>2
  <2>2. Pins(n) \cup S \in SUBSET Int
    BY DEF Pins, Negative
  <2> HIDE DEF l
  <2> QED  BY <1>5, <2>1, <2>2 DEF Labelling, Label
<1>7. \A m \in Pins(n) \cup S : m \in Int /\ m \notin Pins(made.net) \ Pins(n)
  BY DEF Pins, Negative
<1> HIDE DEF made
<1>8. /\ G \in [0 .. 2 * l - 1 -> Label] /\ B \in [0 .. 2 * l - 1 -> Label]
      /\ E \in [0 .. 2 * l - 1 -> Label]
  <2> HIDE DEF l, Level1
  <2>1. \A i \in 0 .. 2 * l - 1 : i < l => i + 1 \in 1 .. l
    BY <1>2
  <2>2. \A i \in 0 .. 2 * l - 1 : ~ (i < l) => i - l + 1 \in 1 .. l
    BY <1>2
  <2> QED  BY <1>5, <1>6, <2>1, <2>2 DEF Label
<1>9. ASSUME NEW i \in 0 .. 2 * l - 1,
             G[i] = OpensAt(types[i + 1]), B[i] = PassesOn(types[i + 1])
      PROVE  E[i] = PassesOn(types[i + 1])
  <2> HIDE DEF l, types
  <2>1. CASE i < l
    <3>1. types[i + 1] = series /\ i + 1 \in 1 .. l /\ i # l
      BY <1>2, <1>3, <2>1
    <3>2. f[ins[i + 1]] = OpensAt(series) /\ Level1(i) = PassesOn(series)
      BY <1>9, <2>1, <3>1
    <3>3. \A q \in 1 .. i : f[ins[q]] = OpensAt(series)
      BY <1>5, <3>1, <3>2 DEF Levels
    <3>4. \A q \in 1 .. i + 1 : f[ins[q]] = OpensAt(series)
      <4>1. \A q \in 1 .. i + 1 : q \in 1 .. i \/ q = i + 1
        OBVIOUS
      <4> QED  BY <3>2, <3>3, <4>1
    <3>5. i + 1 = l => w = PassesOn(series)
      BY <3>4 DEF l
    <3>6. Level1(i + 1) = PassesOn(series)
      BY <3>4, <3>5
    <3> HIDE DEF Level1
    <3> QED  BY <2>1, <3>1, <3>6
  <2>2. CASE ~ (i < l)
    <3>1. types[i + 1] = parallel /\ i - l + 1 \in 1 .. l
      BY <1>2, <1>3, <2>2
    <3>2. f[ins[i - l + 1]] = OpensAt(parallel)
      BY <1>9, <2>2, <3>1
    <3>3. w = PassesOn(parallel)
      BY <3>1, <3>2 DEF l
    <3> QED  BY <2>2, <3>1, <3>3
  <2> QED  BY <2>1, <2>2
<1> HIDE DEF l, types, pairs, Chain, Across, first
<1> HIDE DEF G, B, E
<1>16. Conducting(types, 2 * l, G, B, E)
  BY <1>9 DEF Conducting
<1>17. PICK h : /\ Extends(n, made, f, h)
                /\ Pinned(first, 2 * l, G, B, E, h)
                /\ Joined(pairs, h) => Closed(made.net, LevelsOf(h))
  <2>1. types \in Seq({"n", "p"}) /\ 2 * l \in Nat /\ 2 * l = Len(types)
    BY <1>2, <1>3
  <2> QED  BY <1>8, <1>16, <2>1, BuiltLabelled DEF made, first
<1>10. /\ Extends(n, made, f, h)
       /\ \A i \in 0 .. 2 * l - 1 : /\ h[Gate(first + i)] = G[i]
                                   /\ h[Source(first + i)] = B[i]
                                   /\ h[Drain(first + i)] = E[i]
  BY <1>17 DEF Pinned
<1>11. \A m \in Pins(n) \cup S : h[m] = f[m]
  BY <1>7, <1>10 DEF Extends
<1>12. ASSUME NEW i \in 0 .. l  PROVE h[Chain(i)] = Level1(i) /\ Chain(i) \in Int
  <2>1. CASE i = 0
    <3>1. Chain(i) = from /\ from \in Int /\ from \in Pins(n) \cup S
      BY <2>1 DEF Chain, ChainOf, Negative
    <3>2. l = 0 => w = PassesOn(series)
      BY DEF l
    <3>3. Level1(0) = PassesOn(series)
      BY <1>2, <3>2
    <3> HIDE DEF Level1
    <3> QED  BY <1>11, <2>1, <3>1, <3>3
  <2>2. CASE i # 0
    <3>1. i - 1 \in 0 .. 2 * l - 1 /\ i - 1 < l /\ (i - 1) + 1 = i /\ first + (i - 1) = first + i - 1
      BY <1>2, <2>2
    <3>2. Chain(i) = Drain(first + i - 1) /\ Chain(i) \in Int
      BY <1>2, <2>2 DEF Chain, ChainOf, Drain, Pin
    <3>3. h[Drain(first + (i - 1))] = E[i - 1]
      BY <1>10, <3>1
    <3> HIDE DEF Level1
    <3>4. E[i - 1] = Level1(i)
      BY <3>1 DEF E
    <3> QED  BY <3>1, <3>2, <3>3, <3>4
  <2> QED  BY <2>1, <2>2
<1>13. ASSUME NEW i \in 1 .. l
       PROVE  /\ h[Source(first + i - 1)] = Level1(i - 1) /\ h[Gate(first + i - 1)] = f[ins[i]]
              /\ h[Gate(Across(i))] = f[ins[i]] /\ h[Source(Across(i))] = PassesOn(parallel)
              /\ h[Drain(Across(i))] = w
              /\ Source(first + i - 1) \in Int /\ Gate(first + i - 1) \in Int
              /\ Gate(Across(i)) \in Int /\ Source(Across(i)) \in Int /\ Drain(Across(i)) \in Int
  <2>1. i - 1 \in 0 .. 2 * l - 1 /\ i - 1 < l /\ (i - 1) + 1 = i /\ first + (i - 1) = first + i - 1
    BY <1>2
  <2>2. /\ l + i - 1 \in 0 .. 2 * l - 1 /\ ~ (l + i - 1 < l) /\ (l + i - 1) - l + 1 = i
        /\ first + (l + i - 1) = Across(i) /\ Across(i) \in Int
    BY <1>2 DEF Across, AcrossOf
  <2> HIDE DEF Level1
  <2>3. B[i - 1] = Level1(i - 1) /\ G[i - 1] = f[ins[i]]
    BY <2>1 DEF B, G
  <2>4. B[l + i - 1] = PassesOn(parallel) /\ G[l + i - 1] = f[ins[i]] /\ E[l + i - 1] = w
    BY <2>2 DEF B, G, E
  <2>5. /\ Source(first + i - 1) \in Int /\ Gate(first + i - 1) \in Int
        /\ Gate(Across(i)) \in Int /\ Source(Across(i)) \in Int /\ Drain(Across(i)) \in Int
    BY <1>2, <2>2 DEF Gate, Source, Drain, Pin
  <2>6. h[Source(first + i - 1)] = B[i - 1] /\ h[Gate(first + i - 1)] = G[i - 1]
    BY <1>10, <2>1
  <2>7. /\ h[Gate(Across(i))] = G[l + i - 1] /\ h[Source(Across(i))] = B[l + i - 1]
        /\ h[Drain(Across(i))] = E[l + i - 1]
    BY <1>10, <2>2
  <2> QED  BY <2>3, <2>4, <2>5, <2>6, <2>7
<1> HIDE DEF Level1
<1>14. ASSUME NEW p \in pairs
       PROVE  p[1] \in Int /\ p[2] \in Int /\ h[p[1]] = h[p[2]]
  <2>1. PICK i \in 1 .. l : p \in PairsOf(first, l, ins, from, to, i)
    BY <1>14 DEF pairs
  <2>2. p \in {<<Chain(i - 1), Source(first + i - 1)>>, <<ins[i], Gate(first + i - 1)>>,
                <<ins[i], Gate(Across(i))>>, <<to, Source(Across(i))>>,
                <<Chain(l), Drain(Across(i))>>}
    BY <2>1 DEF PairsOf, Chain, Across
  <2>3. i - 1 \in 0 .. l /\ l \in 0 .. l
    BY <1>2
  <2>4. h[Chain(i - 1)] = Level1(i - 1) /\ Chain(i - 1) \in Int
        /\ h[Chain(l)] = w /\ Chain(l) \in Int
    BY <1>12, <2>3 DEF Level1
  <2>5. h[ins[i]] = f[ins[i]] /\ ins[i] \in Int
    BY <1>6, <1>11
  <2>6. h[to] = PassesOn(parallel) /\ to \in Int
    BY <1>11 DEF Negative
  <2>7. CASE p = <<Chain(i - 1), Source(first + i - 1)>>
    BY <1>13, <2>4, <2>7
  <2>8. CASE p = <<ins[i], Gate(first + i - 1)>>
    BY <1>13, <2>5, <2>8
  <2>9. CASE p = <<ins[i], Gate(Across(i))>>
    BY <1>13, <2>5, <2>9
  <2>10. CASE p = <<to, Source(Across(i))>>
    BY <1>13, <2>6, <2>10
  <2>11. CASE p = <<Chain(l), Drain(Across(i))>>
    BY <1>13, <2>4, <2>11
  <2> QED  BY <2>2, <2>7, <2>8, <2>9, <2>10, <2>11
<1>15. h[made.out] = w
  <2>1. l \in 0 .. l
    BY <1>2
  <2> QED  BY <1>4, <1>12, <2>1 DEF Level1
<1> QED  BY <1>1, <1>14, <1>15, <1>17 DEF Labelled, Joined

LEMMA ExtendsKeeps ==
  ASSUME NEW n, NEW S, Negative(S), NEW made, NEW f, NEW h, Extends(n, made, f, h)
  PROVE  \A m \in Pins(n) \cup S : h[m] = f[m] /\ m \in Int
BY DEF Extends, Negative, Pins

LEMMA ExtendsMore ==
  ASSUME NEW n, NEW a, NEW b, NEW f, NEW g, NEW h, Extends(n, a, f, g), Extends(a.net, b, g, h),
         Pins(n) \in SUBSET Pins(a.net), Pins(a.net) \in SUBSET Pins(b.net)
  PROVE  Extends(n, b, f, h)
BY DEF Extends

\* A transmission gate passes the level of x where either of its transistors is open.
LEMMA TgForced ==
  ASSUME NEW n, NEW S, Joins(n, S), NEW sel, NEW notSel, NEW x,
         NEW D, Closed(MakeTg(n, sel, notSel, x).net, D)
  PROVE  LET out == MakeTg(n, sel, notSel, x).out
         IN  /\ Closed(n, D)
             /\ <<sel, "high">> \in D /\ <<x, "low">> \in D => <<out, "low">> \in D
             /\ <<notSel, "low">> \in D /\ <<x, "high">> \in D => <<out, "high">> \in D
<1> DEFINE p == NumTransistors(n)
           q == p + 1
           pairs == {<<Gate(q), sel>>, <<Gate(p), notSel>>, <<Source(q), Source(p)>>,
                     <<Drain(q), Drain(p)>>, <<Source(q), x>>}
           types == <<"p", "n">>
           made == MakeTg(n, sel, notSel, x)
<1>1. made = Built(n, types, pairs, Drain(q))
  BY DEF MakeTg
<1>2. p \in Nat
  BY DEF Joins, NumTransistors
<1>3. types \in Seq({"n", "p"}) /\ Len(types) = 2 /\ types[1] = "p" /\ types[2] = "n"
  OBVIOUS
<1>4. made.out = Drain(q)
  BY <1>1 DEF Built
<1>5. /\ <<Gate(q), sel>> \in pairs /\ <<Gate(p), notSel>> \in pairs
      /\ <<Source(q), Source(p)>> \in pairs /\ <<Drain(q), Drain(p)>> \in pairs
      /\ <<Source(q), x>> \in pairs
  OBVIOUS
<1> HIDE DEF pairs, types, made
<1>6. /\ Closed(n, D)
      /\ \A y \in pairs : SameIn(D, y[1], y[2])
      /\ \A i \in 1 .. Len(types) : Conducted(D, types[i], p + i - 1)
  BY <1>1, <1>3, BuiltClosed DEF made
<1>7. Conducted(D, "p", p) /\ Conducted(D, "n", q)
  <2>1. 1 \in 1 .. Len(types) /\ 2 \in 1 .. Len(types) /\ p + 1 - 1 = p /\ p + 2 - 1 = q
    BY <1>2, <1>3
  <2>2. Conducted(D, types[1], p + 1 - 1) /\ Conducted(D, types[2], p + 2 - 1)
    BY <1>6, <2>1
  <2> QED  BY <1>3, <2>1, <2>2
<1> HIDE DEF q, p
<1>8. \A a, b : <<a, b>> \in pairs => SameIn(D, a, b)
  <2> SUFFICES ASSUME NEW a, NEW b, <<a, b>> \in pairs  PROVE SameIn(D, a, b)
    OBVIOUS
  <2>1. SameIn(D, <<a, b>>[1], <<a, b>>[2])
    BY <1>6
  <2> QED  BY <2>1
<1>9. /\ SameIn(D, Gate(q), sel) /\ SameIn(D, Gate(p), notSel) /\ SameIn(D, Source(q), Source(p))
      /\ SameIn(D, Drain(q), Drain(p)) /\ SameIn(D, Source(q), x)
  BY <1>5, <1>8
<1> QED  BY <1>4, <1>6, <1>7, <1>9 DEF SameIn, Conducted, OpensAt, PassesOn, Levels, made

LEMMA TgLabelled ==
  ASSUME NEW n, NEW S, Joins(n, S), Negative(S),
         NEW sel \in Pins(n) \cup S, NEW notSel \in Pins(n) \cup S, NEW x \in Pins(n) \cup S,
         NEW f \in Labelling, Closed(n, LevelsOf(f)), NEW w \in Label,
         f[sel] = "high" /\ f[x] = "low" => w = "low",
         f[notSel] = "low" /\ f[x] = "high" => w = "high"
  PROVE  Labelled(n, MakeTg(n, sel, notSel, x), f, w)
<1> DEFINE p == NumTransistors(n)
           q == p + 1
           pairs == {<<Gate(q), sel>>, <<Gate(p), notSel>>, <<Source(q), Source(p)>>,
                     <<Drain(q), Drain(p)>>, <<Source(q), x>>}
           types == <<"p", "n">>
           made == MakeTg(n, sel, notSel, x)
           G == [i \in 0 .. 2 - 1 |-> IF i = 0 THEN f[notSel] ELSE f[sel]]
           B == [i \in 0 .. 2 - 1 |-> f[x]]
           E == [i \in 0 .. 2 - 1 |-> w]
<1>1. made = Built(n, types, pairs, Drain(q))
  BY DEF MakeTg
<1>2. p \in Nat
  BY DEF Joins, NumTransistors
<1>3. types \in Seq({"n", "p"}) /\ 2 = Len(types) /\ types[1] = "p" /\ types[2] = "n"
  OBVIOUS
<1>4. made.out = Drain(q)
  BY <1>1 DEF Built
<1>5. /\ f[sel] \in Label /\ f[notSel] \in Label /\ f[x] \in Label
      /\ sel \in Int /\ notSel \in Int /\ x \in Int
  BY DEF Labelling, Pins, Negative
<1>6. G \in [0 .. 2 - 1 -> Label] /\ B \in [0 .. 2 - 1 -> Label] /\ E \in [0 .. 2 - 1 -> Label]
  BY <1>5
<1>7. 0 \in 0 .. 2 - 1 /\ 1 \in 0 .. 2 - 1 /\ 1 # 0
  OBVIOUS
<1>8. G[0] = f[notSel] /\ G[1] = f[sel] /\ B[0] = f[x] /\ B[1] = f[x] /\ E[0] = w /\ E[1] = w
  BY <1>7
<1> HIDE DEF G, B, E, types
<1>9. Conducting(types, 2, G, B, E)
  <2> SUFFICES ASSUME NEW i \in 0 .. 2 - 1, G[i] = OpensAt(types[i + 1]),
                      B[i] = PassesOn(types[i + 1])
               PROVE  E[i] = PassesOn(types[i + 1])
    BY DEF Conducting
  <2>1. i = 0 \/ i = 1
    OBVIOUS
  <2>2. CASE i = 0
    BY <1>3, <1>8, <2>2 DEF OpensAt, PassesOn
  <2>3. CASE i = 1
    BY <1>3, <1>8, <2>3 DEF OpensAt, PassesOn
  <2> QED  BY <2>1, <2>2, <2>3
<1> HIDE DEF pairs, made
<1>10. PICK h : /\ Extends(n, made, f, h)
                /\ Pinned(p, 2, G, B, E, h)
                /\ Joined(pairs, h) => Closed(made.net, LevelsOf(h))
  <2>1. 2 \in Nat
    OBVIOUS
  <2> QED  BY <1>1, <1>3, <1>6, <1>9, <2>1, BuiltLabelled DEF made
<1>11. /\ h[Gate(p)] = f[notSel] /\ h[Gate(q)] = f[sel] /\ h[Source(p)] = f[x]
       /\ h[Source(q)] = f[x] /\ h[Drain(p)] = w /\ h[Drain(q)] = w
  <2>1. p + 0 = p
    BY <1>2
  <2>2. /\ h[Gate(p + 0)] = G[0] /\ h[Source(p + 0)] = B[0] /\ h[Drain(p + 0)] = E[0]
        /\ h[Gate(p + 1)] = G[1] /\ h[Source(p + 1)] = B[1] /\ h[Drain(p + 1)] = E[1]
    BY <1>7, <1>10 DEF Pinned
  <2> QED  BY <1>8, <2>1, <2>2
<1>12. h[sel] = f[sel] /\ h[notSel] = f[notSel] /\ h[x] = f[x]
  BY <1>10, ExtendsKeeps
<1>13. /\ Gate(p) \in Int /\ Gate(q) \in Int /\ Source(p) \in Int /\ Source(q) \in Int
       /\ Drain(p) \in Int /\ Drain(q) \in Int
  BY <1>2 DEF Gate, Source, Drain, Pin
<1> HIDE DEF p, q
<1>14. Joined(pairs, h)
  BY <1>5, <1>11, <1>12, <1>13 DEF Joined, pairs
<1> QED  BY <1>4, <1>10, <1>11, <1>14 DEF Labelled, made

\* A mux: two transmission gates with one result.
LEMMA MuxForced ==
  ASSUME NEW n, NEW S, Joins(n, S),
         NEW sel \in Pins(n) \cup S, NEW notSel \in Pins(n) \cup S,
         NEW a \in Pins(n) \cup S, NEW b \in Pins(n) \cup S,
         NEW D, Closed(MakeMux(n, sel, notSel, a, b).net, D)
  PROVE  LET out == MakeMux(n, sel, notSel, a, b).out
         IN  /\ Closed(n, D)
             /\ <<sel, "high">> \in D /\ <<a, "low">> \in D => <<out, "low">> \in D
             /\ <<notSel, "low">> \in D /\ <<a, "high">> \in D => <<out, "high">> \in D
             /\ <<notSel, "high">> \in D /\ <<b, "low">> \in D => <<out, "low">> \in D
             /\ <<sel, "low">> \in D /\ <<b, "high">> \in D => <<out, "high">> \in D
<1> DEFINE x == MakeTg(n, sel, notSel, a)
           y == MakeTg(x.net, notSel, sel, b)
           pairs == {<<x.out, y.out>>}
           types == << >>
           made == MakeMux(n, sel, notSel, a, b)
<1>1. made = Built(y.net, types, pairs, x.out)
  BY DEF MakeMux
<1>2. Adds(n, S, x)
  BY TgAdds
<1>3. \A z : z \in Pins(n) \cup S => z \in Pins(x.net) \cup S
  BY <1>2 DEF Adds
<1>4. Joins(x.net, S)
  BY <1>2 DEF Adds
<1> HIDE DEF x
<1>5. Joins(y.net, S)
  <2>1. Adds(x.net, S, y)
    BY <1>3, <1>4, TgAdds
  <2> QED  BY <2>1 DEF Adds
<1>6. types \in Seq({"n", "p"})
  OBVIOUS
<1>7. made.out = x.out
  BY <1>1 DEF Built
<1> HIDE DEF y, made, pairs, types
<1>8. Closed(y.net, D) /\ \A z \in pairs : SameIn(D, z[1], z[2])
  BY <1>1, <1>5, <1>6, BuiltClosed DEF made
<1>9. SameIn(D, x.out, y.out)
  <2>1. SameIn(D, <<x.out, y.out>>[1], <<x.out, y.out>>[2])
    BY <1>8 DEF pairs
  <2> QED  BY <2>1
<1>10. /\ Closed(x.net, D)
       /\ <<notSel, "high">> \in D /\ <<b, "low">> \in D => <<y.out, "low">> \in D
       /\ <<sel, "low">> \in D /\ <<b, "high">> \in D => <<y.out, "high">> \in D
  BY <1>4, <1>8, TgForced DEF y
<1>11. /\ Closed(n, D)
       /\ <<sel, "high">> \in D /\ <<a, "low">> \in D => <<x.out, "low">> \in D
       /\ <<notSel, "low">> \in D /\ <<a, "high">> \in D => <<x.out, "high">> \in D
  BY <1>10, TgForced DEF x
<1> QED  BY <1>7, <1>9, <1>10, <1>11 DEF SameIn, Levels, made

LEMMA MuxLabelled ==
  ASSUME NEW n, NEW S, Joins(n, S), Negative(S),
         NEW sel \in Pins(n) \cup S, NEW notSel \in Pins(n) \cup S,
         NEW a \in Pins(n) \cup S, NEW b \in Pins(n) \cup S,
         NEW f \in Labelling, Closed(n, LevelsOf(f)), NEW w \in Label,
         f[sel] = "high" /\ f[a] = "low" => w = "low",
         f[notSel] = "low" /\ f[a] = "high" => w = "high",
         f[notSel] = "high" /\ f[b] = "low" => w = "low",
         f[sel] = "low" /\ f[b] = "high" => w = "high"
  PROVE  Labelled(n, MakeMux(n, sel, notSel, a, b), f, w)
<1> DEFINE x == MakeTg(n, sel, notSel, a)
           y == MakeTg(x.net, notSel, sel, b)
           pairs == {<<x.out, y.out>>}
           added == << >>
           made == MakeMux(n, sel, notSel, a, b)
<1>1. made = Built(y.net, added, pairs, x.out)
  BY DEF MakeMux
<1>2. Adds(n, S, x) /\ x.out \in Pins(x.net) /\ Labelled(n, x, f, w)
  BY TgAdds, TgLabelled
<1>3. \A z : z \in Pins(n) \cup S => z \in Pins(x.net) \cup S
  BY <1>2 DEF Adds
<1>4. Joins(x.net, S)
  BY <1>2 DEF Adds
<1> HIDE DEF x
<1>5. PICK g : Extends(n, x, f, g) /\ Closed(x.net, LevelsOf(g)) /\ g[x.out] = w
  BY <1>2 DEF Labelled
<1>6. g \in Labelling /\ \A z \in Pins(n) \cup S : g[z] = f[z]
  BY <1>5, ExtendsKeeps DEF Extends
<1>7. Adds(x.net, S, y) /\ y.out \in Pins(y.net) /\ Labelled(x.net, y, g, w)
  <2>1. /\ g[sel] = f[sel] /\ g[notSel] = f[notSel] /\ g[b] = f[b]
        /\ sel \in Pins(x.net) \cup S /\ notSel \in Pins(x.net) \cup S /\ b \in Pins(x.net) \cup S
    BY <1>3, <1>6
  <2> QED  BY <1>4, <1>5, <1>6, <2>1, TgAdds, TgLabelled
<1> HIDE DEF y
<1>8. PICK h : Extends(x.net, y, g, h) /\ Closed(y.net, LevelsOf(h)) /\ h[y.out] = w
  BY <1>7 DEF Labelled
<1>9. h[x.out] = w /\ x.out \in Int /\ y.out \in Int
  <2>1. \A z \in Pins(x.net) \cup S : h[z] = g[z] /\ z \in Int
    BY <1>8, ExtendsKeeps
  <2> QED  BY <1>2, <1>5, <1>7, <2>1 DEF Pins
<1>10. Joins(y.net, S) /\ added \in Seq({"n", "p"}) /\ Len(added) = 0
  BY <1>7 DEF Adds
<1> HIDE DEF made, added, pairs
<1>11. made.out = x.out /\ Len(made.net.types) = Len(y.net.types)
  <2>0. Joins(y.net, S) /\ added \in Seq({"n", "p"})
    BY <1>10
  <2>4. \A q, z : Built(y.net, added, q, z).net.types = y.net.types \o added
    BY <2>0, BuiltTypes
  <2>1. made.net.types = y.net.types \o added
    BY <1>1, <2>4
  <2>3. made.out = x.out
    BY <1>1 DEF Built
  <2>2. Len(y.net.types \o added) = Len(y.net.types)
    BY <1>10 DEF Joins
  <2> QED  BY <2>1, <2>2, <2>3
<1>12. Closed(made.net, LevelsOf(h))
  <2>1. SameIn(LevelsOf(h), x.out, y.out)
    BY <1>8, <1>9, LevelsOfSame
  <2>2. \A z \in pairs : SameIn(LevelsOf(h), z[1], z[2])
    BY <2>1 DEF pairs
  <2>3. \A i \in 1 .. Len(added) : Conducted(LevelsOf(h), added[i], NumTransistors(y.net) + i - 1)
    BY <1>10
  <2> QED  BY <1>1, <1>8, <1>10, <2>2, <2>3, BuiltClosed
<1>13. Extends(n, y, f, h)
  BY <1>2, <1>5, <1>7, <1>8, ExtendsMore DEF Adds
<1>14. Extends(n, made, f, h)
  BY <1>11, <1>13 DEF Extends, Pins, NumTransistors
<1> QED  BY <1>9, <1>11, <1>12, <1>14 DEF Labelled, made

Powered(D) == <<Vdd, "high">> \in D /\ <<Vss, "low">> \in D
PoweredBy(f) == f[Vdd] = "high" /\ f[Vss] = "low"

\* A tri-state buffer: its NAND opens the one transistor, its NOR the other.
LEMMA TriStateForced ==
  ASSUME NEW n, NEW S, Joins(n, S), Rails \in SUBSET S,
         NEW enable \in Pins(n) \cup S, NEW notEnable \in Pins(n) \cup S,
         NEW data \in Pins(n) \cup S,
         NEW D, Closed(MakeTriStateBuffer(n, enable, notEnable, data).net, D), Powered(D)
  PROVE  LET out == MakeTriStateBuffer(n, enable, notEnable, data).out
         IN  /\ Closed(n, D)
             /\ <<enable, "high">> \in D /\ <<data, "high">> \in D => <<out, "high">> \in D
             /\ <<notEnable, "low">> \in D /\ <<data, "low">> \in D => <<out, "low">> \in D
<1> DEFINE nand == MakeNand(n, <<data, enable>>)
           nor == MakeNor(nand.net, <<data, notEnable>>)
           p == NumTransistors(nor.net)
           q == p + 1
           pairs == {<<Source(p), Vdd>>, <<Source(q), Vss>>, <<Drain(p), Drain(q)>>,
                     <<nand.out, Gate(p)>>, <<nor.out, Gate(q)>>}
           types == <<"p", "n">>
           made == MakeTriStateBuffer(n, enable, notEnable, data)
<1>1. made = Built(nor.net, types, pairs, Drain(q))
  BY DEF MakeTriStateBuffer
<1>2. Vdd \in Rails /\ Vss \in Rails
  BY DEF Rails
<1>3. <<data, enable>> \in Seq(Pins(n) \cup S) /\ Adds(n, S, nand)
  <2>1. <<data, enable>> \in Seq(Pins(n) \cup S)
    OBVIOUS
  <2> QED  BY <1>2, <2>1, ComplementaryAdds DEF MakeNand
<1> HIDE DEF nand
<1>4. Joins(nand.net, S) /\ <<data, notEnable>> \in Seq(Pins(nand.net) \cup S)
      /\ Adds(nand.net, S, nor)
  <2>1. <<data, notEnable>> \in Seq(Pins(nand.net) \cup S)
    <3>1. data \in Pins(nand.net) \cup S /\ notEnable \in Pins(nand.net) \cup S
      BY <1>3 DEF Adds
    <3> QED  BY <3>1
  <2>2. Joins(nand.net, S)
    BY <1>3 DEF Adds
  <2> QED  BY <1>2, <2>1, <2>2, ComplementaryAdds DEF MakeNor
<1> HIDE DEF nor
<1>5. Joins(nor.net, S) /\ p \in Nat
  BY <1>4 DEF Adds, Joins, NumTransistors
<1>6. types \in Seq({"n", "p"}) /\ Len(types) = 2 /\ types[1] = "p" /\ types[2] = "n"
  OBVIOUS
<1>7. made.out = Drain(q)
  BY <1>1 DEF Built
<1>8. /\ <<Source(p), Vdd>> \in pairs /\ <<Source(q), Vss>> \in pairs
      /\ <<Drain(p), Drain(q)>> \in pairs
      /\ <<nand.out, Gate(p)>> \in pairs /\ <<nor.out, Gate(q)>> \in pairs
  OBVIOUS
<1> HIDE DEF pairs, types, made
<1>9. /\ Closed(nor.net, D)
      /\ \A y \in pairs : SameIn(D, y[1], y[2])
      /\ \A i \in 1 .. Len(types) : Conducted(D, types[i], p + i - 1)
  BY <1>1, <1>5, <1>6, BuiltClosed DEF made
<1>10. Conducted(D, "p", p) /\ Conducted(D, "n", q)
  <2>1. 1 \in 1 .. Len(types) /\ 2 \in 1 .. Len(types) /\ p + 1 - 1 = p /\ p + 2 - 1 = q
    BY <1>5, <1>6
  <2>2. Conducted(D, types[1], p + 1 - 1) /\ Conducted(D, types[2], p + 2 - 1)
    BY <1>9, <2>1
  <2> QED  BY <1>6, <2>1, <2>2
<1> HIDE DEF q, p
<1>11. /\ SameIn(D, Source(p), Vdd) /\ SameIn(D, Source(q), Vss) /\ SameIn(D, Drain(p), Drain(q))
       /\ SameIn(D, nand.out, Gate(p)) /\ SameIn(D, nor.out, Gate(q))
  <2>1. \A a, b : <<a, b>> \in pairs => SameIn(D, a, b)
    <3> SUFFICES ASSUME NEW a, NEW b, <<a, b>> \in pairs  PROVE SameIn(D, a, b)
      OBVIOUS
    <3>1. SameIn(D, <<a, b>>[1], <<a, b>>[2])
      BY <1>9
    <3> QED  BY <3>1
  <2> QED  BY <1>8, <2>1
<1>12. /\ <<Vss, PassesOn("n")>> \in D /\ <<Vdd, PassesOn("p")>> \in D
       /\ OpensAt("n") = "high" /\ OpensAt("p") = "low"
       /\ PassesOn("n") = "low" /\ PassesOn("p") = "high"
  BY DEF Powered, PassesOn, OpensAt
<1>13. /\ Closed(nand.net, D)
       /\ <<data, "low">> \in D /\ <<notEnable, "low">> \in D => <<nor.out, "high">> \in D
  <2> DEFINE ins == <<data, notEnable>>
  <2>1. ins \in Seq(Pins(nand.net) \cup S) /\ Len(ins) = 2 /\ ins[1] = data /\ ins[2] = notEnable
    BY <1>4
  <2> HIDE DEF ins
  <2>2. nor = Complementary(nand.net, ins, "p", "n", Vdd, Vss)
    BY DEF nor, MakeNor, ins
  <2>3. "n" \in {"n", "p"} /\ "p" \in {"n", "p"}
    OBVIOUS
  <2>4. Closed(Complementary(nand.net, ins, "p", "n", Vdd, Vss).net, D)
    BY <1>9, <2>2
  <2>5. /\ Closed(nand.net, D)
        /\ (\A i \in 1 .. Len(ins) : <<ins[i], OpensAt("p")>> \in D) =>
             <<nor.out, PassesOn("p")>> \in D
    BY <1>4, <1>12, <2>1, <2>2, <2>3, <2>4, ComplementaryForced
  <2>6. \A i \in 1 .. Len(ins) : i = 1 \/ i = 2
    BY <2>1
  <2> QED  BY <1>12, <2>1, <2>5, <2>6
<1>14. /\ Closed(n, D)
       /\ <<data, "high">> \in D /\ <<enable, "high">> \in D => <<nand.out, "low">> \in D
  <2> DEFINE ins == <<data, enable>>
  <2>1. ins \in Seq(Pins(n) \cup S) /\ Len(ins) = 2 /\ ins[1] = data /\ ins[2] = enable
    BY <1>3
  <2> HIDE DEF ins
  <2>2. nand = Complementary(n, ins, "n", "p", Vss, Vdd)
    BY DEF nand, MakeNand, ins
  <2>3. "n" \in {"n", "p"} /\ "p" \in {"n", "p"}
    OBVIOUS
  <2>4. Closed(Complementary(n, ins, "n", "p", Vss, Vdd).net, D)
    BY <1>13, <2>2
  <2>5. /\ Closed(n, D)
        /\ (\A i \in 1 .. Len(ins) : <<ins[i], OpensAt("n")>> \in D) =>
             <<nand.out, PassesOn("n")>> \in D
    BY <1>12, <2>1, <2>2, <2>3, <2>4, ComplementaryForced
  <2>6. \A i \in 1 .. Len(ins) : i = 1 \/ i = 2
    BY <2>1
  <2> QED  BY <1>12, <2>1, <2>5, <2>6
<1> QED
  BY <1>7, <1>10, <1>11, <1>12, <1>13, <1>14 DEF SameIn, Conducted, Levels, made, Powered

LEMMA TriStateLabelled ==
  ASSUME NEW n, NEW S, Joins(n, S), Negative(S), Rails \in SUBSET S,
         NEW enable \in Pins(n) \cup S, NEW notEnable \in Pins(n) \cup S,
         NEW data \in Pins(n) \cup S,
         NEW f \in Labelling, Closed(n, LevelsOf(f)), PoweredBy(f), NEW w \in Label,
         f[enable] = "high" /\ f[data] = "high" => w = "high",
         f[notEnable] = "low" /\ f[data] = "low" => w = "low"
  PROVE  Labelled(n, MakeTriStateBuffer(n, enable, notEnable, data), f, w)
<1> DEFINE nand == MakeNand(n, <<data, enable>>)
           nor == MakeNor(nand.net, <<data, notEnable>>)
           p == NumTransistors(nor.net)
           q == p + 1
           pairs == {<<Source(p), Vdd>>, <<Source(q), Vss>>, <<Drain(p), Drain(q)>>,
                     <<nand.out, Gate(p)>>, <<nor.out, Gate(q)>>}
           types == <<"p", "n">>
           made == MakeTriStateBuffer(n, enable, notEnable, data)
           \* What the NAND of these levels gives, and the NOR.
           NandLabel(a, b) == IF a = "high" /\ b = "high" THEN "low"
                              ELSE IF a = "low" \/ b = "low" THEN "high" ELSE "undefined"
           NorLabel(a, b) == IF a = "low" /\ b = "low" THEN "high"
                             ELSE IF a = "high" \/ b = "high" THEN "low" ELSE "undefined"
           u == NandLabel(f[data], f[enable])
           v == NorLabel(f[data], f[notEnable])
<1>1. made = Built(nor.net, types, pairs, Drain(q))
  BY DEF MakeTriStateBuffer
<1>2. Vdd \in Rails /\ Vss \in Rails
  BY DEF Rails
<1>3. <<data, enable>> \in Seq(Pins(n) \cup S) /\ Adds(n, S, nand)
  <2>1. <<data, enable>> \in Seq(Pins(n) \cup S)
    OBVIOUS
  <2> QED  BY <1>2, <2>1, ComplementaryAdds DEF MakeNand
<1> HIDE DEF nand
<1>4. Joins(nand.net, S) /\ <<data, notEnable>> \in Seq(Pins(nand.net) \cup S)
      /\ Adds(nand.net, S, nor)
  <2>1. <<data, notEnable>> \in Seq(Pins(nand.net) \cup S)
    <3>1. data \in Pins(nand.net) \cup S /\ notEnable \in Pins(nand.net) \cup S
      BY <1>3 DEF Adds
    <3> QED  BY <3>1
  <2>2. Joins(nand.net, S)
    BY <1>3 DEF Adds
  <2> QED  BY <1>2, <2>1, <2>2, ComplementaryAdds DEF MakeNor
<1> HIDE DEF nor
<1>5. Joins(nor.net, S) /\ p \in Nat
  BY <1>4 DEF Adds, Joins, NumTransistors
<1>6. types \in Seq({"n", "p"}) /\ 2 = Len(types) /\ types[1] = "p" /\ types[2] = "n"
  OBVIOUS
<1>7. made.out = Drain(q)
  BY <1>1 DEF Built
<1>8. u \in Label /\ v \in Label
  BY DEF Label, Levels
<1>9. /\ f[data] = "high" /\ f[enable] = "high" => u = "low"
      /\ f[data] = "low" \/ f[enable] = "low" => u = "high"
      /\ f[data] = "low" /\ f[notEnable] = "low" => v = "high"
      /\ f[data] = "high" \/ f[notEnable] = "high" => v = "low"
      /\ u = "low" => f[data] = "high" /\ f[enable] = "high"
      /\ v = "high" => f[data] = "low" /\ f[notEnable] = "low"
  OBVIOUS
<1> HIDE DEF u, v, made, pairs, types
<1>12. /\ OpensAt("n") = "high" /\ OpensAt("p") = "low"
       /\ PassesOn("n") = "low" /\ PassesOn("p") = "high"
       /\ "n" \in {"n", "p"} /\ "p" \in {"n", "p"} /\ "n" # "p"
  BY DEF PassesOn, OpensAt
<1>13. PICK g : Extends(n, nand, f, g) /\ Closed(nand.net, LevelsOf(g)) /\ g[nand.out] = u
  <2> DEFINE ins == <<data, enable>>
  <2>1. ins \in Seq(Pins(n) \cup S) /\ Len(ins) = 2 /\ ins[1] = data /\ ins[2] = enable
    BY <1>3
  <2> HIDE DEF ins
  <2>2. nand = Complementary(n, ins, "n", "p", Vss, Vdd)
    BY DEF nand, MakeNand, ins
  <2>3. \A i \in 1 .. Len(ins) : i = 1 \/ i = 2
    BY <2>1
  <2>4. 1 \in 1 .. Len(ins) /\ 2 \in 1 .. Len(ins)
    BY <2>1
  <2>5. (\A i \in 1 .. Len(ins) : f[ins[i]] = OpensAt("n")) => u = PassesOn("n")
    BY <1>9, <1>12, <2>1, <2>4
  <2>6. (\E i \in 1 .. Len(ins) : f[ins[i]] = OpensAt("p")) => u = PassesOn("p")
    BY <1>9, <1>12, <2>1, <2>3
  <2>7. f[Vss] = PassesOn("n") /\ f[Vdd] = PassesOn("p")
    BY <1>12 DEF PoweredBy
  <2>8. Labelled(n, Complementary(n, ins, "n", "p", Vss, Vdd), f, u)
    BY <1>2, <1>8, <1>12, <2>1, <2>5, <2>6, <2>7, ComplementaryLabelled
  <2> QED  BY <2>2, <2>8 DEF Labelled
<1>14. /\ g \in Labelling
       /\ \A z \in Pins(n) \cup S : g[z] = f[z] /\ z \in Int
       /\ g[data] = f[data] /\ g[notEnable] = f[notEnable] /\ g[Vdd] = "high" /\ g[Vss] = "low"
  <2>1. \A z \in Pins(n) \cup S : g[z] = f[z] /\ z \in Int
    BY <1>13, ExtendsKeeps
  <2>2. Vdd \in S /\ Vss \in S
    BY <1>2
  <2> QED  BY <1>13, <2>1, <2>2 DEF Extends, PoweredBy
<1>15. PICK h : Extends(nand.net, nor, g, h) /\ Closed(nor.net, LevelsOf(h)) /\ h[nor.out] = v
  <2> DEFINE ins == <<data, notEnable>>
  <2>1. ins \in Seq(Pins(nand.net) \cup S) /\ Len(ins) = 2 /\ ins[1] = data /\ ins[2] = notEnable
    BY <1>4
  <2> HIDE DEF ins
  <2>2. nor = Complementary(nand.net, ins, "p", "n", Vdd, Vss)
    BY DEF nor, MakeNor, ins
  <2>3. \A i \in 1 .. Len(ins) : i = 1 \/ i = 2
    BY <2>1
  <2>4. 1 \in 1 .. Len(ins) /\ 2 \in 1 .. Len(ins)
    BY <2>1
  <2>5. (\A i \in 1 .. Len(ins) : g[ins[i]] = OpensAt("p")) => v = PassesOn("p")
    BY <1>9, <1>12, <1>14, <2>1, <2>4
  <2>6. (\E i \in 1 .. Len(ins) : g[ins[i]] = OpensAt("n")) => v = PassesOn("n")
    BY <1>9, <1>12, <1>14, <2>1, <2>3
  <2>7. g[Vss] = PassesOn("n") /\ g[Vdd] = PassesOn("p")
    BY <1>12, <1>14
  <2>8. Labelled(nand.net, Complementary(nand.net, ins, "p", "n", Vdd, Vss), g, v)
    BY <1>2, <1>4, <1>8, <1>12, <1>13, <1>14, <2>1, <2>5, <2>6, <2>7, ComplementaryLabelled
  <2> QED  BY <2>2, <2>8 DEF Labelled
<1>16. /\ h \in Labelling /\ h[nand.out] = u /\ h[nor.out] = v
       /\ h[Vdd] = "high" /\ h[Vss] = "low"
       /\ nand.out \in Pins(nor.net) \cup S /\ nor.out \in Pins(nor.net) \cup S
       /\ Extends(n, nor, f, h)
  <2>1. \A z \in Pins(nand.net) \cup S : h[z] = g[z] /\ z \in Int
    BY <1>15, ExtendsKeeps
  <2>2. Vdd \in S /\ Vss \in S
    BY <1>2
  <2>3. nand.out \in Pins(nand.net) \cup S
    BY <1>3 DEF Adds
  <2>4. nand.out \in Pins(nor.net) \cup S /\ nor.out \in Pins(nor.net) \cup S
    BY <1>4, <2>3 DEF Adds
  <2>5. Extends(n, nor, f, h)
    BY <1>3, <1>4, <1>13, <1>15, ExtendsMore DEF Adds
  <2> QED  BY <1>13, <1>14, <1>15, <2>1, <2>2, <2>3, <2>4, <2>5 DEF Extends
<1> DEFINE G == [i \in 0 .. 2 - 1 |-> IF i = 0 THEN u ELSE v]
           B == [i \in 0 .. 2 - 1 |-> IF i = 0 THEN "high" ELSE "low"]
           E == [i \in 0 .. 2 - 1 |-> w]
<1>17. G \in [0 .. 2 - 1 -> Label] /\ B \in [0 .. 2 - 1 -> Label] /\ E \in [0 .. 2 - 1 -> Label]
  BY <1>8 DEF Label, Levels
<1>18. 0 \in 0 .. 2 - 1 /\ 1 \in 0 .. 2 - 1 /\ 1 # 0
  OBVIOUS
<1>19. G[0] = u /\ G[1] = v /\ B[0] = "high" /\ B[1] = "low" /\ E[0] = w /\ E[1] = w
  BY <1>18
<1> HIDE DEF G, B, E
<1>20. Conducting(types, 2, G, B, E)
  <2> SUFFICES ASSUME NEW i \in 0 .. 2 - 1, G[i] = OpensAt(types[i + 1]),
                      B[i] = PassesOn(types[i + 1])
               PROVE  E[i] = PassesOn(types[i + 1])
    BY DEF Conducting
  <2>1. i = 0 \/ i = 1
    OBVIOUS
  <2>2. CASE i = 0
    BY <1>6, <1>9, <1>12, <1>19, <2>2
  <2>3. CASE i = 1
    BY <1>6, <1>9, <1>12, <1>19, <2>3
  <2> QED  BY <2>1, <2>2, <2>3
<1>21. PICK k : /\ Extends(nor.net, made, h, k)
                /\ Pinned(p, 2, G, B, E, k)
                /\ Joined(pairs, k) => Closed(made.net, LevelsOf(k))
  <2>1. 2 \in Nat
    OBVIOUS
  <2> DEFINE m == nor.net
  <2>2. Joins(m, S) /\ Closed(m, LevelsOf(h)) /\ h \in Labelling
    BY <1>5, <1>15, <1>16
  <2> HIDE DEF m
  <2>3. \A x, z : \E k : /\ Extends(m, Built(m, types, x, z), h, k)
                         /\ Pinned(NumTransistors(m), 2, G, B, E, k)
                         /\ Joined(x, k) => Closed(Built(m, types, x, z).net, LevelsOf(k))
    BY <1>6, <1>17, <1>20, <2>1, <2>2, BuiltLabelled
  <2>4. made = Built(m, types, pairs, Drain(q))
    BY <1>1 DEF m
  <2> HIDE DEF q
  <2> QED  BY <2>3, <2>4 DEF m
<1>22. /\ k[Gate(p)] = u /\ k[Gate(q)] = v /\ k[Source(p)] = "high"
       /\ k[Source(q)] = "low" /\ k[Drain(p)] = w /\ k[Drain(q)] = w
  <2>1. p + 0 = p
    BY <1>5
  <2>2. /\ k[Gate(p + 0)] = G[0] /\ k[Source(p + 0)] = B[0] /\ k[Drain(p + 0)] = E[0]
        /\ k[Gate(p + 1)] = G[1] /\ k[Source(p + 1)] = B[1] /\ k[Drain(p + 1)] = E[1]
    BY <1>18, <1>21 DEF Pinned
  <2> QED  BY <1>19, <2>1, <2>2
<1>23. /\ k[nand.out] = u /\ k[nor.out] = v /\ k[Vdd] = "high" /\ k[Vss] = "low"
       /\ nand.out \in Int /\ nor.out \in Int /\ Vdd \in Int /\ Vss \in Int
  <2>1. \A z \in Pins(nor.net) \cup S : k[z] = h[z] /\ z \in Int
    BY <1>21, ExtendsKeeps
  <2>2. Vdd \in S /\ Vss \in S
    BY <1>2
  <2> QED  BY <1>16, <2>1, <2>2
<1>24. /\ Gate(p) \in Int /\ Gate(q) \in Int /\ Source(p) \in Int /\ Source(q) \in Int
       /\ Drain(p) \in Int /\ Drain(q) \in Int
  BY <1>5 DEF Gate, Source, Drain, Pin
<1>25. Adds(nor.net, S, made)
  <2>1. Adds(n, S, made)
    BY TriStateAdds DEF made
  <2>2. made.net.types = nor.net.types \o types
    <3>1. \A x, z : Built(nor.net, types, x, z).net.types = nor.net.types \o types
      BY <1>5, <1>6, BuiltTypes
    <3> QED  BY <1>1, <3>1
  <2>3. Len(nor.net.types \o types) = Len(nor.net.types) + 2 /\ Len(nor.net.types) \in Nat
    <3>1. nor.net.types \in Seq({"n", "p"})
      BY <1>5 DEF Joins
    <3>2. \A s, e \in Seq({"n", "p"}) : Len(s \o e) = Len(s) + Len(e) /\ Len(s) \in Nat
      OBVIOUS
    <3>3. types \in Seq({"n", "p"}) /\ Len(types) = 2
      BY <1>6
    <3> HIDE DEF nor, types
    <3> QED  BY <3>1, <3>2, <3>3
  <2>4. Pins(nor.net) \in SUBSET Pins(made.net)
    BY <2>2, <2>3 DEF Pins, NumTransistors
  <2> QED  BY <2>1, <2>4 DEF Adds
<1> HIDE DEF p, q
<1>26. Joined(pairs, k)
  BY <1>22, <1>23, <1>24 DEF Joined, pairs
<1>27. Extends(n, made, f, k)
  BY <1>3, <1>4, <1>16, <1>21, <1>25, ExtendsMore DEF Adds
<1> QED  BY <1>7, <1>21, <1>22, <1>26, <1>27 DEF Labelled, made

\* The transistors of row r of a lookup: their type, and what their gates read.
RowKind(lut, r) == IF lut[r + 1] THEN "p" ELSE "n"
RowX(x, nx, r) == IF r % 2 = 1 THEN x ELSE nx
RowY(y, ny, r) == IF r \div 2 = 1 THEN y ELSE ny
RowRail(lut, r) == IF lut[r + 1] THEN Vdd ELSE Vss

RowPairs(first, x, y, nx, ny, lut, r) ==
  {<<Source(first + 2 * r), RowRail(lut, r)>>,
   <<Gate(first + 2 * r), RowX(x, nx, r)>>,
   <<Source(first + 2 * r + 1), Drain(first + 2 * r)>>,
   <<Gate(first + 2 * r + 1), RowY(y, ny, r)>>}
ChainPairs(first) ==
  {<<Drain(first + 2 * r + 1), Drain(first + 2 * (r + 1) + 1)>> : r \in 0 .. 2}
RowTypes(lut) == [i \in 1 .. 8 |-> RowKind(lut, (i - 1) \div 2)]
LookupPairs(first, x, y, nx, ny, lut) ==
  ChainPairs(first) \cup UNION {RowPairs(first, x, y, nx, ny, lut, r) : r \in 0 .. 3}

LEMMA LookupIs ==
  ASSUME NEW n, NEW x, NEW y, NEW nx, NEW ny, NEW lut
  PROVE  /\ MakeLookup(n, x, y, nx, ny, lut) =
              Built(n, RowTypes(lut), LookupPairs(NumTransistors(n), x, y, nx, ny, lut),
                    Drain(NumTransistors(n) + 2 * 0 + 1))
         /\ RowTypes(lut) \in Seq({"n", "p"}) /\ Len(RowTypes(lut)) = 8
         /\ \A r \in 0 .. 3 : /\ RowTypes(lut)[2 * r + 1] = RowKind(lut, r)
                              /\ RowTypes(lut)[2 * r + 2] = RowKind(lut, r)
<1>1. MakeLookup(n, x, y, nx, ny, lut) =
        Built(n, RowTypes(lut), LookupPairs(NumTransistors(n), x, y, nx, ny, lut),
              Drain(NumTransistors(n) + 2 * 0 + 1))
  BY DEF MakeLookup, RowTypes, LookupPairs, RowPairs, ChainPairs, RowKind, RowX, RowY, RowRail
<1>2. \A r : RowKind(lut, r) \in {"n", "p"}
  BY DEF RowKind
<1>3. RowTypes(lut) \in Seq({"n", "p"}) /\ Len(RowTypes(lut)) = 8
  BY <1>2 DEF RowTypes
<1>4. ASSUME NEW r \in 0 .. 3
      PROVE  /\ RowTypes(lut)[2 * r + 1] = RowKind(lut, r)
             /\ RowTypes(lut)[2 * r + 2] = RowKind(lut, r)
  <2>1. /\ 2 * r + 1 \in 1 .. 8 /\ 2 * r + 2 \in 1 .. 8
        /\ (2 * r + 1 - 1) \div 2 = r /\ (2 * r + 2 - 1) \div 2 = r
    OBVIOUS
  <2> QED  BY <2>1 DEF RowTypes
<1> QED  BY <1>1, <1>3, <1>4

LEMMA LookupForced ==
  ASSUME NEW n, NEW S, Joins(n, S), NEW x, NEW y, NEW nx, NEW ny, NEW lut,
         NEW D, Closed(MakeLookup(n, x, y, nx, ny, lut).net, D), Powered(D)
  PROVE  /\ Closed(n, D)
         /\ \A r \in 0 .. 3 :
              <<RowX(x, nx, r), OpensAt(RowKind(lut, r))>> \in D
                /\ <<RowY(y, ny, r), OpensAt(RowKind(lut, r))>> \in D =>
                <<MakeLookup(n, x, y, nx, ny, lut).out, PassesOn(RowKind(lut, r))>> \in D
<1> DEFINE first == NumTransistors(n)
           types == RowTypes(lut)
           pairs == LookupPairs(first, x, y, nx, ny, lut)
           made == MakeLookup(n, x, y, nx, ny, lut)
           T1(r) == first + 2 * r
           T2(r) == first + 2 * r + 1
<1>1. made = Built(n, types, pairs, Drain(T2(0)))
  BY LookupIs
<1>2. first \in Nat
  BY DEF Joins, NumTransistors
<1>3. types \in Seq({"n", "p"}) /\ Len(types) = 8
      /\ \A r \in 0 .. 3 : types[2 * r + 1] = RowKind(lut, r) /\ types[2 * r + 2] = RowKind(lut, r)
  BY LookupIs
<1>4. made.out = Drain(T2(0))
  BY <1>1 DEF Built
<1> HIDE DEF types, made, pairs
<1>5. /\ Closed(n, D)
      /\ \A p \in pairs : SameIn(D, p[1], p[2])
      /\ \A i \in 1 .. Len(types) : Conducted(D, types[i], first + i - 1)
  BY <1>1, <1>3, BuiltClosed DEF made
<1>6. \A a, b : <<a, b>> \in pairs => SameIn(D, a, b)
  <2> SUFFICES ASSUME NEW a, NEW b, <<a, b>> \in pairs  PROVE SameIn(D, a, b)
    OBVIOUS
  <2>1. SameIn(D, <<a, b>>[1], <<a, b>>[2])
    BY <1>5
  <2> QED  BY <2>1
<1>7. ASSUME NEW r \in 0 .. 2  PROVE SameIn(D, Drain(T2(r)), Drain(T2(r + 1)))
  <2>1. <<Drain(T2(r)), Drain(T2(r + 1))>> \in pairs
    BY DEF pairs, LookupPairs, ChainPairs
  <2> QED  BY <1>6, <2>1
<1>8. ASSUME NEW r \in 0 .. 3
      PROVE  /\ SameIn(D, Source(T1(r)), RowRail(lut, r)) /\ SameIn(D, Gate(T1(r)), RowX(x, nx, r))
             /\ SameIn(D, Source(T2(r)), Drain(T1(r))) /\ SameIn(D, Gate(T2(r)), RowY(y, ny, r))
             /\ Conducted(D, RowKind(lut, r), T1(r)) /\ Conducted(D, RowKind(lut, r), T2(r))
  <2>1. RowPairs(first, x, y, nx, ny, lut, r) \in SUBSET pairs
    BY DEF pairs, LookupPairs
  <2>2. /\ <<Source(T1(r)), RowRail(lut, r)>> \in pairs /\ <<Gate(T1(r)), RowX(x, nx, r)>> \in pairs
        /\ <<Source(T2(r)), Drain(T1(r))>> \in pairs /\ <<Gate(T2(r)), RowY(y, ny, r)>> \in pairs
    BY <2>1 DEF RowPairs
  <2>3. /\ 2 * r + 1 \in 1 .. Len(types) /\ 2 * r + 2 \in 1 .. Len(types)
        /\ first + (2 * r + 1) - 1 = T1(r) /\ first + (2 * r + 2) - 1 = T2(r)
    BY <1>2, <1>3
  <2>4. /\ Conducted(D, types[2 * r + 1], first + (2 * r + 1) - 1)
        /\ Conducted(D, types[2 * r + 2], first + (2 * r + 2) - 1)
    BY <1>5, <2>3
  <2>5. types[2 * r + 1] = RowKind(lut, r) /\ types[2 * r + 2] = RowKind(lut, r)
    BY <1>3
  <2> HIDE DEF T1, T2
  <2>6. Conducted(D, RowKind(lut, r), T1(r)) /\ Conducted(D, RowKind(lut, r), T2(r))
    BY <2>3, <2>4, <2>5
  <2> QED  BY <1>6, <2>2, <2>6
<1> HIDE DEF T1, T2, first
<1>9. ASSUME NEW r \in 0 .. 3, <<RowX(x, nx, r), OpensAt(RowKind(lut, r))>> \in D,
             <<RowY(y, ny, r), OpensAt(RowKind(lut, r))>> \in D
      PROVE  <<Drain(T2(r)), PassesOn(RowKind(lut, r))>> \in D
  <2>1. OpensAt(RowKind(lut, r)) \in Levels /\ PassesOn(RowKind(lut, r)) \in Levels
        /\ <<RowRail(lut, r), PassesOn(RowKind(lut, r))>> \in D
    BY DEF RowKind, RowRail, OpensAt, PassesOn, Levels, Powered
  <2> QED  BY <1>8, <1>9, <2>1 DEF SameIn, Conducted
<1>10. ASSUME NEW r \in 0 .. 3, NEW l \in Levels, <<Drain(T2(r)), l>> \in D
       PROVE  <<Drain(T2(0)), l>> \in D
  <2>1. /\ SameIn(D, Drain(T2(0)), Drain(T2(1))) /\ SameIn(D, Drain(T2(1)), Drain(T2(2)))
        /\ SameIn(D, Drain(T2(2)), Drain(T2(3)))
    <3>1. 0 \in 0 .. 2 /\ 1 \in 0 .. 2 /\ 2 \in 0 .. 2 /\ 0 + 1 = 1 /\ 1 + 1 = 2 /\ 2 + 1 = 3
      OBVIOUS
    <3>2. /\ SameIn(D, Drain(T2(0)), Drain(T2(0 + 1))) /\ SameIn(D, Drain(T2(1)), Drain(T2(1 + 1)))
          /\ SameIn(D, Drain(T2(2)), Drain(T2(2 + 1)))
      BY <1>7, <3>1
    <3> QED  BY <3>1, <3>2
  <2>2. r = 0 \/ r = 1 \/ r = 2 \/ r = 3
    OBVIOUS
  <2>3. CASE r = 0  BY <1>10, <2>3
  <2>4. CASE r = 1  BY <1>10, <2>1, <2>4 DEF SameIn
  <2>5. CASE r = 2  BY <1>10, <2>1, <2>5 DEF SameIn
  <2>6. CASE r = 3  BY <1>10, <2>1, <2>6 DEF SameIn
  <2> QED  BY <2>2, <2>3, <2>4, <2>5, <2>6
<1>11. \A r \in 0 .. 3 : PassesOn(RowKind(lut, r)) \in Levels
  BY DEF PassesOn, Levels
<1> QED  BY <1>4, <1>5, <1>9, <1>10, <1>11 DEF made

LEMMA LookupLabelled ==
  ASSUME NEW n, NEW S, Joins(n, S), Negative(S), Rails \in SUBSET S,
         NEW x \in Pins(n) \cup S, NEW y \in Pins(n) \cup S,
         NEW nx \in Pins(n) \cup S, NEW ny \in Pins(n) \cup S, NEW lut,
         NEW f \in Labelling, Closed(n, LevelsOf(f)), PoweredBy(f), NEW w \in Label,
         \A r \in 0 .. 3 : f[RowX(x, nx, r)] = OpensAt(RowKind(lut, r))
                             /\ f[RowY(y, ny, r)] = OpensAt(RowKind(lut, r)) =>
                               w = PassesOn(RowKind(lut, r))
  PROVE  Labelled(n, MakeLookup(n, x, y, nx, ny, lut), f, w)
<1> DEFINE first == NumTransistors(n)
           types == RowTypes(lut)
           pairs == LookupPairs(first, x, y, nx, ny, lut)
           made == MakeLookup(n, x, y, nx, ny, lut)
           T1(r) == first + 2 * r
           T2(r) == first + 2 * r + 1
           Kind(r) == RowKind(lut, r)
           X(r) == RowX(x, nx, r)
           Y(r) == RowY(y, ny, r)
           Mid(r) == IF f[X(r)] = OpensAt(Kind(r)) THEN PassesOn(Kind(r)) ELSE "undefined"
           Row(i) == i \div 2
           G == [i \in 0 .. 8 - 1 |-> IF i % 2 = 0 THEN f[X(Row(i))] ELSE f[Y(Row(i))]]
           B == [i \in 0 .. 8 - 1 |-> IF i % 2 = 0 THEN PassesOn(Kind(Row(i))) ELSE Mid(Row(i))]
           E == [i \in 0 .. 8 - 1 |-> IF i % 2 = 0 THEN Mid(Row(i)) ELSE w]
<1>1. made = Built(n, types, pairs, Drain(T2(0)))
  BY LookupIs
<1>2. first \in Nat
  BY DEF Joins, NumTransistors
<1>3. types \in Seq({"n", "p"}) /\ 8 = Len(types)
      /\ \A r \in 0 .. 3 : types[2 * r + 1] = Kind(r) /\ types[2 * r + 2] = Kind(r)
  BY LookupIs
<1>4. made.out = Drain(T2(0))
  BY <1>1 DEF Built
<1>5. ASSUME NEW r
      PROVE  /\ X(r) \in Pins(n) \cup S /\ Y(r) \in Pins(n) \cup S
             /\ X(r) \in Int /\ Y(r) \in Int /\ f[X(r)] \in Label /\ f[Y(r)] \in Label
             /\ Mid(r) \in Label /\ PassesOn(Kind(r)) \in Label
             /\ OpensAt(Kind(r)) \in Levels /\ PassesOn(Kind(r)) \in Levels
             /\ Mid(r) = PassesOn(Kind(r)) => f[X(r)] = OpensAt(Kind(r))
  <2>1. X(r) \in Pins(n) \cup S /\ Y(r) \in Pins(n) \cup S
    BY DEF RowX, RowY
  <2>2. X(r) \in Int /\ Y(r) \in Int
    BY <2>1 DEF Pins, Negative
  <2>3. OpensAt(Kind(r)) \in Levels /\ PassesOn(Kind(r)) \in Levels
        /\ PassesOn(Kind(r)) # "undefined"
    BY DEF OpensAt, PassesOn, Levels
  <2> HIDE DEF X, Y, Kind
  <2> QED  BY <2>1, <2>2, <2>3 DEF Labelling, Label
<1> HIDE DEF made, types, pairs
<1>6. /\ G \in [0 .. 8 - 1 -> Label] /\ B \in [0 .. 8 - 1 -> Label] /\ E \in [0 .. 8 - 1 -> Label]
  <2> HIDE DEF X, Y, Kind, Mid, Row
  <2> QED  BY <1>5
<1>7. ASSUME NEW r \in 0 .. 3
      PROVE  /\ 2 * r \in 0 .. 8 - 1 /\ 2 * r + 1 \in 0 .. 8 - 1
             /\ first + (2 * r + 1) = T2(r)
             /\ G[2 * r] = f[X(r)] /\ B[2 * r] = PassesOn(Kind(r)) /\ E[2 * r] = Mid(r)
             /\ G[2 * r + 1] = f[Y(r)] /\ B[2 * r + 1] = Mid(r) /\ E[2 * r + 1] = w
  <2>1. /\ 2 * r \in 0 .. 8 - 1 /\ 2 * r + 1 \in 0 .. 8 - 1
        /\ (2 * r) % 2 = 0 /\ ~ ((2 * r + 1) % 2 = 0)
        /\ first + (2 * r + 1) = T2(r)
    BY <1>2
  <2>2. Row(2 * r) = r /\ Row(2 * r + 1) = r
    OBVIOUS
  <2> HIDE DEF X, Y, Kind, Mid, Row, T2
  <2> QED  BY <2>1, <2>2
<1> HIDE DEF G, B, E
<1>8. \A i \in 0 .. 8 - 1 : \E r \in 0 .. 3 : i = 2 * r \/ i = 2 * r + 1
  <2> TAKE i \in 0 .. 8 - 1
  <2>1. i \div 2 \in 0 .. 3 /\ (i = 2 * (i \div 2) \/ i = 2 * (i \div 2) + 1)
    OBVIOUS
  <2> QED  BY <2>1
<1>9. Conducting(types, 8, G, B, E)
  <2> SUFFICES ASSUME NEW i \in 0 .. 8 - 1, G[i] = OpensAt(types[i + 1]),
                      B[i] = PassesOn(types[i + 1])
               PROVE  E[i] = PassesOn(types[i + 1])
    BY DEF Conducting
  <2>1. PICK r \in 0 .. 3 : i = 2 * r \/ i = 2 * r + 1
    BY <1>8
  <2>2. 2 * r + 1 + 1 = 2 * r + 2
    OBVIOUS
  <2>3. types[2 * r + 1] = Kind(r) /\ types[2 * r + 2] = Kind(r)
    BY <1>3
  <2>4. f[X(r)] = OpensAt(Kind(r)) => Mid(r) = PassesOn(Kind(r))
    OBVIOUS
  <2>5. f[X(r)] = OpensAt(Kind(r)) /\ f[Y(r)] = OpensAt(Kind(r)) => w = PassesOn(Kind(r))
    OBVIOUS
  <2>8. Mid(r) = PassesOn(Kind(r)) => f[X(r)] = OpensAt(Kind(r))
    BY <1>5
  <2> HIDE DEF X, Y, Kind, Mid
  <2>6. CASE i = 2 * r
    BY <1>7, <2>3, <2>4, <2>6
  <2>7. CASE i = 2 * r + 1
    BY <1>7, <2>2, <2>3, <2>5, <2>7, <2>8
  <2> QED  BY <2>1, <2>6, <2>7
<1>10. PICK h : /\ Extends(n, made, f, h)
                /\ Pinned(first, 8, G, B, E, h)
                /\ Joined(pairs, h) => Closed(made.net, LevelsOf(h))
  <2>1. 8 \in Nat
    OBVIOUS
  <2>2. types \in Seq({"n", "p"}) /\ 8 = Len(types)
    BY <1>3
  <2>3. \A z, o :
          \E h : /\ Extends(n, Built(n, types, z, o), f, h)
                 /\ Pinned(first, 8, G, B, E, h)
                 /\ Joined(z, h) => Closed(Built(n, types, z, o).net, LevelsOf(h))
    BY <1>6, <1>9, <2>1, <2>2, BuiltLabelled
  <2> HIDE DEF T2, first
  <2> QED  BY <1>1, <2>3
<1>11. ASSUME NEW r \in 0 .. 3
       PROVE  /\ h[Gate(T1(r))] = f[X(r)] /\ h[Source(T1(r))] = PassesOn(Kind(r))
              /\ h[Drain(T1(r))] = Mid(r)
              /\ h[Gate(T2(r))] = f[Y(r)] /\ h[Source(T2(r))] = Mid(r) /\ h[Drain(T2(r))] = w
              /\ Gate(T1(r)) \in Int /\ Source(T1(r)) \in Int /\ Drain(T1(r)) \in Int
              /\ Gate(T2(r)) \in Int /\ Source(T2(r)) \in Int /\ Drain(T2(r)) \in Int
  <2>1. /\ h[Gate(first + 2 * r)] = G[2 * r] /\ h[Source(first + 2 * r)] = B[2 * r]
        /\ h[Drain(first + 2 * r)] = E[2 * r]
        /\ h[Gate(first + (2 * r + 1))] = G[2 * r + 1]
        /\ h[Source(first + (2 * r + 1))] = B[2 * r + 1]
        /\ h[Drain(first + (2 * r + 1))] = E[2 * r + 1]
    <3>1. 2 * r \in 0 .. 8 - 1 /\ 2 * r + 1 \in 0 .. 8 - 1
      OBVIOUS
    <3> QED  BY <1>10, <3>1 DEF Pinned
  <2>2. /\ Gate(T1(r)) \in Int /\ Source(T1(r)) \in Int /\ Drain(T1(r)) \in Int
        /\ Gate(T2(r)) \in Int /\ Source(T2(r)) \in Int /\ Drain(T2(r)) \in Int
    BY <1>2 DEF Gate, Source, Drain, Pin
  <2>3. T1(r) = first + 2 * r
    OBVIOUS
  <2> HIDE DEF T1, T2, X, Y, Kind, Mid
  <2> QED  BY <1>7, <2>1, <2>2, <2>3
<1>12. /\ h[Vdd] = "high" /\ h[Vss] = "low" /\ Vdd \in Int /\ Vss \in Int
       /\ \A r : h[X(r)] = f[X(r)] /\ h[Y(r)] = f[Y(r)]
  <2>1. \A m \in Pins(n) \cup S : h[m] = f[m] /\ m \in Int
    BY <1>10, ExtendsKeeps
  <2>2. Vdd \in S /\ Vss \in S
    BY DEF Rails
  <2> HIDE DEF X, Y
  <2> QED  BY <1>5, <2>1, <2>2 DEF PoweredBy
<1>13. Joined(pairs, h)
  <2> SUFFICES ASSUME NEW p \in pairs
               PROVE  p[1] \in Int /\ p[2] \in Int /\ h[p[1]] = h[p[2]]
    BY DEF Joined
  <2>1. CASE p \in ChainPairs(first)
    <3>1. PICK r \in 0 .. 2 : p = <<Drain(T2(r)), Drain(T2(r + 1))>>
      BY <2>1 DEF ChainPairs
    <3>2. r \in 0 .. 3 /\ r + 1 \in 0 .. 3
      OBVIOUS
    <3> HIDE DEF T1, T2, X, Y, Kind, Mid
    <3> QED  BY <1>11, <3>1, <3>2
  <2>2. CASE \E r \in 0 .. 3 : p \in RowPairs(first, x, y, nx, ny, lut, r)
    <3>1. PICK r \in 0 .. 3 : p \in RowPairs(first, x, y, nx, ny, lut, r)
      BY <2>2
    <3>2. p \in {<<Source(T1(r)), RowRail(lut, r)>>, <<Gate(T1(r)), X(r)>>,
                 <<Source(T2(r)), Drain(T1(r))>>, <<Gate(T2(r)), Y(r)>>}
      BY <3>1 DEF RowPairs
    <3>3. h[RowRail(lut, r)] = PassesOn(Kind(r)) /\ RowRail(lut, r) \in Int
      BY <1>12 DEF RowRail, RowKind, PassesOn
    <3> HIDE DEF T1, T2, X, Y, Kind, Mid
    <3>4. CASE p = <<Source(T1(r)), RowRail(lut, r)>>
      BY <1>11, <3>3, <3>4
    <3>5. CASE p = <<Gate(T1(r)), X(r)>>
      BY <1>5, <1>11, <1>12, <3>5
    <3>6. CASE p = <<Source(T2(r)), Drain(T1(r))>>
      BY <1>11, <3>6
    <3>7. CASE p = <<Gate(T2(r)), Y(r)>>
      BY <1>5, <1>11, <1>12, <3>7
    <3> QED  BY <3>2, <3>4, <3>5, <3>6, <3>7
  <2> QED  BY <2>1, <2>2 DEF pairs, LookupPairs
<1>14. h[made.out] = w
  <2>1. 0 \in 0 .. 3
    OBVIOUS
  <2> HIDE DEF T1, T2, X, Y, Kind, Mid
  <2> QED  BY <1>4, <1>11, <2>1
<1> QED  BY <1>10, <1>13, <1>14 DEF Labelled, made

----------------------------------------------------------------------------
(* The transistors of a gate, and the value that it has.                     *)

\* What gate g reads in state s.
Ins(gnet, s, g) == [i \in DOMAIN gnet.ins[g] |-> s[gnet.ins[g][i]]]

Logical == {"low", "high", "none"}

LEMMA CircuitIs ==
  ASSUME NEW gnet, NEW g \in Live(gnet), NEW s, NEW in, in = Ins(gnet, s, g),
         \A i \in DOMAIN in : in[i] # "z", DOMAIN gnet.ins[g] = 1 .. Len(gnet.ins[g]),
         WellShaped(gnet), Len(gnet.ins[g]) \in Nat
  PROVE  LET value == CircuitValue(gnet, s, g)
             kind == gnet.kind[g]
         IN  /\ kind = "not" => value = Flip(in[1])
             /\ kind = "tri" => value = IF "none" \in {in[1], in[2]} THEN "none"
                                        ELSE Switch(in[1], in[3], "z")
             /\ kind = "mux" => value = IF "none" \in {in[1], in[2]} THEN "none"
                                        ELSE IF in[3] = in[4] THEN in[3]
                                        ELSE Switch(in[1], in[3], in[4])
             /\ kind = "nand" => value = Decide(in, "low", "high")
             /\ kind = "nor" => value = Decide(in, "high", "low")
             /\ kind = "lookup" => value = LookUp(gnet.lut[g], in)
<1> DEFINE kind == gnet.kind[g]
           ins == gnet.ins[g]
<1>1. Read(gnet, s, g) = in
  BY DEF Read, Ins
<1>2. in = [i \in DOMAIN ins |-> s[ins[i]]]
  BY DEF Ins
<1>3. kind \in {"tri", "mux"} => in[1] = s[ins[1]] /\ in[2] = s[ins[2]]
  <2>1. /\ kind = "tri" => Len(ins) >= 3
        /\ kind = "mux" => Len(ins) >= 4
    BY DEF WellShaped
  <2>2. kind \in {"tri", "mux"} => 1 \in DOMAIN ins /\ 2 \in DOMAIN ins
    BY <2>1
  <2> HIDE DEF kind, ins
  <2> QED  BY <1>2, <2>2
<1>4. CircuitValue(gnet, s, g) =
        IF kind \in {"tri", "mux"} /\ "none" \in {in[1], in[2]} THEN "none"
        ELSE ComputeValue(gnet, s, g)
  BY <1>3 DEF CircuitValue
<1>5. ComputeValue(gnet, s, g) =
        CASE kind = "dead" -> "none"
          [] kind = "not"  -> Flip(in[1])
          [] kind = "tri"  -> Switch(in[1], in[3], "z")
          [] kind = "mux"  -> IF in[3] = in[4] THEN in[3] ELSE Switch(in[1], in[3], in[4])
          [] kind = "nand" -> Decide(in, "low", "high")
          [] kind = "nor"  -> Decide(in, "high", "low")
          [] kind = "lookup" -> LookUp(gnet.lut[g], in)
  BY <1>1 DEF ComputeValue
<1> HIDE DEF kind
<1> QED  BY <1>4, <1>5 DEF kind

LEMMA DecideIs ==
  ASSUME NEW in, \A i \in DOMAIN in : in[i] \in Logical,
         NEW a \in Levels, NEW b \in Levels, a # b
  PROVE  /\ Decide(in, a, b) \in Logical
         /\ Decide(in, a, b) = b <=> \E i \in DOMAIN in : in[i] = a
         /\ Decide(in, a, b) = a <=> \A i \in DOMAIN in : in[i] = b
<1>1. Flip(b) = a
  BY DEF Flip, Levels
<1>2. CASE \E i \in DOMAIN in : in[i] = a
  BY <1>1, <1>2 DEF Decide, Logical, Levels
<1>3. CASE (\A i \in DOMAIN in : in[i] # a) /\ \E i \in DOMAIN in : in[i] = "none"
  BY <1>1, <1>3 DEF Decide, Logical, Levels
<1>4. CASE (\A i \in DOMAIN in : in[i] # a) /\ \A i \in DOMAIN in : in[i] # "none"
  <2>1. Decide(in, a, b) = a
    BY <1>1, <1>4 DEF Decide
  <2>2. \A i \in DOMAIN in : in[i] = b
    BY <1>4 DEF Logical, Levels
  <2> QED  BY <1>4, <2>1, <2>2 DEF Logical, Levels
<1> QED  BY <1>2, <1>3, <1>4

LEMMA LookUpIs ==
  ASSUME NEW lut, DOMAIN lut = 1 .. 4, NEW in, DOMAIN in = 1 .. 4, Len(in) = 4,
         \A i \in 1 .. 4 : in[i] \in Logical
  PROVE  /\ LookUp(lut, in) \in Logical
         /\ LookUp(lut, in) = "none" <=> \E i \in 1 .. 4 : in[i] = "none"
         /\ \A r \in 0 .. 3 :
              /\ \A i \in 1 .. 4 : in[i] # "none"
              /\ r % 2 = 1 <=> in[1] = "high"
              /\ r \div 2 = 1 <=> in[2] = "high"
              => LookUp(lut, in) = FromBool(lut[r + 1])
<1>1. \A b : FromBool(b) \in {"low", "high"}
  BY DEF FromBool
<1>2. ASSUME NEW r \in 0 .. 3, \A i \in 1 .. 4 : in[i] # "none",
             r % 2 = 1 <=> in[1] = "high", r \div 2 = 1 <=> in[2] = "high"
      PROVE  LookUp(lut, in) = FromBool(lut[r + 1])
  <2> DEFINE Hit(q) == \A i \in 1 .. Len(in) \div 2 : Bit(q - 1, i) = 1 <=> in[i] = "high"
  <2>1. Len(in) \div 2 = 2
    OBVIOUS
  <2>2. ASSUME NEW q \in 1 .. 4  PROVE Hit(q) <=> q = r + 1
    <3>1. 2 ^ (1 - 1) = 1 /\ 2 ^ (2 - 1) = 2
      OBVIOUS
    <3>2. Bit(q - 1, 1) = (q - 1) % 2 /\ Bit(q - 1, 2) = ((q - 1) \div 2) % 2
      BY <3>1 DEF Bit
    <3>3. Hit(q) <=> (Bit(q - 1, 1) = 1 <=> in[1] = "high") /\ (Bit(q - 1, 2) = 1 <=> in[2] = "high")
      <4>1. 1 .. Len(in) \div 2 = {1, 2}
        BY <2>1
      <4> QED  BY <4>1
    <3>4. ((q - 1) \div 2) % 2 = (q - 1) \div 2
      OBVIOUS
    <3>5. \A x, y \in 0 .. 3 : (x % 2 = 1 <=> y % 2 = 1) /\ (x \div 2 = 1 <=> y \div 2 = 1) => x = y
      OBVIOUS
    <3> HIDE DEF Hit
    <3>6. q - 1 \in 0 .. 3
      OBVIOUS
    <3> QED  BY <1>2, <3>2, <3>3, <3>4, <3>5, <3>6
  <2>3. LookUp(lut, in) = FromBool(\E q \in DOMAIN lut : lut[q] /\ Hit(q))
    BY <1>2 DEF LookUp
  <2> HIDE DEF Hit
  <2>4. r + 1 \in 1 .. 4
    OBVIOUS
  <2>5. (\E q \in DOMAIN lut : lut[q] /\ Hit(q)) <=> lut[r + 1]
    BY <2>2, <2>4
  <2> QED  BY <2>3, <2>5 DEF FromBool
<1>3. (\E i \in 1 .. 4 : in[i] = "none") => LookUp(lut, in) = "none"
  BY DEF LookUp
<1>4. (\A i \in 1 .. 4 : in[i] # "none") => LookUp(lut, in) \in {"low", "high"}
  BY <1>1 DEF LookUp
<1> QED  BY <1>2, <1>3, <1>4 DEF Logical

\* What gate g reads in s is as its circuit takes it, as far as it is known.
Takes(gnet, s, g) ==
  LET in == Ins(gnet, s, g)
      lut == gnet.lut[g]
  IN  /\ \A i \in DOMAIN in : in[i] \in Logical
      /\ gnet.kind[g] \in {"tri", "mux"} /\ in[1] # "none" /\ in[2] # "none" => in[2] = Flip(in[1])
      /\ gnet.kind[g] = "lookup" =>
           /\ DOMAIN lut = 1 .. 4 /\ lut[1] = lut[4] /\ lut[2] = lut[3]
           /\ \A r \in DOMAIN lut : lut[r] \in BOOLEAN
           /\ (\A i \in DOMAIN in : in[i] # "none") => in[3] = Flip(in[1]) /\ in[4] = Flip(in[2])

\* The nodes of what gate g reads.
NodesOf(gnet, nodes, g) == [i \in DOMAIN gnet.ins[g] |-> nodes[gnet.ins[g][i]]]

\* The inputs and the nodes of a gate, by its kind.
Shaped(gnet, nodes, n, g) ==
  LET kind == gnet.kind[g]
      ins == gnet.ins[g]
      nd == NodesOf(gnet, nodes, g)
      made == Transistorize(gnet, nodes, n, g)
  IN  /\ kind \in {"not", "tri", "mux", "nand", "nor", "lookup"}
      /\ Len(ins) \in Nat /\ DOMAIN ins = 1 .. Len(ins)
      /\ kind = "not" => 1 \in DOMAIN ins
      /\ kind = "tri" => 1 \in DOMAIN ins /\ 2 \in DOMAIN ins /\ 3 \in DOMAIN ins
      /\ kind \in {"mux", "lookup"} =>
           1 \in DOMAIN ins /\ 2 \in DOMAIN ins /\ 3 \in DOMAIN ins /\ 4 \in DOMAIN ins
      /\ kind = "lookup" => DOMAIN ins = 1 .. 4
      /\ kind = "not" => made = MakeNand(n, <<nd[1]>>)
      /\ kind = "tri" => made = MakeTriStateBuffer(n, nd[1], nd[2], nd[3])
      /\ kind = "mux" => made = MakeMux(n, nd[1], nd[2], nd[3], nd[4])
      /\ kind = "nand" => made = MakeNand(n, nd)
      /\ kind = "nor" => made = MakeNor(n, nd)
      /\ kind = "lookup" => made = MakeLookup(n, nd[1], nd[2], nd[3], nd[4], gnet.lut[g])

\* So they are for every gate of a well-shaped network.
LEMMA GateShape ==
  ASSUME NEW gnet, WellShaped(gnet), NEW g \in Live(gnet), NEW X, gnet.ins[g] \in Seq(X),
         gnet.kind[g] \in Kinds, gnet.kind[g] = "lookup" => Len(gnet.ins[g]) = 4,
         NEW nodes, NEW n
  PROVE  Shaped(gnet, nodes, n, g)
<1> DEFINE kind == gnet.kind[g]
           ins == gnet.ins[g]
           nd == NodesOf(gnet, nodes, g)
           made == Transistorize(gnet, nodes, n, g)
<1>1. kind \in {"not", "tri", "mux", "nand", "nor", "lookup"}
  BY DEF Live, Kinds
<1>2. Len(ins) \in Nat /\ DOMAIN ins = 1 .. Len(ins)
  OBVIOUS
<1>3. /\ kind = "not" => Len(ins) >= 1
      /\ kind = "tri" => Len(ins) >= 3
      /\ kind = "mux" => Len(ins) >= 4
      /\ kind = "lookup" => Len(ins) = 4
  BY DEF WellShaped
<1>4. made = CASE kind = "not"    -> MakeNot(n, nd[1])
               [] kind = "tri"    -> MakeTriStateBuffer(n, nd[1], nd[2], nd[3])
               [] kind = "mux"    -> MakeMux(n, nd[1], nd[2], nd[3], nd[4])
               [] kind = "nand"   -> MakeNand(n, nd)
               [] kind = "nor"    -> MakeNor(n, nd)
               [] kind = "lookup" -> MakeLookup(n, nd[1], nd[2], nd[3], nd[4], gnet.lut[g])
  BY DEF Transistorize, NodesOf
<1> HIDE DEF kind, ins, nd, made
<1>5. /\ kind = "not" => 1 \in DOMAIN ins
      /\ kind = "tri" => 1 \in DOMAIN ins /\ 2 \in DOMAIN ins /\ 3 \in DOMAIN ins
      /\ kind \in {"mux", "lookup"} =>
           1 \in DOMAIN ins /\ 2 \in DOMAIN ins /\ 3 \in DOMAIN ins /\ 4 \in DOMAIN ins
      /\ kind = "lookup" => DOMAIN ins = 1 .. 4
  BY <1>2, <1>3
<1>6. /\ kind = "not" => made = MakeNand(n, <<nd[1]>>)
      /\ kind = "tri" => made = MakeTriStateBuffer(n, nd[1], nd[2], nd[3])
      /\ kind = "mux" => made = MakeMux(n, nd[1], nd[2], nd[3], nd[4])
      /\ kind = "nand" => made = MakeNand(n, nd)
      /\ kind = "nor" => made = MakeNor(n, nd)
      /\ kind = "lookup" => made = MakeLookup(n, nd[1], nd[2], nd[3], nd[4], gnet.lut[g])
  BY <1>4 DEF MakeNot
<1> QED  BY <1>1, <1>2, <1>5, <1>6 DEF kind, ins, nd, made, Shaped

\* What is closed under the transistors of a gate, with the levels of what the gate
\* reads, has the level of its value.
LEMMA TransistorizeForced ==
  ASSUME NEW gnet, WellShaped(gnet), NEW g \in Live(gnet), NEW X, gnet.ins[g] \in Seq(X),
         gnet.kind[g] \in Kinds, gnet.kind[g] = "lookup" => Len(gnet.ins[g]) = 4,
         NEW n, NEW S, Joins(n, S), Rails \in SUBSET S, NEW nodes,
         \A i \in DOMAIN gnet.ins[g] : nodes[gnet.ins[g][i]] \in Pins(n) \cup S,
         NEW D, Closed(Transistorize(gnet, nodes, n, g).net, D), Powered(D),
         NEW s, Takes(gnet, s, g),
         \A i \in DOMAIN gnet.ins[g] :
           s[gnet.ins[g][i]] \in Levels => <<nodes[gnet.ins[g][i]], s[gnet.ins[g][i]]>> \in D
  PROVE  /\ Closed(n, D)
         /\ CircuitValue(gnet, s, g) \in Levels =>
              <<Transistorize(gnet, nodes, n, g).out, CircuitValue(gnet, s, g)>> \in D
<1> DEFINE kind == gnet.kind[g]
           ins == gnet.ins[g]
           lut == gnet.lut[g]
           nd == NodesOf(gnet, nodes, g)
           in == Ins(gnet, s, g)
           made == Transistorize(gnet, nodes, n, g)
           value == CircuitValue(gnet, s, g)
<1>1. /\ kind \in {"not", "tri", "mux", "nand", "nor", "lookup"}
      /\ Len(ins) \in Nat /\ DOMAIN ins = 1 .. Len(ins)
      /\ kind = "not" => 1 \in DOMAIN ins
      /\ kind = "tri" => 1 \in DOMAIN ins /\ 2 \in DOMAIN ins /\ 3 \in DOMAIN ins
      /\ kind \in {"mux", "lookup"} =>
           1 \in DOMAIN ins /\ 2 \in DOMAIN ins /\ 3 \in DOMAIN ins /\ 4 \in DOMAIN ins
      /\ kind = "lookup" => DOMAIN ins = 1 .. 4
      /\ kind = "not" => made = MakeNand(n, <<nd[1]>>)
      /\ kind = "tri" => made = MakeTriStateBuffer(n, nd[1], nd[2], nd[3])
      /\ kind = "mux" => made = MakeMux(n, nd[1], nd[2], nd[3], nd[4])
      /\ kind = "nand" => made = MakeNand(n, nd)
      /\ kind = "nor" => made = MakeNor(n, nd)
      /\ kind = "lookup" => made = MakeLookup(n, nd[1], nd[2], nd[3], nd[4], lut)
  <2>1. Shaped(gnet, nodes, n, g)
    BY GateShape
  <2> QED  BY <2>1 DEF Shaped
<1>2. /\ DOMAIN in = DOMAIN ins /\ Len(in) = Len(ins)
      /\ \A i \in DOMAIN ins : in[i] = s[ins[i]] /\ in[i] \in Logical
  <2>1. in = [i \in DOMAIN ins |-> s[ins[i]]]
    BY DEF Ins
  <2>2. \A i \in DOMAIN in : in[i] \in Logical
    BY DEF Takes
  <2> HIDE DEF ins, in
  <2> QED  BY <1>1, <2>1, <2>2
<1>3. /\ nd \in Seq(Pins(n) \cup S) /\ Len(nd) = Len(ins) /\ DOMAIN nd = DOMAIN ins
      /\ \A i \in DOMAIN ins : nd[i] = nodes[ins[i]] /\ nd[i] \in Pins(n) \cup S
  BY <1>1 DEF NodesOf
<1>4. \A i \in DOMAIN ins : in[i] \in Levels => <<nd[i], in[i]>> \in D
  BY <1>2, <1>3
<1>5. /\ kind = "not" => value = Flip(in[1])
      /\ kind = "tri" => value = IF "none" \in {in[1], in[2]} THEN "none"
                                 ELSE Switch(in[1], in[3], "z")
      /\ kind = "mux" => value = IF "none" \in {in[1], in[2]} THEN "none"
                                 ELSE IF in[3] = in[4] THEN in[3]
                                 ELSE Switch(in[1], in[3], in[4])
      /\ kind = "nand" => value = Decide(in, "low", "high")
      /\ kind = "nor" => value = Decide(in, "high", "low")
      /\ kind = "lookup" => value = LookUp(lut, in)
  <2>1. \A i \in DOMAIN in : in[i] # "z"
    BY <1>2 DEF Logical
  <2> QED  BY <1>1, <2>1, CircuitIs
<1>6. /\ kind \in {"tri", "mux"} /\ in[1] # "none" /\ in[2] # "none" => in[2] = Flip(in[1])
      /\ kind = "lookup" =>
           /\ DOMAIN lut = 1 .. 4 /\ lut[1] = lut[4] /\ lut[2] = lut[3]
           /\ \A r \in DOMAIN lut : lut[r] \in BOOLEAN
           /\ (\A i \in DOMAIN in : in[i] # "none") => in[3] = Flip(in[1]) /\ in[4] = Flip(in[2])
  BY DEF Takes
<1>7. /\ OpensAt("n") = "high" /\ OpensAt("p") = "low"
      /\ PassesOn("n") = "low" /\ PassesOn("p") = "high"
      /\ "n" \in {"n", "p"} /\ "p" \in {"n", "p"}
      /\ <<Vss, PassesOn("n")>> \in D /\ <<Vdd, PassesOn("p")>> \in D
  BY DEF PassesOn, OpensAt, Powered
<1> HIDE DEF kind, ins, lut, nd, in, value
<1>8. Closed(made.net, D)
  OBVIOUS
<1> HIDE DEF made
<1> SUFFICES Closed(n, D) /\ (value \in Levels => <<made.out, value>> \in D)
  BY DEF made, value
<1>10. CASE kind = "not"
  <2> DEFINE one == <<nd[1]>>
  <2>1. one \in Seq(Pins(n) \cup S) /\ Len(one) = 1 /\ one[1] = nd[1]
    BY <1>1, <1>3, <1>10
  <2>2. made = Complementary(n, one, "n", "p", Vss, Vdd)
    BY <1>1, <1>10 DEF MakeNand
  <2> HIDE DEF one
  <2>3. /\ Closed(n, D)
        /\ (\A i \in 1 .. Len(one) : <<one[i], OpensAt("n")>> \in D) =>
             <<made.out, PassesOn("n")>> \in D
        /\ (\E i \in 1 .. Len(one) : <<one[i], OpensAt("p")>> \in D) =>
             <<made.out, PassesOn("p")>> \in D
    BY <1>7, <1>8, <2>1, <2>2, ComplementaryForced
  <2>4. 1 \in 1 .. Len(one) /\ \A i \in 1 .. Len(one) : i = 1
    BY <2>1
  <2>5. value = Flip(in[1]) /\ in[1] \in Logical /\ (in[1] \in Levels => <<nd[1], in[1]>> \in D)
    BY <1>1, <1>2, <1>4, <1>5, <1>10
  <2>6. /\ in[1] = "high" => value = "low" /\ <<nd[1], "high">> \in D
        /\ in[1] = "low" => value = "high" /\ <<nd[1], "low">> \in D
        /\ value \in Levels => in[1] \in Levels
    BY <2>5 DEF Flip, Logical, Levels
  <2> QED  BY <1>7, <2>1, <2>3, <2>4, <2>6 DEF Levels
<1>11. CASE kind = "nand"
  <2>1. made = Complementary(n, nd, "n", "p", Vss, Vdd) /\ value = Decide(in, "low", "high")
    BY <1>1, <1>5, <1>11 DEF MakeNand
  <2>2. /\ Closed(n, D)
        /\ (\A i \in 1 .. Len(nd) : <<nd[i], OpensAt("n")>> \in D) =>
             <<made.out, PassesOn("n")>> \in D
        /\ (\E i \in 1 .. Len(nd) : <<nd[i], OpensAt("p")>> \in D) =>
             <<made.out, PassesOn("p")>> \in D
    BY <1>3, <1>7, <1>8, <2>1, ComplementaryForced
  <2>3. /\ value = "high" <=> \E i \in DOMAIN in : in[i] = "low"
        /\ value = "low" <=> \A i \in DOMAIN in : in[i] = "high"
    BY <1>2, <2>1, DecideIs DEF Levels
  <2>4. 1 .. Len(nd) = DOMAIN in /\ \A i \in DOMAIN in : in[i] \in Levels => <<nd[i], in[i]>> \in D
    BY <1>1, <1>2, <1>3, <1>4
  <2> QED  BY <1>7, <2>2, <2>3, <2>4 DEF Levels
<1>12. CASE kind = "nor"
  <2>1. made = Complementary(n, nd, "p", "n", Vdd, Vss) /\ value = Decide(in, "high", "low")
    BY <1>1, <1>5, <1>12 DEF MakeNor
  <2>2. /\ Closed(n, D)
        /\ (\A i \in 1 .. Len(nd) : <<nd[i], OpensAt("p")>> \in D) =>
             <<made.out, PassesOn("p")>> \in D
        /\ (\E i \in 1 .. Len(nd) : <<nd[i], OpensAt("n")>> \in D) =>
             <<made.out, PassesOn("n")>> \in D
    BY <1>3, <1>7, <1>8, <2>1, ComplementaryForced
  <2>3. /\ value = "low" <=> \E i \in DOMAIN in : in[i] = "high"
        /\ value = "high" <=> \A i \in DOMAIN in : in[i] = "low"
    BY <1>2, <2>1, DecideIs DEF Levels
  <2>4. 1 .. Len(nd) = DOMAIN in /\ \A i \in DOMAIN in : in[i] \in Levels => <<nd[i], in[i]>> \in D
    BY <1>1, <1>2, <1>3, <1>4
  <2> QED  BY <1>7, <2>2, <2>3, <2>4 DEF Levels
<1>13. CASE kind = "tri"
  <2>1. /\ nd[1] \in Pins(n) \cup S /\ nd[2] \in Pins(n) \cup S /\ nd[3] \in Pins(n) \cup S
        /\ in[1] \in Logical /\ in[2] \in Logical /\ in[3] \in Logical
        /\ in[1] \in Levels => <<nd[1], in[1]>> \in D
        /\ in[2] \in Levels => <<nd[2], in[2]>> \in D
        /\ in[3] \in Levels => <<nd[3], in[3]>> \in D
    BY <1>1, <1>2, <1>3, <1>4, <1>13
  <2>2. made = MakeTriStateBuffer(n, nd[1], nd[2], nd[3])
    BY <1>1, <1>13
  <2>3. /\ Closed(n, D)
        /\ <<nd[1], "high">> \in D /\ <<nd[3], "high">> \in D => <<made.out, "high">> \in D
        /\ <<nd[2], "low">> \in D /\ <<nd[3], "low">> \in D => <<made.out, "low">> \in D
    <3>1. \A a, b, c \in Pins(n) \cup S :
            Closed(MakeTriStateBuffer(n, a, b, c).net, D) =>
              /\ Closed(n, D)
              /\ <<a, "high">> \in D /\ <<c, "high">> \in D =>
                   <<MakeTriStateBuffer(n, a, b, c).out, "high">> \in D
              /\ <<b, "low">> \in D /\ <<c, "low">> \in D =>
                   <<MakeTriStateBuffer(n, a, b, c).out, "low">> \in D
      BY TriStateForced
    <3> QED  BY <1>8, <2>1, <2>2, <3>1
  <2>4. value \in Levels => in[1] = "high" /\ in[2] = "low" /\ value = in[3]
    BY <1>5, <1>6, <1>13, <2>1 DEF Switch, Flip, Levels, Logical
  <2> QED  BY <2>1, <2>3, <2>4 DEF Levels
<1>14. CASE kind = "mux"
  <2>1. /\ nd[1] \in Pins(n) \cup S /\ nd[2] \in Pins(n) \cup S
        /\ nd[3] \in Pins(n) \cup S /\ nd[4] \in Pins(n) \cup S
        /\ in[1] \in Logical /\ in[2] \in Logical /\ in[3] \in Logical /\ in[4] \in Logical
        /\ in[1] \in Levels => <<nd[1], in[1]>> \in D
        /\ in[2] \in Levels => <<nd[2], in[2]>> \in D
        /\ in[3] \in Levels => <<nd[3], in[3]>> \in D
        /\ in[4] \in Levels => <<nd[4], in[4]>> \in D
    BY <1>1, <1>2, <1>3, <1>4, <1>14
  <2>2. made = MakeMux(n, nd[1], nd[2], nd[3], nd[4])
    BY <1>1, <1>14
  <2>3. /\ Closed(n, D)
        /\ <<nd[1], "high">> \in D /\ <<nd[3], "low">> \in D => <<made.out, "low">> \in D
        /\ <<nd[2], "low">> \in D /\ <<nd[3], "high">> \in D => <<made.out, "high">> \in D
        /\ <<nd[2], "high">> \in D /\ <<nd[4], "low">> \in D => <<made.out, "low">> \in D
        /\ <<nd[1], "low">> \in D /\ <<nd[4], "high">> \in D => <<made.out, "high">> \in D
    <3>1. \A a, b, c, d \in Pins(n) \cup S :
            Closed(MakeMux(n, a, b, c, d).net, D) =>
              LET out == MakeMux(n, a, b, c, d).out
              IN  /\ Closed(n, D)
                  /\ <<a, "high">> \in D /\ <<c, "low">> \in D => <<out, "low">> \in D
                  /\ <<b, "low">> \in D /\ <<c, "high">> \in D => <<out, "high">> \in D
                  /\ <<b, "high">> \in D /\ <<d, "low">> \in D => <<out, "low">> \in D
                  /\ <<a, "low">> \in D /\ <<d, "high">> \in D => <<out, "high">> \in D
      BY MuxForced
    <3> QED  BY <1>8, <2>1, <2>2, <3>1
  <2>4. value \in Levels => \/ in[1] = "high" /\ in[2] = "low" /\ value = in[3]
                            \/ in[1] = "low" /\ in[2] = "high" /\ value = in[4]
    BY <1>5, <1>6, <1>14, <2>1 DEF Switch, Flip, Levels, Logical
  <2> QED  BY <2>1, <2>3, <2>4 DEF Levels
<1>15. CASE kind = "lookup"
  <2>1. DOMAIN in = 1 .. 4 /\ Len(in) = 4 /\ \A i \in 1 .. 4 : in[i] \in Logical
    BY <1>1, <1>2, <1>15
  <2>2. made = MakeLookup(n, nd[1], nd[2], nd[3], nd[4], lut) /\ value = LookUp(lut, in)
    BY <1>1, <1>5, <1>15
  <2>3. /\ Closed(n, D)
        /\ \A r \in 0 .. 3 :
             <<RowX(nd[1], nd[3], r), OpensAt(RowKind(lut, r))>> \in D
               /\ <<RowY(nd[2], nd[4], r), OpensAt(RowKind(lut, r))>> \in D =>
               <<made.out, PassesOn(RowKind(lut, r))>> \in D
    BY <1>8, <2>2, LookupForced
  <2>4. ASSUME value \in Levels  PROVE <<made.out, value>> \in D
    <3>1. \A i \in 1 .. 4 : in[i] # "none"
      BY <1>6, <1>15, <2>1, <2>2, <2>4, LookUpIs DEF Levels
    <3>2. /\ in[1] \in Levels /\ in[2] \in Levels /\ in[3] = Flip(in[1]) /\ in[4] = Flip(in[2])
          /\ in[3] \in Levels /\ in[4] \in Levels
      <4>1. 1 \in 1 .. 4 /\ 2 \in 1 .. 4 /\ 3 \in 1 .. 4 /\ 4 \in 1 .. 4
        OBVIOUS
      <4> QED  BY <1>6, <1>15, <2>1, <3>1, <4>1 DEF Logical, Levels
    <3>3. /\ <<nd[1], in[1]>> \in D /\ <<nd[2], in[2]>> \in D
          /\ <<nd[3], in[3]>> \in D /\ <<nd[4], in[4]>> \in D
      BY <1>1, <1>4, <1>15, <3>2
    <3> DEFINE x == IF in[1] = "high" THEN 1 ELSE 0
               y == IF in[2] = "high" THEN 1 ELSE 0
               r == 2 * y + x
    <3>4. /\ r \in 0 .. 3 /\ r % 2 = x /\ r \div 2 = y
          /\ 3 - r \in 0 .. 3 /\ (3 - r) % 2 = 1 - x /\ (3 - r) \div 2 = 1 - y
      OBVIOUS
    <3>5. value = FromBool(lut[r + 1])
      <4>1. (r % 2 = 1 <=> in[1] = "high") /\ (r \div 2 = 1 <=> in[2] = "high")
        BY <3>4
      <4>2. r \in 0 .. 3
        BY <3>4
      <4> HIDE DEF r
      <4> QED  BY <1>6, <1>15, <2>1, <2>2, <3>1, <4>1, <4>2, LookUpIs
    <3>6. lut[r + 1] = lut[3 - r + 1] /\ lut[r + 1] \in BOOLEAN
      <4>1. r + 1 \in 1 .. 4
        BY <3>4
      <4>2. /\ r = 0 \/ r = 1 \/ r = 2 \/ r = 3
            /\ 3 - 0 + 1 = 4 /\ 3 - 1 + 1 = 3 /\ 3 - 2 + 1 = 2 /\ 3 - 3 + 1 = 1
        <5>1. r \in 0 .. 3
          BY <3>4
        <5> HIDE DEF r
        <5> QED  BY <5>1
      <4> HIDE DEF r
      <4>3. CASE r = 0  BY <1>6, <1>15, <4>1, <4>2, <4>3
      <4>4. CASE r = 1  BY <1>6, <1>15, <4>1, <4>2, <4>4
      <4>5. CASE r = 2  BY <1>6, <1>15, <4>1, <4>2, <4>5
      <4>6. CASE r = 3  BY <1>6, <1>15, <4>1, <4>2, <4>6
      <4> QED  BY <4>2, <4>3, <4>4, <4>5, <4>6
    <3>7. CASE lut[r + 1]
      <4>1. value = "high" /\ RowKind(lut, 3 - r) = "p"
        BY <3>5, <3>6, <3>7 DEF FromBool, RowKind
      <4>2. RowX(nd[1], nd[3], 3 - r) = IF 1 - x = 1 THEN nd[1] ELSE nd[3]
        BY <3>4 DEF RowX
      <4>3. RowY(nd[2], nd[4], 3 - r) = IF 1 - y = 1 THEN nd[2] ELSE nd[4]
        BY <3>4 DEF RowY
      <4>4. <<IF 1 - x = 1 THEN nd[1] ELSE nd[3], "low">> \in D
        <5>1. CASE in[1] = "high"
          <6>1. ~ (1 - x = 1) /\ in[3] = "low"
            BY <3>2, <5>1 DEF Flip
          <6> HIDE DEF x
          <6> QED  BY <3>3, <6>1
        <5>2. CASE in[1] = "low"
          <6>1. 1 - x = 1
            BY <5>2
          <6> HIDE DEF x
          <6> QED  BY <3>3, <5>2, <6>1
        <5> QED  BY <3>2, <5>1, <5>2 DEF Levels
      <4>5. <<IF 1 - y = 1 THEN nd[2] ELSE nd[4], "low">> \in D
        <5>1. CASE in[2] = "high"
          <6>1. ~ (1 - y = 1) /\ in[4] = "low"
            BY <3>2, <5>1 DEF Flip
          <6> HIDE DEF y
          <6> QED  BY <3>3, <6>1
        <5>2. CASE in[2] = "low"
          <6>1. 1 - y = 1
            BY <5>2
          <6> HIDE DEF y
          <6> QED  BY <3>3, <5>2, <6>1
        <5> QED  BY <3>2, <5>1, <5>2 DEF Levels
      <4>6. 3 - r \in 0 .. 3
        BY <3>4
      <4> HIDE DEF r, x, y
      <4> QED  BY <1>7, <2>3, <4>1, <4>2, <4>3, <4>4, <4>5, <4>6
    <3>8. CASE ~ lut[r + 1]
      <4>1. value = "low" /\ RowKind(lut, r) = "n"
        BY <3>5, <3>8 DEF FromBool, RowKind
      <4>2. RowX(nd[1], nd[3], r) = IF x = 1 THEN nd[1] ELSE nd[3]
        BY <3>4 DEF RowX
      <4>3. RowY(nd[2], nd[4], r) = IF y = 1 THEN nd[2] ELSE nd[4]
        BY <3>4 DEF RowY
      <4>4. <<IF x = 1 THEN nd[1] ELSE nd[3], "high">> \in D
        <5>1. CASE in[1] = "high"
          BY <3>3, <5>1
        <5>2. CASE in[1] = "low"
          <6>1. ~ (x = 1) /\ in[3] = "high"
            BY <3>2, <5>2 DEF Flip
          <6> HIDE DEF x
          <6> QED  BY <3>3, <6>1
        <5> QED  BY <3>2, <5>1, <5>2 DEF Levels
      <4>5. <<IF y = 1 THEN nd[2] ELSE nd[4], "high">> \in D
        <5>1. CASE in[2] = "high"
          BY <3>3, <5>1
        <5>2. CASE in[2] = "low"
          <6>1. ~ (y = 1) /\ in[4] = "high"
            BY <3>2, <5>2 DEF Flip
          <6> HIDE DEF y
          <6> QED  BY <3>3, <6>1
        <5> QED  BY <3>2, <5>1, <5>2 DEF Levels
      <4>6. r \in 0 .. 3
        BY <3>4
      <4> HIDE DEF r, x, y
      <4> QED  BY <1>7, <2>3, <4>1, <4>2, <4>3, <4>4, <4>5, <4>6
    <3> QED  BY <3>7, <3>8
  <2> QED  BY <2>3, <2>4
<1> QED  BY <1>1, <1>10, <1>11, <1>12, <1>13, <1>14, <1>15

\* A gate whose value is what its circuit gives: labels can be extended to its
\* transistors.
LEMMA TransistorizeLabelled ==
  ASSUME NEW gnet, WellShaped(gnet), NEW g \in Live(gnet), NEW X, gnet.ins[g] \in Seq(X),
         gnet.kind[g] \in Kinds, gnet.kind[g] = "lookup" => Len(gnet.ins[g]) = 4,
         NEW n, NEW S, Joins(n, S), Negative(S), Rails \in SUBSET S, NEW nodes,
         \A i \in DOMAIN gnet.ins[g] : nodes[gnet.ins[g][i]] \in Pins(n) \cup S,
         NEW f \in Labelling, Closed(n, LevelsOf(f)), PoweredBy(f),
         NEW v, Takes(gnet, v, g), Realised(gnet, v, g),
         \A i \in DOMAIN gnet.ins[g] : f[nodes[gnet.ins[g][i]]] = Level(v[gnet.ins[g][i]])
  PROVE  Labelled(n, Transistorize(gnet, nodes, n, g), f, Level(v[g]))
<1> DEFINE kind == gnet.kind[g]
           ins == gnet.ins[g]
           lut == gnet.lut[g]
           nd == NodesOf(gnet, nodes, g)
           in == Ins(gnet, v, g)
           made == Transistorize(gnet, nodes, n, g)
           value == CircuitValue(gnet, v, g)
           w == Level(v[g])
<1>1. /\ kind \in {"not", "tri", "mux", "nand", "nor", "lookup"}
      /\ Len(ins) \in Nat /\ DOMAIN ins = 1 .. Len(ins)
      /\ kind = "not" => 1 \in DOMAIN ins
      /\ kind = "tri" => 1 \in DOMAIN ins /\ 2 \in DOMAIN ins /\ 3 \in DOMAIN ins
      /\ kind \in {"mux", "lookup"} =>
           1 \in DOMAIN ins /\ 2 \in DOMAIN ins /\ 3 \in DOMAIN ins /\ 4 \in DOMAIN ins
      /\ kind = "lookup" => DOMAIN ins = 1 .. 4
      /\ kind = "not" => made = MakeNand(n, <<nd[1]>>)
      /\ kind = "tri" => made = MakeTriStateBuffer(n, nd[1], nd[2], nd[3])
      /\ kind = "mux" => made = MakeMux(n, nd[1], nd[2], nd[3], nd[4])
      /\ kind = "nand" => made = MakeNand(n, nd)
      /\ kind = "nor" => made = MakeNor(n, nd)
      /\ kind = "lookup" => made = MakeLookup(n, nd[1], nd[2], nd[3], nd[4], lut)
  <2>1. Shaped(gnet, nodes, n, g)
    BY GateShape
  <2> QED  BY <2>1 DEF Shaped
<1>2. /\ DOMAIN in = DOMAIN ins /\ Len(in) = Len(ins)
      /\ \A i \in DOMAIN ins : in[i] = v[ins[i]] /\ in[i] \in Logical
  <2>1. in = [i \in DOMAIN ins |-> v[ins[i]]]
    BY DEF Ins
  <2>2. \A i \in DOMAIN in : in[i] \in Logical
    BY DEF Takes
  <2> HIDE DEF ins, in
  <2> QED  BY <1>1, <2>1, <2>2
<1>3. /\ nd \in Seq(Pins(n) \cup S) /\ Len(nd) = Len(ins) /\ DOMAIN nd = DOMAIN ins
      /\ \A i \in DOMAIN ins : nd[i] = nodes[ins[i]] /\ nd[i] \in Pins(n) \cup S
  BY <1>1 DEF NodesOf
<1>4. \A i \in DOMAIN ins : f[nd[i]] = Level(in[i])
  BY <1>2, <1>3
<1>5. /\ kind = "not" => value = Flip(in[1])
      /\ kind = "tri" => value = IF "none" \in {in[1], in[2]} THEN "none"
                                 ELSE Switch(in[1], in[3], "z")
      /\ kind = "mux" => value = IF "none" \in {in[1], in[2]} THEN "none"
                                 ELSE IF in[3] = in[4] THEN in[3]
                                 ELSE Switch(in[1], in[3], in[4])
      /\ kind = "nand" => value = Decide(in, "low", "high")
      /\ kind = "nor" => value = Decide(in, "high", "low")
      /\ kind = "lookup" => value = LookUp(lut, in)
  <2>1. \A i \in DOMAIN in : in[i] # "z"
    BY <1>2 DEF Logical
  <2> QED  BY <1>1, <2>1, CircuitIs
<1>6. /\ kind \in {"tri", "mux"} => in[2] = Flip(in[1])
      /\ kind = "lookup" => in[3] = Flip(in[1]) /\ in[4] = Flip(in[2])
      /\ value = v[g]
  BY DEF Realised, Ins
<1>16. kind = "lookup" =>
           /\ DOMAIN lut = 1 .. 4 /\ lut[1] = lut[4] /\ lut[2] = lut[3]
           /\ \A r \in DOMAIN lut : lut[r] \in BOOLEAN
  BY DEF Takes
<1>7. /\ OpensAt("n") = "high" /\ OpensAt("p") = "low"
      /\ PassesOn("n") = "low" /\ PassesOn("p") = "high"
      /\ "n" \in {"n", "p"} /\ "p" \in {"n", "p"} /\ "n" # "p"
      /\ f[Vss] = PassesOn("n") /\ f[Vdd] = PassesOn("p")
      /\ Vdd \in Rails /\ Vss \in Rails
  BY DEF PassesOn, OpensAt, PoweredBy, Rails
<1>8. w = Level(value) /\ w \in Label
  BY <1>6 DEF Level, Label
<1>9. \A x \in Logical, l \in Levels : Level(x) = l <=> x = l
  BY DEF Level, Logical, Levels
<1> HIDE DEF kind, ins, lut, nd, in, value, made, w
<1> SUFFICES Labelled(n, made, f, w)
  BY DEF made, w
<1>10. CASE kind = "not"
  <2> DEFINE one == <<nd[1]>>
  <2>1. one \in Seq(Pins(n) \cup S) /\ Len(one) = 1 /\ one[1] = nd[1]
    BY <1>1, <1>3, <1>10
  <2>2. made = Complementary(n, one, "n", "p", Vss, Vdd)
    BY <1>1, <1>10 DEF MakeNand
  <2> HIDE DEF one
  <2>4. 1 \in 1 .. Len(one) /\ \A i \in 1 .. Len(one) : i = 1
    BY <2>1
  <2>5. value = Flip(in[1]) /\ in[1] \in Logical /\ f[nd[1]] = Level(in[1])
    BY <1>1, <1>2, <1>4, <1>5, <1>10
  <2>6. (f[nd[1]] = "high" => w = "low") /\ (f[nd[1]] = "low" => w = "high")
    BY <1>8, <2>5 DEF Flip, Logical, Levels, Level
  <2>7. /\ (\A i \in 1 .. Len(one) : f[one[i]] = OpensAt("n")) => w = PassesOn("n")
        /\ (\E i \in 1 .. Len(one) : f[one[i]] = OpensAt("p")) => w = PassesOn("p")
    BY <1>7, <2>1, <2>4, <2>6
  <2> QED  BY <1>7, <1>8, <2>1, <2>2, <2>7, ComplementaryLabelled
<1>11. CASE kind = "nand"
  <2>1. made = Complementary(n, nd, "n", "p", Vss, Vdd) /\ value = Decide(in, "low", "high")
    BY <1>1, <1>5, <1>11 DEF MakeNand
  <2>3. /\ value = "high" <=> \E i \in DOMAIN in : in[i] = "low"
        /\ value = "low" <=> \A i \in DOMAIN in : in[i] = "high"
    BY <1>2, <2>1, DecideIs DEF Levels
  <2>4. 1 .. Len(nd) = DOMAIN in /\ \A i \in DOMAIN in : f[nd[i]] = Level(in[i]) /\ in[i] \in Logical
    BY <1>1, <1>2, <1>3, <1>4
  <2>5. (value = "high" => w = "high") /\ (value = "low" => w = "low")
    BY <1>8 DEF Level, Levels
  <2>6. /\ (\A i \in 1 .. Len(nd) : f[nd[i]] = OpensAt("n")) => w = PassesOn("n")
        /\ (\E i \in 1 .. Len(nd) : f[nd[i]] = OpensAt("p")) => w = PassesOn("p")
    BY <1>7, <1>9, <2>3, <2>4, <2>5 DEF Levels
  <2> QED  BY <1>3, <1>7, <1>8, <2>1, <2>6, ComplementaryLabelled
<1>12. CASE kind = "nor"
  <2>1. made = Complementary(n, nd, "p", "n", Vdd, Vss) /\ value = Decide(in, "high", "low")
    BY <1>1, <1>5, <1>12 DEF MakeNor
  <2>3. /\ value = "low" <=> \E i \in DOMAIN in : in[i] = "high"
        /\ value = "high" <=> \A i \in DOMAIN in : in[i] = "low"
    BY <1>2, <2>1, DecideIs DEF Levels
  <2>4. 1 .. Len(nd) = DOMAIN in /\ \A i \in DOMAIN in : f[nd[i]] = Level(in[i]) /\ in[i] \in Logical
    BY <1>1, <1>2, <1>3, <1>4
  <2>5. (value = "high" => w = "high") /\ (value = "low" => w = "low")
    BY <1>8 DEF Level, Levels
  <2>6. /\ (\A i \in 1 .. Len(nd) : f[nd[i]] = OpensAt("p")) => w = PassesOn("p")
        /\ (\E i \in 1 .. Len(nd) : f[nd[i]] = OpensAt("n")) => w = PassesOn("n")
    BY <1>7, <1>9, <2>3, <2>4, <2>5 DEF Levels
  <2> QED  BY <1>3, <1>7, <1>8, <2>1, <2>6, ComplementaryLabelled
<1>13. CASE kind = "tri"
  <2>1. /\ nd[1] \in Pins(n) \cup S /\ nd[2] \in Pins(n) \cup S /\ nd[3] \in Pins(n) \cup S
        /\ in[1] \in Logical /\ in[2] \in Logical /\ in[3] \in Logical
        /\ f[nd[1]] = Level(in[1]) /\ f[nd[2]] = Level(in[2]) /\ f[nd[3]] = Level(in[3])
    BY <1>1, <1>2, <1>3, <1>4, <1>13
  <2>2. made = MakeTriStateBuffer(n, nd[1], nd[2], nd[3])
    BY <1>1, <1>13
  <2>3. \A e, ne, d \in Pins(n) \cup S :
          /\ f[e] = "high" /\ f[d] = "high" => w = "high"
          /\ f[ne] = "low" /\ f[d] = "low" => w = "low"
          => Labelled(n, MakeTriStateBuffer(n, e, ne, d), f, w)
    BY <1>8, TriStateLabelled
  <2>4. /\ in[1] = "high" /\ in[3] = "high" => value = "high"
        /\ in[2] = "low" /\ in[3] = "low" => value = "low"
    BY <1>5, <1>6, <1>13, <2>1 DEF Switch, Flip, Logical
  <2>5. /\ f[nd[1]] = "high" /\ f[nd[3]] = "high" => w = "high"
        /\ f[nd[2]] = "low" /\ f[nd[3]] = "low" => w = "low"
    BY <1>8, <2>1, <2>4 DEF Level, Logical, Levels
  <2> QED  BY <2>1, <2>2, <2>3, <2>5
<1>14. CASE kind = "mux"
  <2>1. /\ nd[1] \in Pins(n) \cup S /\ nd[2] \in Pins(n) \cup S
        /\ nd[3] \in Pins(n) \cup S /\ nd[4] \in Pins(n) \cup S
        /\ in[1] \in Logical /\ in[2] \in Logical /\ in[3] \in Logical /\ in[4] \in Logical
        /\ f[nd[1]] = Level(in[1]) /\ f[nd[2]] = Level(in[2]) /\ f[nd[3]] = Level(in[3])
        /\ f[nd[4]] = Level(in[4])
    BY <1>1, <1>2, <1>3, <1>4, <1>14
  <2>2. made = MakeMux(n, nd[1], nd[2], nd[3], nd[4])
    BY <1>1, <1>14
  <2>3. \A sel, notSel, a, b \in Pins(n) \cup S :
          /\ f[sel] = "high" /\ f[a] = "low" => w = "low"
          /\ f[notSel] = "low" /\ f[a] = "high" => w = "high"
          /\ f[notSel] = "high" /\ f[b] = "low" => w = "low"
          /\ f[sel] = "low" /\ f[b] = "high" => w = "high"
          => Labelled(n, MakeMux(n, sel, notSel, a, b), f, w)
    BY <1>8, MuxLabelled
  <2>4. /\ in[1] = "high" /\ in[3] = "low" => value = "low"
        /\ in[2] = "low" /\ in[3] = "high" => value = "high"
        /\ in[2] = "high" /\ in[4] = "low" => value = "low"
        /\ in[1] = "low" /\ in[4] = "high" => value = "high"
    BY <1>5, <1>6, <1>14, <2>1 DEF Switch, Flip, Logical
  <2>5. /\ f[nd[1]] = "high" /\ f[nd[3]] = "low" => w = "low"
        /\ f[nd[2]] = "low" /\ f[nd[3]] = "high" => w = "high"
        /\ f[nd[2]] = "high" /\ f[nd[4]] = "low" => w = "low"
        /\ f[nd[1]] = "low" /\ f[nd[4]] = "high" => w = "high"
    BY <1>8, <2>1, <2>4 DEF Level, Logical, Levels
  <2> QED  BY <2>1, <2>2, <2>3, <2>5
<1>15. CASE kind = "lookup"
  <2>1. DOMAIN in = 1 .. 4 /\ Len(in) = 4 /\ \A i \in 1 .. 4 : in[i] \in Logical
    BY <1>1, <1>2, <1>15
  <2>2. made = MakeLookup(n, nd[1], nd[2], nd[3], nd[4], lut) /\ value = LookUp(lut, in)
    BY <1>1, <1>5, <1>15
  <2>3. /\ nd[1] \in Pins(n) \cup S /\ nd[2] \in Pins(n) \cup S
        /\ nd[3] \in Pins(n) \cup S /\ nd[4] \in Pins(n) \cup S
        /\ in[1] \in Logical /\ in[2] \in Logical /\ in[3] \in Logical /\ in[4] \in Logical
        /\ f[nd[1]] = Level(in[1]) /\ f[nd[2]] = Level(in[2]) /\ f[nd[3]] = Level(in[3])
        /\ f[nd[4]] = Level(in[4])
    BY <1>1, <1>2, <1>3, <1>4, <1>15
  <2>4. in[3] = Flip(in[1]) /\ in[4] = Flip(in[2])
    BY <1>6, <1>15
  <2>5. ASSUME NEW r \in 0 .. 3, f[RowX(nd[1], nd[3], r)] = OpensAt(RowKind(lut, r)),
               f[RowY(nd[2], nd[4], r)] = OpensAt(RowKind(lut, r))
        PROVE  w = PassesOn(RowKind(lut, r))
    <3> DEFINE k == OpensAt(RowKind(lut, r))
               a == IF r % 2 = 1 THEN in[1] ELSE in[3]
               b == IF r \div 2 = 1 THEN in[2] ELSE in[4]
    <3>1. k \in Levels
      BY DEF OpensAt, Levels
    <3>2. Level(a) = k /\ Level(b) = k /\ a \in Logical /\ b \in Logical
      BY <2>3, <2>5 DEF RowX, RowY
    <3>3. a = k /\ b = k
      BY <1>9, <3>1, <3>2
    <3>4. \A i \in 1 .. 4 : in[i] # "none"
      <4>1. in[1] # "none" /\ in[2] # "none" /\ in[3] # "none" /\ in[4] # "none"
        BY <2>3, <2>4, <3>1, <3>3 DEF Flip, Levels, Logical
      <4>2. \A i \in 1 .. 4 : i = 1 \/ i = 2 \/ i = 3 \/ i = 4
        OBVIOUS
      <4> QED  BY <4>1, <4>2
    <3>5. lut[r + 1] = lut[3 - r + 1] /\ lut[r + 1] \in BOOLEAN
      <4>1. r + 1 \in 1 .. 4
        OBVIOUS
      <4>2. /\ r = 0 \/ r = 1 \/ r = 2 \/ r = 3
            /\ 3 - 0 + 1 = 4 /\ 3 - 1 + 1 = 3 /\ 3 - 2 + 1 = 2 /\ 3 - 3 + 1 = 1
        OBVIOUS
      <4>3. CASE r = 0  BY <1>15, <1>16, <4>1, <4>2, <4>3
      <4>4. CASE r = 1  BY <1>15, <1>16, <4>1, <4>2, <4>4
      <4>5. CASE r = 2  BY <1>15, <1>16, <4>1, <4>2, <4>5
      <4>6. CASE r = 3  BY <1>15, <1>16, <4>1, <4>2, <4>6
      <4> QED  BY <4>2, <4>3, <4>4, <4>5, <4>6
    <3>6. \A q \in 0 .. 3 : (q % 2 = 1 <=> in[1] = "high") /\ (q \div 2 = 1 <=> in[2] = "high") =>
            LookUp(lut, in) = FromBool(lut[q + 1])
      BY <1>15, <1>16, <2>1, <3>4, LookUpIs
    <3>7. CASE lut[r + 1]
      <4>1. k = "low" /\ PassesOn(RowKind(lut, r)) = "high"
        BY <1>7, <3>7 DEF RowKind
      <4>2. /\ r % 2 = 1 <=> in[1] # "high"
            /\ r \div 2 = 1 <=> in[2] # "high"
        <5>1. a = "low" /\ b = "low"
          BY <3>3, <4>1
        <5> HIDE DEF k
        <5> QED  BY <2>3, <2>4, <5>1 DEF Flip, Logical
      <4>3. /\ 3 - r \in 0 .. 3 /\ (3 - r) % 2 = 1 <=> ~ (r % 2 = 1)
            /\ (3 - r) \div 2 = 1 <=> ~ (r \div 2 = 1)
        OBVIOUS
      <4>4. value = FromBool(lut[3 - r + 1])
        BY <2>2, <3>6, <4>2, <4>3
      <4>5. value = "high"
        BY <3>5, <3>7, <4>4 DEF FromBool
      <4> QED  BY <1>8, <4>1, <4>5 DEF Level, Levels
    <3>8. CASE ~ lut[r + 1]
      <4>1. k = "high" /\ PassesOn(RowKind(lut, r)) = "low"
        BY <1>7, <3>8 DEF RowKind
      <4>2. /\ r % 2 = 1 <=> in[1] = "high"
            /\ r \div 2 = 1 <=> in[2] = "high"
        <5>1. a = "high" /\ b = "high"
          BY <3>3, <4>1
        <5> HIDE DEF k
        <5> QED  BY <2>3, <2>4, <5>1 DEF Flip, Logical
      <4>4. value = FromBool(lut[r + 1])
        BY <2>2, <3>6, <4>2
      <4>5. value = "low"
        BY <3>8, <4>4 DEF FromBool
      <4> QED  BY <1>8, <4>1, <4>5 DEF Level, Levels
    <3> QED  BY <3>7, <3>8
  <2>6. \A a, b, na, nb \in Pins(n) \cup S :
          (\A r \in 0 .. 3 : f[RowX(a, na, r)] = OpensAt(RowKind(lut, r))
                               /\ f[RowY(b, nb, r)] = OpensAt(RowKind(lut, r)) =>
                                 w = PassesOn(RowKind(lut, r)))
          => Labelled(n, MakeLookup(n, a, b, na, nb, lut), f, w)
    BY <1>8, LookupLabelled
  <2> QED  BY <2>2, <2>3, <2>5, <2>6
<1> QED  BY <1>1, <1>10, <1>11, <1>12, <1>13, <1>14, <1>15

----------------------------------------------------------------------------
(* The values of the gates in a row.                                         *)

\* The values of a state in progress.
Values == Known \cup {"none"}
States == [Terminals -> Values]

\* What the gates read is among the terminals.
LEMMA ReadsTerminals ==
  ASSUME NEW n \in GateNetworks, NEW g \in Live(n)
  PROVE  /\ g \in Gates /\ g \in Terminals
         /\ DOMAIN n.ins[g] = 1 .. Len(n.ins[g]) /\ Len(n.ins[g]) \in Nat
         /\ \A i \in DOMAIN n.ins[g] : n.ins[g][i] \in Terminals
         /\ n.lut[g] \in Seq(BOOLEAN)
<1>1. Live(n) \in SUBSET Gates /\ n.ins[g] \in Seq(Terminals \cup {Null})
  BY NetworkFacts
<1>2. \A i \in DOMAIN n.ins[g] : n.ins[g][i] \in LiveTerminals(n)
  BY NetworkFacts
<1>3. LiveTerminals(n) \in SUBSET Terminals
  BY <1>1 DEF LiveTerminals, Terminals
<1>4. n.lut \in [Gates -> Seq(BOOLEAN)]
  <2>1. WellFormed(n)
    BY LowerAssumption
  <2> QED  BY <2>1 DEF WellFormed, IsNet
<1>5. Gates \in SUBSET Terminals
  BY DEF Terminals
<1> QED  BY <1>1, <1>2, <1>3, <1>4, <1>5

\* What a gate computes is a value.
LEMMA ComputeTyped ==
  ASSUME NEW n \in GateNetworks, NEW g \in Gates, NEW s \in States
  PROVE  /\ ComputeValue(n, s, g) \in Values
         /\ g \notin Live(n) => ComputeValue(n, s, g) = "none"
<1>1. CASE g \notin Live(n)
  <2>1. n.kind[g] = "dead"
    BY <1>1 DEF Live
  <2> QED  BY <1>1, <2>1 DEF ComputeValue, Values
<1>2. CASE g \in Live(n)
  <2> DEFINE a == Read(n, s, g)
             I == DOMAIN n.ins[g]
  <2>1. \A i \in I : s[n.ins[g][i]] \in Values
    BY <1>2, ReadsTerminals DEF States
  <2>2. DOMAIN a = I /\ \A i \in I : a[i] \in Logical
    BY <2>1 DEF Read, Values, Known, Logical
  <2>3. n.kind[g] \in Kinds \ {"dead"}
    BY <1>2, NetworkFacts DEF Live
  <2>4. I = 1 .. Len(n.ins[g]) /\ Len(n.ins[g]) \in Nat
    BY <1>2, ReadsTerminals
  <2>5. /\ n.kind[g] = "not" => Len(n.ins[g]) >= 1
        /\ n.kind[g] = "tri" => Len(n.ins[g]) >= 3
        /\ n.kind[g] = "mux" => Len(n.ins[g]) >= 4
    BY <1>2, NetworkFacts DEF WellShaped
  <2>6. /\ n.kind[g] = "not" => 1 \in I
        /\ n.kind[g] = "tri" => 1 \in I /\ 3 \in I
        /\ n.kind[g] = "mux" => 1 \in I /\ 3 \in I /\ 4 \in I
    BY <2>4, <2>5
  <2>7. ComputeValue(n, s, g) =
          CASE n.kind[g] = "dead" -> "none"
            [] n.kind[g] = "not"  -> Flip(a[1])
            [] n.kind[g] = "tri"  -> Switch(a[1], a[3], "z")
            [] n.kind[g] = "mux"  -> IF a[3] = a[4] THEN a[3] ELSE Switch(a[1], a[3], a[4])
            [] n.kind[g] = "nand" -> Decide(a, "low", "high")
            [] n.kind[g] = "nor"  -> Decide(a, "high", "low")
            [] n.kind[g] = "lookup" -> LookUp(n.lut[g], a)
    BY DEF ComputeValue
  <2> HIDE DEF a, I
  <2>8. Decide(a, "low", "high") \in Values /\ Decide(a, "high", "low") \in Values
    BY DEF Decide, Flip, Values, Known
  <2>9. LookUp(n.lut[g], a) \in Values
    BY DEF LookUp, FromBool, Values, Known
  <2>10. n.kind[g] = "not" => Flip(a[1]) \in Values
    BY <2>2, <2>6 DEF Flip, Logical, Values, Known
  <2>11. n.kind[g] = "tri" => Switch(a[1], a[3], "z") \in Values
    BY <2>2, <2>6 DEF Switch, Logical, Values, Known
  <2>12. n.kind[g] = "mux" => /\ a[3] \in Values
                              /\ Switch(a[1], a[3], a[4]) \in Values
    BY <2>2, <2>6 DEF Switch, Logical, Values, Known
  <2> QED  BY <1>2, <2>3, <2>7, <2>8, <2>9, <2>10, <2>11, <2>12 DEF Kinds
<1> QED  BY <1>1, <1>2

\* One round leaves all but the gates as they are.
LEMMA DecidedTyped ==
  ASSUME NEW n \in GateNetworks, NEW s \in States
  PROVE  /\ Decided(n, s) \in States
         /\ \A t \in Terminals \ Live(n) : Decided(n, s)[t] = s[t]
<1> DEFINE Next1(t) == IF s[t] = "none" /\ t \in Gates THEN ComputeValue(n, s, t) ELSE s[t]
<1>1. DOMAIN s = Terminals /\ \A t \in Terminals : s[t] \in Values
  BY DEF States
<1>2. Decided(n, s) = [t \in Terminals |-> Next1(t)]
  BY <1>1, Zenon DEF Decided
<1>3. \A t \in Terminals : Next1(t) \in Values
  BY <1>1, ComputeTyped
<1>4. \A t \in Terminals \ Live(n) : Next1(t) = s[t]
  BY <1>1, ComputeTyped
<1> HIDE DEF Next1
<1> QED  BY <1>2, <1>3, <1>4 DEF States

\* So do all rounds.
LEMMA SettleTyped ==
  ASSUME NEW n \in GateNetworks, NEW s \in States, NEW k \in Nat
  PROVE  /\ Settle(n, s, k) \in States
         /\ \A t \in Terminals \ Live(n) : Settle(n, s, k)[t] = s[t]
<1> DEFINE Next1(x) == {Decided(n, u) : u \in x}
           Rounds(f, l) == f = [j \in 0 .. l |-> IF j = 0 THEN {s} ELSE Next1(f[j - 1])]
           T == {l \in Nat : ~ \E f : Rounds(f, l)}
           after == CHOOSE f : Rounds(f, k)
<1>1. T = {}
  <2> SUFFICES ASSUME T # {} PROVE FALSE
    OBVIOUS
  <2>1. PICK m \in T : \A l \in T : m <= l
    BY LeastElement, T \in SUBSET Nat
  <2>2. m # 0
    <3> DEFINE f == [j \in 0 .. 0 |-> {s}]
    <3>1. Rounds(f, 0)
      OBVIOUS
    <3> QED  BY <3>1
  <2>3. PICK l \in Nat : m = l + 1 /\ l \notin T
    <3>1. m - 1 \in Nat /\ m = (m - 1) + 1 /\ ~ (m <= m - 1)
      BY <2>2
    <3> QED  BY <2>1, <3>1
  <2>4. PICK f : Rounds(f, l)
    BY <2>3
  <2> HIDE DEF Next1
  <2> DEFINE e == [j \in 0 .. l + 1 |-> IF j = l + 1 THEN Next1(f[l]) ELSE f[j]]
  <2>5. ASSUME NEW j \in 0 .. l + 1
        PROVE  e[j] = IF j = 0 THEN {s} ELSE Next1(e[j - 1])
    <3>1. CASE j = l + 1
      <4>1. e[l] = f[l] /\ j # 0 /\ j - 1 = l
        BY <3>1
      <4> QED  BY <3>1, <4>1
    <3>2. CASE j # l + 1
      <4>1. e[j] = f[j] /\ j \in 0 .. l
        BY <3>2
      <4>2. j # 0 => j - 1 \in 0 .. l /\ e[j - 1] = f[j - 1]
        BY <4>1
      <4> QED  BY <2>4, <4>1, <4>2
    <3> QED  BY <3>1, <3>2
  <2>6. Rounds(e, l + 1)
    BY <2>5
  <2> QED  BY <2>1, <2>3, <2>6
<1>2. Rounds(after, k)
  <2>1. \E f : Rounds(f, k)
    <3> HIDE DEF Rounds
    <3> QED  BY <1>1
  <2> HIDE DEF Rounds
  <2> QED  BY <2>1
<1>3. Settle(n, s, k) = CHOOSE x \in after[k] : TRUE
  BY Zenon DEF Settle
<1> HIDE DEF after
<1> DEFINE Good(x) == x \in States /\ \A t \in Terminals \ Live(n) : x[t] = s[t]
           S == {j \in 0 .. k : \E x : after[j] = {x} /\ Good(x)}
<1>4. 0 \in S
  <2>1. after[0] = {s} /\ 0 \in 0 .. k
    BY <1>2
  <2>2. Good(s)
    OBVIOUS
  <2> HIDE DEF Good
  <2> QED  BY <2>1, <2>2
<1>5. ASSUME NEW j \in 1 .. k, j - 1 \in S
      PROVE  j \in S
  <2>1. PICK x : after[j - 1] = {x} /\ Good(x)
    BY <1>5
  <2>2. j \in 0 .. k /\ after[j] = Next1(after[j - 1])
    <3>1. j \in 0 .. k /\ j # 0
      OBVIOUS
    <3>2. \A i \in 0 .. k : after[i] = IF i = 0 THEN {s} ELSE Next1(after[i - 1])
      <4> HIDE DEF Next1
      <4> QED  BY <1>2
    <3> HIDE DEF Next1
    <3> QED  BY <3>1, <3>2
  <2>3. after[j] = {Decided(n, x)}
    BY <2>1, <2>2
  <2>4. Good(Decided(n, x))
    BY <2>1, DecidedTyped
  <2> HIDE DEF Good
  <2> QED  BY <2>2, <2>3, <2>4
<1>6. k \in S
  <2> HIDE DEF S
  <2>1. \A j \in 0 .. k : j \in S
    BY <1>4, <1>5, UpTo
  <2> QED  BY <2>1
<1>7. PICK x : after[k] = {x} /\ Good(x)
  <2> HIDE DEF Good
  <2> QED  BY <1>6
<1>8. Settle(n, s, k) = x
  BY <1>3, <1>7
<1> QED  BY <1>7, <1>8

\* The levels a row begins with, and the rows there are.
RowStart(r) == StartOf(Len(InputOrder), r)
AllRows == 0 .. 2 ^ Len(InputOrder) - 1

\* The position of an input among those declared.
OrderOf(t) == CHOOSE i \in DOMAIN InputOrder : InputOrder[i] = t

LEMMA OrderFacts ==
  ASSUME NEW t \in Inputs
  PROVE  /\ OrderOf(t) \in 1 .. Len(InputOrder)
         /\ OrderOf(t) - 1 \in 0 .. Len(InputOrder) - 1
<1>1. \E i \in DOMAIN InputOrder : InputOrder[i] = t
  BY LowerAssumption
<1>2. OrderOf(t) \in DOMAIN InputOrder
  BY <1>1 DEF OrderOf
<1>3. DOMAIN InputOrder = 1 .. Len(InputOrder) /\ Len(InputOrder) \in Nat
  BY LowerAssumption
<1> HIDE DEF OrderOf
<1> QED  BY <1>2, <1>3

\* The gates are finitely many.
LEMMA LiveFinite ==
  ASSUME NEW n
  PROVE  IsFiniteSet(Live(n)) /\ Cardinality(Live(n)) \in Nat
<1>1. IsFiniteSet(1 .. MaxGates)
  <2>1. 1 \in Int /\ MaxGates \in Int
    BY NetAssumption
  <2> QED  BY <2>1, FS_Interval
<1>2. Live(n) \in SUBSET (1 .. MaxGates)
  BY DEF Live, Gates
<1>3. IsFiniteSet(Live(n))
  BY <1>1, <1>2, FS_Subset
<1> QED  BY <1>3, FS_CardinalityType

\* In a row, the inputs and the constants have their levels.
LEMMA GateValuesTyped ==
  ASSUME NEW n \in GateNetworks, NEW r
  PROVE  /\ GateValuesOf(n, r) \in States
         /\ \A t \in Inputs : GateValuesOf(n, r)[t] = RowLevel(r, OrderOf(t) - 1)
         /\ GateValuesOf(n, r)[Low] = "low" /\ GateValuesOf(n, r)[High] = "high"
<1> DEFINE given == [i \in Inputs |-> RowLevel(r, OrderOf(i) - 1)]
           k == Cardinality(Live(n))
<1>1. GateValuesOf(n, r) = Settle(n, Start(given), k)
  BY Zenon DEF GateValuesOf, OrderOf
<1>2. \A i \in Inputs : given[i] = RowLevel(r, OrderOf(i) - 1) /\ given[i] \in Levels
  BY DEF RowLevel, Levels
<1>3. DOMAIN given = Inputs
  OBVIOUS
<1> HIDE DEF given
<1>4. /\ Low \notin Inputs /\ High \notin Inputs /\ Low # High
      /\ Low \notin Gates /\ High \notin Gates /\ Inputs \cap Gates = {}
  BY NetAssumption DEF Gates
<1>5. Start(given) = [t \in Terminals |-> CASE t \in Inputs -> given[t]
                                            [] t = Low -> "low"
                                            [] t = High -> "high"
                                            [] OTHER -> "none"]
  BY <1>3 DEF Start
<1>6. Inputs \in SUBSET Terminals /\ Low \in Terminals /\ High \in Terminals
  BY DEF Terminals
<1>7. Start(given) \in States
  <2>1. \A t \in Terminals : Start(given)[t] \in Values
    BY <1>2, <1>5 DEF Values, Known, Levels
  <2> QED  BY <1>5, <2>1 DEF States
<1>8. /\ \A t \in Inputs : Start(given)[t] = given[t]
      /\ Start(given)[Low] = "low" /\ Start(given)[High] = "high"
  BY <1>4, <1>5, <1>6
<1>9. k \in Nat
  BY LiveFinite
<1> HIDE DEF k
<1>10. /\ Settle(n, Start(given), k) \in States
       /\ \A t \in Terminals \ Live(n) : Settle(n, Start(given), k)[t] = Start(given)[t]
  BY <1>7, <1>9, SettleTyped
<1>11. Live(n) \in SUBSET Gates
  BY NetworkFacts
<1> QED  BY <1>1, <1>2, <1>4, <1>6, <1>8, <1>10, <1>11

\* They are those that the row begins with.
LEMMA PlacedStart ==
  ASSUME NEW n \in GateNetworks, NEW r, NEW t \in LiveTerminals(n)
  PROVE  /\ t \in Live(n) => Placed(n)[t] = Placeholder(t)
         /\ t \notin Live(n) =>
              /\ Placed(n)[t] \in DOMAIN RowStart(r)
              /\ RowStart(r)[Placed(n)[t]] = GateValuesOf(n, r)[t]
              /\ GateValuesOf(n, r)[t] \in Levels
<1> DEFINE l == Len(InputOrder)
           v == GateValuesOf(n, r)
<1>1. Placed(n)[t] = CASE t = Low         -> Vss
                       [] t = High        -> Vdd
                       [] t \in Inputs    -> InputBit(OrderOf(t) - 1)
                       [] t \in Gates     -> Placeholder(t)
  BY DEF Placed, OrderOf
<1>2. /\ Low \notin Inputs /\ High \notin Inputs /\ Low # High
      /\ Low \notin Gates /\ High \notin Gates /\ Inputs \cap Gates = {}
  BY NetAssumption DEF Gates
<1>3. Live(n) \in SUBSET Gates
  BY NetworkFacts
<1>4. l \in Nat
  BY LowerAssumption
<1>5. RowStart(r) = [node \in {Vdd, Vss} \cup {InputBit(i) : i \in 0 .. l - 1} |->
                       CASE node = Vdd -> "high"
                         [] node = Vss -> "low"
                         [] node <= InputBit(0) -> RowLevel(r, InputBit(0) - node)]
  BY DEF RowStart, StartOf
<1>6. RowStart(r)[Vdd] = "high" /\ RowStart(r)[Vss] = "low"
  BY <1>5 DEF Vdd, Vss
<1>7. Vdd \in DOMAIN RowStart(r) /\ Vss \in DOMAIN RowStart(r)
  BY <1>5
<1>8. t \in Live(n) => Placed(n)[t] = Placeholder(t)
  BY <1>1, <1>2, <1>3
<1>9. v[Low] = "low" /\ v[High] = "high" /\ \A i \in Inputs : v[i] = RowLevel(r, OrderOf(i) - 1)
  BY GateValuesTyped
<1>10. CASE t = Low
  BY <1>1, <1>2, <1>3, <1>6, <1>7, <1>8, <1>9, <1>10 DEF Levels
<1>11. CASE t = High
  BY <1>1, <1>2, <1>3, <1>6, <1>7, <1>8, <1>9, <1>11 DEF Levels
<1>12. CASE t \in Inputs
  <2> DEFINE j == OrderOf(t) - 1
  <2>1. j \in 0 .. l - 1
    BY <1>12, OrderFacts
  <2>2. Placed(n)[t] = InputBit(j)
    BY <1>1, <1>2, <1>12
  <2> HIDE DEF j, l
  <2>3. InputBit(j) \in DOMAIN RowStart(r)
    BY <1>5, <2>1
  <2>4. /\ InputBit(j) # Vdd /\ InputBit(j) # Vss /\ InputBit(j) <= InputBit(0)
        /\ InputBit(0) - InputBit(j) = j
    BY <1>4, <2>1 DEF InputBit, Vdd, Vss
  <2>5. RowStart(r)[InputBit(j)] = RowLevel(r, j)
    BY <1>5, <2>3, <2>4
  <2>6. v[t] = RowLevel(r, j)
    BY <1>9, <1>12 DEF j
  <2>7. RowLevel(r, j) \in Levels
    BY DEF RowLevel, Levels
  <2> QED  BY <1>8, <2>2, <2>3, <2>5, <2>6, <2>7
<1>13. t \in Live(n) \/ t = Low \/ t = High \/ t \in Inputs
  BY DEF LiveTerminals
<1> QED  BY <1>8, <1>10, <1>11, <1>12, <1>13

\* s is v without some of its values.
Partly(s, v) == s \in States /\ \A t \in Terminals : s[t] \in {v[t], "none"}

\* What the circuit of a gate takes it also takes as long as values are missing, and
\* nothing but a tri-state buffer that is off gives high impedance.
LEMMA RealisedTakes ==
  ASSUME NEW n \in GateNetworks, NEW g \in Live(n), NEW v \in States, Realised(n, v, g),
         n.kind[g] = "lookup" => Len(n.ins[g]) = 4, NEW s, Partly(s, v)
  PROVE  /\ Takes(n, s, g)
         /\ CircuitValue(n, s, g) \in Values
         /\ CircuitValue(n, s, g) = "z" => v[g] = "z"
<1> DEFINE in == Ins(n, s, g)
           full == Ins(n, v, g)
           I == DOMAIN n.ins[g]
           kind == n.kind[g]
           lut == n.lut[g]
<1>1. /\ WellShaped(n) /\ I = 1 .. Len(n.ins[g]) /\ Len(n.ins[g]) \in Nat
      /\ \A i \in I : n.ins[g][i] \in Terminals
      /\ lut \in Seq(BOOLEAN) /\ kind \in Kinds
  BY ReadsTerminals, NetworkFacts
<1>2. DOMAIN in = I /\ DOMAIN full = I
  BY DEF Ins
<1>3. \A i \in I : /\ in[i] \in {full[i], "none"} /\ full[i] # "z" /\ full[i] \in Values
  <2>1. \A i \in I : in[i] = s[n.ins[g][i]] /\ full[i] = v[n.ins[g][i]]
    BY DEF Ins
  <2>2. \A i \in I : full[i] # "z"
    BY <1>2 DEF Realised, Ins
  <2> QED  BY <1>1, <2>1, <2>2 DEF Partly, States
<1>4. \A i \in I : in[i] \in Logical /\ full[i] \in Logical
  BY <1>3 DEF Logical, Values, Known
<1>5. /\ kind \in {"tri", "mux"} => full[2] = Flip(full[1])
      /\ kind = "lookup" =>
           /\ full[3] = Flip(full[1]) /\ full[4] = Flip(full[2])
           /\ Len(lut) = 4 /\ lut[1] = lut[4] /\ lut[2] = lut[3]
      /\ v[g] = CircuitValue(n, v, g)
  BY DEF Realised, Ins
<1>6. /\ kind = "not" => 1 \in I
      /\ kind = "tri" => 1 \in I /\ 2 \in I /\ 3 \in I
      /\ kind = "mux" => 1 \in I /\ 2 \in I /\ 3 \in I /\ 4 \in I
      /\ kind = "lookup" => I = 1 .. 4
      /\ kind \in {"not", "tri", "mux", "nand", "nor", "lookup"}
  <2>1. /\ kind = "not" => Len(n.ins[g]) >= 1
        /\ kind = "tri" => Len(n.ins[g]) >= 3
        /\ kind = "mux" => Len(n.ins[g]) >= 4
        /\ kind = "lookup" => Len(n.ins[g]) = 4
    BY <1>1 DEF WellShaped
  <2>2. kind # "dead"
    BY DEF Live
  <2> DEFINE l == Len(n.ins[g])
  <2>3. l \in Nat /\ I = 1 .. l
    BY <1>1
  <2> HIDE DEF I, kind, l
  <2>4. /\ l >= 1 => 1 \in I
        /\ l >= 3 => 1 \in I /\ 2 \in I /\ 3 \in I
        /\ l >= 4 => 1 \in I /\ 2 \in I /\ 3 \in I /\ 4 \in I
        /\ l = 4 => I = 1 .. 4
    BY <2>3
  <2>5. kind \in {"not", "tri", "mux", "nand", "nor", "lookup"}
    BY <1>1, <2>2 DEF Kinds
  <2> QED  BY <2>1, <2>4, <2>5 DEF l
<1>7. (\A i \in DOMAIN in : in[i] # "z") /\ (\A i \in DOMAIN full : full[i] # "z")
  BY <1>2, <1>4 DEF Logical
<1>8. /\ kind = "not" => CircuitValue(n, s, g) = Flip(in[1])
      /\ kind = "tri" => CircuitValue(n, s, g) = IF "none" \in {in[1], in[2]} THEN "none"
                                                 ELSE Switch(in[1], in[3], "z")
      /\ kind = "mux" => CircuitValue(n, s, g) = IF "none" \in {in[1], in[2]} THEN "none"
                                                 ELSE IF in[3] = in[4] THEN in[3]
                                                 ELSE Switch(in[1], in[3], in[4])
      /\ kind = "nand" => CircuitValue(n, s, g) = Decide(in, "low", "high")
      /\ kind = "nor" => CircuitValue(n, s, g) = Decide(in, "high", "low")
      /\ kind = "lookup" => CircuitValue(n, s, g) = LookUp(lut, in)
  BY <1>1, <1>7, CircuitIs
<1>9. kind = "tri" => CircuitValue(n, v, g) = IF "none" \in {full[1], full[2]} THEN "none"
                                              ELSE Switch(full[1], full[3], "z")
  BY <1>1, <1>7, CircuitIs
<1>10. Takes(n, s, g)
  <2>1. kind \in {"tri", "mux"} /\ in[1] # "none" /\ in[2] # "none" => in[2] = Flip(in[1])
    BY <1>3, <1>5, <1>6
  <2>2. kind = "lookup" =>
           /\ DOMAIN lut = 1 .. 4 /\ lut[1] = lut[4] /\ lut[2] = lut[3]
           /\ \A r \in DOMAIN lut : lut[r] \in BOOLEAN
    BY <1>1, <1>5
  <2>3. kind = "lookup" /\ (\A i \in DOMAIN in : in[i] # "none") =>
          in[3] = Flip(in[1]) /\ in[4] = Flip(in[2])
    <3> SUFFICES ASSUME kind = "lookup", \A i \in DOMAIN in : in[i] # "none"
                 PROVE  in[3] = Flip(in[1]) /\ in[4] = Flip(in[2])
      OBVIOUS
    <3>1. 1 \in I /\ 2 \in I /\ 3 \in I /\ 4 \in I
      BY <1>6
    <3>2. in[1] = full[1] /\ in[2] = full[2] /\ in[3] = full[3] /\ in[4] = full[4]
      BY <1>2, <1>3, <3>1
    <3> QED  BY <1>5, <3>2
  <2>4. \A i \in DOMAIN in : in[i] \in Logical
    BY <1>2, <1>4
  <2> QED  BY <2>1, <2>2, <2>3, <2>4 DEF Takes
<1> HIDE DEF in, full, I, kind, lut
<1>11. CircuitValue(n, s, g) \in Values /\ (kind # "tri" => CircuitValue(n, s, g) # "z")
  <2>1. /\ Decide(in, "low", "high") \in Values \ {"z"}
        /\ Decide(in, "high", "low") \in Values \ {"z"}
    BY DEF Decide, Flip, Values, Known
  <2>2. LookUp(lut, in) \in Values \ {"z"}
    BY DEF LookUp, FromBool, Values, Known
  <2>3. CASE kind \in {"not", "nand", "nor", "lookup"}
    BY <1>4, <1>6, <1>8, <2>1, <2>2, <2>3 DEF Flip, Logical, Values, Known
  <2>4. CASE kind = "tri"
    BY <1>4, <1>6, <1>8, <2>4 DEF Switch, Logical, Values, Known
  <2>5. CASE kind = "mux"
    BY <1>4, <1>6, <1>8, <2>5 DEF Switch, Logical, Values, Known
  <2> QED  BY <1>6, <2>3, <2>4, <2>5
<1>12. kind = "tri" /\ CircuitValue(n, s, g) = "z" => v[g] = "z"
  <2> SUFFICES ASSUME kind = "tri", CircuitValue(n, s, g) = "z" PROVE v[g] = "z"
    OBVIOUS
  <2>1. in[1] # "none" /\ in[2] # "none" /\ Switch(in[1], in[3], "z") = "z"
    BY <1>8
  <2>2. in[1] = "low"
    BY <1>4, <1>6, <2>1 DEF Switch, Logical
  <2>3. full[1] = "low" /\ full[2] # "none"
    BY <1>3, <1>6, <2>1, <2>2
  <2> QED  BY <1>5, <1>9, <2>3 DEF Switch
<1> QED  BY <1>10, <1>11, <1>12

----------------------------------------------------------------------------
(* What the transistors made so far stand for.                               *)

\* The nodes besides pins that gates may be connected to.
WireEnds(gnet) == Declared \cup Waiting(Live(gnet))

\* The labels f have the values of row r at the nodes of the terminals, at first and now,
\* and the transistors of w agree with them.
Standing(gnet, w, nodes, r, f) ==
  /\ Closed(w, LevelsOf(f))
  /\ \A m \in DOMAIN RowStart(r) : f[m] = RowStart(r)[m]
  /\ \A t \in LiveTerminals(gnet) :
       /\ f[Placed(gnet)[t]] = Level(GateValuesOf(gnet, r)[t])
       /\ f[nodes[t]] = Level(GateValuesOf(gnet, r)[t])

Stands(gnet, w, nodes) ==
  \A r \in AllRows : \E f \in Labelling : Standing(gnet, w, nodes, r, f)

\* The rails have their levels in D, and the two nodes of a terminal the same.
Together(gnet, nodes, D) ==
  Powered(D) /\ \A t \in LiveTerminals(gnet) : SameIn(D, Placed(gnet)[t], nodes[t])

\* What g reads in s has the same levels in D.
ReadsIn(gnet, D, s, g) ==
  \A i \in DOMAIN gnet.ins[g] :
    s[gnet.ins[g][i]] \in Levels => <<Placed(gnet)[gnet.ins[g][i]], s[gnet.ins[g][i]]>> \in D

\* So has g where its circuit gives it one.
ForcedIn(gnet, D, g) ==
  \A s : Takes(gnet, s, g) /\ ReadsIn(gnet, D, s, g) /\ CircuitValue(gnet, s, g) \in Levels =>
           <<Placed(gnet)[g], CircuitValue(gnet, s, g)>> \in D

\* What is closed under the transistors has the values of the gates `done`.
Forces(gnet, w, nodes, done) ==
  \A D : Closed(w, D) /\ Together(gnet, nodes, D) => \A g \in done : ForcedIn(gnet, D, g)

LEMMA RailsStart ==
  ASSUME NEW r
  PROVE  /\ Vdd \in DOMAIN RowStart(r) /\ RowStart(r)[Vdd] = "high"
         /\ Vss \in DOMAIN RowStart(r) /\ RowStart(r)[Vss] = "low"
<1> DEFINE l == Len(InputOrder)
<1>1. RowStart(r) = [node \in {Vdd, Vss} \cup {InputBit(i) : i \in 0 .. l - 1} |->
                       CASE node = Vdd -> "high"
                         [] node = Vss -> "low"
                         [] node <= InputBit(0) -> RowLevel(r, InputBit(0) - node)]
  BY DEF RowStart, StartOf
<1>2. Vdd \in DOMAIN RowStart(r) /\ Vss \in DOMAIN RowStart(r)
  BY <1>1
<1>3. RowStart(r)[Vdd] = "high" /\ RowStart(r)[Vss] = "low"
  BY <1>1 DEF Vdd, Vss
<1> QED  BY <1>2, <1>3

\* There is a row.
LEMMA RowsFacts ==
  /\ 2 ^ Len(InputOrder) \in Nat /\ 2 ^ Len(InputOrder) >= 1
  /\ 0 \in AllRows
<1> DEFINE l == Len(InputOrder)
           p == 2 ^ l
<1>1. l \in Nat
  BY LowerAssumption
<1> HIDE DEF l
<1>2. IsFiniteSet(1 .. l) /\ Cardinality(1 .. l) = l
  <2>1. 1 \in Int /\ l \in Int
    BY <1>1
  <2>2. /\ IsFiniteSet(1 .. l)
        /\ Cardinality(1 .. l) = IF 1 > l THEN 0 ELSE l - 1 + 1
    BY <2>1, FS_Interval
  <2> QED  BY <1>1, <2>2
<1>3. IsFiniteSet(SUBSET (1 .. l)) /\ Cardinality(SUBSET (1 .. l)) = p
  BY <1>2, FS_SUBSET
<1>4. p \in Nat
  BY <1>3, FS_CardinalityType
<1>5. p # 0
  <2>1. {} \in SUBSET (1 .. l)
    OBVIOUS
  <2>2. SUBSET (1 .. l) # {}
    BY <2>1
  <2> QED  BY <1>3, <2>2, FS_EmptySet
<1> HIDE DEF p
<1>6. p >= 1 /\ 0 \in 0 .. p - 1
  BY <1>4, <1>5
<1> QED  BY <1>4, <1>6 DEF AllRows, p, l

LEMMA EndsFacts ==
  ASSUME NEW n \in GateNetworks
  PROVE  /\ Negative(WireEnds(n)) /\ Rails \in SUBSET WireEnds(n)
         /\ \A t \in LiveTerminals(n) : Placed(n)[t] \in WireEnds(n)
         /\ \A r : DOMAIN RowStart(r) = Declared
<1>1. \A g \in Live(n) : Placeholder(g) \in Int /\ Placeholder(g) < 0
  BY PlaceholderFacts, NetworkFacts
<1>2. \A m \in Declared : m \in Int /\ m < 0
  <2>1. Len(InputOrder) \in Nat
    BY LowerAssumption
  <2> QED  BY <2>1 DEF Declared, Leads, Vdd, Vss, InputBit
<1>3. Negative(WireEnds(n))
  BY <1>1, <1>2 DEF Negative, WireEnds, Waiting
<1>4. \A t \in LiveTerminals(n) : Placed(n)[t] \in WireEnds(n)
  BY PlacedFacts DEF WireEnds, Waiting
<1>5. \A r : DOMAIN RowStart(r) = Declared
  <2>1. Len(InputOrder) \in Nat
    BY LowerAssumption
  <2> QED  BY <2>1, StartFacts DEF RowStart, Declared, Leads
<1> QED  BY <1>3, <1>4, <1>5, PlaceholderFacts DEF WireEnds

\* Without transistors, any labels agree.
LEMMA StandsAtFirst ==
  ASSUME NEW n \in GateNetworks
  PROVE  Stands(n, EmptyWiring, Placed(n))
<1> SUFFICES ASSUME NEW r \in AllRows
             PROVE  \E f \in Labelling : Standing(n, EmptyWiring, Placed(n), r, f)
  BY DEF Stands
<1> DEFINE v == GateValuesOf(n, r)
           b == RowStart(r)
           Of1(m) == IF m \in Declared THEN b[m]
                     ELSE IF m - LeastInt \in Live(n) THEN Level(v[m - LeastInt])
                     ELSE "undefined"
           f == [m \in Int |-> Of1(m)]
<1>1. DOMAIN b = Declared /\ \A m \in Declared : b[m] \in Levels
  <2>1. Len(InputOrder) \in Nat
    BY LowerAssumption
  <2>2. \A m \in DOMAIN b : b[m] \in Levels
    BY <2>1, StartFacts DEF RowStart
  <2>3. DOMAIN b = Declared
    BY EndsFacts
  <2> QED  BY <2>2, <2>3
<1> HIDE DEF v, b
<1>2. \A m \in Int : Of1(m) \in Label
  BY <1>1 DEF Label, Level
<1>3. f \in Labelling
  <2> HIDE DEF Of1
  <2> QED  BY <1>2 DEF Labelling
<1>4. \A m \in Int : f[m] = Of1(m)
  OBVIOUS
<1>5. \A m \in Declared : m \in Int /\ f[m] = b[m]
  <2>1. \A m \in Declared : m \in Int
    BY EndsFacts DEF Negative, WireEnds
  <2> QED  BY <2>1
<1>6. \A g \in Live(n) : f[Placeholder(g)] = Level(v[g])
  <2> SUFFICES ASSUME NEW g \in Live(n) PROVE f[Placeholder(g)] = Level(v[g])
    OBVIOUS
  <2>1. /\ Placeholder(g) \in Int /\ Placeholder(g) \notin Declared
        /\ g \in Int
    BY PlaceholderFacts, NetworkFacts DEF Gates
  <2>2. Placeholder(g) - LeastInt = g
    BY <2>1 DEF Placeholder, LeastInt
  <2> QED  BY <1>4, <2>1, <2>2
<1> HIDE DEF f
<1>7. ASSUME NEW t \in LiveTerminals(n) PROVE f[Placed(n)[t]] = Level(v[t])
  <2>1. /\ t \in Live(n) => Placed(n)[t] = Placeholder(t)
        /\ t \notin Live(n) => /\ Placed(n)[t] \in DOMAIN b
                               /\ b[Placed(n)[t]] = v[t]
                               /\ v[t] \in Levels
    BY PlacedStart DEF v, b
  <2>2. CASE t \in Live(n)
    BY <1>6, <2>1, <2>2
  <2>3. CASE t \notin Live(n)
    BY <1>1, <1>5, <2>1, <2>3 DEF Level
  <2> QED  BY <2>2, <2>3
<1>8. Closed(EmptyWiring, LevelsOf(f))
  <2>1. EmptyWiring.wires = {} /\ Transistors(EmptyWiring) = {}
    BY DEF EmptyWiring, Transistors, NumTransistors
  <2> QED  BY <2>1 DEF Closed
<1>9. Standing(n, EmptyWiring, Placed(n), r, f)
  BY <1>1, <1>5, <1>7, <1>8 DEF Standing, v, b
<1> QED  BY <1>3, <1>9

\* A gate is lowered: labels that stand for the values can be extended to its transistors.
LEMMA StandsMore ==
  ASSUME NEW n \in GateNetworks, Lowerable(n), NEW w, Joins(w, WireEnds(n)), NEW nodes,
         DOMAIN nodes = LiveTerminals(n),
         \A t \in LiveTerminals(n) : nodes[t] \in Pins(w) \cup WireEnds(n),
         NEW g \in Live(n), n.kind[g] = "lookup" => Len(n.ins[g]) = 4,
         Stands(n, w, nodes)
  PROVE  LET made == Transistorize(n, nodes, w, g)
         IN  Stands(n, made.net, [nodes EXCEPT ![g] = made.out])
<1> DEFINE made == Transistorize(n, nodes, w, g)
           then == [nodes EXCEPT ![g] = made.out]
           S == WireEnds(n)
<1> SUFFICES ASSUME NEW r \in AllRows
             PROVE  \E f \in Labelling : Standing(n, made.net, then, r, f)
  BY DEF Stands
<1> DEFINE v == GateValuesOf(n, r)
<1>1. PICK f \in Labelling : Standing(n, w, nodes, r, f)
  BY DEF Stands
<1>2. v \in States /\ Realised(n, v, g)
  BY GateValuesTyped DEF Lowerable, AllRows
<1>3. /\ WellShaped(n) /\ n.kind[g] \in Kinds /\ n.ins[g] \in Seq(Terminals \cup {Null})
      /\ \A i \in DOMAIN n.ins[g] : n.ins[g][i] \in LiveTerminals(n)
  BY NetworkFacts
<1>4. Takes(n, v, g)
  <2>1. Partly(v, v)
    BY <1>2 DEF Partly
  <2> QED  BY <1>2, <2>1, RealisedTakes
<1>5. Negative(S) /\ Rails \in SUBSET S /\ \A t \in LiveTerminals(n) : Placed(n)[t] \in S
  BY EndsFacts
<1>6. PoweredBy(f)
  BY <1>1, RailsStart DEF Standing, PoweredBy
<1>7. Closed(w, LevelsOf(f)) /\ \A i \in DOMAIN n.ins[g] : f[nodes[n.ins[g][i]]] = Level(v[n.ins[g][i]])
  BY <1>1, <1>3 DEF Standing
<1>8. \A i \in DOMAIN n.ins[g] : nodes[n.ins[g][i]] \in Pins(w) \cup S
  BY <1>3
<1> HIDE DEF S, v
<1>9. Labelled(w, made, f, Level(v[g]))
  <2>1. Joins(w, S)
    BY DEF S
  <2> QED  BY <1>2, <1>3, <1>4, <1>5, <1>6, <1>7, <1>8, <2>1, TransistorizeLabelled
<1> HIDE DEF made
<1>10. PICK h : Extends(w, made, f, h) /\ Closed(made.net, LevelsOf(h)) /\ h[made.out] = Level(v[g])
  BY <1>9 DEF Labelled
<1>11. h \in Labelling /\ \A m \in Pins(w) \cup S : h[m] = f[m]
  BY <1>5, <1>10, ExtendsKeeps DEF Extends
<1>12. \A m \in DOMAIN RowStart(r) : h[m] = RowStart(r)[m]
  <2>1. DOMAIN RowStart(r) = Declared
    BY EndsFacts
  <2> QED  BY <1>1, <1>11, <2>1 DEF Standing, S, WireEnds
<1>13. ASSUME NEW t \in LiveTerminals(n)
       PROVE  h[Placed(n)[t]] = Level(v[t]) /\ h[then[t]] = Level(v[t])
  <2>1. f[Placed(n)[t]] = Level(v[t]) /\ f[nodes[t]] = Level(v[t])
    BY <1>1 DEF Standing, v
  <2>2. nodes[t] \in Pins(w) \cup S /\ Placed(n)[t] \in Pins(w) \cup S
    BY <1>5 DEF S
  <2>3. h[Placed(n)[t]] = Level(v[t])
    BY <1>11, <2>1, <2>2
  <2>4. CASE t = g
    BY <1>10, <2>3, <2>4
  <2>5. CASE t # g
    <3>1. then[t] = nodes[t]
      BY <2>5
    <3> QED  BY <1>11, <2>1, <2>2, <2>3, <3>1
  <2> QED  BY <2>4, <2>5
<1> HIDE DEF then
<1>14. Standing(n, made.net, then, r, h)
  BY <1>10, <1>12, <1>13 DEF Standing, v
<1> QED  BY <1>11, <1>14

\* And what is closed under its transistors has its value.
LEMMA ForcesMore ==
  ASSUME NEW n \in GateNetworks, Lowerable(n), NEW w, Joins(w, WireEnds(n)), NEW nodes,
         DOMAIN nodes = LiveTerminals(n),
         \A t \in LiveTerminals(n) : nodes[t] \in Pins(w) \cup WireEnds(n),
         NEW g \in Live(n), n.kind[g] = "lookup" => Len(n.ins[g]) = 4,
         nodes[g] = Placed(n)[g],
         NEW done, Forces(n, w, nodes, done)
  PROVE  LET made == Transistorize(n, nodes, w, g)
         IN  Forces(n, made.net, [nodes EXCEPT ![g] = made.out], done \cup {g})
<1> DEFINE made == Transistorize(n, nodes, w, g)
           then == [nodes EXCEPT ![g] = made.out]
           S == WireEnds(n)
<1> SUFFICES ASSUME NEW D, Closed(made.net, D), Together(n, then, D), NEW h \in done \cup {g}
             PROVE  ForcedIn(n, D, h)
  BY DEF Forces
<1>1. /\ WellShaped(n) /\ n.kind[g] \in Kinds /\ n.ins[g] \in Seq(Terminals \cup {Null})
      /\ \A i \in DOMAIN n.ins[g] : n.ins[g][i] \in LiveTerminals(n)
  BY NetworkFacts
<1>2. Rails \in SUBSET S /\ Joins(w, S)
  BY EndsFacts
<1>3. \A i \in DOMAIN n.ins[g] : nodes[n.ins[g][i]] \in Pins(w) \cup S
  BY <1>1
<1>4. g \in LiveTerminals(n)
  BY DEF LiveTerminals
<1>5. \A t \in LiveTerminals(n) : SameIn(D, Placed(n)[t], nodes[t])
  <2> SUFFICES ASSUME NEW t \in LiveTerminals(n) PROVE SameIn(D, Placed(n)[t], nodes[t])
    OBVIOUS
  <2>1. CASE t = g
    BY <2>1 DEF SameIn
  <2>2. CASE t # g
    <3>1. then[t] = nodes[t]
      BY <2>2
    <3> QED  BY <3>1 DEF Together
  <2> QED  BY <2>1, <2>2
<1>6. Powered(D) /\ SameIn(D, Placed(n)[g], made.out)
  <2>1. then[g] = made.out
    BY <1>4
  <2> HIDE DEF then
  <2> QED  BY <1>4, <2>1 DEF Together
<1> HIDE DEF S, made, then
<1>7. ASSUME NEW s, Takes(n, s, g), ReadsIn(n, D, s, g)
      PROVE  /\ Closed(w, D)
             /\ CircuitValue(n, s, g) \in Levels => <<Placed(n)[g], CircuitValue(n, s, g)>> \in D
  <2>1. \A i \in DOMAIN n.ins[g] :
          s[n.ins[g][i]] \in Levels => <<nodes[n.ins[g][i]], s[n.ins[g][i]]>> \in D
    BY <1>1, <1>5, <1>7 DEF ReadsIn, SameIn
  <2>2. Closed(Transistorize(n, nodes, w, g).net, D)
    BY DEF made
  <2>3. /\ Closed(w, D)
        /\ CircuitValue(n, s, g) \in Levels =>
             <<Transistorize(n, nodes, w, g).out, CircuitValue(n, s, g)>> \in D
    BY <1>1, <1>2, <1>3, <1>6, <1>7, <2>1, <2>2, TransistorizeForced
  <2> QED  BY <1>6, <2>3 DEF made, SameIn
<1>8. Closed(w, D)
  <2> DEFINE s == [t \in Terminals |-> "none"]
             v == GateValuesOf(n, 0)
  <2>1. v \in States /\ Realised(n, v, g)
    BY GateValuesTyped, RowsFacts DEF Lowerable, AllRows
  <2>2. Partly(s, v)
    BY DEF Partly, States, Values
  <2>3. ReadsIn(n, D, s, g)
    <3>1. \A i \in DOMAIN n.ins[g] : s[n.ins[g][i]] = "none"
      BY ReadsTerminals
    <3> QED  BY <3>1 DEF ReadsIn, Levels
  <2> HIDE DEF s, v
  <2>4. Takes(n, s, g)
    BY <2>1, <2>2, RealisedTakes
  <2> QED  BY <1>7, <2>3, <2>4
<1>9. CASE h = g
  BY <1>7, <1>9 DEF ForcedIn
<1>10. CASE h # g
  <2>1. Together(n, nodes, D)
    BY <1>5, <1>6 DEF Together
  <2> QED  BY <1>8, <1>10, <2>1 DEF Forces
<1> QED  BY <1>9, <1>10

\* To replace a placeholder by a node that has the same levels changes nothing.
LEMMA RewireClosed ==
  ASSUME NEW w, NEW S, Joins(w, S), NEW from, NEW to, NEW D, SameIn(D, from, to)
  PROVE  Closed(Rewire(w, from, to), D) <=> Closed(w, D)
<1> DEFINE left == {e \in w.wires : from \notin {e[1], e[2]}}
           less == [w EXCEPT !.wires = left]
           more == {Wire(to, m) : m \in ConnectedNodes(w, from)}
           made == Rewire(w, from, to)
<1>1. w.types \in Seq({"n", "p"}) /\ w \in [types : Seq({"n", "p"}), wires : SUBSET WiresOf(Pins(w), S)]
  BY DEF Joins
<1>2. left \in SUBSET WiresOf(Pins(w), S)
  BY <1>1
<1> HIDE DEF left
<1>3. /\ less \in [types : Seq({"n", "p"}), wires : SUBSET WiresOf(Pins(w), S)]
      /\ less.types = w.types /\ less.wires = left
  BY <1>1, <1>2
<1> HIDE DEF less
<1>4. made = [less EXCEPT !.wires = less.wires \cup more]
  <2>1. {Wire(p[1], p[2]) : p \in {<<to, m>> : m \in ConnectedNodes(w, from)}} = more
    <3> DEFINE pairs == {<<to, m>> : m \in ConnectedNodes(w, from)}
    <3>1. ASSUME NEW x \in more PROVE \E p \in pairs : x = Wire(p[1], p[2])
      <4>1. PICK m \in ConnectedNodes(w, from) : x = Wire(to, m)
        OBVIOUS
      <4>2. <<to, m>> \in pairs /\ <<to, m>>[1] = to /\ <<to, m>>[2] = m
        OBVIOUS
      <4> HIDE DEF pairs
      <4> QED  BY <4>1, <4>2
    <3>2. ASSUME NEW p \in pairs PROVE Wire(p[1], p[2]) \in more
      OBVIOUS
    <3> HIDE DEF pairs, more
    <3> QED  BY <3>1, <3>2 DEF pairs
  <2> HIDE DEF more
  <2> QED  BY <2>1 DEF Rewire, Connect, less, left
<1> HIDE DEF made, more
<1>5. made.types = w.types /\ made.wires = left \cup more
  BY <1>3, <1>4
<1>6. Transistors(made) = Transistors(w) /\ \A t : TypeOf(made, t) = TypeOf(w, t)
  BY <1>5 DEF Transistors, NumTransistors, TypeOf
<1>7. \A a, b : SameIn(D, Wire(a, b)[1], Wire(a, b)[2]) <=> SameIn(D, a, b)
  BY DEF Wire, SameIn
<1>8. (\A e \in more : SameIn(D, e[1], e[2])) <=>
        \A m \in ConnectedNodes(w, from) : SameIn(D, from, m)
  <2>1. \A m : SameIn(D, to, m) <=> SameIn(D, from, m)
    BY DEF SameIn
  <2>2. (\A e \in more : SameIn(D, e[1], e[2])) <=>
          \A m \in ConnectedNodes(w, from) : SameIn(D, to, m)
    BY <1>7 DEF more
  <2> QED  BY <2>1, <2>2
<1>9. (\A e \in w.wires : SameIn(D, e[1], e[2])) <=>
        /\ \A e \in left : SameIn(D, e[1], e[2])
        /\ \A m \in ConnectedNodes(w, from) : SameIn(D, from, m)
  <2>1. ASSUME \A e \in w.wires : SameIn(D, e[1], e[2]), NEW m \in ConnectedNodes(w, from)
        PROVE  SameIn(D, from, m)
    <3>1. PICK e \in w.wires : (e[1] = from /\ e[2] = m) \/ (e[2] = from /\ e[1] = m)
      BY DEF ConnectedNodes
    <3>2. SameIn(D, e[1], e[2])
      BY <2>1
    <3> QED  BY <3>1, <3>2 DEF SameIn
  <2>2. ASSUME \A m \in ConnectedNodes(w, from) : SameIn(D, from, m),
               \A e \in left : SameIn(D, e[1], e[2]), NEW e \in w.wires
        PROVE  SameIn(D, e[1], e[2])
    <3>1. CASE e \in left
      BY <2>2, <3>1
    <3>2. CASE e \notin left
      <4>1. e[1] = from \/ e[2] = from
        BY <3>2 DEF left
      <4>2. CASE e[1] = from
        <5>1. e[2] \in ConnectedNodes(w, from)
          BY <4>2 DEF ConnectedNodes
        <5> QED  BY <2>2, <4>2, <5>1
      <4>3. CASE e[2] = from
        <5>1. e[1] \in ConnectedNodes(w, from)
          BY <4>3 DEF ConnectedNodes
        <5>2. SameIn(D, from, e[1])
          BY <2>2, <5>1
        <5> QED  BY <4>3, <5>2 DEF SameIn
      <4> QED  BY <4>1, <4>2, <4>3
    <3> QED  BY <3>1, <3>2
  <2>3. left \in SUBSET w.wires
    BY DEF left
  <2> QED  BY <2>1, <2>2, <2>3
<1>10. (\A e \in made.wires : SameIn(D, e[1], e[2])) <=> \A e \in w.wires : SameIn(D, e[1], e[2])
  BY <1>5, <1>8, <1>9
<1> QED  BY <1>6, <1>10 DEF Closed, made

LEMMA StandsReplaced ==
  ASSUME NEW n \in GateNetworks, NEW w, NEW S, Joins(w, S), NEW nodes, NEW g \in Live(n),
         nodes[g] \in Int, Stands(n, w, nodes)
  PROVE  Stands(n, Rewire(w, Placeholder(g), nodes[g]), nodes)
<1> DEFINE made == Rewire(w, Placeholder(g), nodes[g])
<1> SUFFICES ASSUME NEW r \in AllRows
             PROVE  \E f \in Labelling : Standing(n, made, nodes, r, f)
  BY DEF Stands
<1>1. PICK f \in Labelling : Standing(n, w, nodes, r, f)
  BY DEF Stands
<1>2. g \in LiveTerminals(n) /\ Placeholder(g) \in Int
  BY PlaceholderFacts, NetworkFacts DEF LiveTerminals
<1>3. Placed(n)[g] = Placeholder(g)
  BY <1>2, PlacedStart
<1>4. f[Placeholder(g)] = f[nodes[g]]
  BY <1>1, <1>2, <1>3 DEF Standing
<1>5. SameIn(LevelsOf(f), Placeholder(g), nodes[g])
  BY <1>2, <1>4, LevelsOfSame
<1>6. Closed(made, LevelsOf(f))
  BY <1>1, <1>5, RewireClosed DEF Standing
<1> QED  BY <1>1, <1>6 DEF Standing

LEMMA ForcesReplaced ==
  ASSUME NEW n \in GateNetworks, NEW w, NEW S, Joins(w, S), NEW nodes, NEW g \in Live(n),
         NEW done, Forces(n, w, nodes, done)
  PROVE  Forces(n, Rewire(w, Placeholder(g), nodes[g]), nodes, done)
<1> DEFINE made == Rewire(w, Placeholder(g), nodes[g])
<1> SUFFICES ASSUME NEW D, Closed(made, D), Together(n, nodes, D), NEW h \in done
             PROVE  ForcedIn(n, D, h)
  BY DEF Forces
<1>1. g \in LiveTerminals(n)
  BY DEF LiveTerminals
<1>2. Placed(n)[g] = Placeholder(g)
  BY <1>1, PlacedStart
<1>3. SameIn(D, Placeholder(g), nodes[g])
  BY <1>1, <1>2 DEF Together
<1>4. Closed(w, D)
  BY <1>3, RewireClosed
<1> QED  BY <1>4 DEF Forces

----------------------------------------------------------------------------
(* What the rails and the inputs of a row carry to the nodes of the gates.   *)

\* The nodes of the lowered network.
Ready(n, w, nodes) ==
  /\ Joins(w, Declared)
  /\ DOMAIN nodes = LiveTerminals(n)
  /\ \A t \in LiveTerminals(n) : t \notin Live(n) => nodes[t] = Placed(n)[t]
  /\ \A g \in Live(n) : nodes[g] \in Pins(w) \cup Declared
  /\ \A g \in Live(n) : n.kind[g] = "lookup" => Len(n.ins[g]) = 4
  /\ Stands(n, w, nodes)
  /\ Forces(n, w, nodes, Live(n))

LEMMA CarriedRight ==
  ASSUME NEW n \in GateNetworks, Lowerable(n), NEW w, NEW nodes, Ready(n, w, nodes),
         NEW r \in AllRows
  PROVE  /\ \E f \in Labelling : Carried(w, RowStart(r)) \subseteq LevelsOf(f)
         /\ \A t \in LiveTerminals(n) : \A l \in Levels :
              <<nodes[t], l>> \in Carried(w, RowStart(r)) <=> GateValuesOf(n, r)[t] = l
<1> DEFINE C == Carried(w, RowStart(r))
           v == GateValuesOf(n, r)
           W == Waiting(Live(n))
           D == {x \in Int \X Levels :
                   IF x[1] \in W THEN <<nodes[x[1] - LeastInt], x[2]>> \in C ELSE x \in C}
<1>1. /\ v \in States /\ Founded(n, v) /\ \A g \in Live(n) : Realised(n, v, g)
  BY GateValuesTyped DEF Lowerable, AllRows
<1>2. PICK f \in Labelling : Standing(n, w, nodes, r, f)
  BY DEF Ready, Stands
<1>3. /\ DOMAIN RowStart(r) = Declared
      /\ \A m \in Declared : RowStart(r)[m] \in Levels /\ m \in Int /\ m \notin W
      /\ \A m \in Pins(w) : m \in Int /\ m \notin W
  <2>1. DOMAIN RowStart(r) = Declared
    BY EndsFacts
  <2>2. \A m \in DOMAIN RowStart(r) : RowStart(r)[m] \in Levels
    <3>1. Len(InputOrder) \in Nat
      BY LowerAssumption
    <3> QED  BY <3>1, StartFacts DEF RowStart
  <2>3. \A m \in Declared : m \in Int
    BY EndsFacts DEF Negative, WireEnds
  <2>4. Live(n) \in SUBSET Gates
    BY NetworkFacts
  <2>5. \A m \in Declared : m \notin W
    BY <2>4, PlaceholderFacts DEF Waiting
  <2>6. \A m \in Pins(w) : m \in Int /\ m \notin W
    BY <2>4, PlaceholderFacts DEF Waiting, Pins
  <2> QED  BY <2>1, <2>2, <2>3, <2>5, <2>6
<1>4. Fits(w, RowStart(r))
  <2>1. IsWiring(w, Leads(Len(InputOrder)))
    BY JoinsIsWiring DEF Ready, Declared
  <2> QED  BY <2>1, LowerAssumption, WiringFits DEF RowStart
<1>5. /\ Closed(w, C) /\ Given(RowStart(r)) \subseteq C
      /\ \A E : Closed(w, E) /\ Given(RowStart(r)) \subseteq E => C \subseteq E
  BY <1>4, CarriedIsClosed, CarriedFacts
<1> HIDE DEF C, v, W, D
<1>6. C \subseteq LevelsOf(f)
  <2>1. ASSUME NEW m \in Declared PROVE <<m, RowStart(r)[m]>> \in LevelsOf(f)
    <3>1. f[m] = RowStart(r)[m]
      BY <1>2, <1>3 DEF Standing
    <3> QED  BY <1>3, <3>1, LevelsOfMember
  <2>2. Given(RowStart(r)) \subseteq LevelsOf(f)
    BY <1>3, <2>1 DEF Given
  <2> QED  BY <1>2, <1>5, <2>2 DEF Standing
<1>7. ASSUME NEW m, NEW l
      PROVE  /\ m \notin W => (<<m, l>> \in D <=> <<m, l>> \in C)
             /\ m \in W /\ m \in Int /\ l \in Levels => (<<m, l>> \in D <=> <<nodes[m - LeastInt], l>> \in C)
  <2>1. <<m, l>> \in C => m \in Int /\ l \in Levels
    BY <1>6, LevelsOfMember
  <2>2. <<m, l>>[1] = m /\ <<m, l>>[2] = l
    OBVIOUS
  <2>3. <<m, l>> \in D <=> /\ m \in Int /\ l \in Levels
                           /\ IF m \in W THEN <<nodes[m - LeastInt], l>> \in C ELSE <<m, l>> \in C
    BY <2>2 DEF D
  <2> QED  BY <2>1, <2>3
<1>8. \A g \in Live(n) : \A l \in Levels : <<Placeholder(g), l>> \in D <=> <<nodes[g], l>> \in C
  <2> SUFFICES ASSUME NEW g \in Live(n), NEW l \in Levels
               PROVE  <<Placeholder(g), l>> \in D <=> <<nodes[g], l>> \in C
    OBVIOUS
  <2>1. Placeholder(g) \in W /\ Placeholder(g) \in Int /\ Placeholder(g) - LeastInt = g
    BY PlaceholderFacts, NetworkFacts DEF W, Waiting, Placeholder, LeastInt, Gates
  <2> QED  BY <1>7, <2>1
<1>9. \A t \in LiveTerminals(n) : nodes[t] \in Pins(w) \cup Declared
  <2>1. \A t \in LiveTerminals(n) : t \notin Live(n) => Placed(n)[t] \in Declared
    BY <1>3, PlacedStart
  <2> QED  BY <2>1 DEF Ready
<1>10. Closed(w, D)
  <2>1. \A e \in w.wires : e[1] \in Pins(w) \cup Declared /\ e[2] \in Pins(w) \cup Declared
    BY DEF Ready, Joins, WiresOf
  <2>2. ASSUME NEW e \in w.wires PROVE SameIn(D, e[1], e[2])
    <3>1. SameIn(C, e[1], e[2])
      BY <1>5 DEF Closed
    <3>2. e[1] \notin W /\ e[2] \notin W
      BY <1>3, <2>1
    <3> QED  BY <1>7, <3>1, <3>2 DEF SameIn
  <2>3. ASSUME NEW t \in Transistors(w) PROVE Conducted(D, TypeOf(w, t), t)
    <3>1. Conducted(C, TypeOf(w, t), t)
      BY <1>5 DEF Closed
    <3>2. Gate(t) \in Pins(w) /\ Source(t) \in Pins(w) /\ Drain(t) \in Pins(w)
      BY PinsOf DEF Ready, Joins
    <3>3. Gate(t) \notin W /\ Source(t) \notin W /\ Drain(t) \notin W
      BY <1>3, <3>2
    <3> QED  BY <1>7, <3>1, <3>3 DEF Conducted
  <2> QED  BY <2>2, <2>3 DEF Closed
<1>11. Together(n, nodes, D)
  <2>1. Powered(D)
    <3>1. <<Vdd, "high">> \in C /\ <<Vss, "low">> \in C
      BY <1>5, RailsStart DEF Given
    <3>2. Vdd \notin W /\ Vss \notin W
      BY <1>3, RailsStart
    <3> QED  BY <1>7, <3>1, <3>2 DEF Powered
  <2>2. ASSUME NEW t \in LiveTerminals(n) PROVE SameIn(D, Placed(n)[t], nodes[t])
    <3>1. CASE t \in Live(n)
      <4>1. Placed(n)[t] = Placeholder(t)
        BY <3>1, PlacedStart
      <4>2. nodes[t] \notin W
        BY <1>3, <1>9
      <4> QED  BY <1>7, <1>8, <3>1, <4>1, <4>2 DEF SameIn
    <3>2. CASE t \notin Live(n)
      BY <3>2 DEF Ready, SameIn
    <3> QED  BY <3>1, <3>2
  <2> QED  BY <2>1, <2>2 DEF Together
<1>12. \A t \in LiveTerminals(n) : t \notin Live(n) =>
         v[t] \in Levels /\ <<nodes[t], v[t]>> \in C /\ <<Placed(n)[t], v[t]>> \in D
  <2> SUFFICES ASSUME NEW t \in LiveTerminals(n), t \notin Live(n)
               PROVE  v[t] \in Levels /\ <<nodes[t], v[t]>> \in C /\ <<Placed(n)[t], v[t]>> \in D
    OBVIOUS
  <2>1. /\ Placed(n)[t] \in DOMAIN RowStart(r) /\ RowStart(r)[Placed(n)[t]] = v[t] /\ v[t] \in Levels
    BY PlacedStart DEF v
  <2>2. <<Placed(n)[t], v[t]>> \in C
    BY <1>5, <2>1 DEF Given
  <2>3. Placed(n)[t] \notin W /\ nodes[t] = Placed(n)[t]
    BY <1>3, <2>1 DEF Ready
  <2> QED  BY <1>7, <2>1, <2>2, <2>3
<1>13. \A t \in LiveTerminals(n) : \A l \in Levels : <<nodes[t], l>> \in C => v[t] = l
  <2> SUFFICES ASSUME NEW t \in LiveTerminals(n), NEW l \in Levels, <<nodes[t], l>> \in C
               PROVE  v[t] = l
    OBVIOUS
  <2>1. f[nodes[t]] = l
    BY <1>6, LevelsOfMember
  <2>2. f[nodes[t]] = Level(v[t])
    BY <1>2 DEF Standing, v
  <2> QED  BY <2>1, <2>2 DEF Level, Levels
<1>14. ASSUME NEW g \in Live(n), v[g] \in Levels PROVE <<nodes[g], v[g]>> \in C
  <2> DEFINE some == {h \in Live(n) : v[h] \in Levels => <<nodes[h], v[h]>> \in C}
             known == [t \in Terminals |-> IF t \in Live(n) \ some THEN "none" ELSE v[t]]
  <2>1. Partly(known, v)
    BY <1>1 DEF Partly, States, Values
  <2>2. ASSUME NEW h \in Live(n), CircuitValue(n, known, h) # "none" PROVE h \in some
    <3> DEFINE c == CircuitValue(n, known, h)
    <3>1. /\ Takes(n, known, h) /\ c \in Values /\ (c = "z" => v[h] = "z")
      <4> HIDE DEF known
      <4>1. n.kind[h] = "lookup" => Len(n.ins[h]) = 4
        BY DEF Ready
      <4> QED  BY <1>1, <2>1, <4>1, RealisedTakes
    <3>2. ReadsIn(n, D, known, h)
      <4> SUFFICES ASSUME NEW i \in DOMAIN n.ins[h], known[n.ins[h][i]] \in Levels
                   PROVE  <<Placed(n)[n.ins[h][i]], known[n.ins[h][i]]>> \in D
        BY DEF ReadsIn
      <4> DEFINE t == n.ins[h][i]
      <4>1. t \in LiveTerminals(n) /\ t \in Terminals
        BY NetworkFacts, ReadsTerminals
      <4>2. known[t] = v[t] /\ ~ (t \in Live(n) \ some)
        BY <4>1 DEF Levels
      <4> HIDE DEF known, t
      <4>3. v[t] \in Levels
        BY <4>2 DEF t
      <4>4. CASE t \notin Live(n)
        BY <1>12, <4>1, <4>2, <4>4 DEF t
      <4>5. CASE t \in Live(n)
        <5>1. <<nodes[t], v[t]>> \in C
          BY <4>2, <4>3, <4>5
        <5>2. <<Placeholder(t), v[t]>> \in D
          BY <1>8, <4>3, <4>5, <5>1
        <5> QED  BY <4>1, <4>2, <4>5, <5>2, PlacedStart DEF t
      <4> QED  BY <4>4, <4>5
    <3> HIDE DEF known, some
    <3>3. CASE c \in Levels
      <4>1. <<Placed(n)[h], c>> \in D
        BY <1>10, <1>11, <3>1, <3>2, <3>3 DEF Ready, Forces, ForcedIn
      <4>2. h \in LiveTerminals(n)
        BY DEF LiveTerminals
      <4>3. <<nodes[h], c>> \in C
        BY <1>8, <3>3, <4>1, <4>2, PlacedStart
      <4>4. v[h] = c
        BY <1>13, <3>3, <4>2, <4>3
      <4> QED  BY <4>3, <4>4 DEF some
    <3>4. CASE c \notin Levels
      <4>1. c = "z"
        BY <2>2, <3>1, <3>4 DEF Values, Known, Levels
      <4>2. v[h] \notin Levels
        BY <3>1, <4>1 DEF Levels
      <4> QED  BY <4>2 DEF some
    <3> QED  BY <3>3, <3>4
  <2>3. some \in SUBSET Live(n)
    OBVIOUS
  <2>4. (\A h \in Live(n) : CircuitValue(n, known, h) # "none" => h \in some) =>
          \A h \in Live(n) : v[h] # "none" => h \in some
    <3> HIDE DEF some
    <3> QED  BY <1>1, <2>3 DEF Founded
  <2>5. g \in some
    <3> HIDE DEF some, known
    <3> QED  BY <1>14, <2>2, <2>4 DEF Levels
  <2> QED  BY <1>14, <2>5
<1>15. \A t \in LiveTerminals(n) : \A l \in Levels : v[t] = l => <<nodes[t], l>> \in C
  BY <1>12, <1>14
<1>16. /\ \E h \in Labelling : C \subseteq LevelsOf(h)
       /\ \A t \in LiveTerminals(n) : \A l \in Levels : <<nodes[t], l>> \in C <=> v[t] = l
  BY <1>6, <1>13, <1>15
<1> QED  BY <1>16 DEF C, v

----------------------------------------------------------------------------
(* The invariant of the transistors that stand for gates.                    *)

\* The gates that have their transistors.
Made == IF phase = "lower" THEN Live(gates) \ pending ELSE Live(gates)

StandingInv ==
  /\ gates \in GateNetworks
  /\ phase \in {"lower", "replace", "evaluate"}
  /\ DOMAIN lowered = LiveTerminals(gates)
  /\ \A t \in LiveTerminals(gates) : t \notin Made => lowered[t] = Placed(gates)[t]
  /\ \A g \in Made : gates.kind[g] = "lookup" => Len(gates.ins[g]) = 4
  /\ Stands(gates, net, lowered)
  /\ Forces(gates, net, lowered, Made)

\* A row of the evaluation of a lowered network.
InRow ==
  /\ inputs = Len(InputOrder) /\ row \in AllRows
  /\ Ready(gates, net, lowered)
  /\ RowInv

AgreeInv ==
  gates # None /\ Lowerable(gates) =>
    StandingInv /\ (phase = "evaluate" => InRow)

\* What stays the same in a step stays right.
LEMMA StandingKept ==
  ASSUME StandingInv, gates' = gates, phase' = phase, lowered' = lowered, pending' = pending,
         net' = net
  PROVE  StandingInv'
<1>1. Made' = Made
  BY DEF Made
<1>2. Stands(gates, net, lowered)' <=> Stands(gates, net, lowered)
  BY DEF Stands, AllRows, Standing, RowStart, Placed, GateValuesOf
<1>3. Forces(gates, net, lowered, Made)' <=> Forces(gates, net, lowered, Made)
  BY <1>1 DEF Forces, Together, ForcedIn, ReadsIn, Placed
<1>4. Placed(gates)' = Placed(gates)
  BY DEF Placed
<1> QED  BY <1>1, <1>2, <1>3, <1>4 DEF StandingInv

LEMMA InitAgreeInv == Init => AgreeInv
<1> SUFFICES ASSUME Init, gates # None, Lowerable(gates)
             PROVE  StandingInv /\ phase # "evaluate"
  BY DEF AgreeInv
<1>1. /\ gates \in GateNetworks /\ phase = "lower" /\ net = EmptyWiring
      /\ lowered = Placed(gates) /\ pending = Live(gates)
  BY DEF Init
<1>2. Made = {}
  BY <1>1 DEF Made
<1>3. Stands(gates, net, lowered)
  BY <1>1, StandsAtFirst
<1>4. Forces(gates, net, lowered, {})
  BY DEF Forces
<1>5. DOMAIN lowered = LiveTerminals(gates)
  BY <1>1 DEF Placed
<1> QED  BY <1>1, <1>2, <1>3, <1>4, <1>5 DEF StandingInv

LEMMA LowerGateAgree ==
  ASSUME LowerInv, AgreeInv, NEW g \in pending, LowerGate(g)
  PROVE  AgreeInv'
<1> DEFINE made == Transistorize(gates, lowered, net, g)
<1>1. /\ phase = "lower" /\ phase' = phase /\ gates' = gates
      /\ net' = made.net /\ lowered' = [lowered EXCEPT ![g] = made.out]
      /\ pending' = pending \ {g}
      /\ gates.kind[g] = "lookup" => Len(gates.ins[g]) = 4
  BY DEF LowerGate
<1> SUFFICES ASSUME gates # None, Lowerable(gates) PROVE StandingInv'
  <2>1. Lowerable(gates') <=> Lowerable(gates)
    BY <1>1 DEF Lowerable, GateValuesOf
  <2> QED  BY <1>1, <2>1 DEF AgreeInv
<1>2. StandingInv /\ Lowering
  BY <1>1 DEF AgreeInv, LowerInv
<1>3. /\ gates \in GateNetworks /\ pending \in SUBSET Live(gates) /\ g \in Live(gates)
      /\ Joins(net, WireEnds(gates)) /\ DOMAIN lowered = LiveTerminals(gates)
      /\ \A t \in LiveTerminals(gates) : lowered[t] \in Pins(net) \cup WireEnds(gates)
  BY <1>2 DEF Lowering, WireEnds, Waiting
<1>4. Made = Live(gates) \ pending /\ Made' = Made \cup {g} /\ g \notin Made
  BY <1>1, <1>3 DEF Made
<1>5. g \in LiveTerminals(gates) /\ lowered[g] = Placed(gates)[g]
  BY <1>2, <1>3, <1>4 DEF StandingInv, LiveTerminals
<1>6. /\ Stands(gates, net, lowered) /\ Forces(gates, net, lowered, Made)
      /\ \A t \in LiveTerminals(gates) : t \notin Made => lowered[t] = Placed(gates)[t]
      /\ \A h \in Made : gates.kind[h] = "lookup" => Len(gates.ins[h]) = 4
  BY <1>2 DEF StandingInv
<1>7. /\ \A n \in GateNetworks : \A w, nodes : \A h \in Live(n) :
           /\ Lowerable(n) /\ Joins(w, WireEnds(n)) /\ DOMAIN nodes = LiveTerminals(n)
           /\ \A t \in LiveTerminals(n) : nodes[t] \in Pins(w) \cup WireEnds(n)
           /\ n.kind[h] = "lookup" => Len(n.ins[h]) = 4
           /\ Stands(n, w, nodes)
           => Stands(n, Transistorize(n, nodes, w, h).net,
                     [nodes EXCEPT ![h] = Transistorize(n, nodes, w, h).out])
  BY StandsMore
<1>8. \A n \in GateNetworks : \A w, nodes, done : \A h \in Live(n) :
           /\ Lowerable(n) /\ Joins(w, WireEnds(n)) /\ DOMAIN nodes = LiveTerminals(n)
           /\ \A t \in LiveTerminals(n) : nodes[t] \in Pins(w) \cup WireEnds(n)
           /\ n.kind[h] = "lookup" => Len(n.ins[h]) = 4
           /\ nodes[h] = Placed(n)[h] /\ Forces(n, w, nodes, done)
           => Forces(n, Transistorize(n, nodes, w, h).net,
                     [nodes EXCEPT ![h] = Transistorize(n, nodes, w, h).out], done \cup {h})
  BY ForcesMore, ZenonT(30)
<1>9. Stands(gates, net', lowered')
  BY <1>1, <1>3, <1>6, <1>7
<1>10. Forces(gates, net', lowered', Made \cup {g})
  BY <1>1, <1>3, <1>5, <1>6, <1>8
<1> HIDE DEF made
<1>11. DOMAIN lowered' = LiveTerminals(gates)
  BY <1>1, <1>3
<1>12. \A t \in LiveTerminals(gates) : t \notin Made \cup {g} => lowered'[t] = Placed(gates)[t]
  BY <1>1, <1>3, <1>6
<1>13. \A h \in Made \cup {g} : gates.kind[h] = "lookup" => Len(gates.ins[h]) = 4
  BY <1>1, <1>6
<1>14. /\ Stands(gates', net', lowered')
       /\ Forces(gates', net', lowered', Made')
       /\ Placed(gates') = Placed(gates)
  BY <1>1, <1>4, <1>9, <1>10
<1>15. /\ Stands(gates, net, lowered)' /\ Forces(gates, net, lowered, Made)'
       /\ Placed(gates)' = Placed(gates)
  <2>1. Stands(gates, net, lowered)' <=> Stands(gates', net', lowered')
    BY DEF Stands, AllRows, Standing, RowStart, Placed, GateValuesOf
  <2>2. Forces(gates, net, lowered, Made)' <=> Forces(gates', net', lowered', Made')
    BY DEF Forces, Together, ForcedIn, ReadsIn, Placed
  <2>3. Placed(gates)' = Placed(gates')
    BY DEF Placed
  <2> QED  BY <1>14, <2>1, <2>2, <2>3
<1> QED  BY <1>1, <1>3, <1>4, <1>11, <1>12, <1>13, <1>15 DEF StandingInv

LEMMA AllLoweredAgree ==
  ASSUME LowerInv, AgreeInv, AllLowered
  PROVE  AgreeInv'
<1>1. /\ phase = "lower" /\ phase' = "replace" /\ gates' = gates
      /\ net' = net /\ lowered' = lowered /\ pending = {}
  BY DEF AllLowered, evalVars
<1> SUFFICES ASSUME gates # None, Lowerable(gates) PROVE StandingInv'
  <2>1. Lowerable(gates') <=> Lowerable(gates)
    BY <1>1 DEF Lowerable, GateValuesOf
  <2> QED  BY <1>1, <2>1 DEF AgreeInv
<1>2. StandingInv
  BY DEF AgreeInv
<1>3. Made' = Made
  BY <1>1 DEF Made
<1>4. Stands(gates, net, lowered)' <=> Stands(gates, net, lowered)
  BY <1>1 DEF Stands, AllRows, Standing, RowStart, Placed, GateValuesOf
<1>5. Forces(gates, net, lowered, Made)' <=> Forces(gates, net, lowered, Made)
  BY <1>1, <1>3 DEF Forces, Together, ForcedIn, ReadsIn, Placed
<1>6. Placed(gates)' = Placed(gates)
  BY <1>1 DEF Placed
<1> QED  BY <1>1, <1>2, <1>3, <1>4, <1>5, <1>6 DEF StandingInv

LEMMA ReplaceAgree ==
  ASSUME LowerInv, AgreeInv, NEW g \in pending, Replace(g)
  PROVE  AgreeInv'
<1>1. /\ phase = "replace" /\ phase' = phase /\ gates' = gates
      /\ net' = Rewire(net, Placeholder(g), lowered[g]) /\ lowered' = lowered
  BY DEF Replace
<1> SUFFICES ASSUME gates # None, Lowerable(gates) PROVE StandingInv'
  <2>1. Lowerable(gates') <=> Lowerable(gates)
    BY <1>1 DEF Lowerable, GateValuesOf
  <2> QED  BY <1>1, <2>1 DEF AgreeInv
<1>2. StandingInv /\ Replacing
  BY <1>1 DEF AgreeInv, LowerInv
<1>3. /\ gates \in GateNetworks /\ g \in Live(gates)
      /\ Joins(net, Declared \cup Waiting(pending))
      /\ lowered[g] \in Pins(net) \cup Declared
  BY <1>2 DEF Replacing
<1>4. lowered[g] \in Int
  <2>1. \A m \in Declared : m \in Int
    BY <1>3, EndsFacts DEF Negative, WireEnds
  <2> QED  BY <1>3, <2>1 DEF Pins
<1>5. Made' = Made
  BY <1>1 DEF Made
<1>6. Stands(gates, net', lowered)
  BY <1>1, <1>2, <1>3, <1>4, StandsReplaced DEF StandingInv
<1>7. Forces(gates, net', lowered, Made)
  BY <1>1, <1>2, <1>3, ForcesReplaced DEF StandingInv
<1>8. Stands(gates, net, lowered)' <=> Stands(gates, net', lowered)
  BY <1>1 DEF Stands, AllRows, Standing, RowStart, Placed, GateValuesOf
<1>9. Forces(gates, net, lowered, Made)' <=> Forces(gates, net', lowered, Made)
  BY <1>1, <1>5 DEF Forces, Together, ForcedIn, ReadsIn, Placed
<1>10. Placed(gates)' = Placed(gates)
  BY <1>1 DEF Placed
<1> QED  BY <1>1, <1>2, <1>5, <1>6, <1>7, <1>8, <1>9, <1>10 DEF StandingInv

LEMMA ReadyKept ==
  ASSUME Ready(gates, net, lowered), gates' = gates, lowered' = lowered, net' = net
  PROVE  Ready(gates, net, lowered)'
<1>1. Stands(gates, net, lowered)' <=> Stands(gates, net, lowered)
  BY DEF Stands, AllRows, Standing, RowStart, Placed, GateValuesOf
<1>2. Forces(gates, net, lowered, Live(gates))' <=> Forces(gates, net, lowered, Live(gates))
  BY DEF Forces, Together, ForcedIn, ReadsIn, Placed
<1>3. Placed(gates)' = Placed(gates) /\ Declared' = Declared
  BY DEF Placed, Declared
<1> QED  BY <1>1, <1>2, <1>3 DEF Ready

LEMMA CallAgree ==
  ASSUME LowerInv, AgreeInv, Call
  PROVE  AgreeInv'
<1>1. /\ phase = "replace" /\ pending = {} /\ phase' = "evaluate" /\ gates' = gates
      /\ net' = net /\ lowered' = lowered /\ inputs' = Len(InputOrder) /\ verdict' = "running"
      /\ row' = 0
  BY DEF Call, BeginRow
<1> SUFFICES ASSUME gates # None, Lowerable(gates) PROVE StandingInv' /\ InRow'
  <2>1. Lowerable(gates') <=> Lowerable(gates)
    BY <1>1 DEF Lowerable, GateValuesOf
  <2> QED  BY <1>1, <2>1 DEF AgreeInv
<1>2. StandingInv /\ Replacing
  BY <1>1 DEF AgreeInv, LowerInv
<1>3. Made' = Made /\ Made = Live(gates)
  BY <1>1 DEF Made
<1>4. Joins(net, Declared)
  <2>1. Waiting(pending) = {}
    BY <1>1 DEF Waiting
  <2> QED  BY <1>2, <2>1 DEF Replacing
<1>5. StandingInv'
  <2>1. Stands(gates, net, lowered)' <=> Stands(gates, net, lowered)
    BY <1>1 DEF Stands, AllRows, Standing, RowStart, Placed, GateValuesOf
  <2>2. Forces(gates, net, lowered, Made)' <=> Forces(gates, net, lowered, Made)
    BY <1>1, <1>3 DEF Forces, Together, ForcedIn, ReadsIn, Placed
  <2>3. Placed(gates)' = Placed(gates)
    BY <1>1 DEF Placed
  <2> QED  BY <1>1, <1>2, <1>3, <2>1, <2>2, <2>3 DEF StandingInv
<1>6. Ready(gates, net, lowered)
  <2>1. \A g \in Live(gates) : lowered[g] \in Pins(net) \cup Declared
    BY <1>2 DEF Replacing
  <2>2. /\ DOMAIN lowered = LiveTerminals(gates)
        /\ \A t \in LiveTerminals(gates) : t \notin Live(gates) => lowered[t] = Placed(gates)[t]
        /\ \A g \in Live(gates) : gates.kind[g] = "lookup" => Len(gates.ins[g]) = 4
        /\ Stands(gates, net, lowered) /\ Forces(gates, net, lowered, Live(gates))
    BY <1>2, <1>3 DEF StandingInv
  <2> QED  BY <1>4, <2>1, <2>2 DEF Ready
<1>7. Ready(gates, net, lowered)'
  BY <1>1, <1>6, ReadyKept
<1>8. RowInv'
  BY <1>1, CallInv DEF LowerInv
<1>9. row' \in AllRows
  BY <1>1, RowsFacts
<1>10. InRow'
  <2>1. AllRows' = AllRows
    BY DEF AllRows
  <2> QED  BY <1>1, <1>7, <1>8, <1>9, <2>1 DEF InRow
<1> QED  BY <1>5, <1>10

\* A step of the evaluation, the last of the last row included.
LEMMA EvaluateAgree ==
  ASSUME LowerInv, AgreeInv, Evaluate, UNCHANGED lowerVars
  PROVE  AgreeInv'
<1>1. /\ phase' = phase /\ gates' = gates /\ lowered' = lowered /\ pending' = pending
      /\ net' = net /\ inputs' = inputs
      /\ \/ row' = row
         \/ row' = row + 1 /\ row + 1 < 2 ^ inputs
      /\ \/ verdict' = "running"
         \/ UNCHANGED <<row, state, initial, queue, level, rest>>
      /\ verdict = "running"
  <2>1. phase' = phase /\ gates' = gates /\ lowered' = lowered /\ pending' = pending
    BY DEF lowerVars
  <2>2. ASSUME NEW node \in initial, TakeInitial(node)
        PROVE  /\ net' = net /\ inputs' = inputs /\ verdict' = verdict /\ row' = row
               /\ verdict = "running"
    BY <2>2 DEF TakeInitial, Take, Evaluating
  <2>3. CASE TakeQueued
    BY <2>1, <2>3 DEF TakeQueued, Take, Evaluating
  <2>4. ASSUME NEW pin \in rest, Visit(pin)
        PROVE  /\ net' = net /\ inputs' = inputs /\ verdict' = verdict /\ row' = row
               /\ verdict = "running"
    BY <2>4 DEF Visit, LowerInv
  <2>5. CASE EndRow
    <3>1. net' = net /\ inputs' = inputs /\ verdict = "running"
      BY <2>5 DEF EndRow, Evaluating
    <3>2. CASE Accepts /\ row + 1 < 2 ^ inputs
      BY <2>1, <2>5, <3>1, <3>2 DEF EndRow, BeginRow
    <3>3. CASE ~ (Accepts /\ row + 1 < 2 ^ inputs)
      BY <2>1, <2>5, <3>1, <3>3 DEF EndRow
    <3> QED  BY <3>2, <3>3
  <2> QED  BY <2>1, <2>2, <2>3, <2>4, <2>5 DEF Evaluate
<1> SUFFICES ASSUME gates # None, Lowerable(gates) PROVE StandingInv' /\ InRow'
  <2>1. Lowerable(gates') <=> Lowerable(gates)
    BY <1>1 DEF Lowerable, GateValuesOf
  <2> QED  BY <1>1, <2>1 DEF AgreeInv
<1>2. phase = "evaluate"
  BY <1>1 DEF LowerInv
<1>3. StandingInv /\ InRow
  BY <1>2 DEF AgreeInv
<1>4. StandingInv'
  BY <1>1, <1>3, StandingKept
<1>5. Ready(gates, net, lowered)'
  BY <1>1, <1>3, ReadyKept DEF InRow
<1>6. RowInv'
  <2>1. verdict' = "running" => RowInv'
    BY EvaluateStepInv DEF LowerInv
  <2>2. CASE UNCHANGED <<row, state, initial, queue, level, rest>>
    <3>1. SameRow
      BY <1>1, <2>2 DEF SameRow
    <3> QED  BY <1>3, <2>2, <3>1, UnchangedRowInv DEF InRow
  <2> QED  BY <1>1, <2>1, <2>2
<1>7. row' \in AllRows
  <2> DEFINE p == 2 ^ Len(InputOrder)
  <2>1. p \in Nat /\ row \in 0 .. p - 1 /\ (row' = row \/ (row' = row + 1 /\ row + 1 < p))
    BY <1>1, <1>3, RowsFacts DEF InRow, AllRows
  <2> HIDE DEF p
  <2>2. row' \in 0 .. p - 1
    BY <2>1
  <2> QED  BY <2>2 DEF AllRows, p
<1>8. InRow'
  <2>1. AllRows' = AllRows
    BY DEF AllRows
  <2> QED  BY <1>1, <1>3, <1>5, <1>6, <1>7, <2>1 DEF InRow
<1> QED  BY <1>4, <1>8

LEMMA StepAgreeInv == LowerInv /\ AgreeInv /\ [Next]_vars => AgreeInv'
<1> SUFFICES ASSUME LowerInv, AgreeInv, [Next]_vars PROVE AgreeInv'
  OBVIOUS
<1>1. ASSUME NEW g \in pending, LowerGate(g) PROVE AgreeInv'
  BY <1>1, LowerGateAgree
<1>2. ASSUME NEW g \in pending, Replace(g) PROVE AgreeInv'
  BY <1>2, ReplaceAgree
<1>3. CASE AllLowered
  BY <1>3, AllLoweredAgree
<1>4. CASE Call
  BY <1>4, CallAgree
<1>5. CASE CallByHand \/ DropTransistors
  <2>1. phase = "wired" /\ gates' = gates
    BY <1>5 DEF CallByHand, DropTransistors, lowerVars
  <2>2. Lowerable(gates') <=> Lowerable(gates)
    BY <2>1 DEF Lowerable, GateValuesOf
  <2>3. ~ (gates # None /\ Lowerable(gates))
    BY <2>1 DEF AgreeInv, StandingInv
  <2> QED  BY <2>1, <2>2, <2>3 DEF AgreeInv
<1>6. CASE Evaluate /\ UNCHANGED lowerVars
  BY <1>6, EvaluateAgree
<1>7. CASE UNCHANGED vars
  <2>1. /\ net' = net /\ inputs' = inputs /\ row' = row /\ state' = state /\ initial' = initial
        /\ queue' = queue /\ level' = level /\ rest' = rest
        /\ gates' = gates /\ phase' = phase /\ lowered' = lowered /\ pending' = pending
    BY <1>7 DEF vars
  <2>2. Lowerable(gates') <=> Lowerable(gates)
    BY <2>1 DEF Lowerable, GateValuesOf
  <2>3. StandingInv => StandingInv'
    BY <2>1, StandingKept
  <2>4. InRow => InRow'
    <3>1. SameRow
      BY <2>1 DEF SameRow
    <3>2. RowInv => RowInv'
      BY <2>1, <3>1, UnchangedRowInv
    <3>3. Ready(gates, net, lowered) => Ready(gates, net, lowered)'
      BY <2>1, ReadyKept
    <3> QED  BY <2>1, <3>2, <3>3 DEF InRow, AllRows
  <2> QED  BY <2>1, <2>2, <2>3, <2>4 DEF AgreeInv
<1> QED  BY <1>1, <1>2, <1>3, <1>4, <1>5, <1>6, <1>7 DEF Next, Work, Done

\* Both invariants, in every reachable state.
LEMMA AgreeInvariant == Spec => [](LowerInv /\ AgreeInv)
<1>1. Init => LowerInv /\ AgreeInv
  BY InitLowerInv, InitAgreeInv
<1>2. LowerInv /\ AgreeInv /\ [Next]_vars => (LowerInv /\ AgreeInv)'
  BY StepLowerInv, StepAgreeInv
<1> QED  BY <1>1, <1>2, PTL DEF Spec

\* At the end of a row no pin is short, and each terminal has its value.
LEMMA RowAgrees ==
  ASSUME gates \in GateNetworks, Lowerable(gates), InRow
  PROVE  /\ ~ Shorted
         /\ Propagated => \A t \in LiveTerminals(gates) :
              StateOf(lowered[t]) = Level(GateValuesOf(gates, row)[t])
<1> DEFINE C == Carried(net, Begin)
           v == GateValuesOf(gates, row)
<1>1. /\ inputs = Len(InputOrder) /\ inputs \in Nat /\ row \in AllRows /\ RowInv
      /\ Begin = RowStart(row) /\ Ready(gates, net, lowered)
  BY LowerAssumption DEF InRow, Begin, RowStart
<1>2. Fits(net, Begin)
  <2>1. IsWiring(net, Leads(inputs))
    BY <1>1, JoinsIsWiring DEF Ready, Declared
  <2> QED  BY <1>1, <2>1, WiringFits DEF Begin
<1>3. /\ \E f \in Labelling : C \subseteq LevelsOf(f)
      /\ \A t \in LiveTerminals(gates) : \A l \in Levels : <<lowered[t], l>> \in C <=> v[t] = l
  BY <1>1, CarriedRight
<1>4. ~ Shorted
  <2>1. Shorted => Conflict
    BY <1>1 DEF RowInv, OnlyCarried
  <2>2. ASSUME Conflict PROVE FALSE
    <3>1. PICK m \in Reach : <<m, "low">> \in C /\ <<m, "high">> \in C
      BY <2>2 DEF Conflict, Carries
    <3>2. PICK f \in Labelling : C \subseteq LevelsOf(f)
      BY <1>3
    <3>3. <<m, "low">> \in LevelsOf(f) /\ <<m, "high">> \in LevelsOf(f)
      BY <3>1, <3>2
    <3> QED  BY <3>3, LevelsOfMember
  <2> QED  BY <2>1, <2>2
<1>5. ASSUME Propagated, NEW t \in LiveTerminals(gates)
      PROVE  StateOf(lowered[t]) = Level(v[t])
  <2>1. lowered[t] \in Reach
    <3>1. \A m \in Declared : m \in DOMAIN Begin
      BY <1>1, EndsFacts
    <3>2. t \notin Live(gates) => lowered[t] \in DOMAIN Begin
      BY <1>1, PlacedStart DEF Ready
    <3> QED  BY <1>1, <3>1, <3>2 DEF Ready, Reach, Nodes
  <2>2. \A l \in Levels : Carries(lowered[t], l) => StateOf(lowered[t]) = l
    BY <1>1, <1>2, <1>4, <1>5, <2>1, SettledIsClosed
  <2>3. StateOf(lowered[t]) \in Levels => Carries(lowered[t], StateOf(lowered[t]))
    BY <1>1 DEF RowInv, OnlyCarried, StateOf, Levels
  <2>4. StateOf(lowered[t]) \in Levels \cup {"undefined"}
    BY <1>1, <1>4 DEF RowInv, RowType, StateOf, PinState, Shorted
  <2>5. \A l \in Levels : Carries(lowered[t], l) <=> v[t] = l
    BY <1>3 DEF Carries
  <2> HIDE DEF v
  <2>6. CASE v[t] \in Levels
    BY <2>2, <2>5, <2>6 DEF Level
  <2>7. CASE v[t] \notin Levels
    BY <2>3, <2>4, <2>5, <2>7 DEF Level
  <2> QED  BY <2>6, <2>7
<1> QED  BY <1>4, <1>5 DEF v

\* The transistors compute what the gates do: whatever the network that is lowered, as
\* long as transistors can stand for it, in each row and for each order in which the
\* levels spread, no pin is ever short and each gate's node ends with the value the
\* inputs give the gate.
THEOREM TransistorsAgree == Spec => [](Lowerable(gates) => GatesAgree)
<1>1. LowerInv /\ AgreeInv => (Lowerable(gates) => GatesAgree)
  <2> SUFFICES ASSUME LowerInv, AgreeInv, Lowerable(gates), phase = "evaluate", gates # None
               PROVE  /\ \A n \in DOMAIN state : state[n] # "short"
                      /\ Propagated => \A t \in DOMAIN lowered :
                           StateOf(lowered[t]) = Level(GateValuesOf(gates, row)[t])
    BY DEF GatesAgree
  <2>1. StandingInv /\ InRow
    BY DEF AgreeInv
  <2>2. gates \in GateNetworks /\ DOMAIN lowered = LiveTerminals(gates)
    BY <2>1 DEF StandingInv
  <2> QED  BY <2>1, <2>2, RowAgrees DEF Shorted
<1> QED  BY <1>1, AgreeInvariant, PTL

----------------------------------------------------------------------------
(* What EvaluateAll and VerifySpec answer for a lowered network.             *)

\* The outputs that the gates have in row r, and whether the inputs decide them all.
Expected(r) == OutputValues(gates, r)
Decides(r) == \A o \in 1 .. gates.outs : Expected(r)[o] \in Levels

RowOutputs == {Expected(r) : r \in AllRows}

\* The rows before this one are in the table, and decided.
Tabling ==
  /\ outputs = [o \in 1 .. gates.outs |-> lowered[gates.ins[Sink][o]]]
  /\ spec \in {None, [r \in AllRows |-> Expected(r)]}
  /\ table \in Seq(RowOutputs)
  /\ Len(table) = row
  /\ \A r \in 1 .. row : table[r] = Expected(r - 1) /\ Decides(r - 1)

VerdictInv ==
  gates # None /\ Lowerable(gates) =>
    /\ phase # "evaluate" => verdict = "none" /\ table = << >>
    /\ phase = "evaluate" => verdict \in {"running"} \cup Verdicts
    /\ verdict = "running" => Tabling
    /\ VerdictIsRight

\* The outputs read terminals.
LEMMA SinkFacts ==
  ASSUME NEW n \in GateNetworks
  PROVE  /\ n.outs \in Nat
         /\ \A o \in 1 .. n.outs : n.ins[Sink][o] \in LiveTerminals(n)
<1>1. WellFormed(n)
  BY LowerAssumption
<1>2. n.outs \in 0 .. MaxOutputs /\ DOMAIN n.ins[Sink] = 1 .. MaxOutputs /\ MaxOutputs \in Nat
  BY <1>1, NetAssumption DEF WellFormed, IsNet, DeadIsBare
<1>3. Sink \in Users
  BY DEF Users
<1>4. ASSUME NEW o \in 1 .. n.outs PROVE n.ins[Sink][o] \in LiveTerminals(n)
  <2>1. o \in DOMAIN n.ins[Sink] /\ ~ (o > n.outs)
    BY <1>2
  <2> QED  BY <1>1, <1>3, <2>1 DEF WellFormed, ReadsLive
<1> QED  BY <1>2, <1>4

\* At the end of a row, the outputs have the levels that the gates give them.
LEMMA OutputsAgree ==
  ASSUME gates \in GateNetworks, Lowerable(gates), InRow, Tabling, Propagated
  PROVE  /\ DOMAIN outputs = 1 .. gates.outs
         /\ OutputStates = [o \in 1 .. gates.outs |-> Level(Expected(row)[o])]
         /\ Decides(row) => OutputStates = Expected(row)
         /\ Accepts <=> Decides(row)
<1> DEFINE e == Expected(row)
           v == GateValuesOf(gates, row)
           O == 1 .. gates.outs
<1>1. DOMAIN outputs = O /\ \A o \in O : outputs[o] = lowered[gates.ins[Sink][o]]
  BY DEF Tabling
<1>2. e = [o \in O |-> v[gates.ins[Sink][o]]]
  BY DEF Expected, OutputValues
<1>3. \A o \in O : gates.ins[Sink][o] \in LiveTerminals(gates)
  BY SinkFacts
<1>4. \A o \in O : StateOf(outputs[o]) = Level(e[o])
  <2>1. \A t \in LiveTerminals(gates) : StateOf(lowered[t]) = Level(v[t])
    BY RowAgrees
  <2> HIDE DEF v, e, O
  <2> QED  BY <1>1, <1>2, <1>3, <2>1
<1>5. \A o \in O : e[o] \in Values
  <2>1. LiveTerminals(gates) \in SUBSET Terminals
    BY NetworkFacts DEF LiveTerminals, Terminals
  <2>2. v \in States
    BY GateValuesTyped
  <2> HIDE DEF v, e, O
  <2> QED  BY <1>2, <1>3, <2>1, <2>2 DEF States
<1> HIDE DEF v
<1>6. e = [o \in O |-> e[o]]
  <2> HIDE DEF O, e
  <2> QED  BY <1>2
<1> HIDE DEF e, O
<1>7. OutputStates = [o \in O |-> Level(e[o])]
  BY <1>1, <1>4 DEF OutputStates
<1>8. \A o \in O : /\ Level(e[o]) \in Levels <=> e[o] \in Levels
                   /\ Level(e[o]) = e[o] <=> e[o] \in Levels
  BY <1>5 DEF Level, Levels, Values, Known
<1>9. Decides(row) <=> \A o \in O : e[o] \in Levels
  BY DEF Decides, e, O
<1>10. OutputStates = e <=> Decides(row)
  <2>1. ASSUME Decides(row) PROVE OutputStates = e
    <3>1. \A o \in O : Level(e[o]) = e[o]
      BY <1>8, <1>9, <2>1
    <3> QED  BY <1>6, <1>7, <3>1
  <2>2. ASSUME OutputStates = e PROVE Decides(row)
    <3>1. \A o \in O : OutputStates[o] = Level(e[o])
      BY <1>7
    <3>2. \A o \in O : Level(e[o]) = e[o]
      BY <2>2, <3>1
    <3> QED  BY <1>8, <1>9, <3>2
  <2> QED  BY <2>1, <2>2
<1>11. Tabulated <=> Decides(row)
  <2>1. \A o \in O : OutputStates[o] = Level(e[o])
    BY <1>7
  <2> QED  BY <1>1, <1>8, <1>9, <2>1 DEF Tabulated
<1>12. \A i \in InputBits : state[i] \in Levels
  <2>1. ~ Shorted /\ RowInv
    BY RowAgrees DEF InRow
  <2>2. inputs \in Nat
    BY LowerAssumption DEF InRow
  <2>3. \A m \in DOMAIN Begin : Begin[m] \in Levels /\ m \in DOMAIN state
    BY <2>1, <2>2, StartFacts DEF Begin, RowInv, RowType
  <2>4. InputBits \in SUBSET DOMAIN Begin
    BY <2>2, StartFacts DEF InputBits, Begin
  <2> QED  BY <2>1, <2>3, <2>4 DEF RowInv, StartKept, Shorted
<1>13. spec # None => spec[row] = e
  BY DEF Tabling, InRow, e
<1>14. Accepts <=> Decides(row)
  BY <1>10, <1>11, <1>12, <1>13 DEF Accepts, AsSpecified
<1> QED  BY <1>1, <1>7, <1>10, <1>14 DEF e, O

\* The call ends, or goes on to the next row.
LEMMA EndRowVerdict ==
  ASSUME gates \in GateNetworks, Lowerable(gates), InRow, Tabling, EndRow, UNCHANGED lowerVars,
         gates # None
  PROVE  /\ verdict' \in {"running"} \cup Verdicts
         /\ verdict' = "running" => Tabling'
         /\ VerdictIsRight'
<1> DEFINE p == 2 ^ Len(InputOrder)
<1>1. /\ gates' = gates /\ lowered' = lowered /\ outputs' = outputs /\ spec' = spec
      /\ inputs' = inputs
      /\ verdict = "running" /\ Propagated /\ table' = Append(table, OutputStates)
  BY DEF EndRow, Evaluating, lowerVars
<1>2. /\ DOMAIN outputs = 1 .. gates.outs
      /\ Decides(row) => OutputStates = Expected(row)
      /\ Accepts <=> Decides(row)
  BY <1>1, OutputsAgree
<1>3. p \in Nat /\ row \in 0 .. p - 1 /\ 2 ^ inputs = p
  BY RowsFacts DEF InRow, AllRows
<1>4. \A r : Expected(r)' = Expected(r) /\ Decides(r)' = Decides(r)
  BY <1>1 DEF Expected, Decides, OutputValues, GateValuesOf
<1>5. /\ table \in Seq(RowOutputs) /\ Len(table) = row
      /\ \A r \in 1 .. row : table[r] = Expected(r - 1) /\ Decides(r - 1)
  BY DEF Tabling
<1> DEFINE rows == [r \in 1 .. 2 ^ inputs |-> OutputValues(gates, r - 1)]
           right == IF \A r \in DOMAIN rows : \A o \in DOMAIN outputs : rows[r][o] \in Levels
                    THEN verdict' = "ok" /\ table' = rows
                    ELSE verdict' # "ok"
<1>6. VerdictIsRight' <=> (verdict' \in Verdicts => right)
  <2>1. rows' = rows
    BY <1>1 DEF OutputValues, GateValuesOf
  <2> HIDE DEF rows
  <2> QED  BY <1>1, <2>1 DEF VerdictIsRight, rows
<1>7. rows = [r \in 1 .. p |-> Expected(r - 1)]
  BY <1>3 DEF Expected
<1> HIDE DEF p, rows
<1>8. (\A r \in DOMAIN rows : \A o \in DOMAIN outputs : rows[r][o] \in Levels) <=>
        \A r \in 1 .. p : Decides(r - 1)
  BY <1>2, <1>7 DEF Decides
<1>9. CASE Accepts
  <2>1. Decides(row) /\ table' = Append(table, Expected(row))
    BY <1>1, <1>2, <1>9
  <2>2. Expected(row) \in RowOutputs
    BY DEF RowOutputs, InRow
  <2>3. /\ table' \in Seq(RowOutputs) /\ Len(table') = row + 1
        /\ \A r \in 1 .. row : table'[r] = table[r]
        /\ table'[row + 1] = Expected(row)
    <3> HIDE DEF RowOutputs, Expected
    <3>1. \A s \in Seq(RowOutputs), x \in RowOutputs :
            /\ Append(s, x) \in Seq(RowOutputs) /\ Len(Append(s, x)) = Len(s) + 1
            /\ \A r \in 1 .. Len(s) : Append(s, x)[r] = s[r]
            /\ Append(s, x)[Len(s) + 1] = x
      BY AppendProperties
    <3> QED  BY <1>5, <2>1, <2>2, <3>1
  <2>4. \A r \in 1 .. row + 1 : table'[r] = Expected(r - 1) /\ Decides(r - 1)
    <3> TAKE r \in 1 .. row + 1
    <3>1. CASE r \in 1 .. row
      BY <1>5, <2>3, <3>1
    <3>2. CASE r \notin 1 .. row
      <4>1. r = row + 1 /\ r - 1 = row
        BY <1>3, <3>2
      <4> QED  BY <2>1, <2>3, <4>1
    <3> QED  BY <3>1, <3>2
  <2>5. CASE row + 1 < p
    <3>1. verdict' = verdict /\ row' = row + 1
      BY <1>3, <1>9, <2>5 DEF EndRow, BeginRow
    <3>2. Tabling'
      <4>1. RowOutputs' = RowOutputs /\ AllRows' = AllRows
        BY <1>4 DEF RowOutputs, AllRows
      <4>2. outputs' = [o \in 1 .. gates'.outs |-> lowered'[gates'.ins[Sink][o]]]
        BY <1>1 DEF Tabling
      <4>3. spec' \in {None, [r \in AllRows |-> Expected(r)']}
        BY <1>1, <1>4 DEF Tabling
      <4>4. \A r \in 1 .. row' : table'[r] = Expected(r - 1)' /\ Decides(r - 1)'
        BY <1>4, <2>4, <3>1
      <4> QED  BY <2>3, <3>1, <4>1, <4>2, <4>3, <4>4 DEF Tabling
    <3> QED  BY <1>1, <1>6, <3>1, <3>2 DEF Verdicts
  <2>6. CASE ~ (row + 1 < p)
    <3>1. verdict' = "ok"
      BY <1>3, <1>9, <2>6 DEF EndRow
    <3>2. row + 1 = p
      BY <1>3, <2>6
    <3>3. table' = rows
      <4>1. table' = [r \in 1 .. p |-> table'[r]]
        BY <2>3, <3>2
      <4> QED  BY <1>7, <2>4, <3>2, <4>1
    <3>4. right
      BY <3>1, <3>3, <1>8, <2>4, <3>2
    <3> QED  BY <1>6, <3>1, <3>4 DEF Verdicts
  <2> QED  BY <2>5, <2>6
<1>10. CASE ~ Accepts
  <2>1. verdict' \in {"threw", "failed"}
    BY <1>10 DEF EndRow
  <2>2. row + 1 \in 1 .. p /\ row + 1 - 1 = row
    BY <1>3
  <2>3. ~ Decides(row)
    BY <1>2, <1>10
  <2>4. ~ \A r \in 1 .. p : Decides(r - 1)
    <3>1. PICK r \in 1 .. p : r - 1 = row
      BY <1>3, <2>2
    <3>2. ~ Decides(r - 1)
      BY <2>3, <3>1, Zenon
    <3> QED  BY <3>2
  <2>5. right
    BY <1>8, <2>1, <2>4
  <2> QED  BY <1>6, <2>1, <2>5 DEF Verdicts
<1> QED  BY <1>9, <1>10

\* What stays the same in a step stays tabulated, and right.
LEMMA VerdictKept ==
  ASSUME gates' = gates, lowered' = lowered, outputs' = outputs, spec' = spec, row' = row,
         inputs' = inputs, table' = table, verdict' = verdict
  PROVE  /\ Tabling => Tabling'
         /\ VerdictIsRight => VerdictIsRight'
<1>1. /\ RowOutputs' = RowOutputs /\ AllRows' = AllRows
      /\ \A r : Expected(r)' = Expected(r) /\ (Decides(r)' <=> Decides(r))
  BY DEF RowOutputs, AllRows, Expected, Decides, OutputValues, GateValuesOf
<1>2. Tabling => Tabling'
  BY <1>1 DEF Tabling
<1>3. VerdictIsRight => VerdictIsRight'
  <2> DEFINE rows == [r \in 1 .. 2 ^ inputs |-> OutputValues(gates, r - 1)]
  <2>1. rows' = rows
    BY DEF OutputValues, GateValuesOf
  <2>2. VerdictIsRight <=>
          (verdict \in Verdicts =>
             IF gates = None THEN spec # None => verdict = "ok"
             ELSE IF \A r \in DOMAIN rows : \A o \in DOMAIN outputs : rows[r][o] \in Levels
                  THEN verdict = "ok" /\ table = rows
                  ELSE verdict # "ok")
    BY DEF VerdictIsRight
  <2>3. VerdictIsRight' <=>
          (verdict' \in Verdicts =>
             IF gates' = None THEN spec' # None => verdict' = "ok"
             ELSE IF \A r \in DOMAIN rows' : \A o \in DOMAIN outputs' : rows'[r][o] \in Levels
                  THEN verdict' = "ok" /\ table' = rows'
                  ELSE verdict' # "ok")
    BY DEF VerdictIsRight
  <2> HIDE DEF rows
  <2> QED  BY <2>1, <2>2, <2>3
<1> QED  BY <1>2, <1>3

LEMMA InitVerdictInv == Init => VerdictInv
BY DEF Init, VerdictInv, VerdictIsRight, Verdicts

LEMMA LowerableKept ==
  ASSUME gates' = gates
  PROVE  Lowerable(gates)' <=> Lowerable(gates)
BY DEF Lowerable, GateValuesOf

\* While the network is made, no row has been tabulated.
LEMMA MakeVerdict ==
  ASSUME VerdictInv, phase # "evaluate", phase' # "evaluate", gates' = gates,
         verdict' = verdict, table' = table
  PROVE  VerdictInv'
<1>1. Lowerable(gates)' <=> Lowerable(gates)
  BY LowerableKept
<1>2. SUFFICES ASSUME gates # None, Lowerable(gates)
               PROVE  /\ verdict' = "none" /\ table' = << >>
                      /\ VerdictIsRight'
  BY <1>1 DEF VerdictInv
<1>3. verdict = "none" /\ table = << >>
  BY <1>2 DEF VerdictInv
<1> QED  BY <1>3 DEF VerdictIsRight, Verdicts

LEMMA CallVerdict ==
  ASSUME VerdictInv, LowerInv, AgreeInv, Call
  PROVE  VerdictInv'
<1>1. /\ phase = "replace" /\ phase' = "evaluate" /\ gates' = gates /\ lowered' = lowered
      /\ outputs' = [o \in 1 .. gates.outs |-> lowered[gates.ins[Sink][o]]]
      /\ spec' \in {None, [r \in 0 .. 2 ^ Len(InputOrder) - 1 |-> OutputValues(gates, r)]}
      /\ row' = 0 /\ verdict' = "running" /\ table' = table
  BY DEF Call, BeginRow
<1>2. Lowerable(gates)' <=> Lowerable(gates)
  BY <1>1, LowerableKept
<1>3. SUFFICES ASSUME gates # None, Lowerable(gates)
               PROVE  Tabling' /\ VerdictIsRight'
  BY <1>1, <1>2 DEF VerdictInv
<1>4. table = << >>
  BY <1>1, <1>3 DEF VerdictInv
<1>5. VerdictIsRight'
  BY <1>1 DEF VerdictIsRight, Verdicts
<1>6. RowOutputs' = RowOutputs /\ AllRows' = AllRows /\ \A r : Expected(r)' = Expected(r)
  BY <1>1 DEF RowOutputs, AllRows, Expected, OutputValues, GateValuesOf
<1>7. [r \in AllRows |-> Expected(r)]' = [r \in AllRows |-> OutputValues(gates, r)]
  BY <1>6 DEF Expected
<1>8. spec' \in {None, [r \in AllRows |-> Expected(r)]'}
  BY <1>1, <1>7 DEF AllRows
<1>9. /\ table' \in Seq(RowOutputs) /\ Len(table') = row'
      /\ \A r \in 1 .. row' : table'[r] = Expected(r - 1)' /\ Decides(r - 1)'
  <2> HIDE DEF RowOutputs
  <2>1. table' = << >> /\ row' = 0 /\ 1 .. row' = {}
    BY <1>1, <1>4
  <2> QED  BY <2>1
<1> QED  BY <1>1, <1>5, <1>6, <1>8, <1>9 DEF Tabling

LEMMA EvaluateVerdict ==
  ASSUME VerdictInv, LowerInv, AgreeInv, Evaluate, UNCHANGED lowerVars
  PROVE  VerdictInv'
<1>1. /\ gates' = gates /\ phase' = phase /\ lowered' = lowered
      /\ verdict = "running"
  <2>1. verdict # "running" => rest = {}
    BY DEF LowerInv
  <2>2. ASSUME NEW node, Take(node) PROVE verdict = "running"
    BY <2>2 DEF Take, Evaluating
  <2>3. verdict = "running"
    BY <2>1, <2>2 DEF Evaluate, TakeInitial, TakeQueued, EndRow, Evaluating
  <2> QED  BY <2>3 DEF lowerVars
<1>2. Lowerable(gates)' <=> Lowerable(gates)
  BY <1>1, LowerableKept
<1>3. phase = "evaluate"
  BY <1>1 DEF LowerInv
<1>4. SUFFICES ASSUME gates # None, Lowerable(gates)
               PROVE  /\ verdict' \in {"running"} \cup Verdicts
                      /\ verdict' = "running" => Tabling'
                      /\ VerdictIsRight'
  BY <1>1, <1>2, <1>3 DEF VerdictInv
<1>5. Tabling /\ VerdictIsRight
  BY <1>1, <1>4 DEF VerdictInv
<1>6. InRow /\ gates \in GateNetworks
  BY <1>3, <1>4 DEF AgreeInv, StandingInv
<1>7. CASE EndRow
  BY <1>4, <1>5, <1>6, <1>7, EndRowVerdict
<1>8. CASE ~ EndRow
  <2>1. /\ outputs' = outputs /\ spec' = spec /\ row' = row /\ inputs' = inputs
        /\ table' = table /\ verdict' = verdict
    BY <1>8 DEF Evaluate, TakeInitial, TakeQueued, Take, Visit
  <2> QED  BY <1>1, <1>5, <2>1, VerdictKept
<1> QED  BY <1>7, <1>8

LEMMA StepVerdictInv == LowerInv /\ AgreeInv /\ VerdictInv /\ [Next]_vars => VerdictInv'
<1> SUFFICES ASSUME LowerInv, AgreeInv, VerdictInv, [Next]_vars PROVE VerdictInv'
  OBVIOUS
<1>1. ASSUME NEW g \in pending, LowerGate(g) \/ Replace(g) PROVE VerdictInv'
  BY <1>1, MakeVerdict DEF LowerGate, Replace
<1>2. CASE AllLowered
  BY <1>2, MakeVerdict DEF AllLowered, evalVars
<1>3. CASE Call
  BY <1>3, CallVerdict
<1>4. CASE CallByHand \/ DropTransistors
  <2>1. phase = "wired" /\ gates' = gates
    BY <1>4 DEF CallByHand, DropTransistors, lowerVars
  <2>2. Lowerable(gates)' <=> Lowerable(gates)
    BY <2>1, LowerableKept
  <2>3. ~ (gates # None /\ Lowerable(gates))
    BY <2>1 DEF AgreeInv, StandingInv
  <2> QED  BY <2>1, <2>2, <2>3 DEF VerdictInv
<1>5. CASE Evaluate /\ UNCHANGED lowerVars
  BY <1>5, EvaluateVerdict
<1>6. CASE UNCHANGED vars
  <2>1. /\ outputs' = outputs /\ spec' = spec /\ row' = row /\ inputs' = inputs
        /\ table' = table /\ verdict' = verdict
        /\ gates' = gates /\ phase' = phase /\ lowered' = lowered
    BY <1>6 DEF vars
  <2>2. Lowerable(gates)' <=> Lowerable(gates)
    BY <2>1, LowerableKept
  <2>3. (Tabling => Tabling') /\ (VerdictIsRight => VerdictIsRight')
    BY <2>1, VerdictKept
  <2> QED  BY <2>1, <2>2, <2>3 DEF VerdictInv
<1> QED  BY <1>1, <1>2, <1>3, <1>4, <1>5, <1>6 DEF Next, Work, Done

\* The callers' answer is right, whatever the network that is lowered, as long as
\* transistors can stand for it: EvaluateAll returns the truth table of the gates, and
\* VerifySpec accepts the network, exactly if the inputs decide all outputs.
THEOREM VerdictsAreRight == Spec => [](gates # None /\ Lowerable(gates) => VerdictIsRight)
<1>1. Init => LowerInv /\ AgreeInv /\ VerdictInv
  BY InitLowerInv, InitAgreeInv, InitVerdictInv
<1>2. LowerInv /\ AgreeInv /\ VerdictInv /\ [Next]_vars => (LowerInv /\ AgreeInv /\ VerdictInv)'
  BY StepLowerInv, StepAgreeInv, StepVerdictInv
<1>3. VerdictInv => (gates # None /\ Lowerable(gates) => VerdictIsRight)
  BY DEF VerdictInv
<1> QED  BY <1>1, <1>2, <1>3, PTL DEF Spec

=============================================================================
