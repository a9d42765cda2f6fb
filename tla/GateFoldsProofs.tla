---------------------------- MODULE GateFoldsProofs ----------------------------
(****************************************************************************)
(* The visits of the canonicalizer, of FoldGates and of CseGates keep what  *)
(* a network does: proofs for every network, with or without feedback.      *)
(*                                                                          *)
(* What a network does is its behaviour: what its inputs and outputs show   *)
(* in the states in which each gate has the value that its inputs give it.  *)
(* A rewrite that replaces g by r keeps it if, in each state in which all   *)
(* the *other* gates have their values, g's value is the one of r: then no  *)
(* state is lost, and none is gained by feedback that does without g.       *)
(****************************************************************************)
EXTENDS GateFolds, FiniteSetTheorems, SequenceTheorems, TLAPS

----------------------------------------------------------------------------
(* Positions: NthOf finds each element of its set, and Compact keeps the    *)
(* entries of K and nothing else.                                           *)

\* The library's well-foundedness of < on Nat, as the least element of a set.
LEMMA LeastElement ==
  ASSUME NEW T \in SUBSET Nat, T # {}
  PROVE  \E m \in T : \A k \in T : m <= k
<1> DEFINE R == OpToRel(<, Nat)
<1>1. PICK m \in T : \A k \in T : ~ (<<k, m>> \in R)
  <2> HIDE DEF R
  <2>1. IsWellFoundedOn(R, Nat)
    BY NatLessThanWellFounded DEF R
  <2> QED  BY <2>1, WFMin
<1>2. \A k \in Nat : k < m => <<k, m>> \in R
  BY DEF OpToRel
<1>3. \A k \in T : ~ (k < m)
  BY <1>1, <1>2
<1>4. \A k \in T : m <= k
  <2> HIDE DEF R
  <2> QED  BY <1>3
<1> QED  BY <1>4

\* Every rank up to the size of K is the rank of an element of K.
LEMMA NthOfMember ==
  ASSUME NEW n \in Nat, NEW K \in SUBSET (1 .. n), NEW j \in 1 .. Cardinality(K)
  PROVE  NthOf(K, j) \in K
<1> DEFINE Upto(i) == {k \in K : k <= i}
           T == {i \in Nat : Cardinality(Upto(i)) >= j}
<1>1. IsFiniteSet(K) /\ Cardinality(K) \in Nat
  <2>1. IsFiniteSet(1 .. n)  BY FS_Interval
  <2> QED  BY <2>1, FS_Subset, FS_CardinalityType
<1>2. \A i \in Nat : IsFiniteSet(Upto(i)) /\ Cardinality(Upto(i)) \in Nat
  <2> TAKE i \in Nat
  <2>1. Upto(i) \in SUBSET K  OBVIOUS
  <2> QED  BY <1>1, <2>1, FS_Subset, FS_CardinalityType
<1>3. \A i \in Nat : i \in T <=> Cardinality(Upto(i)) >= j
  OBVIOUS
<1>4. n \in T
  <2>1. \A k \in K : k <= n  OBVIOUS
  <2>2. Upto(n) = K  BY <2>1, Zenon
  <2> QED  BY <2>2, <1>1, <1>3
<1>5. Upto(0) = {}
  <2>1. \A k \in K : ~ (k <= 0)  OBVIOUS
  <2> QED  BY <2>1, Zenon
<1>6. PICK m \in T : \A k \in T : m <= k
  <2>1. T \in SUBSET Nat  OBVIOUS
  <2> HIDE DEF T
  <2> QED  BY <1>4, <2>1, LeastElement
<1>7. \A i \in Nat : i + 1 \notin K => Upto(i + 1) = Upto(i)
  <2> TAKE i \in Nat
  <2> HAVE i + 1 \notin K
  <2>1. \A k \in K : k <= i + 1 <=> k <= i  OBVIOUS
  <2> QED  BY <2>1, Zenon
<1>8. \A i \in Nat : i + 1 \in K => /\ Upto(i + 1) = Upto(i) \cup {i + 1}
                                  /\ i + 1 \notin Upto(i)
  <2> TAKE i \in Nat
  <2> HAVE i + 1 \in K
  <2>1. \A k \in K : k <= i + 1 <=> k <= i \/ k = i + 1  OBVIOUS
  <2>2. ~ (i + 1 <= i)  OBVIOUS
  <2> QED  BY <2>1, <2>2, Zenon
<1> HIDE DEF Upto, T
<1>9. m \in Nat /\ Cardinality(Upto(m)) >= j
  BY <1>3, <1>6 DEF T
<1>10. m # 0
  BY <1>5, <1>9, FS_EmptySet
<1>11. PICK p \in Nat : m = p + 1 /\ ~ (Cardinality(Upto(p)) >= j)
  <2>1. m - 1 \in Nat /\ m = (m - 1) + 1 /\ ~ (m <= m - 1)
    BY <1>9, <1>10
  <2> QED  BY <2>1, <1>3, <1>6
<1>12. m \in K /\ Cardinality(Upto(m)) = Cardinality(Upto(p)) + 1
  <2>1. m \in K  BY <1>7, <1>9, <1>11
  <2> QED  BY <2>1, <1>2, <1>8, <1>11, FS_AddElement
<1>13. Cardinality(Upto(m)) = j
  BY <1>2, <1>9, <1>11, <1>12
<1> QED  BY <1>12, <1>13 DEF NthOf, Upto

\* Compact of a list is a list, and each of its entries is an entry of s that K
\* keeps.
LEMMA CompactEntries ==
  ASSUME NEW S, NEW s \in Seq(S), NEW K \in SUBSET DOMAIN s
  PROVE  /\ Compact(s, K) \in Seq(S)
         /\ \A j \in DOMAIN Compact(s, K) : \E i \in K : Compact(s, K)[j] = s[i]
<1>1. Len(s) \in Nat /\ DOMAIN s = 1 .. Len(s)
  OBVIOUS
<1>2. Cardinality(K) \in Nat
  <2>1. IsFiniteSet(1 .. Len(s))  BY <1>1, FS_Interval
  <2> QED  BY <1>1, <2>1, FS_Subset, FS_CardinalityType
<1>3. \A j \in 1 .. Cardinality(K) : NthOf(K, j) \in K
  BY <1>1, NthOfMember
<1>4. \A j \in 1 .. Cardinality(K) : s[NthOf(K, j)] \in S
  BY <1>1, <1>3
<1> QED  BY <1>2, <1>3, <1>4 DEF Compact

\* Every element of K has a rank, and NthOf finds it there.
LEMMA NthOfOnto ==
  ASSUME NEW n \in Nat, NEW K \in SUBSET (1 .. n), NEW k \in K
  PROVE  \E j \in 1 .. Cardinality(K) : NthOf(K, j) = k
<1> DEFINE Upto(i) == {x \in K : x <= i}
           j == Cardinality(Upto(k))
<1>1. IsFiniteSet(K) /\ Cardinality(K) \in Nat
  <2>1. IsFiniteSet(1 .. n)  BY FS_Interval
  <2> QED  BY <2>1, FS_Subset, FS_CardinalityType
<1>2. \A i \in K : /\ Upto(i) \in SUBSET K
                   /\ IsFiniteSet(Upto(i)) /\ Cardinality(Upto(i)) \in Nat
                   /\ Cardinality(Upto(i)) <= Cardinality(K)
  <2> TAKE i \in K
  <2>1. Upto(i) \in SUBSET K  OBVIOUS
  <2> QED  BY <1>1, <2>1, FS_Subset, FS_CardinalityType
<1>3. \A i \in K : i \in Upto(i)
  OBVIOUS
<1>4. j \in 1 .. Cardinality(K)
  <2>1. Upto(k) # {}  BY <1>3
  <2>2. j # 0  BY <1>2, <2>1, FS_EmptySet
  <2> HIDE DEF Upto
  <2> QED  BY <1>1, <1>2, <2>2
<1>5. ASSUME NEW i \in K, NEW m \in K, i < m
      PROVE  Cardinality(Upto(i)) # Cardinality(Upto(m))
  <2>1. Upto(i) \in SUBSET Upto(m)
    <3>1. i \in Int /\ m \in Int /\ K \subseteq Int  OBVIOUS
    <3>2. \A x \in K : x <= i => x <= m  BY <3>1, <1>5
    <3> QED  BY <3>2
  <2>2. m \in Upto(m) /\ m \notin Upto(i)  BY <1>5
  <2> HIDE DEF Upto
  <2> QED  BY <1>2, <2>1, <2>2, FS_Subset
<1>6. \A i \in K : Cardinality(Upto(i)) = j => i = k
  <2> HIDE DEF Upto
  <2> TAKE i \in K
  <2>1. CASE i < k  BY <2>1, <1>5
  <2>2. CASE k < i  BY <2>2, <1>5
  <2>3. CASE i = k  BY <2>3
  <2> QED  BY <2>1, <2>2, <2>3
<1>7. NthOf(K, j) = k
  BY <1>6, Zenon DEF NthOf
<1> QED  BY <1>4, <1>7

\* Each entry of s that K keeps is an entry of Compact.
LEMMA CompactKeeps ==
  ASSUME NEW S, NEW s \in Seq(S), NEW K \in SUBSET DOMAIN s, NEW i \in K
  PROVE  \E j \in DOMAIN Compact(s, K) : Compact(s, K)[j] = s[i]
<1>1. Len(s) \in Nat /\ DOMAIN s = 1 .. Len(s)
  OBVIOUS
<1>2. PICK j \in 1 .. Cardinality(K) : NthOf(K, j) = i
  BY <1>1, NthOfOnto
<1> QED  BY <1>2 DEF Compact

----------------------------------------------------------------------------
\* ExactUses slot by slot, the form the lemmas below work with.
Listed(n) ==
  /\ \A t \in Terminals : \A u \in Users : \A i \in Nat :
       <<u, i>> \in n.uses[t] <=> i \in DOMAIN n.ins[u] /\ n.ins[u][i] = t
  /\ n.uses[Null] = {<<Sink, i>> : i \in 1 .. MaxOutputs}

LEMMA SlotsMember ==
  ASSUME NEW u, NEW i, NEW g, NEW s, NEW t
  PROVE  <<u, i>> \in Slots(g, s, t) <=> u = g /\ i \in DOMAIN s /\ s[i] = t
BY DEF Slots

LEMMA InputPositions ==
  ASSUME NEW n, IsNet(n), NEW u \in Users
  PROVE  /\ n.ins[u] \in Seq(Terminals \cup {Null})
         /\ DOMAIN n.ins[u] \in SUBSET Nat
         /\ \A i \in DOMAIN n.ins[u] : n.ins[u][i] \in Terminals \cup {Null}
BY DEF IsNet

LEMMA ExactIsListed ==
  ASSUME NEW n, IsNet(n)
  PROVE  ExactUses(n) <=> Listed(n)
<1>1. \A t \in Terminals : n.uses[t] \in SUBSET (Users \X Nat)
  BY DEF IsNet
<1>2. ASSUME NEW t \in Terminals
      PROVE  n.uses[t] = UNION {Slots(u, n.ins[u], t) : u \in Users}
               <=> \A u \in Users : \A i \in Nat :
                     <<u, i>> \in n.uses[t] <=> i \in DOMAIN n.ins[u] /\ n.ins[u][i] = t
  <2> DEFINE All == UNION {Slots(u, n.ins[u], t) : u \in Users}
  <2>1. \A u \in Users : \A i \in Nat :
          <<u, i>> \in All <=> i \in DOMAIN n.ins[u] /\ n.ins[u][i] = t
    BY SlotsMember
  <2>2. All \in SUBSET (Users \X Nat)
    <3> SUFFICES ASSUME NEW u \in Users, NEW x \in Slots(u, n.ins[u], t)
                 PROVE  x \in Users \X Nat
      OBVIOUS
    <3> QED  BY InputPositions DEF Slots
  <2> HIDE DEF All
  <2>3. n.uses[t] = All <=> \A x \in Users \X Nat : x \in n.uses[t] <=> x \in All
    BY <1>1, <2>2
  <2>4. @ <=> \A u \in Users : \A i \in Nat : <<u, i>> \in n.uses[t] <=> <<u, i>> \in All
    OBVIOUS
  <2> QED  BY <2>1, <2>3, <2>4 DEF All
<1> QED  BY <1>2 DEF ExactUses, Listed

LEMMA NullIsNoTerminal == Null \notin Terminals
BY NetAssumption DEF Terminals, Gates

\* The fields of a network the operators build with EXCEPT.
LEMMA NetFields ==
  ASSUME NEW n, IsNet(n)
  PROVE  /\ n.size \in 0 .. MaxGates /\ n.outs \in 0 .. MaxOutputs
         /\ n.kind \in [Gates -> Kinds] /\ n.lut \in [Gates -> Seq(BOOLEAN)]
         /\ n.ins \in [Users -> Seq(Terminals \cup {Null})]
         /\ n.uses \in [Terminals \cup {Null} -> SUBSET (Users \X Nat)]
         /\ DOMAIN n.uses = Terminals \cup {Null}
BY DEF IsNet

----------------------------------------------------------------------------
(* Reregister, the core of AddGate, EraseInputs and Erase.                  *)

LEMMA ReregisterFields ==
  ASSUME NEW n, IsNet(n), NEW g \in Gates, NEW s \in Seq(Terminals)
  PROVE  LET m == Reregister(n, g, s)
         IN  /\ m.size = n.size /\ m.outs = n.outs /\ m.kind = n.kind /\ m.lut = n.lut
             /\ \A u \in Users : m.ins[u] = IF u = g THEN s ELSE n.ins[u]
             /\ \A t \in Terminals \cup {Null} :
                  m.uses[t] = (n.uses[t] \ Slots(g, n.ins[g], t)) \cup Slots(g, s, t)
             /\ IsNet(m)
<1> DEFINE m == Reregister(n, g, s)
<1>1. /\ m.size = n.size /\ m.outs = n.outs /\ m.kind = n.kind /\ m.lut = n.lut
      /\ m.ins = [n.ins EXCEPT ![g] = s]
      /\ m.uses = [t \in Terminals \cup {Null} |->
                     (n.uses[t] \ Slots(g, n.ins[g], t)) \cup Slots(g, s, t)]
  BY NetFields DEF Reregister, IsNet
<1>2. /\ \A u \in Users : m.ins[u] = IF u = g THEN s ELSE n.ins[u]
      /\ \A t \in Terminals \cup {Null} :
           m.uses[t] = (n.uses[t] \ Slots(g, n.ins[g], t)) \cup Slots(g, s, t)
  BY <1>1, NetFields
<1>3. m.ins \in [Users -> Seq(Terminals \cup {Null})]
  BY <1>1, NetFields DEF Users
<1>4. \A t \in Terminals \cup {Null} : m.uses[t] \in SUBSET (Users \X Nat)
  <2> TAKE t \in Terminals \cup {Null}
  <2>1. Slots(g, s, t) \in SUBSET (Users \X Nat)
    BY DEF Slots, Users
  <2> QED  BY <1>2, <2>1, NetFields
<1>5. IsNet(m)
  BY <1>1, <1>3, <1>4, NetFields DEF Reregister, IsNet
<1> HIDE DEF m
<1> QED  BY <1>1, <1>2, <1>5 DEF m

LEMMA ReregisterListed ==
  ASSUME NEW n, IsNet(n), Listed(n), NEW g \in Gates, NEW s \in Seq(Terminals)
  PROVE  Listed(Reregister(n, g, s))
<1> DEFINE m == Reregister(n, g, s)
<1>1. /\ \A u \in Users : m.ins[u] = IF u = g THEN s ELSE n.ins[u]
      /\ \A t \in Terminals \cup {Null} :
           m.uses[t] = (n.uses[t] \ Slots(g, n.ins[g], t)) \cup Slots(g, s, t)
  BY ReregisterFields
<1> HIDE DEF m
<1>2. ASSUME NEW t \in Terminals, NEW u \in Users, NEW i \in Nat
      PROVE  <<u, i>> \in m.uses[t] <=> i \in DOMAIN m.ins[u] /\ m.ins[u][i] = t
  <2>1. <<u, i>> \in m.uses[t] <=>
          \/ <<u, i>> \in n.uses[t] /\ ~ (u = g /\ i \in DOMAIN n.ins[g] /\ n.ins[g][i] = t)
          \/ u = g /\ i \in DOMAIN s /\ s[i] = t
    BY <1>1, SlotsMember
  <2> QED  BY <1>1, <2>1 DEF Listed
<1>3. m.uses[Null] = {<<Sink, i>> : i \in 1 .. MaxOutputs}
  <2>1. Slots(g, s, Null) = {}
    BY NullIsNoTerminal DEF Slots
  <2>2. \A x \in Slots(g, n.ins[g], Null) : x \notin n.uses[Null]
    BY DEF Slots, Listed, Gates, Sink
  <2>3. m.uses[Null] = (n.uses[Null] \ Slots(g, n.ins[g], Null)) \cup Slots(g, s, Null)
    BY <1>1
  <2> QED  BY <2>1, <2>2, <2>3 DEF Listed
<1> QED  BY <1>2, <1>3 DEF Listed, m

----------------------------------------------------------------------------
(* The invariant, slot by slot, and how each operation preserves it.        *)

Sound(n) == IsNet(n) /\ Listed(n) /\ ReadsLive(n) /\ DeadIsBare(n)

LEMMA SoundIsWellFormed ==
  ASSUME NEW n
  PROVE  Sound(n) <=> WellFormed(n)
BY ExactIsListed DEF Sound, WellFormed

\* Names the classes that LiveTerminals is made of.
LEMMA LiveFacts ==
  ASSUME NEW n, IsNet(n)
  PROVE  /\ Live(n) \in SUBSET Gates
         /\ LiveTerminals(n) \in SUBSET Terminals
         /\ Live(n) \in SUBSET LiveTerminals(n)
         /\ Low \in LiveTerminals(n) /\ High \in LiveTerminals(n)
BY DEF Live, LiveTerminals, Terminals

\* A network that differs in labels only is as sound.
LEMMA RelabelSound ==
  ASSUME NEW n, Sound(n), NEW m, IsNet(m), m.ins = n.ins, m.uses = n.uses,
         m.outs = n.outs, m.size = n.size, Live(m) = Live(n)
  PROVE  Sound(m)
<1>1. Listed(m)
  BY DEF Sound, Listed
<1>2. ReadsLive(m)
  BY DEF Sound, ReadsLive, LiveTerminals
<1>3. DeadIsBare(m)
  BY DEF Sound, DeadIsBare, Live
<1> QED  BY <1>1, <1>2, <1>3 DEF Sound

LEMMA ReregisterSound ==
  ASSUME NEW n, Sound(n), NEW g \in Live(n), NEW s \in Seq(LiveTerminals(n))
  PROVE  /\ Sound(Reregister(n, g, s))
         /\ Live(Reregister(n, g, s)) = Live(n)
<1> DEFINE m == Reregister(n, g, s)
<1>1. g \in Gates /\ g # Sink /\ s \in Seq(Terminals) /\ n.kind[g] # "dead"
  BY LiveFacts DEF Sound, Live, Gates, Sink
<1>2. /\ m.size = n.size /\ m.outs = n.outs /\ m.kind = n.kind
      /\ \A u \in Users : m.ins[u] = IF u = g THEN s ELSE n.ins[u]
      /\ IsNet(m)
  BY <1>1, ReregisterFields DEF Sound
<1>3. Listed(m)
  BY <1>1, ReregisterListed DEF Sound
<1> HIDE DEF m
<1>4. Live(m) = Live(n)
  BY <1>2 DEF Live
<1>5. ReadsLive(m)
  <2> SUFFICES ASSUME NEW u \in Users, NEW i \in DOMAIN m.ins[u]
               PROVE  IF u = Sink /\ i > m.outs THEN m.ins[u][i] = Null
                      ELSE m.ins[u][i] \in LiveTerminals(m)
    BY DEF ReadsLive
  <2>1. LiveTerminals(m) = LiveTerminals(n)
    BY <1>4 DEF LiveTerminals
  <2>2. CASE u = g
    BY <1>1, <1>2, <2>1, <2>2
  <2>3. CASE u # g
    BY <1>2, <2>1, <2>3 DEF Sound, ReadsLive
  <2> QED  BY <2>2, <2>3
<1>6. DeadIsBare(m)
  BY <1>1, <1>2 DEF Sound, DeadIsBare, Users, Gates, Sink
<1> QED  BY <1>2, <1>3, <1>4, <1>5, <1>6 DEF Sound, m

\* A new gate reads what it is given, and nothing else changes.
LEMMA AddLookupSound ==
  ASSUME NEW n, Sound(n), n.size < MaxGates, NEW k \in Kinds \ {"dead"},
         NEW s \in Seq(LiveTerminals(n)), NEW l \in Seq(BOOLEAN)
  PROVE  LET m == AddLookup(n, k, s, l)
         IN  /\ Sound(m)
             /\ m.size = n.size + 1 /\ m.outs = n.outs
             /\ Live(m) = Live(n) \cup {NextGate(n)}
             /\ NextGate(n) \in Gates /\ n.kind[NextGate(n)] = "dead"
             /\ m.ins[NextGate(n)] = s
             /\ \A h \in Gates : h # NextGate(n) =>
                  m.kind[h] = n.kind[h] /\ m.ins[h] = n.ins[h]
<1> DEFINE g == NextGate(n)
           a == [n EXCEPT !.size = g, !.kind = [@ EXCEPT ![g] = k],
                          !.lut  = [@ EXCEPT ![g] = l]]
<1>1. g = n.size + 1 /\ g \in Gates /\ g > n.size /\ g \in 0 .. MaxGates
  BY NetAssumption, NetFields DEF Sound, NextGate, Gates
<1>2. n.kind[g] = "dead" /\ n.ins[g] = << >>
  BY <1>1 DEF Sound, DeadIsBare
<1>3. /\ a.size = g /\ a.outs = n.outs /\ a.ins = n.ins /\ a.uses = n.uses
      /\ a.kind = [n.kind EXCEPT ![g] = k]
      /\ IsNet(a)
  <2> HIDE DEF g
  <2> QED  BY <1>1, NetFields DEF Sound, IsNet
<1> HIDE DEF a, g
<1>4. \A h \in Gates : a.kind[h] = IF h = g THEN k ELSE n.kind[h]
  BY <1>3, NetFields DEF Sound
<1>5. Live(a) = Live(n) \cup {g}
  BY <1>1, <1>4 DEF Live
<1>6. Listed(a)
  BY <1>3 DEF Sound, Listed
<1>7. ReadsLive(a)
  BY <1>3, <1>5 DEF Sound, ReadsLive, LiveTerminals
<1>8. DeadIsBare(a)
  <2>1. \A h \in Gates : a.kind[h] = "dead" => a.ins[h] = << >>
    BY <1>3, <1>4 DEF Sound, DeadIsBare
  <2>2. \A h \in Gates : h > a.size => h # g /\ h > n.size
    BY <1>1, <1>3, NetFields DEF Gates, Sound
  <2> QED  BY <1>3, <1>4, <2>1, <2>2 DEF Sound, DeadIsBare
<1>9. s \in Seq(LiveTerminals(a))
  <2>1. LiveTerminals(n) \in SUBSET LiveTerminals(a)
    BY <1>5 DEF LiveTerminals
  <2> QED  BY <2>1
<1>10. Sound(a) /\ g \in Live(a)
  BY <1>3, <1>5, <1>6, <1>7, <1>8 DEF Sound
<1>11. Sound(Reregister(a, g, s)) /\ Live(Reregister(a, g, s)) = Live(a)
  BY <1>9, <1>10, ReregisterSound
<1>12. LET m == Reregister(a, g, s)
       IN  /\ m.size = a.size /\ m.outs = a.outs /\ m.kind = a.kind
           /\ \A h \in Gates : m.ins[h] = IF h = g THEN s ELSE a.ins[h]
  <2>1. s \in Seq(Terminals)
    BY <1>9, <1>3, LiveFacts
  <2> QED  BY <1>1, <1>3, <2>1, ReregisterFields DEF Users
<1>13. AddLookup(n, k, s, l) = Reregister(a, g, s)
  BY DEF AddLookup, a, g
<1>14. LET m == Reregister(a, g, s)
       IN  /\ m.size = n.size + 1 /\ m.outs = n.outs /\ m.ins[g] = s
           /\ \A h \in Gates : h # g => m.kind[h] = n.kind[h] /\ m.ins[h] = n.ins[h]
  BY <1>1, <1>3, <1>4, <1>12
<1> QED  BY <1>1, <1>2, <1>5, <1>11, <1>13, <1>14 DEF g

LEMMA EraseInputsSound ==
  ASSUME NEW n, Sound(n), NEW g \in Live(n), NEW t
  PROVE  LET m == EraseInputs(n, g, t)
         IN  /\ Sound(m)
             /\ m.size = n.size /\ m.outs = n.outs /\ m.kind = n.kind /\ m.lut = n.lut
             /\ Live(m) = Live(n)
<1> DEFINE hits == Matches(n, g, t)
           negated == IF n.kind[g] = "lookup"
                      THEN {i + LogicalEnd(n, g) : i \in hits} ELSE {}
           s == Compact(n.ins[g], (1 .. Len(n.ins[g])) \ (hits \cup negated))
<1>1. g \in Gates /\ g \in Users /\ g # Sink
  BY LiveFacts DEF Sound, Users, Gates, Sink
<1>2. n.ins[g] \in Seq(LiveTerminals(n))
  <2>1. n.ins[g] \in Seq(Terminals \cup {Null})
    BY <1>1, NetFields DEF Sound
  <2>2. \A i \in DOMAIN n.ins[g] : n.ins[g][i] \in LiveTerminals(n)
    BY <1>1 DEF Sound, ReadsLive
  <2> QED  BY <2>1, <2>2
<1> HIDE DEF hits, negated
<1>3. (1 .. Len(n.ins[g])) \ (hits \cup negated) \in SUBSET DOMAIN n.ins[g]
  BY <1>2
<1>4. s \in Seq(LiveTerminals(n))
  BY <1>2, <1>3, CompactEntries
<1>5. EraseInputs(n, g, t) = Reregister(n, g, s)
  BY DEF EraseInputs, hits, negated
<1> HIDE DEF s
<1>6. s \in Seq(Terminals)
  BY <1>4, LiveFacts DEF Sound
<1> QED  BY <1>1, <1>4, <1>5, <1>6, ReregisterSound, ReregisterFields DEF Sound

\* A gate that nothing reads leaves without a trace.
LEMMA EraseSound ==
  ASSUME NEW n, Sound(n), NEW g \in Live(n), n.uses[g] = {}
  PROVE  LET m == Erase(n, g)
         IN  /\ Sound(m)
             /\ m.size = n.size /\ m.outs = n.outs
             /\ Live(m) = Live(n) \ {g}
             /\ \A h \in Gates \ {g} : m.kind[h] = n.kind[h]
<1> DEFINE bare == << >>
           a == Reregister(n, g, bare)
           m == Erase(n, g)
<1>1. g \in Gates /\ g \in Terminals /\ g \in Users /\ g # Sink
  BY LiveFacts DEF Sound, Users, Gates, Sink, Terminals
<1>2. bare \in Seq(LiveTerminals(n)) /\ bare \in Seq(Terminals)
  OBVIOUS
<1> HIDE DEF bare
<1>3. Sound(a) /\ Live(a) = Live(n)
  BY <1>2, ReregisterSound
<1>4. /\ a.size = n.size /\ a.outs = n.outs /\ a.kind = n.kind
      /\ \A u \in Users : a.ins[u] = IF u = g THEN bare ELSE n.ins[u]
  BY <1>1, <1>2, ReregisterFields DEF Sound
<1>5. a.uses[g] = {}
  <2>1. \A u \in Users : \A i \in Nat : <<u, i>> \notin a.uses[g]
    <3> SUFFICES ASSUME NEW u \in Users, NEW i \in Nat, <<u, i>> \in a.uses[g]
                 PROVE  FALSE
      OBVIOUS
    <3>1. i \in DOMAIN a.ins[u] /\ a.ins[u][i] = g
      BY <1>1, <1>3 DEF Sound, Listed
    <3>2. i \in DOMAIN n.ins[u] /\ n.ins[u][i] = g
      BY <1>4, <3>1 DEF bare
    <3>3. <<u, i>> \in n.uses[g]
      BY <1>1, <3>2 DEF Sound, Listed
    <3> QED  BY <3>3
  <2>2. a.uses[g] \in SUBSET (Users \X Nat)
    BY <1>1, <1>3, NetFields DEF Sound
  <2> QED  BY <2>1, <2>2
<1>6. m = [a EXCEPT !.kind = [@ EXCEPT ![g] = "dead"]]
  BY DEF Erase, bare
<1> HIDE DEF a, m
<1>7. /\ m.size = a.size /\ m.outs = a.outs /\ m.ins = a.ins /\ m.uses = a.uses
      /\ m.kind = [a.kind EXCEPT ![g] = "dead"]
      /\ IsNet(m)
  BY <1>3, <1>6, NetFields DEF Sound, IsNet, Kinds
<1>8. \A h \in Gates : m.kind[h] = IF h = g THEN "dead" ELSE a.kind[h]
  BY <1>3, <1>7, NetFields DEF Sound
<1>9. Live(m) = Live(n) \ {g}
  BY <1>3, <1>8 DEF Live
<1>10. Listed(m)
  BY <1>3, <1>7 DEF Sound, Listed
<1>11. ReadsLive(m)
  <2> SUFFICES ASSUME NEW u \in Users, NEW i \in DOMAIN m.ins[u]
               PROVE  IF u = Sink /\ i > m.outs THEN m.ins[u][i] = Null
                      ELSE m.ins[u][i] \in LiveTerminals(m)
    BY DEF ReadsLive
  <2>1. i \in DOMAIN a.ins[u] /\ m.ins[u][i] = a.ins[u][i] /\ i \in Nat
    BY <1>3, <1>7, InputPositions DEF Sound
  <2>2. a.ins[u][i] # g
    <3>1. a.ins[u][i] = g => <<u, i>> \in a.uses[g]
      BY <1>1, <1>3, <2>1 DEF Sound, Listed
    <3> QED  BY <1>5, <3>1
  <2> QED  BY <1>3, <1>7, <1>9, <2>1, <2>2 DEF Sound, ReadsLive, LiveTerminals
<1>12. DeadIsBare(m)
  BY <1>1, <1>3, <1>4, <1>7, <1>8 DEF Sound, DeadIsBare, bare
<1> QED  BY <1>4, <1>7, <1>8, <1>9, <1>10, <1>11, <1>12 DEF Sound, m

\* Slots that read a live terminal t may read another one instead.
LEMMA RedirectSound ==
  ASSUME NEW n, Sound(n), NEW t \in LiveTerminals(n), NEW r \in LiveTerminals(n),
         NEW slots \in SUBSET n.uses[t], t # r
  PROVE  LET m == Redirect(n, slots, t, r)
         IN  /\ Sound(m)
             /\ m.size = n.size /\ m.outs = n.outs /\ m.kind = n.kind /\ m.lut = n.lut
             /\ Live(m) = Live(n)
             /\ m.uses[t] = n.uses[t] \ slots
             /\ \A u \in Users : DOMAIN m.ins[u] = DOMAIN n.ins[u]
<1> DEFINE ins2 == [u \in DOMAIN n.ins |->
                      [i \in DOMAIN n.ins[u] |->
                         IF <<u, i>> \in slots THEN r ELSE n.ins[u][i]]]
           uses2 == [x \in DOMAIN n.uses |-> (n.uses[x] \ IF x = t THEN slots ELSE {})
                                                \cup IF x = r THEN slots ELSE {}]
           m == [n EXCEPT !.ins = ins2, !.uses = uses2]
<1>1. IsNet(n) /\ t \in Terminals /\ r \in Terminals
  BY LiveFacts DEF Sound
<1>2. Redirect(n, slots, t, r) = m
  BY Zenon DEF Redirect
<1> HIDE DEF ins2, uses2
<1>3. /\ m.size = n.size /\ m.outs = n.outs /\ m.kind = n.kind /\ m.lut = n.lut
      /\ m.ins = ins2 /\ m.uses = uses2
  BY <1>1 DEF IsNet
<1> HIDE DEF m
<1>4. /\ \A u \in Users : DOMAIN m.ins[u] = DOMAIN n.ins[u]
      /\ \A u \in Users : \A j \in DOMAIN n.ins[u] :
           m.ins[u][j] = IF <<u, j>> \in slots THEN r ELSE n.ins[u][j]
  BY <1>1, <1>3, NetFields DEF ins2
<1>5. \A x \in Terminals \cup {Null} :
        m.uses[x] = IF x = t THEN n.uses[x] \ slots
                    ELSE IF x = r THEN n.uses[x] \cup slots
                    ELSE n.uses[x]
  <2> SUFFICES ASSUME NEW x \in Terminals \cup {Null}
               PROVE  uses2[x] = IF x = t THEN n.uses[x] \ slots
                                 ELSE IF x = r THEN n.uses[x] \cup slots
                                 ELSE n.uses[x]
    BY <1>3
  <2>1. uses2[x] = (n.uses[x] \ IF x = t THEN slots ELSE {})
                      \cup IF x = r THEN slots ELSE {}
    BY <1>1, NetFields DEF uses2
  <2>2. CASE x = t
    BY <2>1, <2>2
  <2>3. CASE x # t
    BY <2>1, <2>3
  <2> QED  BY <2>2, <2>3
<1>6. IsNet(m)
  <2>1. ASSUME NEW u \in Users
        PROVE  ins2[u] \in Seq(Terminals \cup {Null})
    <3>1. n.ins[u] \in Seq(Terminals \cup {Null})
      BY <1>1, NetFields
    <3> DEFINE k == Len(n.ins[u])
               e(i) == IF <<u, i>> \in slots THEN r ELSE n.ins[u][i]
    <3>2. DOMAIN n.ins[u] = 1 .. k /\ k \in Nat
      BY <3>1
    <3>3. \A i \in 1 .. k : e(i) \in Terminals \cup {Null}
      BY <1>1, <3>1, <3>2
    <3>4. ins2[u] = [i \in 1 .. k |-> e(i)]
      BY <1>1, <3>2, NetFields DEF ins2
    <3> HIDE DEF e, k
    <3> QED  BY <3>2, <3>3, <3>4
  <2>2. ins2 \in [Users -> Seq(Terminals \cup {Null})]
    BY <1>1, <2>1, NetFields DEF ins2
  <2>3. \A x \in Terminals \cup {Null} : uses2[x] \in SUBSET (Users \X Nat)
      <3> SUFFICES ASSUME NEW x \in Terminals \cup {Null}
                 PROVE  uses2[x] \in SUBSET (Users \X Nat)
      OBVIOUS
    <3>1. n.uses[x] \in SUBSET (Users \X Nat) /\ slots \in SUBSET (Users \X Nat)
      BY <1>1, NetFields
    <3>2. uses2[x] \in {n.uses[x] \ slots, n.uses[x] \cup slots, n.uses[x]}
      BY <1>3, <1>5
    <3> QED  BY <3>1, <3>2
  <2>4. uses2 \in [Terminals \cup {Null} -> SUBSET (Users \X Nat)]
    BY <1>1, <2>3, NetFields DEF uses2
  <2> QED  BY <1>1, <2>2, <2>4 DEF IsNet, m
<1>7. Listed(m)
  <2>1. ASSUME NEW x \in Terminals, NEW u \in Users, NEW j \in Nat
        PROVE  <<u, j>> \in m.uses[x] <=> j \in DOMAIN m.ins[u] /\ m.ins[u][j] = x
    <3>1. <<u, j>> \in n.uses[x] <=> j \in DOMAIN n.ins[u] /\ n.ins[u][j] = x
      BY DEF Sound, Listed
    <3>2. <<u, j>> \in slots => j \in DOMAIN n.ins[u] /\ n.ins[u][j] = t
      BY <1>1 DEF Sound, Listed
    <3> QED  BY <1>4, <1>5, <3>1, <3>2
  <2>2. m.uses[Null] = n.uses[Null]
    BY <1>1, <1>5, NullIsNoTerminal
  <2> QED  BY <2>1, <2>2 DEF Sound, Listed
<1>8. Live(m) = Live(n)
  BY <1>3 DEF Live
<1>9. ReadsLive(m)
  <2> SUFFICES ASSUME NEW u \in Users, NEW i \in DOMAIN m.ins[u]
               PROVE  IF u = Sink /\ i > m.outs THEN m.ins[u][i] = Null
                      ELSE m.ins[u][i] \in LiveTerminals(m)
    BY DEF ReadsLive
  <2>1. LiveTerminals(m) = LiveTerminals(n)
    BY <1>8 DEF LiveTerminals
  <2>2. i \in DOMAIN n.ins[u] /\ i \in Nat
    BY <1>1, <1>4, InputPositions
  <2>3. CASE <<u, i>> \in slots
    <3>1. n.ins[u][i] = t /\ t # Null
      BY <1>1, <2>2, <2>3, NullIsNoTerminal DEF Sound, Listed
    <3>2. ~ (u = Sink /\ i > n.outs)
      BY <2>2, <3>1 DEF Sound, ReadsLive
    <3> QED  BY <1>3, <1>4, <2>1, <2>2, <2>3, <3>2
  <2>4. CASE <<u, i>> \notin slots
    <3>1. m.ins[u][i] = n.ins[u][i]
      BY <1>4, <2>2, <2>4
    <3> QED  BY <1>3, <2>1, <2>2, <3>1 DEF Sound, ReadsLive
  <2> QED  BY <2>3, <2>4
<1>10. DeadIsBare(m)
  <2>1. \A g \in Gates : m.kind[g] = "dead" => m.ins[g] = << >>
    <3> SUFFICES ASSUME NEW g \in Gates, m.kind[g] = "dead"
                 PROVE  m.ins[g] = << >>
      OBVIOUS
    <3>1. g \in Users /\ n.ins[g] = << >>
      BY <1>3 DEF Sound, DeadIsBare, Users
    <3>2. DOMAIN m.ins[g] = {} /\ m.ins[g] \in Seq(Terminals \cup {Null})
      BY <1>4, <1>6, <3>1, NetFields
    <3>3. Len(m.ins[g]) = 0
      <4>1. Len(m.ins[g]) \in Nat /\ DOMAIN m.ins[g] = 1 .. Len(m.ins[g])
        BY <3>2, LenProperties
      <4>2. 1 \notin 1 .. Len(m.ins[g])
        BY <3>2, <4>1
      <4> QED  BY <4>1, <4>2
    <3> QED  BY <3>2, <3>3, EmptySeq
  <2>2. Sink \in Users
    BY DEF Users
  <2> QED  BY <1>3, <1>4, <2>1, <2>2 DEF Sound, DeadIsBare
<1>11. m.uses[t] = n.uses[t] \ slots
  BY <1>1, <1>5
<1> QED  BY <1>2, <1>3, <1>4, <1>6, <1>7, <1>8, <1>9, <1>10, <1>11 DEF Sound

LEMMA SetInputSound ==
  ASSUME NEW n, Sound(n), NEW g \in Live(n), NEW i \in DOMAIN n.ins[g],
         NEW t \in LiveTerminals(n)
  PROVE  LET m == SetInput(n, g, i, t)
         IN  /\ Sound(m)
             /\ m.size = n.size /\ m.outs = n.outs /\ m.kind = n.kind
             /\ Live(m) = Live(n)
             /\ \A u \in Users : DOMAIN m.ins[u] = DOMAIN n.ins[u]
<1>1. g \in Gates /\ g \in Users /\ g # Sink /\ i \in Nat
  BY LiveFacts, InputPositions DEF Sound, Users, Gates, Sink
<1>2. n.ins[g][i] \in LiveTerminals(n) /\ n.ins[g][i] \in Terminals
  BY <1>1, LiveFacts DEF Sound, ReadsLive
<1>3. {<<g, i>>} \in SUBSET n.uses[n.ins[g][i]]
  BY <1>1, <1>2 DEF Sound, Listed
<1>4. CASE t = n.ins[g][i]
  BY <1>4 DEF SetInput
<1>5. CASE t # n.ins[g][i]
  <2>1. SetInput(n, g, i, t) = Redirect(n, {<<g, i>>}, n.ins[g][i], t)
    BY <1>5 DEF SetInput
  <2> QED  BY <1>2, <1>3, <1>5, <2>1, RedirectSound
<1> QED  BY <1>4, <1>5

\* After ReplaceAllUsesWith nothing reads g.
LEMMA ReplaceUsesSound ==
  ASSUME NEW n, Sound(n), NEW g \in Live(n), NEW r \in LiveTerminals(n), NEW except
  PROVE  LET m == ReplaceUsesExcept(n, g, r, except)
         IN  /\ Sound(m)
             /\ m.size = n.size /\ m.outs = n.outs /\ m.kind = n.kind
             /\ Live(m) = Live(n)
             /\ except = Null /\ r # g => m.uses[g] = {}
<1> DEFINE moved == {u \in n.uses[g] : u[1] # except}
<1>1. g \in LiveTerminals(n) /\ g \in Terminals
  BY LiveFacts DEF Sound
<1>2. except = Null => moved = n.uses[g]
  <2> SUFFICES ASSUME except = Null, NEW x \in n.uses[g]
               PROVE  x[1] # Null
    OBVIOUS
  <2>1. x \in Users \X Nat
    BY <1>1, NetFields DEF Sound
  <2>2. Users \in SUBSET Int
    BY DEF Users, Gates, Sink
  <2> QED  BY <2>1, <2>2, NetAssumption
<1>3. CASE r = g
  BY <1>3 DEF ReplaceUsesExcept
<1>4. CASE r # g
  <2>1. ReplaceUsesExcept(n, g, r, except) = Redirect(n, moved, g, r)
    BY <1>4 DEF ReplaceUsesExcept
  <2>2. moved \in SUBSET n.uses[g]
    OBVIOUS
  <2> HIDE DEF moved
  <2> QED  BY <1>1, <1>2, <1>4, <2>1, <2>2, RedirectSound
<1> QED  BY <1>3, <1>4

LEMMA DeclareOutputSound ==
  ASSUME NEW n, Sound(n), n.outs < MaxOutputs, NEW t \in LiveTerminals(n)
  PROVE  LET m == DeclareOutput(n, t)
         IN  Sound(m) /\ m.size = n.size /\ m.kind = n.kind /\ Live(m) = Live(n)
<1> DEFINE o == n.outs + 1
           ins2 == [n.ins EXCEPT ![Sink] = [n.ins[Sink] EXCEPT ![o] = t]]
           uses2 == [n.uses EXCEPT ![t] = @ \cup {<<Sink, o>>}]
           m == [n EXCEPT !.outs = o, !.ins = ins2, !.uses = uses2]
<1>1. /\ IsNet(n) /\ t \in Terminals /\ Sink \in Users /\ Sink \notin Gates
      /\ o \in 1 .. MaxOutputs /\ o \in 0 .. MaxOutputs /\ o \in Nat /\ o > n.outs
      /\ DOMAIN n.ins[Sink] = 1 .. MaxOutputs
      /\ t # Null
  BY LiveFacts, NetFields, NetAssumption, NullIsNoTerminal
     DEF Sound, DeadIsBare, Users, Gates, Sink
<1>2. DeclareOutput(n, t) = m
  BY Zenon DEF DeclareOutput
<1> HIDE DEF ins2, uses2, o
<1>3. /\ m.size = n.size /\ m.outs = o /\ m.kind = n.kind /\ m.lut = n.lut
      /\ m.ins = ins2 /\ m.uses = uses2
  BY <1>1 DEF IsNet
<1> HIDE DEF m
<1>4. /\ \A u \in Users : DOMAIN m.ins[u] = DOMAIN n.ins[u]
      /\ \A u \in Users : \A j \in DOMAIN n.ins[u] :
           m.ins[u][j] = IF u = Sink /\ j = o THEN t ELSE n.ins[u][j]
  <2>1. /\ \A u \in Users : u # Sink => m.ins[u] = n.ins[u]
        /\ m.ins[Sink] = [n.ins[Sink] EXCEPT ![o] = t]
    BY <1>1, <1>3, NetFields DEF ins2
  <2> QED  BY <1>1, <2>1
<1>5. \A x \in Terminals \cup {Null} :
        m.uses[x] = IF x = t THEN n.uses[x] \cup {<<Sink, o>>} ELSE n.uses[x]
  BY <1>1, <1>3, NetFields DEF uses2
<1>6. IsNet(m)
  <2>1. [n.ins[Sink] EXCEPT ![o] = t] \in Seq(Terminals \cup {Null})
    <3>1. n.ins[Sink] \in Seq(Terminals \cup {Null})
      BY <1>1, NetFields
    <3> DEFINE q == n.ins[Sink]
               T == Terminals \cup {Null}
    <3>2. q \in Seq(T) /\ DOMAIN q = 1 .. MaxOutputs /\ t \in T
      BY <1>1, <3>1
    <3> HIDE DEF q, T
    <3>3. \A i \in 1 .. MaxOutputs : q[i] \in T
      <4>1. MaxOutputs = Len(q)
        BY <3>2, LenProperties, NetAssumption
      <4> QED  BY <3>2, <4>1, ElementOfSeq
    <3>4. [q EXCEPT ![o] = t] = [i \in 1 .. MaxOutputs |-> IF i = o THEN t ELSE q[i]]
      BY <1>1, <3>2
    <3>5. \A i \in 1 .. MaxOutputs : (IF i = o THEN t ELSE q[i]) \in T
      BY <3>2, <3>3
    <3> DEFINE e(i) == IF i = o THEN t ELSE q[i]
    <3>6. MaxOutputs \in Nat /\ \A i \in 1 .. MaxOutputs : e(i) \in T
      BY <3>5, NetAssumption
    <3>7. [q EXCEPT ![o] = t] = [i \in 1 .. MaxOutputs |-> e(i)]
      BY <3>4
    <3> HIDE DEF e
    <3>8. [i \in 1 .. MaxOutputs |-> e(i)] \in Seq(T)
      BY <3>6
    <3>9. [q EXCEPT ![o] = t] \in Seq(T)
      BY <3>7, <3>8, Zenon
    <3> QED  BY <3>9 DEF q, T
  <2>2. ins2 \in [Users -> Seq(Terminals \cup {Null})]
    BY <1>1, <2>1, NetFields DEF ins2
  <2>3. {<<Sink, o>>} \in SUBSET (Users \X Nat)
    BY <1>1
  <2>4. uses2 \in [Terminals \cup {Null} -> SUBSET (Users \X Nat)]
    BY <1>1, <2>3, NetFields DEF uses2
  <2> QED  BY <1>1, <2>2, <2>4, NetFields DEF IsNet, m
\* The slot was undeclared: it read kNullTerminal, so no terminal listed it.
<1>7. n.ins[Sink][o] = Null
  <2>1. <<Sink, o>> \in n.uses[Null] /\ n.ins[Sink][o] \in Terminals \cup {Null}
    BY <1>1, NetFields, InputPositions DEF Sound, Listed
  <2> QED  BY <1>1, <2>1 DEF Sound, ReadsLive
<1>8. Listed(m)
  <2>1. ASSUME NEW x \in Terminals, NEW u \in Users, NEW j \in Nat
        PROVE  <<u, j>> \in m.uses[x] <=> j \in DOMAIN m.ins[u] /\ m.ins[u][j] = x
    <3>1. <<u, j>> \in n.uses[x] <=> j \in DOMAIN n.ins[u] /\ n.ins[u][j] = x
      BY DEF Sound, Listed
    <3>2. CASE u = Sink /\ j = o
      <4>1. j \in DOMAIN m.ins[u] /\ m.ins[u][j] = t
        BY <1>1, <1>4, <3>2
      <4>2. <<u, j>> \notin n.uses[x]
        BY <1>7, <3>1, <3>2, NullIsNoTerminal
      <4> QED  BY <1>5, <3>2, <4>1, <4>2
    <3>3. CASE ~ (u = Sink /\ j = o)
      <4>1. <<u, j>> # <<Sink, o>>
        BY <3>3
      <4>2. <<u, j>> \in m.uses[x] <=> <<u, j>> \in n.uses[x]
        BY <1>5, <4>1
      <4> QED  BY <1>4, <3>1, <3>3, <4>2
    <3> QED  BY <3>2, <3>3
  <2>2. m.uses[Null] = n.uses[Null]
    BY <1>1, <1>5
  <2> QED  BY <2>1, <2>2 DEF Sound, Listed
<1>9. Live(m) = Live(n)
  BY <1>3 DEF Live
<1>10. ReadsLive(m)
  <2> SUFFICES ASSUME NEW u \in Users, NEW i \in DOMAIN m.ins[u]
               PROVE  IF u = Sink /\ i > m.outs THEN m.ins[u][i] = Null
                      ELSE m.ins[u][i] \in LiveTerminals(m)
    BY DEF ReadsLive
  <2>1. LiveTerminals(m) = LiveTerminals(n)
    BY <1>9 DEF LiveTerminals
  <2>2. CASE u = Sink /\ i = o
    <3>1. ~ (i > m.outs) /\ m.ins[u][i] = t
      BY <1>1, <1>3, <1>4, <2>2
    <3> QED  BY <2>1, <3>1
  <2>3. CASE ~ (u = Sink /\ i = o)
    <3>1. i \in DOMAIN n.ins[u] /\ m.ins[u][i] = n.ins[u][i] /\ i \in Int
      BY <1>1, <1>4, <2>3, InputPositions
    <3>2. u = Sink => (i > n.outs <=> i > m.outs)
      BY <1>1, <1>3, <2>3, <3>1, NetFields DEF o
    <3> QED  BY <2>1, <3>1, <3>2 DEF Sound, ReadsLive
  <2> QED  BY <2>2, <2>3
<1>11. DeadIsBare(m)
  <2>1. \A g \in Gates : m.ins[g] = n.ins[g]
    BY <1>1, <1>3, NetFields DEF ins2, Users
  <2> QED  BY <1>1, <1>3, <1>4, <2>1 DEF Sound, DeadIsBare
<1> QED  BY <1>2, <1>3, <1>6, <1>8, <1>9, <1>10, <1>11 DEF Sound

----------------------------------------------------------------------------
(* Canonicalize.                                                            *)

LEMMA DropNeutralSound ==
  ASSUME NEW n, Sound(n), NEW g \in Live(n)
  PROVE  LET m == DropNeutral(n, g)
         IN  /\ Sound(m)
             /\ m.size = n.size /\ m.outs = n.outs /\ m.kind = n.kind
             /\ Live(m) = Live(n)
BY EraseInputsSound DEF DropNeutral

LEMMA OneInputIsNotSound ==
  ASSUME NEW n, Sound(n), NEW g \in Live(n)
  PROVE  LET m == OneInputIsNot(n, g)
         IN  /\ Sound(m)
             /\ m.size = n.size /\ m.outs = n.outs
             /\ Live(m) = Live(n)
             /\ \A h \in Gates \ {g} : m.kind[h] = n.kind[h]
<1> DEFINE kind2 == [n.kind EXCEPT ![g] = "not"]
           m == [n EXCEPT !.kind = kind2]
<1>1. IsNet(n) /\ g \in Gates /\ n.kind[g] # "dead"
  BY LiveFacts DEF Sound, Live
<1>2. OneInputIsNot(n, g) = n \/ OneInputIsNot(n, g) = m
  BY Zenon DEF OneInputIsNot
<1> HIDE DEF kind2
<1>3. /\ m.size = n.size /\ m.outs = n.outs /\ m.kind = kind2 /\ m.lut = n.lut
      /\ m.ins = n.ins /\ m.uses = n.uses
  BY <1>1 DEF IsNet
<1>4. \A h \in Gates : kind2[h] = IF h = g THEN "not" ELSE n.kind[h]
  BY <1>1, NetFields DEF kind2
<1>5. IsNet(m)
  <2>1. kind2 \in [Gates -> Kinds]
    BY <1>1, NetFields DEF kind2, Kinds
  <2> QED  BY <1>1, <2>1, NetFields DEF IsNet
<1> HIDE DEF m
<1>6. Live(m) = Live(n)
  BY <1>1, <1>3, <1>4 DEF Live
<1>7. Sound(m)
  BY <1>3, <1>5, <1>6, RelabelSound
<1> QED  BY <1>2, <1>3, <1>4, <1>6, <1>7

\* Replacing the table of a gate by a part of it changes a label only.
LEMMA TableSound ==
  ASSUME NEW n, Sound(n), NEW g \in Live(n), NEW K \in SUBSET DOMAIN n.lut[g]
  PROVE  LET m == [n EXCEPT !.lut[g] = Compact(@, K)]
         IN  /\ Sound(m)
             /\ m.size = n.size /\ m.outs = n.outs /\ m.kind = n.kind
             /\ Live(m) = Live(n)
<1> DEFINE lut2 == [n.lut EXCEPT ![g] = Compact(n.lut[g], K)]
           m == [n EXCEPT !.lut = lut2]
<1>1. IsNet(n) /\ g \in Gates
  BY LiveFacts DEF Sound
<1>2. [n EXCEPT !.lut[g] = Compact(@, K)] = m
  BY Zenon
<1>3. lut2 \in [Gates -> Seq(BOOLEAN)]
  <2>1. n.lut[g] \in Seq(BOOLEAN)
    BY <1>1, NetFields
  <2>2. Compact(n.lut[g], K) \in Seq(BOOLEAN)
    BY <2>1, CompactEntries
  <2> QED  BY <1>1, <2>2, NetFields
<1> HIDE DEF lut2
<1>4. /\ m.size = n.size /\ m.outs = n.outs /\ m.kind = n.kind
      /\ m.ins = n.ins /\ m.uses = n.uses
  BY <1>1 DEF IsNet
<1>5. IsNet(m)
  BY <1>1, <1>3, NetFields DEF IsNet
<1> HIDE DEF m
<1>6. Live(m) = Live(n)
  BY <1>4 DEF Live
<1>7. Sound(m)
  BY <1>4, <1>5, <1>6, RelabelSound
<1> QED  BY <1>2, <1>4, <1>6, <1>7

LEMMA FoldTableSound ==
  ASSUME NEW n, Sound(n), NEW g \in Live(n)
  PROVE  LET m == FoldTable(n, g)
         IN  /\ Sound(m)
             /\ m.size = n.size /\ m.outs = n.outs /\ m.kind = n.kind
             /\ Live(m) = Live(n)
<1>1. ASSUME NEW t, NEW K \in SUBSET DOMAIN n.lut[g]
      PROVE  LET e == EraseInputs(n, g, t)
                 m == [e EXCEPT !.lut[g] = Compact(@, K)]
             IN  /\ Sound(m)
                 /\ m.size = n.size /\ m.outs = n.outs /\ m.kind = n.kind
                 /\ Live(m) = Live(n)
  <2> DEFINE e == EraseInputs(n, g, t)
  <2>1. /\ Sound(e) /\ g \in Live(e) /\ K \in SUBSET DOMAIN e.lut[g]
        /\ e.size = n.size /\ e.outs = n.outs /\ e.kind = n.kind /\ Live(e) = Live(n)
    BY EraseInputsSound
  <2> HIDE DEF e
  <2> QED  BY <2>1, TableSound DEF e
<1>2. \A J, b : RowsWith(n, g, J, b) \in SUBSET DOMAIN n.lut[g]
  BY DEF RowsWith
<1>3. CASE n.kind[g] # "lookup"
  <2>1. FoldTable(n, g) = n
    BY <1>3, Zenon DEF FoldTable
  <2> QED  BY <2>1
<1>4. CASE n.kind[g] = "lookup" /\ Matches(n, g, High) # {}
  <2>1. FoldTable(n, g) = [EraseInputs(n, g, High) EXCEPT
          !.lut[g] = Compact(@, RowsWith(n, g, Matches(n, g, High), 1))]
    BY <1>4 DEF FoldTable
  <2> QED  BY <1>1, <1>2, <2>1
<1>5. CASE n.kind[g] = "lookup" /\ Matches(n, g, High) = {} /\ Matches(n, g, Low) # {}
  <2>1. FoldTable(n, g) = [EraseInputs(n, g, Low) EXCEPT
          !.lut[g] = Compact(@, RowsWith(n, g, Matches(n, g, Low), 0))]
    BY <1>5 DEF FoldTable
  <2> QED  BY <1>1, <1>2, <2>1
<1>6. CASE n.kind[g] = "lookup" /\ Matches(n, g, High) = {} /\ Matches(n, g, Low) = {}
  <2>1. FoldTable(n, g) = n
    BY <1>6, Zenon DEF FoldTable
  <2> QED  BY <2>1
<1> QED  BY <1>3, <1>4, <1>5, <1>6

LEMMA CanonicalizeSound ==
  ASSUME NEW n, Sound(n), NEW g \in Live(n)
  PROVE  LET m == Canonicalize(n, g)
         IN  /\ Sound(m)
             /\ m.size = n.size /\ m.outs = n.outs
             /\ Live(m) \in {Live(n), Live(n) \ {g}}
<1> DEFINE a == DropNeutral(n, g)
           b == OneInputIsNot(a, g)
           c == FoldTable(b, g)
<1>1. Sound(a) /\ a.size = n.size /\ a.outs = n.outs /\ Live(a) = Live(n)
  BY DropNeutralSound
<1> HIDE DEF a
<1>2. Sound(b) /\ b.size = n.size /\ b.outs = n.outs /\ Live(b) = Live(n)
  BY <1>1, OneInputIsNotSound
<1> HIDE DEF b
<1>3. Sound(c) /\ c.size = n.size /\ c.outs = n.outs /\ Live(c) = Live(n)
  BY <1>2, FoldTableSound
<1> HIDE DEF c
<1>4. Canonicalize(n, g) = IF HasNoUse(c, g) THEN Erase(c, g) ELSE c
  BY DEF Canonicalize, a, b, c
<1> QED  BY <1>3, <1>4, EraseSound DEF HasNoUse

----------------------------------------------------------------------------
(* The builders.                                                            *)

\* What every step leaves: a sound network in which no gate is revived.
Step(n, m) ==
  /\ Sound(m)
  /\ n.size <= m.size
  /\ \A h \in 1 .. n.size : h \in Live(m) => h \in Live(n)

\* What a builder leaves: the same gates, with the same inputs, and at most k
\* gates more.
Extends(n, m, k) ==
  /\ Step(n, m)
  /\ m.size \in n.size .. n.size + k /\ m.outs = n.outs
  /\ Live(n) \in SUBSET Live(m)
  /\ \A h \in Live(n) : m.ins[h] = n.ins[h]

LEMMA ExtendsTerminals ==
  ASSUME NEW n, Sound(n), NEW m, NEW k \in Nat, Extends(n, m, k)
  PROVE  LiveTerminals(n) \in SUBSET LiveTerminals(m)
BY DEF Extends, LiveTerminals

LEMMA StepTrans ==
  ASSUME NEW n, Sound(n), NEW m, Step(n, m), NEW p, Step(m, p)
  PROVE  Step(n, p)
<1>1. n.size \in Nat /\ m.size \in Nat /\ p.size \in Nat
  BY NetFields DEF Step, Sound
<1>2. n.size <= p.size /\ 1 .. n.size \in SUBSET (1 .. m.size)
  BY <1>1 DEF Step
<1> QED  BY <1>2 DEF Step

\* An operation that adds no gate and at most removes some.
LEMMA ShrinkStep ==
  ASSUME NEW n, Sound(n), NEW m, Sound(m), m.size = n.size, Live(m) \in SUBSET Live(n)
  PROVE  Step(n, m)
BY NetFields DEF Step, Sound

LEMMA ExtendsTrans ==
  ASSUME NEW n, Sound(n), NEW m, NEW k \in Nat, Extends(n, m, k),
         NEW p, NEW l \in Nat, Extends(m, p, l)
  PROVE  Extends(n, p, k + l)
<1>1. /\ n.size \in Nat /\ m.size \in n.size .. n.size + k
      /\ p.size \in m.size .. m.size + l
  BY NetFields DEF Sound, Extends, Step
<1>2. p.size \in n.size .. n.size + (k + l)
  BY <1>1
<1>3. Step(n, p)
  BY StepTrans DEF Extends
<1> QED  BY <1>2, <1>3 DEF Extends

\* AddGate and AddLookup allocate one gate, which is live.
LEMMA NewGateExtends ==
  ASSUME NEW n, Sound(n), n.size < MaxGates, NEW k \in Kinds \ {"dead"},
         NEW s \in Seq(LiveTerminals(n)), NEW l \in Seq(BOOLEAN)
  PROVE  LET m == AddLookup(n, k, s, l)
         IN  /\ Extends(n, m, 1)
             /\ NextGate(n) \in Live(m) /\ NextGate(n) \in LiveTerminals(m)
             /\ m.size = n.size + 1
             /\ m.ins[NextGate(n)] = s
<1> DEFINE m == AddLookup(n, k, s, l)
<1>1. /\ Sound(m) /\ m.size = n.size + 1 /\ m.outs = n.outs
      /\ Live(m) = Live(n) \cup {NextGate(n)}
      /\ m.ins[NextGate(n)] = s
      /\ \A h \in Gates : h # NextGate(n) => m.ins[h] = n.ins[h]
      /\ NextGate(n) \notin Live(n)
  BY AddLookupSound DEF Live
<1> HIDE DEF m
<1>2. n.size \in Nat /\ m.size \in n.size .. n.size + 1
  BY <1>1, NetFields DEF Sound
<1>3. \A h \in Live(n) : h \in Gates /\ h # NextGate(n)
  BY <1>1, LiveFacts DEF Sound
<1>4. \A h \in 1 .. n.size : h # NextGate(n)
  BY <1>2 DEF NextGate
<1>5. Extends(n, m, 1)
  BY <1>1, <1>2, <1>3, <1>4 DEF Extends, Step
<1>6. NextGate(n) \in Live(m) /\ NextGate(n) \in LiveTerminals(m)
  BY <1>1 DEF LiveTerminals
<1> QED  BY <1>1, <1>5, <1>6 DEF m

LEMMA NewGateOf ==
  ASSUME NEW n, Sound(n), n.size < MaxGates, NEW k \in Kinds \ {"dead"},
         NEW s \in Seq(LiveTerminals(n))
  PROVE  LET b == NewGate(n, k, s)
         IN  /\ Extends(n, b.net, 1) /\ b.out \in LiveTerminals(b.net)
             /\ b.out \in Live(b.net) /\ b.net.ins[b.out] = s
<1> DEFINE l == << >>
<1>1. l \in Seq(BOOLEAN)
  OBVIOUS
<1>2. NewGate(n, k, s) = [net |-> AddLookup(n, k, s, l), out |-> NextGate(n)]
  BY DEF NewGate, AddGate
<1> HIDE DEF l
<1> QED  BY <1>1, <1>2, NewGateExtends

LEMMA NandNorOf ==
  ASSUME NEW n, Sound(n), n.size < MaxGates, NEW s \in Seq(LiveTerminals(n))
  PROVE  /\ Extends(n, NandOf(n, s).net, 1) /\ Extends(n, NorOf(n, s).net, 1)
         /\ NandOf(n, s).out \in Live(NandOf(n, s).net)
         /\ NorOf(n, s).out \in Live(NorOf(n, s).net)
         /\ NorOf(n, s).net.ins[NorOf(n, s).out] = s
<1>1. "nand" \in Kinds \ {"dead"} /\ "nor" \in Kinds \ {"dead"}
  BY DEF Kinds
<1> QED  BY <1>1, NewGateOf DEF NandOf, NorOf

LEMMA NotOfExtends ==
  ASSUME NEW n, Sound(n), n.size < MaxGates, NEW a \in LiveTerminals(n)
  PROVE  /\ Extends(n, NotOf(n, a).net, 1)
         /\ NotOf(n, a).out \in LiveTerminals(NotOf(n, a).net)
<1>1. CASE a \in {Low, High}
  <2>1. NotOf(n, a).net = n /\ NotOf(n, a).out \in {Low, High}
    BY <1>1, NetAssumption DEF NotOf
  <2>2. Extends(n, n, 1)
    BY NetFields DEF Extends, Step, Sound
  <2> QED  BY <2>1, <2>2, LiveFacts DEF Sound
<1>2. CASE a \notin {Low, High}
  <2>1. NotOf(n, a) = NewGate(n, "not", <<a>>)
    BY <1>2 DEF NotOf
  <2>2. "not" \in Kinds \ {"dead"} /\ <<a>> \in Seq(LiveTerminals(n))
    BY DEF Kinds
  <2> QED  BY <2>1, <2>2, NewGateOf
<1> QED  BY <1>1, <1>2

\* A one-gate builder followed by a NOT of what it returned.
LEMMA ThenNot ==
  ASSUME NEW n, Sound(n), n.size + 2 <= MaxGates, NEW m, Extends(n, m, 1),
         NEW a \in LiveTerminals(m)
  PROVE  /\ Extends(n, NotOf(m, a).net, 2)
         /\ NotOf(m, a).out \in LiveTerminals(NotOf(m, a).net)
<1>1. Sound(m) /\ m.size < MaxGates
  BY NetFields, NetAssumption DEF Extends, Step, Sound
<1>2. /\ Extends(m, NotOf(m, a).net, 1)
      /\ NotOf(m, a).out \in LiveTerminals(NotOf(m, a).net)
  BY <1>1, NotOfExtends
<1>3. Extends(n, NotOf(m, a).net, 1 + 1)
  BY <1>2, ExtendsTrans
<1> QED  BY <1>2, <1>3

LEMMA XorOfExtends ==
  ASSUME NEW n, Sound(n), n.size + 3 <= MaxGates,
         NEW a \in LiveTerminals(n), NEW b \in LiveTerminals(n)
  PROVE  Extends(n, XorOf(n, a, b).net, 3)
<1> DEFINE na == NotOf(n, a)
           nb == NotOf(na.net, b)
           l == <<FALSE, TRUE, TRUE, FALSE>>
           s == <<a, b, na.out, nb.out>>
<1>1. n.size \in Nat /\ n.size < MaxGates /\ n.size + 2 <= MaxGates
  BY NetFields, NetAssumption DEF Sound
<1>2. Extends(n, na.net, 1) /\ na.out \in LiveTerminals(na.net)
  BY <1>1, NotOfExtends
<1>3. a \in LiveTerminals(na.net) /\ b \in LiveTerminals(na.net)
  BY <1>2, ExtendsTerminals
<1> HIDE DEF na
<1>4. Extends(n, nb.net, 2) /\ nb.out \in LiveTerminals(nb.net)
  BY <1>1, <1>2, <1>3, ThenNot
<1>5. Extends(na.net, nb.net, 1) /\ Sound(na.net)
  <2>1. Sound(na.net) /\ na.net.size < MaxGates
    BY <1>1, <1>2, NetFields, NetAssumption DEF Extends, Step, Sound
  <2> QED  BY <1>3, <2>1, NotOfExtends
<1>6. a \in LiveTerminals(nb.net) /\ b \in LiveTerminals(nb.net)
        /\ na.out \in LiveTerminals(nb.net)
  BY <1>2, <1>3, <1>5, ExtendsTerminals
<1> HIDE DEF nb
<1>7. Sound(nb.net) /\ nb.net.size < MaxGates
  BY <1>1, <1>4, NetFields, NetAssumption DEF Extends, Step, Sound
<1>8. s \in Seq(LiveTerminals(nb.net)) /\ l \in Seq(BOOLEAN)
  BY <1>4, <1>6
<1>9. XorOf(n, a, b).net = AddLookup(nb.net, "lookup", s, l)
  BY DEF XorOf, na, nb
<1>10. "lookup" \in Kinds \ {"dead"}
  BY DEF Kinds
<1> HIDE DEF s, l
<1>11. Extends(nb.net, XorOf(n, a, b).net, 1)
  BY <1>7, <1>8, <1>9, <1>10, NewGateExtends
<1>12. Extends(n, XorOf(n, a, b).net, 2 + 1)
  BY <1>4, <1>11, ExtendsTrans
<1> QED  BY <1>12

LEMMA TriStateOfExtends ==
  ASSUME NEW n, Sound(n), n.size + 2 <= MaxGates,
         NEW a \in LiveTerminals(n), NEW b \in LiveTerminals(n)
  PROVE  Extends(n, TriStateOf(n, a, b).net, 2)
<1> DEFINE na == NotOf(n, a)
           s == <<a, na.out, b>>
<1>1. n.size \in Nat /\ n.size < MaxGates
  BY NetFields, NetAssumption DEF Sound
<1>2. Extends(n, na.net, 1) /\ na.out \in LiveTerminals(na.net)
  BY <1>1, NotOfExtends
<1>3. a \in LiveTerminals(na.net) /\ b \in LiveTerminals(na.net)
  BY <1>2, ExtendsTerminals
<1> HIDE DEF na
<1>4. Sound(na.net) /\ na.net.size < MaxGates
  BY <1>1, <1>2, NetFields, NetAssumption DEF Extends, Step, Sound
<1>5. s \in Seq(LiveTerminals(na.net))
  BY <1>2, <1>3
<1>6. TriStateOf(n, a, b) = NewGate(na.net, "tri", s)
  BY DEF TriStateOf, na
<1>7. "tri" \in Kinds \ {"dead"}
  BY DEF Kinds
<1> HIDE DEF s
<1>8. Extends(na.net, TriStateOf(n, a, b).net, 1)
  BY <1>4, <1>5, <1>6, <1>7, NewGateOf
<1>9. Extends(n, TriStateOf(n, a, b).net, 1 + 1)
  BY <1>2, <1>8, ExtendsTrans
<1> QED  BY <1>9

LEMMA MuxOfExtends ==
  ASSUME NEW n, Sound(n), n.size + 2 <= MaxGates,
         NEW a \in LiveTerminals(n), NEW b \in LiveTerminals(n),
         NEW c \in LiveTerminals(n)
  PROVE  Extends(n, MuxOf(n, a, b, c).net, 2)
<1> DEFINE na == NotOf(n, a)
           s == <<a, na.out, b, c>>
<1>1. n.size \in Nat /\ n.size < MaxGates
  BY NetFields, NetAssumption DEF Sound
<1>2. Extends(n, na.net, 1) /\ na.out \in LiveTerminals(na.net)
  BY <1>1, NotOfExtends
<1>3. a \in LiveTerminals(na.net) /\ b \in LiveTerminals(na.net)
        /\ c \in LiveTerminals(na.net)
  BY <1>2, ExtendsTerminals
<1> HIDE DEF na
<1>4. Sound(na.net) /\ na.net.size < MaxGates
  BY <1>1, <1>2, NetFields, NetAssumption DEF Extends, Step, Sound
<1>5. s \in Seq(LiveTerminals(na.net))
  BY <1>2, <1>3
<1>6. MuxOf(n, a, b, c) = NewGate(na.net, "mux", s)
  BY DEF MuxOf, na
<1>7. "mux" \in Kinds \ {"dead"}
  BY DEF Kinds
<1> HIDE DEF s
<1>8. Extends(na.net, MuxOf(n, a, b, c).net, 1)
  BY <1>4, <1>5, <1>6, <1>7, NewGateOf
<1>9. Extends(n, MuxOf(n, a, b, c).net, 1 + 1)
  BY <1>2, <1>8, ExtendsTrans
<1> QED  BY <1>9

\* Closing the loop of the latch keeps every reader on a live gate.
LEMMA SrLatchSound ==
  ASSUME NEW n, Sound(n), n.size + 2 <= MaxGates, NEW s \in LiveTerminals(n),
         NEW r \in LiveTerminals(n), NEW reset \in LiveTerminals(n)
  PROVE  Step(n, SrLatch(n, s, r, reset).net)
<1> DEFINE ia == <<r, High, reset>>
           a == NorOf(n, ia)
           ib == <<s, High>>
           b == NorOf(a.net, ib)
           c == SetInput(b.net, a.out, 2, b.out)
<1>1. n.size \in Nat /\ n.size < MaxGates
  BY NetFields, NetAssumption DEF Sound
<1>2. ia \in Seq(LiveTerminals(n)) /\ 2 \in DOMAIN ia
  BY LiveFacts DEF Sound
<1>3. 2 \in DOMAIN ib
  OBVIOUS
<1>4. /\ Extends(n, a.net, 1) /\ a.out \in Live(a.net) /\ a.net.ins[a.out] = ia
  <2> HIDE DEF ia
  <2> QED  BY <1>1, <1>2, NandNorOf
<1>5. 2 \in DOMAIN a.net.ins[a.out]
  BY <1>2, <1>4
<1> HIDE DEF ia, a
<1>6. Sound(a.net) /\ a.net.size < MaxGates
  BY <1>1, <1>4, NetFields, NetAssumption DEF Extends, Step, Sound
<1>7. ib \in Seq(LiveTerminals(a.net))
  <2>1. s \in LiveTerminals(a.net) /\ High \in LiveTerminals(a.net)
    BY <1>4, <1>6, ExtendsTerminals, LiveFacts DEF Sound
  <2> QED  BY <2>1
<1>8. Extends(a.net, b.net, 1) /\ b.out \in Live(b.net) /\ b.net.ins[b.out] = ib
  <2> HIDE DEF ib
  <2> QED  BY <1>6, <1>7, NandNorOf
<1>9. 2 \in DOMAIN b.net.ins[b.out]
  BY <1>8, <1>3
<1> HIDE DEF ib, b
<1>10. a.out \in Live(b.net) /\ 2 \in DOMAIN b.net.ins[a.out] /\ Sound(b.net)
  BY <1>4, <1>8, <1>5 DEF Extends, Step
<1>11. a.out \in LiveTerminals(b.net) /\ b.out \in LiveTerminals(b.net)
         /\ b.out \in Users
  BY <1>8, <1>10, LiveFacts DEF Sound, Users
<1>12. Sound(c) /\ Live(c) = Live(b.net) /\ 2 \in DOMAIN c.ins[b.out]
  BY <1>9, <1>10, <1>11, SetInputSound
<1>13. b.out \in Live(c) /\ a.out \in LiveTerminals(c)
  BY <1>8, <1>11, <1>12 DEF LiveTerminals
<1>14. SrLatch(n, s, r, reset).net = SetInput(c, b.out, 2, a.out)
  BY DEF SrLatch, a, b, ia, ib
<1>15. Step(n, b.net)
  BY <1>4, <1>8, StepTrans DEF Extends
<1>16. c.size = b.net.size
  BY <1>9, <1>10, <1>11, SetInputSound
<1> HIDE DEF c
<1>17. /\ Sound(SrLatch(n, s, r, reset).net)
       /\ Live(SrLatch(n, s, r, reset).net) = Live(b.net)
       /\ SrLatch(n, s, r, reset).net.size = b.net.size
  BY <1>12, <1>13, <1>14, <1>16, SetInputSound
<1> QED  BY <1>10, <1>15, <1>17, ShrinkStep, StepTrans

----------------------------------------------------------------------------
(* What a network does.                                                     *)

Levels == {"low", "high"}

\* A state of the terminals: constants and inputs have one of two levels.
Valuation(st) ==
  /\ st \in [Terminals -> Known]
  /\ st[Low] = "low" /\ st[High] = "high"
  /\ \A i \in Inputs : st[i] \in Levels

Consistent(n, st) ==
  Valuation(st) /\ \A g \in Live(n) : st[g] = ComputeValue(n, st, g)

\* All gates but g have the values that their inputs give them.
ConsistentBut(n, st, g) ==
  /\ Valuation(st)
  /\ n.kind[g] # "tri" => st[g] \in Levels
  /\ \A h \in Live(n) \ {g} : st[h] = ComputeValue(n, st, h)

Shows(n, st) ==
  [ inputs  |-> [i \in Inputs |-> st[i]],
    outputs |-> [o \in 1 .. n.outs |-> st[n.ins[Sink][o]]] ]
Behaviour(n) == {Shows(n, st) : st \in {s \in [Terminals -> Known] : Consistent(n, s)}}

----------------------------------------------------------------------------
(* Values.                                                                  *)

LEMMA TerminalsApart ==
  /\ Low \in Terminals /\ High \in Terminals /\ Inputs \in SUBSET Terminals
  /\ Gates \in SUBSET Terminals
  /\ \A g \in Gates : g \notin Inputs /\ g # Low /\ g # High /\ g # Null
  /\ Low # High /\ Low \notin Inputs /\ High \notin Inputs
  /\ Sink \notin Gates /\ Gates \in SUBSET Users /\ Sink \in Users
<1>1. Gates \in SUBSET Int
  BY DEF Gates
<1> QED  BY <1>1, NetAssumption DEF Terminals, Users, Gates, Sink

\* The inputs of a live gate.
LEMMA LiveInputs ==
  ASSUME NEW n, Sound(n), NEW g \in Live(n)
  PROVE  /\ g \in Gates
         /\ n.ins[g] \in Seq(LiveTerminals(n))
         /\ DOMAIN n.ins[g] = 1 .. Len(n.ins[g]) /\ Len(n.ins[g]) \in Nat
         /\ \A i \in DOMAIN n.ins[g] : /\ n.ins[g][i] \in LiveTerminals(n)
                                       /\ n.ins[g][i] \in Terminals
                                       /\ n.ins[g][i] # Null
<1>1. g \in Gates /\ g \in Users /\ g # Sink
  BY LiveFacts, TerminalsApart DEF Sound
<1>2. n.ins[g] \in Seq(Terminals \cup {Null})
  BY <1>1, InputPositions DEF Sound
<1>3. \A i \in DOMAIN n.ins[g] : n.ins[g][i] \in LiveTerminals(n)
  BY <1>1 DEF Sound, ReadsLive
<1>4. LiveTerminals(n) \in SUBSET Terminals
  BY LiveFacts DEF Sound
<1>5. \A i \in DOMAIN n.ins[g] : n.ins[g][i] \in Terminals /\ n.ins[g][i] # Null
  BY <1>3, <1>4, NullIsNoTerminal
<1>6. n.ins[g] \in Seq(LiveTerminals(n))
  BY <1>2, <1>3
<1> QED  BY <1>1, <1>2, <1>3, <1>5, <1>6

LEMMA SinkInputs ==
  ASSUME NEW n, Sound(n), NEW o \in 1 .. n.outs
  PROVE  /\ o \in DOMAIN n.ins[Sink]
         /\ n.ins[Sink][o] \in LiveTerminals(n) /\ n.ins[Sink][o] \in Terminals
<1>1. n.outs \in 0 .. MaxOutputs /\ DOMAIN n.ins[Sink] = 1 .. MaxOutputs
  BY NetFields DEF Sound, DeadIsBare
<1>2. o \in DOMAIN n.ins[Sink] /\ ~ (o > n.outs)
  BY <1>1, NetAssumption
<1>3. n.ins[Sink][o] \in LiveTerminals(n)
  BY <1>2, TerminalsApart DEF Sound, ReadsLive
<1> QED  BY <1>2, <1>3, LiveFacts DEF Sound

\* What compute_value reads of the state.
LEMMA ReadValues ==
  ASSUME NEW n, Sound(n), NEW g \in Live(n), NEW st \in [Terminals -> Known]
  PROVE  LET in == Read(n, st, g)
         IN  /\ DOMAIN in = DOMAIN n.ins[g]
             /\ \A i \in DOMAIN in :
                  /\ in[i] \in Levels
                  /\ st[n.ins[g][i]] # "z" => in[i] = st[n.ins[g][i]]
                  /\ in[i] = IF st[n.ins[g][i]] = "z" THEN "low" ELSE st[n.ins[g][i]]
BY LiveInputs DEF Read, Known, Levels

\* Equal gates with equal readings have equal values.
LEMMA EqualValues ==
  ASSUME NEW n, NEW m, NEW g, NEW h, NEW s, NEW t,
         n.kind[g] = m.kind[h], n.lut[g] = m.lut[h], Read(n, s, g) = Read(m, t, h)
  PROVE  ComputeValue(n, s, g) = ComputeValue(m, t, h)
BY DEF ComputeValue

LEMMA ValueTypes ==
  ASSUME NEW n, Sound(n), WellShaped(n), NEW g \in Live(n), NEW st \in [Terminals -> Known]
  PROVE  /\ ComputeValue(n, st, g) \in Known
         /\ n.kind[g] # "tri" => ComputeValue(n, st, g) \in Levels
<1> DEFINE in == Read(n, st, g)
<1>1. DOMAIN in = 1 .. Len(n.ins[g]) /\ Len(n.ins[g]) \in Nat /\ \A i \in DOMAIN in : in[i] \in Levels
  BY ReadValues, LiveInputs
<1> HIDE DEF in
<1>2. /\ n.kind[g] = "not" => Len(n.ins[g]) >= 1
      /\ n.kind[g] = "tri" => Len(n.ins[g]) >= 3
      /\ n.kind[g] = "mux" => Len(n.ins[g]) >= 4
  BY DEF WellShaped
<1>3. CASE n.kind[g] = "not"
  <2>1. ComputeValue(n, st, g) = Flip(in[1])
    BY <1>3 DEF ComputeValue, in
  <2>2. in[1] \in Levels
    BY <1>1, <1>2, <1>3
  <2> QED  BY <1>3, <2>1, <2>2 DEF Flip, Levels, Known
<1>4. CASE n.kind[g] = "tri"
  <2>1. ComputeValue(n, st, g) = Switch(in[1], in[3], "z")
    BY <1>4 DEF ComputeValue, in
  <2>2. in[1] \in Levels /\ in[3] \in Levels
    BY <1>1, <1>2, <1>4
  <2> QED  BY <1>4, <2>1, <2>2 DEF Switch, Levels, Known
<1>5. CASE n.kind[g] = "mux"
  <2>1. ComputeValue(n, st, g) = IF in[3] = in[4] THEN in[3] ELSE Switch(in[1], in[3], in[4])
    BY <1>5 DEF ComputeValue, in
  <2>2. in[1] \in Levels /\ in[3] \in Levels /\ in[4] \in Levels
    BY <1>1, <1>2, <1>5
  <2> QED  BY <1>5, <2>1, <2>2 DEF Switch, Levels, Known
<1>6. CASE n.kind[g] = "nand"
  <2>1. ComputeValue(n, st, g) = Decide(in, "low", "high")
    BY <1>6 DEF ComputeValue, in
  <2> QED  BY <1>1, <1>6, <2>1 DEF Decide, Flip, Levels, Known
<1>7. CASE n.kind[g] = "nor"
  <2>1. ComputeValue(n, st, g) = Decide(in, "high", "low")
    BY <1>7 DEF ComputeValue, in
  <2> QED  BY <1>1, <1>7, <2>1 DEF Decide, Flip, Levels, Known
<1>8. CASE n.kind[g] = "lookup"
  <2>1. ComputeValue(n, st, g) = LookUp(n.lut[g], in)
    BY <1>8 DEF ComputeValue, in
  <2>2. ~ \E i \in DOMAIN in : in[i] = "none"
    BY <1>1 DEF Levels
  <2>3. \E b : LookUp(n.lut[g], in) = FromBool(b)
    BY <2>2 DEF LookUp
  <2> QED  BY <1>8, <2>1, <2>3 DEF FromBool, Levels, Known
<1>9. n.kind[g] \in Kinds \ {"dead"}
  BY NetFields DEF Live, Sound
<1> QED  BY <1>3, <1>4, <1>5, <1>6, <1>7, <1>8, <1>9 DEF Kinds

\* A gate of a consistent state that is no buffer has a level.
LEMMA LevelOf ==
  ASSUME NEW n, Sound(n), WellShaped(n), NEW st, Consistent(n, st),
         NEW t \in LiveTerminals(n), t \in Gates => n.kind[t] # "tri"
  PROVE  st[t] \in Levels
<1>1. CASE t \in Gates
  <2>1. t \in Live(n)
    BY <1>1, TerminalsApart DEF LiveTerminals
  <2> QED  BY <1>1, <2>1, ValueTypes DEF Consistent, Valuation
<1>2. CASE t \notin Gates
  <2>1. t \in Inputs \cup {Low, High}
    BY <1>2, LiveFacts DEF LiveTerminals, Live
  <2> QED  BY <2>1 DEF Consistent, Valuation, Levels
<1> QED  BY <1>1, <1>2

\* Where buffers feed outputs only, a gate reads levels.
LEMMA ReadPlain ==
  ASSUME NEW n, Sound(n), WellShaped(n), NoBufferRead(n), NEW g, NEW st, ConsistentBut(n, st, g),
         NEW h \in Live(n), NEW i \in DOMAIN n.ins[h]
  PROVE  /\ st[n.ins[h][i]] \in Levels
         /\ i \in DOMAIN Read(n, st, h) /\ Read(n, st, h)[i] = st[n.ins[h][i]]
<1> DEFINE t == n.ins[h][i]
<1>1. t \in LiveTerminals(n) /\ h \in Gates
  BY LiveInputs
<1>2. st \in [Terminals -> Known]
  BY DEF ConsistentBut, Valuation
<1>3. st[t] \in Levels
  <2>1. CASE t \in Gates
    <3>1. t \in Live(n) /\ n.kind[t] # "tri"
      BY <1>1, <2>1, TerminalsApart DEF LiveTerminals, NoBufferRead, InputsOf
    <3>2. CASE t = g
      BY <3>1, <3>2 DEF ConsistentBut
    <3>3. CASE t # g
      BY <1>2, <3>1, <3>3, ValueTypes DEF ConsistentBut
    <3> QED  BY <3>2, <3>3
  <2>2. CASE t \notin Gates
    <3>1. t \in Inputs \cup {Low, High}
      BY <1>1, <2>2, LiveFacts DEF LiveTerminals, Live
    <3> QED  BY <3>1 DEF ConsistentBut, Valuation, Levels
  <2> QED  BY <2>1, <2>2
<1>4. st[t] # "z"
  BY <1>3 DEF Levels
<1> QED  BY <1>2, <1>3, <1>4, ReadValues

LEMMA ConsistentIsBut ==
  ASSUME NEW n, Sound(n), WellShaped(n), NEW st, Consistent(n, st), NEW g \in Live(n)
  PROVE  ConsistentBut(n, st, g)
<1>1. st \in [Terminals -> Known] /\ st[g] = ComputeValue(n, st, g)
  BY DEF Consistent, Valuation
<1> QED  BY <1>1, ValueTypes DEF Consistent, ConsistentBut

\* Two networks do the same if each consistent state of one has a consistent state of the
\* other that shows the same.
LEMMA SameBehaviour ==
  ASSUME NEW n, NEW m,
         \A st : Consistent(n, st) => \E s : Consistent(m, s) /\ Shows(m, s) = Shows(n, st),
         \A st : Consistent(m, st) => \E s : Consistent(n, s) /\ Shows(n, s) = Shows(m, st)
  PROVE  Behaviour(m) = Behaviour(n)
<1>1. \A k, s : Consistent(k, s) => s \in [Terminals -> Known]
  BY DEF Consistent, Valuation
<1>2. Behaviour(n) \subseteq Behaviour(m)
  <2> SUFFICES ASSUME NEW st \in [Terminals -> Known], Consistent(n, st)
               PROVE  Shows(n, st) \in Behaviour(m)
    BY DEF Behaviour
  <2>1. PICK s : Consistent(m, s) /\ Shows(m, s) = Shows(n, st)
    OBVIOUS
  <2>2. s \in [Terminals -> Known]
    BY <1>1, <2>1
  <2> QED  BY <2>1, <2>2, Zenon DEF Behaviour
<1>3. Behaviour(m) \subseteq Behaviour(n)
  <2> SUFFICES ASSUME NEW st \in [Terminals -> Known], Consistent(m, st)
               PROVE  Shows(m, st) \in Behaviour(n)
    BY DEF Behaviour
  <2>1. PICK s : Consistent(n, s) /\ Shows(n, s) = Shows(m, st)
    OBVIOUS
  <2>2. s \in [Terminals -> Known]
    BY <1>1, <2>1
  <2> QED  BY <2>1, <2>2, Zenon DEF Behaviour
<1> QED  BY <1>2, <1>3

----------------------------------------------------------------------------
(* ReplaceAllUsesWith.                                                      *)

Instead(g, r, t) == IF t = g THEN r ELSE t

LEMMA ReplacedFields ==
  ASSUME NEW n, Sound(n), NEW g \in Live(n), NEW r \in LiveTerminals(n), r # g
  PROVE  LET m == ReplaceAllUsesWith(n, g, r)
         IN  /\ Sound(m) /\ Live(m) = Live(n) /\ LiveTerminals(m) = LiveTerminals(n)
             /\ m.size = n.size /\ m.outs = n.outs /\ m.kind = n.kind /\ m.lut = n.lut
             /\ m.uses[g] = {}
             /\ \A u \in Users : /\ DOMAIN m.ins[u] = DOMAIN n.ins[u]
                                 /\ \A i \in DOMAIN n.ins[u] :
                                      m.ins[u][i] = Instead(g, r, n.ins[u][i])
<1> DEFINE m == ReplaceAllUsesWith(n, g, r)
           moved == {u \in n.uses[g] : u[1] # Null}
<1>1. g \in LiveTerminals(n) /\ g \in Terminals /\ g \in Gates /\ r \in Terminals
  BY LiveFacts DEF Sound
<1>2. moved = n.uses[g]
  <2> SUFFICES ASSUME NEW x \in n.uses[g]
               PROVE  x[1] # Null
    OBVIOUS
  <2>1. x \in Users \X Nat
    BY <1>1, NetFields DEF Sound
  <2>2. Users \in SUBSET Int
    BY DEF Users, Gates, Sink
  <2> QED  BY <2>1, <2>2, NetAssumption
<1>3. m = Redirect(n, n.uses[g], g, r)
  BY <1>2 DEF ReplaceAllUsesWith, ReplaceUsesExcept
<1>4. /\ Sound(m) /\ Live(m) = Live(n) /\ m.uses[g] = {}
      /\ m.size = n.size /\ m.outs = n.outs /\ m.kind = n.kind /\ m.lut = n.lut
      /\ \A u \in Users : DOMAIN m.ins[u] = DOMAIN n.ins[u]
  BY <1>1, <1>3, RedirectSound
<1>5. ASSUME NEW u \in Users, NEW i \in DOMAIN n.ins[u]
      PROVE  m.ins[u][i] = Instead(g, r, n.ins[u][i])
  <2>1. DOMAIN n.ins = Users /\ i \in Nat
    BY NetFields, InputPositions DEF Sound
  <2>2. m.ins[u][i] = IF <<u, i>> \in n.uses[g] THEN r ELSE n.ins[u][i]
    BY <1>3, <2>1 DEF Redirect
  <2>3. <<u, i>> \in n.uses[g] <=> n.ins[u][i] = g
    BY <1>1, <2>1 DEF Sound, Listed
  <2> QED  BY <2>2, <2>3 DEF Instead
<1>6. LiveTerminals(m) = LiveTerminals(n)
  BY <1>4 DEF LiveTerminals
<1> QED  BY <1>4, <1>5, <1>6

\* r can take the place of g.
Replaces(n, g, r) ==
  /\ r \in LiveTerminals(n) /\ r # g
  /\ r \in Gates /\ n.kind[r] = "tri" => n.kind[g] = "tri"
  /\ \A st : ConsistentBut(n, st, g) => ComputeValue(n, st, g) = st[r]

LEMMA ReplaceKeeps ==
  ASSUME NEW n, Sound(n), WellShaped(n), NEW g \in Live(n), NEW r, Replaces(n, g, r),
         WellShaped(ReplaceAllUsesWith(n, g, r))
  PROVE  Behaviour(ReplaceAllUsesWith(n, g, r)) = Behaviour(n)
<1> DEFINE m == ReplaceAllUsesWith(n, g, r)
<1> USE DEF Replaces
<1>1. /\ Sound(m) /\ Live(m) = Live(n) /\ LiveTerminals(m) = LiveTerminals(n)
      /\ m.outs = n.outs /\ m.kind = n.kind /\ m.lut = n.lut
      /\ \A u \in Users : /\ DOMAIN m.ins[u] = DOMAIN n.ins[u]
                          /\ \A i \in DOMAIN n.ins[u] :
                               m.ins[u][i] = Instead(g, r, n.ins[u][i])
  BY ReplacedFields
<1>2. g \in Gates /\ g \in Terminals /\ r \in Terminals /\ g # Low /\ g # High /\ g \notin Inputs
  BY LiveFacts, TerminalsApart DEF Sound
<1> HIDE DEF m
<1>3. ASSUME NEW st \in [Terminals -> Known], st[g] = st[r], NEW u \in Live(n)
      PROVE  ComputeValue(m, st, u) = ComputeValue(n, st, u)
  <2>1. u \in Users
    BY LiveInputs, TerminalsApart
  <2>2. \A i \in DOMAIN n.ins[u] : st[m.ins[u][i]] = st[n.ins[u][i]]
    BY <1>1, <1>3, <2>1 DEF Instead
  <2>3. Read(m, st, u) = Read(n, st, u)
    BY <1>1, <2>1, <2>2 DEF Read
  <2> QED  BY <1>1, <2>3, EqualValues
<1>4. ASSUME NEW st \in [Terminals -> Known], st[g] = st[r]
      PROVE  Shows(m, st) = Shows(n, st)
  <2>1. \A o \in 1 .. n.outs : st[m.ins[Sink][o]] = st[n.ins[Sink][o]]
    BY <1>1, <1>4, SinkInputs, TerminalsApart DEF Instead
  <2> QED  BY <1>1, <2>1 DEF Shows
<1>5. ASSUME NEW st, Consistent(n, st)
      PROVE  Consistent(m, st) /\ Shows(m, st) = Shows(n, st)
  <2>1. st \in [Terminals -> Known]
    BY <1>5 DEF Consistent, Valuation
  <2>2. st[g] = st[r]
    BY <1>5, ConsistentIsBut DEF Consistent
  <2>3. \A u \in Live(m) : st[u] = ComputeValue(m, st, u)
    BY <1>1, <1>3, <1>5, <2>1, <2>2 DEF Consistent
  <2> QED  BY <1>4, <1>5, <2>1, <2>2, <2>3 DEF Consistent
<1>6. ASSUME NEW st, Consistent(m, st)
      PROVE  Consistent(n, st) /\ Shows(n, st) = Shows(m, st)
  <2> DEFINE s == [st EXCEPT ![g] = st[r]]
  <2>1. st \in [Terminals -> Known] /\ Valuation(st)
    BY <1>6 DEF Consistent, Valuation
  <2>2. /\ s \in [Terminals -> Known]
        /\ s[g] = st[r] /\ s[r] = st[r]
        /\ \A t \in Terminals : t # g => s[t] = st[t]
    BY <1>2, <2>1
  <2> HIDE DEF s
  <2>3. \A u \in Live(n) : ComputeValue(m, st, u) = ComputeValue(n, s, u)
    <3> SUFFICES ASSUME NEW u \in Live(n)
                 PROVE  ComputeValue(m, st, u) = ComputeValue(n, s, u)
      OBVIOUS
    <3>1. u \in Users /\ \A i \in DOMAIN n.ins[u] : n.ins[u][i] \in Terminals
      BY LiveInputs, TerminalsApart
    <3>2. \A i \in DOMAIN n.ins[u] : st[m.ins[u][i]] = s[n.ins[u][i]]
      BY <1>1, <2>2, <3>1 DEF Instead
    <3>3. Read(m, st, u) = Read(n, s, u)
      BY <1>1, <3>1, <3>2 DEF Read
    <3> QED  BY <1>1, <3>3, EqualValues
  <2>4. Valuation(s)
    <3>1. Low \in Terminals /\ High \in Terminals /\ Inputs \in SUBSET Terminals
      BY TerminalsApart
    <3>2. s[Low] = st[Low] /\ s[High] = st[High] /\ \A i \in Inputs : s[i] = st[i]
      BY <1>2, <2>2, <3>1
    <3> QED  BY <2>1, <2>2, <3>2 DEF Valuation
  <2>5. n.kind[g] # "tri" => s[g] \in Levels
    <3>1. n.kind[g] # "tri" => st[r] \in Levels
      BY <1>1, <1>6, LevelOf DEF m
    <3> QED  BY <2>2, <3>1
  <2>6. \A h \in Live(n) \ {g} : s[h] = ComputeValue(n, s, h)
    <3> SUFFICES ASSUME NEW h \in Live(n) \ {g}
                 PROVE  s[h] = ComputeValue(n, s, h)
      OBVIOUS
    <3>1. h \in Terminals /\ s[h] = st[h]
      BY <2>2, LiveFacts DEF Sound
    <3>2. st[h] = ComputeValue(m, st, h)
      BY <1>1, <1>6 DEF Consistent
    <3> QED  BY <2>3, <3>1, <3>2
  <2>7. ComputeValue(n, s, g) = st[r]
    BY <2>2, <2>4, <2>5, <2>6 DEF ConsistentBut
  <2>8. st[g] = st[r]
    BY <1>1, <1>6, <2>3, <2>7 DEF Consistent
  <2>9. \A u \in Live(n) : st[u] = ComputeValue(n, st, u)
    BY <1>1, <1>3, <1>6, <2>1, <2>8 DEF Consistent
  <2> QED  BY <1>4, <2>1, <2>8, <2>9 DEF Consistent
<1>7. Behaviour(m) = Behaviour(n)
  BY <1>5, <1>6, SameBehaviour
<1> QED  BY <1>7 DEF m

LEMMA OppositeBothWays ==
  ASSUME NEW n, NEW a, NEW b
  PROVE  Opposite(n, a, b) <=> Opposite(n, b, a)
BY DEF Opposite

\* A NOT is live and has an input.
LEMMA NotHasInput ==
  ASSUME NEW n, Sound(n), WellShaped(n), NEW a, NEW b, IsNotOf(n, b, a)
  PROVE  /\ b \in Live(n) /\ 1 \in DOMAIN n.ins[b]
         /\ a = n.ins[b][1] /\ a \in LiveTerminals(n)
<1>1. b \in Live(n)
  BY DEF IsNotOf, Live
<1>2. Len(n.ins[b]) >= 1
  BY <1>1 DEF WellShaped, IsNotOf
<1> QED  BY <1>1, <1>2, LiveInputs DEF IsNotOf

LEMMA EqualPairs ==
  ASSUME NEW n, NEW m, NEW g, m.kind[g] = n.kind[g], Len(m.ins[g]) = Len(n.ins[g])
  PROVE  PairsOf(m, g) = PairsOf(n, g)
BY DEF PairsOf, LogicalEnd

\* The positions of a pair are positions of inputs.
LEMMA PairPositions ==
  ASSUME NEW n, Sound(n), WellShaped(n), TablesFit(n), NEW g \in Live(n), NEW p \in PairsOf(n, g)
  PROVE  /\ p[1] \in DOMAIN n.ins[g] /\ p[2] \in DOMAIN n.ins[g]
         /\ n.kind[g] \in {"mux", "tri", "lookup"}
<1>1. DOMAIN n.ins[g] = 1 .. Len(n.ins[g]) /\ Len(n.ins[g]) \in Nat
  BY LiveInputs
<1>2. CASE n.kind[g] \in {"mux", "tri"}
  <2>1. p = <<1, 2>>
    BY <1>2 DEF PairsOf
  <2>2. Len(n.ins[g]) >= 3
    BY <1>1, <1>2 DEF WellShaped
  <2> QED  BY <1>1, <1>2, <2>1, <2>2
<1>3. CASE n.kind[g] = "lookup"
  <2>1. Len(n.ins[g]) \in {0, 2, 4}
    BY <1>3 DEF TablesFit, TableShape
  <2>2. PICK i \in 1 .. LogicalEnd(n, g) : p = <<i, i + LogicalEnd(n, g)>>
    BY <1>3 DEF PairsOf
  <2>3. LogicalEnd(n, g) = Len(n.ins[g]) \div 2
    BY <1>3 DEF LogicalEnd
  <2>4. \/ LogicalEnd(n, g) = 0 /\ Len(n.ins[g]) = 0
        \/ LogicalEnd(n, g) = 1 /\ Len(n.ins[g]) = 2
        \/ LogicalEnd(n, g) = 2 /\ Len(n.ins[g]) = 4
    <3>1. 0 \div 2 = 0 /\ 2 \div 2 = 1 /\ 4 \div 2 = 2
      OBVIOUS
    <3> QED  BY <2>1, <2>3, <3>1
  <2>5. p[1] = i /\ p[2] = i + LogicalEnd(n, g)
    BY <2>2
  <2>6. i \in 1 .. Len(n.ins[g]) /\ i + LogicalEnd(n, g) \in 1 .. Len(n.ins[g])
    <3> DEFINE half == LogicalEnd(n, g)
               len == Len(n.ins[g])
    <3>1. i \in 1 .. half
      BY <2>2
    <3>2. <<half, len>> \in {<<0, 0>>, <<1, 2>>, <<2, 4>>}
      BY <2>4
    <3> HIDE DEF half, len
    <3>3. i \in 1 .. len /\ i + half \in 1 .. len
      BY <3>1, <3>2
    <3> QED  BY <3>3 DEF half, len
  <2> QED  BY <1>1, <1>3, <2>5, <2>6
<1>4. n.kind[g] \in {"mux", "tri", "lookup"}
  BY DEF PairsOf
<1> QED  BY <1>2, <1>3, <1>4

\* A network stays one for the rewrites if r is the opposite of what a NOT g has read.
LEMMA ReplaceFoldable ==
  ASSUME NEW n, Foldable(n), NEW g \in Live(n), NEW r \in LiveTerminals(n), r # g,
         r \in Gates /\ n.kind[r] = "tri" => n.kind[g] = "tri",
         n.kind[g] = "not" =>
           Opposite(ReplaceAllUsesWith(n, g, r), Instead(g, r, n.ins[g][1]), r)
  PROVE  Foldable(ReplaceAllUsesWith(n, g, r))
<1> DEFINE m == ReplaceAllUsesWith(n, g, r)
<1>1. Sound(n) /\ WellShaped(n) /\ Paired(n) /\ NoBufferRead(n) /\ TablesFit(n)
  BY SoundIsWellFormed DEF Foldable
<1>2. /\ Sound(m) /\ Live(m) = Live(n) /\ LiveTerminals(m) = LiveTerminals(n)
      /\ m.kind = n.kind /\ m.lut = n.lut
      /\ \A u \in Users : /\ DOMAIN m.ins[u] = DOMAIN n.ins[u]
                          /\ \A i \in DOMAIN n.ins[u] :
                               m.ins[u][i] = Instead(g, r, n.ins[u][i])
  BY <1>1, ReplacedFields
<1>3. g \in Gates /\ g # Low /\ g # High
  BY <1>1, LiveFacts, TerminalsApart DEF Sound
<1>4. n.kind[g] = "not" => Opposite(m, Instead(g, r, n.ins[g][1]), r)
  OBVIOUS
<1> HIDE DEF m
<1>5. \A u \in Live(n) : u \in Users /\ Len(m.ins[u]) = Len(n.ins[u])
  <2> TAKE u \in Live(n)
  <2>1. u \in Users /\ DOMAIN n.ins[u] = 1 .. Len(n.ins[u]) /\ Len(n.ins[u]) \in Nat
    BY <1>1, LiveInputs, TerminalsApart
  <2>2. DOMAIN m.ins[u] = 1 .. Len(m.ins[u]) /\ Len(m.ins[u]) \in Nat
    BY <1>2, LiveInputs
  <2>3. 1 .. Len(m.ins[u]) = 1 .. Len(n.ins[u])
    BY <1>2, <2>1, <2>2
  <2> QED  BY <2>1, <2>2, <2>3
<1>6. WellShaped(m)
  BY <1>1, <1>2, <1>5 DEF WellShaped
<1>7. TablesFit(m)
  BY <1>1, <1>2, <1>5 DEF TablesFit, TableShape
<1>8. NoBufferRead(m)
  <2> SUFFICES ASSUME NEW u \in Live(n), NEW i \in DOMAIN n.ins[u], m.ins[u][i] \in Gates
               PROVE  n.kind[m.ins[u][i]] # "tri"
    BY <1>2, <1>5 DEF NoBufferRead, InputsOf
  <2>1. m.ins[u][i] = Instead(g, r, n.ins[u][i])
    BY <1>2, <1>5
  <2>2. n.ins[u][i] \in Gates => n.kind[n.ins[u][i]] # "tri"
    BY <1>1 DEF NoBufferRead, InputsOf
  <2> QED  BY <1>3, <2>1, <2>2 DEF Instead
<1>9. ASSUME NEW a, NEW b, IsNotOf(n, b, a)
      PROVE  Opposite(m, Instead(g, r, a), Instead(g, r, b))
  <2>1. b \in Live(n) /\ b \in Gates /\ n.kind[b] = "not" /\ 1 \in DOMAIN n.ins[b] /\ a = n.ins[b][1]
    BY <1>1, <1>9, NotHasInput DEF IsNotOf
  <2>2. CASE b = g
    BY <1>4, <2>1, <2>2 DEF Instead
  <2>3. CASE b # g
    <3>1. Instead(g, r, b) = b /\ m.ins[b][1] = Instead(g, r, a)
      BY <1>2, <1>5, <2>1, <2>3 DEF Instead
    <3> QED  BY <1>2, <2>1, <3>1 DEF Opposite, IsNotOf
  <2> QED  BY <2>2, <2>3
<1>10. ASSUME NEW a, NEW b, Opposite(n, a, b)
       PROVE  Opposite(m, Instead(g, r, a), Instead(g, r, b))
  <2>1. CASE IsNotOf(n, a, b)
    BY <1>9, <2>1, OppositeBothWays
  <2>2. CASE IsNotOf(n, b, a)
    BY <1>9, <2>2
  <2>3. CASE <<a, b>> \in {<<Low, High>>, <<High, Low>>}
    BY <1>3, <2>3 DEF Instead, Opposite
  <2> QED  BY <1>10, <2>1, <2>2, <2>3 DEF Opposite
<1>11. Paired(m)
  <2> SUFFICES ASSUME NEW u \in Live(n), NEW p \in PairsOf(m, u)
               PROVE  Opposite(m, m.ins[u][p[1]], m.ins[u][p[2]])
    BY <1>2 DEF Paired
  <2>1. PairsOf(m, u) = PairsOf(n, u)
    BY <1>2, <1>5, EqualPairs
  <2>2. p[1] \in DOMAIN n.ins[u] /\ p[2] \in DOMAIN n.ins[u]
    BY <1>1, <2>1, PairPositions
  <2>3. Opposite(n, n.ins[u][p[1]], n.ins[u][p[2]])
    BY <1>1, <2>1 DEF Paired
  <2> QED  BY <1>2, <1>5, <1>10, <2>2, <2>3
<1>12. Foldable(m)
  BY <1>2, <1>6, <1>7, <1>8, <1>11, SoundIsWellFormed DEF Foldable
<1> QED  BY <1>12 DEF m

----------------------------------------------------------------------------
(* New gates.                                                               *)

\* m is n with one gate more, h, which nothing reads.
HasMore(n, m, h) ==
  /\ h \in Gates /\ h \notin Live(n) /\ Live(m) = Live(n) \cup {h} /\ m.outs = n.outs
  /\ \A u \in Live(n) : m.kind[u] = n.kind[u] /\ m.ins[u] = n.ins[u] /\ m.lut[u] = n.lut[u]
  /\ m.ins[Sink] = n.ins[Sink]

LEMMA MoreShowsSame ==
  ASSUME NEW n, Sound(n), NEW m, Sound(m), WellShaped(m), NEW h, HasMore(n, m, h),
         \A i \in DOMAIN m.ins[h] : m.ins[h][i] \in LiveTerminals(n)
  PROVE  Behaviour(m) = Behaviour(n)
<1> USE DEF HasMore
<1>1. h \in Terminals /\ h \notin LiveTerminals(n) /\ h # Low /\ h # High /\ h \notin Inputs
  BY TerminalsApart DEF LiveTerminals
<1>2. ASSUME NEW st, NEW v, \A t \in LiveTerminals(n) : st[t] = v[t], NEW u \in Live(n)
      PROVE  ComputeValue(m, st, u) = ComputeValue(n, v, u)
  <2>1. \A i \in DOMAIN n.ins[u] : n.ins[u][i] \in LiveTerminals(n)
    BY LiveInputs
  <2>2. Read(m, st, u) = Read(n, v, u)
    BY <1>2, <2>1 DEF Read
  <2> QED  BY <2>2, EqualValues
<1>3. ASSUME NEW st, NEW v, \A t \in LiveTerminals(n) : st[t] = v[t]
       PROVE  Shows(m, st) = Shows(n, v)
  <2>1. Inputs \in SUBSET LiveTerminals(n)
    BY DEF LiveTerminals
  <2>2. \A o \in 1 .. n.outs : st[n.ins[Sink][o]] = v[n.ins[Sink][o]]
    BY <1>3, SinkInputs
  <2>3. [i \in Inputs |-> st[i]] = [i \in Inputs |-> v[i]]
    BY <1>3, <2>1
  <2>4. [o \in 1 .. m.outs |-> st[m.ins[Sink][o]]] = [o \in 1 .. n.outs |-> v[n.ins[Sink][o]]]
    BY <2>2
  <2> QED  BY <2>3, <2>4, Zenon DEF Shows
<1>4. ASSUME NEW st, Consistent(n, st)
       PROVE  \E v : Consistent(m, v) /\ Shows(m, v) = Shows(n, st)
  <2> DEFINE v == [st EXCEPT ![h] = ComputeValue(m, st, h)]
  <2>1. Valuation(st) /\ st \in [Terminals -> Known]
    BY <1>4 DEF Consistent, Valuation
  <2>2. ComputeValue(m, st, h) \in Known
    BY <2>1, ValueTypes
  <2>3. /\ v \in [Terminals -> Known] /\ v[h] = ComputeValue(m, st, h)
        /\ \A t \in Terminals \ {h} : v[t] = st[t]
    BY <1>1, <2>1, <2>2
  <2> HIDE DEF v
  <2>4. \A t \in LiveTerminals(n) : v[t] = st[t]
    BY <1>1, <2>3, LiveFacts DEF Sound
  <2>5. Valuation(v)
    <3>1. Low \in LiveTerminals(n) /\ High \in LiveTerminals(n) /\ Inputs \in SUBSET LiveTerminals(n)
      BY DEF LiveTerminals
    <3> QED  BY <2>1, <2>3, <2>4, <3>1 DEF Valuation
  <2>6. ComputeValue(m, v, h) = ComputeValue(m, st, h)
    <3>1. \A i \in DOMAIN m.ins[h] : v[m.ins[h][i]] = st[m.ins[h][i]]
      BY <2>4
    <3>2. Read(m, v, h) = Read(m, st, h)
      BY <3>1 DEF Read
    <3> QED  BY <3>2, EqualValues
  <2>7. \A u \in Live(n) : v[u] = ComputeValue(m, v, u)
    <3> TAKE u \in Live(n)
    <3>1. v[u] = st[u] /\ st[u] = ComputeValue(n, st, u)
      BY <1>4, <2>4 DEF Consistent, LiveTerminals
    <3>2. ComputeValue(m, v, u) = ComputeValue(n, st, u)
      BY <1>2, <2>4
    <3> QED  BY <3>1, <3>2
  <2>8. Consistent(m, v)
    BY <2>3, <2>5, <2>6, <2>7 DEF Consistent
  <2> QED  BY <1>3, <2>4, <2>8
<1>5. ASSUME NEW st, Consistent(m, st)
       PROVE  Consistent(n, st) /\ Shows(n, st) = Shows(m, st)
  <2>1. \A u \in Live(n) : st[u] = ComputeValue(n, st, u)
    BY <1>2, <1>5 DEF Consistent
  <2> QED  BY <1>3, <1>5, <2>1 DEF Consistent
<1> QED  BY <1>4, <1>5, SameBehaviour

\* The network with one gate more, h, which reads s.
Adds(n, m, h, k, s) ==
  /\ h \in Gates /\ h \notin Live(n) /\ Live(m) = Live(n) \cup {h}
  /\ m.size = n.size + 1 /\ m.outs = n.outs
  /\ m.kind[h] = k /\ m.ins[h] = s
  /\ \A u \in Live(n) : m.kind[u] = n.kind[u] /\ m.ins[u] = n.ins[u] /\ m.lut[u] = n.lut[u]
  /\ m.ins[Sink] = n.ins[Sink]
  /\ LiveTerminals(n) \in SUBSET LiveTerminals(m) /\ h \in LiveTerminals(m)

LEMMA NewGateAdds ==
  ASSUME NEW n, Sound(n), n.size < MaxGates, NEW k \in Kinds \ {"dead"},
         NEW s \in Seq(LiveTerminals(n))
  PROVE  LET b == NewGate(n, k, s)
         IN  Sound(b.net) /\ Adds(n, b.net, b.out, k, s)
<1> DEFINE h == NextGate(n)
           l == << >>
           m == AddLookup(n, k, s, l)
<1>1. NewGate(n, k, s).net = m /\ NewGate(n, k, s).out = h
  BY DEF NewGate, AddGate
<1>2. l \in Seq(BOOLEAN)
  OBVIOUS
<1> HIDE DEF l
<1>3. /\ Sound(m)
      /\ m.size = n.size + 1 /\ m.outs = n.outs
      /\ Live(m) = Live(n) \cup {h}
      /\ h \in Gates /\ n.kind[h] = "dead"
      /\ m.ins[h] = s
      /\ \A u \in Gates : u # h => m.kind[u] = n.kind[u] /\ m.ins[u] = n.ins[u]
  BY <1>2, AddLookupSound
<1>4. /\ m.kind = [n.kind EXCEPT ![h] = k]
      /\ m.lut = [n.lut EXCEPT ![h] = l]
      /\ m.ins = [n.ins EXCEPT ![h] = s]
  BY NetFields DEF Sound, AddLookup, Reregister
<1>5. h \notin Live(n) /\ \A u \in Live(n) : u \in Gates /\ u # h
  BY <1>3 DEF Live
<1>6. m.kind[h] = k /\ \A u \in Live(n) : m.lut[u] = n.lut[u]
  BY <1>3, <1>4, <1>5, NetFields DEF Sound
<1>7. m.ins[Sink] = n.ins[Sink]
  BY <1>3, <1>4, TerminalsApart, NetFields DEF Sound
<1> HIDE DEF m, h
<1>8. LiveTerminals(n) \in SUBSET LiveTerminals(m) /\ h \in LiveTerminals(m)
  BY <1>3 DEF LiveTerminals
<1> QED  BY <1>1, <1>3, <1>5, <1>6, <1>7, <1>8 DEF Adds

LEMMA AddFoldable ==
  ASSUME NEW n, Foldable(n), NEW m, Sound(m), NEW h, NEW k \in {"not", "nand", "nor"},
         NEW s \in Seq(LiveTerminals(n)), Adds(n, m, h, k, s),
         k = "not" => Len(s) = 1,
         \A i \in DOMAIN s : s[i] \in Gates => n.kind[s[i]] # "tri"
  PROVE  Foldable(m) /\ Behaviour(m) = Behaviour(n)
<1> USE DEF Adds
<1>1. Sound(n) /\ WellShaped(n) /\ Paired(n) /\ NoBufferRead(n) /\ TablesFit(n)
  BY SoundIsWellFormed DEF Foldable
<1>2. WellShaped(m) /\ TablesFit(m)
  BY <1>1 DEF WellShaped, TablesFit
<1>3. NoBufferRead(m)
  <2> SUFFICES ASSUME NEW u \in Live(m), NEW i \in DOMAIN m.ins[u], m.ins[u][i] \in Gates
               PROVE  m.kind[m.ins[u][i]] # "tri"
    BY DEF NoBufferRead, InputsOf
  <2>1. \A t \in LiveTerminals(n) : t \in Gates => t \in Live(n)
    BY TerminalsApart DEF LiveTerminals
  <2>2. CASE u = h
    BY <2>1, <2>2
  <2>3. CASE u # h
    <3>1. u \in Live(n) /\ n.ins[u][i] \in LiveTerminals(n) /\ n.kind[n.ins[u][i]] # "tri"
      BY <1>1, <2>3, LiveInputs DEF NoBufferRead, InputsOf
    <3> QED  BY <2>1, <3>1
  <2> QED  BY <2>2, <2>3
<1>4. ASSUME NEW a, NEW b, IsNotOf(n, b, a)  PROVE IsNotOf(m, b, a)
  BY <1>1, <1>4, NotHasInput DEF IsNotOf
<1>5. ASSUME NEW a, NEW b, Opposite(n, a, b)  PROVE Opposite(m, a, b)
  BY <1>4, <1>5 DEF Opposite
<1>6. Paired(m)
  <2> SUFFICES ASSUME NEW u \in Live(m), NEW p \in PairsOf(m, u)
               PROVE  Opposite(m, m.ins[u][p[1]], m.ins[u][p[2]])
    BY DEF Paired
  <2>1. u # h
    BY DEF PairsOf
  <2>2. u \in Live(n) /\ m.kind[u] = n.kind[u] /\ m.ins[u] = n.ins[u]
    BY <2>1
  <2>3. PairsOf(m, u) = PairsOf(n, u)
    BY <2>2, EqualPairs
  <2> QED  BY <1>1, <1>5, <2>2, <2>3 DEF Paired
<1>7. Foldable(m)
  BY <1>2, <1>3, <1>6, SoundIsWellFormed DEF Foldable
<1>8. HasMore(n, m, h) /\ \A i \in DOMAIN m.ins[h] : m.ins[h][i] \in LiveTerminals(n)
  BY DEF HasMore
<1>9. Behaviour(m) = Behaviour(n)
  BY <1>1, <1>2, <1>8, MoreShowsSame
<1> QED  BY <1>7, <1>9

----------------------------------------------------------------------------
(* The folds.                                                               *)

\* The reading of gate h in a state in which it reads levels.
ReadsLevels(n, st, h) ==
  /\ DOMAIN n.ins[h] = 1 .. Len(n.ins[h]) /\ Len(n.ins[h]) \in Nat
  /\ DOMAIN Read(n, st, h) = DOMAIN n.ins[h]
  /\ \A i \in DOMAIN n.ins[h] : st[n.ins[h][i]] \in Levels /\ Read(n, st, h)[i] = st[n.ins[h][i]]

LEMMA LevelsRead ==
  ASSUME NEW n, Sound(n), WellShaped(n), NoBufferRead(n), NEW g, NEW st, ConsistentBut(n, st, g),
         NEW h \in Live(n)
  PROVE  ReadsLevels(n, st, h)
<1>1. DOMAIN n.ins[h] = 1 .. Len(n.ins[h]) /\ Len(n.ins[h]) \in Nat
  BY LiveInputs
<1>2. DOMAIN Read(n, st, h) = DOMAIN n.ins[h]
  BY DEF Read
<1>3. \A i \in DOMAIN n.ins[h] : st[n.ins[h][i]] \in Levels /\ Read(n, st, h)[i] = st[n.ins[h][i]]
  BY ReadPlain
<1> QED  BY <1>1, <1>2, <1>3 DEF ReadsLevels

LEMMA NotValue ==
  ASSUME NEW n, WellShaped(n), NEW h \in Live(n), NEW st, ReadsLevels(n, st, h),
         n.kind[h] = "not"
  PROVE  /\ ComputeValue(n, st, h) = Flip(st[n.ins[h][1]])
         /\ st[n.ins[h][1]] \in Levels /\ 1 \in DOMAIN n.ins[h]
<1>1. 1 \in DOMAIN n.ins[h]
  BY DEF WellShaped, ReadsLevels
<1>2. ComputeValue(n, st, h) = Flip(Read(n, st, h)[1])
  BY DEF ComputeValue
<1> QED  BY <1>1, <1>2 DEF ReadsLevels

LEMMA NandValue ==
  ASSUME NEW n, NEW h, NEW st, ReadsLevels(n, st, h), n.kind[h] = "nand"
  PROVE  ComputeValue(n, st, h) =
           IF \E i \in DOMAIN n.ins[h] : st[n.ins[h][i]] = "low" THEN "high" ELSE "low"
<1> DEFINE read == Read(n, st, h)
<1>1. ComputeValue(n, st, h) = Decide(read, "low", "high")
  BY DEF ComputeValue
<1>2. /\ DOMAIN read = DOMAIN n.ins[h]
      /\ \A i \in DOMAIN n.ins[h] : st[n.ins[h][i]] \in Levels /\ read[i] = st[n.ins[h][i]]
  BY DEF ReadsLevels
<1> HIDE DEF read
<1> QED  BY <1>1, <1>2 DEF Decide, Flip, Levels

LEMMA NorValue ==
  ASSUME NEW n, NEW h, NEW st, ReadsLevels(n, st, h), n.kind[h] = "nor"
  PROVE  ComputeValue(n, st, h) =
           IF \E i \in DOMAIN n.ins[h] : st[n.ins[h][i]] = "high" THEN "low" ELSE "high"
<1> DEFINE read == Read(n, st, h)
<1>1. ComputeValue(n, st, h) = Decide(read, "high", "low")
  BY DEF ComputeValue
<1>2. /\ DOMAIN read = DOMAIN n.ins[h]
      /\ \A i \in DOMAIN n.ins[h] : st[n.ins[h][i]] \in Levels /\ read[i] = st[n.ins[h][i]]
  BY DEF ReadsLevels
<1> HIDE DEF read
<1> QED  BY <1>1, <1>2 DEF Decide, Flip, Levels

LEMMA TriValue ==
  ASSUME NEW n, WellShaped(n), NEW h \in Live(n), NEW st, ReadsLevels(n, st, h),
         n.kind[h] = "tri"
  PROVE  ComputeValue(n, st, h) = IF st[n.ins[h][1]] = "high" THEN st[n.ins[h][3]] ELSE "z"
<1>1. 1 \in DOMAIN n.ins[h] /\ 3 \in DOMAIN n.ins[h]
  BY DEF WellShaped, ReadsLevels
<1>2. ComputeValue(n, st, h) = Switch(Read(n, st, h)[1], Read(n, st, h)[3], "z")
  BY DEF ComputeValue
<1>3. ComputeValue(n, st, h) = Switch(st[n.ins[h][1]], st[n.ins[h][3]], "z")
  BY <1>1, <1>2 DEF ReadsLevels
<1> QED  BY <1>1, <1>3 DEF ReadsLevels, Switch, Levels

LEMMA MuxValue ==
  ASSUME NEW n, WellShaped(n), NEW h \in Live(n), NEW st, ReadsLevels(n, st, h),
         n.kind[h] = "mux"
  PROVE  ComputeValue(n, st, h) =
           IF st[n.ins[h][1]] = "high" THEN st[n.ins[h][3]] ELSE st[n.ins[h][4]]
<1> DEFINE read == Read(n, st, h)
<1>1. 1 \in DOMAIN n.ins[h] /\ 3 \in DOMAIN n.ins[h] /\ 4 \in DOMAIN n.ins[h]
  BY DEF WellShaped, ReadsLevels
<1>2. ComputeValue(n, st, h) = IF read[3] = read[4] THEN read[3]
                               ELSE Switch(read[1], read[3], read[4])
  BY DEF ComputeValue
<1>3. /\ read[1] = st[n.ins[h][1]] /\ read[3] = st[n.ins[h][3]] /\ read[4] = st[n.ins[h][4]]
      /\ st[n.ins[h][1]] \in Levels
  BY <1>1 DEF ReadsLevels
<1> HIDE DEF read
<1> QED  BY <1>2, <1>3 DEF Switch, Levels

\* The row of a lookup's table that the state selects.
Selects(n, st, h, r) ==
  \A i \in 1 .. Len(n.ins[h]) \div 2 : Bit(r - 1, i) = 1 <=> st[n.ins[h][i]] = "high"

LEMMA LookupValue ==
  ASSUME NEW n, NEW h, NEW st, ReadsLevels(n, st, h), n.kind[h] = "lookup"
  PROVE  ComputeValue(n, st, h) =
           FromBool(\E r \in DOMAIN n.lut[h] : n.lut[h][r] /\ Selects(n, st, h, r))
<1> DEFINE read == Read(n, st, h)
           in == n.ins[h]
           half == Len(in) \div 2
<1>1. ComputeValue(n, st, h) = LookUp(n.lut[h], read)
  BY DEF ComputeValue
<1>2. DOMAIN in = 1 .. Len(in) /\ Len(in) \in Nat /\ DOMAIN read = DOMAIN in
  BY DEF ReadsLevels
<1>3. Len(read) = Len(in)
  BY <1>2 DEF Read
<1>4. \A i \in DOMAIN in : st[in[i]] \in Levels /\ read[i] = st[in[i]]
  BY DEF ReadsLevels
<1>5. \A i \in 1 .. half : i \in DOMAIN in
  <2>1. half \in 0 .. Len(in)
    <3> DEFINE len == Len(in)
    <3>1. len \in Nat
      BY <1>2
    <3> HIDE DEF len
    <3>2. len \div 2 \in 0 .. len
      BY <3>1
    <3> QED  BY <3>2 DEF len
  <2> HIDE DEF half
  <2> QED  BY <1>2, <2>1
<1>6. ~ \E i \in DOMAIN read : read[i] = "none"
  BY <1>2, <1>4 DEF Levels
<1>7. LookUp(n.lut[h], read) =
        FromBool(\E r \in DOMAIN n.lut[h] :
          n.lut[h][r] /\ \A i \in 1 .. half : Bit(r - 1, i) = 1 <=> read[i] = "high")
  BY <1>3, <1>6 DEF LookUp
<1>8. \A r : Selects(n, st, h, r)
        <=> \A i \in 1 .. half : Bit(r - 1, i) = 1 <=> read[i] = "high"
  <2> HIDE DEF read
  <2> TAKE r
  <2>1. Selects(n, st, h, r) <=>
          \A i \in 1 .. half : Bit(r - 1, i) = 1 <=> st[in[i]] = "high"
    BY Zenon DEF Selects
  <2> HIDE DEF half, in
  <2> QED  BY <1>4, <1>5, <2>1, Zenon
<1> HIDE DEF read, half
<1> QED  BY <1>1, <1>7, <1>8, Zenon

\* A pair read by a gate has two values, where no NOT is left out.
LEMMA OppositeValues ==
  ASSUME NEW n, Sound(n), WellShaped(n), NoBufferRead(n), NEW g, NEW st, ConsistentBut(n, st, g),
         g \in Gates => n.kind[g] # "not", NEW a, NEW b, Opposite(n, a, b)
  PROVE  st[a] \in Levels /\ st[b] \in Levels /\ st[a] # st[b]
<1>1. ASSUME NEW x, NEW y, IsNotOf(n, y, x)
      PROVE  st[x] \in Levels /\ st[y] \in Levels /\ st[x] # st[y]
  <2>1. y \in Live(n) /\ y \in Gates /\ n.kind[y] = "not" /\ x = n.ins[y][1] /\ y # g
    BY <1>1, NotHasInput DEF IsNotOf
  <2>2. st[y] = Flip(st[x]) /\ st[x] \in Levels
    BY <2>1, LevelsRead, NotValue DEF ConsistentBut
  <2> QED  BY <2>2 DEF Flip, Levels
<1>2. st[Low] = "low" /\ st[High] = "high"
  BY DEF ConsistentBut, Valuation
<1> QED  BY <1>1, <1>2 DEF Opposite, Levels

\* The inputs that a network reads.
BitsRead(n) == {t \in Inputs : \E u \in Users : \E i \in DOMAIN n.ins[u] : n.ins[u][i] = t}

\* What a visit promises of the network that it leaves.
Keeps(n, m) ==
  Foldable(m) /\ Behaviour(m) = Behaviour(n) /\ BitsRead(m) \in SUBSET BitsRead(n)

\* An input of a gate is an input of the network that is read.
LEMMA BitRead ==
  ASSUME NEW n, Sound(n), NEW g \in Live(n), NEW i \in DOMAIN n.ins[g], n.ins[g][i] \in Inputs
  PROVE  n.ins[g][i] \in BitsRead(n)
<1>1. g \in Users
  BY LiveFacts, TerminalsApart DEF Sound
<1> QED  BY <1>1 DEF BitsRead

LEMMA ReplacedBits ==
  ASSUME NEW n, Sound(n), NEW g \in Live(n), NEW r \in LiveTerminals(n), r # g,
         r \in Inputs => r \in BitsRead(n)
  PROVE  BitsRead(ReplaceAllUsesWith(n, g, r)) \in SUBSET BitsRead(n)
<1> DEFINE m == ReplaceAllUsesWith(n, g, r)
<1>1. \A u \in Users : /\ DOMAIN m.ins[u] = DOMAIN n.ins[u]
                       /\ \A i \in DOMAIN n.ins[u] : m.ins[u][i] = Instead(g, r, n.ins[u][i])
  BY ReplacedFields
<1> HIDE DEF m
<1>2. \A t \in BitsRead(m) : t \in BitsRead(n)
  BY <1>1 DEF BitsRead, Instead
<1> QED  BY <1>2 DEF m

\* The reading of Rewritten: r may be g itself.
LEMMA RewriteKeeps ==
  ASSUME NEW n, Foldable(n), NEW g \in Live(n), NEW r \in LiveTerminals(n),
         r \in Inputs => r \in BitsRead(n),
         r # g => /\ r \in Gates /\ n.kind[r] = "tri" => n.kind[g] = "tri"
                  /\ n.kind[g] = "not" =>
                       Opposite(ReplaceAllUsesWith(n, g, r), Instead(g, r, n.ins[g][1]), r)
                  /\ \A st : ConsistentBut(n, st, g) => ComputeValue(n, st, g) = st[r]
  PROVE  Keeps(n, Rewritten(n, g, r).net)
<1>1. Rewritten(n, g, r).net = ReplaceAllUsesWith(n, g, r)
  BY DEF Rewritten
<1>2. CASE r = g
  <2>1. ReplaceAllUsesWith(n, g, r) = n
    BY <1>2 DEF ReplaceAllUsesWith, ReplaceUsesExcept
  <2> QED  BY <1>1, <2>1 DEF Keeps
<1>3. CASE r # g
  <2>1. Foldable(ReplaceAllUsesWith(n, g, r))
    BY <1>3, ReplaceFoldable
  <2>2. Sound(n) /\ WellShaped(n) /\ WellShaped(ReplaceAllUsesWith(n, g, r))
    BY <2>1, SoundIsWellFormed DEF Foldable
  <2>3. Replaces(n, g, r)
    BY <1>3 DEF Replaces
  <2>4. Behaviour(ReplaceAllUsesWith(n, g, r)) = Behaviour(n)
    BY <2>2, <2>3, ReplaceKeeps
  <2>5. BitsRead(ReplaceAllUsesWith(n, g, r)) \in SUBSET BitsRead(n)
    BY <1>3, <2>2, ReplacedBits
  <2> QED  BY <1>1, <2>1, <2>4, <2>5 DEF Keeps
<1> QED  BY <1>2, <1>3

\* The input of a NOT that g reads.
LEMMA SkippedNot ==
  ASSUME NEW n, Foldable(n), NEW g \in Live(n), NEW i \in DOMAIN n.ins[g], SkipNot(n, g, i) # Null
  PROVE  LET h == n.ins[g][i]
             x == SkipNot(n, g, i)
         IN  /\ h \in Live(n) /\ h \in Gates /\ n.kind[h] = "not"
             /\ 1 \in DOMAIN n.ins[h] /\ x = n.ins[h][1]
             /\ x \in LiveTerminals(n) /\ (x \in Gates => n.kind[x] # "tri")
<1> DEFINE h == n.ins[g][i]
<1>1. Sound(n) /\ WellShaped(n) /\ NoBufferRead(n)
  BY SoundIsWellFormed DEF Foldable
<1>2. h \in Gates /\ n.kind[h] = "not" /\ SkipNot(n, g, i) = n.ins[h][1]
  BY DEF SkipNot
<1>3. IsNotOf(n, h, n.ins[h][1])
  BY <1>2 DEF IsNotOf
<1>4. h \in Live(n) /\ 1 \in DOMAIN n.ins[h] /\ n.ins[h][1] \in LiveTerminals(n)
  BY <1>1, <1>3, NotHasInput
<1>5. n.ins[h][1] \in Gates => n.kind[n.ins[h][1]] # "tri"
  BY <1>1, <1>4 DEF NoBufferRead, InputsOf
<1> QED  BY <1>2, <1>4, <1>5

LEMMA FoldNotKeeps ==
  ASSUME NEW n, Foldable(n), NEW g \in Live(n), n.kind[g] = "not"
  PROVE  Keeps(n, FoldNot(n, g).net)
<1>1. Sound(n) /\ WellShaped(n) /\ NoBufferRead(n)
  BY SoundIsWellFormed DEF Foldable
<1>2. 1 \in DOMAIN n.ins[g] /\ g \in Gates /\ g # Low /\ g # High
  BY <1>1, LiveInputs, TerminalsApart DEF WellShaped
<1>3. \A st : ConsistentBut(n, st, g) =>
        /\ ComputeValue(n, st, g) = Flip(st[n.ins[g][1]]) /\ st[n.ins[g][1]] \in Levels
        /\ st[Low] = "low" /\ st[High] = "high"
  BY <1>1, LevelsRead, NotValue DEF ConsistentBut, Valuation
<1>4. /\ Low \in LiveTerminals(n) /\ Low \notin Gates /\ Low \notin Inputs
      /\ High \in LiveTerminals(n) /\ High \notin Gates /\ High \notin Inputs
  BY TerminalsApart DEF LiveTerminals
<1>5. CASE SkipNot(n, g, 1) # Null
  <2> DEFINE h == n.ins[g][1]
             x == SkipNot(n, g, 1)
             m == ReplaceAllUsesWith(n, g, x)
  <2>1. /\ h \in Live(n) /\ h \in Gates /\ n.kind[h] = "not" /\ 1 \in DOMAIN n.ins[h]
        /\ x = n.ins[h][1] /\ x \in LiveTerminals(n) /\ (x \in Gates => n.kind[x] # "tri")
    BY <1>2, <1>5, SkippedNot
  <2>2. FoldNot(n, g) = Rewritten(n, g, x)
    <3>1. n.ins[g][1] # Low /\ n.ins[g][1] # High
      BY <2>1, TerminalsApart
    <3> QED  BY <1>5, <3>1 DEF FoldNot
  <2> HIDE DEF x
  <2>3. ASSUME x # g  PROVE Opposite(m, Instead(g, x, h), x)
    <3>1. h # g
      BY <2>1, <2>3
    <3>2. m.ins[h][1] = x /\ m.kind = n.kind
      BY <1>1, <2>1, <2>3, ReplacedFields, TerminalsApart DEF Instead
    <3> QED  BY <2>1, <3>1, <3>2 DEF Opposite, IsNotOf, Instead
  <2>4. ASSUME x # g, NEW st, ConsistentBut(n, st, g)
        PROVE  ComputeValue(n, st, g) = st[x]
    <3>1. h # g
      BY <2>1, <2>4
    <3>2. st[h] = Flip(st[x]) /\ st[x] \in Levels
      BY <1>1, <2>1, <2>4, <3>1, LevelsRead, NotValue DEF ConsistentBut
    <3> QED  BY <1>3, <2>4, <3>2 DEF Flip, Levels
  <2>5. x \in Inputs => x \in BitsRead(n)
    BY <1>1, <2>1, BitRead
  <2> QED  BY <2>1, <2>2, <2>3, <2>4, <2>5, RewriteKeeps
<1>6. CASE SkipNot(n, g, 1) = Null /\ n.ins[g][1] = Low
  <2>1. FoldNot(n, g) = Rewritten(n, g, High)
    BY <1>6 DEF FoldNot
  <2>2. \A m : Opposite(m, Instead(g, High, Low), High)
    BY <1>2 DEF Opposite, Instead
  <2>3. \A st : ConsistentBut(n, st, g) => ComputeValue(n, st, g) = st[High]
    BY <1>3, <1>6 DEF Flip
  <2> QED  BY <1>4, <1>6, <2>1, <2>2, <2>3, RewriteKeeps
<1>7. CASE SkipNot(n, g, 1) = Null /\ n.ins[g][1] = High
  <2>1. FoldNot(n, g) = Rewritten(n, g, Low)
    BY <1>7, TerminalsApart DEF FoldNot
  <2>2. \A m : Opposite(m, Instead(g, Low, High), Low)
    BY <1>2 DEF Opposite, Instead
  <2>3. \A st : ConsistentBut(n, st, g) => ComputeValue(n, st, g) = st[Low]
    BY <1>3, <1>7 DEF Flip
  <2> QED  BY <1>4, <1>7, <2>1, <2>2, <2>3, RewriteKeeps
<1>8. CASE SkipNot(n, g, 1) = Null /\ n.ins[g][1] # Low /\ n.ins[g][1] # High
  <2>1. FoldNot(n, g).net = n
    BY <1>8 DEF FoldNot, Unchanged
  <2> QED  BY <2>1 DEF Keeps
<1> QED  BY <1>5, <1>6, <1>7, <1>8

LEMMA FoldTriKeeps ==
  ASSUME NEW n, Foldable(n), NEW g \in Live(n), n.kind[g] = "tri"
  PROVE  Keeps(n, FoldTri(n, g).net)
<1>1. Sound(n) /\ WellShaped(n) /\ NoBufferRead(n)
  BY SoundIsWellFormed DEF Foldable
<1>2. 3 \in DOMAIN n.ins[g] /\ n.ins[g][3] \in LiveTerminals(n)
  BY <1>1, LiveInputs DEF WellShaped
<1>3. CASE n.ins[g][1] = High
  <2>1. FoldTri(n, g) = Rewritten(n, g, n.ins[g][3])
    BY <1>3 DEF FoldTri
  <2>2. \A st : ConsistentBut(n, st, g) => ComputeValue(n, st, g) = st[n.ins[g][3]]
    BY <1>1, <1>3, LevelsRead, TriValue DEF ConsistentBut, Valuation
  <2>3. n.ins[g][3] \in Inputs => n.ins[g][3] \in BitsRead(n)
    BY <1>1, <1>2, BitRead
  <2> QED  BY <1>2, <2>1, <2>2, <2>3, RewriteKeeps
<1>4. CASE n.ins[g][1] # High
  BY <1>4 DEF FoldTri, Unchanged, Keeps
<1> QED  BY <1>3, <1>4

\* What a gate may read.
Plain(n) == {t \in LiveTerminals(n) : /\ t \in Gates => n.kind[t] # "tri"
                                      /\ t \in Inputs => t \in BitsRead(n)}

LEMMA InputsPlain ==
  ASSUME NEW n, Foldable(n), NEW g \in Live(n), NEW i \in DOMAIN n.ins[g]
  PROVE  n.ins[g][i] \in Plain(n)
<1>1. n.ins[g][i] \in LiveTerminals(n)
  BY LiveInputs, SoundIsWellFormed DEF Foldable
<1>2. n.ins[g][i] \in Inputs => n.ins[g][i] \in BitsRead(n)
  BY BitRead, SoundIsWellFormed DEF Foldable
<1> QED  BY <1>1, <1>2 DEF Foldable, NoBufferRead, InputsOf, Plain

LEMMA KeepsTrans ==
  ASSUME NEW n, NEW m, NEW p, Keeps(n, m), Keeps(m, p)
  PROVE  Keeps(n, p)
BY DEF Keeps

LEMMA NewGateKeeps ==
  ASSUME NEW n, Foldable(n), n.size < MaxGates, NEW k \in {"not", "nand", "nor"},
         NEW s \in Seq(Plain(n)), k = "not" => Len(s) = 1
  PROVE  LET b == NewGate(n, k, s)
         IN  /\ Keeps(n, b.net) /\ Adds(n, b.net, b.out, k, s)
             /\ Plain(n) \in SUBSET Plain(b.net) /\ b.out \in Plain(b.net)
<1> DEFINE b == NewGate(n, k, s)
<1>1. s \in Seq(LiveTerminals(n)) /\ k \in Kinds \ {"dead"} /\ Sound(n)
  BY SoundIsWellFormed DEF Plain, Kinds, Foldable
<1>2. Sound(b.net) /\ Adds(n, b.net, b.out, k, s)
  BY <1>1, NewGateAdds
<1> HIDE DEF b
<1>3. \A i \in DOMAIN s : s[i] \in Gates => n.kind[s[i]] # "tri"
  BY DEF Plain
<1>4. Foldable(b.net) /\ Behaviour(b.net) = Behaviour(n)
  <2> DEFINE m == b.net
             h == b.out
  <2>1. Sound(m) /\ Adds(n, m, h, k, s)
    BY <1>2
  <2> HIDE DEF m, h
  <2>2. s \in Seq(LiveTerminals(n))
    BY <1>1
  <2>3. Foldable(m) /\ Behaviour(m) = Behaviour(n)
    BY <1>3, <2>1, <2>2, AddFoldable
  <2> QED  BY <2>3 DEF m
<1>5. BitsRead(b.net) = BitsRead(n)
  <2>1. ASSUME NEW u \in Gates \ Live(n)  PROVE n.ins[u] = << >>
    BY <1>1, <2>1 DEF Live, Sound, DeadIsBare
  <2>2. ASSUME NEW u \in Gates \ Live(b.net)  PROVE b.net.ins[u] = << >>
    BY <1>2, <2>2 DEF Live, Sound, DeadIsBare
  <2>3. \A u \in Users : u = b.out \/ b.net.ins[u] = n.ins[u]
    <3> TAKE u \in Users
    <3>1. CASE u = Sink
      BY <1>2, <3>1 DEF Adds
    <3>2. CASE u \in Live(n)
      BY <1>2, <3>2 DEF Adds
    <3>3. CASE u \in Gates \ Live(n) /\ u # b.out
      BY <1>2, <2>1, <2>2, <3>3 DEF Adds
    <3> QED  BY <3>1, <3>2, <3>3 DEF Users
  <2>4. n.ins[b.out] = << >> /\ b.net.ins[b.out] = s /\ b.out \in Users
    BY <1>2, <2>1, TerminalsApart DEF Adds
  <2>5. \A i \in DOMAIN s : s[i] \in Inputs => s[i] \in BitsRead(n)
    BY DEF Plain
  <2>6. ASSUME NEW t \in BitsRead(n)  PROVE t \in BitsRead(b.net)
    BY <2>3, <2>4, <2>6 DEF BitsRead
  <2>7. ASSUME NEW t \in BitsRead(b.net)  PROVE t \in BitsRead(n)
    <3>1. PICK u \in Users : \E i \in DOMAIN b.net.ins[u] : b.net.ins[u][i] = t
      BY <2>7 DEF BitsRead
    <3>2. CASE u = b.out
      BY <2>4, <2>5, <2>7, <3>1, <3>2 DEF BitsRead
    <3>3. CASE u # b.out
      BY <2>3, <2>7, <3>1, <3>3 DEF BitsRead
    <3> QED  BY <3>2, <3>3
  <2> QED  BY <2>6, <2>7
<1>6. Plain(n) \in SUBSET Plain(b.net)
  <2> SUFFICES ASSUME NEW t \in Plain(n)  PROVE t \in Plain(b.net)
    OBVIOUS
  <2>1. t \in LiveTerminals(b.net) /\ (t \in Gates => t \in Live(n))
    BY <1>2, TerminalsApart DEF Adds, Plain, LiveTerminals
  <2> QED  BY <1>2, <1>5, <2>1 DEF Adds, Plain
<1>7. b.out \in Plain(b.net)
  BY <1>2, TerminalsApart DEF Adds, Plain
<1> QED  BY <1>2, <1>4, <1>6, <1>7, <1>5 DEF Keeps, b

\* A NAND or NOR of two inputs.
LEMMA TwoInputs ==
  ASSUME NEW n, Sound(n), WellShaped(n), NoBufferRead(n), NEW g, NEW st, ConsistentBut(n, st, g),
         NEW h \in Live(n), NEW a, NEW b, n.ins[h] = <<a, b>>
  PROVE  /\ st[a] \in Levels /\ st[b] \in Levels
         /\ n.kind[h] = "nand" => ComputeValue(n, st, h) =
              IF st[a] = "low" \/ st[b] = "low" THEN "high" ELSE "low"
         /\ n.kind[h] = "nor" => ComputeValue(n, st, h) =
              IF st[a] = "high" \/ st[b] = "high" THEN "low" ELSE "high"
<1>1. ReadsLevels(n, st, h)
  BY LevelsRead
<1>2. 1 \in DOMAIN n.ins[h] /\ 2 \in DOMAIN n.ins[h] /\ n.ins[h][1] = a /\ n.ins[h][2] = b
      /\ \A i \in DOMAIN n.ins[h] : i = 1 \/ i = 2
  OBVIOUS
<1>3. st[a] \in Levels /\ st[b] \in Levels
  BY <1>1, <1>2 DEF ReadsLevels
<1>4. n.kind[h] = "nand" => ComputeValue(n, st, h) =
        IF st[a] = "low" \/ st[b] = "low" THEN "high" ELSE "low"
  <2> HAVE n.kind[h] = "nand"
  <2>1. (\E i \in DOMAIN n.ins[h] : st[n.ins[h][i]] = "low") <=> st[a] = "low" \/ st[b] = "low"
    BY <1>2
  <2> QED  BY <1>1, <2>1, NandValue
<1>5. n.kind[h] = "nor" => ComputeValue(n, st, h) =
        IF st[a] = "high" \/ st[b] = "high" THEN "low" ELSE "high"
  <2> HAVE n.kind[h] = "nor"
  <2>1. (\E i \in DOMAIN n.ins[h] : st[n.ins[h][i]] = "high") <=> st[a] = "high" \/ st[b] = "high"
    BY <1>2
  <2> QED  BY <1>1, <2>1, NorValue
<1> QED  BY <1>3, <1>4, <1>5

\* r takes the place of g in m, which has kept all that n does.
LEMMA ThenRewrite ==
  ASSUME NEW n, NEW m, Keeps(n, m), NEW g \in Live(m), NEW r \in Plain(m), m.kind[g] # "not",
         r # g => \A st : ConsistentBut(m, st, g) => ComputeValue(m, st, g) = st[r]
  PROVE  Keeps(n, Rewritten(m, g, r).net)
<1>1. Keeps(m, Rewritten(m, g, r).net)
  BY RewriteKeeps DEF Keeps, Plain
<1> QED  BY <1>1, KeepsTrans

LEMMA KeepsSelf == ASSUME NEW n, Foldable(n) PROVE Keeps(n, n)
BY DEF Keeps

LEMMA FoldableSize ==
  ASSUME NEW n, Foldable(n)
  PROVE  n.size \in Nat /\ n.size <= MaxGates /\ "size" \in DOMAIN n
<1>1. IsNet(n)
  BY DEF Foldable, WellFormed
<1> QED  BY <1>1, NetAssumption DEF IsNet

\* The size of a network is counted even past the bound.
LEMMA NewGateSize ==
  ASSUME NEW n, "size" \in DOMAIN n, NEW k, NEW s
  PROVE  "size" \in DOMAIN NewGate(n, k, s).net /\ NewGate(n, k, s).net.size = n.size + 1
BY DEF NewGate, AddGate, AddLookup, NextGate, Reregister

LEMMA NotOfSize ==
  ASSUME NEW n, "size" \in DOMAIN n, NEW t
  PROVE  "size" \in DOMAIN NotOf(n, t).net /\ NotOf(n, t).net.size \in {n.size, n.size + 1}
<1>1. CASE t = High
  BY <1>1 DEF NotOf
<1>2. CASE t # High /\ t = Low
  BY <1>2 DEF NotOf
<1>3. CASE t # High /\ t # Low
  <2>1. NotOf(n, t) = NewGate(n, "not", <<t>>)
    BY <1>3 DEF NotOf
  <2> QED  BY <2>1, NewGateSize
<1> QED  BY <1>1, <1>2, <1>3

\* Redirecting uses adds no gate.
LEMMA RewrittenSize == ASSUME NEW n, NEW g, NEW r PROVE Rewritten(n, g, r).net.size = n.size
BY DEF Rewritten, ReplaceAllUsesWith, ReplaceUsesExcept, Redirect

LEMMA FoldMuxKeeps ==
  ASSUME NEW n, Foldable(n), NEW g \in Live(n), n.kind[g] = "mux", NEW lower \in BOOLEAN,
         lower => n.size + 3 <= MaxGates
  PROVE  Keeps(n, FoldMux(n, g, lower).net)
<1> DEFINE in == n.ins[g]
<1>1. Sound(n) /\ WellShaped(n) /\ NoBufferRead(n) /\ g \in Gates /\ n.size \in Nat
  BY SoundIsWellFormed, LiveInputs, NetFields DEF Foldable, Sound
<1>2. 1 \in DOMAIN in /\ 2 \in DOMAIN in /\ 3 \in DOMAIN in /\ 4 \in DOMAIN in
  BY <1>1, LiveInputs DEF WellShaped
<1>3. in[1] \in Plain(n) /\ in[2] \in Plain(n) /\ in[3] \in Plain(n) /\ in[4] \in Plain(n)
  BY <1>2, InputsPlain
<1>4. CASE ~ lower
  <2>1. \A st : ConsistentBut(n, st, g) =>
          /\ ComputeValue(n, st, g) = IF st[in[1]] = "high" THEN st[in[3]] ELSE st[in[4]]
          /\ st[Low] = "low" /\ st[High] = "high"
    BY <1>1, LevelsRead, MuxValue DEF ConsistentBut, Valuation
  <2>2. CASE in[1] = High
    <3>1. FoldMux(n, g, lower) = Rewritten(n, g, in[3])
      BY <1>4, <2>2, TerminalsApart DEF FoldMux
    <3>2. \A st : ConsistentBut(n, st, g) => ComputeValue(n, st, g) = st[in[3]]
      BY <2>1, <2>2
    <3> QED  BY <1>3, <3>1, <3>2, KeepsSelf, ThenRewrite
  <2>3. CASE in[1] = Low
    <3>1. FoldMux(n, g, lower) = Rewritten(n, g, in[4])
      BY <1>4, <2>3, TerminalsApart DEF FoldMux
    <3>2. \A st : ConsistentBut(n, st, g) => ComputeValue(n, st, g) = st[in[4]]
      BY <2>1, <2>3
    <3> QED  BY <1>3, <3>1, <3>2, KeepsSelf, ThenRewrite
  <2>4. CASE in[1] # High /\ in[1] # Low
    <3>1. FoldMux(n, g, lower).net = n
      BY <1>4, <2>4 DEF FoldMux, Unchanged
    <3> QED  BY <3>1, KeepsSelf
  <2> QED  BY <2>2, <2>3, <2>4
<1>5. CASE lower
  <2> DEFINE s1 == <<in[1], in[3]>>
             hi == NandOf(n, s1)
             s2 == <<in[2], in[4]>>
             lo == NandOf(hi.net, s2)
             s3 == <<hi.out, lo.out>>
             or == NandOf(lo.net, s3)
  <2>1. FoldMux(n, g, lower) = Rewritten(or.net, g, or.out)
    BY <1>5 DEF FoldMux
  <2>2. /\ Keeps(n, hi.net) /\ Adds(n, hi.net, hi.out, "nand", s1)
        /\ Plain(n) \in SUBSET Plain(hi.net) /\ hi.out \in Plain(hi.net)
    <3>1. n.size < MaxGates
      BY <1>1, <1>5, NetAssumption
    <3>2. s1 \in Seq(Plain(n))
      BY <1>3
    <3> HIDE DEF s1
    <3> QED  BY <3>1, <3>2, NewGateKeeps DEF NandOf
  <2>3. /\ Keeps(hi.net, lo.net) /\ Adds(hi.net, lo.net, lo.out, "nand", s2)
        /\ Plain(hi.net) \in SUBSET Plain(lo.net) /\ lo.out \in Plain(lo.net)
    <3> HIDE DEF hi
    <3>1. Foldable(hi.net) /\ hi.net.size < MaxGates
      BY <1>1, <1>5, <2>2, NetAssumption DEF Keeps, Adds
    <3>2. s2 \in Seq(Plain(hi.net))
      BY <1>3, <2>2
    <3> QED  BY <3>1, <3>2, NewGateKeeps DEF NandOf
  <2>4. /\ Keeps(lo.net, or.net) /\ Adds(lo.net, or.net, or.out, "nand", s3)
        /\ or.out \in Plain(or.net)
    <3> HIDE DEF hi, lo
    <3>1. Foldable(lo.net) /\ lo.net.size < MaxGates
      BY <1>1, <1>5, <2>2, <2>3, NetAssumption DEF Keeps, Adds
    <3>2. s3 \in Seq(Plain(lo.net))
      BY <2>2, <2>3
    <3> QED  BY <3>1, <3>2, NewGateKeeps DEF NandOf
  <2> DEFINE m == or.net
  <2> HIDE DEF hi, lo, or
  <2>5. Keeps(n, m)
    BY <2>2, <2>3, <2>4, KeepsTrans DEF m
  <2>6. /\ g \in Live(m) /\ m.kind[g] = "mux" /\ m.ins[g] = in
        /\ hi.out \in Live(m) \ {g} /\ lo.out \in Live(m) \ {g} /\ or.out \in Live(m) \ {g}
    BY <2>2, <2>3, <2>4 DEF Adds, m
  <2>7. /\ m.kind[hi.out] = "nand" /\ m.ins[hi.out] = s1
        /\ m.kind[lo.out] = "nand" /\ m.ins[lo.out] = s2
        /\ m.kind[or.out] = "nand" /\ m.ins[or.out] = s3
    BY <2>2, <2>3, <2>4 DEF Adds, m
  <2>8. Sound(m) /\ WellShaped(m) /\ NoBufferRead(m) /\ Paired(m)
    BY <2>5, SoundIsWellFormed DEF Keeps, Foldable
  <2>9. Opposite(m, in[1], in[2])
    <3>1. <<1, 2>> \in PairsOf(m, g)
      BY <2>6 DEF PairsOf
    <3> QED  BY <2>6, <2>8, <3>1 DEF Paired
  <2> HIDE DEF m
  <2>10. ASSUME NEW st, ConsistentBut(m, st, g)
         PROVE  ComputeValue(m, st, g) = st[or.out]
    <3>1. st[in[1]] \in Levels /\ st[in[2]] \in Levels /\ st[in[1]] # st[in[2]]
      BY <2>6, <2>8, <2>9, <2>10, OppositeValues
    <3>2. /\ st[hi.out] = ComputeValue(m, st, hi.out) /\ st[lo.out] = ComputeValue(m, st, lo.out)
          /\ st[or.out] = ComputeValue(m, st, or.out)
      BY <2>6, <2>10 DEF ConsistentBut
    <3>3. /\ st[in[3]] \in Levels
          /\ st[hi.out] = IF st[in[1]] = "low" \/ st[in[3]] = "low" THEN "high" ELSE "low"
      BY <2>6, <2>7, <2>8, <2>10, <3>2, TwoInputs
    <3>4. /\ st[in[4]] \in Levels
          /\ st[lo.out] = IF st[in[2]] = "low" \/ st[in[4]] = "low" THEN "high" ELSE "low"
      BY <2>6, <2>7, <2>8, <2>10, <3>2, TwoInputs
    <3>5. st[or.out] = IF st[hi.out] = "low" \/ st[lo.out] = "low" THEN "high" ELSE "low"
      BY <2>6, <2>7, <2>8, <2>10, <3>2, TwoInputs
    <3>6. ComputeValue(m, st, g) = IF st[in[1]] = "high" THEN st[in[3]] ELSE st[in[4]]
      BY <2>6, <2>8, <2>10, LevelsRead, MuxValue
    <3> QED  BY <3>1, <3>3, <3>4, <3>5, <3>6 DEF Levels
  <2>11. or.out \in Plain(m)
    BY <2>4 DEF m
  <2>12. Keeps(n, Rewritten(m, g, or.out).net)
    BY <2>5, <2>6, <2>10, <2>11, ThenRewrite
  <2> QED  BY <2>1, <2>12 DEF m
<1> QED  BY <1>4, <1>5

\* m is n with a gate i, which reads a and b, and a NOT r of it.
AddsDual(n, m, i, r, k, a, b) ==
  /\ \A u \in Live(n) : /\ u \in Live(m) /\ m.kind[u] = n.kind[u] /\ m.ins[u] = n.ins[u]
                        /\ u # i /\ u # r
  /\ i \in Live(m) /\ m.kind[i] = k /\ m.ins[i] = <<a, b>>
  /\ r \in Live(m) /\ r \in Plain(m) /\ m.kind[r] = "not" /\ m.ins[r] = <<i>>

\* NOT(NOR(a, b)) and NOT(NAND(a, b)), which FoldDual puts for gates of two NOTs.
LEMMA DualAdds ==
  ASSUME NEW n, Foldable(n), n.size + 2 <= MaxGates, NEW a \in Plain(n), NEW b \in Plain(n),
         NEW k \in {"nand", "nor"}
  PROVE  LET inner == NewGate(n, k, <<a, b>>)
             dual  == NotOf(inner.net, inner.out)
         IN  Keeps(n, dual.net) /\ AddsDual(n, dual.net, inner.out, dual.out, k, a, b)
<1> DEFINE s == <<a, b>>
           inner == NewGate(n, k, s)
           o == <<inner.out>>
           dual == NewGate(inner.net, "not", o)
<1>1. n.size \in Nat
  BY SoundIsWellFormed, NetFields DEF Foldable, Sound
<1>2. s \in Seq(Plain(n)) /\ n.size < MaxGates
  BY <1>1, NetAssumption
<1> HIDE DEF s
<1>3. /\ Keeps(n, inner.net) /\ Adds(n, inner.net, inner.out, k, s)
      /\ Plain(n) \in SUBSET Plain(inner.net) /\ inner.out \in Plain(inner.net)
  BY <1>2, NewGateKeeps
<1> HIDE DEF inner
<1>4. Foldable(inner.net) /\ inner.net.size < MaxGates
  BY <1>1, <1>3, NetAssumption DEF Keeps, Adds
<1>5. o \in Seq(Plain(inner.net)) /\ Len(o) = 1
  BY <1>3
<1>6. inner.out # Low /\ inner.out # High
  BY <1>3, TerminalsApart DEF Adds
<1>7. NotOf(inner.net, inner.out) = dual
  BY <1>6 DEF NotOf
<1> HIDE DEF o
<1>8. /\ Keeps(inner.net, dual.net) /\ Adds(inner.net, dual.net, dual.out, "not", o)
      /\ dual.out \in Plain(dual.net)
  BY <1>4, <1>5, NewGateKeeps
<1> HIDE DEF dual
<1>9. Keeps(n, dual.net)
  BY <1>3, <1>8, KeepsTrans
<1>10. \A u \in Live(n) : /\ u \in Live(dual.net) /\ dual.net.kind[u] = n.kind[u]
                          /\ dual.net.ins[u] = n.ins[u]
                          /\ u # inner.out /\ u # dual.out
  BY <1>3, <1>8 DEF Adds
<1>11. /\ inner.out \in Live(dual.net) /\ dual.net.kind[inner.out] = k
       /\ dual.net.ins[inner.out] = s
       /\ dual.out \in Live(dual.net) /\ dual.net.kind[dual.out] = "not"
       /\ dual.net.ins[dual.out] = o
  BY <1>3, <1>8 DEF Adds
<1>12. AddsDual(n, dual.net, inner.out, dual.out, k, a, b)
  BY <1>8, <1>10, <1>11 DEF AddsDual, s, o
<1> QED  BY <1>7, <1>9, <1>12 DEF s, inner

LEMMA FoldDualKeeps ==
  ASSUME NEW n, Foldable(n), NEW g \in Live(n), n.kind[g] \in {"nand", "nor"},
         FoldDual(n, g).net.size <= MaxGates
  PROVE  Keeps(n, FoldDual(n, g).net)
<1> DEFINE in == n.ins[g]
           a == SkipNot(n, g, 1)
           b == SkipNot(n, g, 2)
           k == n.kind[g]
           decisive == IF k = "nor" THEN High ELSE Low
           decided  == IF k = "nor" THEN Low ELSE High
<1>1. Sound(n) /\ WellShaped(n) /\ NoBufferRead(n) /\ g \in Gates
      /\ DOMAIN in = 1 .. Len(in) /\ Len(in) \in Nat
  BY SoundIsWellFormed, LiveInputs DEF Foldable, Sound
<1>2. ASSUME NEW st, ConsistentBut(n, st, g)
      PROVE  /\ k = "nand" => ComputeValue(n, st, g) =
                  IF \E i \in DOMAIN in : st[in[i]] = "low" THEN "high" ELSE "low"
             /\ k = "nor" => ComputeValue(n, st, g) =
                  IF \E i \in DOMAIN in : st[in[i]] = "high" THEN "low" ELSE "high"
             /\ st[Low] = "low" /\ st[High] = "high"
  BY <1>1, <1>2, LevelsRead, NandValue, NorValue DEF ConsistentBut, Valuation
<1>3. Low \in Plain(n) /\ High \in Plain(n)
  BY TerminalsApart DEF Plain, LiveTerminals
<1>4. CASE Len(in) = 0
  <2>1. FoldDual(n, g) = Rewritten(n, g, decisive)
    BY <1>4 DEF FoldDual
  <2>2. \A st : ConsistentBut(n, st, g) => ComputeValue(n, st, g) = st[decisive]
    BY <1>1, <1>2, <1>4
  <2> QED  BY <1>3, <2>1, <2>2, KeepsSelf, ThenRewrite
<1>5. CASE Len(in) = 2 /\ a # Null /\ b # Null
  <2> DEFINE d == IF k = "nor" THEN "nand" ELSE "nor"
             inner == NewGate(n, d, <<a, b>>)
             dual == NotOf(inner.net, inner.out)
             m == dual.net
             x == in[1]
             y == in[2]
  <2>1. FoldDual(n, g) = Rewritten(m, g, dual.out)
    <3>1. FoldDual(n, g) = IF k = "nor" THEN Rewritten(AndOf(n, a, b).net, g, AndOf(n, a, b).out)
                                        ELSE Rewritten(OrOf(n, a, b).net, g, OrOf(n, a, b).out)
      BY <1>5 DEF FoldDual
    <3> QED  BY <3>1 DEF AndOf, OrOf, NandOf, NorOf
  <2>2. 1 \in DOMAIN in /\ 2 \in DOMAIN in /\ in = <<x, y>>
    BY <1>1, <1>5, LiveInputs
  <2>3. /\ x \in Live(n) /\ n.kind[x] = "not" /\ 1 \in DOMAIN n.ins[x]
        /\ a = n.ins[x][1] /\ a \in Plain(n)
    BY <1>5, <2>2, SkippedNot, InputsPlain
  <2>4. /\ y \in Live(n) /\ n.kind[y] = "not" /\ 1 \in DOMAIN n.ins[y]
        /\ b = n.ins[y][1] /\ b \in Plain(n)
    BY <1>5, <2>2, SkippedNot, InputsPlain
  <2>5. d \in {"nand", "nor"}
    OBVIOUS
  <2> HIDE DEF a, b, d
  <2>6. n.size + 2 <= MaxGates
    <3>1. /\ n.size \in Nat /\ "size" \in DOMAIN n
          /\ "size" \in DOMAIN inner.net /\ inner.net.size = n.size + 1
      BY FoldableSize, NewGateSize
    <3>2. inner.out \in Int /\ inner.out # High /\ inner.out # Low
      <4>1. inner.out = n.size + 1
        BY DEF NewGate, NextGate
      <4>2. inner.out \in Int
        BY <3>1, <4>1
      <4> HIDE DEF inner
      <4> QED  BY <4>2, NetAssumption
    <3>3. dual = NewGate(inner.net, "not", <<inner.out>>)
      <4> HIDE DEF inner
      <4> QED  BY <3>2 DEF NotOf
    <3>4. m.size = inner.net.size + 1
      <4> HIDE DEF inner
      <4> QED  BY <3>1, <3>3, NewGateSize
    <3>5. m.size <= MaxGates
      <4> HIDE DEF m, dual
      <4> QED  BY <2>1, RewrittenSize
    <3> HIDE DEF m, dual, inner
    <3> QED  BY <3>1, <3>4, <3>5, NetAssumption
  <2>7. Keeps(n, m) /\ AddsDual(n, m, inner.out, dual.out, d, a, b)
    BY <2>3, <2>4, <2>5, <2>6, DualAdds
  <2> HIDE DEF inner, dual
  <2>8. Sound(m) /\ WellShaped(m) /\ NoBufferRead(m)
    BY <2>7, SoundIsWellFormed DEF Keeps, Foldable
  <2> DEFINE i == inner.out
             r == dual.out
  <2>9. /\ g \in Live(m) /\ m.kind[g] = k /\ m.ins[g] = <<x, y>>
        /\ x \in Live(m) \ {g} /\ m.kind[x] = "not" /\ m.ins[x][1] = a
        /\ y \in Live(m) \ {g} /\ m.kind[y] = "not" /\ m.ins[y][1] = b
    BY <2>2, <2>3, <2>4, <2>7 DEF AddsDual
  <2>10. /\ i \in Live(m) \ {g} /\ m.kind[i] = d /\ m.ins[i] = <<a, b>>
         /\ r \in Live(m) \ {g} /\ m.kind[r] = "not" /\ m.ins[r][1] = i
    BY <2>7 DEF AddsDual
  <2> HIDE DEF i, r, m, d
  <2>11. ASSUME NEW st, ConsistentBut(m, st, g)
         PROVE  ComputeValue(m, st, g) = st[r]
    <3>1. st[x] = Flip(st[a]) /\ st[y] = Flip(st[b]) /\ st[r] = Flip(st[i])
      BY <2>8, <2>9, <2>10, <2>11, LevelsRead, NotValue DEF ConsistentBut
    <3>2. st[i] = ComputeValue(m, st, i)
      BY <2>10, <2>11 DEF ConsistentBut
    <3>3. CASE k = "nor"
      <4>1. /\ st[a] \in Levels /\ st[b] \in Levels
            /\ st[i] = IF st[a] = "low" \/ st[b] = "low" THEN "high" ELSE "low"
        BY <2>8, <2>10, <2>11, <3>2, <3>3, TwoInputs DEF d
      <4>2. ComputeValue(m, st, g) = IF st[x] = "high" \/ st[y] = "high" THEN "low" ELSE "high"
        BY <2>8, <2>9, <2>11, <3>3, TwoInputs
      <4> QED  BY <3>1, <4>1, <4>2 DEF Flip, Levels
    <3>4. CASE k = "nand"
      <4>1. /\ st[a] \in Levels /\ st[b] \in Levels
            /\ st[i] = IF st[a] = "high" \/ st[b] = "high" THEN "low" ELSE "high"
        BY <2>8, <2>10, <2>11, <3>2, <3>4, TwoInputs DEF d
      <4>2. ComputeValue(m, st, g) = IF st[x] = "low" \/ st[y] = "low" THEN "high" ELSE "low"
        BY <2>8, <2>9, <2>11, <3>4, TwoInputs
      <4> QED  BY <3>1, <4>1, <4>2 DEF Flip, Levels
    <3> QED  BY <3>3, <3>4
  <2>12. r \in Plain(m) /\ Keeps(n, m) /\ m.kind[g] # "not"
    BY <2>7, <2>9 DEF r, m, AddsDual
  <2>13. Keeps(n, Rewritten(m, g, r).net)
    BY <2>9, <2>11, <2>12, ThenRewrite
  <2> QED  BY <2>1, <2>13 DEF m, r
<1>6. CASE Len(in) = 2 /\ ~ (a # Null /\ b # Null) /\ decisive \in InputsOf(n, g)
  <2>1. FoldDual(n, g) = Rewritten(n, g, decided)
    BY <1>6 DEF FoldDual
  <2>2. \E i \in DOMAIN in : in[i] = decisive
    BY <1>6 DEF InputsOf
  <2>3. \A st : ConsistentBut(n, st, g) => ComputeValue(n, st, g) = st[decided]
    BY <1>2, <2>2
  <2> QED  BY <1>3, <2>1, <2>3, KeepsSelf, ThenRewrite
<1>7. CASE /\ Len(in) # 0
           /\ ~ (Len(in) = 2 /\ a # Null /\ b # Null)
           /\ ~ (Len(in) = 2 /\ decisive \in InputsOf(n, g))
  <2>1. FoldDual(n, g).net = n
    BY <1>7 DEF FoldDual, Unchanged
  <2> QED  BY <2>1, KeepsSelf
<1> QED  BY <1>4, <1>5, <1>6, <1>7

\* The rows of a table of one logical input.
LEMMA OneBit == Bit(0, 1) = 0 /\ Bit(1, 1) = 1
<1>1. 2 ^ 0 = 1
  OBVIOUS
<1>2. 0 \div 1 = 0 /\ 1 \div 1 = 1 /\ 0 % 2 = 0 /\ 1 % 2 = 1
  OBVIOUS
<1> QED  BY <1>1, <1>2 DEF Bit

LEMMA FoldLookupKeeps ==
  ASSUME NEW n, Foldable(n), NEW g \in Live(n), n.kind[g] = "lookup",
         ~ (Len(n.ins[g]) = 2 /\ Len(n.lut[g]) = 4 /\ Satisfiable(n.lut[g]))
  PROVE  Keeps(n, FoldLookup(n, g).net)
<1> DEFINE in == n.ins[g]
           lut == n.lut[g]
<1>1. Sound(n) /\ WellShaped(n) /\ NoBufferRead(n) /\ Paired(n) /\ g \in Gates
      /\ DOMAIN in = 1 .. Len(in) /\ Len(in) \in Nat
  BY SoundIsWellFormed, LiveInputs DEF Foldable, Sound
<1>2. Low \in Plain(n) /\ High \in Plain(n)
  BY TerminalsApart DEF Plain, LiveTerminals
<1>3. \A st : ConsistentBut(n, st, g) =>
        /\ ComputeValue(n, st, g) = FromBool(\E r \in DOMAIN lut : lut[r] /\ Selects(n, st, g, r))
        /\ st[Low] = "low" /\ st[High] = "high"
  BY <1>1, LevelsRead, LookupValue DEF ConsistentBut, Valuation
<1>4. CASE Len(in) # 2
  <2>1. FoldLookup(n, g).net = n
    BY <1>4 DEF FoldLookup, Unchanged
  <2> QED  BY <2>1, KeepsSelf
<1>5. CASE Len(in) = 2 /\ ~ Satisfiable(lut)
  <2>1. lut # <<TRUE, FALSE>> /\ lut # <<FALSE, TRUE>> /\ lut # <<TRUE, TRUE>>
    <3>1. \A r \in DOMAIN lut : ~ lut[r]
      BY <1>5 DEF Satisfiable
    <3> HIDE DEF lut
    <3>2. ASSUME NEW x, lut = <<TRUE, x>>  PROVE FALSE
      <4>1. 1 \in DOMAIN lut /\ lut[1] = TRUE
        BY <3>2
      <4> QED  BY <3>1, <4>1
    <3>3. ASSUME NEW x, lut = <<x, TRUE>>  PROVE FALSE
      <4>1. 2 \in DOMAIN lut /\ lut[2] = TRUE
        BY <3>3
      <4> QED  BY <3>1, <4>1
    <3> QED  BY <3>2, <3>3, Zenon
  <2>2. FoldLookup(n, g) = Rewritten(n, g, Low)
    BY <1>5, <2>1 DEF FoldLookup
  <2>3. \A st : ConsistentBut(n, st, g) => ComputeValue(n, st, g) = st[Low]
    BY <1>3, <1>5 DEF Satisfiable, FromBool
  <2> QED  BY <1>2, <2>2, <2>3, KeepsSelf, ThenRewrite
<1>6. CASE Len(in) = 2 /\ Satisfiable(lut)
  <2>1. Len(lut) = 2
    BY <1>6 DEF Foldable, TablesFit, TableShape
  <2>2. lut \in Seq(BOOLEAN)
    BY <1>1, NetFields DEF Sound
  <2>3. lut = <<lut[1], lut[2]>> /\ lut[1] \in BOOLEAN /\ lut[2] \in BOOLEAN /\ DOMAIN lut = {1, 2}
    BY <2>1, <2>2
  <2>4. 1 \in DOMAIN in /\ 2 \in DOMAIN in
    BY <1>1, <1>6
  <2>5. in[1] \in Plain(n) /\ in[2] \in Plain(n)
    BY <2>4, InputsPlain
  <2>6. Len(in) \div 2 = 1
    <3>1. 2 \div 2 = 1
      OBVIOUS
    <3> QED  BY <1>6, <3>1
  <2>7. Opposite(n, in[1], in[2])
    <3>1. LogicalEnd(n, g) = 1
      BY <2>6 DEF LogicalEnd
    <3>2. <<1, 2>> \in PairsOf(n, g)
      BY <3>1 DEF PairsOf
    <3> QED  BY <1>1, <3>2 DEF Paired
  <2>8. ASSUME NEW st, ConsistentBut(n, st, g)
        PROVE  /\ st[in[1]] \in Levels /\ st[in[2]] \in Levels /\ st[in[1]] # st[in[2]]
               /\ Selects(n, st, g, 1) <=> st[in[1]] = "low"
               /\ Selects(n, st, g, 2) <=> st[in[1]] = "high"
    <3>1. st[in[1]] \in Levels /\ st[in[2]] \in Levels /\ st[in[1]] # st[in[2]]
      BY <1>1, <2>7, <2>8, OppositeValues
    <3>2. \A r : Selects(n, st, g, r) <=> (Bit(r - 1, 1) = 1 <=> st[in[1]] = "high")
      <4>1. 1 .. (Len(in) \div 2) = {1}
        <5> DEFINE half == Len(in) \div 2
        <5>1. half = 1
          BY <2>6
        <5> HIDE DEF half
        <5>2. 1 .. half = {1}
          BY <5>1
        <5> QED  BY <5>2 DEF half
      <4> QED  BY <4>1, Zenon DEF Selects
    <3>3. 1 - 1 = 0 /\ 2 - 1 = 1
      OBVIOUS
    <3> QED  BY <3>1, <3>2, <3>3, OneBit DEF Levels
  <2>9. ASSUME NEW st, ConsistentBut(n, st, g)
        PROVE  ComputeValue(n, st, g) =
                 FromBool(\/ lut[1] /\ st[in[1]] = "low"
                          \/ lut[2] /\ st[in[1]] = "high")
    <3>1. (\E r \in DOMAIN lut : lut[r] /\ Selects(n, st, g, r))
          <=> \/ lut[1] /\ st[in[1]] = "low"
              \/ lut[2] /\ st[in[1]] = "high"
      <4> HIDE DEF lut, in
      <4> QED  BY <2>3, <2>8, <2>9
    <3> HIDE DEF lut, in
    <3> QED  BY <1>3, <2>9, <3>1
  <2>10. CASE lut = <<TRUE, FALSE>>
    <3>1. FoldLookup(n, g) = Rewritten(n, g, in[2])
      BY <1>6, <2>10 DEF FoldLookup
    <3>2. \A st : ConsistentBut(n, st, g) => ComputeValue(n, st, g) = st[in[2]]
      BY <2>8, <2>9, <2>10 DEF FromBool, Levels
    <3> QED  BY <2>5, <3>1, <3>2, KeepsSelf, ThenRewrite
  <2>11. CASE lut = <<FALSE, TRUE>>
    <3>1. FoldLookup(n, g) = Rewritten(n, g, in[1])
      BY <1>6, <2>11 DEF FoldLookup
    <3>2. \A st : ConsistentBut(n, st, g) => ComputeValue(n, st, g) = st[in[1]]
      BY <2>8, <2>9, <2>11 DEF FromBool, Levels
    <3> QED  BY <2>5, <3>1, <3>2, KeepsSelf, ThenRewrite
  <2>12. CASE lut = <<TRUE, TRUE>>
    <3>1. FoldLookup(n, g) = Rewritten(n, g, High)
      BY <1>6, <2>12 DEF FoldLookup
    <3>2. \A st : ConsistentBut(n, st, g) => ComputeValue(n, st, g) = st[High]
      BY <1>3, <2>8, <2>9, <2>12 DEF FromBool, Levels
    <3> QED  BY <1>2, <3>1, <3>2, KeepsSelf, ThenRewrite
  <2>13. CASE lut = <<FALSE, FALSE>>
    <3>1. PICK r \in {1, 2} : lut[r]
      BY <1>6, <2>3 DEF Satisfiable
    <3>2. lut[1] = FALSE /\ lut[2] = FALSE
      <4> HIDE DEF lut
      <4> QED  BY <2>13
    <3> QED  BY <3>1, <3>2
  <2> QED
    <3>1. (lut[1] = TRUE \/ lut[1] = FALSE) /\ (lut[2] = TRUE \/ lut[2] = FALSE)
      BY <2>3
    <3>2. \/ lut = <<TRUE, FALSE>> \/ lut = <<FALSE, TRUE>>
          \/ lut = <<TRUE, TRUE>> \/ lut = <<FALSE, FALSE>>
      <4> HIDE DEF lut
      <4>1. lut = <<lut[1], lut[2]>>
        BY <2>3
      <4> QED  BY <3>1, <4>1, Zenon
    <3> QED  BY <2>10, <2>11, <2>12, <2>13, <3>2, Zenon
<1> QED  BY <1>4, <1>5, <1>6

\* A lookup that FoldGate is meant to fold: of one input, of two rows or of none that is true.
FoldsTable(n, g) ==
  n.kind[g] = "lookup" => ~ (Len(n.ins[g]) = 2 /\ Len(n.lut[g]) = 4 /\ Satisfiable(n.lut[g]))

LEMMA FoldKeeps ==
  ASSUME NEW n, Foldable(n), NEW g \in Live(n), NEW lower \in BOOLEAN,
         Fold(n, g, lower).net.size <= MaxGates, FoldsTable(n, g)
  PROVE  Keeps(n, Fold(n, g, lower).net)
<1>1. n.kind[g] \in Kinds \ {"dead"}
  BY SoundIsWellFormed, NetFields DEF Foldable, Sound, Live
<1>2. CASE n.kind[g] = "not"
  BY <1>2, FoldNotKeeps DEF Fold
<1>3. CASE n.kind[g] = "mux"
  <2>1. Fold(n, g, lower) = FoldMux(n, g, lower)
    BY <1>3 DEF Fold
  <2>2. lower => n.size + 3 <= MaxGates
    <3> HAVE lower
    <3> DEFINE in == n.ins[g]
               hi == NandOf(n, <<in[1], in[3]>>)
               lo == NandOf(hi.net, <<in[2], in[4]>>)
               or == NandOf(lo.net, <<hi.out, lo.out>>)
    <3>1. FoldMux(n, g, lower) = Rewritten(or.net, g, or.out)
      BY DEF FoldMux
    <3>2. n.size \in Nat /\ "size" \in DOMAIN n
      BY FoldableSize
    <3>3. "size" \in DOMAIN hi.net /\ hi.net.size = n.size + 1
      BY <3>2, NewGateSize DEF NandOf
    <3> HIDE DEF hi
    <3>4. "size" \in DOMAIN lo.net /\ lo.net.size = hi.net.size + 1
      BY <3>3, NewGateSize DEF NandOf
    <3> HIDE DEF lo
    <3>5. or.net.size = lo.net.size + 1
      BY <3>4, NewGateSize DEF NandOf
    <3> HIDE DEF or
    <3>6. Rewritten(or.net, g, or.out).net.size = or.net.size
      BY RewrittenSize
    <3>7. or.net.size <= MaxGates
      BY <2>1, <3>1, <3>6, Zenon
    <3> QED  BY <3>2, <3>3, <3>4, <3>5, <3>7, NetAssumption
  <2>3. Keeps(n, FoldMux(n, g, lower).net)
    BY <1>3, <2>2, FoldMuxKeeps
  <2> QED  BY <2>1, <2>3
<1>4. CASE n.kind[g] = "tri"
  BY <1>4, FoldTriKeeps DEF Fold
<1>5. CASE n.kind[g] \in {"nand", "nor"}
  <2>1. Fold(n, g, lower) = FoldDual(n, g)
    BY <1>5 DEF Fold
  <2> QED  BY <1>5, <2>1, FoldDualKeeps
<1>6. CASE n.kind[g] = "lookup"
  BY <1>6, FoldLookupKeeps DEF Fold, FoldsTable
<1> QED  BY <1>1, <1>2, <1>3, <1>4, <1>5, <1>6 DEF Kinds

----------------------------------------------------------------------------
(* Erase, and changes to one gate.                                          *)

LEMMA EraseFields ==
  ASSUME NEW n, Sound(n), NEW g \in Live(n), n.uses[g] = {}
  PROVE  LET m == Erase(n, g)
         IN  /\ Sound(m) /\ Live(m) = Live(n) \ {g} /\ m.outs = n.outs /\ m.size = n.size
             /\ \A u \in Gates \ {g} : m.kind[u] = n.kind[u] /\ m.ins[u] = n.ins[u]
             /\ m.lut = n.lut /\ m.ins[Sink] = n.ins[Sink]
             /\ \A u \in Users : \A i \in DOMAIN n.ins[u] : n.ins[u][i] # g
<1> DEFINE bare == << >>
           a == Reregister(n, g, bare)
           m == Erase(n, g)
<1>1. g \in Gates /\ g \in Terminals /\ Sink \in Users /\ g # Sink /\ Gates \in SUBSET Users
  BY LiveFacts, TerminalsApart DEF Sound
<1>2. bare \in Seq(Terminals)
  OBVIOUS
<1>3. m = [a EXCEPT !.kind = [@ EXCEPT ![g] = "dead"]]
  BY DEF Erase
<1> HIDE DEF bare
<1>4. /\ a.lut = n.lut /\ IsNet(a)
      /\ \A u \in Users : a.ins[u] = IF u = g THEN bare ELSE n.ins[u]
  BY <1>1, <1>2, ReregisterFields DEF Sound
<1> HIDE DEF a, m
<1>5. m.lut = a.lut /\ m.ins = a.ins
  BY <1>3, <1>4, NetFields DEF IsNet
<1>6. \A u \in Users : \A i \in DOMAIN n.ins[u] : n.ins[u][i] # g
  <2> SUFFICES ASSUME NEW u \in Users, NEW i \in DOMAIN n.ins[u], n.ins[u][i] = g
               PROVE  FALSE
    OBVIOUS
  <2>1. i \in Nat
    BY InputPositions DEF Sound
  <2>2. <<u, i>> \in n.uses[g]
    BY <1>1, <2>1 DEF Sound, Listed
  <2> QED  BY <2>2
<1>7. /\ Sound(m) /\ Live(m) = Live(n) \ {g} /\ m.outs = n.outs /\ m.size = n.size
      /\ \A u \in Gates \ {g} : m.kind[u] = n.kind[u]
  BY EraseSound DEF m
<1>8. m.ins[Sink] = n.ins[Sink] /\ \A u \in Gates \ {g} : m.ins[u] = n.ins[u]
  BY <1>1, <1>4, <1>5
<1> QED  BY <1>4, <1>5, <1>6, <1>7, <1>8 DEF m

\* A gate that nothing reads leaves no trace in what the network does.
LEMMA EraseKeeps ==
  ASSUME NEW n, Foldable(n), NEW g \in Live(n), n.uses[g] = {}
  PROVE  Keeps(n, Erase(n, g))
<1> DEFINE m == Erase(n, g)
<1>1. Sound(n) /\ WellShaped(n) /\ Paired(n) /\ NoBufferRead(n) /\ TablesFit(n)
  BY SoundIsWellFormed DEF Foldable
<1>2. /\ Sound(m) /\ Live(m) = Live(n) \ {g} /\ m.outs = n.outs
      /\ \A u \in Gates \ {g} : m.kind[u] = n.kind[u] /\ m.ins[u] = n.ins[u]
      /\ m.lut = n.lut /\ m.ins[Sink] = n.ins[Sink]
      /\ \A u \in Users : \A i \in DOMAIN n.ins[u] : n.ins[u][i] # g
  BY <1>1, EraseFields
<1>3. g \in Gates /\ Live(n) \in SUBSET Gates /\ Gates \in SUBSET Users
  BY <1>1, LiveFacts, TerminalsApart DEF Sound
<1> HIDE DEF m
<1>4. WellShaped(m) /\ TablesFit(m)
  BY <1>1, <1>2, <1>3 DEF WellShaped, TablesFit
<1>5. NoBufferRead(m)
  BY <1>1, <1>2, <1>3 DEF NoBufferRead, InputsOf
<1>6. ASSUME NEW a, NEW b, Opposite(n, a, b), a # g, b # g
      PROVE  Opposite(m, a, b)
  BY <1>2, <1>6 DEF Opposite, IsNotOf
<1>7. Paired(m)
  <2> SUFFICES ASSUME NEW u \in Live(m), NEW p \in PairsOf(m, u)
               PROVE  Opposite(m, m.ins[u][p[1]], m.ins[u][p[2]])
    BY DEF Paired
  <2>1. u \in Live(n) /\ u \in Users /\ m.kind[u] = n.kind[u] /\ m.ins[u] = n.ins[u]
    BY <1>2, <1>3
  <2>2. p \in PairsOf(n, u)
    BY <2>1, EqualPairs
  <2>3. p[1] \in DOMAIN n.ins[u] /\ p[2] \in DOMAIN n.ins[u]
    BY <1>1, <2>1, <2>2, PairPositions
  <2>4. n.ins[u][p[1]] # g /\ n.ins[u][p[2]] # g
    BY <1>2, <2>1, <2>3
  <2>5. Opposite(n, n.ins[u][p[1]], n.ins[u][p[2]])
    BY <1>1, <2>1, <2>2 DEF Paired
  <2> QED  BY <1>6, <2>1, <2>4, <2>5
<1>8. HasMore(m, n, g)
  BY <1>2, <1>3 DEF HasMore
<1>9. \A i \in DOMAIN n.ins[g] : n.ins[g][i] \in LiveTerminals(m)
  <2> TAKE i \in DOMAIN n.ins[g]
  <2>1. n.ins[g][i] \in LiveTerminals(n) /\ n.ins[g][i] # g
    BY <1>1, <1>2, <1>3, LiveInputs
  <2> QED  BY <1>2, <2>1 DEF LiveTerminals
<1>10. Behaviour(n) = Behaviour(m)
  BY <1>1, <1>2, <1>8, <1>9, MoreShowsSame
<1>11. BitsRead(m) \in SUBSET BitsRead(n)
  <2>1. m.ins[g] = << >>
    BY <1>2, <1>3 DEF Sound, DeadIsBare, Live
  <2>2. \A u \in Users \ {g} : m.ins[u] = n.ins[u]
    BY <1>2, <1>3 DEF Users
  <2> QED  BY <2>1, <2>2 DEF BitsRead
<1>12. Keeps(n, m)
  BY <1>2, <1>4, <1>5, <1>7, <1>10, <1>11, SoundIsWellFormed DEF Keeps, Foldable
<1> QED  BY <1>12 DEF m

\* n and m differ at g only.
Local(n, m, g) ==
  /\ Live(m) = Live(n) /\ m.outs = n.outs /\ m.ins[Sink] = n.ins[Sink]
  /\ \A u \in Live(n) \ {g} : m.kind[u] = n.kind[u] /\ m.ins[u] = n.ins[u] /\ m.lut[u] = n.lut[u]

LEMMA LocalKeeps ==
  ASSUME NEW n, Sound(n), WellShaped(n), NEW m, Sound(m), WellShaped(m),
         NEW g \in Live(n), Local(n, m, g), n.kind[g] = "tri" <=> m.kind[g] = "tri",
         \A st : ConsistentBut(n, st, g) => ComputeValue(m, st, g) = ComputeValue(n, st, g)
  PROVE  Behaviour(m) = Behaviour(n)
<1> USE DEF Local
<1>1. \A st : \A u \in Live(n) \ {g} : ComputeValue(m, st, u) = ComputeValue(n, st, u)
  <2> TAKE st
  <2> TAKE u \in Live(n) \ {g}
  <2>1. Read(m, st, u) = Read(n, st, u)
    BY DEF Read
  <2> QED  BY <2>1, EqualValues
<1>2. \A st : ConsistentBut(m, st, g) <=> ConsistentBut(n, st, g)
  BY <1>1 DEF ConsistentBut
<1>3. \A st : Shows(m, st) = Shows(n, st)
  BY DEF Shows
<1>4. ASSUME NEW st, Consistent(n, st)  PROVE Consistent(m, st)
  <2>1. ComputeValue(m, st, g) = ComputeValue(n, st, g)
    BY <1>4, ConsistentIsBut
  <2> QED  BY <1>1, <1>4, <2>1 DEF Consistent
<1>5. ASSUME NEW st, Consistent(m, st)  PROVE Consistent(n, st)
  <2>1. ComputeValue(m, st, g) = ComputeValue(n, st, g)
    BY <1>2, <1>5, ConsistentIsBut
  <2> QED  BY <1>1, <1>5, <2>1 DEF Consistent
<1> QED  BY <1>3, <1>4, <1>5, SameBehaviour

\* A gate that reads nothing new gives the network nothing new to read.
LEMMA LocalBits ==
  ASSUME NEW n, Sound(n), NEW m, Sound(m), NEW g \in Live(n), Local(n, m, g),
         InputsOf(m, g) \in SUBSET InputsOf(n, g)
  PROVE  BitsRead(m) \in SUBSET BitsRead(n)
<1>1. ASSUME NEW t \in BitsRead(m)  PROVE t \in BitsRead(n)
  <2>1. PICK u \in Users : \E i \in DOMAIN m.ins[u] : m.ins[u][i] = t
    BY <1>1 DEF BitsRead
  <2>2. t \in InputsOf(m, u)
    BY <2>1 DEF InputsOf
  <2>3. u \in Live(m) \cup {Sink}
    <3>1. CASE u \in Gates /\ m.kind[u] = "dead"
      BY <2>1, <3>1 DEF Sound, DeadIsBare
    <3> QED  BY <3>1 DEF Live, Users
  <2>4. t \in InputsOf(n, u)
    BY <2>2, <2>3 DEF Local, InputsOf
  <2> QED  BY <1>1, <2>4 DEF BitsRead, InputsOf
<1> QED  BY <1>1

LEMMA LocalFoldable ==
  ASSUME NEW n, Foldable(n), NEW m, Sound(m), NEW g \in Live(n), Local(n, m, g),
         n.kind[g] \in {"nand", "nor", "lookup"}, m.kind[g] \in {n.kind[g], "not"},
         InputsOf(m, g) \in SUBSET InputsOf(n, g),
         m.kind[g] = "not" => Len(m.ins[g]) >= 1,
         m.kind[g] = "lookup" => TableShape(m.lut[g], m.ins[g]),
         \A p \in PairsOf(m, g) : Opposite(n, m.ins[g][p[1]], m.ins[g][p[2]])
  PROVE  Foldable(m)
<1> USE DEF Local
<1>1. Sound(n) /\ WellShaped(n) /\ Paired(n) /\ NoBufferRead(n) /\ TablesFit(n)
  BY SoundIsWellFormed DEF Foldable
<1>2. WellShaped(m) /\ TablesFit(m)
  BY <1>1 DEF WellShaped, TablesFit
<1>3. NoBufferRead(m)
  <2> SUFFICES ASSUME NEW u \in Live(m), NEW t \in InputsOf(m, u), t \in Gates
               PROVE  m.kind[t] # "tri"
    BY DEF NoBufferRead
  <2>1. t \in InputsOf(n, u)
    BY DEF InputsOf
  <2>2. t \in Live(n) /\ n.kind[t] # "tri"
    <3>1. t \in LiveTerminals(n)
      BY <1>1, <2>1, LiveInputs DEF InputsOf
    <3> QED  BY <1>1, <2>1, <3>1, TerminalsApart DEF NoBufferRead, LiveTerminals
  <2> QED  BY <2>2
<1>4. ASSUME NEW a, NEW b, IsNotOf(n, b, a)  PROVE IsNotOf(m, b, a)
  <2>1. b \in Live(n) \ {g}
    BY <1>1, <1>4, NotHasInput DEF IsNotOf
  <2> QED  BY <1>4, <2>1 DEF IsNotOf
<1>5. ASSUME NEW a, NEW b, Opposite(n, a, b)  PROVE Opposite(m, a, b)
  BY <1>4, <1>5 DEF Opposite
<1>6. Paired(m)
  <2> SUFFICES ASSUME NEW u \in Live(m), NEW p \in PairsOf(m, u)
               PROVE  Opposite(m, m.ins[u][p[1]], m.ins[u][p[2]])
    BY DEF Paired
  <2>1. CASE u = g
    BY <1>5, <2>1
  <2>2. CASE u # g
    <3>1. p \in PairsOf(n, u)
      BY <2>2, EqualPairs
    <3> QED  BY <1>1, <1>5, <2>2, <3>1 DEF Paired
  <2> QED  BY <2>1, <2>2
<1> QED  BY <1>2, <1>3, <1>6, SoundIsWellFormed DEF Foldable

----------------------------------------------------------------------------
(* Canonicalize.                                                            *)

\* The positions that EraseInputs keeps.
KeptInputs(n, g, t) ==
  LET hits    == Matches(n, g, t)
      negated == IF n.kind[g] = "lookup" THEN {i + LogicalEnd(n, g) : i \in hits} ELSE {}
  IN  (1 .. Len(n.ins[g])) \ (hits \cup negated)

LEMMA EraseInputsFields ==
  ASSUME NEW n, Sound(n), NEW g \in Live(n), NEW t
  PROVE  LET m == EraseInputs(n, g, t)
         IN  /\ Sound(m) /\ Local(n, m, g) /\ m.kind = n.kind /\ m.lut = n.lut
             /\ m.ins[g] = Compact(n.ins[g], KeptInputs(n, g, t))
             /\ KeptInputs(n, g, t) \in SUBSET DOMAIN n.ins[g]
             /\ InputsOf(m, g) = {n.ins[g][i] : i \in KeptInputs(n, g, t)}
<1> DEFINE K == KeptInputs(n, g, t)
           s == Compact(n.ins[g], K)
           m == EraseInputs(n, g, t)
<1>1. /\ g \in Gates /\ g \in Users /\ Sink \in Users /\ g # Sink
      /\ Live(n) \in SUBSET Gates /\ Gates \in SUBSET Users
  BY LiveFacts, TerminalsApart DEF Sound
<1>2. n.ins[g] \in Seq(LiveTerminals(n)) /\ DOMAIN n.ins[g] = 1 .. Len(n.ins[g])
  BY LiveInputs
<1>3. K \in SUBSET DOMAIN n.ins[g]
  BY <1>2 DEF KeptInputs
<1>4. m = Reregister(n, g, s)
  BY Zenon DEF EraseInputs, KeptInputs
<1> HIDE DEF K
<1>5. s \in Seq(LiveTerminals(n)) /\ \A j \in DOMAIN s : \E i \in K : s[j] = n.ins[g][i]
  BY <1>2, <1>3, CompactEntries
<1>6. \A i \in K : \E j \in DOMAIN s : s[j] = n.ins[g][i]
  BY <1>2, <1>3, CompactKeeps
<1> HIDE DEF s
<1>7. s \in Seq(Terminals)
  BY <1>5, LiveFacts DEF Sound
<1>8. /\ m.outs = n.outs /\ m.kind = n.kind /\ m.lut = n.lut
      /\ \A u \in Users : m.ins[u] = IF u = g THEN s ELSE n.ins[u]
  BY <1>1, <1>4, <1>7, ReregisterFields DEF Sound
<1>9. Sound(m) /\ Live(m) = Live(n)
  BY EraseInputsSound
<1> HIDE DEF m
<1>10. Local(n, m, g)
  BY <1>1, <1>8, <1>9 DEF Local
<1>11. InputsOf(m, g) = {n.ins[g][i] : i \in K}
  <2>1. InputsOf(m, g) = {s[j] : j \in DOMAIN s}
    BY <1>1, <1>8 DEF InputsOf
  <2> QED  BY <1>5, <1>6, <2>1
<1>12. m.ins[g] = s
  BY <1>1, <1>8
<1> QED  BY <1>3, <1>8, <1>9, <1>10, <1>11, <1>12 DEF m, s, K

\* With inputs dropped, a gate still reads levels.
LEMMA LessRead ==
  ASSUME NEW n, NEW m, Sound(m), NEW g \in Live(m), InputsOf(m, g) \in SUBSET InputsOf(n, g),
         NEW st \in [Terminals -> Known], ReadsLevels(n, st, g)
  PROVE  ReadsLevels(m, st, g)
<1>1. \A i \in DOMAIN m.ins[g] : st[m.ins[g][i]] \in Levels
  BY DEF InputsOf, ReadsLevels
<1>2. \A i \in DOMAIN m.ins[g] : Read(m, st, g)[i] = st[m.ins[g][i]]
  BY <1>1, ReadValues DEF Levels
<1>3. DOMAIN Read(m, st, g) = DOMAIN m.ins[g]
  BY DEF Read
<1> QED  BY <1>1, <1>2, <1>3, LiveInputs DEF ReadsLevels

LEMMA DropNeutralKeeps ==
  ASSUME NEW n, Foldable(n), NEW g \in Live(n)
  PROVE  /\ Keeps(n, DropNeutral(n, g)) /\ g \in Live(DropNeutral(n, g))
         /\ DropNeutral(n, g).kind = n.kind
<1>1. Sound(n) /\ WellShaped(n) /\ NoBufferRead(n) /\ DOMAIN n.ins[g] = 1 .. Len(n.ins[g])
  BY SoundIsWellFormed, LiveInputs DEF Foldable
<1>2. ASSUME NEW t, NEW k \in {"nand", "nor"}, n.kind[g] = k, NEW v,
             k = "nand" => t = High /\ v = "low", k = "nor" => t = Low /\ v = "high"
      PROVE  Keeps(n, EraseInputs(n, g, t)) /\ g \in Live(EraseInputs(n, g, t))
             /\ EraseInputs(n, g, t).kind = n.kind
  <2> DEFINE m == EraseInputs(n, g, t)
             K == KeptInputs(n, g, t)
  <2>1. K = {i \in DOMAIN n.ins[g] : n.ins[g][i] # t}
    <3>1. LogicalEnd(n, g) = Len(n.ins[g])
      BY <1>2 DEF LogicalEnd
    <3>2. K = (1 .. Len(n.ins[g])) \ Matches(n, g, t)
      BY <1>2 DEF KeptInputs
    <3> QED  BY <1>1, <3>1, <3>2 DEF Matches
  <2>2. /\ Sound(m) /\ Local(n, m, g) /\ m.kind = n.kind /\ m.lut = n.lut
        /\ InputsOf(m, g) = {n.ins[g][i] : i \in K}
    BY <1>1, EraseInputsFields
  <2> HIDE DEF m, K
  <2>3. g \in Live(m)
    BY <2>2 DEF Local
  <2>4. InputsOf(m, g) = InputsOf(n, g) \ {t}
    BY <2>1, <2>2 DEF InputsOf
  <2>5. Foldable(m)
    <3>1. PairsOf(m, g) = {}
      BY <1>2, <2>2 DEF PairsOf
    <3> QED  BY <1>2, <2>2, <2>4, <3>1, LocalFoldable
  <2>6. Sound(m) /\ WellShaped(m) /\ NoBufferRead(m)
    BY <2>5, SoundIsWellFormed DEF Foldable
  <2>7. ASSUME NEW st, ConsistentBut(n, st, g)
        PROVE  ComputeValue(m, st, g) = ComputeValue(n, st, g)
    <3>1. ReadsLevels(n, st, g)
      BY <1>1, <2>7, LevelsRead
    <3>2. ReadsLevels(m, st, g)
      BY <2>3, <2>4, <2>6, <2>7, <3>1, LessRead DEF ConsistentBut, Valuation
    <3>3. st[Low] = "low" /\ st[High] = "high"
      BY <2>7 DEF ConsistentBut, Valuation
    <3>4. st[t] # v
      BY <1>2, <3>3
    <3>5. (\E i \in DOMAIN m.ins[g] : st[m.ins[g][i]] = v)
          <=> (\E i \in DOMAIN n.ins[g] : st[n.ins[g][i]] = v)
      <4>1. (\E i \in DOMAIN m.ins[g] : st[m.ins[g][i]] = v) <=> \E x \in InputsOf(m, g) : st[x] = v
        BY DEF InputsOf
      <4>2. (\E i \in DOMAIN n.ins[g] : st[n.ins[g][i]] = v) <=> \E x \in InputsOf(n, g) : st[x] = v
        BY DEF InputsOf
      <4> QED  BY <2>4, <3>4, <4>1, <4>2
    <3>6. CASE k = "nand"
      BY <1>2, <2>2, <3>1, <3>2, <3>5, <3>6, NandValue
    <3>7. CASE k = "nor"
      BY <1>2, <2>2, <3>1, <3>2, <3>5, <3>7, NorValue
    <3> QED  BY <3>6, <3>7
  <2>8. Behaviour(m) = Behaviour(n)
    BY <1>1, <2>2, <2>6, <2>7, LocalKeeps
  <2>9. BitsRead(m) \in SUBSET BitsRead(n)
    BY <1>1, <2>2, <2>4, LocalBits
  <2> QED  BY <2>2, <2>3, <2>5, <2>8, <2>9 DEF Keeps, m
<1>3. CASE n.kind[g] = "nand"
  <2>1. DropNeutral(n, g) = EraseInputs(n, g, High)
    BY <1>3 DEF DropNeutral
  <2> QED  BY <1>2, <1>3, <2>1
<1>4. CASE n.kind[g] = "nor"
  <2>1. DropNeutral(n, g) = EraseInputs(n, g, Low)
    BY <1>4 DEF DropNeutral
  <2> QED  BY <1>2, <1>4, <2>1
<1>5. CASE n.kind[g] \notin {"nand", "nor"}
  <2>1. DropNeutral(n, g) = n
    BY <1>5 DEF DropNeutral
  <2> QED  BY <2>1, KeepsSelf
<1> QED  BY <1>3, <1>4, <1>5

LEMMA OneInputIsNotKeeps ==
  ASSUME NEW n, Foldable(n), NEW g \in Live(n)
  PROVE  /\ Keeps(n, OneInputIsNot(n, g)) /\ g \in Live(OneInputIsNot(n, g))
         /\ OneInputIsNot(n, g).kind[g] = "lookup" => n.kind[g] = "lookup"
<1>1. Sound(n) /\ WellShaped(n) /\ NoBufferRead(n) /\ g \in Gates /\ g # Sink
      /\ DOMAIN n.ins[g] = 1 .. Len(n.ins[g])
  BY SoundIsWellFormed, LiveInputs, TerminalsApart DEF Foldable
<1>2. CASE ~ (n.kind[g] \in {"nand", "nor"} /\ Len(n.ins[g]) = 1)
  <2>1. OneInputIsNot(n, g) = n
    BY <1>2, Zenon DEF OneInputIsNot
  <2> QED  BY <2>1, KeepsSelf
<1>3. CASE n.kind[g] \in {"nand", "nor"} /\ Len(n.ins[g]) = 1
  <2> DEFINE m == OneInputIsNot(n, g)
  <2>1. m = [n EXCEPT !.kind[g] = "not"]
    BY <1>3, Zenon DEF OneInputIsNot
  <2>2. /\ Sound(m) /\ Live(m) = Live(n) /\ m.outs = n.outs
        /\ \A u \in Gates \ {g} : m.kind[u] = n.kind[u]
    BY <1>1, OneInputIsNotSound
  <2>3. m.ins = n.ins /\ m.lut = n.lut /\ m.kind[g] = "not"
    BY <1>1, <2>1, NetFields DEF Sound, IsNet
  <2> HIDE DEF m
  <2>4. Local(n, m, g)
    BY <1>1, <2>2, <2>3, LiveFacts DEF Local, Sound
  <2>5. Foldable(m)
    <3>1. PairsOf(m, g) = {} /\ InputsOf(m, g) = InputsOf(n, g)
      BY <2>3 DEF PairsOf, InputsOf
    <3> QED  BY <1>3, <2>2, <2>3, <2>4, <3>1, LocalFoldable
  <2>6. Sound(m) /\ WellShaped(m)
    BY <2>5, SoundIsWellFormed DEF Foldable
  <2>7. ASSUME NEW st, ConsistentBut(n, st, g)
        PROVE  ComputeValue(m, st, g) = ComputeValue(n, st, g)
    <3>1. ReadsLevels(n, st, g)
      BY <1>1, <2>7, LevelsRead
    <3>2. ReadsLevels(m, st, g)
      BY <2>3, <3>1 DEF ReadsLevels, Read
    <3>3. ComputeValue(m, st, g) = Flip(st[n.ins[g][1]]) /\ st[n.ins[g][1]] \in Levels
      BY <2>2, <2>3, <2>6, <3>2, NotValue
    <3>4. DOMAIN n.ins[g] = {1}
      BY <1>1, <1>3
    <3>5. CASE n.kind[g] = "nand"
      BY <3>1, <3>3, <3>4, <3>5, NandValue DEF Flip, Levels
    <3>6. CASE n.kind[g] = "nor"
      BY <3>1, <3>3, <3>4, <3>6, NorValue DEF Flip, Levels
    <3> QED  BY <1>3, <3>5, <3>6
  <2>8. Behaviour(m) = Behaviour(n)
    BY <1>1, <1>3, <2>2, <2>3, <2>4, <2>6, <2>7, LocalKeeps
  <2>9. BitsRead(m) \in SUBSET BitsRead(n)
    BY <2>3 DEF BitsRead
  <2> QED  BY <2>2, <2>3, <2>5, <2>8, <2>9 DEF Keeps, m
<1> QED  BY <1>2, <1>3

\* What is kept of a sequence in the order of the positions.
LEMMA CompactNone ==
  ASSUME NEW s
  PROVE  DOMAIN Compact(s, {}) = 1 .. 0
<1>1. Cardinality({}) = 0
  BY FS_EmptySet
<1> QED  BY <1>1 DEF Compact

LEMMA CompactOne ==
  ASSUME NEW s, NEW a \in Int
  PROVE  DOMAIN Compact(s, {a}) = 1 .. 1 /\ Compact(s, {a})[1] = s[a]
<1>1. Cardinality({a}) = 1
  BY FS_Singleton
<1>2. {k \in {a} : k <= a} = {a}
  OBVIOUS
<1>3. NthOf({a}, 1) = a
  BY <1>1, <1>2 DEF NthOf
<1> QED  BY <1>1, <1>3 DEF Compact

LEMMA CompactTwo ==
  ASSUME NEW s, NEW a \in Int, NEW b \in Int, a < b
  PROVE  /\ DOMAIN Compact(s, {a, b}) = 1 .. 2
         /\ Compact(s, {a, b})[1] = s[a] /\ Compact(s, {a, b})[2] = s[b]
<1>1. Cardinality({a}) = 1
  BY FS_Singleton
<1>2. Cardinality({a, b}) = 2
  <2>1. IsFiniteSet({a})
    BY FS_Singleton
  <2>2. Cardinality({a} \cup {b}) = Cardinality({a}) + 1
    BY <1>1, <2>1, FS_AddElement
  <2>3. {a} \cup {b} = {a, b}
    OBVIOUS
  <2> QED  BY <1>1, <2>2, <2>3
<1>3. {k \in {a, b} : k <= a} = {a} /\ {k \in {a, b} : k <= b} = {a, b}
  OBVIOUS
<1>4. NthOf({a, b}, 1) = a
  BY <1>1, <1>2, <1>3 DEF NthOf
<1>5. NthOf({a, b}, 2) = b
  BY <1>1, <1>2, <1>3 DEF NthOf
<1> QED  BY <1>2, <1>4, <1>5 DEF Compact

LEMMA Bits ==
  /\ Bit(0, 1) = 0 /\ Bit(1, 1) = 1 /\ Bit(2, 1) = 0 /\ Bit(3, 1) = 1
  /\ Bit(0, 2) = 0 /\ Bit(1, 2) = 0 /\ Bit(2, 2) = 1 /\ Bit(3, 2) = 1
<1>1. 2 ^ 0 = 1 /\ 2 ^ 1 = 2 /\ 1 - 1 = 0 /\ 2 - 1 = 1
  OBVIOUS
<1>2. /\ 0 \div 1 = 0 /\ 1 \div 1 = 1 /\ 2 \div 1 = 2 /\ 3 \div 1 = 3
      /\ 0 \div 2 = 0 /\ 1 \div 2 = 0 /\ 2 \div 2 = 1 /\ 3 \div 2 = 1
  OBVIOUS
<1>3. 0 % 2 = 0 /\ 1 % 2 = 1 /\ 2 % 2 = 0 /\ 3 % 2 = 1
  OBVIOUS
<1> QED  BY <1>1, <1>2, <1>3 DEF Bit

\* The rows of a lookup by the inputs that are high.
RowOf(n, st, g) ==
  LET high(i) == st[n.ins[g][i]] = "high"
      l == n.lut[g]
  IN  CASE Len(n.ins[g]) = 0 -> l[1]
        [] Len(n.ins[g]) = 2 -> IF high(1) THEN l[2] ELSE l[1]
        [] Len(n.ins[g]) = 4 -> IF high(2) THEN IF high(1) THEN l[4] ELSE l[3]
                                           ELSE IF high(1) THEN l[2] ELSE l[1]

LEMMA TableValue ==
  ASSUME NEW n, NEW g, NEW st, ReadsLevels(n, st, g), n.kind[g] = "lookup",
         TableShape(n.lut[g], n.ins[g]), n.lut[g] \in Seq(BOOLEAN)
  PROVE  ComputeValue(n, st, g) = FromBool(RowOf(n, st, g))
<1> DEFINE in == n.ins[g]
           lut == n.lut[g]
           half == Len(in) \div 2
           hit == \E r \in DOMAIN lut : lut[r] /\ Selects(n, st, g, r)
           row == RowOf(n, st, g)
<1>1. ComputeValue(n, st, g) = FromBool(hit)
  BY LookupValue
<1>2. DOMAIN lut = 1 .. Len(lut) /\ Len(lut) \in Nat /\ \A r \in DOMAIN lut : lut[r] \in BOOLEAN
  OBVIOUS
<1>3. 0 \div 2 = 0 /\ 2 \div 2 = 1 /\ 4 \div 2 = 2
  OBVIOUS
<1>4. 1 - 1 = 0 /\ 2 - 1 = 1 /\ 3 - 1 = 2 /\ 4 - 1 = 3
  OBVIOUS
<1>5. ASSUME NEW r
      PROVE  Selects(n, st, g, r) <=>
               \A i \in 1 .. half : Bit(r - 1, i) = 1 <=> st[in[i]] = "high"
  BY Zenon DEF Selects
<1> HIDE DEF lut
<1>6. CASE Len(in) = 0
  <2>1. 1 .. half = {}
    <3>1. half = 0
      BY <1>3, <1>6
    <3> HIDE DEF half
    <3> QED  BY <3>1
  <2>2. \A r : Selects(n, st, g, r)
    BY <1>5, <2>1, Zenon
  <2>3. DOMAIN lut = {1}
    <3>1. TableShape(lut, in)
      BY DEF lut
    <3> HIDE DEF in
    <3>2. Len(lut) = 1
      BY <1>6, <3>1 DEF TableShape
    <3> QED  BY <1>2, <3>2
  <2>4. hit <=> lut[1]
    BY <2>2, <2>3
  <2>5. row = lut[1]
    BY <1>6 DEF RowOf, lut
  <2> QED  BY <1>1, <2>4, <2>5 DEF FromBool
<1>7. CASE Len(in) = 2
  <2> DEFINE high == st[in[1]] = "high"
  <2>1. 1 .. half = {1}
    <3>1. half = 1
      BY <1>3, <1>7
    <3> HIDE DEF half
    <3> QED  BY <3>1
  <2>2. \A r : Selects(n, st, g, r) <=> (Bit(r - 1, 1) = 1 <=> high)
    BY <1>5, <2>1, Zenon
  <2>3. /\ Selects(n, st, g, 1) <=> ~ high
        /\ Selects(n, st, g, 2) <=> high
        /\ Selects(n, st, g, 3) <=> ~ high
        /\ Selects(n, st, g, 4) <=> high
    BY <1>4, <2>2, Bits
  <2>4. \/ DOMAIN lut = {1, 2}
        \/ DOMAIN lut = {1, 2, 3, 4} /\ lut[3] = lut[1] /\ lut[4] = lut[2]
    <3>1. TableShape(lut, in)
      BY DEF lut
    <3> HIDE DEF in
    <3>2. \/ Len(lut) = 2
          \/ Len(lut) = 4 /\ lut[3] = lut[1] /\ lut[4] = lut[2]
      BY <1>7, <3>1 DEF TableShape
    <3>3. 1 .. 2 = {1, 2} /\ 1 .. 4 = {1, 2, 3, 4}
      OBVIOUS
    <3> QED  BY <1>2, <3>2, <3>3
  <2>5. row = IF high THEN lut[2] ELSE lut[1]
    BY <1>7 DEF RowOf, lut
  <2> HIDE DEF high, row
  <2>6. hit <=> \/ high /\ lut[2]
                \/ ~ high /\ lut[1]
    BY <2>3, <2>4
  <2>7. row <=> hit
    BY <2>5, <2>6
  <2> QED  BY <1>1, <2>7 DEF FromBool, row
<1>8. CASE Len(in) = 4
  <2> DEFINE high1 == st[in[1]] = "high"
             high2 == st[in[2]] = "high"
  <2>1. 1 .. half = {1, 2}
    <3>1. half = 2
      BY <1>3, <1>8
    <3> HIDE DEF half
    <3> QED  BY <3>1
  <2>2. \A r : Selects(n, st, g, r) <=> (Bit(r - 1, 1) = 1 <=> high1) /\ (Bit(r - 1, 2) = 1 <=> high2)
    BY <1>5, <2>1, Zenon
  <2>3. /\ Selects(n, st, g, 1) <=> ~ high1 /\ ~ high2
        /\ Selects(n, st, g, 2) <=> high1 /\ ~ high2
        /\ Selects(n, st, g, 3) <=> ~ high1 /\ high2
        /\ Selects(n, st, g, 4) <=> high1 /\ high2
    BY <1>4, <2>2, Bits
  <2>4. DOMAIN lut = {1, 2, 3, 4}
    BY <1>2, <1>8 DEF TableShape, lut
  <2>5. row = IF high2 THEN IF high1 THEN lut[4] ELSE lut[3] ELSE IF high1 THEN lut[2] ELSE lut[1]
    BY <1>8 DEF RowOf, lut
  <2> HIDE DEF high1, high2, row
  <2>6. hit <=> \/ ~ high1 /\ ~ high2 /\ lut[1]
                \/ high1 /\ ~ high2 /\ lut[2]
                \/ ~ high1 /\ high2 /\ lut[3]
                \/ high1 /\ high2 /\ lut[4]
    BY <2>3, <2>4
  <2>7. row <=> hit
    BY <2>5, <2>6
  <2> QED  BY <1>1, <2>7 DEF FromBool, row
<1> QED  BY <1>6, <1>7, <1>8 DEF TableShape

\* The network FoldTable leaves if it drops the inputs that read the constant t, high
\* exactly if b is 1.
TableWithout(n, g, t, b) ==
  [EraseInputs(n, g, t) EXCEPT !.lut[g] = Compact(@, RowsWith(n, g, Matches(n, g, t), b))]

LEMMA TableWithoutFields ==
  ASSUME NEW n, Sound(n), NEW g \in Live(n), NEW t, NEW b
  PROVE  LET m == TableWithout(n, g, t, b)
         IN  /\ Sound(m) /\ Local(n, m, g) /\ m.kind = n.kind
             /\ m.ins[g] = Compact(n.ins[g], KeptInputs(n, g, t))
             /\ InputsOf(m, g) \in SUBSET InputsOf(n, g)
             /\ m.lut[g] = Compact(n.lut[g], RowsWith(n, g, Matches(n, g, t), b))
<1> DEFINE e == EraseInputs(n, g, t)
           K == RowsWith(n, g, Matches(n, g, t), b)
           lut2 == [e.lut EXCEPT ![g] = Compact(e.lut[g], K)]
           m == [e EXCEPT !.lut = lut2]
<1>1. /\ Sound(e) /\ Local(n, e, g) /\ e.kind = n.kind /\ e.lut = n.lut
      /\ e.ins[g] = Compact(n.ins[g], KeptInputs(n, g, t))
      /\ KeptInputs(n, g, t) \in SUBSET DOMAIN n.ins[g]
      /\ InputsOf(e, g) = {n.ins[g][i] : i \in KeptInputs(n, g, t)}
  BY EraseInputsFields
<1>2. K \in SUBSET DOMAIN n.lut[g] /\ g \in Gates /\ g # Sink /\ Live(n) \in SUBSET Gates
  BY LiveFacts, TerminalsApart DEF RowsWith, Sound
<1>3. TableWithout(n, g, t, b) = m
  BY Zenon DEF TableWithout
<1>4. [e EXCEPT !.lut[g] = Compact(@, K)] = m
  BY Zenon
<1> HIDE DEF e, K
<1>5. Sound(m) /\ Live(m) = Live(e) /\ m.kind = e.kind
  <2>1. g \in Live(e)
    BY <1>1 DEF Local
  <2> QED  BY <1>1, <1>2, <1>4, <2>1, TableSound
<1>6. m.ins = e.ins /\ m.outs = e.outs /\ m.lut = lut2
  BY <1>1, NetFields DEF Sound, IsNet
<1>7. lut2[g] = Compact(n.lut[g], K) /\ \A u \in Gates \ {g} : lut2[u] = n.lut[u]
  BY <1>1, <1>2, NetFields DEF Sound
<1> HIDE DEF m, lut2
<1>8. Local(n, m, g)
  BY <1>1, <1>2, <1>5, <1>6, <1>7 DEF Local
<1>9. InputsOf(m, g) \in SUBSET InputsOf(n, g)
  BY <1>1, <1>6 DEF InputsOf
<1> QED  BY <1>1, <1>3, <1>5, <1>6, <1>7, <1>8, <1>9 DEF K

\* What remains: J, the logical inputs that read t, decides.
LEMMA TableWithoutShape ==
  ASSUME NEW n, Foldable(n), NEW g \in Live(n), n.kind[g] = "lookup",
         NEW t, NEW b \in {0, 1}, Matches(n, g, t) # {}
  PROVE  LET m == TableWithout(n, g, t, b)
             in == n.ins[g]
             l  == n.lut[g]
             q  == m.ins[g]
             o  == m.lut[g]
         IN  \/ /\ Len(in) = 2 /\ in[1] = t
                /\ Len(q) = 0 /\ Len(o) = 1 /\ o[1] = l[1 + b]
             \/ /\ Len(in) = 4 /\ in[1] = t /\ in[2] # t
                /\ Len(q) = 2 /\ q[1] = in[2] /\ q[2] = in[4]
                /\ Len(o) = 2 /\ o[1] = l[1 + b] /\ o[2] = l[3 + b]
             \/ /\ Len(in) = 4 /\ in[1] # t /\ in[2] = t
                /\ Len(q) = 2 /\ q[1] = in[1] /\ q[2] = in[3]
                /\ Len(o) = 2 /\ o[1] = l[1 + 2 * b] /\ o[2] = l[2 + 2 * b]
             \/ /\ Len(in) = 4 /\ in[1] = t /\ in[2] = t
                /\ Len(q) = 0 /\ Len(o) = 1 /\ o[1] = l[1 + 3 * b]
<1> DEFINE m == TableWithout(n, g, t, b)
           in == n.ins[g]
           l == n.lut[g]
           J == Matches(n, g, t)
           half == LogicalEnd(n, g)
           R == RowsWith(n, g, J, b)
           K == KeptInputs(n, g, t)
<1>1. Sound(n) /\ DOMAIN in = 1 .. Len(in) /\ Len(in) \in Nat /\ TableShape(l, in)
  BY SoundIsWellFormed, LiveInputs DEF Foldable, TablesFit
<1>2. m.ins[g] = Compact(in, K) /\ m.lut[g] = Compact(l, R) /\ Sound(m) /\ g \in Users /\ g \in Gates
  BY <1>1, TableWithoutFields, LiveInputs, TerminalsApart
<1>3. m.ins[g] \in Seq(Terminals \cup {Null}) /\ m.lut[g] \in Seq(BOOLEAN) /\ l \in Seq(BOOLEAN)
  BY <1>1, <1>2, NetFields DEF Sound
<1>4. Len(Compact(in, K)) \in Nat /\ DOMAIN Compact(in, K) = 1 .. Len(Compact(in, K))
      /\ Len(Compact(l, R)) \in Nat /\ DOMAIN Compact(l, R) = 1 .. Len(Compact(l, R))
      /\ Len(l) \in Nat /\ DOMAIN l = 1 .. Len(l)
  <2> HIDE DEF K, R, in, l
  <2>1. \A S, s : s \in Seq(S) => Len(s) \in Nat /\ DOMAIN s = 1 .. Len(s)
    OBVIOUS
  <2> QED  BY <1>2, <1>3, <2>1
<1>5. K = (1 .. Len(in)) \ (J \cup {i + half : i \in J})
  BY DEF KeptInputs
<1>6. J = {i \in 1 .. half : in[i] = t}
  BY DEF Matches
<1>7. R = {r \in DOMAIN l : r <= 2 ^ half /\ \A j \in J : Bit(r - 1, j) = b}
  BY DEF RowsWith
<1>8. /\ half = Len(in) \div 2
  BY DEF LogicalEnd
<1>9. /\ 0 \div 2 = 0 /\ 2 \div 2 = 1 /\ 4 \div 2 = 2 /\ 2 ^ 1 = 2 /\ 2 ^ 2 = 4
      /\ 1 - 1 = 0 /\ 2 - 1 = 1 /\ 3 - 1 = 2 /\ 4 - 1 = 3
  OBVIOUS
<1>10. ASSUME NEW s, NEW k \in Nat, Len(s) \in Nat, DOMAIN s = 1 .. Len(s), DOMAIN s = 1 .. k
       PROVE  Len(s) = k
  <2> DEFINE len == Len(s)
  <2>1. len \in Nat /\ 1 .. len = 1 .. k
    BY <1>10
  <2> HIDE DEF len
  <2>2. len = k
    BY <2>1
  <2> QED  BY <2>2 DEF len
<1> HIDE DEF half, J, R, K, in, l
<1>11. CASE Len(in) = 0
  <2>1. half = 0
    BY <1>8, <1>9, <1>11
  <2>2. J = {}
    BY <1>6, <2>1
  <2> QED  BY <2>2 DEF J
<1>12. CASE Len(in) = 2
  <2>1. half = 1 /\ 1 .. half = {1}
    <3>1. half = 1
      BY <1>8, <1>9, <1>12
    <3> QED  BY <3>1
  <2>2. J = {1} /\ in[1] = t
    BY <1>6, <2>1 DEF J
  <2>3. K = {}
    BY <1>5, <1>12, <2>1, <2>2
  <2>4. Len(l) = 2 \/ Len(l) = 4
    BY <1>1, <1>12 DEF TableShape
  <2>5. R = {1 + b}
    <3>1. \A r : r \in R <=> r \in DOMAIN l /\ r <= 2 /\ Bit(r - 1, 1) = b
      BY <1>7, <1>9, <2>1, <2>2
    <3>2. 1 \in DOMAIN l /\ 2 \in DOMAIN l /\ \A r \in DOMAIN l : r <= 2 => r = 1 \/ r = 2
      BY <1>4, <2>4
    <3>3. \A r : r \in R <=> \/ b = 0 /\ r = 1
                             \/ b = 1 /\ r = 2
      BY <1>9, <3>1, <3>2, Bits
    <3> QED  BY <3>3
  <2>6. Len(Compact(in, K)) = 0
    BY <1>4, <1>10, <2>3, CompactNone
  <2>7. Len(Compact(l, R)) = 1 /\ Compact(l, R)[1] = l[1 + b]
    <3>1. DOMAIN Compact(l, R) = 1 .. 1 /\ Compact(l, R)[1] = l[1 + b]
      <4>1. 1 + b \in Int
        OBVIOUS
      <4> QED  BY <2>5, <4>1, CompactOne
    <3> QED  BY <1>4, <1>10, <3>1
  <2> QED  BY <1>2, <1>12, <2>2, <2>6, <2>7 DEF in, l
<1>13. CASE Len(in) = 4
  <2>1. half = 2 /\ 1 .. half = {1, 2}
    <3>1. half = 2
      BY <1>8, <1>9, <1>13
    <3> QED  BY <3>1
  <2>2. DOMAIN l = {1, 2, 3, 4}
    <3>1. Len(l) = 4
      BY <1>1, <1>13 DEF TableShape
    <3> QED  BY <1>4, <3>1
  <2>3. \A r : r \in R <=> r \in {1, 2, 3, 4} /\ \A j \in J : Bit(r - 1, j) = b
    BY <1>7, <1>9, <2>1, <2>2
  <2>4. 1 .. Len(in) = {1, 2, 3, 4}
    BY <1>13
  <2>5. CASE in[1] = t /\ in[2] # t
    <3>1. J = {1}
      BY <1>6, <2>1, <2>5
    <3>2. K = {2, 4}
      BY <1>5, <2>1, <2>4, <3>1
    <3>3. R = {1 + b, 3 + b}
      <4>1. \A r : r \in R <=> \/ b = 0 /\ (r = 1 \/ r = 3)
                               \/ b = 1 /\ (r = 2 \/ r = 4)
        BY <1>9, <2>3, <3>1, Bits
      <4> QED  BY <4>1
    <3>4. Len(Compact(in, K)) = 2 /\ Compact(in, K)[1] = in[2] /\ Compact(in, K)[2] = in[4]
      <4>1. DOMAIN Compact(in, K) = 1 .. 2 /\ Compact(in, K)[1] = in[2] /\ Compact(in, K)[2] = in[4]
        <5>1. 2 \in Int /\ 4 \in Int /\ 2 < 4
          OBVIOUS
        <5> QED  BY <3>2, <5>1, CompactTwo
      <4> QED  BY <1>4, <1>10, <4>1
    <3>5. /\ Len(Compact(l, R)) = 2
          /\ Compact(l, R)[1] = l[1 + b] /\ Compact(l, R)[2] = l[3 + b]
      <4>1. DOMAIN Compact(l, R) = 1 .. 2 /\ Compact(l, R)[1] = l[1 + b] /\ Compact(l, R)[2] = l[3 + b]
        <5>1. 1 + b \in Int /\ 3 + b \in Int /\ 1 + b < 3 + b
          OBVIOUS
        <5> QED  BY <3>3, <5>1, CompactTwo
      <4> QED  BY <1>4, <1>10, <4>1
    <3> QED  BY <1>2, <1>13, <2>5, <3>4, <3>5 DEF in, l
  <2>6. CASE in[1] # t /\ in[2] = t
    <3>1. J = {2}
      BY <1>6, <2>1, <2>6
    <3>2. K = {1, 3}
      BY <1>5, <2>1, <2>4, <3>1
    <3>3. R = {1 + 2 * b, 2 + 2 * b}
      <4>1. \A r : r \in R <=> \/ b = 0 /\ (r = 1 \/ r = 2)
                               \/ b = 1 /\ (r = 3 \/ r = 4)
        BY <1>9, <2>3, <3>1, Bits
      <4> QED  BY <4>1
    <3>4. Len(Compact(in, K)) = 2 /\ Compact(in, K)[1] = in[1] /\ Compact(in, K)[2] = in[3]
      <4>1. DOMAIN Compact(in, K) = 1 .. 2 /\ Compact(in, K)[1] = in[1] /\ Compact(in, K)[2] = in[3]
        <5>1. \A a, c \in Int : a < c =>
                /\ DOMAIN Compact(in, {a, c}) = 1 .. 2
                /\ Compact(in, {a, c})[1] = in[a] /\ Compact(in, {a, c})[2] = in[c]
          BY CompactTwo
        <5>2. /\ DOMAIN Compact(in, {1, 3}) = 1 .. 2
              /\ Compact(in, {1, 3})[1] = in[1] /\ Compact(in, {1, 3})[2] = in[3]
          BY <5>1
        <5> QED  BY <3>2, <5>2
      <4> QED  BY <1>4, <1>10, <4>1
    <3>5. /\ Len(Compact(l, R)) = 2
          /\ Compact(l, R)[1] = l[1 + 2 * b] /\ Compact(l, R)[2] = l[2 + 2 * b]
      <4>1. DOMAIN Compact(l, R) = 1 .. 2 /\ Compact(l, R)[1] = l[1 + 2 * b] /\ Compact(l, R)[2] = l[2 + 2 * b]
        <5>1. 1 + 2 * b \in Int /\ 2 + 2 * b \in Int /\ 1 + 2 * b < 2 + 2 * b
          OBVIOUS
        <5> QED  BY <3>3, <5>1, CompactTwo
      <4> QED  BY <1>4, <1>10, <4>1
    <3> QED  BY <1>2, <1>13, <2>6, <3>4, <3>5 DEF in, l
  <2>7. CASE in[1] = t /\ in[2] = t
    <3>1. J = {1, 2}
      BY <1>6, <2>1, <2>7
    <3>2. K = {}
      BY <1>5, <2>1, <2>4, <3>1
    <3>3. R = {1 + 3 * b}
      <4>1. \A r : r \in R <=> \/ b = 0 /\ r = 1
                               \/ b = 1 /\ r = 4
        BY <1>9, <2>3, <3>1, Bits
      <4> QED  BY <4>1
    <3>4. Len(Compact(in, K)) = 0
      BY <1>4, <1>10, <3>2, CompactNone
    <3>5. Len(Compact(l, R)) = 1 /\ Compact(l, R)[1] = l[1 + 3 * b]
      <4>1. DOMAIN Compact(l, R) = 1 .. 1 /\ Compact(l, R)[1] = l[1 + 3 * b]
        <5>1. 1 + 3 * b \in Int
          OBVIOUS
        <5> QED  BY <3>3, <5>1, CompactOne
      <4> QED  BY <1>4, <1>10, <4>1
    <3> QED  BY <1>2, <1>13, <2>7, <3>4, <3>5 DEF in, l
  <2>8. CASE in[1] # t /\ in[2] # t
    <3>1. J = {}
      BY <1>6, <2>1, <2>8
    <3> QED  BY <3>1 DEF J
  <2> QED  BY <2>5, <2>6, <2>7, <2>8
<1>14. Len(in) = 0 \/ Len(in) = 2 \/ Len(in) = 4
  BY <1>1 DEF TableShape
<1> QED  BY <1>11, <1>12, <1>13, <1>14

LEMMA Rows ==
  ASSUME NEW n, NEW g, NEW st, NEW in, NEW l, in = n.ins[g], l = n.lut[g]
  PROVE  /\ Len(in) = 0 => RowOf(n, st, g) = l[1]
         /\ Len(in) = 2 => RowOf(n, st, g) = IF st[in[1]] = "high" THEN l[2] ELSE l[1]
         /\ Len(in) = 4 => RowOf(n, st, g) =
              IF st[in[2]] = "high" THEN IF st[in[1]] = "high" THEN l[4] ELSE l[3]
                                    ELSE IF st[in[1]] = "high" THEN l[2] ELSE l[1]
<1>1. Len(in) = 0 => RowOf(n, st, g) = l[1]
  BY DEF RowOf
<1>2. Len(in) = 2 => RowOf(n, st, g) = IF st[in[1]] = "high" THEN l[2] ELSE l[1]
  BY DEF RowOf
<1>3. Len(in) = 4 => RowOf(n, st, g) =
        IF st[in[2]] = "high" THEN IF st[in[1]] = "high" THEN l[4] ELSE l[3]
                              ELSE IF st[in[1]] = "high" THEN l[2] ELSE l[1]
  BY DEF RowOf
<1> QED  BY <1>1, <1>2, <1>3

LEMMA TableWithoutKeeps ==
  ASSUME NEW n, Foldable(n), NEW g \in Live(n), n.kind[g] = "lookup",
         NEW t, NEW b \in {0, 1}, t = IF b = 1 THEN High ELSE Low, Matches(n, g, t) # {}
  PROVE  Keeps(n, TableWithout(n, g, t, b)) /\ g \in Live(TableWithout(n, g, t, b))
<1> DEFINE m == TableWithout(n, g, t, b)
           in == n.ins[g]
           l  == n.lut[g]
           q  == m.ins[g]
           o  == m.lut[g]
<1>1. Sound(n) /\ WellShaped(n) /\ Paired(n) /\ NoBufferRead(n) /\ TablesFit(n) /\ g \in Gates
  BY SoundIsWellFormed, LiveInputs DEF Foldable
<1>2. /\ Sound(m) /\ Local(n, m, g) /\ m.kind = n.kind
      /\ InputsOf(m, g) \in SUBSET InputsOf(n, g)
  BY <1>1, TableWithoutFields
<1>3. \/ /\ Len(in) = 2 /\ in[1] = t
         /\ Len(q) = 0 /\ Len(o) = 1 /\ o[1] = l[1 + b]
      \/ /\ Len(in) = 4 /\ in[1] = t /\ in[2] # t
         /\ Len(q) = 2 /\ q[1] = in[2] /\ q[2] = in[4]
         /\ Len(o) = 2 /\ o[1] = l[1 + b] /\ o[2] = l[3 + b]
      \/ /\ Len(in) = 4 /\ in[1] # t /\ in[2] = t
         /\ Len(q) = 2 /\ q[1] = in[1] /\ q[2] = in[3]
         /\ Len(o) = 2 /\ o[1] = l[1 + 2 * b] /\ o[2] = l[2 + 2 * b]
      \/ /\ Len(in) = 4 /\ in[1] = t /\ in[2] = t
         /\ Len(q) = 0 /\ Len(o) = 1 /\ o[1] = l[1 + 3 * b]
  BY TableWithoutShape
<1>4. g \in Live(m) /\ l \in Seq(BOOLEAN) /\ o \in Seq(BOOLEAN)
  BY <1>1, <1>2, NetFields DEF Local, Sound
<1>5. TableShape(l, in) /\ TableShape(o, q)
  <2>1. TableShape(l, in)
    BY <1>1 DEF TablesFit
  <2>2. TableShape(o, q)
    <3> HIDE DEF q, o, in, l, m
    <3> QED  BY <1>3 DEF TableShape
  <2> QED  BY <2>1, <2>2
<1>6. ASSUME NEW p \in PairsOf(m, g)
      PROVE  Opposite(n, q[p[1]], q[p[2]])
  <2>1. /\ 0 \div 2 = 0 /\ 2 \div 2 = 1 /\ 4 \div 2 = 2
    OBVIOUS
  <2>2. LogicalEnd(m, g) = Len(q) \div 2 /\ LogicalEnd(n, g) = Len(in) \div 2
    BY <1>2 DEF LogicalEnd
  <2>3. /\ PairsOf(m, g) = {<<i, i + LogicalEnd(m, g)>> : i \in 1 .. LogicalEnd(m, g)}
        /\ PairsOf(n, g) = {<<i, i + LogicalEnd(n, g)>> : i \in 1 .. LogicalEnd(n, g)}
    BY <1>2 DEF PairsOf
  <2> HIDE DEF m, q, o, in, l
  <2>4. CASE Len(q) = 0
    <3>1. LogicalEnd(m, g) = 0
      BY <2>1, <2>2, <2>4
    <3>2. PairsOf(m, g) = {}
      BY <2>3, <3>1
    <3> QED  BY <1>6, <3>2
  <2>5. CASE Len(q) = 2 /\ Len(in) = 4
    <3>1. LogicalEnd(m, g) = 1 /\ LogicalEnd(n, g) = 2
      BY <2>1, <2>2, <2>5
    <3>2. p[1] = 1 /\ p[2] = 2
      BY <1>6, <2>3, <3>1
    <3>3. <<1, 3>> \in PairsOf(n, g) /\ <<2, 4>> \in PairsOf(n, g)
      BY <2>3, <3>1
    <3>4. Opposite(n, in[1], in[3]) /\ Opposite(n, in[2], in[4])
      BY <1>1, <3>3 DEF Paired, in
    <3> QED  BY <1>3, <2>5, <3>2, <3>4
  <2> QED  BY <1>3, <2>4, <2>5
<1>7. Foldable(m)
  <2>1. m.kind[g] = "lookup"
    BY <1>2
  <2> HIDE DEF m
  <2> QED  BY <1>2, <1>5, <1>6, <2>1, LocalFoldable
<1>8. WellShaped(m)
  BY <1>7 DEF Foldable
<1>9. ASSUME NEW st, ConsistentBut(n, st, g)
      PROVE  ComputeValue(m, st, g) = ComputeValue(n, st, g)
  <2>1. ReadsLevels(n, st, g)
    BY <1>1, <1>9, LevelsRead
  <2>2. st \in [Terminals -> Known] /\ st[Low] = "low" /\ st[High] = "high"
    BY <1>9 DEF ConsistentBut, Valuation
  <2>3. ReadsLevels(m, st, g)
    <3> HIDE DEF m
    <3> QED  BY <1>2, <1>4, <2>1, <2>2, LessRead
  <2>4. ComputeValue(n, st, g) = FromBool(RowOf(n, st, g))
    BY <1>4, <1>5, <2>1, TableValue
  <2>5. ComputeValue(m, st, g) = FromBool(RowOf(m, st, g))
    BY <1>2, <1>4, <1>5, <2>3, TableValue
  <2>6. RowOf(m, st, g) = RowOf(n, st, g)
    <3>1. st[t] = "high" <=> b = 1
      BY <2>2
    <3>2. /\ Len(in) = 2 => RowOf(n, st, g) = IF st[in[1]] = "high" THEN l[2] ELSE l[1]
          /\ Len(in) = 4 => RowOf(n, st, g) =
               IF st[in[2]] = "high" THEN IF st[in[1]] = "high" THEN l[4] ELSE l[3]
                                     ELSE IF st[in[1]] = "high" THEN l[2] ELSE l[1]
      BY Rows
    <3>3. /\ Len(q) = 0 => RowOf(m, st, g) = o[1]
          /\ Len(q) = 2 => RowOf(m, st, g) = IF st[q[1]] = "high" THEN o[2] ELSE o[1]
      BY Rows
    <3>4. 1 + 0 = 1 /\ 1 + 1 = 2 /\ 3 + 0 = 3 /\ 3 + 1 = 4 /\ 1 + 2 * 0 = 1 /\ 1 + 2 * 1 = 3
          /\ 2 + 2 * 0 = 2 /\ 2 + 2 * 1 = 4 /\ 1 + 3 * 0 = 1 /\ 1 + 3 * 1 = 4
      OBVIOUS
    <3> HIDE DEF m, q, o, in, l
    <3>5. CASE b = 0
      BY <1>3, <3>1, <3>2, <3>3, <3>4, <3>5
    <3>6. CASE b = 1
      BY <1>3, <3>1, <3>2, <3>3, <3>4, <3>6
    <3> QED  BY <3>5, <3>6
  <2> QED  BY <2>4, <2>5, <2>6
<1>10. Behaviour(m) = Behaviour(n)
  <2> HIDE DEF m
  <2> QED  BY <1>1, <1>2, <1>8, <1>9, LocalKeeps
<1>11. BitsRead(m) \in SUBSET BitsRead(n)
  <2> HIDE DEF m
  <2> QED  BY <1>1, <1>2, LocalBits
<1> QED  BY <1>4, <1>7, <1>10, <1>11 DEF Keeps

LEMMA FoldTableKeeps ==
  ASSUME NEW n, Foldable(n), NEW g \in Live(n)
  PROVE  Keeps(n, FoldTable(n, g)) /\ g \in Live(FoldTable(n, g))
<1>1. CASE ~ (n.kind[g] = "lookup" /\ (Matches(n, g, High) # {} \/ Matches(n, g, Low) # {}))
  <2>1. FoldTable(n, g) = n
    BY <1>1, Zenon DEF FoldTable
  <2> QED  BY <2>1, KeepsSelf
<1>2. CASE n.kind[g] = "lookup" /\ Matches(n, g, High) # {}
  <2>1. FoldTable(n, g) = TableWithout(n, g, High, 1)
    BY <1>2 DEF FoldTable, TableWithout
  <2> QED  BY <1>2, <2>1, TableWithoutKeeps
<1>3. CASE n.kind[g] = "lookup" /\ Matches(n, g, High) = {} /\ Matches(n, g, Low) # {}
  <2>1. FoldTable(n, g) = TableWithout(n, g, Low, 0)
    BY <1>3 DEF FoldTable, TableWithout
  <2> QED  BY <1>3, <2>1, TableWithoutKeeps
<1> QED  BY <1>1, <1>2, <1>3

\* Canonicalize of a live gate keeps what the network does.
THEOREM CanonicalizeKeepsBehaviour ==
  ASSUME NEW n, Foldable(n), NEW g \in Live(n)
  PROVE  Keeps(n, Canonicalize(n, g))
<1> DEFINE a == DropNeutral(n, g)
           b == OneInputIsNot(a, g)
           c == FoldTable(b, g)
<1>1. Keeps(n, a) /\ g \in Live(a)
  BY DropNeutralKeeps
<1> HIDE DEF a
<1>2. Keeps(a, b) /\ g \in Live(b)
  BY <1>1, OneInputIsNotKeeps DEF Keeps
<1> HIDE DEF b
<1>3. Keeps(b, c) /\ g \in Live(c)
  BY <1>2, FoldTableKeeps DEF Keeps
<1> HIDE DEF c
<1>4. Keeps(n, c)
  BY <1>1, <1>2, <1>3, KeepsTrans
<1>5. Canonicalize(n, g) = IF HasNoUse(c, g) THEN Erase(c, g) ELSE c
  BY DEF Canonicalize, a, b, c
<1>6. HasNoUse(c, g) => Keeps(c, Erase(c, g))
  BY <1>3, EraseKeeps DEF Keeps, HasNoUse
<1> QED  BY <1>4, <1>5, <1>6, KeepsTrans

\* A visit of FoldGates that does not refuse the gate keeps what the network does.
THEOREM FoldKeepsBehaviour ==
  ASSUME NEW n, Foldable(n), NEW g \in Live(n), NEW lower \in BOOLEAN,
         FoldGate(n, g, lower).net.size <= MaxGates, ~ FoldRefuses(n, g)
  PROVE  Keeps(n, FoldGate(n, g, lower).net)
<1> DEFINE c == Canonicalize(n, g)
<1>1. Keeps(n, c) /\ Foldable(c)
  BY CanonicalizeKeepsBehaviour DEF Keeps
<1>2. c.size = n.size /\ g \in Gates
  BY SoundIsWellFormed, CanonicalizeSound, LiveFacts DEF Foldable, Sound
<1>3. FoldGate(n, g, lower).net = Fold(c, g, lower).net
  BY DEF FoldGate
<1>4. FoldsTable(c, g)
  BY DEF FoldRefuses, FoldsTable
<1> HIDE DEF c
<1>5. CASE g \in Live(c)
  <2>1. Keeps(c, Fold(c, g, lower).net)
    BY <1>1, <1>3, <1>4, <1>5, FoldKeeps
  <2> QED  BY <1>1, <1>3, <2>1, KeepsTrans
<1>6. CASE g \notin Live(c)
  <2>1. c.kind[g] = "dead"
    BY <1>2, <1>6 DEF Live
  <2>2. Fold(c, g, lower).net = c
    BY <2>1 DEF Fold, Unchanged
  <2> QED  BY <1>1, <1>3, <2>2
<1> QED  BY <1>5, <1>6

----------------------------------------------------------------------------
(* CseGates.                                                                *)

\* A gate's key mentions what it reads.
LEMMA KeyMentions ==
  ASSUME NEW n, NEW g, NEW t
  PROVE  /\ Mentions(Key(n, g), t) <=> t \in InputsOf(n, g)
         /\ Key(n, g)[1] = n.kind[g] /\ Key(n, g)[2] = n.lut[g]
         /\ n.kind[g] \notin {"nand", "nor"} => Key(n, g)[3] = n.ins[g]
<1> DEFINE f == [x \in InputsOf(n, g) |-> Cardinality(Slots(g, n.ins[g], x))]
<1>1. Key(n, g) = <<n.kind[g], n.lut[g], IF n.kind[g] \in {"nand", "nor"} THEN f ELSE n.ins[g]>>
  BY DEF Key
<1>2. DOMAIN f = InputsOf(n, g)
  OBVIOUS
<1> HIDE DEF f
<1>3. CASE n.kind[g] \in {"nand", "nor"}
  BY <1>1, <1>2, <1>3 DEF Mentions
<1>4. CASE n.kind[g] \notin {"nand", "nor"}
  BY <1>1, <1>4 DEF Mentions, InputsOf
<1> QED  BY <1>3, <1>4

\* Gates of one key have one value.
LEMMA EqualKeys ==
  ASSUME NEW n, Sound(n), WellShaped(n), NoBufferRead(n), NEW g, NEW st, ConsistentBut(n, st, g),
         g \in Live(n), NEW h \in Live(n), Key(n, g) = Key(n, h)
  PROVE  ComputeValue(n, st, g) = ComputeValue(n, st, h)
<1> DEFINE k == Key(n, g)
           l == Key(n, h)
<1>1. k = l
  OBVIOUS
<1>2. k[1] = n.kind[g] /\ k[2] = n.lut[g] /\ (n.kind[g] \notin {"nand", "nor"} => k[3] = n.ins[g])
  BY KeyMentions
<1>3. l[1] = n.kind[h] /\ l[2] = n.lut[h] /\ (n.kind[h] \notin {"nand", "nor"} => l[3] = n.ins[h])
  BY KeyMentions
<1>4. \A t : (Mentions(k, t) <=> t \in InputsOf(n, g)) /\ (Mentions(l, t) <=> t \in InputsOf(n, h))
  BY KeyMentions
<1> HIDE DEF k, l
<1>5. n.kind[g] = n.kind[h] /\ n.lut[g] = n.lut[h]
  BY <1>1, <1>2, <1>3
<1>6. CASE n.kind[g] \notin {"nand", "nor"}
  <2>1. n.ins[g] = n.ins[h]
    BY <1>1, <1>2, <1>3, <1>5, <1>6
  <2>2. Read(n, st, g) = Read(n, st, h)
    BY <2>1 DEF Read
  <2> QED  BY <1>5, <2>2, EqualValues
<1>7. CASE n.kind[g] \in {"nand", "nor"}
  <2>1. \A t : t \in InputsOf(n, g) <=> t \in InputsOf(n, h)
    BY <1>1, <1>4
  <2>2. \A v : (\E i \in DOMAIN n.ins[g] : st[n.ins[g][i]] = v)
               <=> (\E i \in DOMAIN n.ins[h] : st[n.ins[h][i]] = v)
    <3> TAKE v
    <3>1. \A x : (\E i \in DOMAIN n.ins[x] : st[n.ins[x][i]] = v) <=> \E t \in InputsOf(n, x) : st[t] = v
      BY DEF InputsOf
    <3> QED  BY <2>1, <3>1
  <2>3. ReadsLevels(n, st, g) /\ ReadsLevels(n, st, h)
    BY LevelsRead
  <2>4. CASE n.kind[g] = "nand"
    <3>1. n.kind[h] = "nand"
      BY <1>5, <2>4
    <3>2. ComputeValue(n, st, g) =
            IF \E i \in DOMAIN n.ins[g] : st[n.ins[g][i]] = "low" THEN "high" ELSE "low"
      BY <2>3, <2>4, NandValue
    <3>3. ComputeValue(n, st, h) =
            IF \E i \in DOMAIN n.ins[h] : st[n.ins[h][i]] = "low" THEN "high" ELSE "low"
      BY <2>3, <3>1, NandValue
    <3>4. (\E i \in DOMAIN n.ins[g] : st[n.ins[g][i]] = "low")
            <=> (\E i \in DOMAIN n.ins[h] : st[n.ins[h][i]] = "low")
      BY <2>2
    <3> QED  BY <3>2, <3>3, <3>4
  <2>5. CASE n.kind[g] = "nor"
    <3>1. n.kind[h] = "nor"
      BY <1>5, <2>5
    <3>2. ComputeValue(n, st, g) =
            IF \E i \in DOMAIN n.ins[g] : st[n.ins[g][i]] = "high" THEN "low" ELSE "high"
      BY <2>3, <2>5, NorValue
    <3>3. ComputeValue(n, st, h) =
            IF \E i \in DOMAIN n.ins[h] : st[n.ins[h][i]] = "high" THEN "low" ELSE "high"
      BY <2>3, <3>1, NorValue
    <3>4. (\E i \in DOMAIN n.ins[g] : st[n.ins[g][i]] = "high")
            <=> (\E i \in DOMAIN n.ins[h] : st[n.ins[h][i]] = "high")
      BY <2>2
    <3> QED  BY <3>2, <3>3, <3>4
  <2> QED  BY <1>7, <2>4, <2>5
<1> QED  BY <1>6, <1>7

\* A twin is not g and has g's key still: a key that mentions a gate that is gone is
\* the key of no live gate.
LEMMA TwinIsEqual ==
  ASSUME NEW n, Sound(n), NEW g \in Live(n), NEW seen, Current(n, seen),
         \A s \in seen : s[2] # g, NEW h \in Twins(n, seen, g)
  PROVE  h \in Live(n) /\ h # g /\ Key(n, h) = Key(n, g)
<1>1. PICK s \in seen : s[1] = Key(n, g) /\ h = s[2]
  BY DEF Twins
<1>2. \A t \in Gates \ Live(n) : ~ Mentions(s[1], t)
  <2> SUFFICES ASSUME NEW t \in Gates \ Live(n), Mentions(s[1], t)
               PROVE  FALSE
    OBVIOUS
  <2>1. t \in InputsOf(n, g)
    BY <1>1, KeyMentions
  <2>2. t \in LiveTerminals(n)
    BY <2>1, LiveInputs DEF InputsOf
  <2> QED  BY <2>2, TerminalsApart DEF LiveTerminals
<1> QED  BY <1>1, <1>2 DEF Current

\* What is seen after a visit of the walk.
SeenAfter(n, seen, g) ==
  IF Twins(n, seen, g) = {} THEN seen \cup {<<Key(n, g), g>>} ELSE seen

\* A visit of CseGates keeps what the network does, and the keys that it has listed can
\* be relied on at the next visit: no gate is merged with one that differs from it by now.
THEOREM CseKeepsBehaviour ==
  ASSUME NEW n, Foldable(n), NEW g \in Live(n), NEW seen, Current(n, seen),
         \A s \in seen : s[2] # g
  PROVE  LET m == CseGate(n, seen, g).net
         IN  Keeps(n, m) /\ Current(m, SeenAfter(n, seen, g))
<1>1. Sound(n) /\ WellShaped(n) /\ NoBufferRead(n)
  BY SoundIsWellFormed DEF Foldable
<1>2. CASE Twins(n, seen, g) = {}
  <2>1. CseGate(n, seen, g).net = n
    BY <1>2 DEF CseGate, Unchanged
  <2>2. Current(n, SeenAfter(n, seen, g))
    BY <1>2 DEF SeenAfter, Current
  <2> QED  BY <2>1, <2>2, KeepsSelf
<1>3. CASE Twins(n, seen, g) # {}
  <2> DEFINE h == CHOOSE h \in Twins(n, seen, g) : TRUE
             p == ReplaceAllUsesWith(n, g, h)
             m == Erase(p, g)
  <2>1. CseGate(n, seen, g).net = m
    BY <1>3 DEF CseGate
  <2>2. h \in Twins(n, seen, g)
    BY <1>3
  <2> HIDE DEF h
  <2>3. h \in Live(n) /\ h # g /\ Key(n, h) = Key(n, g)
    BY <1>1, <2>2, TwinIsEqual
  <2>4. h \in LiveTerminals(n) /\ n.kind[h] = n.kind[g]
        /\ (n.kind[g] = "not" => n.ins[h] = n.ins[g]) /\ h \in Gates
    BY <1>1, <2>3, KeyMentions, LiveFacts DEF Sound
  <2>5. /\ Sound(p) /\ Live(p) = Live(n) /\ p.outs = n.outs /\ p.kind = n.kind
        /\ p.lut = n.lut /\ p.uses[g] = {}
        /\ \A u \in Users : /\ DOMAIN p.ins[u] = DOMAIN n.ins[u]
                            /\ \A i \in DOMAIN n.ins[u] :
                                 p.ins[u][i] = Instead(g, h, n.ins[u][i])
    BY <1>1, <2>3, <2>4, ReplacedFields
  <2>6. ASSUME NEW st, ConsistentBut(n, st, g)
        PROVE  ComputeValue(n, st, g) = st[h]
    <3>1. st[h] = ComputeValue(n, st, h)
      BY <2>3, <2>6 DEF ConsistentBut
    <3> QED  BY <1>1, <2>3, <2>6, <3>1, EqualKeys
  <2>7. n.kind[g] = "not" => Opposite(p, Instead(g, h, n.ins[g][1]), h)
    <3> SUFFICES ASSUME n.kind[g] = "not"
                 PROVE  Opposite(p, Instead(g, h, n.ins[g][1]), h)
      OBVIOUS
    <3>1. 1 \in DOMAIN n.ins[h] /\ h \in Users
      BY <1>1, <2>3, <2>4, LiveInputs, TerminalsApart DEF WellShaped
    <3>2. p.ins[h][1] = Instead(g, h, n.ins[g][1])
      BY <2>4, <2>5, <3>1
    <3> QED  BY <2>4, <2>5, <3>2 DEF Opposite, IsNotOf
  <2>8. Foldable(p)
    BY <2>3, <2>4, <2>7, ReplaceFoldable
  <2>9. Behaviour(p) = Behaviour(n)
    <3>1. WellShaped(p)
      BY <2>8 DEF Foldable
    <3>2. Replaces(n, g, h)
      BY <2>3, <2>4, <2>6 DEF Replaces
    <3> QED  BY <1>1, <3>1, <3>2, ReplaceKeeps
  <2>10. BitsRead(p) \in SUBSET BitsRead(n)
    <3>1. h \notin Inputs
      BY <2>4, TerminalsApart
    <3> QED  BY <1>1, <2>3, <2>4, <3>1, ReplacedBits
  <2> HIDE DEF p
  <2>11. Keeps(p, m)
    BY <2>5, <2>8, EraseKeeps
  <2>12. /\ Live(m) = Live(n) \ {g} /\ m.lut = n.lut
         /\ \A u \in Gates \ {g} : m.kind[u] = n.kind[u] /\ m.ins[u] = p.ins[u]
    BY <2>5, EraseFields
  <2> HIDE DEF m
  <2>13. Current(m, seen)
    <3> SUFFICES ASSUME NEW s \in seen
                 PROVE  /\ s[2] \in Live(m)
                        /\ \/ s[1] = Key(m, s[2])
                           \/ \E t \in Gates \ Live(m) : Mentions(s[1], t)
      BY DEF Current
    <3> DEFINE u == s[2]
    <3>1. u \in Live(n) /\ u # g /\ u \in Gates /\ g \in Gates /\ Gates \in SUBSET Users
      BY <1>1, LiveFacts, TerminalsApart DEF Current, Sound
    <3>2. CASE \E t \in Gates \ Live(n) : Mentions(s[1], t)
      BY <2>12, <3>1, <3>2
    <3>3. CASE s[1] = Key(n, u) /\ g \in InputsOf(n, u)
      <4>1. Mentions(s[1], g)
        BY <3>3, KeyMentions
      <4> QED  BY <2>12, <3>1, <4>1
    <3>4. CASE s[1] = Key(n, u) /\ g \notin InputsOf(n, u)
      <4>1. \A i \in DOMAIN n.ins[u] : p.ins[u][i] = n.ins[u][i]
        BY <2>5, <3>1, <3>4 DEF Instead, InputsOf
      <4>2. p.ins[u] = n.ins[u]
        <5>1. p.ins[u] \in Seq(Terminals \cup {Null}) /\ n.ins[u] \in Seq(Terminals \cup {Null})
          BY <1>1, <2>5, <3>1, InputPositions DEF Sound
        <5>2. DOMAIN p.ins[u] = DOMAIN n.ins[u]
          BY <2>5, <3>1
        <5> QED  BY <4>1, <5>1, <5>2
      <4>3. m.ins[u] = n.ins[u] /\ m.kind[u] = n.kind[u] /\ m.lut[u] = n.lut[u]
        BY <2>12, <3>1, <4>2
      <4>4. Key(m, u) = Key(n, u)
        BY <4>3, Zenon DEF Key, InputsOf
      <4> QED  BY <2>12, <3>1, <3>4, <4>4
    <3> QED  BY <3>2, <3>3, <3>4 DEF Current
  <2>14. SeenAfter(n, seen, g) = seen
    BY <1>3 DEF SeenAfter
  <2> QED  BY <2>1, <2>8, <2>9, <2>10, <2>11, <2>13, <2>14 DEF Keeps
<1> QED  BY <1>2, <1>3

=============================================================================
