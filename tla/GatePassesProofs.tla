--------------------------- MODULE GatePassesProofs ---------------------------
(****************************************************************************)
(* The passes keep what the front end's network does: proofs for every      *)
(* front end, every number of gates and every order of the visits.          *)
(*                                                                          *)
(* GateFoldsProofs has the visits of the canonicalizer, of FoldGates and of *)
(* CseGates.  Here are those of LowerFpgaGates, which first adds gates and  *)
(* then has one of them replace the gate it visits; of FactorGates; the     *)
(* calls of the front end; and the state machine.  A pass is compared by    *)
(* what the network does as GateEval finds it, by a search through the      *)
(* values its gates may have: that the search finds every state in which    *)
(* all gates have their values, and no other, is FunctionOfBehaviour.  Then *)
(* what LowerFpgaGates ends with, and last what MergeGates is told by its   *)
(* analyses: the order, the tree of post-dominators and the cuts.           *)
(****************************************************************************)
EXTENDS GatePasses, GateFoldsProofs

----------------------------------------------------------------------------
(* Lists of new gates.                                                      *)

\* The biggest of 1 .. k is k, where k is one of them.
LEMMA MaxLast ==
  ASSUME NEW k \in Nat, NEW s \in SUBSET (1 .. k), k \in s
  PROVE  Max(s) = k
<1>1. k \in s /\ \A y \in s : k >= y
  OBVIOUS
<1>2. Max(s) \in s /\ \A y \in s : Max(s) >= y
  <2> DEFINE P(x) == \A y \in s : x >= y
  <2>1. \E x \in s : P(x)
    BY <1>1
  <2>2. Max(s) = CHOOSE x \in s : P(x)
    BY DEF Max
  <2> HIDE DEF P
  <2>3. Max(s) \in s /\ P(Max(s))
    BY <2>1, <2>2
  <2> QED  BY <2>3 DEF P
<1>3. Max(s) \in 1 .. k /\ Max(s) >= k
  BY <1>1, <1>2
<1> QED  BY <1>3

\* Induction up to l, with the numbers for which it holds as a set.
LEMMA UpTo ==
  ASSUME NEW S, NEW l \in Nat, 0 \in S, \A k \in 1 .. l : k - 1 \in S => k \in S
  PROVE  \A k \in 0 .. l : k \in S
<1> DEFINE T == {k \in 0 .. l : k \notin S}
<1> SUFFICES ASSUME T # {} PROVE FALSE
  OBVIOUS
<1>1. PICK m \in T : \A k \in T : m <= k
  BY LeastElement, T \in SUBSET Nat
<1>2. m \in 1 .. l /\ m - 1 \in 0 .. l /\ ~ (m <= m - 1)
  OBVIOUS
<1> QED  BY <1>1, <1>2

\* What each of the loops that analyse the graph does with one element x of its sequence,
\* or in its next round: what lies downstream or is determined; a user in the list; a user,
\* a terminal and a ready one in the order; the way up from two terminals; the ancestor of
\* one more user; a terminal in the tree; a path of the walk and a round of it; a cut, the
\* joins of one with another input's, those of all, and the cuts of one more gate.
DownRound(n, acc) == acc \cup UNION {UsersOf(n, t) : t \in acc \ {Sink}}
FixedBy(n, acc) ==
  acc \cup {g \in Live(n) : n.ins[g] # << >> /\ InputsOf(n, g) \subseteq acc}
ReadAt(n, t, u) == {i \in DOMAIN n.ins[u] : n.ins[u][i] = t}
WithUser(n, t, list, u) == list \o [k \in 1 .. Cardinality(ReadAt(n, t, u)) |-> u]
Processed(n, sinks, acc, u) ==
  IF u \in sinks THEN acc
  ELSE [acc EXCEPT
          !.processed[u] = @ + 1,
          !.ready = IF acc.processed[u] + 1 = Len(n.ins[u]) THEN Append(@, u) ELSE @]
FromReady(n, sinks, s) ==
  IF s.ready = << >> THEN s
  ELSE TopoVisit(n, sinks, [s EXCEPT !.ready = Tail(@)], Head(s.ready))
DeepUp(tree, p) == IF tree[p[2]].depth > tree[p[1]].depth THEN <<p[1], tree[p[2]].up>> ELSE p
BothUp(tree, p) == IF p[1] = p[2] THEN p ELSE <<tree[p[1]].up, tree[p[2]].up>>
Grafted(n, default, tree, t) == Graft(tree, t, PostDominator(tree, default, UserList(n, t)))
PathsBelow(tree, p) == [k \in DOMAIN tree[Last(p)].kids |-> Append(p, tree[Last(p)].kids[k])]
WithPath(tree, depth, paths, p) ==
  paths \o <<p>> \o IF Len(p) = depth THEN PathsBelow(tree, p) ELSE << >>
AllPaths(tree, depth, paths) ==
  FoldLeft(LAMBDA acc, p : WithPath(tree, depth, acc, p), << >>, paths)
OneDeeper(tree, s) == [paths |-> AllPaths(tree, s.depth, s.paths), depth |-> s.depth + 1]
JoinsOf(cuts, t, acc) ==
  LET all == [k \in DOMAIN cuts[t] |-> Joined(acc, cuts[t][k])]
  IN  Compact(all, {k \in DOMAIN all : Len(all[k]) <= 2})
WithJoins(cuts, t, all, acc) == all \o JoinsOf(cuts, t, acc)
AllJoins(cuts, t, accs) == FoldLeft(LAMBDA all, acc : WithJoins(cuts, t, all, acc), << >>, accs)
Asked(cuts, s, t) ==
  IF s.accs = << >> THEN s
  ELSE [accs |-> AllJoins(cuts, t, s.accs), asked |-> Append(s.asked, t)]
OwnCut(n, out) == IF Len(n.ins[out]) <= 2 THEN << <<out>> >> ELSE << >>
WithCuts(n, s, out) ==
  LET collected == Collect(s.cuts, n.ins[out])
  IN  [ cuts   |-> [s.cuts EXCEPT ![out] = FoldLeft(AppendNew, @, OwnCut(n, out) \o collected.accs)],
        listed |-> FoldLeft(AppendNew, s.listed, <<out>> \o collected.asked) ]
Traced(op, acc, x) ==
  CASE op[1] = "down"   -> DownRound(op[2], acc)
    [] op[1] = "fixed"  -> FixedBy(op[2], acc)
    [] op[1] = "user"   -> WithUser(op[2], op[3], acc, x)
    [] op[1] = "count"  -> Processed(op[2], op[3], acc, x)
    [] op[1] = "visit"  -> TopoVisit(op[2], op[3], acc, x)
    [] op[1] = "ready"  -> FromReady(op[2], op[3], acc)
    [] op[1] = "deep"   -> DeepUp(op[2], acc)
    [] op[1] = "both"   -> BothUp(op[2], acc)
    [] op[1] = "lowest" -> LowestCommon(op[2], op[3], x, acc)
    [] op[1] = "graft"  -> Grafted(op[2], op[3], acc, x)
    [] op[1] = "path"   -> WithPath(op[2], op[3], acc, x)
    [] op[1] = "deeper" -> OneDeeper(op[2], acc)
    [] op[1] = "new"    -> AppendNew(acc, x)
    [] op[1] = "join"   -> WithJoins(op[2], op[3], acc, x)
    [] op[1] = "ask"    -> Asked(op[2], acc, x)
    [] op[1] = "cuts"   -> WithCuts(op[2], acc, x)

\* What each of the folds of the passes does with one element x of its sequence: a NOT,
\* a gate of one kind, an output, an input less, a gate of a group that is factored.
Nothing(n) == [net |-> n, outs |-> << >>]
WithNot(acc, t) ==
  LET m == NotOf(acc.net, t) IN [net |-> m.net, outs |-> Append(acc.outs, m.out)]
WithGate(acc, kind, ins) ==
  LET m == NewGate(acc.net, kind, ins) IN [net |-> m.net, outs |-> Append(acc.outs, m.out)]
Advanced(op, acc, x) ==
  CASE op[1] = "not"    -> WithNot(acc, x)
    [] op[1] = "gate"   -> WithGate(acc, op[2], x)
    [] op[1] = "output" -> DeclareOutput(acc, x)
    [] op[1] = "erase"  -> EraseInputs(acc, op[2], x)
    [] op[1] = "factor" -> FactorOne(acc, op[2], op[3], op[4], x)
    [] op[1] = "graph"  -> Traced(op[2], acc, x)

\* The results of a fold, as FoldLeft defines them and one after the other.
Folds(op, base, args, iter) ==
  iter = [s \in SUBSET DOMAIN args |->
            IF s = {} THEN base ELSE Advanced(op, iter[s \ {Max(s)}], args[Max(s)])]
Steps(op, base, args, acc) ==
  acc[0] = base /\ \A k \in 1 .. Len(args) : acc[k] = Advanced(op, acc[k - 1], args[k])

\* There are such results.
LEMMA FoldsExist ==
  ASSUME NEW op, NEW base, NEW S, NEW args \in Seq(S)
  PROVE  \E iter : Folds(op, base, args, iter)
<1> DEFINE Next1(f, s) == Advanced(op, f[s \ {Max(s)}], args[Max(s)])
           Folds1(f, k) == f = [s \in SUBSET (1 .. k) |-> IF s = {} THEN base ELSE Next1(f, s)]
           T == {k \in Nat : ~ \E f : Folds1(f, k)}
<1>1. T = {}
  <2> SUFFICES ASSUME T # {} PROVE FALSE
    OBVIOUS
  <2>1. PICK m \in T : \A k \in T : m <= k
    BY LeastElement, T \in SUBSET Nat
  <2>2. m # 0
    <3> DEFINE f == [s \in SUBSET (1 .. 0) |-> base]
    <3>1. Folds1(f, 0)
      OBVIOUS
    <3> QED  BY <3>1
  <2>3. PICK k \in Nat : m = k + 1 /\ k \notin T
    <3>1. m - 1 \in Nat /\ m = (m - 1) + 1 /\ ~ (m <= m - 1)
      BY <2>2
    <3> QED  BY <2>1, <3>1
  <2>4. PICK f : Folds1(f, k)
    BY <2>3
  <2> DEFINE e == [s \in SUBSET (1 .. k + 1) |->
                     IF k + 1 \in s THEN Advanced(op, f[s \ {k + 1}], args[k + 1]) ELSE f[s]]
  <2>5. ASSUME NEW s \in SUBSET (1 .. k + 1)
        PROVE  e[s] = IF s = {} THEN base ELSE Next1(e, s)
    <3>1. CASE k + 1 \in s
      <4>1. Max(s) = k + 1
        BY <3>1, k + 1 \in Nat, MaxLast
      <4>2. s \ {k + 1} \in SUBSET (1 .. k) /\ s \ {k + 1} \in SUBSET (1 .. k + 1)
        OBVIOUS
      <4>3. e[s \ {k + 1}] = f[s \ {k + 1}]
        BY <4>2
      <4> QED  BY <3>1, <4>1, <4>3
    <3>2. CASE k + 1 \notin s
      <4>1. s \in SUBSET (1 .. k)
        BY <3>2
      <4>2. e[s] = f[s]
        BY <3>2
      <4>3. CASE s = {}
        BY <2>4, <4>1, <4>2, <4>3
      <4>4. CASE s # {}
        <5>1. e[s \ {Max(s)}] = f[s \ {Max(s)}]
          BY <3>2
        <5>2. f[s] = Next1(f, s)
          BY <2>4, <4>1, <4>4
        <5> QED  BY <4>2, <4>4, <5>1, <5>2
      <4> QED  BY <4>3, <4>4
    <3> QED  BY <3>1, <3>2
  <2>6. Folds1(e, k + 1)
    BY <2>5
  <2> QED  BY <2>1, <2>3, <2>6
<1>2. Len(args) \in Nat /\ DOMAIN args = 1 .. Len(args)
  OBVIOUS
<1>3. \E f : Folds1(f, Len(args))
  <2> HIDE DEF Folds1
  <2> QED  BY <1>1, <1>2
<1> QED  BY <1>2, <1>3 DEF Folds

\* They come one after the other.
LEMMA FoldSteps ==
  ASSUME NEW op, NEW base, NEW S, NEW args \in Seq(S), NEW iter, Folds(op, base, args, iter)
  PROVE  \E acc : Steps(op, base, args, acc) /\ iter[DOMAIN args] = acc[Len(args)]
<1> DEFINE Next1(s) == Advanced(op, iter[s \ {Max(s)}], args[Max(s)])
           acc == [k \in 0 .. Len(args) |-> iter[1 .. k]]
<1>1. Len(args) \in Nat /\ 1 .. 0 = {} /\ DOMAIN args = 1 .. Len(args)
  OBVIOUS
<1>2. \A s \in SUBSET (1 .. Len(args)) : iter[s] = IF s = {} THEN base ELSE Next1(s)
  BY <1>1 DEF Folds
<1>3. acc[0] = base
  <2>1. iter[{}] = base /\ 0 \in 0 .. Len(args)
    <3>1. {} \in SUBSET (1 .. Len(args))
      OBVIOUS
    <3> HIDE DEF Next1, acc
    <3> QED  BY <1>1, <1>2, <3>1
  <2>2. acc[0] = iter[1 .. 0]
    BY <2>1
  <2> QED  BY <1>1, <2>1, <2>2
<1>4. ASSUME NEW k \in 1 .. Len(args)
      PROVE  acc[k] = Advanced(op, acc[k - 1], args[k])
  <2>1. k - 1 \in Nat /\ (k - 1) + 1 = k
    BY <1>1
  <2>2. k \in Nat /\ k \in 1 .. k /\ 1 .. k \in SUBSET (1 .. Len(args))
    BY <1>1, <2>1
  <2>3. Max(1 .. k) = k
    BY <2>2, MaxLast
  <2>4. (1 .. k) \ {k} = 1 .. k - 1 /\ 1 .. k # {}
    <3>1. \A j : j \in (1 .. k) \ {k} <=> j \in 1 .. k - 1
      BY <2>1, <2>2
    <3> QED  BY <2>2, <3>1
  <2>5. iter[1 .. k] = Advanced(op, iter[1 .. k - 1], args[k])
    <3>1. iter[1 .. k] = Next1(1 .. k)
      BY <1>2, <2>2, <2>4
    <3> QED  BY <2>3, <2>4, <3>1
  <2>6. k \in 0 .. Len(args) /\ k - 1 \in 0 .. Len(args)
    BY <1>1, <2>1
  <2> QED  BY <2>5, <2>6
<1>5. iter[DOMAIN args] = acc[Len(args)]
  <2>1. Len(args) \in 0 .. Len(args)
    BY <1>1
  <2> QED  BY <1>1, <2>1
<1> HIDE DEF acc
<1> QED  BY <1>3, <1>4, <1>5 DEF Steps

\* AddAll with NotOf, input by input.
AllNots(n, args) == AddAll(n, args, NotOf)
LEMMA AddNots ==
  ASSUME NEW n, NEW S, NEW args \in Seq(S)
  PROVE  \E acc : /\ acc[0] = Nothing(n)
                  /\ \A k \in 1 .. Len(args) : acc[k] = WithNot(acc[k - 1], args[k])
                  /\ AllNots(n, args) = acc[Len(args)]
<1> DEFINE op == <<"not">>
           Own(f) == f = [s \in SUBSET DOMAIN args |->
                            IF s = {} THEN Nothing(n) ELSE WithNot(f[s \ {Max(s)}], args[Max(s)])]
           iter == CHOOSE f : Own(f)
<1>1. \A acc, x : Advanced(op, acc, x) = WithNot(acc, x)
  BY DEF Advanced
<1> HIDE DEF op
<1>2. \A f : Own(f) <=> Folds(op, Nothing(n), args, f)
  BY <1>1 DEF Folds
<1>3. AllNots(n, args) = iter[DOMAIN args]
  BY DEF AllNots, AddAll, FoldLeft, MapThenFoldSet, WithNot, Nothing
<1>4. Folds(op, Nothing(n), args, iter)
  <2> HIDE DEF Own
  <2> QED  BY <1>2, FoldsExist
<1> HIDE DEF iter
<1>5. PICK acc : Steps(op, Nothing(n), args, acc) /\ iter[DOMAIN args] = acc[Len(args)]
  BY <1>4, FoldSteps
<1> QED  BY <1>1, <1>3, <1>5 DEF Steps

\* AddAll with gates of one kind, gate by gate.
AllGates(n, kind, args) == AddAll(n, args, LAMBDA m, ins : NewGate(m, kind, ins))
GateSteps(n, kind, args, acc) ==
  /\ acc[0] = Nothing(n)
  /\ \A k \in 1 .. Len(args) : acc[k] = WithGate(acc[k - 1], kind, args[k])
  /\ AllGates(n, kind, args) = acc[Len(args)]
LEMMA AddGates ==
  ASSUME NEW n, NEW kind, NEW S, NEW args \in Seq(S)
  PROVE  \E acc : GateSteps(n, kind, args, acc)
<1> DEFINE op == <<"gate", kind>>
           Own(f) == f = [s \in SUBSET DOMAIN args |->
                            IF s = {} THEN Nothing(n)
                            ELSE WithGate(f[s \ {Max(s)}], kind, args[Max(s)])]
           iter == CHOOSE f : Own(f)
<1>1. \A acc, x : Advanced(op, acc, x) = WithGate(acc, kind, x)
  BY DEF Advanced
<1> HIDE DEF op
<1>2. \A f : Own(f) <=> Folds(op, Nothing(n), args, f)
  BY <1>1 DEF Folds
<1>3. AllGates(n, kind, args) = iter[DOMAIN args]
  BY DEF AllGates, AddAll, FoldLeft, MapThenFoldSet, WithGate, Nothing
<1>4. Folds(op, Nothing(n), args, iter)
  <2> HIDE DEF Own
  <2> QED  BY <1>2, FoldsExist
<1> HIDE DEF iter
<1>5. PICK acc : Steps(op, Nothing(n), args, acc) /\ iter[DOMAIN args] = acc[Len(args)]
  BY <1>4, FoldSteps
<1> QED  BY <1>1, <1>3, <1>5 DEF Steps, GateSteps

\* The outputs of the front end, one by one.
AllOutputs(n, args) == FoldLeft(DeclareOutput, n, args)
LEMMA AddOutputs ==
  ASSUME NEW n, NEW S, NEW args \in Seq(S)
  PROVE  \E acc : /\ acc[0] = n
                  /\ \A k \in 1 .. Len(args) : acc[k] = DeclareOutput(acc[k - 1], args[k])
                  /\ AllOutputs(n, args) = acc[Len(args)]
<1> DEFINE op == <<"output">>
           Own(f) == f = [s \in SUBSET DOMAIN args |->
                            IF s = {} THEN n ELSE DeclareOutput(f[s \ {Max(s)}], args[Max(s)])]
           iter == CHOOSE f : Own(f)
<1>1. \A acc, x : Advanced(op, acc, x) = DeclareOutput(acc, x)
  BY DEF Advanced
<1> HIDE DEF op
<1>2. \A f : Own(f) <=> Folds(op, n, args, f)
  BY <1>1 DEF Folds
<1>3. AllOutputs(n, args) = iter[DOMAIN args]
  BY DEF AllOutputs, FoldLeft, MapThenFoldSet
<1>4. Folds(op, n, args, iter)
  <2> HIDE DEF Own
  <2> QED  BY <1>2, FoldsExist
<1> HIDE DEF iter
<1>5. PICK acc : Steps(op, n, args, acc) /\ iter[DOMAIN args] = acc[Len(args)]
  BY <1>4, FoldSteps
<1> QED  BY <1>1, <1>3, <1>5 DEF Steps

----------------------------------------------------------------------------
(* Networks that grow.                                                      *)

\* m does what n does and has all its gates, as they were.
Grown(n, m) ==
  /\ Keeps(n, m)
  /\ \A u \in Live(n) : u \in Live(m) /\ m.kind[u] = n.kind[u] /\ m.ins[u] = n.ins[u]
  /\ Plain(n) \in SUBSET Plain(m)

\* A sequence of terminals is one of a bigger set of them.
LEMMA SeqOfMore ==
  ASSUME NEW S, NEW T, S \in SUBSET T, NEW s \in Seq(S)
  PROVE  s \in Seq(T)
<1>1. Len(s) \in Nat /\ s = [i \in 1 .. Len(s) |-> s[i]] /\ \A i \in 1 .. Len(s) : s[i] \in T
  OBVIOUS
<1> QED  BY <1>1

\* No gate more.
LEMMA GrownSelf == ASSUME NEW n, Foldable(n) PROVE Grown(n, n)
BY KeepsSelf DEF Grown

\* One addition after another.
LEMMA GrownTrans ==
  ASSUME NEW n, NEW m, NEW p, Grown(n, m), Grown(m, p)
  PROVE  Grown(n, p)
<1>1. Keeps(n, p)
  BY KeepsTrans DEF Grown
<1> QED  BY <1>1 DEF Grown

\* A terminal keeps its complement.
LEMMA GrownOpposite ==
  ASSUME NEW n, NEW m, Grown(n, m), NEW a, NEW b, Opposite(n, a, b)
  PROVE  Opposite(m, a, b)
<1>1. ASSUME NEW x, NEW y, IsNotOf(n, y, x)
      PROVE  IsNotOf(m, y, x)
  <2>1. y \in Live(n)
    BY <1>1 DEF IsNotOf, Live
  <2> QED  BY <1>1, <2>1 DEF IsNotOf, Grown
<1> QED  BY <1>1 DEF Opposite

\* A new NAND or NOR.
LEMMA GateGrown ==
  ASSUME NEW n, Foldable(n), n.size + 1 <= MaxGates, NEW k \in {"not", "nand", "nor"},
         NEW s \in Seq(Plain(n)), k = "not" => Len(s) = 1
  PROVE  LET b == NewGate(n, k, s)
         IN  /\ Grown(n, b.net) /\ b.out \in Plain(b.net)
             /\ b.out \in Live(b.net) /\ b.out \notin Live(n) /\ b.out \in Gates
             /\ b.net.kind[b.out] = k /\ b.net.ins[b.out] = s
<1> DEFINE b == NewGate(n, k, s)
<1>1. n.size < MaxGates
  BY FoldableSize, NetAssumption
<1>2. /\ Keeps(n, b.net) /\ Adds(n, b.net, b.out, k, s)
      /\ Plain(n) \in SUBSET Plain(b.net) /\ b.out \in Plain(b.net)
  BY <1>1, NewGateKeeps
<1> HIDE DEF b
<1>3. /\ b.out \in Live(b.net) /\ b.out \notin Live(n) /\ b.out \in Gates
      /\ b.net.kind[b.out] = k /\ b.net.ins[b.out] = s
  BY <1>2 DEF Adds
<1>4. \A u \in Live(n) : u \in Live(b.net) /\ b.net.kind[u] = n.kind[u] /\ b.net.ins[u] = n.ins[u]
  BY <1>2 DEF Adds
<1>5. Grown(n, b.net)
  BY <1>2, <1>4 DEF Grown
<1> QED  BY <1>2, <1>3, <1>5 DEF b

\* NotOf: a new gate, the complement that is there, or a constant.
LEMMA NotGrown ==
  ASSUME NEW n, Foldable(n), NEW t \in Plain(n), NotOf(n, t).net.size <= MaxGates
  PROVE  LET b == NotOf(n, t)
         IN  Grown(n, b.net) /\ b.out \in Plain(b.net) /\ Opposite(b.net, t, b.out)
<1>1. Low \in Plain(n) /\ High \in Plain(n) /\ Low # High
  BY SoundIsWellFormed, LiveFacts, TerminalsApart DEF Plain, Foldable, Sound
<1>2. CASE t = High
  <2>1. NotOf(n, t).net = n /\ NotOf(n, t).out = Low
    BY <1>2 DEF NotOf
  <2> QED  BY <1>1, <1>2, <2>1, GrownSelf DEF Opposite
<1>3. CASE t = Low
  <2>1. NotOf(n, t).net = n /\ NotOf(n, t).out = High
    BY <1>1, <1>3 DEF NotOf
  <2> QED  BY <1>1, <1>3, <2>1, GrownSelf DEF Opposite
<1>4. CASE t # High /\ t # Low
  <2> DEFINE s == <<t>>
             b == NewGate(n, "not", s)
  <2>1. NotOf(n, t) = b
    BY <1>4 DEF NotOf
  <2>2. s \in Seq(Plain(n)) /\ Len(s) = 1 /\ s[1] = t
    OBVIOUS
  <2> HIDE DEF s
  <2>3. n.size + 1 <= MaxGates
    BY <2>1, FoldableSize, NewGateSize
  <2>4. /\ Grown(n, b.net) /\ b.out \in Plain(b.net) /\ b.out \in Gates
        /\ b.net.kind[b.out] = "not" /\ b.net.ins[b.out] = s
    BY <2>2, <2>3, GateGrown
  <2> HIDE DEF b
  <2>5. Opposite(b.net, t, b.out)
    BY <2>2, <2>4 DEF Opposite, IsNotOf
  <2> QED  BY <2>1, <2>4, <2>5
<1> QED  BY <1>2, <1>3, <1>4

\* A network and terminals of it, after k of the gates of a list.
Complements(n, args, k, acc) ==
  /\ Grown(n, acc.net)
  /\ acc.outs \in Seq(Plain(acc.net)) /\ Len(acc.outs) = k
  /\ \A i \in 1 .. k : Opposite(acc.net, args[i], acc.outs[i])

\* The complements of a list of terminals.
LEMMA NotsGrown ==
  ASSUME NEW n, Foldable(n), NEW args \in Seq(Plain(n))
  PROVE  LET all == AllNots(n, args)
         IN  /\ "size" \in DOMAIN all.net /\ all.net.size \in Nat
             /\ all.net.size <= MaxGates => Complements(n, args, Len(args), all)
<1> DEFINE l == Len(args)
           all == AllNots(n, args)
<1>1. PICK acc : /\ acc[0] = Nothing(n)
                 /\ \A k \in 1 .. l : acc[k] = WithNot(acc[k - 1], args[k])
                 /\ all = acc[l]
  BY AddNots
<1> HIDE DEF all
<1>2. l \in Nat /\ \A i \in 1 .. l : args[i] \in Plain(n)
  OBVIOUS
<1> HIDE DEF l
<1>3. acc[0].net = n /\ acc[0].outs = << >>
  BY <1>1 DEF Nothing
<1>4. ASSUME NEW k \in 1 .. l
      PROVE  /\ acc[k].net = NotOf(acc[k - 1].net, args[k]).net
             /\ acc[k].outs = Append(acc[k - 1].outs, NotOf(acc[k - 1].net, args[k]).out)
  <2>1. acc[k] = WithNot(acc[k - 1], args[k])
    BY <1>1
  <2> QED  BY <2>1 DEF WithNot
<1> DEFINE Sized == {k \in 0 .. l : "size" \in DOMAIN acc[k].net /\ acc[k].net.size \in Nat}
<1>5. \A k \in 0 .. l : k \in Sized
  <2>1. 0 \in Sized
    BY <1>2, <1>3, FoldableSize
  <2>2. ASSUME NEW k \in 1 .. l, k - 1 \in Sized
        PROVE  k \in Sized
    <3>1. /\ "size" \in DOMAIN acc[k].net
          /\ acc[k].net.size \in {acc[k - 1].net.size, acc[k - 1].net.size + 1}
      BY <1>4, <2>2, NotOfSize
    <3> QED  BY <2>2, <3>1
  <2> HIDE DEF Sized
  <2> QED  BY <1>2, <2>1, <2>2, UpTo
<1> DEFINE Good == {k \in 0 .. l :
                      acc[k].net.size <= MaxGates => Complements(n, args, k, acc[k])}
<1>6. \A k \in 0 .. l : k \in Good
  <2>1. 0 \in Good
    <3>1. << >> \in Seq(Plain(n)) /\ Len(<< >>) = 0 /\ 1 .. 0 = {} /\ 0 \in 0 .. l
      BY <1>2
    <3> QED  BY <1>3, <3>1, GrownSelf DEF Complements
  <2>2. ASSUME NEW k \in 1 .. l, k - 1 \in Good, acc[k].net.size <= MaxGates
        PROVE  Complements(n, args, k, acc[k])
    <3> DEFINE m == acc[k - 1].net
               o == acc[k - 1].outs
               b == NotOf(m, args[k])
    <3>1. k - 1 \in 0 .. l /\ k \in 0 .. l /\ k - 1 \in Nat
      BY <1>2
    <3>2. m.size <= MaxGates
      <4>1. /\ acc[k].net.size \in {m.size, m.size + 1}
            /\ acc[k].net.size \in Nat /\ m.size \in Nat
        <5>1. k \in Sized /\ k - 1 \in Sized
          BY <1>5, <3>1
        <5> QED  BY <1>4, <5>1, NotOfSize
      <4>2. acc[k].net.size <= MaxGates
        BY <2>2
      <4> HIDE DEF m
      <4> QED  BY <4>1, <4>2, NetAssumption
    <3>3. /\ Grown(n, m) /\ o \in Seq(Plain(m)) /\ Len(o) = k - 1
          /\ \A i \in 1 .. k - 1 : Opposite(m, args[i], o[i])
      BY <2>2, <3>2 DEF Complements
    <3>4. Foldable(m) /\ args[k] \in Plain(m)
      BY <1>2, <3>3 DEF Grown, Keeps
    <3>5. acc[k].net = b.net /\ acc[k].outs = Append(o, b.out)
      BY <1>4
    <3> HIDE DEF m, o
    <3>6. Grown(m, b.net) /\ b.out \in Plain(b.net) /\ Opposite(b.net, args[k], b.out)
      BY <2>2, <3>4, <3>5, NotGrown
    <3> HIDE DEF b
    <3>7. Grown(n, b.net)
      BY <3>3, <3>6, GrownTrans
    <3>8. /\ Append(o, b.out) \in Seq(Plain(b.net)) /\ Len(Append(o, b.out)) = k
          /\ \A i \in 1 .. k - 1 : Append(o, b.out)[i] = o[i]
          /\ Append(o, b.out)[k] = b.out
      <4>1. o \in Seq(Plain(b.net))
        BY <3>3, <3>6 DEF Grown
      <4> QED  BY <3>1, <3>3, <3>6, <4>1
    <3>9. ASSUME NEW i \in 1 .. k
          PROVE  Opposite(b.net, args[i], Append(o, b.out)[i])
      <4>1. CASE i = k
        BY <3>6, <3>8, <4>1
      <4>2. CASE i # k
        <5>1. i \in 1 .. k - 1
          BY <4>2
        <5> QED  BY <3>3, <3>6, <3>8, <5>1, GrownOpposite
      <4> QED  BY <4>1, <4>2
    <3> QED  BY <3>5, <3>7, <3>8, <3>9 DEF Complements
  <2>3. \A k \in 1 .. l : k - 1 \in Good => k \in Good
    BY <2>2
  <2> HIDE DEF Good
  <2> QED  BY <1>2, <2>1, <2>3, UpTo
<1>7. l \in Good /\ l \in Sized
  BY <1>2, <1>5, <1>6
<1>8. /\ "size" \in DOMAIN all.net /\ all.net.size \in Nat
      /\ all.net.size <= MaxGates => Complements(n, args, l, all)
  BY <1>1, <1>7
<1> QED  BY <1>8 DEF l, all


\* The same for gates of one kind, with what they read.
Parts(n, kind, args, k, acc) ==
  /\ Grown(n, acc.net)
  /\ acc.outs \in Seq(Plain(acc.net)) /\ Len(acc.outs) = k
  /\ \A i \in 1 .. k :
       /\ acc.outs[i] \in Live(acc.net) \ Live(n)
       /\ acc.net.kind[acc.outs[i]] = kind /\ acc.net.ins[acc.outs[i]] = args[i]

\* A gate of each of a list of inputs.
LEMMA GatesGrown ==
  ASSUME NEW n, Foldable(n), NEW kind \in {"nand", "nor"}, NEW args \in Seq(Seq(Plain(n)))
  PROVE  LET all == AllGates(n, kind, args)
         IN  /\ "size" \in DOMAIN all.net /\ all.net.size \in Nat
             /\ all.net.size <= MaxGates => Parts(n, kind, args, Len(args), all)
<1>1. \E S : args \in Seq(S)
  OBVIOUS
<1>2. PICK acc : GateSteps(n, kind, args, acc)
  BY <1>1, AddGates
<1> DEFINE l == Len(args)
           all == AllGates(n, kind, args)
<1>3. /\ acc[0] = Nothing(n)
      /\ \A k \in 1 .. l : acc[k] = WithGate(acc[k - 1], kind, args[k])
      /\ all = acc[l]
  BY <1>2 DEF GateSteps
<1> HIDE DEF all
<1>4. l \in Nat /\ \A i \in 1 .. l : args[i] \in Seq(Plain(n))
  OBVIOUS
<1> HIDE DEF l
<1>5. acc[0].net = n /\ acc[0].outs = << >>
  BY <1>3 DEF Nothing
<1>6. ASSUME NEW k \in 1 .. l
      PROVE  /\ acc[k].net = NewGate(acc[k - 1].net, kind, args[k]).net
             /\ acc[k].outs = Append(acc[k - 1].outs, NewGate(acc[k - 1].net, kind, args[k]).out)
  <2>1. acc[k] = WithGate(acc[k - 1], kind, args[k])
    BY <1>3
  <2> QED  BY <2>1 DEF WithGate
<1> DEFINE Sized == {k \in 0 .. l : "size" \in DOMAIN acc[k].net /\ acc[k].net.size \in Nat}
<1>7. \A k \in 0 .. l : k \in Sized
  <2>1. 0 \in Sized
    BY <1>4, <1>5, FoldableSize
  <2>2. ASSUME NEW k \in 1 .. l, k - 1 \in Sized
        PROVE  k \in Sized
    <3>1. /\ "size" \in DOMAIN acc[k].net
          /\ acc[k].net.size = acc[k - 1].net.size + 1
      <4>1. "size" \in DOMAIN acc[k - 1].net
        BY <2>2
      <4>2. /\ "size" \in DOMAIN NewGate(acc[k - 1].net, kind, args[k]).net
            /\ NewGate(acc[k - 1].net, kind, args[k]).net.size = acc[k - 1].net.size + 1
        BY <4>1, NewGateSize
      <4> QED  BY <1>6, <4>2
    <3> QED  BY <2>2, <3>1
  <2> HIDE DEF Sized
  <2> QED  BY <1>4, <2>1, <2>2, UpTo
<1> DEFINE Good == {k \in 0 .. l :
                      acc[k].net.size <= MaxGates => Parts(n, kind, args, k, acc[k])}
<1>8. \A k \in 0 .. l : k \in Good
  <2>1. 0 \in Good
    <3>1. << >> \in Seq(Plain(n)) /\ Len(<< >>) = 0 /\ 1 .. 0 = {} /\ 0 \in 0 .. l
      BY <1>4
    <3> QED  BY <1>5, <3>1, GrownSelf DEF Parts
  <2>2. ASSUME NEW k \in 1 .. l, k - 1 \in Good, acc[k].net.size <= MaxGates
        PROVE  Parts(n, kind, args, k, acc[k])
    <3> DEFINE m == acc[k - 1].net
               o == acc[k - 1].outs
               b == NewGate(m, kind, args[k])
    <3>1. k - 1 \in 0 .. l /\ k \in 0 .. l /\ k - 1 \in Nat
      BY <1>4
    <3>2. m.size <= MaxGates
      <4>1. /\ acc[k].net.size = m.size + 1
            /\ acc[k].net.size \in Nat /\ m.size \in Nat
        <5>1. k \in Sized /\ k - 1 \in Sized
          BY <1>7, <3>1
        <5>2. NewGate(acc[k - 1].net, kind, args[k]).net.size = acc[k - 1].net.size + 1
          BY <5>1, NewGateSize
        <5> QED  BY <1>6, <5>1, <5>2
      <4>2. acc[k].net.size <= MaxGates
        BY <2>2
      <4> HIDE DEF m
      <4> QED  BY <4>1, <4>2, NetAssumption
    <3>3. /\ Grown(n, m) /\ o \in Seq(Plain(m)) /\ Len(o) = k - 1
          /\ \A i \in 1 .. k - 1 :
               /\ o[i] \in Live(m) \ Live(n)
               /\ m.kind[o[i]] = kind /\ m.ins[o[i]] = args[i]
      BY <2>2, <3>2 DEF Parts
    <3>4. Foldable(m) /\ args[k] \in Seq(Plain(m))
      <4>1. Foldable(m) /\ Plain(n) \in SUBSET Plain(m)
        BY <3>3 DEF Grown, Keeps
      <4> QED  BY <1>4, <4>1, SeqOfMore
    <3>5. acc[k].net = b.net /\ acc[k].outs = Append(o, b.out)
      BY <1>6
    <3> HIDE DEF m, o
    <3>6. m.size + 1 <= MaxGates
      <4>1. acc[k].net.size = m.size + 1
        <5>1. k \in Sized /\ k - 1 \in Sized
          BY <1>7, <3>1
        <5>2. NewGate(acc[k - 1].net, kind, args[k]).net.size = acc[k - 1].net.size + 1
          BY <5>1, NewGateSize
        <5> QED  BY <1>6, <5>2 DEF m
      <4>2. acc[k].net.size <= MaxGates
        BY <2>2
      <4> QED  BY <4>1, <4>2
    <3>7. /\ Grown(m, b.net) /\ b.out \in Plain(b.net)
          /\ b.out \in Live(b.net) /\ b.out \notin Live(m) /\ b.out \in Gates
          /\ b.net.kind[b.out] = kind /\ b.net.ins[b.out] = args[k]
      BY <3>4, <3>6, GateGrown
    <3> HIDE DEF b
    <3>8. Grown(n, b.net)
      BY <3>3, <3>7, GrownTrans
    <3>9. /\ Append(o, b.out) \in Seq(Plain(b.net)) /\ Len(Append(o, b.out)) = k
          /\ \A i \in 1 .. k - 1 : Append(o, b.out)[i] = o[i]
          /\ Append(o, b.out)[k] = b.out
      <4>1. o \in Seq(Plain(b.net))
        BY <3>3, <3>7 DEF Grown
      <4> QED  BY <3>1, <3>3, <3>7, <4>1
    <3>10. ASSUME NEW i \in 1 .. k
           PROVE  LET x == Append(o, b.out)[i]
                  IN  /\ x \in Live(b.net) \ Live(n)
                      /\ b.net.kind[x] = kind /\ b.net.ins[x] = args[i]
      <4>1. CASE i = k
        <5>1. b.out \notin Live(n)
          BY <3>3, <3>7 DEF Grown
        <5> QED  BY <3>7, <3>9, <4>1, <5>1
      <4>2. CASE i # k
        <5>1. i \in 1 .. k - 1
          BY <4>2
        <5> QED  BY <3>3, <3>7, <3>9, <5>1 DEF Grown
      <4> QED  BY <4>1, <4>2
    <3> QED  BY <3>5, <3>8, <3>9, <3>10 DEF Parts
  <2>3. \A k \in 1 .. l : k - 1 \in Good => k \in Good
    BY <2>2
  <2> HIDE DEF Good
  <2> QED  BY <1>4, <2>1, <2>3, UpTo
<1>9. l \in Good /\ l \in Sized
  BY <1>4, <1>7, <1>8
<1>10. /\ "size" \in DOMAIN all.net /\ all.net.size \in Nat
       /\ all.net.size <= MaxGates => Parts(n, kind, args, l, all)
  BY <1>3, <1>9
<1> QED  BY <1>10 DEF l, all


----------------------------------------------------------------------------
(* LowerFpgaGates.                                                          *)

\* m is n with a NAND or NOR a, which reads s, and a NOT r of it.
AddsNegated(n, m, k, s, a, r) ==
  /\ Grown(n, m) /\ r \in Plain(m)
  /\ a \in Live(m) \ Live(n) /\ r \in Live(m) \ Live(n)
  /\ m.kind[a] = k /\ m.ins[a] = s
  /\ m.kind[r] = "not" /\ m.ins[r] = <<a>>

\* The NOT of a gate of complements is the dual gate.
LEMMA ThenNotGrown ==
  ASSUME NEW n, Foldable(n), NEW k \in {"nand", "nor"}, NEW s \in Seq(Plain(n)),
         n.size + 2 <= MaxGates
  PROVE  LET top == NewGate(n, k, s)
             not == NotOf(top.net, top.out)
         IN  AddsNegated(n, not.net, k, s, top.out, not.out)
<1> DEFINE top == NewGate(n, k, s)
           o == <<top.out>>
           not == NewGate(top.net, "not", o)
<1>1. n.size \in Nat /\ "size" \in DOMAIN n /\ n.size + 1 <= MaxGates
  BY FoldableSize, NetAssumption
<1>2. /\ Grown(n, top.net) /\ top.out \in Plain(top.net)
      /\ top.out \in Live(top.net) /\ top.out \notin Live(n) /\ top.out \in Gates
      /\ top.net.kind[top.out] = k /\ top.net.ins[top.out] = s
  BY <1>1, GateGrown
<1>3. top.net.size = n.size + 1
  BY <1>1, NewGateSize
<1> HIDE DEF top
<1>4. Foldable(top.net) /\ top.net.size + 1 <= MaxGates
  BY <1>1, <1>2, <1>3, NetAssumption DEF Grown, Keeps
<1>5. o \in Seq(Plain(top.net)) /\ Len(o) = 1
  BY <1>2
<1>6. NotOf(top.net, top.out) = not
  BY <1>2, TerminalsApart DEF NotOf
<1> HIDE DEF o
<1>7. /\ Grown(top.net, not.net) /\ not.out \in Plain(not.net)
      /\ not.out \in Live(not.net) /\ not.out \notin Live(top.net)
      /\ not.net.kind[not.out] = "not" /\ not.net.ins[not.out] = o
  BY <1>4, <1>5, GateGrown
<1> HIDE DEF not
<1>8. Grown(n, not.net)
  BY <1>2, <1>7, GrownTrans
<1>9. /\ top.out \in Live(not.net) /\ not.out \notin Live(n)
      /\ not.net.kind[top.out] = k /\ not.net.ins[top.out] = s
  BY <1>2, <1>7 DEF Grown
<1>10. top.out \in Live(not.net) \ Live(n) /\ not.out \in Live(not.net) \ Live(n)
  BY <1>2, <1>7, <1>9
<1>11. AddsNegated(n, not.net, k, s, top.out, not.out)
  BY <1>7, <1>8, <1>9, <1>10 DEF AddsNegated, o
<1> QED  BY <1>6, <1>11 DEF top

\* Widening a NAND: NAND(a, b, ..) = NOT(NOR(NOT(a), NOT(b), ..)).
THEOREM WidenKeepsBehaviour ==
  ASSUME NEW n, Foldable(n), NEW g \in Live(n), WidenGate(n, g).net.size <= MaxGates
  PROVE  Keeps(n, WidenGate(n, g).net)
<1>1. CASE ~ (n.kind[g] = "nand" /\ Len(n.ins[g]) > 2)
  BY <1>1, KeepsSelf DEF WidenGate, Unchanged
<1>2. CASE n.kind[g] = "nand" /\ Len(n.ins[g]) > 2
  <2> DEFINE in == n.ins[g]
             nots == AllNots(n, in)
             p == nots.net
             s == nots.outs
             nor == NewGate(p, "nor", s)
             not == NotOf(nor.net, nor.out)
             m == not.net
  <2>1. WidenGate(n, g) = Rewritten(not.net, g, not.out)
    BY <1>2 DEF WidenGate, AllNots, NorOf
  <2>2. Sound(n) /\ in \in Seq(Plain(n)) /\ Len(in) \in Nat /\ DOMAIN in = 1 .. Len(in) /\ g \in Gates
    <3>1. Sound(n)
      BY SoundIsWellFormed DEF Foldable
    <3>2. in \in Seq(LiveTerminals(n)) /\ Len(in) \in Nat /\ DOMAIN in = 1 .. Len(in) /\ g \in Gates
      BY <3>1, LiveInputs
    <3>3. \A i \in 1 .. Len(in) : in[i] \in Plain(n)
      BY <3>2, InputsPlain
    <3> QED  BY <3>1, <3>2, <3>3
  <2> HIDE DEF in
  <2>3. /\ "size" \in DOMAIN nots.net /\ nots.net.size \in Nat
        /\ nots.net.size <= MaxGates => Complements(n, in, Len(in), nots)
    BY <2>2, NotsGrown
  <2>4. nots.net.size + 2 <= MaxGates
    <3>1. "size" \in DOMAIN nor.net /\ nor.net.size = nots.net.size + 1
      BY <2>3, NewGateSize
    <3>2. nor.out \in Int
      BY <2>3 DEF NewGate, NextGate
    <3>3. nor.out # Low /\ nor.out # High
      BY <3>2, NetAssumption
    <3>4. m.size = nor.net.size + 1
      <4>1. not = NewGate(nor.net, "not", <<nor.out>>)
        BY <3>3 DEF NotOf
      <4> QED  BY <3>1, <4>1, NewGateSize
    <3>5. m.size <= MaxGates
      BY <2>1, RewrittenSize
    <3> HIDE DEF m, nor, nots
    <3> QED  BY <2>3, <3>1, <3>4, <3>5, NetAssumption
  <2> HIDE DEF nots
  <2>5. /\ Complements(n, in, Len(in), nots) /\ Foldable(nots.net)
        /\ nots.outs \in Seq(Plain(nots.net)) /\ Grown(n, nots.net)
    <3>1. nots.net.size <= MaxGates
      BY <2>3, <2>4, NetAssumption
    <3> QED  BY <2>3, <3>1 DEF Complements, Grown, Keeps
  <2>6. /\ Grown(nots.net, m) /\ not.out \in Plain(m)
        /\ nor.out \in Live(m) \ Live(nots.net) /\ not.out \in Live(m) \ Live(nots.net)
        /\ m.kind[nor.out] = "nor" /\ m.ins[nor.out] = nots.outs
        /\ m.kind[not.out] = "not" /\ m.ins[not.out] = <<nor.out>>
    <3> HIDE DEF p, s
    <3>1. Foldable(p) /\ s \in Seq(Plain(p)) /\ p.size + 2 <= MaxGates
      BY <2>4, <2>5 DEF p, s
    <3>2. AddsNegated(p, m, "nor", s, nor.out, not.out)
      BY <3>1, ThenNotGrown
    <3> HIDE DEF not, nor, m
    <3> QED  BY <3>2 DEF p, s, AddsNegated
  <2> HIDE DEF not, nor, m
  <2>7. Grown(n, m)
    BY <2>5, <2>6, GrownTrans
  <2>8. /\ Sound(m) /\ WellShaped(m) /\ NoBufferRead(m) /\ Keeps(n, m)
    BY <2>7, SoundIsWellFormed DEF Grown, Keeps, Foldable
  <2>9. /\ g \in Live(m) /\ m.kind[g] = "nand" /\ m.ins[g] = in
        /\ nor.out \in Live(m) \ {g} /\ not.out \in Live(m) \ {g}
    <3>1. g \in Live(nots.net)
      BY <2>5 DEF Grown
    <3> QED  BY <1>2, <2>6, <2>7, <3>1 DEF Grown, in
  <2>10. ASSUME NEW st, ConsistentBut(m, st, g)
         PROVE  ComputeValue(m, st, g) = st[not.out]
    <3>1. st[nor.out] = ComputeValue(m, st, nor.out) /\ st[not.out] = ComputeValue(m, st, not.out)
      BY <2>9, <2>10 DEF ConsistentBut
    <3>2. ReadsLevels(m, st, g) /\ ReadsLevels(m, st, nor.out) /\ ReadsLevels(m, st, not.out)
      BY <2>8, <2>9, <2>10, LevelsRead
    <3>3. st[nor.out] = IF \E i \in DOMAIN nots.outs : st[nots.outs[i]] = "high" THEN "low" ELSE "high"
      BY <2>6, <3>1, <3>2, NorValue
    <3>4. st[not.out] = Flip(st[nor.out])
      <4>1. m.ins[not.out][1] = nor.out
        BY <2>6
      <4> QED  BY <2>6, <2>8, <2>9, <3>1, <3>2, <4>1, NotValue
    <3>5. ComputeValue(m, st, g) = IF \E i \in DOMAIN in : st[in[i]] = "low" THEN "high" ELSE "low"
      BY <2>9, <3>2, NandValue
    <3>6. DOMAIN nots.outs = DOMAIN in
      BY <2>2, <2>5 DEF Complements
    <3>7. ASSUME NEW i \in DOMAIN in
          PROVE  st[nots.outs[i]] = "high" <=> st[in[i]] = "low"
      <4>1. Opposite(m, in[i], nots.outs[i])
        BY <2>2, <2>5, <2>6, GrownOpposite DEF Complements
      <4>2. st[in[i]] \in Levels /\ st[nots.outs[i]] \in Levels /\ st[in[i]] # st[nots.outs[i]]
        BY <2>8, <2>9, <2>10, <4>1, OppositeValues
      <4> QED  BY <4>2 DEF Levels
    <3>8. (\E i \in DOMAIN nots.outs : st[nots.outs[i]] = "high") <=> \E i \in DOMAIN in : st[in[i]] = "low"
      BY <3>6, <3>7
    <3> QED  BY <3>3, <3>4, <3>5, <3>8 DEF Flip
  <2>11. not.out \in Plain(m)
    BY <2>6
  <2>12. Keeps(n, Rewritten(m, g, not.out).net)
    BY <2>8, <2>9, <2>10, <2>11, ThenRewrite
  <2> QED  BY <2>1, <2>12 DEF m
<1> QED  BY <1>1, <1>2


\* The groups hold the inputs, all of them and no others.
LEMMA ChunksCover ==
  ASSUME NEW S, NEW ins \in Seq(S), NEW k \in Nat \ {0}
  PROVE  /\ Chunks(ins, k) \in Seq(Seq(S))
         /\ \A c \in DOMAIN Chunks(ins, k) : \A j \in DOMAIN Chunks(ins, k)[c] :
              \E i \in DOMAIN ins : Chunks(ins, k)[c][j] = ins[i]
         /\ \A i \in DOMAIN ins : \E c \in DOMAIN Chunks(ins, k) :
              \E j \in DOMAIN Chunks(ins, k)[c] : Chunks(ins, k)[c][j] = ins[i]
<1> DEFINE l == Len(ins)
           count == (l + k - 1) \div k
           low(c) == (c - 1) * k + 1
           top(c) == IF c * k < l THEN c * k ELSE l
           chunks == Chunks(ins, k)
<1>1. l \in Nat /\ DOMAIN ins = 1 .. l /\ k \in Nat /\ k >= 1 /\ l + k - 1 \in Nat
  OBVIOUS
<1> HIDE DEF l
<1>2. count \in Nat /\ l <= count * k
  <2>1. \A x \in Nat : x \div k \in Nat /\ x < (x \div k) * k + k
    BY <1>1
  <2>2. count \in Nat /\ l + k - 1 < count * k + k
    BY <1>1, <2>1
  <2>3. count * k \in Nat
    BY <1>1, <2>2
  <2> QED  BY <1>1, <2>2, <2>3
<1> HIDE DEF count
<1>3. ASSUME NEW c \in 1 .. count
      PROVE  /\ c * k \in Nat /\ (c - 1) * k \in Nat /\ (c - 1) * k + k = c * k
             /\ low(c) \in Nat /\ low(c) >= 1 /\ top(c) \in 0 .. l
  <2>1. c \in Nat /\ c - 1 \in Nat
    BY <1>2
  <2>2. \A x \in Nat, y \in Nat : x * y \in Nat
    OBVIOUS
  <2>3. c * k \in Nat /\ (c - 1) * k \in Nat
    BY <1>1, <2>1, <2>2
  <2>4. (c - 1) * k + k = c * k
    BY <1>1, <2>1
  <2> QED  BY <1>1, <2>3, <2>4
<1>4. DOMAIN chunks = 1 .. count /\ \A c \in 1 .. count : chunks[c] = SubSeq(ins, low(c), top(c))
  BY DEF Chunks, count, l
<1>5. ASSUME NEW c \in 1 .. count
      PROVE  /\ chunks[c] \in Seq(S)
             /\ DOMAIN chunks[c] = 1 .. (IF low(c) <= top(c) THEN top(c) - low(c) + 1 ELSE 0)
             /\ \A j \in DOMAIN chunks[c] :
                  /\ low(c) + j - 1 \in DOMAIN ins
                  /\ chunks[c][j] = ins[low(c) + j - 1]
  <2> DEFINE a == low(c)
             b == top(c)
  <2>1. a \in Nat /\ a >= 1 /\ b \in 0 .. l
    BY <1>3
  <2>2. chunks[c] = SubSeq(ins, a, b)
    BY <1>4
  <2> HIDE DEF a, b, chunks
  <2>3. SubSeq(ins, a, b) = [j \in 1 .. (1 + b - a) |-> ins[j + a - 1]]
    BY <1>1, <2>1
  <2>4. \A j \in 1 .. (1 + b - a) : a + j - 1 \in DOMAIN ins /\ ins[j + a - 1] = ins[a + j - 1]
    BY <1>1, <2>1
  <2>5. 1 .. (1 + b - a) = 1 .. (IF a <= b THEN b - a + 1 ELSE 0)
    BY <1>1, <2>1
  <2>6. SubSeq(ins, a, b) \in Seq(S)
    BY <1>1, <2>1
  <2> QED  BY <2>2, <2>3, <2>4, <2>5, <2>6 DEF a, b
<1>6. chunks \in Seq(Seq(S))
  <2>1. chunks = [c \in 1 .. count |-> chunks[c]]
    BY <1>4 DEF chunks, Chunks
  <2> DEFINE All == Seq(S)
  <2>2. \A c \in 1 .. count : chunks[c] \in All
    BY <1>5
  <2> HIDE DEF chunks, All
  <2>3. chunks \in Seq(All)
    BY <1>2, <2>1, <2>2
  <2> QED  BY <2>3 DEF All
<1>7. ASSUME NEW i \in DOMAIN ins
      PROVE  \E c \in DOMAIN chunks : \E j \in DOMAIN chunks[c] : chunks[c][j] = ins[i]
  <2> DEFINE T == {c \in Nat : i <= c * k}
  <2>1. count \in T /\ T \in SUBSET Nat
    <3>1. count * k \in Nat
      BY <1>1, <1>2
    <3> QED  BY <1>1, <1>2, <3>1
  <2>2. PICK c \in T : \A d \in T : c <= d
    BY <2>1, LeastElement
  <2>3. c # 0
    BY <1>1, <2>2
  <2>4. c \in 1 .. count /\ c - 1 \in Nat /\ c - 1 \notin T
    BY <1>2, <2>1, <2>2, <2>3
  <2>5. i <= c * k /\ ~ (i <= (c - 1) * k)
    BY <2>2, <2>4
  <2> DEFINE j == i - low(c) + 1
  <2>6. /\ c * k \in Nat /\ (c - 1) * k \in Nat /\ (c - 1) * k + k = c * k
        /\ low(c) \in Nat /\ low(c) >= 1 /\ top(c) \in 0 .. l
    BY <1>3, <2>4
  <2>7. low(c) <= i /\ i <= top(c)
    BY <1>1, <2>5, <2>6
  <2>8. j \in DOMAIN chunks[c] /\ low(c) + j - 1 = i
    <3>1. DOMAIN chunks[c] = 1 .. (top(c) - low(c) + 1)
      BY <1>1, <1>5, <2>4, <2>6, <2>7
    <3> HIDE DEF low, top, chunks
    <3> QED  BY <1>1, <2>6, <2>7, <3>1
  <2> HIDE DEF low, j, chunks
  <2> QED  BY <1>4, <1>5, <2>4, <2>8
<1> HIDE DEF chunks
<1>8. \A c \in DOMAIN chunks : \A j \in DOMAIN chunks[c] : \E i \in DOMAIN ins : chunks[c][j] = ins[i]
  BY <1>4, <1>5
<1> QED  BY <1>6, <1>7, <1>8 DEF chunks


\* Splitting a gate: NAND(a, b, c) = NOT(NOR(NAND(a, b), NAND(c))), and the dual.
THEOREM SplitKeepsBehaviour ==
  ASSUME NEW n, Foldable(n), NEW g \in Live(n), Arity(n.kind[g]) \in Nat \ {0},
         SplitGate(n, g).net.size <= MaxGates
  PROVE  Keeps(n, SplitGate(n, g).net)
<1>1. CASE ~ (n.kind[g] \in {"nand", "nor"} /\ Len(n.ins[g]) > Arity(n.kind[g]))
  BY <1>1, KeepsSelf DEF SplitGate, Unchanged
<1>2. CASE n.kind[g] \in {"nand", "nor"} /\ Len(n.ins[g]) > Arity(n.kind[g])
  <2> DEFINE in == n.ins[g]
             kind == n.kind[g]
             dual == IF kind = "nor" THEN "nand" ELSE "nor"
             args == Chunks(in, Arity(kind))
             parts == AllGates(n, kind, args)
             p == parts.net
             s == parts.outs
             top == NewGate(p, dual, s)
             not == NotOf(top.net, top.out)
             m == not.net
  <2>1. SplitGate(n, g) = Rewritten(not.net, g, not.out)
    BY <1>2 DEF SplitGate, AllGates
  <2>2. Sound(n) /\ in \in Seq(Plain(n)) /\ Len(in) \in Nat /\ DOMAIN in = 1 .. Len(in) /\ g \in Gates
    <3>1. Sound(n)
      BY SoundIsWellFormed DEF Foldable
    <3>2. in \in Seq(LiveTerminals(n)) /\ Len(in) \in Nat /\ DOMAIN in = 1 .. Len(in) /\ g \in Gates
      BY <3>1, LiveInputs
    <3>3. \A i \in 1 .. Len(in) : in[i] \in Plain(n)
      BY <3>2, InputsPlain
    <3> QED  BY <3>1, <3>2, <3>3
  <2>3. kind \in {"nand", "nor"} /\ dual \in {"nand", "nor"}
    BY <1>2
  <2>4. /\ args \in Seq(Seq(Plain(n)))
        /\ \A c \in DOMAIN args : \A j \in DOMAIN args[c] : \E i \in DOMAIN in : args[c][j] = in[i]
        /\ \A i \in DOMAIN in : \E c \in DOMAIN args : \E j \in DOMAIN args[c] : args[c][j] = in[i]
    <3> DEFINE k == Arity(kind)
    <3>1. k \in Nat \ {0}
      OBVIOUS
    <3> HIDE DEF k, in
    <3>2. /\ Chunks(in, k) \in Seq(Seq(Plain(n)))
          /\ \A c \in DOMAIN Chunks(in, k) : \A j \in DOMAIN Chunks(in, k)[c] :
               \E i \in DOMAIN in : Chunks(in, k)[c][j] = in[i]
          /\ \A i \in DOMAIN in : \E c \in DOMAIN Chunks(in, k) :
               \E j \in DOMAIN Chunks(in, k)[c] : Chunks(in, k)[c][j] = in[i]
      BY <2>2, <3>1, ChunksCover
    <3> QED  BY <3>2 DEF k
  <2> HIDE DEF in, args, kind, dual
  <2>5. /\ "size" \in DOMAIN p /\ p.size \in Nat
        /\ p.size <= MaxGates => Parts(n, kind, args, Len(args), parts)
    BY <2>3, <2>4, GatesGrown
  <2>6. p.size + 2 <= MaxGates
    <3>1. "size" \in DOMAIN top.net /\ top.net.size = p.size + 1
      BY <2>5, NewGateSize
    <3>2. top.out \in Int
      BY <2>5 DEF NewGate, NextGate
    <3>3. top.out # Low /\ top.out # High
      BY <3>2, NetAssumption
    <3>4. m.size = top.net.size + 1
      <4>1. not = NewGate(top.net, "not", <<top.out>>)
        BY <3>3 DEF NotOf
      <4> QED  BY <3>1, <4>1, NewGateSize
    <3>5. m.size <= MaxGates
      BY <2>1, RewrittenSize
    <3> HIDE DEF m, top, p
    <3> QED  BY <2>5, <3>1, <3>4, <3>5, NetAssumption
  <2> HIDE DEF parts
  <2>7. /\ Parts(n, kind, args, Len(args), parts) /\ Foldable(p)
        /\ s \in Seq(Plain(p)) /\ Grown(n, p)
    <3>1. p.size <= MaxGates
      BY <2>5, <2>6, NetAssumption
    <3> QED  BY <2>5, <3>1 DEF Parts, Grown, Keeps
  <2>8. AddsNegated(p, m, dual, s, top.out, not.out)
    <3> HIDE DEF p, s
    <3> QED  BY <2>3, <2>6, <2>7, ThenNotGrown
  <2> HIDE DEF not, top, m
  <2>9. /\ Grown(p, m) /\ not.out \in Plain(m)
        /\ top.out \in Live(m) \ Live(p) /\ not.out \in Live(m) \ Live(p)
        /\ m.kind[top.out] = dual /\ m.ins[top.out] = s
        /\ m.kind[not.out] = "not" /\ m.ins[not.out] = <<top.out>>
    BY <2>8 DEF AddsNegated
  <2>10. Grown(n, m)
    BY <2>7, <2>9, GrownTrans
  <2>11. /\ Sound(m) /\ WellShaped(m) /\ NoBufferRead(m) /\ Keeps(n, m)
    BY <2>10, SoundIsWellFormed DEF Grown, Keeps, Foldable
  <2>12. /\ g \in Live(m) /\ m.kind[g] = kind /\ m.ins[g] = in
         /\ top.out \in Live(m) \ {g} /\ not.out \in Live(m) \ {g}
    <3>1. g \in Live(p)
      BY <2>7 DEF Grown
    <3> QED  BY <2>9, <2>10, <3>1 DEF Grown, in, kind
  <2>13. Len(args) \in Nat /\ DOMAIN args = 1 .. Len(args) /\ DOMAIN s = DOMAIN args
    BY <2>4, <2>7 DEF Parts
  <2>14. ASSUME NEW c \in DOMAIN args
         PROVE  s[c] \in Live(m) \ {g} /\ m.kind[s[c]] = kind /\ m.ins[s[c]] = args[c]
    <3>1. s[c] \in Live(p) \ Live(n) /\ p.kind[s[c]] = kind /\ p.ins[s[c]] = args[c]
      BY <2>7, <2>13 DEF Parts
    <3> QED  BY <2>9, <3>1 DEF Grown
  <2>15. ASSUME NEW st, ConsistentBut(m, st, g)
         PROVE  ComputeValue(m, st, g) = st[not.out]
    <3>1. /\ st[top.out] = ComputeValue(m, st, top.out) /\ st[not.out] = ComputeValue(m, st, not.out)
          /\ \A c \in DOMAIN args : st[s[c]] = ComputeValue(m, st, s[c])
      BY <2>12, <2>15, <2>14 DEF ConsistentBut
    <3>2. /\ ReadsLevels(m, st, g) /\ ReadsLevels(m, st, top.out) /\ ReadsLevels(m, st, not.out)
          /\ \A c \in DOMAIN args : ReadsLevels(m, st, s[c])
      BY <2>11, <2>12, <2>15, <2>14, LevelsRead
    <3>3. st[not.out] = Flip(st[top.out])
      <4>1. m.ins[not.out][1] = top.out
        BY <2>9
      <4> QED  BY <2>9, <2>11, <2>12, <3>1, <3>2, <4>1, NotValue
    <3>4. CASE kind = "nor"
      <4>1. ComputeValue(m, st, g) = IF \E i \in DOMAIN in : st[in[i]] = "high" THEN "low" ELSE "high"
        BY <2>12, <3>2, <3>4, NorValue
      <4>2. st[top.out] = IF \E c \in DOMAIN s : st[s[c]] = "low" THEN "high" ELSE "low"
        BY <2>9, <3>1, <3>2, <3>4, NandValue DEF dual
      <4>3. \A c \in DOMAIN args :
              st[s[c]] = IF \E j \in DOMAIN args[c] : st[args[c][j]] = "high" THEN "low" ELSE "high"
        BY <2>14, <3>1, <3>2, <3>4, NorValue
      <4>4. (\E c \in DOMAIN s : st[s[c]] = "low") => \E i \in DOMAIN in : st[in[i]] = "high"
        <5> SUFFICES ASSUME NEW c \in DOMAIN s, st[s[c]] = "low"
                     PROVE  \E i \in DOMAIN in : st[in[i]] = "high"
          OBVIOUS
        <5>1. c \in DOMAIN args
          BY <2>13
        <5>2. PICK j \in DOMAIN args[c] : st[args[c][j]] = "high"
          BY <4>3, <5>1
        <5>3. \E i \in DOMAIN in : args[c][j] = in[i]
          BY <2>4, <5>1, Zenon
        <5> QED  BY <5>2, <5>3
      <4>5. (\E i \in DOMAIN in : st[in[i]] = "high") => \E c \in DOMAIN s : st[s[c]] = "low"
        <5> SUFFICES ASSUME NEW i \in DOMAIN in, st[in[i]] = "high"
                     PROVE  \E c \in DOMAIN s : st[s[c]] = "low"
          OBVIOUS
        <5>1. \E c \in DOMAIN args : \E j \in DOMAIN args[c] : args[c][j] = in[i]
          BY <2>4, Zenon
        <5>2. PICK c \in DOMAIN args : \E j \in DOMAIN args[c] : args[c][j] = in[i]
          BY <5>1, Zenon
        <5>3. st[s[c]] = "low"
          BY <4>3, <5>2
        <5> QED  BY <2>13, <5>2, <5>3
      <4> QED  BY <3>3, <4>1, <4>2, <4>4, <4>5 DEF Flip
    <3>5. CASE kind = "nand"
      <4>1. ComputeValue(m, st, g) = IF \E i \in DOMAIN in : st[in[i]] = "low" THEN "high" ELSE "low"
        BY <2>12, <3>2, <3>5, NandValue
      <4>2. st[top.out] = IF \E c \in DOMAIN s : st[s[c]] = "high" THEN "low" ELSE "high"
        BY <2>9, <3>1, <3>2, <3>5, NorValue DEF dual
      <4>3. \A c \in DOMAIN args :
              st[s[c]] = IF \E j \in DOMAIN args[c] : st[args[c][j]] = "low" THEN "high" ELSE "low"
        BY <2>14, <3>1, <3>2, <3>5, NandValue
      <4>4. (\E c \in DOMAIN s : st[s[c]] = "high") => \E i \in DOMAIN in : st[in[i]] = "low"
        <5> SUFFICES ASSUME NEW c \in DOMAIN s, st[s[c]] = "high"
                     PROVE  \E i \in DOMAIN in : st[in[i]] = "low"
          OBVIOUS
        <5>1. c \in DOMAIN args
          BY <2>13
        <5>2. PICK j \in DOMAIN args[c] : st[args[c][j]] = "low"
          BY <4>3, <5>1
        <5>3. \E i \in DOMAIN in : args[c][j] = in[i]
          BY <2>4, <5>1, Zenon
        <5> QED  BY <5>2, <5>3
      <4>5. (\E i \in DOMAIN in : st[in[i]] = "low") => \E c \in DOMAIN s : st[s[c]] = "high"
        <5> SUFFICES ASSUME NEW i \in DOMAIN in, st[in[i]] = "low"
                     PROVE  \E c \in DOMAIN s : st[s[c]] = "high"
          OBVIOUS
        <5>1. \E c \in DOMAIN args : \E j \in DOMAIN args[c] : args[c][j] = in[i]
          BY <2>4, Zenon
        <5>2. PICK c \in DOMAIN args : \E j \in DOMAIN args[c] : args[c][j] = in[i]
          BY <5>1, Zenon
        <5>3. st[s[c]] = "high"
          BY <4>3, <5>2
        <5> QED  BY <2>13, <5>2, <5>3
      <4> QED  BY <3>3, <4>1, <4>2, <4>4, <4>5 DEF Flip
    <3> QED  BY <2>3, <3>4, <3>5
  <2>16. not.out \in Plain(m)
    BY <2>9
  <2>17. Keeps(n, Rewritten(m, g, not.out).net)
    <3>1. m.kind[g] # "not"
      BY <2>3, <2>12
    <3> QED  BY <2>11, <2>12, <2>15, <2>16, <3>1, ThenRewrite
  <2> QED  BY <2>1, <2>17 DEF m
<1> QED  BY <1>1, <1>2

----------------------------------------------------------------------------
(* What a network does, as the search of GateEval finds it.                 *)

\* The values of a state in progress.
Values == Known \cup {"none"}

\* v has the values of s, and perhaps some that s is without.
Fills(s, v) ==
  /\ s \in [Terminals -> Values] /\ v \in [Terminals -> Values]
  /\ \A t \in Terminals : s[t] # "none" => v[t] = s[t]

\* v gives each gate the value that its inputs give it.
IsStable(n, v) == \A g \in Live(n) : ComputeValue(n, v, g) = v[g]

\* Values are filled in step by step.
LEMMA FillsTrans ==
  ASSUME NEW s, NEW u, NEW v, Fills(s, u), Fills(u, v)
  PROVE  Fills(s, v)
BY DEF Fills

\* What a gate reads of a state that lacks values.
LEMMA PartRead ==
  ASSUME NEW n, Sound(n), NEW g \in Live(n), NEW s, NEW v, Fills(s, v)
  PROVE  /\ DOMAIN Read(n, s, g) = DOMAIN n.ins[g] /\ DOMAIN Read(n, v, g) = DOMAIN n.ins[g]
         /\ \A i \in DOMAIN n.ins[g] :
              /\ Read(n, s, g)[i] \in {"low", "high", "none"}
              /\ Read(n, v, g)[i] \in {"low", "high", "none"}
              /\ Read(n, s, g)[i] # "none" => Read(n, v, g)[i] = Read(n, s, g)[i]
<1>1. \A i \in DOMAIN n.ins[g] : n.ins[g][i] \in Terminals
  BY LiveInputs, LiveFacts DEF Sound
<1>2. \A i \in DOMAIN n.ins[g] :
        /\ s[n.ins[g][i]] \in Values /\ v[n.ins[g][i]] \in Values
        /\ s[n.ins[g][i]] # "none" => v[n.ins[g][i]] = s[n.ins[g][i]]
  BY <1>1 DEF Fills
<1> QED  BY <1>2 DEF Read, Values, Known

\* A gate that has a value before its last input has one keeps it.
LEMMA PartValue ==
  ASSUME NEW n, Sound(n), WellShaped(n), NEW g \in Live(n), NEW s, NEW v, Fills(s, v)
  PROVE  /\ ComputeValue(n, s, g) \in Values
         /\ n.kind[g] # "tri" => ComputeValue(n, s, g) # "z"
         /\ ComputeValue(n, s, g) # "none" => ComputeValue(n, v, g) = ComputeValue(n, s, g)
<1> DEFINE a == Read(n, s, g)
           b == Read(n, v, g)
           I == DOMAIN n.ins[g]
<1>1. /\ DOMAIN a = I /\ DOMAIN b = I
      /\ \A i \in I : /\ a[i] \in {"low", "high", "none"} /\ b[i] \in {"low", "high", "none"}
                      /\ a[i] # "none" => b[i] = a[i]
  BY PartRead
<1>2. I = 1 .. Len(n.ins[g]) /\ Len(n.ins[g]) \in Nat /\ n.kind[g] \in Kinds \ {"dead"}
  BY LiveInputs, NetFields DEF Live, Sound
<1>3. /\ n.kind[g] = "not" => 1 \in I
      /\ n.kind[g] = "tri" => 1 \in I /\ 2 \in I /\ 3 \in I
      /\ n.kind[g] = "mux" => 1 \in I /\ 2 \in I /\ 3 \in I /\ 4 \in I
  BY <1>2 DEF WellShaped
<1> HIDE DEF a, b, I
<1>4. CASE n.kind[g] = "not"
  <2>1. ComputeValue(n, s, g) = Flip(a[1]) /\ ComputeValue(n, v, g) = Flip(b[1])
    BY <1>4 DEF ComputeValue, a, b
  <2> QED  BY <1>1, <1>3, <1>4, <2>1 DEF Flip, Values, Known
<1>5. CASE n.kind[g] = "tri"
  <2>1. ComputeValue(n, s, g) = Switch(a[1], a[3], "z") /\ ComputeValue(n, v, g) = Switch(b[1], b[3], "z")
    BY <1>5 DEF ComputeValue, a, b
  <2> QED  BY <1>1, <1>3, <1>5, <2>1 DEF Switch, Values, Known
<1>6. CASE n.kind[g] = "mux"
  <2>1. /\ ComputeValue(n, s, g) = IF a[3] = a[4] THEN a[3] ELSE Switch(a[1], a[3], a[4])
        /\ ComputeValue(n, v, g) = IF b[3] = b[4] THEN b[3] ELSE Switch(b[1], b[3], b[4])
    BY <1>6 DEF ComputeValue, a, b
  <2> QED  BY <1>1, <1>3, <1>6, <2>1 DEF Switch, Values, Known
<1>7. CASE n.kind[g] = "nand"
  <2>1. ComputeValue(n, s, g) = Decide(a, "low", "high") /\ ComputeValue(n, v, g) = Decide(b, "low", "high")
    BY <1>7 DEF ComputeValue, a, b
  <2> QED  BY <1>1, <2>1 DEF Decide, Flip, Values, Known
<1>8. CASE n.kind[g] = "nor"
  <2>1. ComputeValue(n, s, g) = Decide(a, "high", "low") /\ ComputeValue(n, v, g) = Decide(b, "high", "low")
    BY <1>8 DEF ComputeValue, a, b
  <2> QED  BY <1>1, <2>1 DEF Decide, Flip, Values, Known
<1>9. CASE n.kind[g] = "lookup"
  <2>1. ComputeValue(n, s, g) = LookUp(n.lut[g], a) /\ ComputeValue(n, v, g) = LookUp(n.lut[g], b)
    BY <1>9 DEF ComputeValue, a, b
  <2>2. CASE \E i \in I : a[i] = "none"
    BY <1>1, <2>1, <2>2 DEF LookUp, Values
  <2>3. CASE \A i \in I : a[i] # "none"
    <3>1. a = b
      <4>1. a = [i \in I |-> a[i]] /\ b = [i \in I |-> b[i]]
        BY DEF a, b, I, Read
      <4>2. \A i \in I : a[i] = b[i]
        BY <1>1, <2>3
      <4> QED  BY <4>1, <4>2
    <3>2. ComputeValue(n, s, g) \in Values \ {"z"}
      BY <1>1, <2>1, <2>3 DEF LookUp, FromBool, Values, Known
    <3> QED  BY <2>1, <3>1, <3>2
  <2> QED  BY <2>2, <2>3
<1> QED  BY <1>2, <1>4, <1>5, <1>6, <1>7, <1>8, <1>9 DEF Kinds

\* One round of evaluation adds values, and none that a settled state does not have.
LEMMA DecidedFills ==
  ASSUME NEW n, Sound(n), WellShaped(n), NEW s \in [Terminals -> Values]
  PROVE  /\ Fills(s, Decided(n, s))
         /\ \A v : IsStable(n, v) /\ Fills(s, v) => Fills(Decided(n, s), v)
         /\ \A t \in Terminals \ Live(n) : Decided(n, s)[t] = s[t]
<1> DEFINE d == Decided(n, s)
           Next1(t) == IF s[t] = "none" /\ t \in Gates THEN ComputeValue(n, s, t) ELSE s[t]
<1>1. Gates \in SUBSET Terminals /\ DOMAIN s = Terminals
  BY TerminalsApart
<1>2. d = [t \in Terminals |-> Next1(t)]
  BY <1>1, Zenon DEF Decided
<1>3. Fills(s, s)
  BY DEF Fills
<1>4. ASSUME NEW g \in Gates
      PROVE  /\ ComputeValue(n, s, g) \in Values
             /\ g \notin Live(n) => ComputeValue(n, s, g) = "none"
  <2>1. CASE g \in Live(n)
    BY <1>3, <2>1, PartValue
  <2>2. CASE g \notin Live(n)
    <3>1. n.kind[g] = "dead"
      BY <2>2 DEF Live
    <3> QED  BY <2>2, <3>1 DEF ComputeValue, Values
  <2> QED  BY <2>1, <2>2
<1> HIDE DEF d
<1>5. d \in [Terminals -> Values]
  <2>1. \A t \in Terminals : Next1(t) \in Values
    BY <1>4
  <2> HIDE DEF Next1
  <2> QED  BY <1>2, <2>1
<1>6. Fills(s, d)
  BY <1>2, <1>5 DEF Fills
<1>7. ASSUME NEW v, IsStable(n, v), Fills(s, v)  PROVE Fills(d, v)
  <2>1. ASSUME NEW t \in Terminals, d[t] # "none"  PROVE v[t] = d[t]
    <3>1. CASE s[t] = "none" /\ t \in Gates
      <4>1. d[t] = ComputeValue(n, s, t)
        BY <1>2, <3>1
      <4>2. t \in Live(n)
        BY <1>4, <2>1, <3>1, <4>1
      <4> QED  BY <1>7, <2>1, <4>1, <4>2, PartValue DEF IsStable
    <3>2. CASE ~ (s[t] = "none" /\ t \in Gates)
      BY <1>2, <1>7, <2>1, <3>2 DEF Fills
    <3> QED  BY <3>1, <3>2
  <2> QED  BY <1>5, <1>7, <2>1 DEF Fills
<1>8. ASSUME NEW t \in Terminals \ Live(n)  PROVE d[t] = s[t]
  BY <1>2, <1>4
<1> QED  BY <1>6, <1>7, <1>8 DEF d
\* Rounds of evaluation do the same.
LEMMA SettleFills ==
  ASSUME NEW n, Sound(n), WellShaped(n), NEW s \in [Terminals -> Values], NEW k \in Nat
  PROVE  /\ Fills(s, Settle(n, s, k))
         /\ \A v : IsStable(n, v) /\ Fills(s, v) => Fills(Settle(n, s, k), v)
         /\ \A t \in Terminals \ Live(n) : Settle(n, s, k)[t] = s[t]
<1> DEFINE Next1(x) == {Decided(n, u) : u \in x}
           Rounds(f, l) == f = [j \in 0 .. l |-> IF j = 0 THEN {s} ELSE Next1(f[j - 1])]
           T == {l \in Nat : ~ \E f : Rounds(f, l)}
           after == CHOOSE f : Rounds(f, k)
<1>1. T = {}
  <2> SUFFICES ASSUME T # {} PROVE FALSE
    OBVIOUS
  <2>1. PICK m \in T : \A l \in T : m <= l
    BY LeastElement, T \in SUBSET Nat
  <2>2. m # 0
    <3> DEFINE f == [j \in 0 .. 0 |-> {s}]
    <3>1. Rounds(f, 0)
      OBVIOUS
    <3> QED  BY <3>1
  <2>3. PICK l \in Nat : m = l + 1 /\ l \notin T
    <3>1. m - 1 \in Nat /\ m = (m - 1) + 1 /\ ~ (m <= m - 1)
      BY <2>2
    <3> QED  BY <2>1, <3>1
  <2>4. PICK f : Rounds(f, l)
    BY <2>3
  <2> HIDE DEF Next1
  <2> DEFINE e == [j \in 0 .. l + 1 |-> IF j = l + 1 THEN Next1(f[l]) ELSE f[j]]
  <2>5. ASSUME NEW j \in 0 .. l + 1
        PROVE  e[j] = IF j = 0 THEN {s} ELSE Next1(e[j - 1])
    <3>1. CASE j = l + 1
      <4>1. e[l] = f[l] /\ j # 0 /\ j - 1 = l
        BY <3>1
      <4> QED  BY <3>1, <4>1
    <3>2. CASE j # l + 1
      <4>1. e[j] = f[j] /\ j \in 0 .. l
        BY <3>2
      <4>2. j # 0 => j - 1 \in 0 .. l /\ e[j - 1] = f[j - 1]
        BY <4>1
      <4> QED  BY <2>4, <4>1, <4>2
    <3> QED  BY <3>1, <3>2
  <2>6. Rounds(e, l + 1)
    BY <2>5
  <2> QED  BY <2>1, <2>3, <2>6
<1>2. Rounds(after, k)
  <2>1. \E f : Rounds(f, k)
    <3> HIDE DEF Rounds
    <3> QED  BY <1>1
  <2> HIDE DEF Rounds
  <2> QED  BY <2>1
<1>3. Settle(n, s, k) = CHOOSE x \in after[k] : TRUE
  BY Zenon DEF Settle
<1> HIDE DEF after
<1> DEFINE Good(x) == /\ Fills(s, x) /\ \A v : IsStable(n, v) /\ Fills(s, v) => Fills(x, v)
                      /\ \A t \in Terminals \ Live(n) : x[t] = s[t]
           S == {j \in 0 .. k : \E x : after[j] = {x} /\ Good(x)}
<1>4. 0 \in S
  <2>1. after[0] = {s} /\ 0 \in 0 .. k
    BY <1>2
  <2>2. Good(s)
    BY DEF Fills
  <2> HIDE DEF Good
  <2> QED  BY <2>1, <2>2
<1>5. ASSUME NEW j \in 1 .. k, j - 1 \in S
      PROVE  j \in S
  <2>1. PICK x : after[j - 1] = {x} /\ Good(x)
    BY <1>5
  <2>2. j \in 0 .. k /\ after[j] = Next1(after[j - 1])
    <3>1. j \in 0 .. k /\ j # 0
      OBVIOUS
    <3>2. \A i \in 0 .. k : after[i] = IF i = 0 THEN {s} ELSE Next1(after[i - 1])
      <4> HIDE DEF Next1
      <4> QED  BY <1>2
    <3> HIDE DEF Next1
    <3> QED  BY <3>1, <3>2
  <2>3. after[j] = {Decided(n, x)}
    BY <2>1, <2>2
  <2>4. x \in [Terminals -> Values]
    BY <2>1 DEF Fills
  <2>5. /\ Fills(x, Decided(n, x))
        /\ \A v : IsStable(n, v) /\ Fills(x, v) => Fills(Decided(n, x), v)
        /\ \A t \in Terminals \ Live(n) : Decided(n, x)[t] = x[t]
    BY <2>4, DecidedFills
  <2>6. Good(Decided(n, x))
    BY <2>1, <2>5, FillsTrans
  <2> HIDE DEF Good
  <2> QED  BY <2>2, <2>3, <2>6
<1>6. k \in S
  <2> HIDE DEF S
  <2>1. \A j \in 0 .. k : j \in S
    BY <1>4, <1>5, UpTo
  <2> QED  BY <2>1
<1>7. PICK x : after[k] = {x} /\ Good(x)
  <2> HIDE DEF Good
  <2> QED  BY <1>6
<1>8. Settle(n, s, k) = x
  BY <1>3, <1>7
<1> QED  BY <1>7, <1>8

\* The gates are finitely many.
LEMMA LiveFinite ==
  ASSUME NEW n
  PROVE  IsFiniteSet(Live(n)) /\ Cardinality(Live(n)) \in Nat
<1>1. IsFiniteSet(1 .. MaxGates)
  BY NetAssumption, FS_Interval
<1>2. Live(n) \in SUBSET (1 .. MaxGates)
  BY DEF Live, Gates
<1>3. IsFiniteSet(Live(n))
  BY <1>1, <1>2, FS_Subset
<1> QED  BY <1>3, FS_CardinalityType

\* The values a gate may be given.
Possible(n, g) == IF n.kind[g] = "tri" THEN Known ELSE {"low", "high"}

\* The gates without a value.
Open(n, s) == {g \in Live(n) : s[g] = "none"}

\* The states that come of giving one more gate a value.
Tries(n, s) ==
  LET g == CHOOSE g \in Open(n, s) : TRUE
  IN  IF Open(n, s) = {} THEN {s}
      ELSE {Settle(n, [s EXCEPT ![g] = v], Cardinality(Live(n))) : v \in Possible(n, g)}

\* A state of a search that began with `start`.
Searched(n, start, s) ==
  s \in [Terminals -> Values] /\ \A t \in Terminals \ Live(n) : s[t] = start[t]

\* One more gate with a value: no state with all values right is lost.
LEMMA TriesSearch ==
  ASSUME NEW n, Sound(n), WellShaped(n), NEW start, NEW s, Searched(n, start, s)
  PROVE  /\ \A u \in Tries(n, s) :
              /\ Searched(n, start, u)
              /\ Open(n, s) # {} => \E g \in Open(n, s) : Open(n, u) \in SUBSET (Open(n, s) \ {g})
              /\ Open(n, s) = {} => u = s
         /\ \A v : /\ IsStable(n, v) /\ Fills(s, v)
                   /\ \A g \in Live(n) : v[g] \in Possible(n, g)
                  => \E u \in Tries(n, s) : Fills(u, v)
<1> DEFINE g == CHOOSE g \in Open(n, s) : TRUE
           k == Cardinality(Live(n))
           With(v) == [s EXCEPT ![g] = v]
<1>1. CASE Open(n, s) = {}
  <2>1. Tries(n, s) = {s}
    BY <1>1, Zenon DEF Tries
  <2> QED  BY <1>1, <2>1
<1>2. CASE Open(n, s) # {}
  <2>1. Tries(n, s) = {Settle(n, With(v), k) : v \in Possible(n, g)}
    BY <1>2, Zenon DEF Tries
  <2>2. g \in Open(n, s)
    BY <1>2
  <2> HIDE DEF g
  <2>3. k \in Nat
    BY LiveFinite
  <2>4. g \in Live(n) /\ g \in Terminals /\ s[g] = "none" /\ s \in [Terminals -> Values]
        /\ DOMAIN s = Terminals
    BY <2>2, LiveFacts, TerminalsApart DEF Open, Sound, Searched
  <2>5. ASSUME NEW v \in Possible(n, g)
        PROVE  /\ With(v) \in [Terminals -> Values] /\ With(v)[g] = v /\ v # "none"
               /\ \A t \in Terminals \ {g} : With(v)[t] = s[t]
    <3>1. v \in Values /\ v # "none"
      BY DEF Possible, Values, Known
    <3> QED  BY <2>4, <3>1
  <2> HIDE DEF k, With
  <2>6. ASSUME NEW v \in Possible(n, g)
        PROVE  /\ Fills(With(v), Settle(n, With(v), k))
               /\ \A x : IsStable(n, x) /\ Fills(With(v), x) => Fills(Settle(n, With(v), k), x)
               /\ \A t \in Terminals \ Live(n) : Settle(n, With(v), k)[t] = With(v)[t]
    BY <2>3, <2>5, SettleFills
  <2>7. ASSUME NEW u \in Tries(n, s)
        PROVE  /\ Searched(n, start, u)
               /\ \E h \in Open(n, s) : Open(n, u) \in SUBSET (Open(n, s) \ {h})
    <3>1. PICK v \in Possible(n, g) : u = Settle(n, With(v), k)
      BY <2>1
    <3>2. /\ Fills(With(v), u) /\ \A t \in Terminals \ Live(n) : u[t] = With(v)[t]
      BY <2>6, <3>1
    <3>3. Searched(n, start, u)
      BY <2>4, <2>5, <3>2 DEF Searched, Fills
    <3>4. Open(n, u) \in SUBSET (Open(n, s) \ {g})
      <4> SUFFICES ASSUME NEW h \in Open(n, u)  PROVE h \in Open(n, s) /\ h # g
        OBVIOUS
      <4>1. h \in Live(n) /\ h \in Terminals /\ u[h] = "none"
        BY LiveFacts, TerminalsApart DEF Open, Sound
      <4>2. With(v)[h] = "none"
        BY <3>2, <4>1 DEF Fills
      <4> QED  BY <2>4, <2>5, <4>1, <4>2 DEF Open
    <3> QED  BY <2>2, <3>3, <3>4
  <2>8. ASSUME NEW v, IsStable(n, v), Fills(s, v), \A h \in Live(n) : v[h] \in Possible(n, h)
        PROVE  \E u \in Tries(n, s) : Fills(u, v)
    <3>1. v[g] \in Possible(n, g)
      BY <2>4, <2>8
    <3>2. Fills(With(v[g]), v)
      BY <2>5, <2>8, <3>1 DEF Fills
    <3> QED  BY <2>1, <2>6, <2>8, <3>1, <3>2
  <2> QED  BY <1>2, <2>7, <2>8
<1> QED  BY <1>1, <1>2

\* The search finds every state in which each gate has the value its inputs give it.
LEMMA StableStates ==
  ASSUME NEW n, Sound(n), WellShaped(n), NEW inputs, Start(inputs) \in [Terminals -> Values],
         \A g \in Gates : Start(inputs)[g] = "none"
  PROVE  Stable(n, inputs) =
           {v \in [Terminals -> Values] :
              /\ IsStable(n, v) /\ \A g \in Live(n) : v[g] \in Possible(n, g)
              /\ \A t \in Terminals \ Live(n) : v[t] = Start(inputs)[t]}
<1> DEFINE start == Start(inputs)
           k == Cardinality(Live(n))
           first == Settle(n, start, k)
           Next1(x) == UNION {Tries(n, u) : u \in x}
           Rounds(f, l) == f = [j \in 0 .. l |-> IF j = 0 THEN {first} ELSE Next1(f[j - 1])]
           T == {l \in Nat : ~ \E f : Rounds(f, l)}
           tried == CHOOSE f : Rounds(f, k)
<1>1. k \in Nat
  BY LiveFinite
<1>2. Stable(n, inputs) = {s \in tried[k] : IsStable(n, s)}
  BY Zenon DEF Stable, Tries, Open, Possible, IsStable
<1>3. T = {}
  <2> HIDE DEF k, first
  <2> SUFFICES ASSUME T # {} PROVE FALSE
    OBVIOUS
  <2>1. PICK m \in T : \A l \in T : m <= l
    BY LeastElement, T \in SUBSET Nat
  <2>2. m # 0
    <3> DEFINE f == [j \in 0 .. 0 |-> {first}]
    <3>1. Rounds(f, 0)
      OBVIOUS
    <3> QED  BY <3>1
  <2>3. PICK l \in Nat : m = l + 1 /\ l \notin T
    <3>1. m - 1 \in Nat /\ m = (m - 1) + 1 /\ ~ (m <= m - 1)
      BY <2>2
    <3> QED  BY <2>1, <3>1
  <2>4. PICK f : Rounds(f, l)
    BY <2>3
  <2> HIDE DEF Next1
  <2> DEFINE e == [j \in 0 .. l + 1 |-> IF j = l + 1 THEN Next1(f[l]) ELSE f[j]]
  <2>5. ASSUME NEW j \in 0 .. l + 1
        PROVE  e[j] = IF j = 0 THEN {first} ELSE Next1(e[j - 1])
    <3>1. CASE j = l + 1
      <4>1. e[l] = f[l] /\ j # 0 /\ j - 1 = l
        BY <3>1
      <4> QED  BY <3>1, <4>1
    <3>2. CASE j # l + 1
      <4>1. e[j] = f[j] /\ j \in 0 .. l
        BY <3>2
      <4>2. j # 0 => j - 1 \in 0 .. l /\ e[j - 1] = f[j - 1]
        BY <4>1
      <4> QED  BY <2>4, <4>1, <4>2
    <3> QED  BY <3>1, <3>2
  <2>6. Rounds(e, l + 1)
    BY <2>5
  <2> QED  BY <2>1, <2>3, <2>6
<1>4. \A i \in 0 .. k : tried[i] = IF i = 0 THEN {first} ELSE Next1(tried[i - 1])
  <2> HIDE DEF k, first, Next1
  <2>1. \E f : Rounds(f, k)
    <3> HIDE DEF Rounds
    <3> QED  BY <1>1, <1>3
  <2>2. Rounds(tried, k)
    <3> HIDE DEF Rounds
    <3> QED  BY <2>1
  <2> QED  BY <1>1, <2>2
<1> HIDE DEF tried
<1>5. /\ Searched(n, start, first) /\ Fills(start, first)
      /\ \A v : IsStable(n, v) /\ Fills(start, v) => Fills(first, v)
  <2>1. /\ Fills(start, first)
        /\ \A v : IsStable(n, v) /\ Fills(start, v) => Fills(first, v)
        /\ \A t \in Terminals \ Live(n) : first[t] = start[t]
    BY <1>1, SettleFills
  <2> QED  BY <2>1 DEF Searched, Fills
<1> DEFINE Few(s, j) == Open(n, s) = {} \/ Cardinality(Open(n, s)) + j <= k
           Down(j) == \A s \in tried[j] : Searched(n, start, s) /\ Few(s, j)
           Target(v) == IsStable(n, v) /\ Fills(start, v) /\ \A g \in Live(n) : v[g] \in Possible(n, g)
           Hit(j) == \A v : Target(v) => \E s \in tried[j] : Fills(s, v)
           D == {j \in 0 .. k : Down(j) /\ Hit(j)}
<1>6. ASSUME NEW s  PROVE IsFiniteSet(Open(n, s)) /\ Cardinality(Open(n, s)) \in Nat
                          /\ Cardinality(Open(n, s)) <= k
  <2>1. Open(n, s) \in SUBSET Live(n)
    BY DEF Open
  <2> QED  BY <2>1, LiveFinite, FS_Subset, FS_CardinalityType
<1> HIDE DEF first, start, k
<1>7. 0 \in D
  <2>1. 0 \in 0 .. k /\ tried[0] = {first}
    <3>1. 0 \in 0 .. k
      BY <1>1
    <3> HIDE DEF Next1
    <3> QED  BY <1>4, <3>1
  <2>2. Few(first, 0)
    BY <1>1, <1>6
  <2>3. Down(0)
    <3> HIDE DEF Few
    <3> QED  BY <1>5, <2>1, <2>2
  <2>4. Hit(0)
    BY <1>5, <2>1
  <2> HIDE DEF Down, Hit
  <2> QED  BY <2>1, <2>3, <2>4
<1>8. ASSUME NEW j \in 1 .. k, j - 1 \in D
      PROVE  j \in D
  <2>1. Down(j - 1) /\ Hit(j - 1) /\ j - 1 \in Nat /\ j \in 0 .. k /\ j = (j - 1) + 1
    <3> HIDE DEF Down, Hit
    <3> QED  BY <1>1, <1>8
  <2>2. tried[j] = UNION {Tries(n, u) : u \in tried[j - 1]}
    <3>1. j \in 0 .. k /\ j # 0
      BY <1>1
    <3> QED  BY <1>4, <3>1
  <2>3. Down(j)
    <3> SUFFICES ASSUME NEW s \in tried[j]  PROVE Searched(n, start, s) /\ Few(s, j)
      OBVIOUS
    <3>1. PICK u \in tried[j - 1] : s \in Tries(n, u)
      BY <2>2
    <3>2. Searched(n, start, u) /\ Few(u, j - 1)
      BY <2>1
    <3>3. /\ Searched(n, start, s)
          /\ Open(n, u) # {} => \E g \in Open(n, u) : Open(n, s) \in SUBSET (Open(n, u) \ {g})
          /\ Open(n, u) = {} => s = u
      BY <3>1, <3>2, TriesSearch
    <3>4. CASE Open(n, u) = {}
      BY <3>3, <3>4
    <3>5. CASE Open(n, u) # {}
      <4>1. PICK g \in Open(n, u) : Open(n, s) \in SUBSET (Open(n, u) \ {g})
        BY <3>3, <3>5
      <4>2. Cardinality(Open(n, u) \ {g}) = Cardinality(Open(n, u)) - 1 /\ IsFiniteSet(Open(n, u) \ {g})
        BY <1>6, FS_RemoveElement
      <4>3. Cardinality(Open(n, s)) <= Cardinality(Open(n, u)) - 1
        BY <4>1, <4>2, FS_Subset
      <4>4. Cardinality(Open(n, u)) + (j - 1) <= k
        BY <3>2, <3>5
      <4>5. Cardinality(Open(n, s)) \in Nat /\ Cardinality(Open(n, u)) \in Nat
        BY <1>6
      <4> QED  BY <1>1, <3>3, <4>3, <4>4, <4>5
    <3> QED  BY <3>4, <3>5
  <2>4. Hit(j)
    <3> SUFFICES ASSUME NEW v, Target(v)  PROVE \E s \in tried[j] : Fills(s, v)
      OBVIOUS
    <3>1. PICK u \in tried[j - 1] : Fills(u, v)
      BY <2>1
    <3>2. Searched(n, start, u)
      BY <2>1
    <3>3. \E s \in Tries(n, u) : Fills(s, v)
      BY <3>1, <3>2, TriesSearch
    <3> QED  BY <2>2, <3>3
  <2> HIDE DEF Down, Hit
  <2> QED  BY <2>1, <2>3, <2>4
<1>9. Down(k) /\ Hit(k)
  <2> HIDE DEF Down, Hit
  <2>1. k \in 0 .. k
    BY <1>1
  <2>2. \A j \in 0 .. k : j \in D
    <3> HIDE DEF D
    <3> QED  BY <1>1, <1>7, <1>8, UpTo
  <2> QED  BY <2>1, <2>2
<1>10. ASSUME NEW s \in tried[k]  PROVE Searched(n, start, s) /\ \A g \in Live(n) : s[g] # "none"
  <2>1. Searched(n, start, s) /\ Few(s, k)
    BY <1>9
  <2>2. Open(n, s) = {}
    <3>1. CASE Cardinality(Open(n, s)) + k <= k
      <4>1. Cardinality(Open(n, s)) = 0
        BY <1>1, <1>6, <3>1
      <4> QED  BY <1>6, <4>1, FS_EmptySet
    <3> QED  BY <2>1, <3>1
  <2> QED  BY <2>1, <2>2 DEF Open
<1> DEFINE Found == {v \in [Terminals -> Values] :
                       /\ IsStable(n, v) /\ \A g \in Live(n) : v[g] \in Possible(n, g)
                       /\ \A t \in Terminals \ Live(n) : v[t] = start[t]}
<1>11. ASSUME NEW s \in tried[k], IsStable(n, s)  PROVE s \in Found
  <2>1. s \in [Terminals -> Values] /\ \A t \in Terminals \ Live(n) : s[t] = start[t]
    BY <1>10 DEF Searched
  <2>2. ASSUME NEW g \in Live(n)  PROVE s[g] \in Possible(n, g)
    <3>1. Fills(s, s)
      BY <2>1 DEF Fills
    <3>2. ComputeValue(n, s, g) = s[g] /\ s[g] # "none"
      BY <1>10, <1>11 DEF IsStable
    <3>3. s[g] \in Values /\ (n.kind[g] # "tri" => s[g] # "z")
      BY <3>1, <3>2, PartValue
    <3> QED  BY <3>2, <3>3 DEF Possible, Values, Known
  <2> QED  BY <1>11, <2>1, <2>2
<1>12. ASSUME NEW v \in Found  PROVE v \in tried[k]
  <2>1. Live(n) \in SUBSET Gates /\ Live(n) \in SUBSET Terminals
    BY LiveFacts, TerminalsApart DEF Sound
  <2>2. start \in [Terminals -> Values] /\ \A g \in Gates : start[g] = "none"
    BY DEF start
  <2>3. Fills(start, v)
    BY <2>1, <2>2 DEF Fills
  <2>4. PICK s \in tried[k] : Fills(s, v)
    BY <1>9, <2>3
  <2>5. Searched(n, start, s) /\ \A g \in Live(n) : s[g] # "none"
    BY <1>10
  <2>6. \A t \in Terminals : v[t] = s[t]
    BY <2>1, <2>4, <2>5 DEF Fills, Searched
  <2>7. v = s
    BY <2>4, <2>6 DEF Fills
  <2> QED  BY <2>7
<1>13. Stable(n, inputs) = Found
  <2>1. \A v \in Found : IsStable(n, v)
    OBVIOUS
  <2> HIDE DEF Found
  <2> QED  BY <1>2, <1>11, <1>12, <2>1
<1> QED  BY <1>13 DEF start

\* What the inputs alone decide.
LEMMA StartValues ==
  ASSUME NEW bits, bits \in SUBSET Inputs, NEW inputs \in [bits -> Levels]
  PROVE  /\ Start(inputs) \in [Terminals -> Values]
         /\ \A b \in bits : Start(inputs)[b] = inputs[b]
         /\ Start(inputs)[Low] = "low" /\ Start(inputs)[High] = "high"
         /\ \A t \in Terminals \ (bits \cup {Low, High}) : Start(inputs)[t] = "none"
         /\ \A g \in Gates : Start(inputs)[g] = "none"
<1>1. DOMAIN inputs = bits /\ \A b \in bits : inputs[b] \in Levels
  OBVIOUS
<1>2. /\ Low \in Terminals /\ High \in Terminals /\ Inputs \in SUBSET Terminals
      /\ Gates \in SUBSET Terminals /\ Low \notin bits /\ High \notin bits /\ Low # High
      /\ \A g \in Gates : g \notin bits /\ g # Low /\ g # High
  BY TerminalsApart, NetAssumption
<1> DEFINE Next1(t) == IF t \in bits THEN inputs[t]
                       ELSE IF t = Low THEN "low" ELSE IF t = High THEN "high" ELSE "none"
<1>3. \A t \in Terminals : Start(inputs)[t] = Next1(t)
  BY <1>1, <1>2 DEF Start
<1>4. \A t \in Terminals : Next1(t) \in Values
  BY <1>1 DEF Levels, Values, Known
<1>5. DOMAIN Start(inputs) = Terminals /\ Start(inputs) = [t \in Terminals |-> Start(inputs)[t]]
  BY DEF Start
<1>6. Start(inputs) \in [Terminals -> Values]
  <2> HIDE DEF Next1
  <2> QED  BY <1>3, <1>4, <1>5
<1> QED  BY <1>1, <1>2, <1>3, <1>6

\* The inputs and the outputs that are read.
LEMMA ReadBits ==
  ASSUME NEW n, Sound(n), NEW u \in Users, NEW i \in DOMAIN n.ins[u],
         u = Sink => i \in 1 .. n.outs
  PROVE  n.ins[u][i] \in Live(n) \cup BitsRead(n) \cup {Low, High}
<1>1. n.ins[u][i] \in LiveTerminals(n)
  <2>1. n.outs \in Nat
    BY DEF Sound, IsNet
  <2> QED  BY <2>1 DEF Sound, ReadsLive, Sink
<1> QED  BY <1>1 DEF LiveTerminals, BitsRead

\* The outputs that `behaviour` allows, for each value of the inputs.
Allowed(behaviour, bits) ==
  [inputs \in [bits -> Levels] |->
     {b.outputs : b \in {c \in behaviour : \A i \in bits : c.inputs[i] = inputs[i]}}]

\* What a network does, for given values of some of its inputs, is what its behaviours
\* allow: for a network that reads no other inputs.
THEOREM FunctionOfBehaviour ==
  ASSUME NEW n, Foldable(n), NEW bits, bits \in SUBSET Inputs, BitsRead(n) \in SUBSET bits
  PROVE  Function(n, bits) = Allowed(Behaviour(n), bits)
<1>1. Sound(n) /\ WellShaped(n)
  BY SoundIsWellFormed DEF Foldable
<1>2. /\ Live(n) \in SUBSET Gates /\ Gates \in SUBSET Terminals /\ Inputs \in SUBSET Terminals
      /\ Low \in Terminals /\ High \in Terminals /\ Low \notin Inputs /\ High \notin Inputs
      /\ \A g \in Gates : g \notin Inputs /\ g # Low /\ g # High
  BY LiveFacts, TerminalsApart, NetAssumption, <1>1 DEF Sound
<1>3. /\ n.outs \in Nat /\ Sink \in Users /\ 1 .. n.outs \in SUBSET DOMAIN n.ins[Sink]
      /\ \A g \in Live(n) : g \in Users /\ g # Sink
  <2>1. n.outs \in 0 .. MaxOutputs /\ DOMAIN n.ins[Sink] = 1 .. MaxOutputs
    BY <1>1, NetFields DEF Sound, DeadIsBare
  <2>2. n.outs \in Nat /\ 1 .. n.outs \in SUBSET 1 .. MaxOutputs
    BY <2>1, NetAssumption
  <2>3. Sink \in Users /\ Gates \in SUBSET Users /\ \A g \in Gates : g # Sink
    BY DEF Users, Sink, Gates
  <2> QED  BY <1>2, <2>1, <2>2, <2>3
<1>4. \A o \in 1 .. n.outs : n.ins[Sink][o] \in Live(n) \cup BitsRead(n) \cup {Low, High}
  BY <1>1, <1>3, ReadBits
<1>5. \A g \in Live(n) : \A i \in DOMAIN n.ins[g] :
        n.ins[g][i] \in Live(n) \cup BitsRead(n) \cup {Low, High}
  BY <1>1, <1>3, ReadBits
<1> DEFINE Outputs(v) == [o \in 1 .. n.outs |-> v[n.ins[Sink][o]]]
<1>6. ASSUME NEW inputs \in [bits -> Levels]
      PROVE  {Outputs(v) : v \in Stable(n, inputs)}
               = {b.outputs : b \in {c \in Behaviour(n) : \A i \in bits : c.inputs[i] = inputs[i]}}
  <2> DEFINE start == Start(inputs)
             Found(v) == /\ v \in [Terminals -> Values]
                         /\ IsStable(n, v) /\ \A g \in Live(n) : v[g] \in Possible(n, g)
                         /\ \A t \in Terminals \ Live(n) : v[t] = start[t]
             Shown(st) == /\ st \in [Terminals -> Known] /\ Consistent(n, st)
                          /\ \A i \in bits : st[i] = inputs[i]
  <2>1. /\ start \in [Terminals -> Values]
        /\ \A b \in bits : start[b] = inputs[b]
        /\ start[Low] = "low" /\ start[High] = "high"
        /\ \A t \in Terminals \ (bits \cup {Low, High}) : start[t] = "none"
        /\ \A g \in Gates : start[g] = "none"
    BY StartValues
  <2>2. \A v : v \in Stable(n, inputs) <=> Found(v)
    <3>1. Stable(n, inputs) =
           {v \in [Terminals -> Values] :
              /\ IsStable(n, v) /\ \A g \in Live(n) : v[g] \in Possible(n, g)
              /\ \A t \in Terminals \ Live(n) : v[t] = Start(inputs)[t]}
      BY <1>1, <2>1, StableStates
    <3> QED  BY <3>1
  <2> HIDE DEF start
  <2>3. \A i \in bits : inputs[i] \in Levels
    OBVIOUS
  <2>4. ASSUME NEW v, Found(v)
        PROVE  \E st : Shown(st) /\ Outputs(st) = Outputs(v)
    <3> DEFINE st == [t \in Terminals |-> IF v[t] = "none" THEN "low" ELSE v[t]]
    <3>1. st \in [Terminals -> Known] /\ Fills(v, st)
      BY <2>4 DEF Fills, Values, Known
    <3>2. \A t \in Terminals : v[t] # "none" => st[t] = v[t]
      OBVIOUS
    <3>3. \A t \in Live(n) \cup bits \cup {Low, High} : v[t] # "none" /\ st[t] = v[t]
      <4>1. \A g \in Live(n) : v[g] # "none"
        BY <2>4 DEF Possible, Known
      <4>2. \A t \in bits \cup {Low, High} : t \in Terminals \ Live(n) /\ v[t] = start[t] /\ v[t] # "none"
        BY <1>2, <2>1, <2>3, <2>4 DEF Levels
      <4> HIDE DEF st
      <4> QED  BY <1>2, <3>2, <4>1, <4>2
    <3>4. ASSUME NEW i \in Inputs  PROVE st[i] \in Levels
      <4>1. v[i] = start[i] /\ (start[i] = "none" \/ start[i] \in Levels)
        BY <1>2, <2>1, <2>3, <2>4
      <4> QED  BY <1>2, <4>1 DEF Levels
    <3> HIDE DEF st
    <3>5. Valuation(st)
      BY <1>2, <2>1, <2>4, <3>1, <3>3, <3>4 DEF Valuation
    <3>6. ASSUME NEW g \in Live(n)  PROVE st[g] = ComputeValue(n, st, g)
      <4>1. ComputeValue(n, v, g) = v[g] /\ v[g] # "none" /\ st[g] = v[g]
        BY <2>4, <3>3 DEF IsStable
      <4> QED  BY <1>1, <3>1, <4>1, PartValue
    <3>7. \A i \in bits : st[i] = inputs[i]
      BY <1>2, <2>1, <2>4, <3>3
    <3>8. \A o \in 1 .. n.outs : st[n.ins[Sink][o]] = v[n.ins[Sink][o]]
      BY <1>4, <3>3
    <3>9. Shown(st)
      BY <3>1, <3>5, <3>6, <3>7 DEF Consistent
    <3> QED  BY <3>8, <3>9
  <2>5. ASSUME NEW st, Shown(st)
        PROVE  \E v : Found(v) /\ Outputs(v) = Outputs(st)
    <3> DEFINE Valued == Live(n) \cup bits \cup {Low, High}
               v == [t \in Terminals |-> IF t \in Valued THEN st[t] ELSE "none"]
    <3>1. v \in [Terminals -> Values]
      <4>1. \A t \in Terminals : st[t] \in Values
        BY <2>5 DEF Values
      <4>2. "none" \in Values
        BY DEF Values
      <4> HIDE DEF Valued
      <4> QED  BY <4>1, <4>2
    <3>2. \A t \in Valued : t \in Terminals /\ v[t] = st[t]
      BY <1>2
    <3>3. \A t \in Terminals \ Valued : v[t] = "none"
      OBVIOUS
    <3> HIDE DEF v
    <3>4. ASSUME NEW g \in Live(n)
          PROVE  ComputeValue(n, v, g) = v[g] /\ v[g] \in Possible(n, g)
      <4>1. \A i \in DOMAIN n.ins[g] : v[n.ins[g][i]] = st[n.ins[g][i]]
        BY <1>5, <3>2
      <4>2. Read(n, v, g) = Read(n, st, g)
        BY <4>1 DEF Read
      <4>3. ComputeValue(n, v, g) = ComputeValue(n, st, g)
        BY <4>2, Zenon DEF ComputeValue
      <4>4. st[g] = ComputeValue(n, st, g) /\ v[g] = st[g] /\ st[g] \in Known
        BY <1>2, <2>5, <3>2 DEF Consistent
      <4>5. Fills(st, st)
        BY <2>5 DEF Fills, Values
      <4>6. n.kind[g] # "tri" => st[g] # "z"
        BY <1>1, <4>4, <4>5, PartValue
      <4> QED  BY <4>3, <4>4, <4>6 DEF Possible, Known
    <3>5. ASSUME NEW t \in Terminals \ Live(n)  PROVE v[t] = start[t]
      <4>1. CASE t \in bits
        BY <2>1, <2>5, <3>2, <4>1
      <4>2. CASE t \in {Low, High}
        BY <2>1, <2>5, <3>2, <4>2 DEF Consistent, Valuation
      <4>3. CASE t \notin bits \cup {Low, High}
        BY <2>1, <3>3, <4>3
      <4> QED  BY <4>1, <4>2, <4>3
    <3>6. \A o \in 1 .. n.outs : v[n.ins[Sink][o]] = st[n.ins[Sink][o]]
      BY <1>4, <3>2
    <3>7. Found(v)
      BY <3>1, <3>4, <3>5 DEF IsStable
    <3> QED  BY <3>6, <3>7
  <2>6. \A x : x \in {b.outputs : b \in {c \in Behaviour(n) : \A i \in bits : c.inputs[i] = inputs[i]}}
               <=> \E st : Shown(st) /\ x = Outputs(st)
    <3>1. ASSUME NEW st
          PROVE  /\ Shows(n, st).outputs = Outputs(st)
                 /\ \A i \in bits : Shows(n, st).inputs[i] = st[i]
      BY DEF Shows
    <3>2. \A c : c \in Behaviour(n) <=> \E st \in [Terminals -> Known] : Consistent(n, st) /\ c = Shows(n, st)
      BY DEF Behaviour
    <3> HIDE DEF Outputs
    <3>3. ASSUME NEW x, NEW b \in Behaviour(n), \A i \in bits : b.inputs[i] = inputs[i], x = b.outputs
          PROVE  \E st : Shown(st) /\ x = Outputs(st)
      BY <3>1, <3>2, <3>3
    <3>4. ASSUME NEW st, Shown(st)
          PROVE  \E b \in Behaviour(n) : /\ \A i \in bits : b.inputs[i] = inputs[i]
                                         /\ Outputs(st) = b.outputs
      BY <3>1, <3>2, <3>4
    <3> HIDE DEF Shown
    <3> QED  BY <3>3, <3>4
  <2>7. \A x : x \in {Outputs(v) : v \in Stable(n, inputs)} <=> \E v : Found(v) /\ x = Outputs(v)
    <3> HIDE DEF Found, Outputs
    <3> QED  BY <2>2
  <2> HIDE DEF Found, Shown, Outputs
  <2>8. \A x : x \in {Outputs(v) : v \in Stable(n, inputs)}
                <=> x \in {b.outputs : b \in {c \in Behaviour(n) : \A i \in bits : c.inputs[i] = inputs[i]}}
    <3>1. \A x : (\E v : Found(v) /\ x = Outputs(v)) <=> \E st : Shown(st) /\ x = Outputs(st)
      BY <2>4, <2>5
    <3> QED  BY <2>6, <2>7, <3>1
  <2> DEFINE A == {Outputs(v) : v \in Stable(n, inputs)}
             B == {b.outputs : b \in {c \in Behaviour(n) : \A i \in bits : c.inputs[i] = inputs[i]}}
  <2> HIDE DEF A, B
  <2>9. A = B
    BY <2>8 DEF A, B
  <2> QED  BY <2>9 DEF A, B
<1>7. Function(n, bits) = [inputs \in [bits -> Levels] |-> {Outputs(v) : v \in Stable(n, inputs)}]
  BY Zenon DEF Function, Levels
<1>8. Allowed(Behaviour(n), bits)
        = [inputs \in [bits -> Levels] |->
             {b.outputs : b \in {c \in Behaviour(n) : \A i \in bits : c.inputs[i] = inputs[i]}}]
  BY Zenon DEF Allowed
<1> HIDE DEF Outputs
<1> QED  BY <1>6, <1>7, <1>8

\* A visit that keeps the behaviour keeps what the network does.
LEMMA FunctionKeeps ==
  ASSUME NEW n, Foldable(n), NEW m, Keeps(n, m), NEW bits, bits \in SUBSET Inputs,
         BitsRead(n) \in SUBSET bits
  PROVE  BitsRead(m) \in SUBSET bits /\ Function(m, bits) = Function(n, bits)
<1>1. Foldable(m) /\ Behaviour(m) = Behaviour(n) /\ BitsRead(m) \in SUBSET bits
  BY DEF Keeps
<1>2. Function(m, bits) = Allowed(Behaviour(m), bits)
  BY <1>1, FunctionOfBehaviour
<1>3. Function(n, bits) = Allowed(Behaviour(n), bits)
  BY FunctionOfBehaviour
<1> QED  BY <1>1, <1>2, <1>3

----------------------------------------------------------------------------
(* The front end.                                                           *)

\* What a call may read.
Readable(n) == {t \in LiveTerminals(n) : t \in Gates => n.kind[t] # "tri"}

\* A gate of this kind, inputs and table is one for the rewrites.
FitsIn(n, k, s, l) ==
  /\ s \in Seq(Readable(n))
  /\ k = "not" => Len(s) >= 1
  /\ k = "tri" => Len(s) >= 3
  /\ k = "mux" => Len(s) >= 4
  /\ k \in {"tri", "mux"} => Opposite(n, s[1], s[2])
  /\ k = "lookup" => Len(s) = 4 /\ Len(l) = 4 /\ Opposite(n, s[1], s[3]) /\ Opposite(n, s[2], s[4])

\* A network with one gate more, or with other inputs at a NOR, stays one for the
\* rewrites.
LEMMA ChangedFoldable ==
  ASSUME NEW n, Foldable(n), NEW m, Sound(m), NEW g, Live(m) = Live(n) \cup {g},
         g \in Live(n) => n.kind[g] = "nor" /\ m.kind[g] = "nor",
         \A u \in Live(n) \ {g} : m.kind[u] = n.kind[u] /\ m.ins[u] = n.ins[u] /\ m.lut[u] = n.lut[u],
         FitsIn(n, m.kind[g], m.ins[g], m.lut[g])
  PROVE  Foldable(m)
<1>1. Sound(n) /\ WellShaped(n) /\ Paired(n) /\ NoBufferRead(n) /\ TablesFit(n)
  BY SoundIsWellFormed DEF Foldable
<1>2. WellShaped(m) /\ TablesFit(m)
  BY <1>1 DEF WellShaped, TablesFit, FitsIn, TableShape
<1>3. NoBufferRead(m)
  <2> SUFFICES ASSUME NEW u \in Live(m), NEW i \in DOMAIN m.ins[u], m.ins[u][i] \in Gates
               PROVE  m.kind[m.ins[u][i]] # "tri"
    BY DEF NoBufferRead, InputsOf
  <2>1. \A t \in LiveTerminals(n) : t \in Gates => t \in Live(n)
    BY TerminalsApart DEF LiveTerminals
  <2>2. m.ins[u][i] \in Readable(n)
    <3>1. CASE u = g
      BY <3>1 DEF FitsIn
    <3>2. CASE u # g
      <4>1. u \in Live(n) /\ m.ins[u] = n.ins[u]
        BY <3>2
      <4>2. n.ins[u][i] \in LiveTerminals(n)
        BY <1>1, <4>1, LiveInputs
      <4> QED  BY <1>1, <4>1, <4>2 DEF NoBufferRead, InputsOf, Readable
    <3> QED  BY <3>1, <3>2
  <2>3. m.ins[u][i] \in Live(n) /\ n.kind[m.ins[u][i]] # "tri"
    BY <2>1, <2>2 DEF Readable
  <2> QED  BY <2>3
<1>4. ASSUME NEW a, NEW b, IsNotOf(n, b, a)  PROVE IsNotOf(m, b, a)
  <2>1. b \in Live(n) /\ b # g
    BY <1>1, <1>4, NotHasInput DEF IsNotOf
  <2> QED  BY <1>4, <2>1 DEF IsNotOf
<1>5. ASSUME NEW a, NEW b, Opposite(n, a, b)  PROVE Opposite(m, a, b)
  BY <1>4, <1>5 DEF Opposite
<1>6. Paired(m)
  <2> SUFFICES ASSUME NEW u \in Live(m), NEW p \in PairsOf(m, u)
               PROVE  Opposite(m, m.ins[u][p[1]], m.ins[u][p[2]])
    BY DEF Paired
  <2>1. CASE u = g /\ m.kind[g] \in {"tri", "mux"}
    <3>1. p[1] = 1 /\ p[2] = 2
      BY <2>1 DEF PairsOf
    <3> QED  BY <1>5, <2>1, <3>1 DEF FitsIn
  <2>2. CASE u = g /\ m.kind[g] = "lookup"
    <3>1. LogicalEnd(m, g) = 2
      <4>1. 4 \div 2 = 2
        OBVIOUS
      <4> QED  BY <2>2, <4>1 DEF LogicalEnd, FitsIn
    <3>2. (p[1] = 1 /\ p[2] = 3) \/ (p[1] = 2 /\ p[2] = 4)
      BY <2>2, <3>1 DEF PairsOf
    <3>3. Opposite(n, m.ins[g][1], m.ins[g][3]) /\ Opposite(n, m.ins[g][2], m.ins[g][4])
      BY <2>2 DEF FitsIn
    <3> QED  BY <1>5, <2>2, <3>2, <3>3
  <2>3. CASE u = g /\ m.kind[g] \notin {"tri", "mux", "lookup"}
    BY <2>3 DEF PairsOf
  <2>4. CASE u # g
    <3>1. u \in Live(n) /\ m.kind[u] = n.kind[u] /\ m.ins[u] = n.ins[u]
      BY <2>4
    <3>2. p \in PairsOf(n, u)
      BY <3>1, EqualPairs
    <3> QED  BY <1>1, <1>5, <3>1, <3>2 DEF Paired
  <2> QED  BY <2>1, <2>2, <2>3, <2>4
<1> QED  BY <1>2, <1>3, <1>6, SoundIsWellFormed DEF Foldable

\* What a call leaves: the same gates as they were, and perhaps more.
Built(n, m) ==
  /\ Foldable(m) /\ m.outs = n.outs
  /\ \A u \in Live(n) : u \in Live(m) /\ m.kind[u] = n.kind[u] /\ m.ins[u] = n.ins[u]

\* One call after another.
LEMMA BuiltTrans ==
  ASSUME NEW n, NEW m, NEW p, Built(n, m), Built(m, p)
  PROVE  Built(n, p)
BY DEF Built

\* What could be read still can be.
LEMMA BuiltReadable ==
  ASSUME NEW n, NEW m, Built(n, m)
  PROVE  /\ Readable(n) \in SUBSET Readable(m)
         /\ \A a, b : Opposite(n, a, b) => Opposite(m, a, b)
<1>1. \A t \in LiveTerminals(n) : t \in Gates => t \in Live(n)
  BY TerminalsApart DEF LiveTerminals
<1>2. LiveTerminals(n) \in SUBSET LiveTerminals(m)
  BY DEF LiveTerminals, Built
<1>3. Readable(n) \in SUBSET Readable(m)
  BY <1>1, <1>2 DEF Readable, Built
<1>4. \A a, b : IsNotOf(n, b, a) => IsNotOf(m, b, a)
  BY DEF IsNotOf, Built, Live
<1>5. \A a, b : Opposite(n, a, b) => Opposite(m, a, b)
  BY <1>4 DEF Opposite
<1> QED  BY <1>3, <1>5

\* A new gate of any kind.
LEMMA GateBuilt ==
  ASSUME NEW n, Foldable(n), n.size + 1 <= MaxGates, NEW k \in Kinds \ {"dead"}, NEW s,
         NEW l \in Seq(BOOLEAN), FitsIn(n, k, s, l)
  PROVE  LET m == AddLookup(n, k, s, l)
             h == NextGate(n)
         IN  /\ Built(n, m) /\ h \in Live(m) /\ h \in LiveTerminals(m) /\ h \in Gates
             /\ m.kind[h] = k /\ m.ins[h] = s
<1> DEFINE h == NextGate(n)
           m == AddLookup(n, k, s, l)
<1>1. Sound(n) /\ n.size < MaxGates /\ s \in Seq(LiveTerminals(n))
  <2>1. Readable(n) \in SUBSET LiveTerminals(n) /\ s \in Seq(Readable(n))
    BY DEF Readable, FitsIn
  <2>2. s \in Seq(LiveTerminals(n))
    BY <2>1, SeqOfMore
  <2> QED  BY <2>2, FoldableSize, SoundIsWellFormed, NetAssumption DEF Foldable
<1>2. /\ Sound(m) /\ m.outs = n.outs /\ Live(m) = Live(n) \cup {h}
      /\ h \in Gates /\ n.kind[h] = "dead" /\ m.ins[h] = s
      /\ \A u \in Gates : u # h => m.kind[u] = n.kind[u] /\ m.ins[u] = n.ins[u]
  BY <1>1, AddLookupSound
<1>3. m.kind = [n.kind EXCEPT ![h] = k] /\ m.lut = [n.lut EXCEPT ![h] = l]
  BY <1>1, NetFields DEF Sound, AddLookup, Reregister
<1>4. h \notin Live(n) /\ \A u \in Live(n) : u \in Gates /\ u # h
  BY <1>2 DEF Live
<1>5. m.kind[h] = k /\ m.lut[h] = l /\ \A u \in Live(n) : m.lut[u] = n.lut[u]
  BY <1>1, <1>2, <1>3, <1>4, NetFields DEF Sound
<1> HIDE DEF m, h
<1>6. Foldable(m)
  <2>1. FitsIn(n, m.kind[h], m.ins[h], m.lut[h])
    BY <1>2, <1>5
  <2>2. \A u \in Live(n) \ {h} : m.kind[u] = n.kind[u] /\ m.ins[u] = n.ins[u] /\ m.lut[u] = n.lut[u]
    BY <1>2, <1>4, <1>5
  <2>3. Sound(m) /\ Live(m) = Live(n) \cup {h} /\ h \notin Live(n)
    BY <1>2, <1>4
  <2> QED  BY <2>1, <2>2, <2>3, ChangedFoldable
<1>7. Built(n, m)
  BY <1>2, <1>4, <1>6 DEF Built
<1>8. h \in LiveTerminals(m)
  BY <1>2 DEF LiveTerminals
<1> QED  BY <1>2, <1>5, <1>7, <1>8 DEF m, h

\* NotOf returns a terminal opposite to its argument.
LEMMA NotBuilt ==
  ASSUME NEW n, Foldable(n), NEW a \in Readable(n), NotOf(n, a).net.size <= MaxGates
  PROVE  LET b == NotOf(n, a)
         IN  /\ Built(n, b.net) /\ Opposite(b.net, a, b.out) /\ b.out \in Readable(b.net)
<1>1. Low \in Readable(n) /\ High \in Readable(n) /\ Low # High
  BY SoundIsWellFormed, LiveFacts, TerminalsApart DEF Readable, Foldable, Sound
<1>2. CASE a = High
  <2>1. NotOf(n, a).net = n /\ NotOf(n, a).out = Low
    BY <1>2 DEF NotOf
  <2> QED  BY <1>1, <1>2, <2>1 DEF Opposite, Built
<1>3. CASE a = Low
  <2>1. NotOf(n, a).net = n /\ NotOf(n, a).out = High
    BY <1>1, <1>3 DEF NotOf
  <2> QED  BY <1>1, <1>3, <2>1 DEF Opposite, Built
<1>4. CASE a # High /\ a # Low
  <2> DEFINE s == <<a>>
             l == << >>
             m == AddLookup(n, "not", s, l)
             h == NextGate(n)
  <2>1. NotOf(n, a) = [net |-> m, out |-> h]
    BY <1>4 DEF NotOf, NewGate, AddGate
  <2>2. s[1] = a /\ Len(s) >= 1 /\ s \in Seq(Readable(n)) /\ l \in Seq(BOOLEAN)
    OBVIOUS
  <2>3. n.size + 1 <= MaxGates
    <3>1. NotOf(n, a) = NewGate(n, "not", s)
      BY <1>4 DEF NotOf
    <3> QED  BY <3>1, FoldableSize, NewGateSize
  <2> HIDE DEF s, l
  <2>4. FitsIn(n, "not", s, l) /\ "not" \in Kinds \ {"dead"}
    BY <2>2 DEF FitsIn, Kinds
  <2>5. /\ Built(n, m) /\ h \in Live(m) /\ h \in LiveTerminals(m) /\ h \in Gates
        /\ m.kind[h] = "not" /\ m.ins[h] = s
    BY <2>2, <2>3, <2>4, GateBuilt
  <2> HIDE DEF m, h
  <2>6. Opposite(m, a, h) /\ h \in Readable(m)
    BY <2>2, <2>5 DEF Opposite, IsNotOf, Readable
  <2> QED  BY <2>1, <2>5, <2>6
<1> QED  BY <1>2, <1>3, <1>4

\* A NAND or NOR of what may be read.
LEMMA DualBuilt ==
  ASSUME NEW n, Foldable(n), NEW k \in {"nand", "nor"}, NEW s \in Seq(Readable(n)),
         NewGate(n, k, s).net.size <= MaxGates
  PROVE  LET b == NewGate(n, k, s)
         IN  /\ Built(n, b.net) /\ b.out \in Live(b.net) /\ b.out \in Readable(b.net)
             /\ b.net.kind[b.out] = k /\ b.net.ins[b.out] = s /\ b.net.size = n.size + 1
<1> DEFINE l == << >>
           m == AddLookup(n, k, s, l)
           h == NextGate(n)
<1>1. NewGate(n, k, s) = [net |-> m, out |-> h]
  BY DEF NewGate, AddGate
<1>2. l \in Seq(BOOLEAN)
  OBVIOUS
<1>3. NewGate(n, k, s).net.size = n.size + 1
  BY FoldableSize, NewGateSize
<1>4. FitsIn(n, k, s, l) /\ k \in Kinds \ {"dead"}
  BY DEF FitsIn, Kinds
<1> HIDE DEF l
<1>5. /\ Built(n, m) /\ h \in Live(m) /\ h \in LiveTerminals(m)
      /\ m.kind[h] = k /\ m.ins[h] = s
  BY <1>2, <1>3, <1>4, GateBuilt
<1> HIDE DEF m, h
<1> QED  BY <1>1, <1>3, <1>5 DEF Readable

\* What a call of the front end promises.
Returns(n, b) == Built(n, b.net) /\ b.out \in LiveTerminals(b.net)

\* The call of Not.
LEMMA NotReturns ==
  ASSUME NEW n, Foldable(n), NEW a \in Readable(n), NotOf(n, a).net.size <= MaxGates
  PROVE  Returns(n, NotOf(n, a))
BY NotBuilt DEF Returns, Readable

\* The call of Xor: a lookup of two inputs and their complements.
LEMMA XorReturns ==
  ASSUME NEW n, Foldable(n), NEW a \in Readable(n), NEW b \in Readable(n),
         XorOf(n, a, b).net.size <= MaxGates
  PROVE  Returns(n, XorOf(n, a, b))
<1> DEFINE na == NotOf(n, a)
           nb == NotOf(na.net, b)
           s == <<a, b, na.out, nb.out>>
           l == <<FALSE, TRUE, TRUE, FALSE>>
           m == AddLookup(nb.net, "lookup", s, l)
           h == NextGate(nb.net)
<1>1. XorOf(n, a, b) = [net |-> m, out |-> h]
  BY DEF XorOf
<1>2. /\ "size" \in DOMAIN na.net /\ na.net.size \in {n.size, n.size + 1}
      /\ n.size \in Nat
  BY FoldableSize, NotOfSize
<1>3. "size" \in DOMAIN nb.net /\ nb.net.size \in {na.net.size, na.net.size + 1}
  BY <1>2, NotOfSize
<1>4. m.size = nb.net.size + 1
  BY <1>3 DEF AddLookup, NextGate, Reregister
<1>5. m.size <= MaxGates
  BY <1>1
<1> HIDE DEF m, h
<1>6. na.net.size <= MaxGates /\ nb.net.size <= MaxGates /\ nb.net.size + 1 <= MaxGates
  BY <1>2, <1>3, <1>4, <1>5, NetAssumption
<1>7. Built(n, na.net) /\ Opposite(na.net, a, na.out) /\ na.out \in Readable(na.net)
  BY <1>6, NotBuilt
<1> HIDE DEF na
<1>8. Foldable(na.net) /\ a \in Readable(na.net) /\ b \in Readable(na.net)
  BY <1>7, BuiltReadable DEF Built
<1>9. Built(na.net, nb.net) /\ Opposite(nb.net, b, nb.out) /\ nb.out \in Readable(nb.net)
  BY <1>6, <1>8, NotBuilt
<1> HIDE DEF nb
<1>10. /\ Foldable(nb.net) /\ Opposite(nb.net, a, na.out)
       /\ a \in Readable(nb.net) /\ b \in Readable(nb.net) /\ na.out \in Readable(nb.net)
  BY <1>7, <1>8, <1>9, BuiltReadable DEF Built
<1>11. FitsIn(nb.net, "lookup", s, l) /\ "lookup" \in Kinds \ {"dead"} /\ l \in Seq(BOOLEAN)
  <2>1. s \in Seq(Readable(nb.net)) /\ Len(s) = 4 /\ Len(l) = 4
    BY <1>9, <1>10
  <2> QED  BY <1>9, <1>10, <2>1 DEF FitsIn, Kinds
<1> HIDE DEF s, l
<1>12. Built(nb.net, m) /\ h \in LiveTerminals(m)
  BY <1>6, <1>10, <1>11, GateBuilt DEF m, h
<1> QED  BY <1>1, <1>7, <1>9, <1>12, BuiltTrans DEF Returns

\* The calls of Mux and TriState.
LEMMA MuxTriReturns ==
  ASSUME NEW n, Foldable(n), NEW a \in Readable(n), NEW b \in Readable(n), NEW c \in Readable(n)
  PROVE  /\ MuxOf(n, a, b, c).net.size <= MaxGates => Returns(n, MuxOf(n, a, b, c))
         /\ TriStateOf(n, a, b).net.size <= MaxGates => Returns(n, TriStateOf(n, a, b))
<1> DEFINE na == NotOf(n, a)
<1> SUFFICES ASSUME NEW k \in {"mux", "tri"}, NEW s, NewGate(na.net, k, s).net.size <= MaxGates,
                    s = IF k = "mux" THEN <<a, na.out, b, c>> ELSE <<a, na.out, b>>
             PROVE  Returns(n, NewGate(na.net, k, s))
  BY DEF MuxOf, TriStateOf
<1> DEFINE l == << >>
           m == AddLookup(na.net, k, s, l)
           h == NextGate(na.net)
<1>1. NewGate(na.net, k, s) = [net |-> m, out |-> h]
  BY DEF NewGate, AddGate
<1>2. /\ "size" \in DOMAIN na.net /\ na.net.size \in {n.size, n.size + 1}
      /\ n.size \in Nat
  BY FoldableSize, NotOfSize
<1>3. NewGate(na.net, k, s).net.size = na.net.size + 1
  BY <1>2, NewGateSize
<1>4. na.net.size <= MaxGates /\ na.net.size + 1 <= MaxGates
  BY <1>2, <1>3, NetAssumption
<1>5. Built(n, na.net) /\ Opposite(na.net, a, na.out) /\ na.out \in Readable(na.net)
  BY <1>4, NotBuilt
<1> HIDE DEF na
<1>6. Foldable(na.net) /\ \A t \in {a, b, c} : t \in Readable(na.net)
  BY <1>5, BuiltReadable DEF Built
<1>7. s \in Seq(Readable(na.net)) /\ Len(s) >= 3 /\ (k = "mux" => Len(s) >= 4)
        /\ s[1] = a /\ s[2] = na.out
  <2>1. a \in Readable(na.net) /\ b \in Readable(na.net) /\ c \in Readable(na.net)
    BY <1>6
  <2>2. CASE k = "mux"
    <3>1. s = <<a, na.out, b, c>>
      BY <2>2
    <3>2. na.out \in Readable(na.net)
      BY <1>5
    <3> DEFINE R == Readable(na.net)
               x == na.out
    <3>3. a \in R /\ b \in R /\ c \in R /\ x \in R /\ s = <<a, x, b, c>>
      BY <2>1, <3>1, <3>2
    <3> HIDE DEF R, x
    <3>4. s \in Seq(R) /\ Len(s) = 4 /\ s[1] = a /\ s[2] = x
      BY <3>3
    <3> QED  BY <3>4 DEF R, x
  <2>3. CASE k = "tri"
    <3>1. s = <<a, na.out, b>>
      BY <2>3
    <3> QED  BY <1>5, <2>1, <2>3, <3>1
  <2> QED  BY <2>2, <2>3
<1>8. FitsIn(na.net, k, s, l) /\ k \in Kinds \ {"dead"} /\ l \in Seq(BOOLEAN)
  BY <1>5, <1>7 DEF FitsIn, Kinds
<1> HIDE DEF l
<1>9. Built(na.net, m) /\ h \in LiveTerminals(m)
  BY <1>4, <1>6, <1>8, GateBuilt
<1> HIDE DEF m, h
<1> QED  BY <1>1, <1>5, <1>9, BuiltTrans DEF Returns

\* SetInput at a NOR.
LEMMA SetNorFoldable ==
  ASSUME NEW n, Foldable(n), NEW g \in Live(n), n.kind[g] = "nor", NEW i \in DOMAIN n.ins[g],
         NEW t \in Readable(n)
  PROVE  LET m == SetInput(n, g, i, t)
         IN  /\ Foldable(m) /\ m.outs = n.outs /\ m.kind = n.kind /\ Live(m) = Live(n)
             /\ DOMAIN m.ins[g] = DOMAIN n.ins[g]
             /\ \A u \in Live(n) \ {g} : m.ins[u] = n.ins[u]
<1> DEFINE m == SetInput(n, g, i, t)
<1>1. Sound(n) /\ NoBufferRead(n) /\ g \in Users /\ t \in LiveTerminals(n)
  BY SoundIsWellFormed, LiveFacts, TerminalsApart DEF Foldable, Readable, Sound
<1>2. /\ Sound(m) /\ m.outs = n.outs /\ m.kind = n.kind /\ Live(m) = Live(n)
      /\ \A u \in Users : DOMAIN m.ins[u] = DOMAIN n.ins[u]
  BY <1>1, SetInputSound
<1>3. \A u \in Users : u \in DOMAIN n.ins
  BY <1>1, NetFields DEF Sound
<1>4. /\ m.lut = n.lut
      /\ \A u \in Users : \A j \in DOMAIN n.ins[u] :
           m.ins[u][j] = IF u = g /\ j = i THEN t ELSE n.ins[u][j]
  <2>1. CASE t = n.ins[g][i]
    BY <2>1 DEF SetInput
  <2>2. CASE t # n.ins[g][i]
    <3>1. m = Redirect(n, {<<g, i>>}, n.ins[g][i], t)
      BY <2>2 DEF SetInput
    <3>2. ASSUME NEW u \in Users, NEW j \in DOMAIN n.ins[u]
          PROVE  m.ins[u][j] = IF <<u, j>> \in {<<g, i>>} THEN t ELSE n.ins[u][j]
      BY <1>3, <3>1 DEF Redirect
    <3>3. m.lut = n.lut
      BY <3>1 DEF Redirect
    <3> QED  BY <3>2, <3>3
  <2> QED  BY <2>1, <2>2
<1> HIDE DEF m
<1>5. ASSUME NEW u \in Live(n) \ {g}  PROVE m.ins[u] = n.ins[u]
  <2>1. u \in Users /\ u # g /\ u \in Live(m)
    BY <1>1, <1>2, LiveFacts, TerminalsApart DEF Sound
  <2>2. DOMAIN n.ins[u] = 1 .. Len(n.ins[u]) /\ n.ins[u] \in Seq(LiveTerminals(n))
    BY <1>1, LiveInputs
  <2>3. m.ins[u] \in Seq(LiveTerminals(m)) /\ DOMAIN m.ins[u] = DOMAIN n.ins[u]
    BY <1>2, <2>1, LiveInputs
  <2>4. \A j \in DOMAIN n.ins[u] : m.ins[u][j] = n.ins[u][j]
    BY <1>4, <2>1
  <2> QED  BY <2>2, <2>3, <2>4
<1>6. FitsIn(n, m.kind[g], m.ins[g], m.lut[g])
  <2>1. m.ins[g] \in Seq(LiveTerminals(m)) /\ DOMAIN m.ins[g] = DOMAIN n.ins[g]
    BY <1>1, <1>2, LiveInputs
  <2>2. \A j \in DOMAIN n.ins[g] : n.ins[g][j] \in Readable(n)
    BY <1>1, LiveInputs DEF Readable, NoBufferRead, InputsOf
  <2>3. \A j \in DOMAIN m.ins[g] : m.ins[g][j] \in Readable(n)
    BY <1>1, <1>4, <2>1, <2>2
  <2>4. m.ins[g] \in Seq(Readable(n))
    BY <2>1, <2>3
  <2> QED  BY <1>2, <2>4 DEF FitsIn
<1>7. Foldable(m)
  BY <1>2, <1>4, <1>5, <1>6, ChangedFoldable
<1> QED  BY <1>1, <1>2, <1>5, <1>7 DEF m

\* The call of SrLatch: two NORs, each an input of the other.
LEMMA LatchReturns ==
  ASSUME NEW n, Foldable(n), NEW s \in Readable(n), NEW r \in Readable(n),
         NEW reset \in Readable(n), SrLatch(n, s, r, reset).net.size <= MaxGates
  PROVE  Returns(n, SrLatch(n, s, r, reset))
<1> DEFINE ia == <<r, High, reset>>
           a == NorOf(n, ia)
           ib == <<s, High>>
           b == NorOf(a.net, ib)
           c == SetInput(b.net, a.out, 2, b.out)
           m == SetInput(c, b.out, 2, a.out)
<1>1. High \in Readable(n)
  BY SoundIsWellFormed, LiveFacts, TerminalsApart DEF Readable, Foldable, Sound
<1>2. SrLatch(n, s, r, reset) = [net |-> m, out |-> a.out]
  BY DEF SrLatch
<1>3. ia \in Seq(Readable(n)) /\ 2 \in DOMAIN ia /\ 2 \in DOMAIN ib
  BY <1>1
<1>4. /\ n.size \in Nat
      /\ "size" \in DOMAIN a.net /\ a.net.size = n.size + 1
  BY FoldableSize, NewGateSize DEF NorOf
<1>5. "size" \in DOMAIN b.net /\ b.net.size = a.net.size + 1
  BY <1>4, NewGateSize DEF NorOf
<1>6. m.size = b.net.size
  BY DEF SetInput, Redirect
<1>7. m.size <= MaxGates
  BY <1>2
<1>8. a.net.size <= MaxGates /\ b.net.size <= MaxGates
  <2> HIDE DEF m, a, b
  <2> QED  BY <1>4, <1>5, <1>6, <1>7, NetAssumption
<1> HIDE DEF ia
<1>9. /\ Built(n, a.net) /\ a.out \in Live(a.net) /\ a.out \in Readable(a.net)
      /\ a.net.kind[a.out] = "nor" /\ a.net.ins[a.out] = ia
  BY <1>3, <1>8, DualBuilt DEF NorOf
<1> HIDE DEF a
<1>10. Foldable(a.net) /\ s \in Readable(a.net) /\ High \in Readable(a.net)
  BY <1>1, <1>9, BuiltReadable DEF Built
<1>11. ib \in Seq(Readable(a.net))
  BY <1>10
<1> HIDE DEF ib
<1>12. /\ Built(a.net, b.net) /\ b.out \in Live(b.net) /\ b.out \in Readable(b.net)
       /\ b.net.kind[b.out] = "nor" /\ b.net.ins[b.out] = ib
  BY <1>8, <1>10, <1>11, DualBuilt DEF NorOf
<1> HIDE DEF b
<1>13. /\ Foldable(b.net) /\ a.out \in Live(b.net) /\ b.net.kind[a.out] = "nor"
       /\ 2 \in DOMAIN b.net.ins[a.out] /\ 2 \in DOMAIN b.net.ins[b.out]
       /\ a.out \in Readable(b.net)
  BY <1>3, <1>9, <1>12, BuiltReadable DEF Built
<1>14. /\ Foldable(c) /\ c.outs = b.net.outs /\ c.kind = b.net.kind /\ Live(c) = Live(b.net)
       /\ DOMAIN c.ins[a.out] = DOMAIN b.net.ins[a.out]
       /\ \A u \in Live(b.net) \ {a.out} : c.ins[u] = b.net.ins[u]
  BY <1>12, <1>13, SetNorFoldable
<1> HIDE DEF c
<1>15. 2 \in DOMAIN c.ins[b.out] /\ a.out \in Readable(c) /\ c.kind[b.out] = "nor"
         /\ b.out \in Live(c)
  BY <1>12, <1>13, <1>14 DEF Readable, LiveTerminals
<1>16. /\ Foldable(m) /\ m.outs = c.outs /\ m.kind = c.kind /\ Live(m) = Live(c)
       /\ \A u \in Live(c) \ {b.out} : m.ins[u] = c.ins[u]
  BY <1>14, <1>15, SetNorFoldable
<1> HIDE DEF m
<1>17. a.out \notin Live(n) /\ b.out \notin Live(n)
  <2> USE DEF NorOf, NewGate
  <2>1. a.out = n.size + 1 /\ b.out = a.net.size + 1
    BY DEF a, b, NextGate
  <2>2. \A u \in Live(n) : u <= n.size /\ u \in Nat
    <3>1. IsNet(n) /\ DeadIsBare(n) /\ Live(n) \in SUBSET Gates
      BY SoundIsWellFormed, LiveFacts DEF Foldable, Sound
    <3> QED  BY <1>4, <3>1 DEF DeadIsBare, Live, Gates
  <2> QED  BY <1>4, <2>1, <2>2
<1>18. Built(n, b.net)
  BY <1>9, <1>12, BuiltTrans
<1>19. Built(n, m)
  BY <1>14, <1>16, <1>17, <1>18 DEF Built
<1>20. a.out \in LiveTerminals(m)
  BY <1>13, <1>14, <1>16 DEF LiveTerminals
<1> QED  BY <1>2, <1>19, <1>20 DEF Returns

\* The elements of a finite set as a sequence.
LEMMA SetAsSeq ==
  ASSUME NEW S, IsFiniteSet(S)
  PROVE  SetToSeq(S) \in [1 .. Cardinality(S) -> S] /\ IsInjective(SetToSeq(S))
<1>1. PICK f \in Bijection(1 .. Cardinality(S), S) : TRUE
  BY FS_CardinalityType DEF ExistsBijection
<1>2. f \in [1 .. Cardinality(S) -> S] /\ IsInjective(f)
  BY <1>1 DEF Bijection, Injection
<1> QED  BY <1>2 DEF SetToSeq

\* One output more.
LEMMA DeclareFoldable ==
  ASSUME NEW n, Foldable(n), n.outs < MaxOutputs, NEW t \in LiveTerminals(n)
  PROVE  LET m == DeclareOutput(n, t)
         IN  Foldable(m) /\ m.outs = n.outs + 1 /\ Live(m) = Live(n)
<1> DEFINE m == DeclareOutput(n, t)
<1>1. Sound(n) /\ WellShaped(n) /\ Paired(n) /\ NoBufferRead(n) /\ TablesFit(n)
  BY SoundIsWellFormed DEF Foldable
<1>2. Sound(m) /\ m.kind = n.kind /\ Live(m) = Live(n)
  BY <1>1, DeclareOutputSound
<1>3. /\ m.lut = n.lut /\ m.outs = n.outs + 1
      /\ \A u \in Gates : m.ins[u] = n.ins[u]
  <2>1. \A u \in Gates : u \in DOMAIN n.ins /\ u # Sink
    BY <1>1, TerminalsApart, NetFields DEF Sound, Users
  <2>2. m.lut = n.lut /\ m.outs = n.outs + 1 /\ m.ins = [n.ins EXCEPT ![Sink][n.outs + 1] = t]
    BY <1>1 DEF Sound, IsNet, DeclareOutput
  <2> QED  BY <2>1, <2>2
<1> HIDE DEF m
<1>4. Live(n) \in SUBSET Gates
  BY DEF Live
<1>5. WellShaped(m) /\ TablesFit(m)
  BY <1>1, <1>2, <1>3, <1>4 DEF WellShaped, TablesFit
<1>6. NoBufferRead(m)
  BY <1>1, <1>2, <1>3, <1>4 DEF NoBufferRead, InputsOf
<1>7. \A a, b : Opposite(n, a, b) => Opposite(m, a, b)
  BY <1>2, <1>3 DEF Opposite, IsNotOf
<1>8. Paired(m)
  <2> SUFFICES ASSUME NEW u \in Live(m), NEW p \in PairsOf(m, u)
               PROVE  Opposite(m, m.ins[u][p[1]], m.ins[u][p[2]])
    BY DEF Paired
  <2>1. u \in Live(n) /\ m.ins[u] = n.ins[u] /\ m.kind[u] = n.kind[u]
    BY <1>2, <1>3, <1>4
  <2>2. p \in PairsOf(n, u)
    BY <2>1, EqualPairs
  <2> QED  BY <1>1, <1>7, <2>1, <2>2 DEF Paired
<1> QED  BY <1>2, <1>3, <1>5, <1>6, <1>8, SoundIsWellFormed DEF Foldable, m

\* Declaring the outputs keeps the network one for the rewrites.
LEMMA OutputsFoldable ==
  ASSUME NEW n, Foldable(n), n.outs = 0, NEW outs, IsFiniteSet(outs),
         outs \in SUBSET LiveTerminals(n), Cardinality(outs) <= MaxOutputs
  PROVE  Foldable(AllOutputs(n, SetToSeq(outs)))
<1> DEFINE args == SetToSeq(outs)
           k == Cardinality(outs)
<1>1. k \in Nat
  BY FS_CardinalityType
<1>2. args \in [1 .. k -> outs]
  BY <1>1, SetAsSeq
<1> HIDE DEF args, k
<1>3. args \in Seq(outs) /\ Len(args) = k /\ \A i \in 1 .. k : args[i] \in LiveTerminals(n)
  BY <1>1, <1>2
<1>4. PICK acc : /\ acc[0] = n
                 /\ \A i \in 1 .. Len(args) : acc[i] = DeclareOutput(acc[i - 1], args[i])
                 /\ AllOutputs(n, args) = acc[Len(args)]
  BY <1>3, AddOutputs
<1> DEFINE S == {i \in 0 .. k : Foldable(acc[i]) /\ acc[i].outs = i /\ Live(acc[i]) = Live(n)}
<1>5. 0 \in S
  BY <1>1, <1>4
<1>6. ASSUME NEW i \in 1 .. k, i - 1 \in S  PROVE i \in S
  <2>1. /\ Foldable(acc[i - 1]) /\ acc[i - 1].outs = i - 1 /\ Live(acc[i - 1]) = Live(n)
        /\ i - 1 < MaxOutputs /\ i \in 0 .. k
    BY <1>1, <1>6, NetAssumption DEF k
  <2>2. acc[i] = DeclareOutput(acc[i - 1], args[i]) /\ args[i] \in LiveTerminals(acc[i - 1])
    BY <1>3, <1>4, <2>1 DEF LiveTerminals
  <2>3. /\ Foldable(acc[i]) /\ acc[i].outs = (i - 1) + 1 /\ Live(acc[i]) = Live(n)
    BY <2>1, <2>2, DeclareFoldable
  <2> QED  BY <2>1, <2>3
<1>7. k \in S
  <2> HIDE DEF S
  <2>1. \A i \in 0 .. k : i \in S
    BY <1>1, <1>5, <1>6, UpTo
  <2> QED  BY <1>1, <2>1
<1> QED  BY <1>3, <1>4, <1>7 DEF args

\* The inputs that a network reads are those that have users.
LEMMA BitsUsed ==
  ASSUME NEW n, Sound(n), NEW bits, bits \in SUBSET Inputs
  PROVE  BitsRead(n) \in SUBSET bits <=> \A t \in Inputs \ bits : n.uses[t] = {}
<1>1. \A t \in Inputs : t \in Terminals
  BY TerminalsApart
<1>2. \A u \in Users : \A i \in DOMAIN n.ins[u] : i \in Nat
  BY InputPositions DEF Sound
<1>3. \A t \in Terminals : n.uses[t] \in SUBSET (Users \X Nat)
  BY NetFields DEF Sound
<1>4. \A t \in Inputs : t \in BitsRead(n) <=> n.uses[t] # {}
  <2> SUFFICES ASSUME NEW t \in Inputs  PROVE t \in BitsRead(n) <=> n.uses[t] # {}
    OBVIOUS
  <2>1. ASSUME t \in BitsRead(n)  PROVE n.uses[t] # {}
    <3>1. PICK u \in Users : \E i \in DOMAIN n.ins[u] : n.ins[u][i] = t
      BY <2>1 DEF BitsRead
    <3>2. PICK i \in DOMAIN n.ins[u] : n.ins[u][i] = t
      BY <3>1
    <3>3. <<u, i>> \in n.uses[t]
      BY <1>1, <1>2, <3>1, <3>2 DEF Sound, Listed
    <3> QED  BY <3>3
  <2>2. ASSUME n.uses[t] # {}  PROVE t \in BitsRead(n)
    <3>1. PICK p \in n.uses[t] : TRUE
      BY <2>2
    <3>2. PICK u \in Users, i \in Nat : p = <<u, i>>
      BY <1>1, <1>3, <3>1
    <3>3. i \in DOMAIN n.ins[u] /\ n.ins[u][i] = t
      BY <1>1, <3>1, <3>2 DEF Sound, Listed
    <3> QED  BY <3>3 DEF BitsRead
  <2> QED  BY <2>1, <2>2
<1> QED  BY <1>4 DEF BitsRead

----------------------------------------------------------------------------
(* FactorGates.                                                             *)

\* Every use of g outside a reads r instead.
LEMMA ReplacedExcept ==
  ASSUME NEW n, Sound(n), NEW g \in Live(n), NEW r \in LiveTerminals(n), r # g, NEW a
  PROVE  LET m == ReplaceUsesExcept(n, g, r, a)
         IN  /\ Sound(m) /\ Live(m) = Live(n) /\ LiveTerminals(m) = LiveTerminals(n)
             /\ m.size = n.size /\ m.outs = n.outs /\ m.kind = n.kind /\ m.lut = n.lut
             /\ \A u \in Users :
                  /\ DOMAIN m.ins[u] = DOMAIN n.ins[u]
                  /\ \A i \in DOMAIN n.ins[u] :
                       m.ins[u][i] = IF u = a THEN n.ins[u][i] ELSE Instead(g, r, n.ins[u][i])
<1> DEFINE moved == {u \in n.uses[g] : u[1] # a}
           m == ReplaceUsesExcept(n, g, r, a)
<1>1. g \in LiveTerminals(n) /\ g \in Terminals /\ g \in Gates /\ r \in Terminals
  BY LiveFacts DEF Sound
<1>2. m = Redirect(n, moved, g, r)
  BY DEF ReplaceUsesExcept
<1>3. moved \in SUBSET n.uses[g] /\ \A u, i : <<u, i>> \in moved <=> <<u, i>> \in n.uses[g] /\ u # a
  OBVIOUS
<1> HIDE DEF m, moved
<1>4. /\ Sound(m) /\ Live(m) = Live(n)
      /\ m.size = n.size /\ m.outs = n.outs /\ m.kind = n.kind /\ m.lut = n.lut
      /\ \A u \in Users : DOMAIN m.ins[u] = DOMAIN n.ins[u]
  BY <1>1, <1>2, <1>3, RedirectSound
<1>5. ASSUME NEW u \in Users, NEW i \in DOMAIN n.ins[u]
      PROVE  m.ins[u][i] = IF u = a THEN n.ins[u][i] ELSE Instead(g, r, n.ins[u][i])
  <2>1. DOMAIN n.ins = Users /\ i \in Nat
    BY NetFields, InputPositions DEF Sound
  <2>2. m.ins[u][i] = IF <<u, i>> \in moved THEN r ELSE n.ins[u][i]
    BY <1>2, <2>1 DEF Redirect
  <2>3. <<u, i>> \in n.uses[g] <=> n.ins[u][i] = g
    BY <1>1, <2>1 DEF Sound, Listed
  <2> QED  BY <1>3, <2>2, <2>3 DEF Instead
<1>6. LiveTerminals(m) = LiveTerminals(n)
  BY <1>4 DEF LiveTerminals
<1> QED  BY <1>4, <1>5, <1>6 DEF m

\* One input after another erased.
AllErased(n, g, args) == FoldLeft(LAMBDA m, t : EraseInputs(m, g, t), n, args)
LEMMA EraseEach ==
  ASSUME NEW n, NEW g, NEW S, NEW args \in Seq(S)
  PROVE  \E acc : /\ acc[0] = n
                  /\ \A k \in 1 .. Len(args) : acc[k] = EraseInputs(acc[k - 1], g, args[k])
                  /\ AllErased(n, g, args) = acc[Len(args)]
<1> DEFINE op == <<"erase", g>>
           Own(f) == f = [s \in SUBSET DOMAIN args |->
                            IF s = {} THEN n ELSE EraseInputs(f[s \ {Max(s)}], g, args[Max(s)])]
           iter == CHOOSE f : Own(f)
<1>1. \A acc, x : Advanced(op, acc, x) = EraseInputs(acc, g, x)
  BY DEF Advanced
<1> HIDE DEF op
<1>2. \A f : Own(f) <=> Folds(op, n, args, f)
  BY <1>1 DEF Folds
<1>3. AllErased(n, g, args) = iter[DOMAIN args]
  BY DEF AllErased, FoldLeft, MapThenFoldSet
<1>4. Folds(op, n, args, iter)
  <2> HIDE DEF Own
  <2> QED  BY <1>2, FoldsExist
<1> HIDE DEF iter
<1>5. PICK acc : Steps(op, n, args, acc) /\ iter[DOMAIN args] = acc[Len(args)]
  BY <1>4, FoldSteps
<1> QED  BY <1>1, <1>3, <1>5 DEF Steps

\* What is left of a NAND or NOR when some of its inputs are erased.
LEMMA ErasedFields ==
  ASSUME NEW n, Sound(n), NEW g \in Live(n), n.kind[g] \in {"nand", "nor"},
         NEW inputs, IsFiniteSet(inputs)
  PROVE  LET m == AllErased(n, g, SetToSeq(inputs))
         IN  /\ Sound(m) /\ Local(n, m, g)
             /\ m.kind = n.kind /\ m.lut = n.lut /\ m.size = n.size
             /\ InputsOf(m, g) = InputsOf(n, g) \ inputs
<1> DEFINE args == SetToSeq(inputs)
           k == Cardinality(inputs)
           Before(i) == {args[j] : j \in 1 .. i}
<1>1. k \in Nat
  BY FS_CardinalityType
<1>2. args \in [1 .. k -> inputs] /\ IsInjective(args)
  BY <1>1, SetAsSeq
<1>3. \A t \in inputs : \E j \in 1 .. k : args[j] = t
  <2>1. args \in Injection(1 .. k, inputs)
    BY <1>2 DEF Injection
  <2>2. Cardinality(1 .. k) = k
    BY <1>1, FS_Interval
  <2>3. args \in Surjection(1 .. k, inputs)
    BY <2>1, <2>2, FS_Injection
  <2> QED  BY <2>3 DEF Surjection
<1> HIDE DEF args, k
<1>4. args \in Seq(inputs) /\ Len(args) = k
  BY <1>1, <1>2
<1>5. PICK acc : /\ acc[0] = n
                 /\ \A i \in 1 .. Len(args) : acc[i] = EraseInputs(acc[i - 1], g, args[i])
                 /\ AllErased(n, g, args) = acc[Len(args)]
  <2>1. \A S : \A q \in Seq(S) :
           \E acc : /\ acc[0] = n
                    /\ \A i \in 1 .. Len(q) : acc[i] = EraseInputs(acc[i - 1], g, q[i])
                    /\ AllErased(n, g, q) = acc[Len(q)]
    BY EraseEach
  <2> QED  BY <1>4, <2>1
<1> DEFINE Right(i) ==
             /\ Sound(acc[i]) /\ Local(n, acc[i], g)
             /\ acc[i].kind = n.kind /\ acc[i].lut = n.lut /\ acc[i].size = n.size
             /\ InputsOf(acc[i], g) = InputsOf(n, g) \ Before(i)
           S == {i \in 0 .. k : Right(i)}
<1>6. 0 \in S
  <2>1. Before(0) = {}
    OBVIOUS
  <2>2. Local(n, n, g)
    BY DEF Local
  <2> HIDE DEF Before
  <2> QED  BY <1>1, <1>5, <2>1, <2>2
<1>7. ASSUME NEW i \in 1 .. k, i - 1 \in S  PROVE i \in S
  <2> DEFINE p == acc[i - 1]
             q == acc[i]
             t == args[i]
  <2>1. /\ Sound(p) /\ Local(n, p, g) /\ p.kind = n.kind /\ p.lut = n.lut /\ p.size = n.size
        /\ InputsOf(p, g) = InputsOf(n, g) \ Before(i - 1)
    BY <1>7
  <2>2. q = EraseInputs(p, g, t) /\ g \in Live(p)
    BY <1>4, <1>5, <2>1 DEF Local
  <2>3. Before(i) = Before(i - 1) \cup {t}
    <3>1. 1 .. i = (1 .. (i - 1)) \cup {i}
      BY <1>1
    <3> QED  BY <3>1
  <2> HIDE DEF Before, p, q, t
  <2>4. /\ Sound(q) /\ Local(p, q, g) /\ q.kind = p.kind /\ q.lut = p.lut
        /\ InputsOf(q, g) = {p.ins[g][j] : j \in KeptInputs(p, g, t)}
    BY <2>1, <2>2, EraseInputsFields
  <2>5. q.size = p.size
    BY <2>1, <2>2, EraseInputsSound
  <2>6. InputsOf(q, g) = InputsOf(p, g) \ {t}
    <3>1. DOMAIN p.ins[g] = 1 .. Len(p.ins[g])
      BY <2>1, <2>2, LiveInputs
    <3>2. KeptInputs(p, g, t) = {j \in DOMAIN p.ins[g] : p.ins[g][j] # t}
      BY <2>1, <3>1 DEF KeptInputs, Matches, LogicalEnd
    <3> QED  BY <2>4, <3>2 DEF InputsOf
  <2>7. Local(n, q, g)
    BY <2>1, <2>4 DEF Local
  <2>8. InputsOf(q, g) = InputsOf(n, g) \ Before(i)
    BY <2>1, <2>3, <2>6
  <2>9. Right(i)
    BY <2>1, <2>4, <2>5, <2>7, <2>8 DEF q
  <2> QED  BY <1>1, <2>9
<1>8. k \in S
  <2> HIDE DEF S
  <2>1. \A i \in 0 .. k : i \in S
    BY <1>1, <1>6, <1>7, UpTo
  <2> QED  BY <1>1, <2>1
<1>9. Before(k) = inputs
  BY <1>2, <1>3
<1>10. Right(k)
  BY <1>8
<1> HIDE DEF Before
<1> QED  BY <1>4, <1>5, <1>9, <1>10 DEF args

\* The value of a NAND or NOR by whether an input decides it.
Decisive(k) == IF k = "nand" THEN "low" ELSE "high"
DualOut(k, b) == IF k = "nand" THEN IF b THEN "high" ELSE "low"
                               ELSE IF b THEN "low" ELSE "high"
Decides(n, st, k, g) == \E t \in InputsOf(n, g) : st[t] = Decisive(k)

\* The value of the dual of gates of kind k with the values x and y.
TopOut(k, x, y) == DualOut(Dual(k), x = Decisive(Dual(k)) \/ y = Decisive(Dual(k)))

LEMMA DualValue ==
  ASSUME NEW n, NEW h, NEW st, ReadsLevels(n, st, h), n.kind[h] \in {"nand", "nor"}
  PROVE  ComputeValue(n, st, h) = DualOut(n.kind[h], Decides(n, st, n.kind[h], h))
<1>1. \A v : (\E t \in InputsOf(n, h) : st[t] = v) <=> \E i \in DOMAIN n.ins[h] : st[n.ins[h][i]] = v
  BY DEF InputsOf
<1>2. CASE n.kind[h] = "nand"
  BY <1>1, <1>2, NandValue DEF DualOut, Decides, Decisive
<1>3. CASE n.kind[h] = "nor"
  BY <1>1, <1>3, NorValue DEF DualOut, Decides, Decisive
<1> QED  BY <1>2, <1>3

\* A gate whose inputs have levels reads them.
LEMMA LevelsOfInputs ==
  ASSUME NEW n, Sound(n), NEW h \in Live(n), NEW st \in [Terminals -> Known],
         \A t \in InputsOf(n, h) : st[t] \in Levels
  PROVE  ReadsLevels(n, st, h)
<1>1. \A i \in DOMAIN n.ins[h] : st[n.ins[h][i]] \in Levels
  BY DEF InputsOf
<1>2. \A i \in DOMAIN n.ins[h] : Read(n, st, h)[i] = st[n.ins[h][i]]
  BY <1>1, ReadValues DEF Levels
<1>3. DOMAIN Read(n, st, h) = DOMAIN n.ins[h]
  BY DEF Read
<1> QED  BY <1>1, <1>2, <1>3, LiveInputs DEF ReadsLevels

\* m is n with g without the inputs, a the dual gate of factor and g, and r the NOT of
\* a in the place of g everywhere else.
Factored(n, m, inputs, factor, g, a, r) ==
  /\ Sound(m) /\ m.outs = n.outs
  /\ a \in Gates \ Live(n) /\ r \in Gates \ Live(n) /\ a # r
  /\ Live(m) = Live(n) \cup {a, r}
  /\ \A u \in Live(n) : m.kind[u] = n.kind[u] /\ m.lut[u] = n.lut[u]
  /\ m.kind[a] = Dual(n.kind[g]) /\ m.ins[a] = <<factor, g>>
  /\ m.kind[r] = "not" /\ m.ins[r] = <<a>>
  /\ \A u \in (Live(n) \cup {Sink}) \ {g} :
       /\ DOMAIN m.ins[u] = DOMAIN n.ins[u]
       /\ \A i \in DOMAIN n.ins[u] : m.ins[u][i] = Instead(g, r, n.ins[u][i])
  /\ InputsOf(m, g) = {Instead(g, r, t) : t \in InputsOf(n, g) \ inputs}

\* What the rewrite relies on: factor is a gate like g that reads of g's inputs those
\* that are erased, and maybe others.
CanFactor(n, inputs, factor, g) ==
  /\ g \in Live(n) /\ factor \in Live(n) /\ factor # g
  /\ n.kind[g] \in {"nand", "nor"} /\ n.kind[factor] = n.kind[g]
  /\ inputs \cap InputsOf(n, g) \in SUBSET InputsOf(n, factor)
  /\ InputsOf(n, factor) \in SUBSET InputsOf(n, g)

\* The reads of the rewritten network.
LEMMA FactoredReads ==
  ASSUME NEW n, Foldable(n), NEW m, NEW inputs, NEW factor, NEW g, NEW a, NEW r,
         CanFactor(n, inputs, factor, g), Factored(n, m, inputs, factor, g, a, r)
  PROVE  /\ \A u \in Live(n) \ {g} : InputsOf(m, u) = {Instead(g, r, t) : t \in InputsOf(n, u)}
         /\ InputsOf(m, a) = {factor, g} /\ InputsOf(m, r) = {a}
         /\ \A u \in Live(m) : \A t \in InputsOf(m, u) :
              t \in {factor, g, a} \/ \E x : x \in InputsOf(n, u) /\ u \in Live(n) /\ t = Instead(g, r, x)
<1>1. \A u \in Live(n) \ {g} : InputsOf(m, u) = {Instead(g, r, t) : t \in InputsOf(n, u)}
  <2> TAKE u \in Live(n) \ {g}
  <2>1. /\ DOMAIN m.ins[u] = DOMAIN n.ins[u]
        /\ \A i \in DOMAIN n.ins[u] : m.ins[u][i] = Instead(g, r, n.ins[u][i])
    BY DEF Factored
  <2> QED  BY <2>1 DEF InputsOf
<1>2. InputsOf(m, a) = {factor, g}
  <2>1. m.ins[a] = <<factor, g>>
    BY DEF Factored
  <2> QED  BY <2>1 DEF InputsOf
<1>3. InputsOf(m, r) = {a}
  <2>1. m.ins[r] = <<a>>
    BY DEF Factored
  <2> QED  BY <2>1 DEF InputsOf
<1>4. Live(m) = Live(n) \cup {a, r} /\ InputsOf(m, g) = {Instead(g, r, t) : t \in InputsOf(n, g) \ inputs}
  BY DEF Factored
<1> QED  BY <1>1, <1>2, <1>3, <1>4

\* The rewritten network is one for the rewrites, and reads no input bit more.
LEMMA FactoredFoldable ==
  ASSUME NEW n, Foldable(n), NEW m, NEW inputs, NEW factor, NEW g, NEW a, NEW r,
         CanFactor(n, inputs, factor, g), Factored(n, m, inputs, factor, g, a, r)
  PROVE  Foldable(m) /\ BitsRead(m) \in SUBSET BitsRead(n)
<1>1. Sound(n) /\ WellShaped(n) /\ Paired(n) /\ NoBufferRead(n) /\ TablesFit(n) /\ Sound(m)
  BY SoundIsWellFormed DEF Foldable, Factored
<1>2. /\ g \in Live(n) /\ g \in Gates /\ factor \in Live(n) /\ factor \in Gates
      /\ Live(n) \in SUBSET Gates /\ g # Low /\ g # High
      /\ n.kind[g] \in {"nand", "nor"} /\ n.kind[factor] = n.kind[g]
  BY TerminalsApart DEF CanFactor, Live
<1>3. /\ a \in Gates \ Live(n) /\ r \in Gates \ Live(n) /\ Live(m) = Live(n) \cup {a, r}
      /\ \A u \in Live(n) : m.kind[u] = n.kind[u] /\ m.lut[u] = n.lut[u]
      /\ m.kind[a] = Dual(n.kind[g]) /\ m.kind[r] = "not" /\ m.ins[r] = <<a>>
      /\ \A u \in (Live(n) \cup {Sink}) \ {g} :
           /\ DOMAIN m.ins[u] = DOMAIN n.ins[u]
           /\ \A i \in DOMAIN n.ins[u] : m.ins[u][i] = Instead(g, r, n.ins[u][i])
  BY DEF Factored
<1>4. m.kind[a] \in {"nand", "nor"}
  BY <1>3 DEF Dual
<1>5. \A u \in Live(n) \ {g} : Len(m.ins[u]) = Len(n.ins[u])
  <2> TAKE u \in Live(n) \ {g}
  <2>1. DOMAIN n.ins[u] = 1 .. Len(n.ins[u]) /\ Len(n.ins[u]) \in Nat
    BY <1>1, LiveInputs
  <2>2. DOMAIN m.ins[u] = 1 .. Len(m.ins[u]) /\ Len(m.ins[u]) \in Nat
    BY <1>1, <1>3, LiveInputs
  <2>3. DOMAIN m.ins[u] = DOMAIN n.ins[u]
    BY <1>3
  <2> DEFINE k == Len(m.ins[u])
             l == Len(n.ins[u])
  <2>4. k \in Nat /\ l \in Nat /\ 1 .. k = 1 .. l
    BY <2>1, <2>2, <2>3
  <2> HIDE DEF k, l
  <2>5. k = l
    BY <2>4
  <2> QED  BY <2>5 DEF k, l
<1>6. WellShaped(m) /\ TablesFit(m)
  <2>1. ASSUME NEW u \in Live(m)
        PROVE  /\ m.kind[u] = "not" => Len(m.ins[u]) >= 1
               /\ m.kind[u] = "tri" => Len(m.ins[u]) >= 3
               /\ m.kind[u] = "mux" => Len(m.ins[u]) >= 4
               /\ m.kind[u] = "lookup" => TableShape(m.lut[u], m.ins[u])
    <3>1. CASE u \in Live(n) \ {g}
      <4>1. m.kind[u] = n.kind[u] /\ m.lut[u] = n.lut[u] /\ Len(m.ins[u]) = Len(n.ins[u])
        BY <1>3, <1>5, <3>1
      <4>2. n.kind[u] = "lookup" => TableShape(n.lut[u], n.ins[u])
        BY <1>1, <3>1 DEF TablesFit
      <4>3. /\ n.kind[u] = "not" => Len(n.ins[u]) >= 1
            /\ n.kind[u] = "tri" => Len(n.ins[u]) >= 3
            /\ n.kind[u] = "mux" => Len(n.ins[u]) >= 4
        BY <1>1, <3>1 DEF WellShaped
      <4>4. TableShape(m.lut[u], m.ins[u]) <=> TableShape(n.lut[u], n.ins[u])
        <5>1. \A l, p, q : Len(p) = Len(q) => (TableShape(l, p) <=> TableShape(l, q))
          BY DEF TableShape
        <5> QED  BY <4>1, <5>1
      <4> QED  BY <4>1, <4>2, <4>3, <4>4
    <3>2. CASE u \in {g, a}
      BY <1>2, <1>3, <1>4, <3>2
    <3>3. CASE u = r
      <4>1. m.kind[u] = "not" /\ m.ins[u] = <<a>>
        BY <1>3, <3>3
      <4>2. Len(m.ins[u]) = 1
        BY <4>1
      <4> QED  BY <4>1, <4>2
    <3> QED  BY <1>3, <3>1, <3>2, <3>3
  <2> QED  BY <2>1 DEF WellShaped, TablesFit
<1>7. NoBufferRead(m)
  <2> SUFFICES ASSUME NEW u \in Live(m), NEW t \in InputsOf(m, u), t \in Gates
               PROVE  m.kind[t] # "tri"
    BY DEF NoBufferRead
  <2>1. CASE t \in {factor, g, a}
    BY <1>2, <1>3, <1>4, <2>1
  <2>2. CASE \E x : x \in InputsOf(n, u) /\ u \in Live(n) /\ t = Instead(g, r, x)
    <3>1. PICK x : x \in InputsOf(n, u) /\ u \in Live(n) /\ t = Instead(g, r, x)
      BY <2>2
    <3>2. CASE x = g
      BY <1>3, <3>1, <3>2 DEF Instead
    <3>3. CASE x # g
      <4>1. t = x
        BY <3>1, <3>3 DEF Instead
      <4>2. x \in LiveTerminals(n)
        BY <1>1, <3>1, LiveInputs DEF InputsOf
      <4>3. x \in Live(n) /\ n.kind[x] # "tri"
        BY <1>1, <3>1, <4>1, <4>2, TerminalsApart DEF LiveTerminals, NoBufferRead
      <4> QED  BY <1>3, <4>1, <4>3
    <3> QED  BY <3>2, <3>3
  <2> QED  BY <2>1, <2>2, FactoredReads
<1>8. ASSUME NEW x, NEW y, IsNotOf(n, y, x)
      PROVE  IsNotOf(m, Instead(g, r, y), Instead(g, r, x))
  <2>1. y \in Live(n) /\ 1 \in DOMAIN n.ins[y] /\ x = n.ins[y][1] /\ n.kind[y] = "not"
    BY <1>1, <1>8, NotHasInput DEF IsNotOf
  <2>2. y # g
    BY <1>2, <2>1
  <2>3. m.ins[y][1] = Instead(g, r, x) /\ m.kind[y] = "not" /\ y \in Gates
    BY <1>2, <1>3, <2>1, <2>2
  <2> QED  BY <2>2, <2>3 DEF Instead, IsNotOf
<1>9. ASSUME NEW x, NEW y, Opposite(n, x, y)
      PROVE  Opposite(m, Instead(g, r, x), Instead(g, r, y))
  <2>1. CASE IsNotOf(n, x, y) \/ IsNotOf(n, y, x)
    BY <1>8, <2>1 DEF Opposite
  <2>2. CASE <<x, y>> \in {<<Low, High>>, <<High, Low>>}
    <3>1. Instead(g, r, x) = x /\ Instead(g, r, y) = y
      BY <1>2, <2>2 DEF Instead
    <3> QED  BY <2>2, <3>1 DEF Opposite
  <2> QED  BY <1>9, <2>1, <2>2 DEF Opposite
<1>10. Paired(m)
  <2> SUFFICES ASSUME NEW u \in Live(m), NEW p \in PairsOf(m, u)
               PROVE  Opposite(m, m.ins[u][p[1]], m.ins[u][p[2]])
    BY DEF Paired
  <2>1. m.kind[u] \in {"mux", "tri", "lookup"}
    BY DEF PairsOf
  <2>2. u \in Live(n) \ {g}
    BY <1>2, <1>3, <1>4, <2>1
  <2>3. p \in PairsOf(n, u)
    BY <1>3, <1>5, <2>2, EqualPairs
  <2>4. p[1] \in DOMAIN n.ins[u] /\ p[2] \in DOMAIN n.ins[u]
    BY <1>1, <2>2, <2>3, PairPositions
  <2>5. Opposite(n, n.ins[u][p[1]], n.ins[u][p[2]])
    BY <1>1, <2>2, <2>3 DEF Paired
  <2> QED  BY <1>3, <1>9, <2>2, <2>4, <2>5
<1>11. Foldable(m)
  BY <1>1, <1>6, <1>7, <1>10, SoundIsWellFormed DEF Foldable
<1>12. ASSUME NEW t \in BitsRead(m)  PROVE t \in BitsRead(n)
  <2>1. PICK u \in Users : \E i \in DOMAIN m.ins[u] : m.ins[u][i] = t
    BY <1>12 DEF BitsRead
  <2>2. t \in Inputs /\ t \notin Gates
    BY <1>12, TerminalsApart DEF BitsRead
  <2>3. u \in Live(m) \cup {Sink}
    <3>1. CASE u \in Gates /\ m.kind[u] = "dead"
      BY <1>1, <2>1, <3>1 DEF Sound, DeadIsBare
    <3> QED  BY <3>1 DEF Live, Users
  <2>4. \E i \in DOMAIN n.ins[u] : n.ins[u][i] = t
    <3>1. CASE u = Sink
      <4>1. Sink \notin {g}
        BY <1>2, TerminalsApart
      <4>2. PICK i \in DOMAIN n.ins[Sink] : t = Instead(g, r, n.ins[Sink][i])
        BY <1>3, <2>1, <3>1, <4>1
      <4> QED  BY <1>3, <2>2, <3>1, <4>2 DEF Instead
    <3>2. CASE u \in Live(m)
      <4>1. t \in InputsOf(m, u)
        BY <2>1 DEF InputsOf
      <4>2. PICK x : x \in InputsOf(n, u) /\ t = Instead(g, r, x)
        BY <1>2, <1>3, <2>2, <3>2, <4>1, FactoredReads
      <4> QED  BY <1>3, <2>2, <4>2 DEF Instead, InputsOf
    <3> QED  BY <2>3, <3>1, <3>2
  <2> QED  BY <2>2, <2>4 DEF BitsRead
<1> QED  BY <1>11, <1>12

\* States of the two networks that agree but on g, which r stands for.
LEMMA FactoredAgree ==
  ASSUME NEW n, Foldable(n), NEW m, NEW inputs, NEW factor, NEW g, NEW a, NEW r,
         CanFactor(n, inputs, factor, g), Factored(n, m, inputs, factor, g, a, r),
         NEW st \in [Terminals -> Known], NEW s \in [Terminals -> Known],
         \A x \in LiveTerminals(n) : s[Instead(g, r, x)] = st[x]
  PROVE  /\ \A u \in Live(n) \ {g} : ComputeValue(m, s, u) = ComputeValue(n, st, u)
         /\ Shows(m, s) = Shows(n, st)
<1>1. Sound(n) /\ g \in Gates /\ Sink \notin {g} /\ m.outs = n.outs
  BY SoundIsWellFormed, TerminalsApart DEF Foldable, CanFactor, Live, Factored
<1>2. \A u \in Live(n) : m.kind[u] = n.kind[u] /\ m.lut[u] = n.lut[u]
  BY DEF Factored
<1>3. \A u \in (Live(n) \cup {Sink}) \ {g} :
        /\ DOMAIN m.ins[u] = DOMAIN n.ins[u]
        /\ \A i \in DOMAIN n.ins[u] : m.ins[u][i] = Instead(g, r, n.ins[u][i])
  BY DEF Factored
<1>4. ASSUME NEW u \in Live(n) \ {g}  PROVE ComputeValue(m, s, u) = ComputeValue(n, st, u)
  <2>1. \A i \in DOMAIN n.ins[u] : s[m.ins[u][i]] = st[n.ins[u][i]]
    BY <1>1, <1>3, LiveInputs
  <2>2. Read(m, s, u) = Read(n, st, u)
    BY <1>3, <2>1 DEF Read
  <2> QED  BY <1>2, <2>2, EqualValues
<1>5. Shows(m, s) = Shows(n, st)
  <2>1. \A o \in 1 .. n.outs : s[m.ins[Sink][o]] = st[n.ins[Sink][o]]
    BY <1>1, <1>3, SinkInputs
  <2>2. \A i \in Inputs : s[i] = st[i]
    BY <1>1, TerminalsApart DEF LiveTerminals, Instead
  <2> QED  BY <1>1, <2>1, <2>2 DEF Shows
<1> QED  BY <1>4, <1>5

\* What g's inputs decide, those of factor and those that are left decide between them.
LEMMA FactorDecides ==
  ASSUME NEW n, NEW m, NEW inputs, NEW factor, NEW g, NEW a, NEW r, Foldable(n),
         CanFactor(n, inputs, factor, g), Factored(n, m, inputs, factor, g, a, r),
         NEW st, NEW s, NEW k,
         \A x \in LiveTerminals(n) : s[Instead(g, r, x)] = st[x]
  PROVE  /\ Decides(m, s, k, factor) <=> Decides(n, st, k, factor)
         /\ Decides(n, st, k, g) <=> Decides(n, st, k, factor) \/ Decides(m, s, k, g)
<1>1. /\ factor \in Live(n) \ {g} /\ g \in Live(n)
      /\ inputs \cap InputsOf(n, g) \in SUBSET InputsOf(n, factor)
      /\ InputsOf(n, factor) \in SUBSET InputsOf(n, g)
      /\ InputsOf(m, g) = {Instead(g, r, t) : t \in InputsOf(n, g) \ inputs}
  BY DEF CanFactor, Factored
<1>2. InputsOf(m, factor) = {Instead(g, r, t) : t \in InputsOf(n, factor)}
  BY <1>1, FactoredReads
<1>3. \A u \in Live(n) : \A t \in InputsOf(n, u) : s[Instead(g, r, t)] = st[t]
  BY SoundIsWellFormed, LiveInputs DEF Foldable, InputsOf
<1>4. Decides(m, s, k, factor) <=> Decides(n, st, k, factor)
  BY <1>1, <1>2, <1>3 DEF Decides
<1>5. Decides(m, s, k, g) <=> \E t \in InputsOf(n, g) \ inputs : st[t] = Decisive(k)
  BY <1>1, <1>3 DEF Decides
<1>6. Decides(n, st, k, g) <=> Decides(n, st, k, factor) \/ Decides(m, s, k, g)
  BY <1>1, <1>5 DEF Decides
<1> QED  BY <1>4, <1>6

\* The dual gate of what factor and g decide is the complement of what both decide.
LEMMA DualOfBoth ==
  ASSUME NEW k \in {"nand", "nor"}, NEW b \in BOOLEAN, NEW c \in BOOLEAN
  PROVE  /\ DualOut(k, b) \in Levels
         /\ TopOut(k, DualOut(k, b), DualOut(k, c)) = Flip(DualOut(k, b \/ c))
         /\ Flip(Flip(DualOut(k, b))) = DualOut(k, b) /\ Flip(DualOut(k, b)) \in Levels
BY DEF TopOut, DualOut, Dual, Decisive, Flip, Levels

\* The dual gate, and the NOT of it.
LEMMA FactoredTop ==
  ASSUME NEW n, Foldable(n), NEW m, NEW inputs, NEW factor, NEW g, NEW a, NEW r,
         CanFactor(n, inputs, factor, g), Factored(n, m, inputs, factor, g, a, r),
         NEW s \in [Terminals -> Known], s[factor] \in Levels, s[g] \in Levels
  PROVE  /\ ComputeValue(m, s, a) = TopOut(n.kind[g], s[factor], s[g])
         /\ s[a] \in Levels => ComputeValue(m, s, r) = Flip(s[a])
<1>1. Sound(m) /\ WellShaped(m) /\ a \in Live(m) /\ r \in Live(m)
  BY FactoredFoldable, SoundIsWellFormed DEF Foldable, Factored
<1>2. /\ m.kind[a] = Dual(n.kind[g]) /\ m.kind[r] = "not" /\ m.ins[r] = <<a>>
      /\ Dual(n.kind[g]) \in {"nand", "nor"}
  BY DEF Factored, Dual
<1>3. InputsOf(m, a) = {factor, g} /\ InputsOf(m, r) = {a}
  BY FactoredReads
<1>4. ReadsLevels(m, s, a)
  BY <1>1, <1>3, LevelsOfInputs
<1>5. ComputeValue(m, s, a) = DualOut(Dual(n.kind[g]), Decides(m, s, Dual(n.kind[g]), a))
  BY <1>1, <1>2, <1>4, DualValue
<1>6. Decides(m, s, Dual(n.kind[g]), a) <=>
        s[factor] = Decisive(Dual(n.kind[g])) \/ s[g] = Decisive(Dual(n.kind[g]))
  BY <1>3 DEF Decides
<1>7. ASSUME s[a] \in Levels  PROVE ComputeValue(m, s, r) = Flip(s[a])
  <2>1. ReadsLevels(m, s, r)
    BY <1>1, <1>3, <1>7, LevelsOfInputs
  <2>2. m.ins[r][1] = a
    BY <1>2
  <2> QED  BY <1>1, <1>2, <2>1, <2>2, NotValue
<1>8. ComputeValue(m, s, a) = TopOut(n.kind[g], s[factor], s[g])
  BY <1>5, <1>6 DEF TopOut, DualOut
<1> QED  BY <1>7, <1>8

\* A state of n, with values for a and r and another one for g, is one of m.
LEMMA FactoredForward ==
  ASSUME NEW n, Foldable(n), NEW m, NEW inputs, NEW factor, NEW g, NEW a, NEW r,
         CanFactor(n, inputs, factor, g), Factored(n, m, inputs, factor, g, a, r),
         NEW st, Consistent(n, st)
  PROVE  \E s : Consistent(m, s) /\ Shows(m, s) = Shows(n, st)
<1> DEFINE k == n.kind[g]
           rest == \E t \in InputsOf(n, g) \ inputs : st[t] = Decisive(k)
           v == DualOut(k, rest)
           w == Flip(st[g])
           s == [[[st EXCEPT ![r] = st[g]] EXCEPT ![a] = w] EXCEPT ![g] = v]
<1>1. /\ Sound(n) /\ WellShaped(n) /\ NoBufferRead(n)
      /\ Sound(m) /\ WellShaped(m) /\ st \in [Terminals -> Known] /\ Valuation(st)
  BY FactoredFoldable, SoundIsWellFormed DEF Foldable, Consistent, Valuation
<1>2. /\ g \in Live(n) /\ factor \in Live(n) \ {g} /\ g \in Gates /\ factor \in Gates
      /\ k \in {"nand", "nor"} /\ n.kind[factor] = k
      /\ a \in Gates \ Live(n) /\ r \in Gates \ Live(n) /\ a # r
      /\ Live(m) = Live(n) \cup {a, r} /\ m.kind[g] = k
      /\ InputsOf(m, g) = {Instead(g, r, t) : t \in InputsOf(n, g) \ inputs}
  BY DEF CanFactor, Factored, Live
<1>3. LiveTerminals(n) \in SUBSET Terminals \ {a, r} /\ Live(n) \in SUBSET LiveTerminals(n)
      /\ Gates \in SUBSET Terminals
  BY <1>1, <1>2, LiveFacts, TerminalsApart DEF LiveTerminals, Sound
<1>4. ConsistentBut(n, st, g) /\ ReadsLevels(n, st, g) /\ ReadsLevels(n, st, factor)
  BY <1>1, <1>2, ConsistentIsBut, LevelsRead
<1>5. st[g] = DualOut(k, Decides(n, st, k, g)) /\ st[factor] = DualOut(k, Decides(n, st, k, factor))
  BY <1>2, <1>4, DualValue DEF Consistent
<1>6. st[g] \in Levels /\ st[factor] \in Levels /\ v \in Levels /\ w \in Levels
      /\ Flip(w) = st[g]
  BY <1>2, <1>5, DualOfBoth DEF Decides
<1> HIDE DEF v, w
<1>7. /\ s \in [Terminals -> Known] /\ s[g] = v /\ s[a] = w /\ s[r] = st[g]
      /\ \A t \in Terminals \ {a, r, g} : s[t] = st[t]
  <2>1. Levels \in SUBSET Known
    BY DEF Levels, Known
  <2> QED  BY <1>1, <1>2, <1>3, <1>6, <2>1
<1> HIDE DEF s
<1>8. \A x \in LiveTerminals(n) : s[Instead(g, r, x)] = st[x]
  BY <1>3, <1>7 DEF Instead
<1>9. Valuation(s)
  BY <1>1, <1>2, <1>7, TerminalsApart DEF Valuation
<1>10. /\ \A u \in Live(n) \ {g} : ComputeValue(m, s, u) = ComputeValue(n, st, u)
       /\ Shows(m, s) = Shows(n, st)
  BY <1>1, <1>7, <1>8, FactoredAgree
<1>11. \A u \in Live(n) \ {g} : s[u] = ComputeValue(m, s, u)
  BY <1>2, <1>3, <1>7, <1>10 DEF Consistent
<1>12. s[g] = ComputeValue(m, s, g)
  <2>1. \A t \in InputsOf(n, g) : st[t] \in Levels /\ t \in LiveTerminals(n)
    BY <1>1, <1>2, <1>4, LiveInputs DEF ReadsLevels, InputsOf
  <2>2. \A t \in InputsOf(m, g) : s[t] \in Levels
    BY <1>2, <1>8, <2>1
  <2>3. ReadsLevels(m, s, g)
    BY <1>1, <1>2, <1>7, <2>2, LevelsOfInputs
  <2>4. Decides(m, s, k, g) <=> rest
    BY <1>2, <1>8, <2>1 DEF Decides
  <2>5. ComputeValue(m, s, g) = DualOut(k, Decides(m, s, k, g))
    BY <1>2, <2>3, DualValue
  <2> QED  BY <1>7, <2>4, <2>5 DEF v, DualOut
<1>13. s[a] = ComputeValue(m, s, a) /\ s[r] = ComputeValue(m, s, r)
  <2> DEFINE b == Decides(n, st, k, factor)
             c == Decides(m, s, k, g)
  <2>1. Decides(n, st, k, g) <=> b \/ c
    BY <1>8, FactorDecides
  <2>2. s[factor] = DualOut(k, b) /\ s[g] = DualOut(k, c)
    <3>1. \A t \in InputsOf(n, g) : t \in LiveTerminals(n)
      BY <1>1, <1>2, LiveInputs DEF InputsOf
    <3>2. c <=> rest
      BY <1>2, <1>8, <3>1 DEF Decides
    <3> QED  BY <1>2, <1>3, <1>5, <1>7, <3>2 DEF v, DualOut
  <2>3. b \in BOOLEAN /\ c \in BOOLEAN
    BY DEF Decides
  <2>4. ComputeValue(m, s, a) = TopOut(k, s[factor], s[g])
        /\ (s[a] \in Levels => ComputeValue(m, s, r) = Flip(s[a]))
    <3>1. s[factor] \in Levels /\ s[g] \in Levels
      BY <1>2, <1>3, <1>6, <1>7
    <3> QED  BY <1>7, <3>1, FactoredTop
  <2>5. st[g] = DualOut(k, b \/ c)
    BY <1>5, <2>1 DEF DualOut
  <2> HIDE DEF b, c
  <2>6. ComputeValue(m, s, a) = Flip(DualOut(k, b \/ c))
    BY <1>2, <2>2, <2>3, <2>4, DualOfBoth
  <2> QED  BY <1>6, <1>7, <2>4, <2>5, <2>6 DEF w
<1>14. Consistent(m, s)
  BY <1>2, <1>9, <1>11, <1>12, <1>13 DEF Consistent
<1> QED  BY <1>10, <1>14

\* A state of m, with the value of r for g, is one of n.
LEMMA FactoredBackward ==
  ASSUME NEW n, Foldable(n), NEW m, NEW inputs, NEW factor, NEW g, NEW a, NEW r,
         CanFactor(n, inputs, factor, g), Factored(n, m, inputs, factor, g, a, r),
         NEW s, Consistent(m, s)
  PROVE  \E st : Consistent(n, st) /\ Shows(n, st) = Shows(m, s)
<1> DEFINE k == n.kind[g]
           st == [s EXCEPT ![g] = s[r]]
<1>1. /\ Sound(n) /\ WellShaped(n) /\ NoBufferRead(n)
      /\ Sound(m) /\ WellShaped(m) /\ NoBufferRead(m) /\ s \in [Terminals -> Known] /\ Valuation(s)
  BY FactoredFoldable, SoundIsWellFormed DEF Foldable, Consistent, Valuation
<1>2. /\ g \in Live(n) /\ factor \in Live(n) \ {g} /\ g \in Gates /\ factor \in Gates
      /\ k \in {"nand", "nor"} /\ n.kind[factor] = k
      /\ a \in Gates \ Live(n) /\ r \in Gates \ Live(n) /\ a # r
      /\ Live(m) = Live(n) \cup {a, r} /\ m.kind[g] = k /\ m.kind[r] = "not"
      /\ m.kind[factor] = k /\ m.kind[a] = Dual(k)
      /\ InputsOf(m, g) = {Instead(g, r, t) : t \in InputsOf(n, g) \ inputs}
  BY DEF CanFactor, Factored, Live
<1>3. LiveTerminals(n) \in SUBSET Terminals /\ Live(n) \in SUBSET LiveTerminals(n)
      /\ Gates \in SUBSET Terminals
  BY <1>1, LiveFacts, TerminalsApart DEF Sound
<1>4. /\ s[g] = DualOut(k, Decides(m, s, k, g)) /\ s[factor] = DualOut(k, Decides(m, s, k, factor))
      /\ s[g] \in Levels /\ s[factor] \in Levels
  <2>1. \A u \in Live(m) : ConsistentBut(m, s, u) /\ ReadsLevels(m, s, u)
    BY <1>1, ConsistentIsBut, LevelsRead
  <2>2. s[g] = DualOut(k, Decides(m, s, k, g)) /\ s[factor] = DualOut(k, Decides(m, s, k, factor))
    BY <1>2, <2>1, DualValue DEF Consistent
  <2> QED  BY <1>2, <2>2, DualOfBoth DEF Decides
<1>5. s[a] = ComputeValue(m, s, a) /\ s[r] = ComputeValue(m, s, r)
  BY <1>2 DEF Consistent
<1>6. /\ st \in [Terminals -> Known] /\ st[g] = s[r]
      /\ \A t \in Terminals \ {g} : st[t] = s[t]
  BY <1>1, <1>2, <1>3
<1> HIDE DEF st
<1>7. \A x \in LiveTerminals(n) : s[Instead(g, r, x)] = st[x]
  BY <1>3, <1>6 DEF Instead
<1>8. Valuation(st)
  BY <1>1, <1>2, <1>6, TerminalsApart DEF Valuation
<1>9. /\ \A u \in Live(n) \ {g} : ComputeValue(m, s, u) = ComputeValue(n, st, u)
      /\ Shows(m, s) = Shows(n, st)
  BY <1>1, <1>6, <1>7, FactoredAgree
<1>10. \A u \in Live(n) \ {g} : st[u] = ComputeValue(n, st, u)
  BY <1>2, <1>3, <1>6, <1>9 DEF Consistent
<1> DEFINE b == Decides(n, st, k, factor)
           c == Decides(m, s, k, g)
<1>11. (Decides(m, s, k, factor) <=> b) /\ (Decides(n, st, k, g) <=> b \/ c)
  BY <1>7, FactorDecides
<1>12. s[r] = DualOut(k, b \/ c) /\ s[r] \in Levels
  <2>1. ComputeValue(m, s, a) = TopOut(k, s[factor], s[g])
        /\ (s[a] \in Levels => ComputeValue(m, s, r) = Flip(s[a]))
    BY <1>1, <1>4, FactoredTop
  <2>2. s[factor] = DualOut(k, b) /\ s[g] = DualOut(k, c)
    BY <1>4, <1>11 DEF DualOut
  <2>3. b \in BOOLEAN /\ c \in BOOLEAN /\ (b \/ c) \in BOOLEAN
    BY DEF Decides
  <2> HIDE DEF b, c
  <2>4. s[a] = Flip(DualOut(k, b \/ c))
    BY <1>2, <1>5, <2>1, <2>2, <2>3, DualOfBoth
  <2>5. Flip(Flip(DualOut(k, b \/ c))) = DualOut(k, b \/ c) /\ s[a] \in Levels
        /\ DualOut(k, b \/ c) \in Levels
    BY <1>2, <2>3, <2>4, DualOfBoth
  <2> QED  BY <1>5, <2>1, <2>4, <2>5
<1>13. st[g] = ComputeValue(n, st, g)
  <2>1. ConsistentBut(n, st, g)
    BY <1>6, <1>8, <1>10, <1>12 DEF ConsistentBut
  <2>2. ReadsLevels(n, st, g)
    BY <1>1, <1>2, <2>1, LevelsRead
  <2>3. ComputeValue(n, st, g) = DualOut(k, Decides(n, st, k, g))
    BY <1>2, <2>2, DualValue
  <2> QED  BY <1>6, <1>11, <1>12, <2>3 DEF DualOut
<1>14. Consistent(n, st)
  BY <1>8, <1>10, <1>13 DEF Consistent
<1> QED  BY <1>9, <1>14

\* The rewrite keeps what the network does.
LEMMA FactoredKeeps ==
  ASSUME NEW n, Foldable(n), NEW m, NEW inputs, NEW factor, NEW g, NEW a, NEW r,
         CanFactor(n, inputs, factor, g), Factored(n, m, inputs, factor, g, a, r)
  PROVE  Keeps(n, m)
<1>1. Foldable(m) /\ BitsRead(m) \in SUBSET BitsRead(n)
  BY FactoredFoldable
<1>2. \A st : Consistent(n, st) => \E s : Consistent(m, s) /\ Shows(m, s) = Shows(n, st)
  BY FactoredForward
<1>3. \A s : Consistent(m, s) => \E st : Consistent(n, st) /\ Shows(n, st) = Shows(m, s)
  BY FactoredBackward
<1> QED  BY <1>1, <1>2, <1>3, SameBehaviour DEF Keeps

\* A rewrite of uses leaves the number of gates.
LEMMA ReplacedSize == ASSUME NEW n, NEW g, NEW r, NEW a PROVE ReplaceUsesExcept(n, g, r, a).size = n.size
BY DEF ReplaceUsesExcept, Redirect

\* FactorOne makes such a network.
LEMMA FactorOneFactored ==
  ASSUME NEW n, Foldable(n), NEW inputs, IsFiniteSet(inputs), NEW factor, NEW g,
         CanFactor(n, inputs, factor, g),
         FactorOne(n, n.kind[g], inputs, factor, g).size <= MaxGates
  PROVE  LET m == FactorOne(n, n.kind[g], inputs, factor, g)
         IN  m.size = n.size + 2 /\ \E a, r : Factored(n, m, inputs, factor, g, a, r)
<1> DEFINE rest == AllErased(n, g, SetToSeq(inputs))
           k == Dual(n.kind[g])
           two == <<factor, g>>
           top == NewGate(rest, k, two)
           a == top.out
           one == <<a>>
           not == NewGate(top.net, "not", one)
           r == not.out
           p == not.net
           m == ReplaceUsesExcept(p, g, r, p.ins[r][1])
<1>1. /\ Sound(n) /\ g \in Live(n) /\ g \in Gates /\ factor \in Live(n) /\ factor \in Gates
      /\ n.kind[g] \in {"nand", "nor"} /\ k \in {"nand", "nor"} /\ k \in Kinds \ {"dead"}
      /\ n.size \in Nat
  BY SoundIsWellFormed, FoldableSize DEF Foldable, CanFactor, Live, Dual, Kinds
<1>2. /\ Sound(rest) /\ Local(n, rest, g)
      /\ rest.kind = n.kind /\ rest.lut = n.lut /\ rest.size = n.size
      /\ InputsOf(rest, g) = InputsOf(n, g) \ inputs
  BY <1>1, ErasedFields
<1>3. "size" \in DOMAIN rest
  BY <1>2 DEF Sound, IsNet
<1>4. FactorOne(n, n.kind[g], inputs, factor, g) = m
  <2>1. (IF n.kind[g] = "nor" THEN AndOf(rest, factor, g) ELSE OrOf(rest, factor, g)) = not
    <3>1. a \in Int
      BY <1>1, <1>2 DEF NewGate, NextGate
    <3>2. NotOf(top.net, a) = not
      BY <3>1, NetAssumption DEF NotOf
    <3> QED  BY <1>1, <3>2 DEF AndOf, OrOf, NandOf, NorOf, Dual
  <2> QED  BY Zenon, <2>1 DEF FactorOne, AllErased
<1> HIDE DEF rest, k, two
<1>5. "size" \in DOMAIN top.net /\ top.net.size = n.size + 1
  BY <1>2, <1>3, NewGateSize
<1>6. p.size = n.size + 2
  <2>1. p.size = top.net.size + 1
    BY <1>5, NewGateSize
  <2> HIDE DEF p, top
  <2> QED  BY <1>1, <1>5, <2>1
<1>7. m.size = n.size + 2
  BY <1>6, ReplacedSize
<1>8. n.size < MaxGates /\ n.size + 1 < MaxGates
  <2>1. n.size + 2 <= MaxGates
    BY <1>4, <1>7
  <2> QED  BY <1>1, <2>1, NetAssumption
<1>9. Live(rest) = Live(n) /\ two \in Seq(LiveTerminals(rest))
  <2>1. Live(rest) = Live(n) /\ factor \in LiveTerminals(rest) /\ g \in LiveTerminals(rest)
    BY <1>1, <1>2 DEF Local, LiveTerminals
  <2> QED  BY <2>1 DEF two
<1>10. Sound(top.net) /\ Adds(rest, top.net, a, k, two)
  BY <1>1, <1>2, <1>8, <1>9, NewGateAdds
<1> HIDE DEF top
<1>11. one \in Seq(LiveTerminals(top.net))
  BY <1>10 DEF Adds
<1>12. Sound(p) /\ Adds(top.net, p, r, "not", one)
  <2>1. "not" \in Kinds \ {"dead"} /\ top.net.size < MaxGates
    BY <1>5, <1>8 DEF Kinds
  <2> QED  BY <1>10, <1>11, <2>1, NewGateAdds
<1> HIDE DEF one, not
<1>13. /\ a \in Gates \ Live(n) /\ r \in Gates \ Live(n) /\ a # r
       /\ Live(p) = Live(n) \cup {a, r} /\ p.outs = n.outs
       /\ p.kind[a] = k /\ p.ins[a] = two /\ p.kind[r] = "not" /\ p.ins[r] = one
       /\ p.ins[Sink] = n.ins[Sink] /\ p.ins[g] = rest.ins[g]
       /\ \A u \in Live(n) : p.kind[u] = n.kind[u] /\ p.lut[u] = n.lut[u]
       /\ \A u \in Live(n) \ {g} : p.ins[u] = n.ins[u]
       /\ r \in LiveTerminals(p)
  <2>1. /\ a \in Gates /\ a \notin Live(n) /\ Live(top.net) = Live(n) \cup {a}
        /\ top.net.outs = n.outs /\ top.net.kind[a] = k /\ top.net.ins[a] = two
        /\ top.net.ins[Sink] = n.ins[Sink]
        /\ \A u \in Live(n) : top.net.kind[u] = n.kind[u] /\ top.net.lut[u] = n.lut[u]
                              /\ top.net.ins[u] = rest.ins[u]
    BY <1>2, <1>9, <1>10 DEF Adds, Local
  <2>2. /\ r \in Gates /\ r \notin Live(top.net) /\ Live(p) = Live(top.net) \cup {r}
        /\ p.outs = top.net.outs /\ p.kind[r] = "not" /\ p.ins[r] = one
        /\ p.ins[Sink] = top.net.ins[Sink] /\ r \in LiveTerminals(p)
        /\ \A u \in Live(top.net) : p.kind[u] = top.net.kind[u] /\ p.lut[u] = top.net.lut[u]
                                    /\ p.ins[u] = top.net.ins[u]
    BY <1>12 DEF Adds
  <2>3. \A u \in Live(n) \ {g} : rest.ins[u] = n.ins[u]
    BY <1>2 DEF Local
  <2> HIDE DEF p, r, a
  <2> QED  BY <1>1, <2>1, <2>2, <2>3
<1>14. p.ins[r][1] = a /\ r # g /\ a # g /\ g \in Live(p)
  BY <1>1, <1>13 DEF one
<1> HIDE DEF p, r, a
<1>15. /\ Sound(m) /\ Live(m) = Live(p) /\ m.outs = p.outs /\ m.kind = p.kind /\ m.lut = p.lut
       /\ \A u \in Users :
            /\ DOMAIN m.ins[u] = DOMAIN p.ins[u]
            /\ \A i \in DOMAIN p.ins[u] :
                 m.ins[u][i] = IF u = a THEN p.ins[u][i] ELSE Instead(g, r, p.ins[u][i])
  <2>1. m = ReplaceUsesExcept(p, g, r, a)
    BY <1>14
  <2> HIDE DEF m
  <2> QED  BY <1>12, <1>13, <1>14, <2>1, ReplacedExcept
<1> HIDE DEF m
<1>16. /\ a \in Users /\ r \in Users /\ g \in Users /\ Sink \in Users /\ Live(n) \in SUBSET Users
       /\ Sink # a /\ a \notin Live(n)
  BY <1>1, <1>13, TerminalsApart DEF Live
<1>17. m.ins[a] = two /\ m.ins[r] = one
  <2>1. m.ins[a] \in Seq(LiveTerminals(m)) /\ m.ins[r] \in Seq(LiveTerminals(m))
    BY <1>13, <1>15, LiveInputs
  <2>2. two = <<factor, g>> /\ one = <<a>>
    BY DEF two, one
  <2>3. DOMAIN m.ins[a] = DOMAIN two /\ \A i \in DOMAIN two : m.ins[a][i] = two[i]
    BY <1>13, <1>15, <1>16
  <2>4. DOMAIN m.ins[r] = DOMAIN one /\ \A i \in DOMAIN one : m.ins[r][i] = one[i]
    <3>1. \A i \in DOMAIN one : one[i] # g
      BY <1>14, <2>2
    <3> QED  BY <1>13, <1>15, <1>16, <3>1 DEF Instead
  <2>5. m.ins[a] = <<m.ins[a][1], m.ins[a][2]>>
    <3>1. Len(m.ins[a]) = 2
      BY <2>1, <2>2, <2>3
    <3> QED  BY <2>1, <3>1
  <2>6. m.ins[r] = <<m.ins[r][1]>>
    <3>1. Len(m.ins[r]) = 1
      BY <2>1, <2>2, <2>4
    <3> QED  BY <2>1, <3>1
  <2>7. m.ins[a][1] = factor /\ m.ins[a][2] = g
    BY <2>2, <2>3
  <2>8. m.ins[r][1] = a
    BY <2>2, <2>4
  <2> QED  BY <2>2, <2>5, <2>6, <2>7, <2>8
<1>18. InputsOf(m, g) = {Instead(g, r, t) : t \in InputsOf(n, g) \ inputs}
  <2>1. /\ DOMAIN m.ins[g] = DOMAIN rest.ins[g]
        /\ \A i \in DOMAIN rest.ins[g] : m.ins[g][i] = Instead(g, r, rest.ins[g][i])
    BY <1>13, <1>14, <1>15, <1>16
  <2>2. InputsOf(m, g) = {Instead(g, r, t) : t \in InputsOf(rest, g)}
    BY <2>1 DEF InputsOf
  <2> QED  BY <1>2, <2>2
<1>19. \A u \in (Live(n) \cup {Sink}) \ {g} :
         /\ DOMAIN m.ins[u] = DOMAIN n.ins[u]
         /\ \A i \in DOMAIN n.ins[u] : m.ins[u][i] = Instead(g, r, n.ins[u][i])
  <2> TAKE u \in (Live(n) \cup {Sink}) \ {g}
  <2>1. u \in Users /\ u # a /\ p.ins[u] = n.ins[u]
    BY <1>13, <1>16
  <2> QED  BY <1>15, <2>1
<1>20. Factored(n, m, inputs, factor, g, a, r)
  <2>1. m.ins[a] = <<factor, g>> /\ m.ins[r] = <<a>> /\ m.kind[a] = Dual(n.kind[g])
    BY <1>13, <1>15, <1>17 DEF two, one, k
  <2>2. Live(m) = Live(n) \cup {a, r} /\ m.outs = n.outs /\ m.kind[r] = "not"
        /\ \A u \in Live(n) : m.kind[u] = n.kind[u] /\ m.lut[u] = n.lut[u]
    BY <1>13, <1>15
  <2> QED  BY <1>13, <1>15, <1>18, <1>19, <2>1, <2>2 DEF Factored
<1> QED  BY <1>4, <1>7, <1>20

\* The gates of a set in the order of their positions: each of them, and each once.
LEMMA InOrderOf ==
  ASSUME NEW K \in SUBSET Gates
  PROVE  /\ InOrder(K) \in Seq(K)
         /\ \A i, j \in DOMAIN InOrder(K) : InOrder(K)[i] = InOrder(K)[j] => i = j
<1> DEFINE c == Cardinality(K)
           f == [j \in 1 .. c |-> NthOf(K, j)]
<1>1. Gates = 1 .. MaxGates /\ MaxGates \in Nat
  BY NetAssumption DEF Gates
<1>2. IsFiniteSet(K) /\ c \in Nat
  <2>1. IsFiniteSet(1 .. MaxGates)
    BY <1>1, FS_Interval
  <2> QED  BY <1>1, <2>1, FS_Subset, FS_CardinalityType
<1>3. (\A j \in 1 .. c : NthOf(K, j) \in K) /\ (\A k \in K : \E j \in 1 .. c : NthOf(K, j) = k)
  BY <1>1, NthOfMember, NthOfOnto
<1>4. InOrder(K) = f
  <2>1. \A j \in 1 .. c : [g \in Gates |-> g][NthOf(K, j)] = NthOf(K, j)
    BY <1>3
  <2> QED  BY <2>1 DEF InOrder, Compact
<1> HIDE DEF c
<1>5. f \in Surjection(1 .. c, K)
  BY <1>3 DEF Surjection
<1>6. IsFiniteSet(1 .. c) /\ Cardinality(1 .. c) = Cardinality(K)
  BY <1>2, FS_Interval DEF c
<1>7. f \in Injection(1 .. c, K)
  BY <1>5, <1>6, FS_SurjSameCardinalityImpliesInj
<1> HIDE DEF f
<1>8. f \in Seq(K) /\ \A i, j \in DOMAIN f : f[i] = f[j] => i = j
  BY <1>2, <1>7 DEF Injection, IsInjective
<1> QED  BY <1>4, <1>8

\* One gate of a group after another.
AllFactored(n, kind, inputs, factor, args) ==
  FoldLeft(LAMBDA m, g : FactorOne(m, kind, inputs, factor, g), n, args)
FactorSteps(n, kind, inputs, factor, args, acc) ==
  /\ acc[0] = n
  /\ \A k \in 1 .. Len(args) : acc[k] = FactorOne(acc[k - 1], kind, inputs, factor, args[k])
  /\ AllFactored(n, kind, inputs, factor, args) = acc[Len(args)]
LEMMA FactorEach ==
  ASSUME NEW n, NEW kind, NEW inputs, NEW factor, NEW S, NEW args \in Seq(S)
  PROVE  \E acc : FactorSteps(n, kind, inputs, factor, args, acc)
<1> DEFINE op == <<"factor", kind, inputs, factor>>
           Own(f) == f = [s \in SUBSET DOMAIN args |->
                            IF s = {} THEN n
                            ELSE FactorOne(f[s \ {Max(s)}], kind, inputs, factor, args[Max(s)])]
           iter == CHOOSE f : Own(f)
<1>1. \A acc, x : Advanced(op, acc, x) = FactorOne(acc, kind, inputs, factor, x)
  BY DEF Advanced
<1> HIDE DEF op
<1>2. \A f : Own(f) <=> Folds(op, n, args, f)
  BY <1>1 DEF Folds
<1>3. AllFactored(n, kind, inputs, factor, args) = iter[DOMAIN args]
  BY DEF AllFactored, FoldLeft, MapThenFoldSet
<1>4. Folds(op, n, args, iter)
  <2> HIDE DEF Own
  <2> QED  BY <1>2, FoldsExist
<1> HIDE DEF iter
<1>5. PICK acc : Steps(op, n, args, acc) /\ iter[DOMAIN args] = acc[Len(args)]
  BY <1>4, FoldSteps
<1> QED  BY <1>1, <1>3, <1>5 DEF Steps, FactorSteps

\* Erasing adds no gate, and so FactorOne adds two.
LEMMA ErasedSize ==
  ASSUME NEW n, "size" \in DOMAIN n, NEW g, NEW S, NEW args \in Seq(S)
  PROVE  "size" \in DOMAIN AllErased(n, g, args) /\ AllErased(n, g, args).size = n.size
<1>1. \A m, t : /\ EraseInputs(m, g, t).size = m.size
                /\ DOMAIN EraseInputs(m, g, t) = DOMAIN m
  BY DEF EraseInputs, Reregister
<1>2. PICK acc : /\ acc[0] = n
                 /\ \A i \in 1 .. Len(args) : acc[i] = EraseInputs(acc[i - 1], g, args[i])
                 /\ AllErased(n, g, args) = acc[Len(args)]
  BY EraseEach
<1> DEFINE S0 == {i \in 0 .. Len(args) : "size" \in DOMAIN acc[i] /\ acc[i].size = n.size}
<1>3. Len(args) \in Nat /\ 0 \in S0
  BY <1>2
<1>4. ASSUME NEW i \in 1 .. Len(args), i - 1 \in S0  PROVE i \in S0
  BY <1>1, <1>2, <1>4
<1> HIDE DEF S0
<1>5. \A i \in 0 .. Len(args) : i \in S0
  BY <1>3, <1>4, UpTo
<1> QED  BY <1>2, <1>3, <1>5 DEF S0

LEMMA SetSeq ==
  ASSUME NEW S, IsFiniteSet(S)
  PROVE  SetToSeq(S) \in Seq(S) /\ \A t \in S : \E j \in DOMAIN SetToSeq(S) : SetToSeq(S)[j] = t
<1> DEFINE args == SetToSeq(S)
           k == Cardinality(S)
<1>1. k \in Nat
  BY FS_CardinalityType
<1>2. args \in [1 .. k -> S] /\ IsInjective(args)
  BY <1>1, SetAsSeq
<1>3. args \in Injection(1 .. k, S)
  BY <1>2 DEF Injection
<1>4. Cardinality(1 .. k) = k
  BY <1>1, FS_Interval
<1>5. args \in Surjection(1 .. k, S)
  BY <1>3, <1>4, FS_Injection
<1> HIDE DEF args, k
<1>6. args \in Seq(S) /\ \A t \in S : \E j \in DOMAIN args : args[j] = t
  BY <1>1, <1>2, <1>5 DEF Surjection
<1> QED  BY <1>6 DEF args

LEMMA FactorOneSize ==
  ASSUME NEW n, "size" \in DOMAIN n, n.size \in Nat, NEW kind, NEW inputs, IsFiniteSet(inputs),
         NEW factor, NEW g
  PROVE  LET m == FactorOne(n, kind, inputs, factor, g)
         IN  "size" \in DOMAIN m /\ m.size = n.size + 2
<1> DEFINE args == SetToSeq(inputs)
           rest == AllErased(n, g, args)
           k == IF kind = "nor" THEN "nand" ELSE "nor"
           top == NewGate(rest, k, <<factor, g>>)
           not == NewGate(top.net, "not", <<top.out>>)
           m == ReplaceUsesExcept(not.net, g, not.out, not.net.ins[not.out][1])
<1>1. args \in Seq(inputs)
  BY SetSeq
<1> HIDE DEF args
<1>2. "size" \in DOMAIN rest /\ rest.size = n.size
  BY <1>1, ErasedSize
<1>3. FactorOne(n, kind, inputs, factor, g) = m
  <2>1. (IF kind = "nor" THEN AndOf(rest, factor, g) ELSE OrOf(rest, factor, g)) = not
    <3>1. top.out \in Int
      BY <1>2 DEF NewGate, NextGate
    <3>2. NotOf(top.net, top.out) = not
      BY <3>1, NetAssumption DEF NotOf
    <3> QED  BY <3>2 DEF AndOf, OrOf, NandOf, NorOf
  <2> QED  BY Zenon, <2>1 DEF FactorOne, AllErased, args
<1> HIDE DEF rest, k
<1>4. "size" \in DOMAIN top.net /\ top.net.size = n.size + 1
  BY <1>2, NewGateSize
<1> HIDE DEF top
<1>5. "size" \in DOMAIN not.net /\ not.net.size = n.size + 2
  <2>1. "size" \in DOMAIN not.net /\ not.net.size = top.net.size + 1
    BY <1>4, NewGateSize
  <2> HIDE DEF not
  <2> QED  BY <1>4, <2>1
<1> HIDE DEF not
<1>6. m.size = n.size + 2 /\ DOMAIN m = DOMAIN not.net
  BY <1>5 DEF ReplaceUsesExcept, Redirect
<1> QED  BY <1>3, <1>5, <1>6

\* The rewrite of g leaves the other gates of its group as it found them.
LEMMA FactoredNext ==
  ASSUME NEW n, Foldable(n), NEW m, NEW inputs, NEW factor, NEW g, NEW a, NEW r,
         CanFactor(n, inputs, factor, g), Factored(n, m, inputs, factor, g, a, r),
         inputs \in SUBSET LiveTerminals(n)
  PROVE  /\ inputs \in SUBSET LiveTerminals(m)
         /\ \A h : h # g /\ CanFactor(n, inputs, factor, h) => CanFactor(m, inputs, factor, h)
<1>1. /\ g \in Live(n) /\ factor \in Live(n) \ {g}
      /\ a \in Gates \ Live(n) /\ r \in Gates \ Live(n) /\ Live(m) = Live(n) \cup {a, r}
      /\ \A u \in Live(n) : m.kind[u] = n.kind[u]
  BY DEF CanFactor, Factored
<1>2. inputs \in SUBSET LiveTerminals(m) /\ r \notin inputs
  BY <1>1, TerminalsApart DEF LiveTerminals
<1>3. \A u \in Live(n) \ {g} : InputsOf(m, u) = {Instead(g, r, t) : t \in InputsOf(n, u)}
  BY FactoredReads
<1>4. ASSUME NEW h, h # g, CanFactor(n, inputs, factor, h)
      PROVE  CanFactor(m, inputs, factor, h)
  <2>1. /\ h \in Live(n) \ {g} /\ factor # h
        /\ n.kind[h] \in {"nand", "nor"} /\ n.kind[factor] = n.kind[h]
        /\ inputs \cap InputsOf(n, h) \in SUBSET InputsOf(n, factor)
        /\ InputsOf(n, factor) \in SUBSET InputsOf(n, h)
    BY <1>4 DEF CanFactor
  <2>2. /\ InputsOf(m, h) = {Instead(g, r, t) : t \in InputsOf(n, h)}
        /\ InputsOf(m, factor) = {Instead(g, r, t) : t \in InputsOf(n, factor)}
    BY <1>1, <1>3, <2>1
  <2>3. InputsOf(m, factor) \in SUBSET InputsOf(m, h)
    BY <2>1, <2>2
  <2>4. ASSUME NEW t \in inputs \cap InputsOf(m, h)  PROVE t \in InputsOf(m, factor)
    <3>1. PICK x \in InputsOf(n, h) : t = Instead(g, r, x)
      BY <2>2, <2>4
    <3>2. x # g /\ t = x
      BY <1>2, <3>1 DEF Instead
    <3>3. x \in InputsOf(n, factor)
      BY <2>1, <3>1, <3>2
    <3> QED  BY <2>2, <3>1, <3>3
  <2> QED  BY <1>1, <2>1, <2>3, <2>4 DEF CanFactor
<1> QED  BY <1>2, <1>4

\* Each gate of the list takes two more.
LEMMA FactorSizes ==
  ASSUME NEW n, "size" \in DOMAIN n, n.size \in Nat, NEW kind, NEW inputs, IsFiniteSet(inputs),
         NEW factor, NEW S, NEW args \in Seq(S), NEW acc, FactorSteps(n, kind, inputs, factor, args, acc)
  PROVE  \A i \in 0 .. Len(args) : acc[i].size = n.size + 2 * i
<1> DEFINE k == Len(args)
<1>1. k \in Nat
  OBVIOUS
<1>2. /\ acc[0] = n
      /\ \A i \in 1 .. k : acc[i] = FactorOne(acc[i - 1], kind, inputs, factor, args[i])
  BY DEF FactorSteps
<1> HIDE DEF k
<1> DEFINE Sizes == {i \in 0 .. k : "size" \in DOMAIN acc[i] /\ acc[i].size = n.size + 2 * i}
<1>3. 0 \in Sizes
  BY <1>1, <1>2
<1>4. ASSUME NEW i \in 1 .. k, i - 1 \in Sizes  PROVE i \in Sizes
  <2>1. "size" \in DOMAIN acc[i - 1] /\ acc[i - 1].size = n.size + 2 * (i - 1)
        /\ acc[i - 1].size \in Nat
    BY <1>4
  <2>2. acc[i] = FactorOne(acc[i - 1], kind, inputs, factor, args[i])
    BY <1>2
  <2>3. "size" \in DOMAIN acc[i] /\ acc[i].size = acc[i - 1].size + 2
    BY <2>1, <2>2, FactorOneSize
  <2>4. acc[i].size = n.size + 2 * i
    BY <1>1, <2>1, <2>3
  <2> QED  BY <1>1, <2>3, <2>4
<1>5. \A i \in 0 .. k : i \in Sizes
  <2> HIDE DEF Sizes
  <2> QED  BY <1>1, <1>3, <1>4, UpTo
<1> QED  BY <1>5 DEF k

\* The gates of a list, one after the other.
LEMMA AllFactoredKeeps ==
  ASSUME NEW n, Foldable(n), NEW kind \in {"nand", "nor"}, NEW factor, NEW inputs,
         IsFiniteSet(inputs), inputs \in SUBSET LiveTerminals(n), NEW args \in Seq(Live(n)),
         \A i, j \in DOMAIN args : args[i] = args[j] => i = j,
         \A i \in DOMAIN args : n.kind[args[i]] = kind /\ CanFactor(n, inputs, factor, args[i]),
         AllFactored(n, kind, inputs, factor, args).size <= MaxGates
  PROVE  Keeps(n, AllFactored(n, kind, inputs, factor, args))
<1> DEFINE k == Len(args)
<1>1. PICK acc : FactorSteps(n, kind, inputs, factor, args, acc)
  BY FactorEach
<1>2. k \in Nat /\ DOMAIN args = 1 .. k
  OBVIOUS
<1>3. /\ acc[0] = n
      /\ \A i \in 1 .. k : acc[i] = FactorOne(acc[i - 1], kind, inputs, factor, args[i])
      /\ AllFactored(n, kind, inputs, factor, args) = acc[k]
  BY <1>1 DEF FactorSteps
<1> HIDE DEF k
<1>4. n.size \in Nat /\ "size" \in DOMAIN n
  BY FoldableSize
<1>7. \A i \in 0 .. k : acc[i].size = n.size + 2 * i
  BY <1>1, <1>4, FactorSizes DEF k
<1>8. \A i \in 0 .. k : acc[i].size <= MaxGates
  <2> TAKE i \in 0 .. k
  <2>1. acc[i].size = n.size + 2 * i /\ acc[k].size = n.size + 2 * k /\ acc[k].size <= MaxGates
    BY <1>2, <1>3, <1>7
  <2>2. n.size + 2 * i <= n.size + 2 * k
    BY <1>2, <1>4
  <2> QED  BY <1>2, <1>4, <2>1, <2>2, NetAssumption
<1> DEFINE Right(i) ==
             /\ Keeps(n, acc[i]) /\ inputs \in SUBSET LiveTerminals(acc[i])
             /\ \A j \in i + 1 .. k : /\ CanFactor(acc[i], inputs, factor, args[j])
                                      /\ acc[i].kind[args[j]] = kind
           S == {i \in 0 .. k : Right(i)}
<1>9. 0 \in S
  <2>1. Keeps(n, n)
    BY KeepsSelf
  <2>2. Right(0)
    BY <1>2, <1>3, <2>1
  <2> QED  BY <1>2, <2>2
<1>10. ASSUME NEW i \in 1 .. k, i - 1 \in S  PROVE i \in S
  <2> DEFINE p == acc[i - 1]
             q == acc[i]
             g == args[i]
  <2>1. /\ Keeps(n, p) /\ inputs \in SUBSET LiveTerminals(p)
        /\ \A j \in i .. k : CanFactor(p, inputs, factor, args[j]) /\ p.kind[args[j]] = kind
    <3>1. Right(i - 1) /\ (i - 1) + 1 = i
      BY <1>2, <1>10
    <3> QED  BY <3>1
  <2>2. q = FactorOne(p, kind, inputs, factor, g) /\ q.size <= MaxGates
    BY <1>2, <1>3, <1>8
  <2>3. CanFactor(p, inputs, factor, g) /\ p.kind[g] = kind
    BY <1>2, <2>1
  <2>4. \A j \in i + 1 .. k : /\ j \in i .. k /\ args[j] # g
    BY <1>2
  <2> HIDE DEF p, q, g
  <2>5. Foldable(p)
    BY <2>1 DEF Keeps
  <2>6. PICK a, r : Factored(p, q, inputs, factor, g, a, r)
    BY <2>2, <2>3, <2>5, FactorOneFactored
  <2>7. Keeps(p, q)
    BY <2>3, <2>5, <2>6, FactoredKeeps
  <2>8. Keeps(n, q)
    BY <2>1, <2>7, KeepsTrans
  <2>9. /\ inputs \in SUBSET LiveTerminals(q)
        /\ \A h : h # g /\ CanFactor(p, inputs, factor, h) => CanFactor(q, inputs, factor, h)
    BY <2>1, <2>3, <2>5, <2>6, FactoredNext
  <2>10. \A h \in Live(p) : q.kind[h] = p.kind[h]
    BY <2>6 DEF Factored
  <2>11. ASSUME NEW j \in i + 1 .. k
         PROVE  CanFactor(q, inputs, factor, args[j]) /\ q.kind[args[j]] = kind
    <3>1. CanFactor(p, inputs, factor, args[j]) /\ p.kind[args[j]] = kind /\ args[j] # g
      BY <2>1, <2>4
    <3>2. args[j] \in Live(p)
      BY <3>1 DEF CanFactor
    <3> QED  BY <2>9, <2>10, <3>1, <3>2
  <2>12. Right(i)
    BY <2>8, <2>9, <2>11 DEF q
  <2> QED  BY <1>2, <2>12
<1>11. k \in S
  <2> HIDE DEF S
  <2>1. \A i \in 0 .. k : i \in S
    BY <1>2, <1>9, <1>10, UpTo
  <2> QED  BY <1>2, <2>1
<1> QED  BY <1>3, <1>11

\* Also a network with more gates than there is room for has lists of inputs.
Reads == Terminals \cup {Null} \cup Nat
HasLists(n) ==
  /\ "size" \in DOMAIN n /\ n.size \in Nat
  /\ "ins" \in DOMAIN n /\ n.ins \in [Users -> Seq(Reads)]

LEMMA FoldableHasLists ==
  ASSUME NEW n, Foldable(n)
  PROVE  HasLists(n)
<1>1. /\ "size" \in DOMAIN n /\ n.size \in Nat
      /\ "ins" \in DOMAIN n /\ n.ins \in [Users -> Seq(Terminals \cup {Null})]
  BY FoldableSize, SoundIsWellFormed DEF Foldable, Sound, IsNet
<1>2. Terminals \cup {Null} \in SUBSET Reads
  BY DEF Reads
<1>3. \A u \in Users : n.ins[u] \in Seq(Reads)
  BY <1>1, <1>2, SeqOfMore
<1> QED  BY <1>1, <1>3 DEF HasLists

LEMMA ReregisterHasLists ==
  ASSUME NEW n, HasLists(n), NEW g, NEW s, g \in Users => s \in Seq(Reads)
  PROVE  HasLists(Reregister(n, g, s)) /\ Reregister(n, g, s).size = n.size
<1> DEFINE m == Reregister(n, g, s)
<1>1. /\ "size" \in DOMAIN m /\ "ins" \in DOMAIN m /\ m.size = n.size
      /\ m.ins = [n.ins EXCEPT ![g] = s]
  BY DEF HasLists, Reregister
<1>2. m.ins \in [Users -> Seq(Reads)]
  <2> HIDE DEF m
  <2> QED  BY <1>1 DEF HasLists
<1> QED  BY <1>1, <1>2 DEF HasLists

LEMMA NewGateHasLists ==
  ASSUME NEW n, HasLists(n), NEW k, NEW s \in Seq(Reads)
  PROVE  /\ HasLists(NewGate(n, k, s).net) /\ NewGate(n, k, s).out \in Nat
         /\ NewGate(n, k, s).net.size = n.size + 1
<1> DEFINE g == n.size + 1
           p == [n EXCEPT !.size = g, !.kind[g] = k, !.lut[g] = << >>]
<1>1. HasLists(p) /\ p.size = n.size + 1
  BY DEF HasLists
<1>2. NewGate(n, k, s) = [net |-> Reregister(p, g, s), out |-> g]
  BY DEF NewGate, AddGate, AddLookup, NextGate
<1> HIDE DEF p
<1>3. HasLists(Reregister(p, g, s)) /\ Reregister(p, g, s).size = p.size
  BY <1>1, ReregisterHasLists
<1> QED  BY <1>1, <1>2, <1>3 DEF HasLists

LEMMA EraseHasLists ==
  ASSUME NEW n, HasLists(n), NEW g \in Users, NEW t
  PROVE  HasLists(EraseInputs(n, g, t))
<1> DEFINE K == KeptInputs(n, g, t)
           s == Compact(n.ins[g], K)
<1>1. EraseInputs(n, g, t) = Reregister(n, g, s)
  BY Zenon DEF EraseInputs, KeptInputs
<1>2. n.ins[g] \in Seq(Reads)
  BY DEF HasLists
<1>3. K \in SUBSET DOMAIN n.ins[g]
  BY <1>2 DEF KeptInputs
<1> HIDE DEF K
<1>4. s \in Seq(Reads)
  BY <1>2, <1>3, CompactEntries
<1> QED  BY <1>1, <1>4, ReregisterHasLists

LEMMA ErasedHasLists ==
  ASSUME NEW n, HasLists(n), NEW g \in Users, NEW S, NEW args \in Seq(S)
  PROVE  HasLists(AllErased(n, g, args))
<1>1. PICK acc : /\ acc[0] = n
                 /\ \A i \in 1 .. Len(args) : acc[i] = EraseInputs(acc[i - 1], g, args[i])
                 /\ AllErased(n, g, args) = acc[Len(args)]
  BY EraseEach
<1> DEFINE Kept == {i \in 0 .. Len(args) : HasLists(acc[i])}
<1>2. Len(args) \in Nat /\ 0 \in Kept
  BY <1>1
<1>3. ASSUME NEW i \in 1 .. Len(args), i - 1 \in Kept  PROVE i \in Kept
  BY <1>1, <1>3, EraseHasLists
<1> HIDE DEF Kept
<1>4. \A i \in 0 .. Len(args) : i \in Kept
  BY <1>2, <1>3, UpTo
<1> QED  BY <1>1, <1>2, <1>4 DEF Kept

LEMMA FactorOneHasLists ==
  ASSUME NEW n, HasLists(n), NEW kind, NEW inputs, IsFiniteSet(inputs),
         NEW factor \in Nat, NEW g \in Gates
  PROVE  LET m == FactorOne(n, kind, inputs, factor, g)
         IN  HasLists(m) /\ m.size = n.size + 2
<1> DEFINE args == SetToSeq(inputs)
           rest == AllErased(n, g, args)
           k == IF kind = "nor" THEN "nand" ELSE "nor"
           two == <<factor, g>>
           top == NewGate(rest, k, two)
           one == <<top.out>>
           not == NewGate(top.net, "not", one)
           m == ReplaceUsesExcept(not.net, g, not.out, not.net.ins[not.out][1])
<1>1. args \in Seq(inputs) /\ g \in Users /\ g \in Nat
  BY SetSeq, TerminalsApart DEF Gates
<1> HIDE DEF args
<1>2. HasLists(rest)
  BY <1>1, ErasedHasLists
<1>3. rest.size = n.size
  BY <1>1, ErasedSize DEF HasLists
<1>4. FactorOne(n, kind, inputs, factor, g) = m
  <2>1. (IF kind = "nor" THEN AndOf(rest, factor, g) ELSE OrOf(rest, factor, g)) = not
    <3>1. top.out \in Int
      BY <1>2 DEF HasLists, NewGate, NextGate
    <3>2. NotOf(top.net, top.out) = not
      BY <3>1, NetAssumption DEF NotOf
    <3> QED  BY <3>2 DEF AndOf, OrOf, NandOf, NorOf
  <2> QED  BY Zenon, <2>1 DEF FactorOne, AllErased, args
<1> HIDE DEF rest, k
<1>5. two \in Seq(Reads)
  BY <1>1 DEF Reads
<1> HIDE DEF two
<1>6. HasLists(top.net) /\ top.out \in Nat /\ top.net.size = n.size + 1
  BY <1>2, <1>3, <1>5, NewGateHasLists
<1> HIDE DEF top
<1>7. one \in Seq(Reads)
  BY <1>6 DEF Reads
<1> HIDE DEF one
<1>8. HasLists(not.net) /\ not.out \in Nat /\ not.net.size = top.net.size + 1
  BY <1>6, <1>7, NewGateHasLists
<1> HIDE DEF not
<1>9. HasLists(m) /\ m.size = not.net.size
  <2> DEFINE p == not.net
             r == not.out
             slots == {u \in p.uses[g] : u[1] # p.ins[r][1]}
             q == Redirect(p, slots, g, r)
  <2>1. m = p \/ m = q
    BY DEF ReplaceUsesExcept
  <2> HIDE DEF p, r, slots, m
  <2>2. HasLists(p) /\ r \in Reads
    BY <1>8 DEF p, r, Reads
  <2>3. /\ "size" \in DOMAIN q /\ "ins" \in DOMAIN q /\ q.size = p.size
        /\ q.ins = [u \in Users |->
                      [i \in DOMAIN p.ins[u] |-> IF <<u, i>> \in slots THEN r ELSE p.ins[u][i]]]
    BY <2>2 DEF HasLists, Redirect
  <2>4. ASSUME NEW u \in Users
        PROVE  [i \in DOMAIN p.ins[u] |-> IF <<u, i>> \in slots THEN r ELSE p.ins[u][i]] \in Seq(Reads)
    <3>1. p.ins[u] \in Seq(Reads)
      BY <2>2 DEF HasLists
    <3> DEFINE l == Len(p.ins[u])
               f == [i \in DOMAIN p.ins[u] |-> IF <<u, i>> \in slots THEN r ELSE p.ins[u][i]]
    <3>2. l \in Nat /\ DOMAIN p.ins[u] = 1 .. l /\ \A i \in 1 .. l : p.ins[u][i] \in Reads
      BY <3>1
    <3> HIDE DEF l
    <3>3. f \in [1 .. l -> Reads]
      BY <2>2, <3>2
    <3> HIDE DEF f
    <3>4. f \in Seq(Reads)
      BY <3>2, <3>3
    <3> QED  BY <3>4 DEF f
  <2>5. q.ins \in [Users -> Seq(Reads)]
    BY <2>3, <2>4
  <2> HIDE DEF q
  <2>6. HasLists(q)
    BY <2>2, <2>3, <2>5 DEF HasLists
  <2> QED  BY <2>1, <2>2, <2>3, <2>6 DEF p
<1> HIDE DEF m
<1>10. m.size = n.size + 2
  BY <1>6, <1>8, <1>9 DEF HasLists
<1> QED  BY <1>4, <1>9, <1>10

\* The inputs that a group may have in common.
LEMMA SharedFinite ==
  ASSUME NEW n, HasLists(n), NEW kind, NEW inputs \in SUBSET SharedInputs(n, kind)
  PROVE  IsFiniteSet(inputs)
<1> DEFINE K == OfKind(n, kind)
           all == {InputsOf(n, g) : g \in K}
<1>1. IsFiniteSet(K) /\ K \in SUBSET Users
  <2>1. K \in SUBSET Live(n) /\ Live(n) \in SUBSET Gates
    BY DEF OfKind, Live
  <2>2. IsFiniteSet(Live(n))
    BY LiveFinite
  <2>3. Gates \in SUBSET Users
    BY DEF Users
  <2> HIDE DEF K
  <2> QED  BY <2>1, <2>2, <2>3, FS_Subset
<1>2. inputs \in SUBSET UNION all
  BY DEF SharedInputs
<1>3. \A g \in K : IsFiniteSet(InputsOf(n, g))
  <2> TAKE g \in K
  <2> DEFINE f == n.ins[g]
             l == Len(f)
  <2>1. f \in Seq(Reads)
    BY <1>1 DEF HasLists
  <2>2. l \in Nat /\ f \in [1 .. l -> Reads] /\ InputsOf(n, g) = {f[i] : i \in DOMAIN f}
    BY <2>1 DEF InputsOf
  <2> HIDE DEF f, l
  <2>3. f \in Surjection(1 .. l, InputsOf(n, g))
    BY <2>2 DEF Surjection
  <2>4. IsFiniteSet(1 .. l)
    BY <2>2, FS_Interval
  <2> QED  BY <2>3, <2>4, FS_Surjection
<1>4. IsFiniteSet(all)
  <2> DEFINE f == [g \in K |-> InputsOf(n, g)]
  <2>1. f \in Surjection(K, all)
    BY DEF Surjection
  <2> QED  BY <1>1, <2>1, FS_Surjection
<1>5. IsFiniteSet(UNION all)
  BY <1>3, <1>4, FS_UNION
<1> QED  BY <1>2, <1>5, FS_Subset

LEMMA SharedFacts ==
  ASSUME NEW n, Foldable(n), NEW kind, NEW inputs \in SUBSET SharedInputs(n, kind)
  PROVE  IsFiniteSet(inputs) /\ inputs \in SUBSET Plain(n)
<1>1. \A g \in OfKind(n, kind) : g \in Live(n)
  BY DEF OfKind
<1>2. \A g \in OfKind(n, kind) : InputsOf(n, g) \in SUBSET Plain(n)
  BY <1>1, InputsPlain DEF InputsOf
<1>3. inputs \in SUBSET Plain(n)
  BY <1>2 DEF SharedInputs
<1> QED  BY <1>3, FoldableHasLists, SharedFinite

\* FactorGates at a group: NOR(a, b, c) = AND(NOR(a, b), NOR(c)), and dually.
THEOREM FactorKeepsBehaviour ==
  ASSUME NEW n, Foldable(n), NEW kind \in {"nand", "nor"},
         NEW inputs \in SUBSET SharedInputs(n, kind),
         FactorGroup(n, kind, inputs).size <= MaxGates
  PROVE  Keeps(n, FactorGroup(n, kind, inputs))
<1> DEFINE args == SetToSeq(inputs)
           b == NewGate(n, kind, args)
           p == b.net
           factor == b.out
           K == GatesWith(n, kind, inputs)
           gates == InOrder(K)
<1>1. /\ Sound(n) /\ IsFiniteSet(inputs) /\ inputs \in SUBSET Plain(n)
      /\ n.size \in Nat /\ "size" \in DOMAIN n
  BY SharedFacts, FoldableSize, SoundIsWellFormed DEF Foldable
<1>2. /\ args \in Seq(inputs) /\ \A t \in inputs : \E j \in DOMAIN args : args[j] = t
  BY <1>1, SetSeq
<1>3. args \in Seq(Plain(n))
  <2> HIDE DEF args
  <2> QED  BY <1>1, <1>2, SeqOfMore
<1>4. /\ K \in SUBSET Live(n) /\ K \in SUBSET Gates
      /\ \A g \in K : n.kind[g] = kind /\ inputs \in SUBSET InputsOf(n, g)
  BY DEF GatesWith, OfKind, Live
<1>5. gates \in Seq(K) /\ \A i, j \in DOMAIN gates : gates[i] = gates[j] => i = j
  BY <1>4, InOrderOf
<1>6. FactorGroup(n, kind, inputs) = AllFactored(p, kind, inputs, factor, gates)
  BY Zenon DEF FactorGroup, AllFactored
<1>7. "size" \in DOMAIN p /\ p.size = n.size + 1
  BY <1>1, NewGateSize
<1> HIDE DEF args, p, factor, gates, K
<1>8. n.size + 1 <= MaxGates
  <2>1. PICK acc : FactorSteps(p, kind, inputs, factor, gates, acc)
    BY <1>5, FactorEach
  <2>2. p.size \in Nat
    BY <1>1, <1>7
  <2> DEFINE l == Len(gates)
  <2>3. l \in Nat
    BY <1>5
  <2>4. acc[l].size = p.size + 2 * l
    BY <1>1, <1>5, <1>7, <2>1, <2>2, <2>3, FactorSizes
  <2>5. acc[l].size <= MaxGates
    BY <1>6, <2>1 DEF FactorSteps
  <2> HIDE DEF l
  <2> QED  BY <1>1, <1>7, <2>2, <2>3, <2>4, <2>5, NetAssumption
<1>9. /\ Grown(n, p) /\ factor \in Plain(p)
      /\ factor \in Live(p) /\ factor \notin Live(n) /\ factor \in Gates
      /\ p.kind[factor] = kind /\ p.ins[factor] = args
  BY <1>3, <1>8, GateGrown DEF p, factor
<1>10. Foldable(p) /\ Keeps(n, p) /\ inputs \in SUBSET LiveTerminals(p)
  BY <1>1, <1>9 DEF Grown, Keeps, Plain
<1>11. InputsOf(p, factor) = inputs
  BY <1>2, <1>9 DEF InputsOf
<1>12. \A g \in K : g \in Live(p) /\ p.kind[g] = kind /\ CanFactor(p, inputs, factor, g)
  <2> TAKE g \in K
  <2>1. g \in Live(n) /\ n.kind[g] = kind /\ inputs \in SUBSET InputsOf(n, g)
    BY <1>4
  <2>2. g \in Live(p) /\ p.kind[g] = kind /\ p.ins[g] = n.ins[g] /\ factor # g
    BY <1>9, <2>1 DEF Grown
  <2>3. InputsOf(p, g) = InputsOf(n, g)
    BY <2>2 DEF InputsOf
  <2> QED  BY <1>9, <1>11, <2>1, <2>2, <2>3 DEF CanFactor
<1>13. gates \in Seq(Live(p)) /\ \A i \in DOMAIN gates : gates[i] \in K
  BY <1>5, <1>12, SeqOfMore
<1>14. Keeps(p, AllFactored(p, kind, inputs, factor, gates))
  BY <1>1, <1>5, <1>6, <1>10, <1>12, <1>13, AllFactoredKeeps
<1> QED  BY <1>6, <1>10, <1>14, KeepsTrans

\* A group's rewrite takes one gate more, and two for each gate with its inputs.
LEMMA GroupSize ==
  ASSUME NEW n, HasLists(n), NEW kind, NEW inputs \in SUBSET SharedInputs(n, kind)
  PROVE  LET m == FactorGroup(n, kind, inputs)
         IN  HasLists(m) /\ m.size > n.size
<1> DEFINE args == SetToSeq(inputs)
           b == NewGate(n, kind, args)
           p == b.net
           factor == b.out
           K == GatesWith(n, kind, inputs)
           gates == InOrder(K)
           m == FactorGroup(n, kind, inputs)
           l == Len(gates)
<1>1. IsFiniteSet(inputs) /\ inputs \in SUBSET Reads
  <2>1. IsFiniteSet(inputs)
    BY SharedFinite
  <2>2. inputs \in SUBSET UNION {InputsOf(n, g) : g \in OfKind(n, kind)}
    BY DEF SharedInputs
  <2>3. ASSUME NEW g \in OfKind(n, kind)  PROVE InputsOf(n, g) \in SUBSET Reads
    <3>1. g \in Users
      BY DEF OfKind, Live, Users
    <3>2. n.ins[g] \in Seq(Reads)
      BY <3>1 DEF HasLists
    <3> QED  BY <3>2 DEF InputsOf
  <2> QED  BY <2>1, <2>2, <2>3
<1>2. args \in Seq(Reads)
  <2>1. args \in Seq(inputs)
    BY <1>1, SetSeq
  <2> HIDE DEF args
  <2> QED  BY <1>1, <2>1, SeqOfMore
<1>3. K \in SUBSET Gates
  BY DEF GatesWith, OfKind, Live
<1>4. gates \in Seq(Gates) /\ l \in Nat
  <2>1. gates \in Seq(K)
    BY <1>3, InOrderOf
  <2> HIDE DEF gates, K
  <2> QED  BY <1>3, <2>1, SeqOfMore
<1>5. m = AllFactored(p, kind, inputs, factor, gates)
  BY Zenon DEF FactorGroup, AllFactored
<1> HIDE DEF args
<1>6. HasLists(p) /\ factor \in Nat /\ p.size = n.size + 1 /\ n.size \in Nat
  BY <1>2, NewGateHasLists DEF HasLists
<1> HIDE DEF p, factor, gates, K, m
<1>7. PICK acc : FactorSteps(p, kind, inputs, factor, gates, acc)
  BY <1>4, FactorEach
<1> DEFINE Counted == {i \in 0 .. l : HasLists(acc[i])}
<1>8. 0 \in Counted
  BY <1>4, <1>6, <1>7 DEF FactorSteps
<1>9. ASSUME NEW i \in 1 .. l, i - 1 \in Counted  PROVE i \in Counted
  <2>1. HasLists(acc[i - 1]) /\ gates[i] \in Gates
    BY <1>4, <1>9
  <2>2. acc[i] = FactorOne(acc[i - 1], kind, inputs, factor, gates[i])
    BY <1>7 DEF FactorSteps
  <2>3. HasLists(acc[i])
    BY <1>1, <1>6, <2>1, <2>2, FactorOneHasLists
  <2> QED  BY <2>3
<1>10. acc[l].size = p.size + 2 * l
  <2>1. "size" \in DOMAIN p /\ p.size \in Nat
    BY <1>6 DEF HasLists
  <2>2. \A i \in 0 .. Len(gates) : acc[i].size = p.size + 2 * i
    BY <1>1, <1>4, <1>7, <2>1, FactorSizes
  <2> QED  BY <1>4, <2>2
<1>11. m = acc[l]
  BY <1>5, <1>7 DEF FactorSteps
<1> HIDE DEF l, Counted
<1>12. l \in Counted
  <2>1. \A i \in 0 .. l : i \in Counted
    BY <1>4, <1>8, <1>9, UpTo
  <2> QED  BY <1>4, <2>1
<1>13. HasLists(m)
  BY <1>11, <1>12 DEF Counted
<1>14. m.size > n.size
  BY <1>4, <1>6, <1>10, <1>11
<1> QED  BY <1>13, <1>14 DEF m

\* What FactorGates does of one kind: nothing, or a group of that kind.
LEMMA KindOrGroup ==
  ASSUME NEW n, NEW kind, NEW m \in FactorKind(n, kind)
  PROVE  m = n \/ \E inputs \in SUBSET SharedInputs(n, kind) : m = FactorGroup(n, kind, inputs)
<1> DEFINE all == Groups(n, kind)
           big == {a \in all : \A b \in all : Cardinality(a) >= Cardinality(b)}
<1>1. all \in SUBSET SUBSET SharedInputs(n, kind)
  BY DEF Groups
<1>2. m \in (IF all = {} THEN {n} ELSE {FactorGroup(n, kind, inputs) : inputs \in big})
  BY DEF FactorKind
<1> QED  BY <1>1, <1>2

\* A whole call of FactorGates, of NORs and then of NANDs.
LEMMA FactorGatesKeeps ==
  ASSUME NEW n, Foldable(n), NEW m \in FactorGates(n), m.size <= MaxGates
  PROVE  Keeps(n, m)
<1>1. PICK p \in FactorKind(n, "nor") : m \in FactorKind(p, "nand")
  BY DEF FactorGates
<1>2. HasLists(p)
  BY <1>1, FoldableHasLists, GroupSize, KindOrGroup
<1>3. p.size <= MaxGates
  <2>1. CASE m = p
    BY <2>1
  <2>2. CASE \E inputs \in SUBSET SharedInputs(p, "nand") : m = FactorGroup(p, "nand", inputs)
    <3>1. HasLists(m) /\ m.size > p.size
      BY <1>2, <2>2, GroupSize
    <3> QED  BY <1>2, <3>1, NetAssumption DEF HasLists
  <2> QED  BY <1>1, <2>1, <2>2, KindOrGroup
<1>4. Keeps(n, p)
  BY <1>1, <1>3, FactorKeepsBehaviour, KeepsSelf, KindOrGroup
<1>5. Foldable(p)
  BY <1>4 DEF Keeps
<1>6. Keeps(p, m)
  BY <1>1, <1>5, FactorKeepsBehaviour, KeepsSelf, KindOrGroup
<1> QED  BY <1>4, <1>5, <1>6, KeepsTrans

----------------------------------------------------------------------------
(* The passes.                                                              *)

\* What the front end has built so far: no output is declared, and its results are
\* terminals of the network.
FrontEndRight ==
  pass = "build" => net.outs = 0 /\ results \in Seq(LiveTerminals(net))

\* The inductive invariant.
PassInv ==
  /\ frontEnd \in FrontEnds /\ pos \in Nat
  /\ PassesWellFormed /\ FunctionKept
  /\ FrontEndRight
  /\ pass # "build" => declared \in SUBSET Inputs /\ lowerMux \in BOOLEAN

\* The steps that work through a list of rewrites keep the network right.
ListsKeep ==
  VisitNormalForm \/ VisitMerge =>
    (PassesWellFormed /\ FunctionKept => PassesWellFormed' /\ FunctionKept')

\* What a front end starts from.
LEMMA PassInvInit == Init => PassInv
<1> SUFFICES ASSUME Init  PROVE PassInv
  OBVIOUS
<1>1. /\ frontEnd \in FrontEnds /\ net = frontEnd.net /\ results = frontEnd.results
      /\ pass = "build" /\ pos = Sink
  BY DEF Init
<1>2. Foldable(net) /\ net.outs = 0 /\ results \in Seq(Live(net))
  BY <1>1, PassesAssumption
<1>3. Live(net) \in SUBSET LiveTerminals(net)
  BY DEF LiveTerminals
<1>4. results \in Seq(LiveTerminals(net))
  BY <1>2, <1>3
<1> QED  BY <1>1, <1>2, <1>4 DEF PassInv, PassesWellFormed, FunctionKept, FrontEndRight, Sink

\* A call of the front end returns a terminal of a network with more gates.
LEMMA CallBuilt ==
  ASSUME NEW n, Foldable(n), NEW rs, rs \in Seq(LiveTerminals(n)), NEW b, Returns(n, b)
  PROVE  /\ Foldable(b.net) /\ b.net.outs = n.outs
         /\ Append(rs, b.out) \in Seq(LiveTerminals(b.net))
<1>1. LiveTerminals(n) \in SUBSET LiveTerminals(b.net) /\ b.out \in LiveTerminals(b.net)
  BY DEF Returns, Built, LiveTerminals
<1> DEFINE L == LiveTerminals(b.net)
           o == b.out
<1>2. rs \in Seq(L) /\ o \in L
  BY <1>1
<1> HIDE DEF L, o
<1>3. Append(rs, o) \in Seq(L)
  BY <1>2
<1> QED  BY <1>3 DEF L, o, Returns, Built

\* A call of the front end.
LEMMA BuildStep ==
  ASSUME PassInv, Build, net'.size <= MaxGates
  PROVE  PassInv'
<1>1. /\ pass = "build" /\ Foldable(net) /\ net.outs = 0 /\ results \in Seq(LiveTerminals(net))
      /\ UNCHANGED <<frontEnd, declared, function, lowerMux, pass, pos>>
  BY Zenon DEF PassInv, PassesWellFormed, FrontEndRight, Build, Call
<1>2. ASSUME NEW t \in Operands  PROVE t \in Readable(net)
  <2>1. frontEnd.operands \in SUBSET (Inputs \cup {Low, High})
    BY PassesAssumption DEF PassInv
  <2>2. ToSet(results) \in SUBSET LiveTerminals(net)
    BY <1>1 DEF ToSet
  <2>3. t \in LiveTerminals(net) /\ (t \in Gates => net.kind[t] # "tri")
    BY <1>2, <2>1, <2>2 DEF Operands, LiveTerminals
  <2> QED  BY <2>3 DEF Readable
<1>3. \E b : Returns(net, b) /\ net' = b.net /\ results' = Append(results, b.out)
  <2>1. ASSUME NEW k \in frontEnd.arities, NEW ins \in [1 .. k -> Operands],
               Call("nand", NandOf(net, ins)) \/ Call("nor", NorOf(net, ins))
        PROVE  \E b : Returns(net, b) /\ net' = b.net /\ results' = Append(results, b.out)
    <3>1. k \in Nat
      BY PassesAssumption DEF PassInv
    <3>2. ins \in Seq(Readable(net))
      BY <1>2, <3>1
    <3>3. PICK kind \in {"nand", "nor"} :
             /\ net' = NewGate(net, kind, ins).net
             /\ results' = Append(results, NewGate(net, kind, ins).out)
      BY <2>1 DEF Call, NandOf, NorOf
    <3>4. Built(net, NewGate(net, kind, ins).net) /\ NewGate(net, kind, ins).out \in Live(NewGate(net, kind, ins).net)
      BY <1>1, <3>2, <3>3, DualBuilt
    <3> QED  BY <3>3, <3>4 DEF Returns, LiveTerminals
  <2>2. ASSUME NEW a \in Operands, Call("not", NotOf(net, a))
        PROVE  \E b : Returns(net, b) /\ net' = b.net /\ results' = Append(results, b.out)
    <3>1. net' = NotOf(net, a).net /\ results' = Append(results, NotOf(net, a).out)
      BY <2>2 DEF Call
    <3> QED  BY <1>1, <1>2, <3>1, NotReturns
  <2>3. ASSUME NEW a \in Operands, NEW b \in Operands,
               Call("xor", XorOf(net, a, b)) \/ Call("tri", TriStateOf(net, a, b))
        PROVE  \E c : Returns(net, c) /\ net' = c.net /\ results' = Append(results, c.out)
    <3>1. a \in Readable(net) /\ b \in Readable(net)
      BY <1>2
    <3>2. CASE Call("xor", XorOf(net, a, b))
      <4>1. net' = XorOf(net, a, b).net /\ results' = Append(results, XorOf(net, a, b).out)
        BY <3>2 DEF Call
      <4> QED  BY <1>1, <3>1, <4>1, XorReturns
    <3>3. CASE Call("tri", TriStateOf(net, a, b))
      <4>1. net' = TriStateOf(net, a, b).net /\ results' = Append(results, TriStateOf(net, a, b).out)
        BY <3>3 DEF Call
      <4> QED  BY <1>1, <3>1, <4>1, MuxTriReturns
    <3> QED  BY <2>3, <3>2, <3>3
  <2>4. ASSUME NEW a \in Operands, NEW b \in Operands, NEW c \in Operands,
               Call("mux", MuxOf(net, a, b, c)) \/ Call("latch", SrLatch(net, a, b, c))
        PROVE  \E d : Returns(net, d) /\ net' = d.net /\ results' = Append(results, d.out)
    <3>1. a \in Readable(net) /\ b \in Readable(net) /\ c \in Readable(net)
      BY <1>2
    <3>2. CASE Call("mux", MuxOf(net, a, b, c))
      <4>1. net' = MuxOf(net, a, b, c).net /\ results' = Append(results, MuxOf(net, a, b, c).out)
        BY <3>2 DEF Call
      <4> QED  BY <1>1, <3>1, <4>1, MuxTriReturns
    <3>3. CASE Call("latch", SrLatch(net, a, b, c))
      <4>1. net' = SrLatch(net, a, b, c).net /\ results' = Append(results, SrLatch(net, a, b, c).out)
        BY <3>3 DEF Call
      <4> QED  BY <1>1, <3>1, <4>1, LatchReturns
    <3> QED  BY <2>4, <3>2, <3>3
  <2> QED  BY <2>1, <2>2, <2>3, <2>4 DEF Build
<1>4. /\ Foldable(net') /\ net'.outs = 0 /\ results' \in Seq(LiveTerminals(net'))
  BY <1>1, <1>3, CallBuilt
<1> QED  BY <1>1, <1>4 DEF PassInv, PassesWellFormed, FunctionKept, FrontEndRight

\* The declaration of the outputs.
LEMMA FinishStep ==
  ASSUME PassInv, Finish
  PROVE  PassInv'
<1>1. /\ pass = "build" /\ Foldable(net) /\ net.outs = 0 /\ results \in Seq(LiveTerminals(net))
      /\ frontEnd' = frontEnd
  BY Zenon DEF PassInv, PassesWellFormed, FrontEndRight, Finish
<1>2. PICK outs \in SUBSET Candidates : /\ Cardinality(outs) <= MaxOutputs
                                        /\ net' = AllOutputs(net, SetToSeq(outs))
  BY Zenon DEF Finish, AllOutputs
<1>3. ToSet(results) \in SUBSET LiveTerminals(net) /\ IsFiniteSet(ToSet(results))
  <2>1. IsFiniteSet(1 .. Len(results)) /\ DOMAIN results = 1 .. Len(results)
    BY <1>1, FS_Interval
  <2>2. results \in Surjection(1 .. Len(results), ToSet(results))
    BY <1>1, <2>1 DEF Surjection, ToSet
  <2>3. IsFiniteSet(ToSet(results))
    BY <2>1, <2>2, FS_Surjection
  <2> QED  BY <1>1, <2>3 DEF ToSet
<1>4. Candidates \in SUBSET ToSet(results)
  <2>1. \A i \in Len(frontEnd.results) + 1 .. Len(results) : i \in DOMAIN results
    <3>1. Len(frontEnd.results) \in Nat /\ Len(results) \in Nat /\ DOMAIN results = 1 .. Len(results)
      BY <1>1, PassesAssumption DEF PassInv
    <3> QED  BY <3>1
  <2> QED  BY <2>1 DEF Candidates, ToSet
<1>5. IsFiniteSet(outs) /\ outs \in SUBSET LiveTerminals(net)
  BY <1>2, <1>3, <1>4, FS_Subset
<1>6. Foldable(net')
  BY <1>1, <1>2, <1>5, OutputsFoldable
<1>7. /\ declared' = {t \in Inputs : net'.uses[t] # {}}
      /\ function' = Function(net', declared')
      /\ lowerMux' \in frontEnd.lowerMuxes
      /\ pass' = "nf" /\ pos' = Sink
  BY Zenon DEF Finish, Enter
<1>8. lowerMux' \in BOOLEAN
  BY <1>7, PassesAssumption DEF PassInv
<1> QED  BY <1>1, <1>6, <1>7, <1>8 DEF PassInv, PassesWellFormed, FunctionKept, FrontEndRight, Sink

\* A step of a walk that keeps what the network does.
LEMMA VisitStep ==
  ASSUME PassInv, NEW walk, walk \notin {"build", "cse"}, NEW g, NEW visited,
         g \in Ahead, Visit(walk, g, visited), Keeps(net, visited.net)
  PROVE  PassInv'
<1>1. /\ pass = walk /\ net' = visited.net /\ pos' = g
      /\ UNCHANGED <<frontEnd, results, declared, lowerMux, function, pass>>
  BY Zenon DEF Visit, settings
<1>2. /\ Foldable(net) /\ Function(net, declared) = function /\ declared \in SUBSET Inputs
      /\ \A t \in Inputs \ declared : net.uses[t] = {}
  BY <1>1 DEF PassInv, PassesWellFormed, FunctionKept
<1>3. BitsRead(net) \in SUBSET declared
  BY <1>2, BitsUsed, SoundIsWellFormed DEF Foldable
<1>4. /\ Foldable(net') /\ BitsRead(net') \in SUBSET declared
      /\ Function(net', declared) = function
  BY <1>1, <1>2, <1>3, FunctionKeeps DEF Keeps
<1>5. \A t \in Inputs \ declared : net'.uses[t] = {}
  BY <1>2, <1>4, BitsUsed, SoundIsWellFormed DEF Foldable
<1>6. g \in Nat
  BY LiveFacts DEF Ahead, Live, Gates
<1> QED  BY <1>1, <1>2, <1>4, <1>5, <1>6 DEF PassInv, PassesWellFormed, FunctionKept, FrontEndRight

\* A visit of CseGates: the gates it listed were visited before this one.
LEMMA CseStep ==
  ASSUME PassInv, NEW g \in Ahead, VisitCse(g)
  PROVE  PassInv'
<1> DEFINE m == CseGate(net, seen, g).net
<1>1. /\ pass = "cse" /\ net' = m /\ pos' = g
      /\ seen' = SeenAfter(net, seen, g)
      /\ UNCHANGED <<frontEnd, results, declared, lowerMux, function, pass>>
  BY Zenon DEF VisitCse, Visit, settings, SeenAfter
<1>2. /\ Foldable(net) /\ Function(net, declared) = function /\ declared \in SUBSET Inputs
      /\ (\A t \in Inputs \ declared : net.uses[t] = {})
      /\ Current(net, seen) /\ (\A s \in seen : s[2] <= pos)
  BY <1>1 DEF PassInv, PassesWellFormed, FunctionKept
<1>3. BitsRead(net) \in SUBSET declared
  BY <1>2, BitsUsed, SoundIsWellFormed DEF Foldable
<1>4. g \in Live(net) /\ g \in Nat /\ pos \in Nat /\ g > pos
  BY DEF Ahead, Live, Gates, PassInv
<1>5. \A s \in seen : s[2] # g /\ s[2] <= g
  <2> SUFFICES ASSUME NEW s \in seen  PROVE s[2] # g /\ s[2] <= g
    OBVIOUS
  <2>1. s[2] \in Nat /\ s[2] <= pos
    BY <1>2 DEF Current, Live, Gates
  <2> QED  BY <1>4, <2>1
<1>6. Keeps(net, m) /\ Current(m, SeenAfter(net, seen, g))
  BY <1>2, <1>4, <1>5, CseKeepsBehaviour
<1> HIDE DEF m
<1>7. /\ Foldable(net') /\ BitsRead(net') \in SUBSET declared
      /\ Function(net', declared) = function
  BY <1>1, <1>2, <1>3, <1>6, FunctionKeeps DEF Keeps
<1>8. \A t \in Inputs \ declared : net'.uses[t] = {}
  BY <1>2, <1>7, BitsUsed, SoundIsWellFormed DEF Foldable
<1>9. \A s \in seen' : s[2] <= g
  <2>1. seen' = seen \/ seen' = seen \cup {<<Key(net, g), g>>}
    BY <1>1 DEF SeenAfter
  <2> QED  BY <1>4, <1>5, <2>1
<1> QED  BY <1>1, <1>2, <1>4, <1>6, <1>7, <1>8, <1>9 DEF PassInv, PassesWellFormed, FunctionKept, FrontEndRight

\* A step to another walk, or to its end.
LEMMA EnterStep ==
  ASSUME PassInv, NEW walk, walk # "build", pass # "build", Enter(walk, net),
         UNCHANGED <<settings, net>>
  PROVE  PassInv'
<1>1. pass' = walk /\ pos' = Sink /\ seen' = {}
  BY Zenon DEF Enter
<1>2. UNCHANGED <<frontEnd, results, declared, lowerMux, function, net>>
  BY Zenon DEF settings
<1> QED  BY <1>1, <1>2 DEF PassInv, PassesWellFormed, FunctionKept, FrontEndRight, Current, Sink

\* A step that works through a list.
LEMMA ListStep ==
  ASSUME PassInv, VisitNormalForm \/ VisitMerge, ListsKeep
  PROVE  PassInv'
<1>1. /\ pass \in {"nf", "merge"}
      /\ UNCHANGED <<settings, pass, pos>>
  BY Zenon DEF VisitNormalForm, VisitMerge, Rewrite
<1>2. PassesWellFormed' /\ FunctionKept'
  BY Zenon DEF PassInv, ListsKeep
<1>3. UNCHANGED <<frontEnd, results, declared, lowerMux, function>>
  BY <1>1 DEF settings
<1> QED  BY <1>1, <1>2, <1>3 DEF PassInv, FrontEndRight

\* A call of FactorGates.
LEMMA FactorStep ==
  ASSUME PassInv, VisitFactor, net'.size <= MaxGates
  PROVE  PassInv'
<1>1. /\ pass = "factor" /\ net' \in FactorGates(net) /\ pos' = pos
      /\ UNCHANGED <<frontEnd, results, declared, lowerMux, function, pass>>
  BY Zenon DEF VisitFactor, settings
<1>2. /\ Foldable(net) /\ Function(net, declared) = function /\ declared \in SUBSET Inputs
      /\ \A t \in Inputs \ declared : net.uses[t] = {}
  BY <1>1 DEF PassInv, PassesWellFormed, FunctionKept
<1>3. BitsRead(net) \in SUBSET declared
  BY <1>2, BitsUsed, SoundIsWellFormed DEF Foldable
<1>4. Keeps(net, net')
  BY <1>1, <1>2, FactorGatesKeeps
<1>5. /\ Foldable(net') /\ BitsRead(net') \in SUBSET declared
      /\ Function(net', declared) = function
  BY <1>2, <1>3, <1>4, FunctionKeeps DEF Keeps
<1>6. \A t \in Inputs \ declared : net'.uses[t] = {}
  BY <1>2, <1>5, BitsUsed, SoundIsWellFormed DEF Foldable
<1> QED  BY <1>1, <1>2, <1>5, <1>6 DEF PassInv, PassesWellFormed, FunctionKept, FrontEndRight

\* A step of the passes.
LEMMA PassStep ==
  ASSUME PassInv, Pass, net'.size <= MaxGates, ListsKeep
  PROVE  PassInv'
<1>1. ASSUME NEW g \in Ahead, VisitCanonicalize(g)  PROVE PassInv'
  <2>1. Foldable(net) /\ g \in Live(net)
    BY <1>1 DEF Ahead, PassInv, PassesWellFormed
  <2>2. Keeps(net, CanonicalizeGate(net, g).net)
    BY <2>1, CanonicalizeKeepsBehaviour DEF CanonicalizeGate
  <2> QED  BY <1>1, <2>2, VisitStep DEF VisitCanonicalize
<1>2. ASSUME NEW g \in Ahead, VisitFold(g)  PROVE PassInv'
  <2> DEFINE lower == lowerMux /\ ~ fpga
  <2>1. /\ Foldable(net) /\ g \in Live(net) /\ ~ FoldRefuses(net, g)
        /\ net' = FoldGate(net, g, lower).net
    BY <1>2 DEF Ahead, PassInv, PassesWellFormed, VisitFold, Visit
  <2>2. lower \in BOOLEAN
    OBVIOUS
  <2> HIDE DEF lower
  <2>3. Keeps(net, FoldGate(net, g, lower).net)
    BY <2>1, <2>2, FoldKeepsBehaviour
  <2> QED  BY <1>2, <2>3, VisitStep DEF VisitFold, lower
<1>3. ASSUME NEW g \in Ahead, VisitCse(g)  PROVE PassInv'
  BY <1>3, CseStep
<1>4. ASSUME NEW g \in Ahead, VisitWiden(g)  PROVE PassInv'
  <2>1. Foldable(net) /\ g \in Live(net) /\ net' = WidenGate(net, g).net
    BY <1>4 DEF Ahead, PassInv, PassesWellFormed, VisitWiden, Visit
  <2>2. Keeps(net, WidenGate(net, g).net)
    BY <2>1, WidenKeepsBehaviour
  <2> QED  BY <1>4, <2>2, VisitStep DEF VisitWiden
<1>5. ASSUME NEW g \in Ahead, VisitSplit(g)  PROVE PassInv'
  <2>1. Foldable(net) /\ g \in Live(net) /\ net' = SplitGate(net, g).net
    BY <1>5 DEF Ahead, PassInv, PassesWellFormed, VisitSplit, Visit
  <2>2. Arity(net.kind[g]) \in Nat \ {0}
    BY PassesAssumption DEF Arity, PassInv
  <2>3. Keeps(net, SplitGate(net, g).net)
    BY <2>1, <2>2, SplitKeepsBehaviour
  <2> QED  BY <1>5, <2>3, VisitStep DEF VisitSplit
<1>6. CASE VisitNormalForm \/ VisitMerge
  BY <1>6, ListStep
<1>7. CASE VisitFactor
  BY <1>7, FactorStep
<1>8. CASE Again \/ FromNormalForms \/ FromFactor \/ FromCanonicalize \/ FromCse
             \/ FromFold \/ FromMerge \/ FromWiden \/ FromSplit \/ Fail
  <2>1. pass # "build" /\ UNCHANGED <<settings, net>>
    BY Zenon, <1>8 DEF Again, FromNormalForms, FromFactor, FromCanonicalize, FromCse, FromFold,
                FromMerge, FromWiden, FromSplit, Fail, Refused, Walked
  <2>2. \E walk : walk # "build" /\ Enter(walk, net)
    <3>1. CASE Again
      BY <2>1, <3>1 DEF Again
    <3>2. CASE FromNormalForms \/ FromFactor \/ FromCanonicalize \/ FromWiden \/ FromSplit \/ Fail
      BY <3>2 DEF FromNormalForms, FromFactor, FromCanonicalize, FromWiden, FromSplit, Fail
    <3>3. CASE FromCse
      <4> DEFINE walk == CASE subChanged                            -> "nf"
                           [] ~ subChanged /\ fpga /\ ~ roundChanged -> "done"
                           [] OTHER                                 -> "fold"
      <4>1. Enter(walk, net)
        BY Zenon, <3>3 DEF FromCse
      <4>2. walk \in {"nf", "done", "fold"}
        OBVIOUS
      <4> QED  BY <4>1, <4>2
    <3>4. CASE FromFold
      <4>1. Enter(IF fpga THEN "split" ELSE "merge", net)
        BY Zenon, <3>4 DEF FromFold
      <4> QED  BY <4>1
    <3>5. CASE FromMerge
      <4>1. Enter(IF roundChanged \/ changed THEN "nf" ELSE "widen", net)
        BY Zenon, <3>5 DEF FromMerge
      <4> QED  BY <4>1
    <3> QED  BY Zenon, <1>8, <3>1, <3>2, <3>3, <3>4, <3>5
  <2>3. PICK walk : walk # "build" /\ Enter(walk, net)
    BY <2>2
  <2> QED  BY <2>1, <2>3, EnterStep
<1> QED  BY Zenon, <1>1, <1>2, <1>3, <1>4, <1>5, <1>6, <1>7, <1>8 DEF Pass

\* As long as the network has room, and the rewrites of OptimizeNF and MergeGates do as
\* they should, every walk keeps the network well formed and what it does as it was.
THEOREM PassesKeepTheFunction ==
  Spec /\ [](net.size <= MaxGates) /\ [][ListsKeep]_vars => [](PassesWellFormed /\ FunctionKept)
<1>1. Init => PassInv
  BY PassInvInit
<1>2. PassInv /\ [Next]_vars /\ (net.size <= MaxGates)' /\ [ListsKeep]_vars => PassInv'
  <2> SUFFICES ASSUME PassInv, [Next]_vars, net'.size <= MaxGates, [ListsKeep]_vars
               PROVE  PassInv'
    OBVIOUS
  <2>1. CASE UNCHANGED vars
    BY <2>1 DEF vars, settings, PassInv, PassesWellFormed, FunctionKept, FrontEndRight
  <2>2. CASE Next /\ ListsKeep
    <3>1. CASE Done
      BY <3>1 DEF Done, vars, settings, PassInv, PassesWellFormed, FunctionKept, FrontEndRight
    <3> QED  BY Zenon, <2>2, <3>1, BuildStep, FinishStep, PassStep DEF Next
  <2> QED  BY Zenon, <2>1, <2>2
<1>3. PassInv => PassesWellFormed /\ FunctionKept
  BY DEF PassInv
<1> QED  BY <1>1, <1>2, <1>3, PTL DEF Spec

----------------------------------------------------------------------------
(* What the loops of LowerFpgaGates end with.                               *)

\* FoldGates has nothing to do at g.
Fixed(n, g) == Canonicalize(n, g) = n /\ ~ Fold(n, g, FALSE).changed

\* A list that loses nothing keeps all its positions.
LEMMA CompactAll ==
  ASSUME NEW S, NEW s \in Seq(S), NEW K \in SUBSET DOMAIN s, Compact(s, K) = s
  PROVE  K = DOMAIN s
<1>1. Len(s) \in Nat /\ DOMAIN s = 1 .. Len(s)
  OBVIOUS
<1>2. IsFiniteSet(DOMAIN s) /\ Cardinality(DOMAIN s) = Len(s)
  <2> DEFINE l == Len(s)
  <2>1. l \in Nat /\ DOMAIN s = 1 .. l
    BY <1>1
  <2> HIDE DEF l
  <2>2. IsFiniteSet(1 .. l) /\ Cardinality(1 .. l) = IF 1 > l THEN 0 ELSE l - 1 + 1
    BY <2>1, FS_Interval
  <2>3. Cardinality(1 .. l) = l
    BY <2>1, <2>2
  <2> QED  BY <2>1, <2>2, <2>3 DEF l
<1>3. Cardinality(K) \in Nat
  BY <1>2, FS_Subset, FS_CardinalityType
<1>4. DOMAIN Compact(s, K) = 1 .. Cardinality(K)
  BY DEF Compact
<1>5. Cardinality(K) = Len(s)
  <2> DEFINE k == Cardinality(K)
             l == Len(s)
  <2>1. k \in Nat /\ l \in Nat /\ 1 .. k = 1 .. l
    BY <1>1, <1>3, <1>4
  <2> HIDE DEF k, l
  <2>2. \A x \in Nat : x \in 1 .. k <=> x \in 1 .. l
    BY <2>1
  <2>3. k <= l /\ l <= k
    BY <2>1, <2>2
  <2>4. k = l
    BY <2>1, <2>3
  <2> QED  BY <2>4 DEF k, l
<1> QED  BY <1>2, <1>5, FS_Subset

\* Canonicalize has nothing to do.
LEMMA CanonicalFixed ==
  ASSUME NEW n, Foldable(n), NEW g \in Live(n), Canonicalize(n, g) = n
  PROVE  /\ ~ HasNoUse(n, g)
         /\ n.kind[g] \in {"nand", "nor"} =>
              Len(n.ins[g]) # 1 /\ Neutral(n.kind[g]) \notin InputsOf(n, g)
         /\ n.kind[g] = "lookup" =>
              \A i \in 1 .. LogicalEnd(n, g) : n.ins[g][i] \notin {Low, High}
<1> DEFINE a == DropNeutral(n, g)
           b == OneInputIsNot(a, g)
           c == FoldTable(b, g)
<1>1. Sound(n) /\ n.kind[g] # "dead"
  BY SoundIsWellFormed DEF Foldable, Live
<1>2. Sound(a) /\ Live(a) = Live(n) /\ a.kind = n.kind
  BY <1>1, DropNeutralSound
<1>3. Canonicalize(n, g) = IF HasNoUse(c, g) THEN Erase(c, g) ELSE c
  BY DEF Canonicalize
<1>4. Sound(c) /\ Live(c) = Live(n)
  <2> HIDE DEF a
  <2>1. Sound(b) /\ Live(b) = Live(n)
    BY <1>2, OneInputIsNotSound
  <2> HIDE DEF b
  <2> QED  BY <2>1, FoldTableSound
<1>5. c = n /\ ~ HasNoUse(n, g)
  <2>1. CASE HasNoUse(c, g)
    <3> HIDE DEF c
    <3>1. Live(Erase(c, g)) = Live(c) \ {g}
      BY <1>4, <2>1, EraseFields DEF HasNoUse
    <3> QED  BY <1>3, <1>4, <2>1, <3>1
  <2>2. CASE ~ HasNoUse(c, g)
    BY <1>3, <2>2, Zenon
  <2> QED  BY <2>1, <2>2
<1>6. /\ n.ins[g] \in Seq(LiveTerminals(n)) /\ DOMAIN n.ins[g] = 1 .. Len(n.ins[g])
      /\ Len(n.ins[g]) \in Nat /\ g \in Gates
  BY <1>1, LiveInputs
<1>7. ASSUME NEW t, Compact(n.ins[g], KeptInputs(n, g, t)) = n.ins[g]
      PROVE  Matches(n, g, t) \cap DOMAIN n.ins[g] = {}
  <2> DEFINE K == KeptInputs(n, g, t)
  <2>1. K \in SUBSET DOMAIN n.ins[g] /\ K \cap Matches(n, g, t) = {}
    BY <1>6 DEF KeptInputs
  <2> HIDE DEF K
  <2>2. K = DOMAIN n.ins[g]
    BY <1>6, <1>7, <2>1, CompactAll DEF K
  <2> QED  BY <2>1, <2>2
<1>8. ASSUME n.kind[g] \in {"nand", "nor"}
      PROVE  Len(n.ins[g]) # 1 /\ Neutral(n.kind[g]) \notin InputsOf(n, g)
  <2> DEFINE t == Neutral(n.kind[g])
  <2>1. a = EraseInputs(n, g, t)
    BY <1>8 DEF DropNeutral, Neutral
  <2>2. g \in Gates /\ "kind" \in DOMAIN a /\ g \in DOMAIN a.kind
    BY <1>2, <1>6, NetFields DEF Sound, IsNet
  <2>3. ~ (a.kind[g] \in {"nand", "nor"} /\ Len(a.ins[g]) = 1)
    <3> SUFFICES ASSUME a.kind[g] \in {"nand", "nor"}, Len(a.ins[g]) = 1  PROVE FALSE
      OBVIOUS
    <3> HIDE DEF a
    <3>1. b.kind[g] = "not"
      BY <2>2 DEF OneInputIsNot
    <3> HIDE DEF b
    <3>2. c = b
      BY <3>1 DEF FoldTable
    <3> QED  BY <1>5, <1>8, <3>1, <3>2
  <2>4. b = a
    BY <2>3 DEF OneInputIsNot
  <2>5. c = a
    <3> HIDE DEF a
    <3>1. a.kind[g] # "lookup"
      BY <1>2, <1>8
    <3>2. FoldTable(a, g) = a
      BY <3>1 DEF FoldTable
    <3> HIDE DEF b
    <3> QED  BY <2>4, <3>2
  <2>6. a = n
    BY <1>5, <2>5
  <2>7. a.ins[g] = Compact(n.ins[g], KeptInputs(n, g, t))
    BY <1>1, <2>1, EraseInputsFields
  <2>8. Matches(n, g, t) \cap DOMAIN n.ins[g] = {}
    <3> HIDE DEF a, t
    <3> QED  BY <1>7, <2>6, <2>7
  <2>9. t \notin InputsOf(n, g)
    BY <1>6, <1>8, <2>8 DEF Matches, LogicalEnd, InputsOf
  <2>10. Len(n.ins[g]) # 1
    BY <1>8, <2>3, <2>6
  <2> QED  BY <2>9, <2>10
<1>9. ASSUME n.kind[g] = "lookup", NEW i \in 1 .. LogicalEnd(n, g)
      PROVE  n.ins[g][i] \notin {Low, High}
  <2>1. a = n
    BY <1>9 DEF DropNeutral
  <2>2. b = n
    <3> HIDE DEF a
    <3> QED  BY <1>9, <2>1 DEF OneInputIsNot
  <2>3. FoldTable(n, g) = n
    <3> HIDE DEF b
    <3> QED  BY <1>5, <2>2
  <2>4. LogicalEnd(n, g) \in Nat /\ LogicalEnd(n, g) <= Len(n.ins[g])
    <3>1. LogicalEnd(n, g) = Len(n.ins[g]) \div 2
      BY <1>9 DEF LogicalEnd
    <3>2. \A l \in Nat : l \div 2 \in Nat /\ l \div 2 <= l
      OBVIOUS
    <3> QED  BY <1>6, <3>1, <3>2
  <2>5. i \in DOMAIN n.ins[g]
    BY <1>6, <2>4
  <2>6. ASSUME NEW t, NEW v, TableWithout(n, g, t, v) = n  PROVE n.ins[g][i] # t
    <3>1. Compact(n.ins[g], KeptInputs(n, g, t)) = n.ins[g]
      BY <1>1, <2>6, TableWithoutFields
    <3>2. Matches(n, g, t) \cap DOMAIN n.ins[g] = {}
      BY <1>7, <3>1
    <3> QED  BY <2>5, <3>2 DEF Matches
  <2>7. n.ins[g][i] # High
    <3>1. CASE Matches(n, g, High) # {}
      <4>1. FoldTable(n, g) = TableWithout(n, g, High, 1)
        BY <1>9, <3>1, Zenon DEF FoldTable, TableWithout
      <4> QED  BY <2>3, <2>6, <4>1
    <3>2. CASE Matches(n, g, High) = {}
      BY <3>2 DEF Matches
    <3> QED  BY <3>1, <3>2
  <2>8. n.ins[g][i] # Low
    <3>1. CASE Matches(n, g, Low) # {}
      <4>1. Matches(n, g, High) = {}
        <5>1. CASE Matches(n, g, High) # {}
          <6>1. FoldTable(n, g) = TableWithout(n, g, High, 1)
            BY <1>9, <5>1, Zenon DEF FoldTable, TableWithout
          <6>2. Compact(n.ins[g], KeptInputs(n, g, High)) = n.ins[g]
            BY <1>1, <2>3, <6>1, TableWithoutFields
          <6>3. Matches(n, g, High) \cap DOMAIN n.ins[g] = {}
            BY <1>7, <6>2
          <6> QED  BY <1>6, <2>4, <6>3 DEF Matches
        <5> QED  BY <5>1
      <4>2. FoldTable(n, g) = TableWithout(n, g, Low, 0)
        BY <1>9, <3>1, <4>1, Zenon DEF FoldTable, TableWithout
      <4> QED  BY <2>3, <2>6, <4>2
    <3>2. CASE Matches(n, g, Low) = {}
      BY <3>2 DEF Matches
    <3> QED  BY <3>1, <3>2
  <2> QED  BY <2>7, <2>8
<1> QED  BY <1>5, <1>8, <1>9

\* A rewrite reports a change.
LEMMA RewrittenChanges == \A n, g, r : Rewritten(n, g, r).changed
BY DEF Rewritten

\* A NOT that FoldGates leaves as it is.
LEMMA NotFixed ==
  ASSUME NEW n, NEW g, ~ FoldNot(n, g).changed
  PROVE  /\ SkipNot(n, g, 1) = Null /\ n.ins[g][1] \notin {Low, High}
         /\ FoldNot(n, g) = Unchanged(n)
<1>1. Low # High /\ Low \notin Gates /\ High \notin Gates
  BY TerminalsApart
<1>2. SkipNot(n, g, 1) = Null
  <2>1. CASE SkipNot(n, g, 1) # Null
    <3>1. n.ins[g][1] # Low /\ n.ins[g][1] # High
      BY <1>1, <2>1 DEF SkipNot
    <3>2. FoldNot(n, g) = Rewritten(n, g, SkipNot(n, g, 1))
      BY <2>1, <3>1 DEF FoldNot
    <3> QED  BY <3>2, RewrittenChanges
  <2> QED  BY <2>1
<1>3. n.ins[g][1] # Low
  <2>1. CASE n.ins[g][1] = Low
    <3>1. FoldNot(n, g) = Rewritten(n, g, High)
      BY <1>1, <1>2, <2>1 DEF FoldNot
    <3> QED  BY <3>1, RewrittenChanges
  <2> QED  BY <2>1
<1>4. n.ins[g][1] # High
  <2>1. CASE n.ins[g][1] = High
    <3>1. FoldNot(n, g) = Rewritten(n, g, Low)
      BY <1>1, <1>2, <2>1 DEF FoldNot
    <3> QED  BY <3>1, RewrittenChanges
  <2> QED  BY <2>1
<1> QED  BY <1>2, <1>3, <1>4 DEF FoldNot

\* FoldGates has nothing to do anywhere.
LEMMA FixedShape ==
  ASSUME NEW n, Foldable(n), \A g \in Live(n) : Fixed(n, g), NEW g \in Live(n)
  PROVE  /\ ~ HasNoUse(n, g)
         /\ n.kind[g] = "not" =>
              /\ n.ins[g][1] \notin {Low, High}
              /\ ~ (n.ins[g][1] \in Gates /\ n.kind[n.ins[g][1]] = "not")
         /\ n.kind[g] = "lookup" => {Low, High} \cap InputsOf(n, g) = {}
         /\ n.kind[g] \in {"nand", "nor"} =>
              /\ Len(n.ins[g]) >= 2 /\ Neutral(n.kind[g]) \notin InputsOf(n, g)
              /\ Len(n.ins[g]) = 2 =>
                   /\ {Low, High} \cap InputsOf(n, g) = {}
                   /\ \E t \in InputsOf(n, g) : ~ (t \in Gates /\ n.kind[t] = "not")
<1>1. /\ Sound(n) /\ WellShaped(n) /\ Paired(n) /\ TablesFit(n)
      /\ \A h \in Live(n) : Canonicalize(n, h) = n /\ ~ Fold(n, h, FALSE).changed
  BY SoundIsWellFormed DEF Foldable, Fixed
<1>2. \A h \in Gates : n.kind[h] = "not" =>
        h \in Live(n) /\ 1 \in DOMAIN n.ins[h] /\ n.ins[h][1] # Null
  <2> SUFFICES ASSUME NEW h \in Gates, n.kind[h] = "not"
               PROVE  h \in Live(n) /\ 1 \in DOMAIN n.ins[h] /\ n.ins[h][1] # Null
    OBVIOUS
  <2>1. IsNotOf(n, h, n.ins[h][1])
    BY DEF IsNotOf
  <2>2. h \in Live(n) /\ 1 \in DOMAIN n.ins[h] /\ n.ins[h][1] \in LiveTerminals(n)
    BY <1>1, <2>1, NotHasInput
  <2> QED  BY <1>1, <2>2, NullIsNoTerminal, LiveFacts DEF Sound
<1>3. ~ HasNoUse(n, g)
  BY <1>1, CanonicalFixed
<1>4. ASSUME NEW h \in Live(n), n.kind[h] = "not"
      PROVE  /\ n.ins[h][1] \notin {Low, High}
             /\ ~ (n.ins[h][1] \in Gates /\ n.kind[n.ins[h][1]] = "not")
  <2>1. ~ FoldNot(n, h).changed
    BY <1>1, <1>4 DEF Fold
  <2>2. SkipNot(n, h, 1) = Null /\ n.ins[h][1] \notin {Low, High}
    BY <2>1, NotFixed
  <2> QED  BY <1>2, <2>2 DEF SkipNot
<1>5. ASSUME n.kind[g] = "lookup"  PROVE {Low, High} \cap InputsOf(n, g) = {}
  <2> SUFFICES ASSUME NEW i \in DOMAIN n.ins[g]  PROVE n.ins[g][i] \notin {Low, High}
    BY DEF InputsOf
  <2> DEFINE l == LogicalEnd(n, g)
  <2>1. \A j \in 1 .. l : n.ins[g][j] \notin {Low, High}
    BY <1>1, <1>5, CanonicalFixed
  <2>2. DOMAIN n.ins[g] = 1 .. Len(n.ins[g]) /\ l = Len(n.ins[g]) \div 2
    BY <1>1, <1>5, LiveInputs DEF LogicalEnd
  <2>3. Len(n.ins[g]) \in {0, 2, 4}
    BY <1>1, <1>5 DEF TablesFit, TableShape
  <2>4. l \in Nat /\ Len(n.ins[g]) = l + l
    <3> DEFINE k == Len(n.ins[g])
    <3>1. k \in {0, 2, 4} /\ l = k \div 2
      BY <2>2, <2>3
    <3> HIDE DEF k, l
    <3>2. k \div 2 \in Nat /\ k = k \div 2 + k \div 2
      BY <3>1
    <3> QED  BY <3>1, <3>2 DEF k
  <2> HIDE DEF l
  <2>5. CASE i <= l
    <3>1. i \in 1 .. l + l
      BY <2>2, <2>4
    <3>2. i \in 1 .. l
      BY <2>4, <2>5, <3>1
    <3> QED  BY <2>1, <3>2
  <2>6. CASE ~ (i <= l)
    <3> DEFINE j == i - l
    <3>1. j \in 1 .. l /\ i = j + l
      <4>1. i \in 1 .. l + l
        BY <2>2, <2>4
      <4> QED  BY <2>4, <2>6, <4>1
    <3>2. <<j, i>> \in PairsOf(n, g)
      BY <1>5, <3>1 DEF PairsOf, l
    <3>3. Opposite(n, n.ins[g][j], n.ins[g][i])
      BY <1>1, <3>2 DEF Paired
    <3>4. n.ins[g][j] \notin {Low, High}
      BY <2>1, <3>1
    <3> HIDE DEF j
    <3>5. IsNotOf(n, n.ins[g][j], n.ins[g][i]) \/ n.ins[g][i] \in Gates
      BY <3>3, <3>4 DEF Opposite, IsNotOf
    <3>6. CASE n.ins[g][i] \in Gates
      BY <3>6, TerminalsApart
    <3>7. CASE IsNotOf(n, n.ins[g][j], n.ins[g][i])
      BY <1>2, <1>4, <3>7 DEF IsNotOf
    <3> QED  BY <3>5, <3>6, <3>7
  <2> QED  BY <2>5, <2>6
<1>6. ASSUME n.kind[g] \in {"nand", "nor"}
      PROVE  /\ Len(n.ins[g]) >= 2 /\ Neutral(n.kind[g]) \notin InputsOf(n, g)
             /\ Len(n.ins[g]) = 2 =>
                  /\ {Low, High} \cap InputsOf(n, g) = {}
                  /\ \E t \in InputsOf(n, g) : ~ (t \in Gates /\ n.kind[t] = "not")
  <2>1. Len(n.ins[g]) # 1 /\ Neutral(n.kind[g]) \notin InputsOf(n, g)
    BY <1>1, <1>6, CanonicalFixed
  <2>2. ~ FoldDual(n, g).changed
    BY <1>1, <1>6 DEF Fold
  <2>3. Len(n.ins[g]) \in Nat /\ DOMAIN n.ins[g] = 1 .. Len(n.ins[g])
    BY <1>1, LiveInputs
  <2>4. Len(n.ins[g]) # 0
    BY <2>2, RewrittenChanges DEF FoldDual
  <2>5. ASSUME Len(n.ins[g]) = 2
        PROVE  /\ SkipNot(n, g, 1) = Null \/ SkipNot(n, g, 2) = Null
               /\ (IF n.kind[g] = "nor" THEN High ELSE Low) \notin InputsOf(n, g)
    BY <2>2, <2>5, RewrittenChanges DEF FoldDual
  <2>6. ASSUME Len(n.ins[g]) = 2
        PROVE  \E t \in InputsOf(n, g) : ~ (t \in Gates /\ n.kind[t] = "not")
    <3>1. PICK i \in {1, 2} : SkipNot(n, g, i) = Null
      BY <2>5, <2>6
    <3>2. n.ins[g][i] \in InputsOf(n, g)
      BY <2>3, <2>6 DEF InputsOf
    <3>3. ~ (n.ins[g][i] \in Gates /\ n.kind[n.ins[g][i]] = "not")
      BY <1>2, <3>1 DEF SkipNot
    <3> QED  BY <3>2, <3>3
  <2>7. Len(n.ins[g]) >= 2
    <3> DEFINE k == Len(n.ins[g])
    <3>1. k \in Nat /\ k # 0 /\ k # 1
      BY <2>1, <2>3, <2>4
    <3> HIDE DEF k
    <3>2. k >= 2
      BY <3>1
    <3> QED  BY <3>2 DEF k
  <2>8. Len(n.ins[g]) = 2 => {Low, High} \cap InputsOf(n, g) = {}
    <3> HAVE Len(n.ins[g]) = 2
    <3>1. CASE n.kind[g] = "nor"
      BY <2>1, <2>5, <3>1 DEF Neutral
    <3>2. CASE n.kind[g] # "nor"
      BY <2>1, <2>5, <3>2 DEF Neutral
    <3> QED  BY <3>1, <3>2
  <2> QED  BY <2>1, <2>6, <2>7, <2>8
<1> QED  BY <1>3, <1>4, <1>5, <1>6

\* A visit of FoldGates that reports no change makes none, and leaves nothing to do.
LEMMA FoldFixes ==
  ASSUME NEW n, Foldable(n), NEW g \in Live(n), ~ FoldRefuses(n, g),
         ~ FoldGate(n, g, FALSE).changed
  PROVE  FoldGate(n, g, FALSE).net = n /\ Fixed(n, g)
<1>1. Canonicalize(n, g) = n /\ ~ Fold(n, g, FALSE).changed
      /\ FoldGate(n, g, FALSE).net = Fold(n, g, FALSE).net
  BY DEF FoldGate
<1>2. n.kind[g] \in Kinds \ {"dead"}
  BY SoundIsWellFormed, NetFields DEF Foldable, Sound, Live
<1>3. Fold(n, g, FALSE) = Unchanged(n)
  <2>1. CASE n.kind[g] = "not"
    <3>1. Fold(n, g, FALSE) = FoldNot(n, g)
      BY <2>1 DEF Fold
    <3> QED  BY <1>1, <3>1, NotFixed
  <2>2. CASE n.kind[g] = "mux"
    <3>1. Fold(n, g, FALSE) = FoldMux(n, g, FALSE)
      BY <2>2 DEF Fold
    <3>2. CASE n.ins[g][1] = High
      <4>1. FoldMux(n, g, FALSE) = Rewritten(n, g, n.ins[g][3])
        BY <3>2, TerminalsApart DEF FoldMux
      <4> QED  BY <1>1, <3>1, <4>1, RewrittenChanges
    <3>3. CASE n.ins[g][1] = Low
      <4>1. FoldMux(n, g, FALSE) = Rewritten(n, g, n.ins[g][4])
        BY <3>3, TerminalsApart DEF FoldMux
      <4> QED  BY <1>1, <3>1, <4>1, RewrittenChanges
    <3>4. CASE n.ins[g][1] # High /\ n.ins[g][1] # Low
      BY <3>1, <3>4 DEF FoldMux
    <3> QED  BY <3>2, <3>3, <3>4
  <2>3. CASE n.kind[g] = "tri"
    <3>1. Fold(n, g, FALSE) = FoldTri(n, g)
      BY <2>3 DEF Fold
    <3> QED  BY <1>1, <3>1, RewrittenChanges DEF FoldTri
  <2>4. CASE n.kind[g] \in {"nand", "nor"}
    <3>1. Fold(n, g, FALSE) = FoldDual(n, g)
      BY <2>4 DEF Fold
    <3> QED  BY <1>1, <3>1, RewrittenChanges DEF FoldDual
  <2>5. CASE n.kind[g] = "lookup"
    <3>1. Fold(n, g, FALSE) = FoldLookup(n, g)
      BY <2>5 DEF Fold
    <3>2. CASE Len(n.ins[g]) # 2
      BY <3>1, <3>2 DEF FoldLookup
    <3>3. CASE Len(n.ins[g]) = 2
      <4>1. TableShape(n.lut[g], n.ins[g]) /\ n.lut[g] \in Seq(BOOLEAN)
        BY <2>5, SoundIsWellFormed, NetFields, LiveFacts DEF Foldable, Sound, TablesFit
      <4>2. ~ Satisfiable(n.lut[g]) \/ Len(n.lut[g]) = 2
        BY <1>1, <2>5, <3>3, <4>1 DEF FoldRefuses, TableShape
      <4>3. CASE ~ Satisfiable(n.lut[g])
        <5>1. n.lut[g] # <<TRUE, FALSE>> /\ n.lut[g] # <<FALSE, TRUE>> /\ n.lut[g] # <<TRUE, TRUE>>
          <6> DEFINE lut == n.lut[g]
          <6>1. \A r \in DOMAIN lut : ~ lut[r]
            BY <4>3 DEF Satisfiable
          <6> HIDE DEF lut
          <6>2. ASSUME NEW x, lut = <<TRUE, x>>  PROVE FALSE
            <7>1. 1 \in DOMAIN lut /\ lut[1] = TRUE
              BY <6>2
            <7> QED  BY <6>1, <7>1
          <6>3. ASSUME NEW x, lut = <<x, TRUE>>  PROVE FALSE
            <7>1. 2 \in DOMAIN lut /\ lut[2] = TRUE
              BY <6>3
            <7> QED  BY <6>1, <7>1
          <6> QED  BY <6>2, <6>3, Zenon DEF lut
        <5>2. FoldLookup(n, g) = Rewritten(n, g, Low)
          BY <3>3, <4>3, <5>1 DEF FoldLookup
        <5> QED  BY <1>1, <3>1, <5>2, RewrittenChanges
      <4>4. CASE Len(n.lut[g]) = 2 /\ Satisfiable(n.lut[g])
        <5> DEFINE lut == n.lut[g]
        <5>1. lut = <<TRUE, TRUE>> \/ lut = <<TRUE, FALSE>> \/ lut = <<FALSE, TRUE>>
          <6>1. lut = <<lut[1], lut[2]>> /\ lut[1] \in BOOLEAN /\ lut[2] \in BOOLEAN
            BY <4>1, <4>4
          <6>2. lut[1] \/ lut[2]
            BY <4>1, <4>4 DEF Satisfiable
          <6> QED  BY <6>1, <6>2
        <5> HIDE DEF lut
        <5>2. FoldLookup(n, g).changed
          <6>1. CASE lut = <<TRUE, TRUE>>
            <7>1. lut # <<TRUE, FALSE>> /\ lut # <<FALSE, TRUE>>
              BY <6>1
            <7> QED  BY <3>3, <4>4, <6>1, <7>1, RewrittenChanges DEF FoldLookup, lut
          <6>2. CASE lut = <<TRUE, FALSE>>
            <7>1. lut # <<TRUE, TRUE>> /\ lut # <<FALSE, TRUE>>
              BY <6>2
            <7> QED  BY <3>3, <4>4, <6>2, <7>1, RewrittenChanges DEF FoldLookup, lut
          <6>3. CASE lut = <<FALSE, TRUE>>
            <7>1. lut # <<TRUE, TRUE>> /\ lut # <<TRUE, FALSE>>
              BY <6>3
            <7> QED  BY <3>3, <4>4, <6>3, <7>1, RewrittenChanges DEF FoldLookup, lut
          <6> QED  BY <5>1, <6>1, <6>2, <6>3
        <5> QED  BY <1>1, <3>1, <5>2
      <4> QED  BY <4>2, <4>3, <4>4
    <3> QED  BY <3>2, <3>3
  <2> QED  BY <1>2, <2>1, <2>2, <2>3, <2>4, <2>5 DEF Kinds
<1>4. FoldGate(n, g, FALSE).net = n
  <2>1. Unchanged(n).net = n
    BY DEF Unchanged
  <2> QED  BY <1>1, <1>3, <2>1, Zenon
<1> QED  BY <1>1, <1>4 DEF Fixed

----------------------------------------------------------------------------
(* The walks of LowerFpgaGates.                                             *)

\* The gates a walk has passed.
Visited == {g \in Live(net) : g <= pos}

\* The gate is no wider than the target's.
Fits(g) == net.kind[g] \in {"nand", "nor"} => ~ (Len(net.ins[g]) > Arity(net.kind[g]))

\* CseGates has listed each gate it has passed, and no two under one key.
Listing ==
  /\ \A g \in Visited : <<Key(net, g), g>> \in seen
  /\ \A g, h \in Visited : Key(net, g) = Key(net, h) => g = h

AllFixed == \A g \in Live(net) : Fixed(net, g)
AllFit == \A g \in Live(net) : Fits(g)
AllDiffer == \A g, h \in Live(net) : Key(net, g) = Key(net, h) => g = h

\* A walk that has changed nothing so far would change nothing at the gates it has
\* passed, and neither would the walks before it in the round.
RoundInv ==
  /\ frontEnd \in FrontEnds /\ pos \in Nat
  /\ fpga => pass \in {"widen", "fold", "split", "cse", "done", "failed"}
  /\ fpga \/ pass \in {"fold", "merge"} => ~ subChanged
  /\ pass \in {"widen", "split", "done"} => fpga
  /\ fpga /\ pass = "fold" /\ ~ changed => \A g \in Visited : Fixed(net, g)
  /\ pass = "split" /\ ~ changed => AllFixed /\ \A g \in Visited : Fits(g)
  /\ fpga /\ pass = "cse" /\ ~ changed /\ ~ roundChanged => AllFixed /\ AllFit /\ Listing
  /\ pass = "done" => AllFixed /\ AllFit /\ AllDiffer

\* A step passes one gate.
LEMMA OneMore ==
  ASSUME pos \in Nat, NEW g \in Ahead, Reached(g)
  PROVE  /\ g \in Nat /\ g \in Live(net)
         /\ \A h \in Live(net) : h <= g => h \in Visited \/ h = g
<1>1. g \in Nat /\ g \in Live(net) /\ Live(net) \in SUBSET Nat
  BY DEF Ahead, Live, Gates
<1>2. ASSUME NEW h \in Live(net), h <= g, h # g  PROVE h \in Visited
  <2>1. h \in Nat
    BY <1>1
  <2>2. ~ (h > pos)
    BY <1>1, <1>2, <2>1 DEF Reached, Ahead
  <2> QED  BY <2>1, <2>2 DEF Visited
<1> QED  BY <1>1, <1>2

\* At the end of a walk it has passed every gate, at its start none.
LEMMA WalkEnds ==
  ASSUME pos \in Nat
  PROVE  /\ Ahead = {} => Visited = Live(net)
         /\ pos = Sink => Visited = {}
<1>1. \A g \in Live(net) : g \in Nat /\ g >= 1
  BY DEF Live, Gates
<1> QED  BY <1>1 DEF Ahead, Visited, Sink

\* The visits.
LEMMA FoldRound ==
  ASSUME RoundInv, Foldable(net), NEW g \in Ahead, VisitFold(g)
  PROVE  RoundInv'
<1>1. /\ pass = "fold" /\ pass' = "fold" /\ Reached(g) /\ pos' = g /\ ~ FoldRefuses(net, g)
      /\ net' = FoldGate(net, g, lowerMux /\ ~ fpga).net
      /\ changed' = (changed \/ FoldGate(net, g, lowerMux /\ ~ fpga).changed)
      /\ UNCHANGED <<frontEnd, fpga, subChanged>>
  BY Zenon DEF VisitFold, Visit, settings
<1>2. /\ g \in Nat /\ g \in Live(net)
      /\ \A h \in Live(net) : h <= g => h \in Visited \/ h = g
  BY <1>1, OneMore DEF RoundInv
<1>3. ASSUME fpga, ~ changed'  PROVE \A h \in Visited' : Fixed(net', h)
  <2>1. (lowerMux /\ ~ fpga) = FALSE
    BY <1>3
  <2>2. ~ changed /\ ~ FoldGate(net, g, FALSE).changed /\ net' = FoldGate(net, g, FALSE).net
    BY <1>1, <1>3, <2>1
  <2>3. net' = net /\ Fixed(net, g)
    BY <1>1, <1>2, <2>2, FoldFixes
  <2>4. \A h \in Visited : Fixed(net, h)
    BY <1>1, <1>3, <2>2 DEF RoundInv
  <2>5. Visited' = {h \in Live(net) : h <= g}
    BY <1>1, <2>3 DEF Visited
  <2> QED  BY <1>2, <2>3, <2>4, <2>5
<1> QED  BY <1>1, <1>2, <1>3 DEF RoundInv

\* SplitWideGates looks at one gate more: it splits it, or it fits.
LEMMA SplitRound ==
  ASSUME RoundInv, Foldable(net), NEW g \in Ahead, VisitSplit(g)
  PROVE  RoundInv'
<1>1. /\ pass = "split" /\ pass' = "split" /\ Reached(g) /\ pos' = g
      /\ net' = SplitGate(net, g).net
      /\ changed' = (changed \/ SplitGate(net, g).changed)
      /\ UNCHANGED <<frontEnd, fpga, subChanged>>
  BY Zenon DEF VisitSplit, Visit, settings
<1>2. /\ g \in Nat /\ g \in Live(net)
      /\ \A h \in Live(net) : h <= g => h \in Visited \/ h = g
  BY <1>1, OneMore DEF RoundInv
<1>3. ASSUME ~ changed'  PROVE AllFixed' /\ \A h \in Visited' : Fits(h)'
  <2>1. ~ changed /\ ~ SplitGate(net, g).changed
    BY <1>1, <1>3
  <2>2. net' = net /\ Fits(g)
    <3>1. CASE net.kind[g] \in {"nand", "nor"} /\ Len(net.ins[g]) > Arity(net.kind[g])
      <4>1. SplitGate(net, g).changed
        BY <3>1, RewrittenChanges DEF SplitGate
      <4> QED  BY <2>1, <4>1
    <3>2. CASE ~ (net.kind[g] \in {"nand", "nor"} /\ Len(net.ins[g]) > Arity(net.kind[g]))
      <4>1. SplitGate(net, g) = Unchanged(net)
        BY <3>2, Zenon DEF SplitGate
      <4>2. Unchanged(net).net = net
        BY DEF Unchanged
      <4>3. net' = net
        BY <1>1, <4>1, <4>2, Zenon
      <4> QED  BY <3>2, <4>3 DEF Fits
    <3> QED  BY <3>1, <3>2
  <2>3. AllFixed /\ \A h \in Visited : Fits(h)
    BY <1>1, <2>1 DEF RoundInv
  <2>4. Visited' = {h \in Live(net) : h <= g}
    BY <1>1, <2>2 DEF Visited
  <2>5. \A h : Fits(h)' <=> Fits(h)
    BY <1>1, <2>2 DEF Fits, Arity
  <2>6. AllFixed'
    BY <2>2, <2>3 DEF AllFixed
  <2>7. ASSUME NEW h \in Visited'  PROVE Fits(h)'
    BY <1>2, <2>2, <2>3, <2>4, <2>5, <2>7
  <2> QED  BY <2>6, <2>7
<1> QED  BY <1>1, <1>2, <1>3 DEF RoundInv

\* CseGates looks at one gate more: it has it replaced, or lists it.
LEMMA CseRound ==
  ASSUME RoundInv, Foldable(net), NEW g \in Ahead, VisitCse(g)
  PROVE  RoundInv'
<1>1. /\ pass = "cse" /\ pass' = "cse" /\ Reached(g) /\ pos' = g
      /\ net' = CseGate(net, seen, g).net
      /\ changed' = (changed \/ CseGate(net, seen, g).changed)
      /\ seen' = IF Twins(net, seen, g) = {} THEN seen \cup {<<Key(net, g), g>>} ELSE seen
      /\ UNCHANGED <<frontEnd, fpga, subChanged, roundChanged>>
  BY Zenon DEF VisitCse, Visit, settings
<1>2. /\ g \in Nat /\ g \in Live(net)
      /\ \A h \in Live(net) : h <= g => h \in Visited \/ h = g
  BY <1>1, OneMore DEF RoundInv
<1>3. ASSUME fpga, ~ changed', ~ roundChanged'  PROVE AllFixed' /\ AllFit' /\ Listing'
  <2>1. ~ changed /\ ~ CseGate(net, seen, g).changed /\ ~ roundChanged
    BY <1>1, <1>3
  <2>2. Twins(net, seen, g) = {}
    BY <2>1 DEF CseGate
  <2>3. net' = net /\ seen' = seen \cup {<<Key(net, g), g>>}
    <3>1. CseGate(net, seen, g).net = net
      BY <2>2 DEF CseGate, Unchanged
    <3> QED  BY <1>1, <2>2, <3>1
  <2>4. AllFixed /\ AllFit /\ Listing
    BY <1>1, <1>3, <2>1 DEF RoundInv
  <2>5. Visited' = {h \in Live(net) : h <= g}
    BY <1>1, <2>3 DEF Visited
  <2>6. \A h \in Visited' : h \in Visited \/ h = g
    BY <1>2, <2>5
  <2>7. \A h \in Visited : Key(net, h) # Key(net, g)
    <3> SUFFICES ASSUME NEW h \in Visited, Key(net, h) = Key(net, g)  PROVE FALSE
      OBVIOUS
    <3> DEFINE s == <<Key(net, g), h>>
    <3>1. s \in seen
      BY <2>4 DEF Listing
    <3>2. s[1] = Key(net, g) /\ s[2] = h
      OBVIOUS
    <3> HIDE DEF s
    <3>3. s[2] \in Twins(net, seen, g)
      BY <3>1, <3>2, Zenon DEF Twins
    <3> QED  BY <2>2, <3>3
  <2>8. \A h \in Visited' : <<Key(net, h), h>> \in seen'
    BY <2>3, <2>4, <2>6 DEF Listing
  <2>9. \A h, k \in Visited' : Key(net, h) = Key(net, k) => h = k
    BY <2>4, <2>6, <2>7 DEF Listing
  <2>10. AllFixed' /\ AllFit'
    BY <1>1, <2>3, <2>4 DEF AllFixed, AllFit, Fits, Arity
  <2> QED  BY <2>3, <2>8, <2>9, <2>10 DEF Listing
<1> QED  BY <1>1, <1>2, <1>3 DEF RoundInv

\* A walk's end.
LEMMA EnterRound ==
  ASSUME RoundInv, PassesWellFormed,
         Again \/ FromNormalForms \/ FromFactor \/ FromCanonicalize \/ FromCse
         \/ FromFold \/ FromMerge \/ FromWiden \/ FromSplit \/ Fail
  PROVE  RoundInv'
<1>1. UNCHANGED <<net, frontEnd>> /\ pos' = Sink /\ ~ changed'
  BY Zenon DEF Again, FromNormalForms, FromFactor, FromCanonicalize, FromCse, FromFold,
               FromMerge, FromWiden, FromSplit, Fail, Enter, settings
<1>2. frontEnd' \in FrontEnds /\ pos' \in Nat /\ pos \in Nat
  BY <1>1 DEF RoundInv, Sink
<1>3. Visited' = {}
  <2>1. \A g \in Live(net) : g \in Nat /\ g >= 1
    BY DEF Live, Gates
  <2> QED  BY <1>1, <2>1 DEF Visited, Sink
<1>4. AllFixed' <=> AllFixed
  BY <1>1 DEF AllFixed
<1>5. AllFit' <=> AllFit
  BY <1>1 DEF AllFit, Fits, Arity
<1>6. AllDiffer' <=> AllDiffer
  BY <1>1 DEF AllDiffer
<1>7. Listing' /\ (\A g \in Visited' : Fixed(net', g)) /\ (\A g \in Visited' : Fits(g)')
  BY <1>3 DEF Listing
<1>8. Ahead = {} => Visited = Live(net)
  BY <1>2, WalkEnds
<1>9. CASE Again
  <2>1. pass \in {"fold", "cse"} /\ pass' = pass /\ fpga' = fpga /\ roundChanged'
        /\ subChanged' = (subChanged \/ (pass = "cse" /\ ~ fpga))
    BY Zenon, <1>9 DEF Again, Walked, Enter
  <2> QED  BY <1>2, <1>7, <2>1 DEF RoundInv
<1>10. CASE FromNormalForms \/ FromFactor \/ FromCanonicalize
  <2>1. pass \in {"nf", "factor", "canonicalize"} /\ pass' \in {"factor", "canonicalize", "cse"}
        /\ fpga' = fpga
    BY Zenon, <1>10 DEF FromNormalForms, FromFactor, FromCanonicalize, Walked, Enter
  <2> QED  BY <1>2, <2>1 DEF RoundInv
<1>11. CASE FromCse
  <2>1. pass = "cse" /\ Ahead = {} /\ ~ changed /\ fpga' = fpga /\ ~ subChanged'
        /\ roundChanged' = (roundChanged /\ ~ fpga)
    BY Zenon, <1>11 DEF FromCse, Walked
  <2>2. pass' = CASE subChanged                            -> "nf"
                  [] ~ subChanged /\ fpga /\ ~ roundChanged -> "done"
                  [] OTHER                                 -> "fold"
    BY Zenon, <1>11 DEF FromCse, Enter
  <2>3. CASE subChanged
    <3>1. pass' = "nf" /\ ~ fpga
      BY <2>2, <2>3 DEF RoundInv
    <3> QED  BY <1>2, <2>1, <3>1 DEF RoundInv
  <2>4. CASE ~ subChanged /\ fpga /\ ~ roundChanged
    <3>1. pass' = "done"
      BY <2>2, <2>4
    <3>2. AllFixed /\ AllFit /\ Listing
      BY <2>1, <2>4 DEF RoundInv
    <3>3. AllDiffer
      BY <1>8, <2>1, <3>2 DEF Listing, AllDiffer
    <3> QED  BY <1>2, <1>4, <1>5, <1>6, <2>1, <2>4, <3>1, <3>2, <3>3 DEF RoundInv
  <2>5. CASE ~ subChanged /\ ~ (fpga /\ ~ roundChanged)
    <3>1. pass' = "fold"
      BY <2>2, <2>5
    <3> QED  BY <1>2, <1>7, <2>1, <3>1 DEF RoundInv
  <2> QED  BY <2>3, <2>4, <2>5
<1>12. CASE FromFold
  <2>1. /\ pass = "fold" /\ Ahead = {} /\ ~ changed /\ fpga' = fpga /\ subChanged' = subChanged
        /\ pass' = IF fpga THEN "split" ELSE "merge"
    BY Zenon, <1>12 DEF FromFold, Walked, Enter
  <2>2. fpga => AllFixed
    BY <1>8, <2>1 DEF RoundInv, AllFixed
  <2> QED  BY <1>2, <1>4, <1>7, <2>1, <2>2 DEF RoundInv
<1>13. CASE FromMerge
  <2>1. /\ pass = "merge" /\ subChanged' = subChanged
        /\ pass' = IF roundChanged \/ changed THEN "nf" ELSE "widen"
        /\ fpga' = ~ (roundChanged \/ changed)
    BY Zenon, <1>13 DEF FromMerge, Enter
  <2> QED  BY <1>2, <2>1 DEF RoundInv
<1>14. CASE FromWiden
  <2>1. pass = "widen" /\ pass' = "fold" /\ UNCHANGED <<fpga, subChanged>>
    BY Zenon, <1>14 DEF FromWiden, Walked, Enter
  <2> QED  BY <1>2, <1>7, <2>1 DEF RoundInv
<1>15. CASE FromSplit
  <2>1. /\ pass = "split" /\ Ahead = {} /\ pass' = "cse" /\ UNCHANGED <<fpga, subChanged>>
        /\ roundChanged' = (roundChanged \/ changed)
    BY Zenon, <1>15 DEF FromSplit, Walked, Enter
  <2>2. ~ changed => AllFixed /\ AllFit
    BY <1>8, <2>1 DEF RoundInv, AllFit
  <2> QED  BY <1>2, <1>4, <1>5, <1>7, <2>1, <2>2 DEF RoundInv
<1>16. CASE Fail
  <2>1. pass' = "failed" /\ UNCHANGED <<fpga, subChanged>>
    BY Zenon, <1>16 DEF Fail, Enter
  <2> QED  BY <1>2, <2>1 DEF RoundInv
<1> QED  BY Zenon, <1>9, <1>10, <1>11, <1>12, <1>13, <1>14, <1>15, <1>16

\* A step before LowerFpgaGates, or of its first walk.
LEMMA EarlyRound ==
  ASSUME RoundInv, pass \in {"build", "nf", "factor", "canonicalize", "merge", "widen"},
         pass' = pass \/ (pass = "build" /\ pass' = "nf"),
         pos' \in Nat, UNCHANGED <<frontEnd, fpga>>,
         pass = "merge" \/ fpga => subChanged' = subChanged
  PROVE  RoundInv'
BY DEF RoundInv

\* All steps.
LEMMA NextRound ==
  ASSUME RoundInv, PassesWellFormed, Next
  PROVE  RoundInv'
<1>1. Foldable(net) /\ pos \in Nat
  BY DEF PassesWellFormed, RoundInv
<1>2. CASE Build
  <2>1. pass = "build" /\ UNCHANGED <<pass, pos, frontEnd, fpga, subChanged>>
    BY Zenon, <1>2 DEF Build, Call
  <2> QED  BY <1>1, <2>1, EarlyRound
<1>3. CASE Finish
  <2>1. pass = "build" /\ pass' = "nf" /\ pos' = Sink /\ UNCHANGED <<frontEnd, fpga, subChanged>>
    BY Zenon, <1>3 DEF Finish, Enter
  <2> QED  BY <2>1, EarlyRound DEF Sink
<1>4. ASSUME NEW g \in Ahead, VisitCanonicalize(g) \/ VisitWiden(g)  PROVE RoundInv'
  <2>1. /\ pass \in {"canonicalize", "widen"} /\ pos' = g
        /\ UNCHANGED <<frontEnd, pass, fpga, subChanged>>
    BY Zenon, <1>4 DEF VisitCanonicalize, VisitWiden, Visit, settings
  <2>2. g \in Nat
    BY DEF Ahead, Live, Gates
  <2> QED  BY <2>1, <2>2, EarlyRound
<1>5. ASSUME NEW g \in Ahead, VisitFold(g) \/ VisitCse(g) \/ VisitSplit(g)  PROVE RoundInv'
  BY <1>1, <1>5, FoldRound, CseRound, SplitRound
<1>6. CASE VisitNormalForm \/ VisitMerge
  <2>1. pass \in {"nf", "merge"} /\ UNCHANGED <<frontEnd, pass, pos, fpga, subChanged>>
    BY Zenon, <1>6 DEF VisitNormalForm, VisitMerge, Rewrite, settings
  <2> QED  BY <1>1, <2>1, EarlyRound
<1>7. CASE VisitFactor
  <2>1. pass = "factor" /\ UNCHANGED <<frontEnd, pass, pos, fpga>>
    BY Zenon, <1>7 DEF VisitFactor, settings
  <2>2. ~ fpga
    BY <2>1 DEF RoundInv
  <2> QED  BY <1>1, <2>1, <2>2, EarlyRound
<1>8. CASE Done
  BY <1>8 DEF Done, vars, settings, RoundInv, AllFixed, AllFit, AllDiffer, Listing, Visited,
              Fits, Arity
<1> QED  BY Zenon, <1>2, <1>3, <1>4, <1>5, <1>6, <1>7, <1>8, EnterRound DEF Next, Pass

\* What the walks leave, when they have all come to their end, is lowered form.
LEMMA RoundLowered ==
  ASSUME RoundInv, PassesWellFormed
  PROVE  Lowered
<1> SUFFICES ASSUME pass = "done", NEW g \in Live(net)
             PROVE  LET in   == InputsOf(net, g)
                        kind == net.kind[g]
                        size == Len(net.ins[g])
                        most == IF kind = "nor" THEN frontEnd.norArity ELSE 2
                    IN  /\ ~ HasNoUse(net, g)
                        /\ kind = "not" => /\ net.ins[g][1] \notin {Low, High}
                                           /\ ~ IsNot(net.ins[g][1])
                        /\ kind = "lookup" => {Low, High} \cap in = {}
                        /\ kind \in {"nand", "nor"} =>
                             /\ size \in 2 .. most
                             /\ Neutral(kind) \notin in
                             /\ size = 2 => {Low, High} \cap in = {} /\ \E t \in in : ~ IsNot(t)
                        /\ \A h \in Live(net) : Key(net, g) = Key(net, h) => g = h
  BY Zenon DEF Lowered
<1>1. Foldable(net) /\ AllFixed /\ AllFit /\ AllDiffer /\ frontEnd \in FrontEnds
  BY DEF RoundInv, PassesWellFormed
<1>2. \A h \in Live(net) : Fixed(net, h)
  BY <1>1 DEF AllFixed
<1>3. Len(net.ins[g]) \in Nat
  BY <1>1, SoundIsWellFormed, LiveInputs DEF Foldable
<1>4. frontEnd.norArity \in Nat
  BY <1>1, PassesAssumption
<1>5. ASSUME net.kind[g] \in {"nand", "nor"}
      PROVE  Len(net.ins[g]) \in 2 .. Arity(net.kind[g])
  <2> DEFINE k == Len(net.ins[g])
             a == Arity(net.kind[g])
  <2>1. k >= 2
    BY <1>1, <1>2, <1>5, FixedShape
  <2>2. ~ (k > a)
    BY <1>1, <1>5 DEF AllFit, Fits
  <2>3. a \in Nat
    BY <1>4 DEF Arity
  <2>4. k \in Nat
    BY <1>3
  <2> HIDE DEF k, a
  <2>5. k \in 2 .. a
    BY <2>1, <2>2, <2>3, <2>4
  <2> QED  BY <2>5 DEF k, a
<1>6. \A h \in Live(net) : Key(net, g) = Key(net, h) => g = h
  BY <1>1 DEF AllDiffer
<1> QED  BY <1>1, <1>2, <1>5, <1>6, FixedShape DEF Arity, IsNot

\* In every run in which the passes keep the network well formed, what LowerFpgaGates
\* ends with is in lowered form: the flags of its loops, over its three passes and over
\* the walks of each, let none of them end early.
THEOREM EndsLowered == Spec /\ []PassesWellFormed => []Lowered
<1>1. Init => RoundInv
  <2> SUFFICES ASSUME Init  PROVE RoundInv
    OBVIOUS
  <2> QED  BY DEF Init, RoundInv, Sink
<1>2. RoundInv /\ PassesWellFormed /\ [Next]_vars => RoundInv'
  <2> SUFFICES ASSUME RoundInv, PassesWellFormed, [Next]_vars  PROVE RoundInv'
    OBVIOUS
  <2>1. CASE UNCHANGED vars
    BY <2>1 DEF vars, settings, RoundInv, AllFixed, AllFit, AllDiffer, Listing, Visited, Fits,
                Arity
  <2> QED  BY <2>1, NextRound
<1>3. RoundInv /\ PassesWellFormed => Lowered
  BY RoundLowered
<1> QED  BY <1>1, <1>2, <1>3, PTL DEF Spec

----------------------------------------------------------------------------
(* The loops of the analyses, as steps.                                     *)

\* The rounds of a loop, as a sequence.
Rounds(l) == [k \in 1 .. l |-> k]

\* There are as many as were asked for.
LEMMA RoundsList ==
  ASSUME NEW l \in Nat
  PROVE  Rounds(l) \in Seq(Nat) /\ Len(Rounds(l)) = l /\ DOMAIN Rounds(l) = 1 .. l
<1>1. \A k \in 1 .. l : k \in Nat
  OBVIOUS
<1> QED  BY <1>1 DEF Rounds

\* The loops of the analyses, each under a name.
Down(n, T, l) == Iterated(LAMBDA S : DownRound(n, S), T, l)
DeterminedIn(n, T, l) == Iterated(LAMBDA S : FixedBy(n, S), T, l)
ListUsers(n, t, users) == FoldLeft(LAMBDA list, u : WithUser(n, t, list, u), << >>, users)
SourcesFirst(n, sinks, s, args) == FoldLeft(LAMBDA acc, t : TopoVisit(n, sinks, acc, t), s, args)
Counted(n, sinks, s, args) == FoldLeft(LAMBDA acc, u : Processed(n, sinks, acc, u), s, args)
ThenReady(n, sinks, s, l) == Iterated(LAMBDA acc : FromReady(n, sinks, acc), s, l)
AllDeep(tree, p, l) == Iterated(LAMBDA q : DeepUp(tree, q), p, l)
AllBoth(tree, p, l) == Iterated(LAMBDA q : BothUp(tree, q), p, l)
Common(tree, default, u, args) ==
  FoldLeft(LAMBDA pdom, v : LowestCommon(tree, default, v, pdom), u, args)
AllGrafted(n, default, tree, args) == FoldLeft(LAMBDA acc, t : Grafted(n, default, acc, t), tree, args)
Deepest(tree, s, l) == Iterated(LAMBDA acc : OneDeeper(tree, acc), s, l)
AllNew(s, args) == FoldLeft(AppendNew, s, args)
AllAsked(cuts, s, args) == FoldLeft(LAMBDA acc, t : Asked(cuts, acc, t), s, args)
AllCuts(n, s, args) == FoldLeft(LAMBDA acc, out : WithCuts(n, acc, out), s, args)

\* Each of the loops that analyse the graph runs through sets, lists or records acc[0], acc[1], ...:
\* the rounds of Downstream, ...
LEMMA DownSteps ==
  ASSUME NEW n, NEW T, NEW l \in Nat
  PROVE  \E acc : /\ acc[0] = T
                  /\ \A k \in 1 .. l : acc[k] = DownRound(n, acc[k - 1])
                  /\ Down(n, T, l) = acc[l]
<1> DEFINE op == <<"graph", <<"down", n>>>>
           args == Rounds(l)
           Own(f) == f = [s \in SUBSET DOMAIN args |->
                            IF s = {} THEN T ELSE DownRound(n, f[s \ {Max(s)}])]
           iter == CHOOSE f : Own(f)
<1>1. \A acc, x : Advanced(op, acc, x) = DownRound(n, acc)
  BY DEF Advanced, Traced
<1> HIDE DEF op
<1>2. \A f : Own(f) <=> Folds(op, T, args, f)
  BY <1>1 DEF Folds
<1>3. Down(n, T, l) = iter[DOMAIN args]
  BY DEF Down, Iterated, Rounds, FoldLeft, MapThenFoldSet
<1>4. args \in Seq(Nat) /\ Len(args) = l /\ DOMAIN args = 1 .. l
  BY RoundsList
<1> HIDE DEF args
<1>5. Folds(op, T, args, iter)
  <2> HIDE DEF Own
  <2> QED  BY <1>2, <1>4, FoldsExist
<1> HIDE DEF iter
<1>6. PICK acc : Steps(op, T, args, acc) /\ iter[DOMAIN args] = acc[Len(args)]
  BY <1>4, <1>5, FoldSteps
<1> QED  BY <1>1, <1>3, <1>4, <1>6 DEF Steps, args

\* ... those of Determined, ...
LEMMA FixedSteps ==
  ASSUME NEW n, NEW T, NEW l \in Nat
  PROVE  \E acc : /\ acc[0] = T
                  /\ \A k \in 1 .. l : acc[k] = FixedBy(n, acc[k - 1])
                  /\ DeterminedIn(n, T, l) = acc[l]
<1> DEFINE op == <<"graph", <<"fixed", n>>>>
           args == Rounds(l)
           Own(f) == f = [s \in SUBSET DOMAIN args |->
                            IF s = {} THEN T ELSE FixedBy(n, f[s \ {Max(s)}])]
           iter == CHOOSE f : Own(f)
<1>1. \A acc, x : Advanced(op, acc, x) = FixedBy(n, acc)
  BY DEF Advanced, Traced
<1> HIDE DEF op
<1>2. \A f : Own(f) <=> Folds(op, T, args, f)
  BY <1>1 DEF Folds
<1>3. DeterminedIn(n, T, l) = iter[DOMAIN args]
  BY DEF DeterminedIn, Iterated, Rounds, FoldLeft, MapThenFoldSet
<1>4. args \in Seq(Nat) /\ Len(args) = l /\ DOMAIN args = 1 .. l
  BY RoundsList
<1> HIDE DEF args
<1>5. Folds(op, T, args, iter)
  <2> HIDE DEF Own
  <2> QED  BY <1>2, <1>4, FoldsExist
<1> HIDE DEF iter
<1>6. PICK acc : Steps(op, T, args, acc) /\ iter[DOMAIN args] = acc[Len(args)]
  BY <1>4, <1>5, FoldSteps
<1> QED  BY <1>1, <1>3, <1>4, <1>6 DEF Steps, args

\* ... the users that GetUsers lists, ...
LEMMA UserSteps ==
  ASSUME NEW n, NEW t, NEW S, NEW args \in Seq(S)
  PROVE  \E acc : /\ acc[0] = << >>
                  /\ \A k \in 1 .. Len(args) : acc[k] = WithUser(n, t, acc[k - 1], args[k])
                  /\ ListUsers(n, t, args) = acc[Len(args)]
<1> DEFINE op == <<"graph", <<"user", n, t>>>>
           Own(f) == f = [s \in SUBSET DOMAIN args |->
                            IF s = {} THEN << >> ELSE WithUser(n, t, f[s \ {Max(s)}], args[Max(s)])]
           iter == CHOOSE f : Own(f)
<1>1. \A acc, x : Advanced(op, acc, x) = WithUser(n, t, acc, x)
  BY DEF Advanced, Traced
<1> HIDE DEF op
<1>2. \A f : Own(f) <=> Folds(op, << >>, args, f)
  BY <1>1 DEF Folds
<1>3. ListUsers(n, t, args) = iter[DOMAIN args]
  BY DEF ListUsers, FoldLeft, MapThenFoldSet
<1>4. Len(args) \in Nat
  OBVIOUS
<1>5. Folds(op, << >>, args, iter)
  <2> HIDE DEF Own
  <2> QED  BY <1>2, <1>4, FoldsExist
<1> HIDE DEF iter
<1>6. PICK acc : Steps(op, << >>, args, acc) /\ iter[DOMAIN args] = acc[Len(args)]
  BY <1>4, <1>5, FoldSteps
<1> QED  BY <1>1, <1>3, <1>4, <1>6 DEF Steps

\* ... the users that TopoSort counts an input of, ...
LEMMA CountSteps ==
  ASSUME NEW n, NEW sinks, NEW s0, NEW S, NEW args \in Seq(S)
  PROVE  \E acc : /\ acc[0] = s0
                  /\ \A k \in 1 .. Len(args) : acc[k] = Processed(n, sinks, acc[k - 1], args[k])
                  /\ Counted(n, sinks, s0, args) = acc[Len(args)]
<1> DEFINE op == <<"graph", <<"count", n, sinks>>>>
           Own(f) == f = [s \in SUBSET DOMAIN args |->
                            IF s = {} THEN s0 ELSE Processed(n, sinks, f[s \ {Max(s)}], args[Max(s)])]
           iter == CHOOSE f : Own(f)
<1>1. \A acc, x : Advanced(op, acc, x) = Processed(n, sinks, acc, x)
  BY DEF Advanced, Traced
<1> HIDE DEF op
<1>2. \A f : Own(f) <=> Folds(op, s0, args, f)
  BY <1>1 DEF Folds
<1>3. Counted(n, sinks, s0, args) = iter[DOMAIN args]
  BY DEF Counted, FoldLeft, MapThenFoldSet
<1>4. Len(args) \in Nat
  OBVIOUS
<1>5. Folds(op, s0, args, iter)
  <2> HIDE DEF Own
  <2> QED  BY <1>2, <1>4, FoldsExist
<1> HIDE DEF iter
<1>6. PICK acc : Steps(op, s0, args, acc) /\ iter[DOMAIN args] = acc[Len(args)]
  BY <1>4, <1>5, FoldSteps
<1> QED  BY <1>1, <1>3, <1>4, <1>6 DEF Steps

\* ... the sources that it visits, ...
LEMMA VisitSteps ==
  ASSUME NEW n, NEW sinks, NEW s0, NEW S, NEW args \in Seq(S)
  PROVE  \E acc : /\ acc[0] = s0
                  /\ \A k \in 1 .. Len(args) : acc[k] = TopoVisit(n, sinks, acc[k - 1], args[k])
                  /\ SourcesFirst(n, sinks, s0, args) = acc[Len(args)]
<1> DEFINE op == <<"graph", <<"visit", n, sinks>>>>
           Own(f) == f = [s \in SUBSET DOMAIN args |->
                            IF s = {} THEN s0 ELSE TopoVisit(n, sinks, f[s \ {Max(s)}], args[Max(s)])]
           iter == CHOOSE f : Own(f)
<1>1. \A acc, x : Advanced(op, acc, x) = TopoVisit(n, sinks, acc, x)
  BY DEF Advanced, Traced
<1> HIDE DEF op
<1>2. \A f : Own(f) <=> Folds(op, s0, args, f)
  BY <1>1 DEF Folds
<1>3. SourcesFirst(n, sinks, s0, args) = iter[DOMAIN args]
  BY DEF SourcesFirst, FoldLeft, MapThenFoldSet
<1>4. Len(args) \in Nat
  OBVIOUS
<1>5. Folds(op, s0, args, iter)
  <2> HIDE DEF Own
  <2> QED  BY <1>2, <1>4, FoldsExist
<1> HIDE DEF iter
<1>6. PICK acc : Steps(op, s0, args, acc) /\ iter[DOMAIN args] = acc[Len(args)]
  BY <1>4, <1>5, FoldSteps
<1> QED  BY <1>1, <1>3, <1>4, <1>6 DEF Steps

\* ... and the ready gates after them, ...
LEMMA ReadySteps ==
  ASSUME NEW n, NEW sinks, NEW s0, NEW l \in Nat
  PROVE  \E acc : /\ acc[0] = s0
                  /\ \A k \in 1 .. l : acc[k] = FromReady(n, sinks, acc[k - 1])
                  /\ ThenReady(n, sinks, s0, l) = acc[l]
<1> DEFINE op == <<"graph", <<"ready", n, sinks>>>>
           args == Rounds(l)
           Own(f) == f = [s \in SUBSET DOMAIN args |->
                            IF s = {} THEN s0 ELSE FromReady(n, sinks, f[s \ {Max(s)}])]
           iter == CHOOSE f : Own(f)
<1>1. \A acc, x : Advanced(op, acc, x) = FromReady(n, sinks, acc)
  BY DEF Advanced, Traced
<1> HIDE DEF op
<1>2. \A f : Own(f) <=> Folds(op, s0, args, f)
  BY <1>1 DEF Folds
<1>3. ThenReady(n, sinks, s0, l) = iter[DOMAIN args]
  BY DEF ThenReady, Iterated, Rounds, FoldLeft, MapThenFoldSet
<1>4. args \in Seq(Nat) /\ Len(args) = l /\ DOMAIN args = 1 .. l
  BY RoundsList
<1> HIDE DEF args
<1>5. Folds(op, s0, args, iter)
  <2> HIDE DEF Own
  <2> QED  BY <1>2, <1>4, FoldsExist
<1> HIDE DEF iter
<1>6. PICK acc : Steps(op, s0, args, acc) /\ iter[DOMAIN args] = acc[Len(args)]
  BY <1>4, <1>5, FoldSteps
<1> QED  BY <1>1, <1>3, <1>4, <1>6 DEF Steps, args

\* ... the steps up from the deeper of two terminals, ...
LEMMA DeepSteps ==
  ASSUME NEW tree, NEW p, NEW l \in Nat
  PROVE  \E acc : /\ acc[0] = p
                  /\ \A k \in 1 .. l : acc[k] = DeepUp(tree, acc[k - 1])
                  /\ AllDeep(tree, p, l) = acc[l]
<1> DEFINE op == <<"graph", <<"deep", tree>>>>
           args == Rounds(l)
           Own(f) == f = [s \in SUBSET DOMAIN args |->
                            IF s = {} THEN p ELSE DeepUp(tree, f[s \ {Max(s)}])]
           iter == CHOOSE f : Own(f)
<1>1. \A acc, x : Advanced(op, acc, x) = DeepUp(tree, acc)
  BY DEF Advanced, Traced
<1> HIDE DEF op
<1>2. \A f : Own(f) <=> Folds(op, p, args, f)
  BY <1>1 DEF Folds
<1>3. AllDeep(tree, p, l) = iter[DOMAIN args]
  BY DEF AllDeep, Iterated, Rounds, FoldLeft, MapThenFoldSet
<1>4. args \in Seq(Nat) /\ Len(args) = l /\ DOMAIN args = 1 .. l
  BY RoundsList
<1> HIDE DEF args
<1>5. Folds(op, p, args, iter)
  <2> HIDE DEF Own
  <2> QED  BY <1>2, <1>4, FoldsExist
<1> HIDE DEF iter
<1>6. PICK acc : Steps(op, p, args, acc) /\ iter[DOMAIN args] = acc[Len(args)]
  BY <1>4, <1>5, FoldSteps
<1> QED  BY <1>1, <1>3, <1>4, <1>6 DEF Steps, args

\* ... and from both, ...
LEMMA BothSteps ==
  ASSUME NEW tree, NEW p, NEW l \in Nat
  PROVE  \E acc : /\ acc[0] = p
                  /\ \A k \in 1 .. l : acc[k] = BothUp(tree, acc[k - 1])
                  /\ AllBoth(tree, p, l) = acc[l]
<1> DEFINE op == <<"graph", <<"both", tree>>>>
           args == Rounds(l)
           Own(f) == f = [s \in SUBSET DOMAIN args |->
                            IF s = {} THEN p ELSE BothUp(tree, f[s \ {Max(s)}])]
           iter == CHOOSE f : Own(f)
<1>1. \A acc, x : Advanced(op, acc, x) = BothUp(tree, acc)
  BY DEF Advanced, Traced
<1> HIDE DEF op
<1>2. \A f : Own(f) <=> Folds(op, p, args, f)
  BY <1>1 DEF Folds
<1>3. AllBoth(tree, p, l) = iter[DOMAIN args]
  BY DEF AllBoth, Iterated, Rounds, FoldLeft, MapThenFoldSet
<1>4. args \in Seq(Nat) /\ Len(args) = l /\ DOMAIN args = 1 .. l
  BY RoundsList
<1> HIDE DEF args
<1>5. Folds(op, p, args, iter)
  <2> HIDE DEF Own
  <2> QED  BY <1>2, <1>4, FoldsExist
<1> HIDE DEF iter
<1>6. PICK acc : Steps(op, p, args, acc) /\ iter[DOMAIN args] = acc[Len(args)]
  BY <1>4, <1>5, FoldSteps
<1> QED  BY <1>1, <1>3, <1>4, <1>6 DEF Steps, args

\* ... the users whose post-dominator is looked for, ...
LEMMA CommonSteps ==
  ASSUME NEW tree, NEW default, NEW u, NEW S, NEW args \in Seq(S)
  PROVE  \E acc : /\ acc[0] = u
                  /\ \A k \in 1 .. Len(args) : acc[k] = LowestCommon(tree, default, args[k], acc[k - 1])
                  /\ Common(tree, default, u, args) = acc[Len(args)]
<1> DEFINE op == <<"graph", <<"lowest", tree, default>>>>
           Own(f) == f = [s \in SUBSET DOMAIN args |->
                            IF s = {} THEN u ELSE LowestCommon(tree, default, args[Max(s)], f[s \ {Max(s)}])]
           iter == CHOOSE f : Own(f)
<1>1. \A acc, x : Advanced(op, acc, x) = LowestCommon(tree, default, x, acc)
  BY DEF Advanced, Traced
<1> HIDE DEF op
<1>2. \A f : Own(f) <=> Folds(op, u, args, f)
  BY <1>1 DEF Folds
<1>3. Common(tree, default, u, args) = iter[DOMAIN args]
  BY DEF Common, FoldLeft, MapThenFoldSet
<1>4. Len(args) \in Nat
  OBVIOUS
<1>5. Folds(op, u, args, iter)
  <2> HIDE DEF Own
  <2> QED  BY <1>2, <1>4, FoldsExist
<1> HIDE DEF iter
<1>6. PICK acc : Steps(op, u, args, acc) /\ iter[DOMAIN args] = acc[Len(args)]
  BY <1>4, <1>5, FoldSteps
<1> QED  BY <1>1, <1>3, <1>4, <1>6 DEF Steps

\* ... the terminals that are hung into the tree, ...
LEMMA GraftSteps ==
  ASSUME NEW n, NEW default, NEW tree, NEW S, NEW args \in Seq(S)
  PROVE  \E acc : /\ acc[0] = tree
                  /\ \A k \in 1 .. Len(args) : acc[k] = Grafted(n, default, acc[k - 1], args[k])
                  /\ AllGrafted(n, default, tree, args) = acc[Len(args)]
<1> DEFINE op == <<"graph", <<"graft", n, default>>>>
           Own(f) == f = [s \in SUBSET DOMAIN args |->
                            IF s = {} THEN tree ELSE Grafted(n, default, f[s \ {Max(s)}], args[Max(s)])]
           iter == CHOOSE f : Own(f)
<1>1. \A acc, x : Advanced(op, acc, x) = Grafted(n, default, acc, x)
  BY DEF Advanced, Traced
<1> HIDE DEF op
<1>2. \A f : Own(f) <=> Folds(op, tree, args, f)
  BY <1>1 DEF Folds
<1>3. AllGrafted(n, default, tree, args) = iter[DOMAIN args]
  BY DEF AllGrafted, FoldLeft, MapThenFoldSet
<1>4. Len(args) \in Nat
  OBVIOUS
<1>5. Folds(op, tree, args, iter)
  <2> HIDE DEF Own
  <2> QED  BY <1>2, <1>4, FoldsExist
<1> HIDE DEF iter
<1>6. PICK acc : Steps(op, tree, args, acc) /\ iter[DOMAIN args] = acc[Len(args)]
  BY <1>4, <1>5, FoldSteps
<1> QED  BY <1>1, <1>3, <1>4, <1>6 DEF Steps

\* ... the paths that a level of the walk prolongs, ...
LEMMA PathSteps ==
  ASSUME NEW tree, NEW depth, NEW S, NEW args \in Seq(S)
  PROVE  \E acc : /\ acc[0] = << >>
                  /\ \A k \in 1 .. Len(args) : acc[k] = WithPath(tree, depth, acc[k - 1], args[k])
                  /\ AllPaths(tree, depth, args) = acc[Len(args)]
<1> DEFINE op == <<"graph", <<"path", tree, depth>>>>
           Own(f) == f = [s \in SUBSET DOMAIN args |->
                            IF s = {} THEN << >> ELSE WithPath(tree, depth, f[s \ {Max(s)}], args[Max(s)])]
           iter == CHOOSE f : Own(f)
<1>1. \A acc, x : Advanced(op, acc, x) = WithPath(tree, depth, acc, x)
  BY DEF Advanced, Traced
<1> HIDE DEF op
<1>2. \A f : Own(f) <=> Folds(op, << >>, args, f)
  BY <1>1 DEF Folds
<1>3. AllPaths(tree, depth, args) = iter[DOMAIN args]
  BY DEF AllPaths, FoldLeft, MapThenFoldSet
<1>4. Len(args) \in Nat
  OBVIOUS
<1>5. Folds(op, << >>, args, iter)
  <2> HIDE DEF Own
  <2> QED  BY <1>2, <1>4, FoldsExist
<1> HIDE DEF iter
<1>6. PICK acc : Steps(op, << >>, args, acc) /\ iter[DOMAIN args] = acc[Len(args)]
  BY <1>4, <1>5, FoldSteps
<1> QED  BY <1>1, <1>3, <1>4, <1>6 DEF Steps

\* ... and its levels, ...
LEMMA DeeperSteps ==
  ASSUME NEW tree, NEW s0, NEW l \in Nat
  PROVE  \E acc : /\ acc[0] = s0
                  /\ \A k \in 1 .. l : acc[k] = OneDeeper(tree, acc[k - 1])
                  /\ Deepest(tree, s0, l) = acc[l]
<1> DEFINE op == <<"graph", <<"deeper", tree>>>>
           args == Rounds(l)
           Own(f) == f = [s \in SUBSET DOMAIN args |->
                            IF s = {} THEN s0 ELSE OneDeeper(tree, f[s \ {Max(s)}])]
           iter == CHOOSE f : Own(f)
<1>1. \A acc, x : Advanced(op, acc, x) = OneDeeper(tree, acc)
  BY DEF Advanced, Traced
<1> HIDE DEF op
<1>2. \A f : Own(f) <=> Folds(op, s0, args, f)
  BY <1>1 DEF Folds
<1>3. Deepest(tree, s0, l) = iter[DOMAIN args]
  BY DEF Deepest, Iterated, Rounds, FoldLeft, MapThenFoldSet
<1>4. args \in Seq(Nat) /\ Len(args) = l /\ DOMAIN args = 1 .. l
  BY RoundsList
<1> HIDE DEF args
<1>5. Folds(op, s0, args, iter)
  <2> HIDE DEF Own
  <2> QED  BY <1>2, <1>4, FoldsExist
<1> HIDE DEF iter
<1>6. PICK acc : Steps(op, s0, args, acc) /\ iter[DOMAIN args] = acc[Len(args)]
  BY <1>4, <1>5, FoldSteps
<1> QED  BY <1>1, <1>3, <1>4, <1>6 DEF Steps, args

\* ... what is appended unless it is there, ...
LEMMA NewSteps ==
  ASSUME NEW s0, NEW S, NEW args \in Seq(S)
  PROVE  \E acc : /\ acc[0] = s0
                  /\ \A k \in 1 .. Len(args) : acc[k] = AppendNew(acc[k - 1], args[k])
                  /\ AllNew(s0, args) = acc[Len(args)]
<1> DEFINE op == <<"graph", <<"new">>>>
           Own(f) == f = [s \in SUBSET DOMAIN args |->
                            IF s = {} THEN s0 ELSE AppendNew(f[s \ {Max(s)}], args[Max(s)])]
           iter == CHOOSE f : Own(f)
<1>1. \A acc, x : Advanced(op, acc, x) = AppendNew(acc, x)
  BY DEF Advanced, Traced
<1> HIDE DEF op
<1>2. \A f : Own(f) <=> Folds(op, s0, args, f)
  BY <1>1 DEF Folds
<1>3. AllNew(s0, args) = iter[DOMAIN args]
  BY DEF AllNew, FoldLeft, MapThenFoldSet
<1>4. Len(args) \in Nat
  OBVIOUS
<1>5. Folds(op, s0, args, iter)
  <2> HIDE DEF Own
  <2> QED  BY <1>2, <1>4, FoldsExist
<1> HIDE DEF iter
<1>6. PICK acc : Steps(op, s0, args, acc) /\ iter[DOMAIN args] = acc[Len(args)]
  BY <1>4, <1>5, FoldSteps
<1> QED  BY <1>1, <1>3, <1>4, <1>6 DEF Steps

\* ... the cuts of some inputs, joined with one more input's, ...
LEMMA JoinSteps ==
  ASSUME NEW cuts, NEW t, NEW S, NEW args \in Seq(S)
  PROVE  \E acc : /\ acc[0] = << >>
                  /\ \A k \in 1 .. Len(args) : acc[k] = WithJoins(cuts, t, acc[k - 1], args[k])
                  /\ AllJoins(cuts, t, args) = acc[Len(args)]
<1> DEFINE op == <<"graph", <<"join", cuts, t>>>>
           Own(f) == f = [s \in SUBSET DOMAIN args |->
                            IF s = {} THEN << >> ELSE WithJoins(cuts, t, f[s \ {Max(s)}], args[Max(s)])]
           iter == CHOOSE f : Own(f)
<1>1. \A acc, x : Advanced(op, acc, x) = WithJoins(cuts, t, acc, x)
  BY DEF Advanced, Traced
<1> HIDE DEF op
<1>2. \A f : Own(f) <=> Folds(op, << >>, args, f)
  BY <1>1 DEF Folds
<1>3. AllJoins(cuts, t, args) = iter[DOMAIN args]
  BY DEF AllJoins, FoldLeft, MapThenFoldSet
<1>4. Len(args) \in Nat
  OBVIOUS
<1>5. Folds(op, << >>, args, iter)
  <2> HIDE DEF Own
  <2> QED  BY <1>2, <1>4, FoldsExist
<1> HIDE DEF iter
<1>6. PICK acc : Steps(op, << >>, args, acc) /\ iter[DOMAIN args] = acc[Len(args)]
  BY <1>4, <1>5, FoldSteps
<1> QED  BY <1>1, <1>3, <1>4, <1>6 DEF Steps

\* ... the inputs of a gate, ...
LEMMA AskSteps ==
  ASSUME NEW cuts, NEW s0, NEW S, NEW args \in Seq(S)
  PROVE  \E acc : /\ acc[0] = s0
                  /\ \A k \in 1 .. Len(args) : acc[k] = Asked(cuts, acc[k - 1], args[k])
                  /\ AllAsked(cuts, s0, args) = acc[Len(args)]
<1> DEFINE op == <<"graph", <<"ask", cuts>>>>
           Own(f) == f = [s \in SUBSET DOMAIN args |->
                            IF s = {} THEN s0 ELSE Asked(cuts, f[s \ {Max(s)}], args[Max(s)])]
           iter == CHOOSE f : Own(f)
<1>1. \A acc, x : Advanced(op, acc, x) = Asked(cuts, acc, x)
  BY DEF Advanced, Traced
<1> HIDE DEF op
<1>2. \A f : Own(f) <=> Folds(op, s0, args, f)
  BY <1>1 DEF Folds
<1>3. AllAsked(cuts, s0, args) = iter[DOMAIN args]
  BY DEF AllAsked, FoldLeft, MapThenFoldSet
<1>4. Len(args) \in Nat
  OBVIOUS
<1>5. Folds(op, s0, args, iter)
  <2> HIDE DEF Own
  <2> QED  BY <1>2, <1>4, FoldsExist
<1> HIDE DEF iter
<1>6. PICK acc : Steps(op, s0, args, acc) /\ iter[DOMAIN args] = acc[Len(args)]
  BY <1>4, <1>5, FoldSteps
<1> QED  BY <1>1, <1>3, <1>4, <1>6 DEF Steps

\* ... and the gates that cuts are collected for.
LEMMA CutSteps ==
  ASSUME NEW n, NEW s0, NEW S, NEW args \in Seq(S)
  PROVE  \E acc : /\ acc[0] = s0
                  /\ \A k \in 1 .. Len(args) : acc[k] = WithCuts(n, acc[k - 1], args[k])
                  /\ AllCuts(n, s0, args) = acc[Len(args)]
<1> DEFINE op == <<"graph", <<"cuts", n>>>>
           Own(f) == f = [s \in SUBSET DOMAIN args |->
                            IF s = {} THEN s0 ELSE WithCuts(n, f[s \ {Max(s)}], args[Max(s)])]
           iter == CHOOSE f : Own(f)
<1>1. \A acc, x : Advanced(op, acc, x) = WithCuts(n, acc, x)
  BY DEF Advanced, Traced
<1> HIDE DEF op
<1>2. \A f : Own(f) <=> Folds(op, s0, args, f)
  BY <1>1 DEF Folds
<1>3. AllCuts(n, s0, args) = iter[DOMAIN args]
  BY DEF AllCuts, FoldLeft, MapThenFoldSet
<1>4. Len(args) \in Nat
  OBVIOUS
<1>5. Folds(op, s0, args, iter)
  <2> HIDE DEF Own
  <2> QED  BY <1>2, <1>4, FoldsExist
<1> HIDE DEF iter
<1>6. PICK acc : Steps(op, s0, args, acc) /\ iter[DOMAIN args] = acc[Len(args)]
  BY <1>4, <1>5, FoldSteps
<1> QED  BY <1>1, <1>3, <1>4, <1>6 DEF Steps

----------------------------------------------------------------------------
(* The ways of a signal to the outputs.                                     *)

\* All ways of the signal from a to the outputs lead through p: there is a set that they do
\* not leave but from p.
Leads(n, a, p) ==
  \E S : /\ a \in S
         /\ \A x \in S \ {p, Sink} : UsersOf(n, x) \in SUBSET S
         /\ Sink \in S => p = Sink

\* That is a preorder, ...
LEMMA LeadsSelf ==
  ASSUME NEW n, NEW a
  PROVE  Leads(n, a, a)
<1> DEFINE S == {a}
<1>1. a \in S /\ (\A x \in S \ {a, Sink} : UsersOf(n, x) \in SUBSET S) /\ (Sink \in S => a = Sink)
  OBVIOUS
<1> HIDE DEF S
<1> QED  BY <1>1 DEF Leads

\* ... a way through b that from there leads through c leads through c, ...
LEMMA LeadsTrans ==
  ASSUME NEW n, NEW a, NEW b, NEW c, Leads(n, a, b), Leads(n, b, c)
  PROVE  Leads(n, a, c)
<1>1. PICK S : /\ a \in S
               /\ \A x \in S \ {b, Sink} : UsersOf(n, x) \in SUBSET S
               /\ Sink \in S => b = Sink
  BY DEF Leads
<1>2. PICK T : /\ b \in T
               /\ \A x \in T \ {c, Sink} : UsersOf(n, x) \in SUBSET T
               /\ Sink \in T => c = Sink
  BY DEF Leads
<1> DEFINE U == S \cup T
<1>3. ASSUME NEW x \in U \ {c, Sink}  PROVE UsersOf(n, x) \in SUBSET U
  <2>1. CASE x \in T
    BY <1>2, <1>3, <2>1
  <2>2. CASE x \in S /\ x # b
    BY <1>1, <1>3, <2>2
  <2> QED  BY <1>2, <1>3, <2>1, <2>2
<1>4. a \in U /\ (Sink \in U => c = Sink)
  BY <1>1, <1>2
<1> HIDE DEF U
<1> QED  BY <1>3, <1>4 DEF Leads

\* ... and what holds for all users of a terminal holds for it.
LEMMA LeadsUsers ==
  ASSUME NEW n, NEW t, t # Sink, NEW p, \A u \in UsersOf(n, t) : Leads(n, u, p)
  PROVE  Leads(n, t, p)
<1> DEFINE Closed(S) == /\ \A x \in S \ {p, Sink} : UsersOf(n, x) \in SUBSET S
                        /\ Sink \in S => p = Sink
           Of(u) == CHOOSE S : u \in S /\ Closed(S)
           U == {t} \cup UNION {Of(u) : u \in UsersOf(n, t)}
<1>1. \A u \in UsersOf(n, t) : u \in Of(u) /\ Closed(Of(u))
  <2> HIDE DEF Closed
  <2> SUFFICES ASSUME NEW u \in UsersOf(n, t)  PROVE \E S : u \in S /\ Closed(S)
    BY DEF Of
  <2> QED  BY Zenon DEF Leads, Closed
<1> HIDE DEF Of
<1>2. Closed(U) /\ t \in U
  BY <1>1
<1> HIDE DEF U
<1> QED  BY Zenon, <1>2 DEF Leads

\* The gates of a set in their order are all of them.
LEMMA InOrderAll ==
  ASSUME NEW K \in SUBSET Gates
  PROVE  InOrder(K) \in Seq(K) /\ ToSet(InOrder(K)) = K
<1> DEFINE all == [g \in Gates |-> g]
<1>1. Gates = 1 .. MaxGates /\ MaxGates \in Nat
  BY NetAssumption DEF Gates
<1>2. all \in Seq(Gates) /\ DOMAIN all = Gates /\ \A g \in Gates : all[g] = g
  BY <1>1
<1>3. InOrder(K) \in Seq(K)
  BY InOrderOf
<1>4. InOrder(K) = Compact(all, K)
  BY DEF InOrder
<1> HIDE DEF all
<1>5. ASSUME NEW g \in K  PROVE g \in ToSet(InOrder(K))
  <2>1. \E j \in DOMAIN Compact(all, K) : Compact(all, K)[j] = all[g]
    BY <1>2, CompactKeeps
  <2> QED  BY <1>2, <1>4, <2>1 DEF ToSet
<1>6. ToSet(InOrder(K)) \in SUBSET K
  <2> DEFINE s == InOrder(K)
  <2>1. s \in Seq(K)
    BY <1>3
  <2> HIDE DEF s
  <2>2. ToSet(s) \in SUBSET K
    BY <2>1 DEF ToSet
  <2> QED  BY <2>2 DEF s
<1> QED  BY <1>3, <1>5, <1>6

\* GetUsers has the users of a terminal and no other.
LEMMA UserListOf ==
  ASSUME NEW n, IsNet(n), Listed(n), NEW t \in Terminals
  PROVE  UserList(n, t) \in Seq(UsersOf(n, t)) /\ ToSet(UserList(n, t)) = UsersOf(n, t)
<1> DEFINE U == UsersOf(n, t)
           gates == InOrder(U \ {Sink})
           sink == IF Sink \in U THEN <<Sink>> ELSE << >>
           users == gates \o sink
<1>1. U \in SUBSET Users /\ U \ {Sink} \in SUBSET Gates
  <2>1. n.uses \in [Terminals \cup {Null} -> SUBSET (Users \X Nat)]
    BY DEF IsNet
  <2>2. n.uses[t] \in SUBSET (Users \X Nat)
    BY <2>1
  <2> QED  BY <2>2 DEF UsersOf, Users
<1>2. gates \in Seq(U \ {Sink}) /\ ToSet(gates) = U \ {Sink}
  BY <1>1, InOrderAll
<1> HIDE DEF gates
<1>3. users \in Seq(U) /\ \A u \in U : \E j \in DOMAIN users : users[j] = u
  <2>1. gates \in Seq(U) /\ sink \in Seq(U) /\ Len(gates) \in Nat
    BY <1>2, SeqOfMore
  <2>2. users \in Seq(U)
    <3> HIDE DEF sink, U
    <3> QED  BY <2>1
  <2>3. ASSUME NEW u \in U \ {Sink}  PROVE \E j \in DOMAIN users : users[j] = u
    <3>1. PICK j \in DOMAIN gates : gates[j] = u
      BY <1>2, <2>3 DEF ToSet
    <3> HIDE DEF sink, U
    <3>2. j \in DOMAIN users /\ users[j] = gates[j]
      BY <2>1, <3>1
    <3> QED  BY <3>1, <3>2
  <2>4. ASSUME Sink \in U  PROVE \E j \in DOMAIN users : users[j] = Sink
    <3>1. sink = <<Sink>>
      BY <2>4
    <3> HIDE DEF sink, U
    <3>2. Len(gates) + 1 \in DOMAIN users /\ users[Len(gates) + 1] = Sink
      BY <2>1, <3>1
    <3> QED  BY <3>2
  <2> QED  BY <2>2, <2>3, <2>4
<1>4. ASSUME NEW u \in U  PROVE Cardinality(ReadAt(n, t, u)) \in Nat \ {0}
  <2>1. n.ins[u] \in Seq(Terminals \cup {Null})
    BY <1>1, InputPositions
  <2>2. Len(n.ins[u]) \in Nat /\ DOMAIN n.ins[u] = 1 .. Len(n.ins[u])
    BY <2>1
  <2>3. IsFiniteSet(ReadAt(n, t, u))
    <3>1. IsFiniteSet(1 .. Len(n.ins[u])) /\ ReadAt(n, t, u) \in SUBSET (1 .. Len(n.ins[u]))
      BY <2>2, FS_Interval DEF ReadAt
    <3> QED  BY <3>1, FS_Subset
  <2>4. ReadAt(n, t, u) # {}
    <3>1. PICK x \in n.uses[t] : u = x[1]
      BY DEF UsersOf
    <3>2. PICK i \in Nat : x = <<u, i>>
      <4>1. n.uses[t] \in SUBSET (Users \X Nat)
        BY DEF IsNet
      <4> QED  BY <3>1, <4>1
    <3>3. i \in DOMAIN n.ins[u] /\ n.ins[u][i] = t
      BY <1>1, <3>1, <3>2 DEF Listed
    <3> QED  BY <3>3 DEF ReadAt
  <2> QED  BY <2>3, <2>4, FS_CardinalityType, FS_EmptySet
<1>5. UserList(n, t) = ListUsers(n, t, users)
  BY DEF UserList, ListUsers, WithUser, ReadAt, gates
<1> HIDE DEF users
<1>6. PICK acc : /\ acc[0] = << >>
                 /\ \A k \in 1 .. Len(users) : acc[k] = WithUser(n, t, acc[k - 1], users[k])
                 /\ ListUsers(n, t, users) = acc[Len(users)]
  <2>1. users \in Seq(U)
    BY <1>3
  <2> HIDE DEF U
  <2> QED  BY <2>1, UserSteps
<1> HIDE DEF U
<1> DEFINE Good == {k \in 0 .. Len(users) :
                      acc[k] \in Seq(U) /\ \A j \in 1 .. k : users[j] \in ToSet(acc[k])}
<1>7. Len(users) \in Nat /\ 0 \in Good
  <2>1. Len(users) \in Nat /\ 0 \in 0 .. Len(users)
    BY <1>3
  <2>2. acc[0] \in Seq(U) /\ 1 .. 0 = {}
    BY <1>6
  <2> QED  BY <2>1, <2>2
<1>8. ASSUME NEW k \in 1 .. Len(users), k - 1 \in Good  PROVE k \in Good
  <2> DEFINE c == Cardinality(ReadAt(n, t, users[k]))
             more == [j \in 1 .. c |-> users[k]]
  <2>1. users[k] \in U /\ c \in Nat \ {0}
    BY <1>3, <1>4
  <2>2. acc[k] = acc[k - 1] \o more
    BY <1>6 DEF WithUser
  <2> HIDE DEF c
  <2>3. more \in Seq(U) /\ Len(more) = c /\ more[1] = users[k]
    BY <2>1
  <2> HIDE DEF more
  <2>4. acc[k - 1] \in Seq(U) /\ Len(acc[k - 1]) \in Nat
    BY <1>8
  <2>5. acc[k] \in Seq(U)
    BY <2>2, <2>3, <2>4
  <2>6. users[k] \in ToSet(acc[k])
    <3>1. Len(acc[k - 1]) + 1 \in DOMAIN acc[k] /\ acc[k][Len(acc[k - 1]) + 1] = users[k]
      BY <2>1, <2>2, <2>3, <2>4
    <3> QED  BY <3>1 DEF ToSet
  <2>7. ToSet(acc[k - 1]) \in SUBSET ToSet(acc[k])
    <3>1. \A j \in DOMAIN acc[k - 1] : j \in DOMAIN acc[k] /\ acc[k][j] = acc[k - 1][j]
      BY <2>2, <2>3, <2>4
    <3> QED  BY <3>1 DEF ToSet
  <2>8. ASSUME NEW j \in 1 .. k  PROVE users[j] \in ToSet(acc[k])
    <3>1. j = k \/ j \in 1 .. k - 1
      BY <1>7
    <3> QED  BY <1>8, <2>6, <2>7, <3>1
  <2> QED  BY <1>7, <2>5, <2>8
<1>9. \A k \in 0 .. Len(users) : k \in Good
  <2> HIDE DEF Good
  <2> QED  BY <1>7, <1>8, UpTo
<1>10. UserList(n, t) \in Seq(U) /\ \A j \in 1 .. Len(users) : users[j] \in ToSet(UserList(n, t))
  BY <1>5, <1>6, <1>7, <1>9
<1> DEFINE list == UserList(n, t)
<1>11. list \in Seq(U) /\ \A u \in U : u \in ToSet(list)
  BY <1>3, <1>10
<1> HIDE DEF list
<1>12. ToSet(list) = U
  BY <1>11 DEF ToSet
<1> QED  BY <1>11, <1>12 DEF list, U

----------------------------------------------------------------------------
(* The way up the tree from two terminals.                                  *)

\* The entries of a tree with the terminals D.
IsTree(D, tree) == tree \in [D -> [up : D, depth : Nat, kids : Seq(D)]]

\* p is the default terminal, or all ways from a lead through it.
Above(n, default, a, p) == p = default \/ (a # default /\ Leads(n, a, p))
AllUp(n, default, tree) == \A x \in DOMAIN tree : Above(n, default, x, tree[x].up)

\* That is a preorder, too, ...
LEMMA AboveSelf ==
  ASSUME NEW n, NEW default, NEW a
  PROVE  Above(n, default, a, a)
BY LeadsSelf DEF Above

\* ... since the default terminal is below nothing but itself.
LEMMA AboveTrans ==
  ASSUME NEW n, NEW default, NEW a, NEW b, NEW c, Above(n, default, a, b), Above(n, default, b, c)
  PROVE  Above(n, default, a, c)
BY LeadsTrans DEF Above

\* A pair of terminals on the ways up from a and from b.
OnWays(n, default, D, a, b, p) ==
  /\ p \in D \X D
  /\ \/ Above(n, default, a, p[1]) /\ Above(n, default, b, p[2])
     \/ Above(n, default, b, p[1]) /\ Above(n, default, a, p[2])

\* A step up the tree stays on the way, ...
LEMMA OneUp ==
  ASSUME NEW n, NEW default, NEW D, NEW tree, IsTree(D, tree), AllUp(n, default, tree),
         NEW a, NEW x \in D, Above(n, default, a, x)
  PROVE  tree[x].up \in D /\ Above(n, default, a, tree[x].up)
<1>1. tree[x].up \in D /\ x \in DOMAIN tree
  BY DEF IsTree
<1>2. Above(n, default, x, tree[x].up)
  BY <1>1 DEF AllUp
<1> QED  BY <1>1, <1>2, AboveTrans

\* ... and so do the steps up from two terminals, ...
LEMMA PairUp ==
  ASSUME NEW n, NEW default, NEW D, NEW tree, IsTree(D, tree), AllUp(n, default, tree),
         NEW a, NEW b, NEW p, OnWays(n, default, D, a, b, p)
  PROVE  OnWays(n, default, D, a, b, DeepUp(tree, p)) /\ OnWays(n, default, D, a, b, BothUp(tree, p))
<1>1. PICK x \in D, y \in D : p = <<x, y>>
  BY DEF OnWays
<1>2. p[1] = x /\ p[2] = y
  BY <1>1
<1>3. \A c, z : z \in D /\ Above(n, default, c, z) =>
        tree[z].up \in D /\ Above(n, default, c, tree[z].up)
  BY OneUp
<1> DEFINE Both(c, d, v, w) == Above(n, default, c, v) /\ Above(n, default, d, w)
<1>4. Both(a, b, x, y) \/ Both(b, a, x, y)
  BY <1>2 DEF OnWays
<1>5. \A v, w \in D : Both(a, b, v, w) \/ Both(b, a, v, w) => OnWays(n, default, D, a, b, <<v, w>>)
  BY DEF OnWays
<1>6. DeepUp(tree, p) \in {<<x, y>>, <<x, tree[y].up>>}
  BY <1>1, <1>2 DEF DeepUp
<1>7. BothUp(tree, p) \in {<<x, y>>, <<tree[x].up, tree[y].up>>}
  BY <1>1, <1>2 DEF BothUp
<1>8. tree[x].up \in D /\ tree[y].up \in D
  BY DEF IsTree
<1>9. \/ Both(a, b, x, tree[y].up) /\ Both(a, b, tree[x].up, tree[y].up)
      \/ Both(b, a, x, tree[y].up) /\ Both(b, a, tree[x].up, tree[y].up)
  BY <1>3, <1>4
<1> HIDE DEF Both
<1> QED  BY <1>4, <1>5, <1>6, <1>7, <1>8, <1>9

\* ... wherever they end: in a terminal on both ways, or in the default.
LEMMA LowestAbove ==
  ASSUME NEW n, NEW D, IsFiniteSet(D), NEW default \in D, NEW tree, IsTree(D, tree),
         AllUp(n, default, tree), NEW a \in D, NEW b \in D
  PROVE  LET m == LowestCommon(tree, default, a, b)
         IN  m \in D /\ Above(n, default, a, m) /\ Above(n, default, b, m)
<1> DEFINE m == LowestCommon(tree, default, a, b)
           l == Cardinality(D)
           ends == IF tree[a].depth > tree[b].depth THEN <<b, a>> ELSE <<a, b>>
           deeper == AllDeep(tree, ends, l)
           deep == IF ends[1] = ends[2] THEN ends ELSE deeper
           both == AllBoth(tree, deep, l)
           met == IF deep[1] = deep[2] THEN deep ELSE both
           On(p) == OnWays(n, default, D, a, b, p)
<1>1. l \in Nat /\ DOMAIN tree = D
  BY FS_CardinalityType DEF IsTree
<1>2. m = IF met[1] = met[2] THEN met[1] ELSE default
  BY <1>1 DEF LowestCommon, AllDeep, AllBoth, DeepUp, BothUp
<1>3. \A p : On(p) => On(DeepUp(tree, p)) /\ On(BothUp(tree, p))
  BY PairUp
<1>4. On(ends)
  BY AboveSelf DEF OnWays
<1> HIDE DEF On, l, ends
<1>5. On(deeper)
  <2>1. PICK acc : /\ acc[0] = ends
                   /\ \A k \in 1 .. l : acc[k] = DeepUp(tree, acc[k - 1])
                   /\ AllDeep(tree, ends, l) = acc[l]
    BY <1>1, DeepSteps
  <2> DEFINE Good == {k \in 0 .. l : On(acc[k])}
  <2>2. 0 \in Good /\ \A k \in 1 .. l : k - 1 \in Good => k \in Good
    BY <1>1, <1>3, <1>4, <2>1
  <2>3. \A k \in 0 .. l : k \in Good
    <3> HIDE DEF Good
    <3> QED  BY <1>1, <2>2, UpTo
  <2> QED  BY <1>1, <2>1, <2>3
<1> HIDE DEF deeper
<1>6. On(deep)
  BY <1>4, <1>5
<1> HIDE DEF deep
<1>7. On(both)
  <2>1. PICK acc : /\ acc[0] = deep
                   /\ \A k \in 1 .. l : acc[k] = BothUp(tree, acc[k - 1])
                   /\ AllBoth(tree, deep, l) = acc[l]
    BY <1>1, BothSteps
  <2> DEFINE Good == {k \in 0 .. l : On(acc[k])}
  <2>2. 0 \in Good /\ \A k \in 1 .. l : k - 1 \in Good => k \in Good
    BY <1>1, <1>3, <1>6, <2>1
  <2>3. \A k \in 0 .. l : k \in Good
    <3> HIDE DEF Good
    <3> QED  BY <1>1, <2>2, UpTo
  <2> QED  BY <1>1, <2>1, <2>3
<1> HIDE DEF both
<1>8. On(met)
  BY <1>7, <1>6
<1> DEFINE Goal(x) == x \in D /\ Above(n, default, a, x) /\ Above(n, default, b, x)
<1>9. Goal(default)
  BY DEF Above
<1>10. met[1] = met[2] => Goal(met[1])
  <2> HIDE DEF met
  <2>1. met[1] \in D
    BY <1>8 DEF On, OnWays
  <2> QED  BY <1>8, <2>1 DEF On, OnWays
<1> HIDE DEF met, Goal, m
<1>11. Goal(m)
  BY <1>2, <1>9, <1>10
<1> QED  BY <1>11 DEF Goal, m

\* That terminal of all users is on the way from each of them.
LEMMA PostDominatorAbove ==
  ASSUME NEW n, NEW D, IsFiniteSet(D), NEW default \in D, NEW tree, IsTree(D, tree),
         AllUp(n, default, tree), NEW users \in Seq(D), users # << >>
  PROVE  LET p == PostDominator(tree, default, users)
         IN  p \in D /\ \A u \in ToSet(users) : Above(n, default, u, p)
<1> DEFINE p == PostDominator(tree, default, users)
           args == Tail(users)
           l == Len(args)
<1>1. /\ args \in Seq(D) /\ l \in Nat /\ Len(users) = l + 1 /\ users[1] \in D
      /\ \A k \in 1 .. l : args[k] = users[k + 1] /\ args[k] \in D
  OBVIOUS
<1>2. p = Common(tree, default, users[1], args)
  BY DEF PostDominator, Common
<1> HIDE DEF args
<1>3. PICK acc : /\ acc[0] = users[1]
                 /\ \A k \in 1 .. Len(args) : acc[k] = LowestCommon(tree, default, args[k], acc[k - 1])
                 /\ Common(tree, default, users[1], args) = acc[Len(args)]
  BY <1>1, CommonSteps
<1> DEFINE Good == {k \in 0 .. l : /\ acc[k] \in D
                                   /\ \A j \in 1 .. k + 1 : Above(n, default, users[j], acc[k])}
<1>4. 0 \in Good
  <2>1. 1 .. 0 + 1 = {1}
    OBVIOUS
  <2> QED  BY <1>1, <1>3, <2>1, AboveSelf
<1>5. ASSUME NEW k \in 1 .. l, k - 1 \in Good  PROVE k \in Good
  <2>1. k \in Nat /\ k \in 0 .. l /\ (k - 1) + 1 = k /\ 1 .. k + 1 = (1 .. k) \cup {k + 1}
    BY <1>1
  <2>2. acc[k - 1] \in D /\ \A j \in 1 .. k : Above(n, default, users[j], acc[k - 1])
    BY <1>5, <2>1
  <2>3. args[k] = users[k + 1] /\ args[k] \in D /\ acc[k] = LowestCommon(tree, default, args[k], acc[k - 1])
    BY <1>1, <1>3
  <2>4. acc[k] \in D /\ Above(n, default, args[k], acc[k]) /\ Above(n, default, acc[k - 1], acc[k])
    <3>1. \A x, y \in D :
            LET m == LowestCommon(tree, default, x, y)
            IN  m \in D /\ Above(n, default, x, m) /\ Above(n, default, y, m)
      BY LowestAbove
    <3> QED  BY <2>2, <2>3, <3>1
  <2>5. \A j \in 1 .. k : Above(n, default, users[j], acc[k])
    BY <2>2, <2>4, AboveTrans
  <2>6. \A j \in 1 .. k + 1 : Above(n, default, users[j], acc[k])
    <3>1. Above(n, default, users[k + 1], acc[k])
      BY <2>3, <2>4
    <3> QED  BY Zenon, <2>1, <2>5, <3>1
  <2> QED  BY <2>1, <2>4, <2>6
<1>6. \A k \in 0 .. l : k \in Good
  <2> HIDE DEF Good
  <2> QED  BY <1>1, <1>4, <1>5, UpTo
<1>7. p \in D /\ \A j \in 1 .. l + 1 : Above(n, default, users[j], p)
  BY <1>1, <1>2, <1>3, <1>6
<1> HIDE DEF p
<1>8. \A u \in ToSet(users) : Above(n, default, u, p)
  BY <1>1, <1>7 DEF ToSet
<1> QED  BY <1>7, <1>8 DEF p

----------------------------------------------------------------------------
(* The tree, as its entries are grafted.                                    *)

\* All ways from what hangs below a terminal in the tree lead through it, and the default
\* terminal hangs nowhere, ...
KidsUp(n, default, tree) ==
  \A p \in DOMAIN tree : \A i \in DOMAIN tree[p].kids :
    p = default \/ Leads(n, tree[p].kids[i], p)
HangsBelow(tree, t, p) == \E i \in DOMAIN tree[p].kids : tree[p].kids[i] = t
Growing(n, default, D, tree) ==
  /\ IsTree(D, tree) /\ AllUp(n, default, tree) /\ KidsUp(n, default, tree)
  /\ \A p \in D : ~ HangsBelow(tree, default, p)

\* ... until it is grafted itself, last of all.
Complete(n, default, D, tree) ==
  /\ IsTree(D, tree) /\ KidsUp(n, default, tree)
  /\ tree[default].kids = << >> \/ \A p \in D \ {default} : ~ HangsBelow(tree, default, p)

\* A tree that may still grow is one that may be walked.
LEMMA GrowingComplete ==
  ASSUME NEW n, NEW default, NEW D, NEW tree, Growing(n, default, D, tree)
  PROVE  Complete(n, default, D, tree)
BY DEF Growing, Complete

\* The entries of m, the tree once t hangs below p.
Hung(D, tree, t, p, m) ==
  /\ IsTree(D, m)
  /\ \A x \in D : m[x].up = IF x = t THEN p ELSE tree[x].up
  /\ \A x \in D : m[x].kids = LET kids == IF x = t THEN << >> ELSE tree[x].kids
                              IN  IF x = p THEN Append(kids, t) ELSE kids

\* Graft hangs t below p, without what hung below t.
LEMMA GraftEntries ==
  ASSUME NEW D, NEW tree, IsTree(D, tree), NEW t \in D, NEW p \in D
  PROVE  Hung(D, tree, t, p, Graft(tree, t, p))
<1> DEFINE T == [up : D, depth : Nat, kids : Seq(D)]
           e == [up |-> p, depth |-> tree[p].depth + 1, kids |-> << >>]
           base == [tree EXCEPT ![t] = e]
           m == [base EXCEPT ![p].kids = Append(@, t)]
<1>1. tree \in [D -> T]
  BY DEF IsTree
<1>2. e \in T
  <2>1. tree[p] \in T
    BY <1>1
  <2>2. tree[p].depth \in Nat
    BY <2>1
  <2> QED  BY <2>2
<1>3. base \in [D -> T] /\ \A x \in D : base[x] = IF x = t THEN e ELSE tree[x]
  BY <1>1, <1>2
<1> HIDE DEF base
<1>4. \A x \in D : base[x] \in T
  BY <1>3
<1>5. Append(base[p].kids, t) \in Seq(D)
  <2>1. base[p] \in T
    BY <1>4
  <2>2. base[p].kids \in Seq(D)
    BY <2>1
  <2> QED  BY <2>2
<1> DEFINE f == [base[p] EXCEPT !.kids = Append(@, t)]
<1>6. f \in T /\ f.up = base[p].up /\ f.kids = Append(base[p].kids, t)
  <2>1. base[p] \in T
    BY <1>4
  <2> QED  BY <1>5, <2>1
<1>7. m = [base EXCEPT ![p] = f]
  BY <1>3
<1> HIDE DEF f
<1>8. m \in [D -> T] /\ \A x \in D : m[x] = IF x = p THEN f ELSE base[x]
  BY <1>3, <1>6, <1>7
<1>9. m = Graft(tree, t, p)
  BY DEF Graft, base
<1> HIDE DEF m
<1>10. IsTree(D, m)
  BY <1>8 DEF IsTree
<1>11. \A x \in D : m[x].up = base[x].up /\ base[x].up = IF x = t THEN p ELSE tree[x].up
  BY <1>3, <1>6, <1>8
<1>12. \A x \in D : base[x].kids = IF x = t THEN << >> ELSE tree[x].kids
  BY <1>3
<1>13. \A x \in D : m[x].kids = IF x = p THEN Append(base[x].kids, t) ELSE base[x].kids
  BY <1>6, <1>8
<1>14. \A x \in D : m[x].kids = LET kids == IF x = t THEN << >> ELSE tree[x].kids
                                 IN  IF x = p THEN Append(kids, t) ELSE kids
  BY <1>12, <1>13
<1> HIDE DEF e
<1> QED  BY <1>9, <1>10, <1>11, <1>14 DEF Hung

\* What hangs below x then hung there before, or is t below p.
LEMMA GraftHangs ==
  ASSUME NEW D, NEW tree, IsTree(D, tree), NEW t \in D, NEW p \in D, NEW x \in D, NEW y,
         HangsBelow(Graft(tree, t, p), y, x)
  PROVE  (HangsBelow(tree, y, x) /\ x # t) \/ (x = p /\ y = t)
<1> DEFINE m == Graft(tree, t, p)
           kids == IF x = t THEN << >> ELSE tree[x].kids
<1>1. m[x].kids = IF x = p THEN Append(kids, t) ELSE kids
  BY GraftEntries DEF Hung
<1>2. kids \in Seq(D)
  BY DEF IsTree
<1>3. PICK i \in DOMAIN m[x].kids : m[x].kids[i] = y
  BY DEF HangsBelow
<1> HIDE DEF m
<1>4. (i \in DOMAIN kids /\ kids[i] = y) \/ (x = p /\ y = t)
  <2> HIDE DEF kids
  <2> QED  BY <1>1, <1>2, <1>3
<1>5. ASSUME i \in DOMAIN kids, kids[i] = y  PROVE HangsBelow(tree, y, x) /\ x # t
  BY <1>5 DEF HangsBelow
<1> QED  BY <1>4, <1>5

\* A terminal hung below the post-dominator of its users hangs where it should.
LEMMA GraftedRight ==
  ASSUME NEW n, IsNet(n), Listed(n), NEW D, IsFiniteSet(D), NEW default \in D, NEW tree,
         Growing(n, default, D, tree), NEW t \in D, t \in Terminals, UsersOf(n, t) # {},
         UsersOf(n, t) \in SUBSET D
  PROVE  LET m == Grafted(n, default, tree, t)
         IN  Complete(n, default, D, m) /\ (t # default => Growing(n, default, D, m))
<1> DEFINE users == UserList(n, t)
           p == PostDominator(tree, default, users)
           m == Graft(tree, t, p)
<1>1. Grafted(n, default, tree, t) = m
  BY DEF Grafted
<1>2. users \in Seq(D) /\ users # << >> /\ ToSet(users) = UsersOf(n, t)
  <2>1. users \in Seq(UsersOf(n, t)) /\ ToSet(users) = UsersOf(n, t)
    BY UserListOf
  <2> HIDE DEF users
  <2>2. users # << >>
    BY <2>1 DEF ToSet
  <2>3. users \in Seq(D)
    BY <2>1, SeqOfMore
  <2> QED  BY <2>1, <2>2, <2>3
<1> HIDE DEF users
<1>3. IsTree(D, tree) /\ AllUp(n, default, tree) /\ KidsUp(n, default, tree) /\ DOMAIN tree = D
  BY DEF Growing, IsTree
<1>4. p \in D /\ \A u \in UsersOf(n, t) : Above(n, default, u, p)
  BY <1>2, <1>3, PostDominatorAbove
<1> HIDE DEF p
<1>5. p = default \/ Leads(n, t, p)
  <2>1. t # Sink
    BY NetAssumption DEF Terminals, Sink, Gates
  <2>2. p # default => \A u \in UsersOf(n, t) : Leads(n, u, p)
    BY <1>4 DEF Above
  <2> QED  BY <2>1, <2>2, LeadsUsers
<1>13. Hung(D, tree, t, p, m)
  BY <1>3, <1>4, GraftEntries
<1>6. /\ IsTree(D, m) /\ DOMAIN m = D
      /\ \A x \in D : m[x].up = IF x = t THEN p ELSE tree[x].up
  <2> HIDE DEF m
  <2>1. IsTree(D, m) /\ \A x \in D : m[x].up = IF x = t THEN p ELSE tree[x].up
    BY <1>13 DEF Hung
  <2> QED  BY <2>1 DEF IsTree
<1>7. \A x \in D : \A y : HangsBelow(m, y, x) =>
        (HangsBelow(tree, y, x) /\ x # t) \/ (x = p /\ y = t)
  BY <1>3, <1>4, GraftHangs
<1>8. t = default /\ p # default => m[default].kids = << >>
  <2> HIDE DEF m
  <2> QED  BY <1>13 DEF Hung
<1> HIDE DEF m
<1>9. KidsUp(n, default, m)
  <2> SUFFICES ASSUME NEW x \in D, NEW i \in DOMAIN m[x].kids
               PROVE  x = default \/ Leads(n, m[x].kids[i], x)
    BY <1>6 DEF KidsUp
  <2>1. HangsBelow(m, m[x].kids[i], x)
    BY DEF HangsBelow
  <2>2. CASE x = p /\ m[x].kids[i] = t
    BY <1>5, <2>2
  <2>3. CASE HangsBelow(tree, m[x].kids[i], x)
    <3>1. PICK j \in DOMAIN tree[x].kids : tree[x].kids[j] = m[x].kids[i]
      BY <2>3 DEF HangsBelow
    <3> QED  BY <1>3, <3>1 DEF KidsUp
  <2> QED  BY <1>7, <2>1, <2>2, <2>3
<1>10. \A x \in D : ~ HangsBelow(tree, default, x)
  BY DEF Growing
<1>11. ASSUME t # default  PROVE Growing(n, default, D, m)
  <2>1. \A x \in D : ~ HangsBelow(m, default, x)
    BY <1>7, <1>10, <1>11
  <2>2. AllUp(n, default, m)
    <3> SUFFICES ASSUME NEW x \in D  PROVE Above(n, default, x, m[x].up)
      BY <1>6 DEF AllUp
    <3>1. CASE x = t
      BY <1>5, <1>6, <1>11, <3>1 DEF Above
    <3>2. CASE x # t
      BY <1>3, <1>6, <3>2 DEF AllUp
    <3> QED  BY <3>1, <3>2
  <2> QED  BY <1>6, <1>9, <2>1, <2>2 DEF Growing
<1>12. ASSUME t = default  PROVE Complete(n, default, D, m)
  <2>1. CASE p # default
    BY <1>6, <1>8, <1>9, <1>12, <2>1 DEF Complete
  <2>2. CASE p = default
    <3>1. \A x \in D \ {default} : ~ HangsBelow(m, default, x)
      BY <1>7, <1>10, <2>2
    <3> QED  BY <1>6, <1>9, <3>1 DEF Complete
  <2> QED  BY <2>1, <2>2
<1> QED  BY <1>1, <1>11, <1>12, GrowingComplete DEF m

\* The tree of an order in which the default terminal comes first, if it comes.
LEMMA TreeComplete ==
  ASSUME NEW n, IsNet(n), Listed(n), NEW sinks, NEW default, NEW order \in Seq(Terminals),
         IsFiniteSet(KnownTerminals(n, order, sinks) \cup {default}),
         \A i \in DOMAIN order : UsersOf(n, order[i]) # {} /\ (order[i] = default => i = 1)
  PROVE  Complete(n, default, KnownTerminals(n, order, sinks) \cup {default},
                  PostDominatorTree(n, order, sinks, default))
<1> DEFINE D == KnownTerminals(n, order, sinks) \cup {default}
           first == [t \in D |-> [up |-> default, depth |-> 0, kids |-> << >>]]
           args == Reverse(order)
           l == Len(order)
           tree == PostDominatorTree(n, order, sinks, default)
<1>1. l \in Nat /\ DOMAIN order = 1 .. l
  OBVIOUS
<1>2. /\ args \in Seq(Terminals) /\ Len(args) = l
      /\ \A k \in 1 .. l : l - k + 1 \in DOMAIN order /\ args[k] = order[l - k + 1]
  <2>1. args = [k \in 1 .. l |-> order[l - k + 1]]
    BY DEF Reverse
  <2>2. \A k \in 1 .. l : l - k + 1 \in 1 .. l /\ order[l - k + 1] \in Terminals
    <3> TAKE k \in 1 .. l
    <3>1. l - k + 1 \in 1 .. l
      <4> HIDE DEF l
      <4> QED  BY <1>1
    <3> QED  BY <1>1, <3>1
  <2> HIDE DEF args, l
  <2> QED  BY <1>1, <2>1, <2>2
<1>3. tree = AllGrafted(n, default, first, args)
  BY DEF PostDominatorTree, AllGrafted, Grafted
<1>4. \A k \in 1 .. l : args[k] \in D /\ UsersOf(n, args[k]) \in SUBSET D
  <2> SUFFICES ASSUME NEW i \in DOMAIN order  PROVE order[i] \in D /\ UsersOf(n, order[i]) \in SUBSET D
    BY <1>2
  <2> QED  BY DEF KnownTerminals, ToSet
<1>5. \A k \in 1 .. l : UsersOf(n, args[k]) # {} /\ (args[k] = default => k = l)
  <2> TAKE k \in 1 .. l
  <2>1. l - k + 1 = 1 => k = l
    <3> HIDE DEF l
    <3> QED  BY <1>1
  <2> QED  BY <1>2, <2>1
<1>6. IsFiniteSet(D) /\ default \in D
  OBVIOUS
<1> HIDE DEF D
<1>7. Growing(n, default, D, first)
  <2>1. IsTree(D, first)
    BY <1>6 DEF IsTree
  <2>2. \A x \in D : first[x].up = default /\ first[x].kids = << >>
    OBVIOUS
  <2>3. DOMAIN first = D
    OBVIOUS
  <2> HIDE DEF first
  <2>4. AllUp(n, default, first)
    BY <2>2, <2>3 DEF AllUp, Above
  <2>5. KidsUp(n, default, first) /\ \A p \in D : ~ HangsBelow(first, default, p)
    BY <2>2, <2>3 DEF KidsUp, HangsBelow
  <2> QED  BY <2>1, <2>4, <2>5 DEF Growing
<1> HIDE DEF args, first
<1>8. PICK acc : /\ acc[0] = first
                 /\ \A k \in 1 .. Len(args) : acc[k] = Grafted(n, default, acc[k - 1], args[k])
                 /\ AllGrafted(n, default, first, args) = acc[Len(args)]
  BY <1>2, GraftSteps
<1> HIDE DEF l
<1> DEFINE Good == {k \in 0 .. l : /\ k < l => Growing(n, default, D, acc[k])
                                   /\ Complete(n, default, D, acc[k])}
<1>9. 0 \in Good
  BY <1>1, <1>7, <1>8, GrowingComplete
<1>10. ASSUME NEW k \in 1 .. l, k - 1 \in Good  PROVE k \in Good
  <2>1. Growing(n, default, D, acc[k - 1])
    BY <1>1, <1>10
  <2>2. args[k] \in Terminals
    BY <1>2
  <2>3. LET m == Grafted(n, default, acc[k - 1], args[k])
        IN  Complete(n, default, D, m) /\ (args[k] # default => Growing(n, default, D, m))
    BY <1>4, <1>5, <1>6, <2>1, <2>2, GraftedRight
  <2>4. acc[k] = Grafted(n, default, acc[k - 1], args[k])
    BY <1>2, <1>8
  <2> QED  BY <1>1, <1>5, <2>3, <2>4
<1>11. \A k \in 0 .. l : k \in Good
  <2> HIDE DEF Good
  <2> QED  BY <1>1, <1>9, <1>10, UpTo
<1>12. Complete(n, default, D, tree)
  BY <1>1, <1>2, <1>3, <1>8, <1>11
<1> QED  BY <1>12 DEF D, tree

----------------------------------------------------------------------------
(* The walk down the tree.                                                  *)

\* The paths of the walk: from a sink, each step to what hangs below.
Descents(D, sinks, default, tree) ==
  {p \in Seq(D) :
     /\ p # << >> /\ p[1] \in sinks
     /\ \A i \in 1 .. Len(p) - 1 : p[i] # default /\ HangsBelow(tree, p[i + 1], p[i])}

\* A step down from the end of such a path is one.
LEMMA PathLonger ==
  ASSUME NEW n, NEW default, NEW D, default \in D, NEW tree, Complete(n, default, D, tree),
         NEW sinks \in SUBSET D, default \notin sinks,
         NEW p \in Descents(D, sinks, default, tree)
  PROVE  PathsBelow(tree, p) \in Seq(Descents(D, sinks, default, tree))
<1> DEFINE x == Last(p)
           l == Len(p)
           kids == tree[x].kids
<1>1. p \in Seq(D) /\ l \in Nat \ {0} /\ x \in D /\ x = p[l] /\ p[1] \in sinks
  BY DEF Descents, Last
<1>2. kids \in Seq(D)
  BY <1>1 DEF Complete, IsTree
<1>3. kids # << >> => x # default
  <2> SUFFICES ASSUME x = default  PROVE kids = << >>
    OBVIOUS
  <2>1. l # 1
    BY <1>1
  <2>2. l - 1 \in 1 .. l - 1 /\ l - 1 \in DOMAIN p /\ (l - 1) + 1 = l
    <3> HIDE DEF x
    <3> QED  BY <1>1, <2>1
  <2>3. p[l - 1] # default /\ HangsBelow(tree, default, p[l - 1]) /\ p[l - 1] \in D
    <3>1. p[l - 1] \in D
      BY <1>1, <2>2
    <3>2. p[l - 1] # default /\ HangsBelow(tree, p[(l - 1) + 1], p[l - 1])
      BY <2>2 DEF Descents
    <3> HIDE DEF x, l
    <3> QED  BY <1>1, <2>2, <3>1, <3>2
  <2> QED  BY <2>3 DEF Complete
<1> HIDE DEF x
<1>4. ASSUME NEW k \in DOMAIN kids
      PROVE  Append(p, kids[k]) \in Descents(D, sinks, default, tree)
  <2> DEFINE q == Append(p, kids[k])
  <2>1. kids[k] \in D /\ kids # << >>
    BY <1>2, <1>4
  <2>2. q \in Seq(D) /\ Len(q) = l + 1 /\ q[l + 1] = kids[k] /\ \A i \in 1 .. l : q[i] = p[i]
    BY <1>1, <2>1
  <2>3. q # << >> /\ q[1] \in sinks
    BY <1>1, <2>2
  <2>4. ASSUME NEW i \in 1 .. Len(q) - 1
        PROVE  q[i] # default /\ HangsBelow(tree, q[i + 1], q[i])
    <3>1. i \in 1 .. l
      <4> HIDE DEF q, l
      <4> QED  BY <1>1, <2>2, <2>4
    <3>2. CASE i = l
      <4>1. q[i] = x /\ q[i + 1] = kids[k]
        BY <1>1, <2>2, <3>1, <3>2
      <4>2. HangsBelow(tree, kids[k], x)
        BY <1>4 DEF HangsBelow
      <4> HIDE DEF q, kids
      <4> QED  BY <1>3, <2>1, <4>1, <4>2
    <3>3. CASE i # l
      <4>1. i \in 1 .. l - 1 /\ i + 1 \in 1 .. l
        <5> HIDE DEF l
        <5> QED  BY <1>1, <3>1, <3>3
      <4>2. q[i] = p[i] /\ q[i + 1] = p[i + 1]
        BY <2>2, <3>1, <4>1
      <4>3. p[i] # default /\ HangsBelow(tree, p[i + 1], p[i])
        BY <4>1 DEF Descents
      <4> HIDE DEF q
      <4> QED  BY <4>2, <4>3
    <3> QED  BY <3>2, <3>3
  <2> HIDE DEF q
  <2>5. q \in Descents(D, sinks, default, tree)
    BY <2>2, <2>3, <2>4 DEF Descents
  <2> QED  BY <2>5 DEF q
<1>5. PathsBelow(tree, p) = [k \in DOMAIN kids |-> Append(p, kids[k])]
  BY DEF PathsBelow, x
<1>6. DOMAIN kids = 1 .. Len(kids) /\ Len(kids) \in Nat
  BY <1>2
<1> HIDE DEF kids
<1> QED  BY <1>4, <1>5, <1>6

\* WalkTree follows such paths, and no other.
LEMMA WalkRight ==
  ASSUME NEW n, NEW default, NEW D, default \in D, IsFiniteSet(D), NEW tree, Complete(n, default, D, tree),
         NEW sinks \in Seq(D), default \notin ToSet(sinks)
  PROVE  WalkTree(tree, sinks) \in Seq(Descents(D, ToSet(sinks), default, tree))
<1> DEFINE P == Descents(D, ToSet(sinks), default, tree)
           first == [paths |-> [k \in DOMAIN sinks |-> <<sinks[k]>>], depth |-> 1]
           l == Cardinality(D)
<1>1. l \in Nat /\ DOMAIN tree = D
  BY FS_CardinalityType DEF Complete, IsTree
<1>2. WalkTree(tree, sinks) = Deepest(tree, first, l).paths
  BY <1>1 DEF WalkTree, Deepest, OneDeeper, AllPaths, WithPath, PathsBelow
<1>3. ToSet(sinks) \in SUBSET D
  BY DEF ToSet
<1>4. \A p \in P : PathsBelow(tree, p) \in Seq(P)
  BY <1>3, PathLonger
<1>5. first.paths \in Seq(P)
  <2>1. \A k \in DOMAIN sinks : <<sinks[k]>> \in P
    <3> TAKE k \in DOMAIN sinks
    <3> DEFINE p == <<sinks[k]>>
    <3>1. p \in Seq(D) /\ p # << >> /\ p[1] = sinks[k] /\ 1 .. Len(p) - 1 = {} /\ sinks[k] \in ToSet(sinks)
      BY DEF ToSet
    <3> HIDE DEF p
    <3>2. p \in P
      BY <3>1 DEF Descents
    <3> QED  BY <3>2 DEF p
  <2> HIDE DEF P
  <2>2. DOMAIN sinks = 1 .. Len(sinks) /\ Len(sinks) \in Nat
    OBVIOUS
  <2> QED  BY <2>1, <2>2
<1> HIDE DEF P
<1>6. \A depth : \A paths \in Seq(P) : AllPaths(tree, depth, paths) \in Seq(P)
  <2> TAKE depth
  <2> TAKE paths \in Seq(P)
  <2>1. PICK acc : /\ acc[0] = << >>
                   /\ \A k \in 1 .. Len(paths) : acc[k] = WithPath(tree, depth, acc[k - 1], paths[k])
                   /\ AllPaths(tree, depth, paths) = acc[Len(paths)]
    BY PathSteps
  <2> DEFINE Good == {k \in 0 .. Len(paths) : acc[k] \in Seq(P)}
  <2>2. Len(paths) \in Nat /\ 0 \in Good
    <3>1. Len(paths) \in Nat
      OBVIOUS
    <3>2. 0 \in 0 .. Len(paths)
      BY <3>1
    <3>3. acc[0] \in Seq(P)
      BY <2>1
    <3> QED  BY <3>1, <3>2, <3>3
  <2>3. ASSUME NEW k \in 1 .. Len(paths), k - 1 \in Good  PROVE k \in Good
    <3> DEFINE more == IF Len(paths[k]) = depth THEN PathsBelow(tree, paths[k]) ELSE << >>
    <3>1. paths[k] \in P /\ acc[k - 1] \in Seq(P)
      BY <2>3
    <3>2. more \in Seq(P)
      BY <1>4, <3>1
    <3>3. acc[k] = acc[k - 1] \o <<paths[k]>> \o more
      BY <2>1 DEF WithPath
    <3> HIDE DEF more
    <3>4. acc[k] \in Seq(P)
      BY <3>1, <3>2, <3>3
    <3> QED  BY <2>2, <3>4
  <2>4. \A k \in 0 .. Len(paths) : k \in Good
    <3> HIDE DEF Good
    <3> QED  BY <2>2, <2>3, UpTo
  <2> QED  BY <2>1, <2>2, <2>4
<1> HIDE DEF l, first
<1>7. PICK acc : /\ acc[0] = first
                 /\ \A k \in 1 .. l : acc[k] = OneDeeper(tree, acc[k - 1])
                 /\ Deepest(tree, first, l) = acc[l]
  BY <1>1, DeeperSteps
<1> DEFINE Good == {k \in 0 .. l : acc[k].paths \in Seq(P)}
<1>8. 0 \in Good
  BY <1>1, <1>5, <1>7
<1>9. ASSUME NEW k \in 1 .. l, k - 1 \in Good  PROVE k \in Good
  <2>1. acc[k].paths = AllPaths(tree, acc[k - 1].depth, acc[k - 1].paths)
    <3>1. acc[k] = OneDeeper(tree, acc[k - 1])
      BY <1>7
    <3>2. OneDeeper(tree, acc[k - 1]).paths = AllPaths(tree, acc[k - 1].depth, acc[k - 1].paths)
      BY DEF OneDeeper
    <3> QED  BY <3>1, <3>2
  <2> QED  BY <1>1, <1>6, <1>9, <2>1
<1>10. \A k \in 0 .. l : k \in Good
  <2> HIDE DEF Good
  <2> QED  BY <1>1, <1>8, <1>9, UpTo
<1> QED  BY <1>1, <1>2, <1>7, <1>10 DEF P

\* The last of finitely many visits.
LEMMA LastVisit ==
  ASSUME NEW l \in Nat, NEW V \in SUBSET (1 .. l), V # {}
  PROVE  (CHOOSE i \in V : \A j \in V : i >= j) \in V
<1> DEFINE B == {k \in Nat : \A j \in V : k >= j}
<1>1. l \in B
  OBVIOUS
<1>2. PICK m \in B : \A k \in B : m <= k
  BY <1>1, LeastElement, B \in SUBSET Nat
<1>3. m \in V
  <2> SUFFICES ASSUME m \notin V  PROVE FALSE
    OBVIOUS
  <2>1. \A j \in V : j \in Nat /\ j >= 1 /\ m > j
    BY <1>2
  <2>2. m - 1 \in B
    <3>1. PICK j \in V : TRUE
      OBVIOUS
    <3>2. m \in Nat /\ j >= 1 /\ m > j /\ j \in Nat
      BY <1>2, <2>1
    <3>3. m - 1 \in Nat
      BY <3>2
    <3>4. \A i \in V : m - 1 >= i
      BY <2>1, <3>2
    <3> QED  BY <3>3, <3>4
  <2> QED  BY <1>2, <2>2
<1>4. \E i \in V : \A j \in V : i >= j
  BY <1>2, <1>3
<1> QED  BY <1>4

\* What Check says: all ways from t lead through d.
LEMMA CheckLeads ==
  ASSUME NEW n, NEW default, NEW D, NEW tree, Complete(n, default, D, tree), NEW sinks,
         NEW walk \in Seq(Descents(D, sinks, default, tree)), NEW d, NEW t, Check(walk, d, t)
  PROVE  Leads(n, t, d)
<1> DEFINE P == Descents(D, sinks, default, tree)
           p == LastPath(walk, d)
           q == LastPath(walk, t)
<1>1. ASSUME NEW x, Visits(walk, x) # {}  PROVE LastPath(walk, x) \in P /\ Last(LastPath(walk, x)) = x
  <2> DEFINE V == Visits(walk, x)
             i == CHOOSE i \in V : \A j \in V : i >= j
  <2>1. V \in SUBSET (1 .. Len(walk)) /\ Len(walk) \in Nat
    BY DEF Visits
  <2>2. LastPath(walk, x) = walk[i]
    BY DEF LastPath
  <2> HIDE DEF V
  <2>3. i \in V
    BY <1>1, <2>1, LastVisit DEF V
  <2> HIDE DEF i
  <2>4. i \in DOMAIN walk /\ Last(walk[i]) = x
    BY <2>3 DEF V, Visits
  <2> QED  BY <2>2, <2>4
<1>2. p \in P /\ Last(p) = d /\ q \in P /\ Last(q) = t /\ IsPrefix(p, q)
  BY <1>1 DEF Check
<1> HIDE DEF p, q
<1>3. /\ p \in Seq(D) /\ q \in Seq(D) /\ p # << >> /\ q # << >>
      /\ \A i \in 1 .. Len(q) - 1 : q[i] # default /\ HangsBelow(tree, q[i + 1], q[i])
  BY <1>2 DEF Descents
<1> DEFINE a == Len(p)
           b == Len(q)
<1>4. a \in Nat \ {0} /\ b \in Nat \ {0} /\ a <= b /\ p[a] = d /\ q[b] = t
  BY <1>2, <1>3 DEF Last, IsPrefix
<1>5. q[a] = d
  <2>1. SubSeq(p, 1, a)[a] = p[a] /\ SubSeq(q, 1, a)[a] = q[a]
    BY <1>3, <1>4
  <2> QED  BY <1>2, <1>4, <2>1 DEF IsPrefix
<1> HIDE DEF a, b
<1> DEFINE Good == {k \in 0 .. b - a : Leads(n, q[a + k], d)}
<1>6. b - a \in Nat /\ 0 \in Good
  <2>1. b - a \in Nat /\ a + 0 = a
    BY <1>4
  <2> QED  BY <1>5, <2>1, LeadsSelf
<1>7. ASSUME NEW k \in 1 .. b - a, k - 1 \in Good  PROVE k \in Good
  <2> DEFINE i == a + (k - 1)
  <2>1. i \in 1 .. b - 1 /\ i + 1 = a + k
    BY <1>4
  <2>2. q[i] # default /\ HangsBelow(tree, q[i + 1], q[i]) /\ q[i] \in D
    <3>1. i \in DOMAIN q
      BY <1>3, <1>4, <2>1 DEF b
    <3> HIDE DEF i
    <3> QED  BY <1>3, <2>1, <3>1 DEF b
  <2>3. Leads(n, q[i], d)
    BY <1>7
  <2> HIDE DEF i
  <2>4. PICK j \in DOMAIN tree[q[i]].kids : tree[q[i]].kids[j] = q[i + 1]
    BY <2>2 DEF HangsBelow
  <2>5. Leads(n, q[i + 1], q[i])
    BY <2>2, <2>4 DEF Complete, KidsUp, IsTree
  <2>6. Leads(n, q[i + 1], d)
    BY <2>3, <2>5, LeadsTrans
  <2> QED  BY <1>6, <2>1, <2>6
<1>8. \A k \in 0 .. b - a : k \in Good
  <2> HIDE DEF Good
  <2> QED  BY <1>6, <1>7, UpTo
<1>9. Leads(n, q[a + (b - a)], d)
  BY <1>6, <1>8
<1>10. a + (b - a) = b
  BY <1>4
<1> QED  BY <1>4, <1>9, <1>10

----------------------------------------------------------------------------
(* The order of TopoSort.                                                   *)

\* The users of a terminal are gates, and the sink.
LEMMA UsersTyped ==
  ASSUME NEW n, IsNet(n), NEW t \in Terminals
  PROVE  t \in DOMAIN n.uses /\ UsersOf(n, t) \in SUBSET Users
<1>1. n.uses \in [Terminals \cup {Null} -> SUBSET (Users \X Nat)]
  BY DEF IsNet
<1>2. n.uses[t] \in SUBSET (Users \X Nat)
  BY <1>1
<1> QED  BY <1>1, <1>2 DEF UsersOf

\* If all ways from t lead through d, then without d none comes to an output.
LEMMA DownKept ==
  ASSUME IsNet(net), NEW t \in Gates, NEW d \in Gates \ {t}, Leads(net, t, d)
  PROVE  Sink \notin Downstream(Stopped({d}), UsersOf(net, t))
<1> DEFINE m == Stopped({d})
           T == UsersOf(net, t)
           l == Cardinality(Live(m))
<1>1. PICK S : /\ t \in S
               /\ \A x \in S \ {d, Sink} : UsersOf(net, x) \in SUBSET S
               /\ Sink \in S => d = Sink
  BY DEF Leads
<1>2. d # Sink /\ t # Sink /\ t # d
  BY NetAssumption DEF Gates, Sink
<1>3. T \in SUBSET S /\ T \in SUBSET Users
  BY <1>1, <1>2, UsersTyped DEF Terminals
<1> HIDE DEF T
<1>4. \A u \in Gates : UsersOf(m, u) = IF u = d THEN {} ELSE UsersOf(net, u)
  <2> TAKE u \in Gates
  <2>1. u \in DOMAIN net.uses /\ "uses" \in DOMAIN net
    BY UsersTyped DEF Terminals, IsNet
  <2>2. m.uses[u] = IF u = d THEN {} ELSE net.uses[u]
    BY <2>1 DEF Stopped
  <2> HIDE DEF m
  <2> QED  BY <2>2 DEF UsersOf
<1>5. Downstream(m, T) = Down(m, T, l)
  BY DEF Downstream, Down, DownRound
<1>6. l \in Nat
  BY LiveFinite
<1> HIDE DEF m, l
<1>7. PICK acc : /\ acc[0] = T
                 /\ \A k \in 1 .. l : acc[k] = DownRound(m, acc[k - 1])
                 /\ Down(m, T, l) = acc[l]
  BY <1>6, DownSteps
<1> DEFINE Kept == {k \in 0 .. l : acc[k] \in SUBSET (S \cap Users)}
<1>8. 0 \in Kept
  BY <1>3, <1>6, <1>7
<1>9. ASSUME NEW k \in 1 .. l, k - 1 \in Kept  PROVE k \in Kept
  <2>1. ASSUME NEW u \in acc[k - 1] \ {Sink}  PROVE UsersOf(m, u) \in SUBSET (S \cap Users)
    <3>1. u \in Gates /\ u \in S
      BY <1>9, <2>1 DEF Users
    <3>2. CASE u = d
      BY <1>4, <3>1, <3>2
    <3>3. CASE u # d
      <4>1. UsersOf(m, u) = UsersOf(net, u) /\ UsersOf(net, u) \in SUBSET Users
        BY <1>4, <3>1, <3>3, UsersTyped DEF Terminals
      <4>2. UsersOf(net, u) \in SUBSET S
        BY <1>1, <2>1, <3>1, <3>3
      <4> QED  BY <4>1, <4>2
    <3> QED  BY <3>2, <3>3
  <2>2. acc[k] = acc[k - 1] \cup UNION {UsersOf(m, u) : u \in acc[k - 1] \ {Sink}}
    BY <1>7 DEF DownRound
  <2>3. acc[k] \in SUBSET (S \cap Users)
    BY <1>9, <2>1, <2>2
  <2> QED  BY <1>6, <2>3
<1>10. \A k \in 0 .. l : k \in Kept
  <2> HIDE DEF Kept
  <2> QED  BY <1>6, <1>8, <1>9, UpTo
<1>11. Downstream(m, T) \in SUBSET S
  BY <1>5, <1>6, <1>7, <1>10
<1> QED  BY <1>1, <1>2, <1>11 DEF m, T

----------------------------------------------------------------------------
\* What TopoSort has ready: gates that read something.
Reading(n) == {g \in Live(n) : n.ins[g] # << >>}
Waiting(n, s) ==
  s \in [order : Seq(Terminals), ready : Seq(Reading(n)), processed : [Gates -> Nat]]

\* What reads a terminal is a live gate with inputs, or the sink.
LEMMA UsersRead ==
  ASSUME NEW n, IsNet(n), Listed(n), NEW t \in Terminals, DeadIsBare(n)
  PROVE  UsersOf(n, t) \in SUBSET (Reading(n) \cup {Sink})
<1> SUFFICES ASSUME NEW u \in UsersOf(n, t), u # Sink  PROVE u \in Reading(n)
  OBVIOUS
<1>1. PICK x \in n.uses[t] : u = x[1]
  BY DEF UsersOf
<1>2. n.uses[t] \in SUBSET (Users \X Nat)
  BY DEF IsNet
<1>3. PICK i \in Nat : x = <<u, i>>
  BY <1>1, <1>2
<1>4. u \in Users
  BY <1>1, <1>2
<1>5. i \in DOMAIN n.ins[u]
  BY <1>1, <1>3, <1>4 DEF Listed
<1>6. u \in Gates
  BY <1>4 DEF Users
<1>7. n.ins[u] # << >>
  BY <1>5
<1> QED  BY <1>6, <1>7 DEF Reading, Live, DeadIsBare

\* So TopoSort, where it counts an input, makes none but such a gate ready, ...
LEMMA CountWaiting ==
  ASSUME NEW n, NEW sinks, NEW s, NEW u, Sink \in sinks, Waiting(n, s), u \in Reading(n) \cup {Sink}
  PROVE  Waiting(n, Processed(n, sinks, s, u)) /\ Processed(n, sinks, s, u).order = s.order
<1>1. CASE u \in sinks
  BY <1>1 DEF Processed
<1>2. CASE u \notin sinks
  <2> DEFINE c == s.processed[u] + 1
             ready == IF c = Len(n.ins[u]) THEN Append(s.ready, u) ELSE s.ready
             next == [s EXCEPT !.processed[u] = @ + 1, !.ready = ready]
  <2>1. Processed(n, sinks, s, u) = next
    BY <1>2 DEF Processed, Waiting
  <2>2. u \in Reading(n) /\ u \in Gates
    BY <1>2 DEF Reading, Live
  <2>3. s.processed \in [Gates -> Nat] /\ s.ready \in Seq(Reading(n)) /\ s.order \in Seq(Terminals)
    BY DEF Waiting
  <2>4. c \in Nat /\ [s.processed EXCEPT ![u] = c] \in [Gates -> Nat] /\ ready \in Seq(Reading(n))
    BY <2>2, <2>3
  <2> HIDE DEF ready
  <2>6. Waiting(n, next) /\ next.order = s.order
    <3> DEFINE K == [order : Seq(Terminals), ready : Seq(Reading(n)), processed : [Gates -> Nat]]
               f == [s EXCEPT !.processed[u] = @ + 1]
    <3>1. s \in K
      BY DEF Waiting
    <3>2. f \in K /\ f.order = s.order
      <4>1. f = [s EXCEPT !.processed = [s.processed EXCEPT ![u] = c]]
        BY <3>1
      <4> HIDE DEF f, c
      <4> QED  BY <2>4, <3>1, <4>1
    <3>3. next = [f EXCEPT !.ready = ready]
      OBVIOUS
    <3> HIDE DEF f, next
    <3>4. next \in K /\ next.order = s.order
      BY <2>4, <3>2, <3>3
    <3> QED  BY <3>4 DEF Waiting
  <2> QED  BY <2>1, <2>6
<1> QED  BY <1>1, <1>2

\* ... and where it visits a terminal, puts that into the order, ...
LEMMA VisitWaiting ==
  ASSUME NEW n, IsNet(n), Listed(n), DeadIsBare(n), NEW sinks, Sink \in sinks,
         NEW s, Waiting(n, s), NEW t \in Terminals
  PROVE  Waiting(n, TopoVisit(n, sinks, s, t)) /\ TopoVisit(n, sinks, s, t).order = Append(s.order, t)
<1> DEFINE start == [s EXCEPT !.order = Append(@, t)]
           users == UserList(n, t)
           R == Reading(n) \cup {Sink}
<1>1. TopoVisit(n, sinks, s, t) = Counted(n, sinks, start, users)
  BY DEF TopoVisit, Counted, Processed
<1>4. Waiting(n, start) /\ start.order = Append(s.order, t)
  <2> DEFINE K == [order : Seq(Terminals), ready : Seq(Reading(n)), processed : [Gates -> Nat]]
  <2>1. s \in K
    BY DEF Waiting
  <2>2. Append(s.order, t) \in Seq(Terminals)
    BY <2>1
  <2>3. start \in K /\ start.order = Append(s.order, t)
    BY <2>1, <2>2
  <2> QED  BY <2>3 DEF Waiting
<1> HIDE DEF start
<1>5. users \in Seq(R)
  <2>1. UsersOf(n, t) \in SUBSET R /\ users \in Seq(UsersOf(n, t))
    BY UsersRead, UserListOf
  <2> HIDE DEF users, R
  <2> QED  BY <2>1, SeqOfMore
<1> HIDE DEF users
<1>6. PICK acc : /\ acc[0] = start
                 /\ \A k \in 1 .. Len(users) : acc[k] = Processed(n, sinks, acc[k - 1], users[k])
                 /\ Counted(n, sinks, start, users) = acc[Len(users)]
  <2> HIDE DEF R
  <2> QED  BY <1>5, CountSteps
<1>7. Len(users) \in Nat /\ \A k \in 1 .. Len(users) : users[k] \in R
  <2> HIDE DEF R
  <2> QED  BY <1>5
<1> DEFINE Good == {k \in 0 .. Len(users) : Waiting(n, acc[k]) /\ acc[k].order = start.order}
<1>8. 0 \in Good
  BY <1>4, <1>6, <1>7
<1>9. ASSUME NEW k \in 1 .. Len(users), k - 1 \in Good  PROVE k \in Good
  <2>1. Waiting(n, acc[k - 1]) /\ acc[k - 1].order = start.order
    BY <1>9
  <2>2. users[k] \in R /\ acc[k] = Processed(n, sinks, acc[k - 1], users[k])
    BY <1>6, <1>7
  <2>3. Waiting(n, acc[k]) /\ acc[k].order = acc[k - 1].order
    <3> DEFINE q == acc[k - 1]
               u == users[k]
    <3>1. Waiting(n, q) /\ u \in Reading(n) \cup {Sink}
      BY <2>1, <2>2
    <3> HIDE DEF q, u
    <3>2. Waiting(n, Processed(n, sinks, q, u)) /\ Processed(n, sinks, q, u).order = q.order
      BY <3>1, CountWaiting
    <3> QED  BY <2>2, <3>2 DEF q, u
  <2>4. k \in 0 .. Len(users)
    BY <1>7
  <2> QED  BY <2>1, <2>3, <2>4
<1>10. \A k \in 0 .. Len(users) : k \in Good
  <2> HIDE DEF Good
  <2> QED  BY <1>7, <1>8, <1>9, UpTo
<1> QED  BY <1>1, <1>4, <1>6, <1>7, <1>10

\* The order begins with the sources; the rest of it are gates that read something.
Ordered(n, sources, order) ==
  order \in Seq(Terminals) /\ \E rest \in Seq(Reading(n)) : order = sources \o rest

\* One more element of a sequence.
LEMMA PrefixLonger ==
  ASSUME NEW T, NEW q \in Seq(T), NEW k \in 1 .. Len(q)
  PROVE  Append(SubSeq(q, 1, k - 1), q[k]) = SubSeq(q, 1, k)
<1> DEFINE a == SubSeq(q, 1, k - 1)
           b == SubSeq(q, 1, k)
           c == Append(a, q[k])
<1>1. k \in Nat \ {0} /\ Len(q) \in Nat /\ k <= Len(q)
  OBVIOUS
<1>2. b \in Seq(T) /\ Len(b) = k /\ \A i \in 1 .. k : b[i] = q[i]
  BY <1>1
<1>3. a \in Seq(T) /\ Len(a) = k - 1 /\ \A i \in 1 .. k - 1 : a[i] = q[i]
  BY <1>1
<1> HIDE DEF a, b
<1>4. c \in Seq(T) /\ Len(c) = k /\ c[k] = q[k] /\ \A i \in 1 .. k - 1 : c[i] = a[i]
  BY <1>1, <1>3
<1> HIDE DEF c
<1>5. \A i \in 1 .. k : c[i] = b[i]
  BY <1>1, <1>2, <1>3, <1>4
<1>6. c = b
  BY <1>1, <1>2, <1>4, <1>5, SeqEqual
<1> QED  BY <1>6 DEF a, b, c

\* ... and first all sources as they come, ...
LEMMA SourcesVisited ==
  ASSUME NEW n, IsNet(n), Listed(n), DeadIsBare(n), NEW sinks, Sink \in sinks,
         NEW s, Waiting(n, s), s.order = << >>, NEW sources \in Seq(Terminals)
  PROVE  LET m == SourcesFirst(n, sinks, s, sources)
         IN  Waiting(n, m) /\ m.order = sources
<1> DEFINE l == Len(sources)
<1>1. PICK acc : /\ acc[0] = s
                 /\ \A k \in 1 .. l : acc[k] = TopoVisit(n, sinks, acc[k - 1], sources[k])
                 /\ SourcesFirst(n, sinks, s, sources) = acc[l]
  BY VisitSteps
<1>2. l \in Nat /\ \A k \in 1 .. l : sources[k] \in Terminals
  OBVIOUS
<1> DEFINE Good == {k \in 0 .. l : Waiting(n, acc[k]) /\ acc[k].order = SubSeq(sources, 1, k)}
<1>3. 0 \in Good
  <2>1. 0 \in 0 .. l /\ SubSeq(sources, 1, 0) = << >>
    BY <1>2
  <2> QED  BY <1>1, <2>1
<1>4. ASSUME NEW k \in 1 .. l, k - 1 \in Good  PROVE k \in Good
  <2>1. Waiting(n, acc[k - 1]) /\ acc[k - 1].order = SubSeq(sources, 1, k - 1)
    BY <1>4
  <2>2. acc[k] = TopoVisit(n, sinks, acc[k - 1], sources[k]) /\ sources[k] \in Terminals
    BY <1>1, <1>2
  <2>3. Waiting(n, acc[k]) /\ acc[k].order = Append(acc[k - 1].order, sources[k])
    <3>1. \A q : \A t \in Terminals : Waiting(n, q) =>
            /\ Waiting(n, TopoVisit(n, sinks, q, t))
            /\ TopoVisit(n, sinks, q, t).order = Append(q.order, t)
      BY VisitWaiting
    <3> QED  BY <2>1, <2>2, <3>1
  <2>4. Append(SubSeq(sources, 1, k - 1), sources[k]) = SubSeq(sources, 1, k)
    BY <1>2, PrefixLonger
  <2>5. k \in 0 .. l
    BY <1>2
  <2> QED  BY <2>1, <2>3, <2>4, <2>5
<1>5. \A k \in 0 .. l : k \in Good
  <2> HIDE DEF Good
  <2> QED  BY <1>2, <1>3, <1>4, UpTo
<1>6. SubSeq(sources, 1, l) = sources
  OBVIOUS
<1> QED  BY <1>1, <1>2, <1>5, <1>6

\* ... and then what became ready.
LEMMA OrderRight ==
  ASSUME NEW n, IsNet(n), Listed(n), DeadIsBare(n), NEW sinks, Sink \in sinks,
         NEW sources \in Seq(Terminals)
  PROVE  Ordered(n, sources, TopoSort(n, sources, sinks))
<1> DEFINE start == [order |-> << >>, ready |-> << >>, processed |-> [g \in Gates |-> 0]]
           visited == SourcesFirst(n, sinks, start, sources)
           l == Cardinality(Live(n))
           Sorted(s) == Waiting(n, s) /\ \E rest \in Seq(Reading(n)) : s.order = sources \o rest
<1>1. TopoSort(n, sources, sinks) = ThenReady(n, sinks, visited, l).order
  BY DEF TopoSort, ThenReady, FromReady, SourcesFirst
<1>2. l \in Nat
  BY LiveFinite
<1>3. Waiting(n, start) /\ start.order = << >>
  BY DEF Waiting
<1>4. Waiting(n, visited) /\ visited.order = sources
  <2> HIDE DEF start
  <2> QED  BY <1>3, SourcesVisited
<1> HIDE DEF visited, l
<1>5. Sorted(visited)
  <2>1. << >> \in Seq(Reading(n)) /\ sources = sources \o << >>
    OBVIOUS
  <2> QED  BY <1>4, <2>1
<1>6. ASSUME NEW s, Sorted(s)  PROVE Sorted(FromReady(n, sinks, s))
  <2>1. CASE s.ready = << >>
    BY <1>6, <2>1 DEF FromReady
  <2>2. CASE s.ready # << >>
    <3> DEFINE t == Head(s.ready)
               q == [s EXCEPT !.ready = Tail(@)]
               m == TopoVisit(n, sinks, q, t)
    <3>1. FromReady(n, sinks, s) = m
      BY <2>2 DEF FromReady
    <3>2. s.order \in Seq(Terminals) /\ s.ready \in Seq(Reading(n)) /\ s.processed \in [Gates -> Nat]
      BY <1>6 DEF Waiting
    <3>3. t \in Reading(n) /\ Tail(s.ready) \in Seq(Reading(n))
      BY <2>2, <3>2
    <3>4. t \in Terminals
      BY <3>3 DEF Reading, Live, Terminals
    <3>6. Waiting(n, q) /\ q.order = s.order
      <4> DEFINE K == [order : Seq(Terminals), ready : Seq(Reading(n)), processed : [Gates -> Nat]]
      <4>1. s \in K
        BY <1>6 DEF Waiting
      <4>2. q \in K /\ q.order = s.order
        BY <3>3, <4>1
      <4> QED  BY <4>2 DEF Waiting
    <3> HIDE DEF q, t
    <3>7. Waiting(n, m) /\ m.order = Append(s.order, t)
      BY <3>4, <3>6, VisitWaiting
    <3> HIDE DEF m
    <3>8. PICK rest \in Seq(Reading(n)) : s.order = sources \o rest
      BY <1>6
    <3>9. Append(rest, t) \in Seq(Reading(n)) /\ Append(sources \o rest, t) = sources \o Append(rest, t)
      <4> DEFINE R == Reading(n)
      <4>1. rest \in Seq(R) /\ t \in R
        BY <3>3, <3>8
      <4> HIDE DEF R
      <4>2. Append(rest, t) \in Seq(R)
        BY <4>1
      <4>3. Append(sources \o rest, t) = sources \o Append(rest, t)
        BY <4>1
      <4> QED  BY <4>2, <4>3 DEF R
    <3> QED  BY <3>1, <3>7, <3>8, <3>9
  <2> QED  BY <2>1, <2>2
<1> HIDE DEF Sorted
<1>7. PICK acc : /\ acc[0] = visited
                 /\ \A k \in 1 .. l : acc[k] = FromReady(n, sinks, acc[k - 1])
                 /\ ThenReady(n, sinks, visited, l) = acc[l]
  BY <1>2, ReadySteps
<1> DEFINE Good == {k \in 0 .. l : Sorted(acc[k])}
<1>8. 0 \in Good /\ \A k \in 1 .. l : k - 1 \in Good => k \in Good
  BY <1>2, <1>5, <1>6, <1>7
<1>9. \A k \in 0 .. l : k \in Good
  <2> HIDE DEF Good
  <2> QED  BY <1>2, <1>8, UpTo
<1>10. Sorted(acc[l])
  BY <1>2, <1>9
<1> QED  BY <1>1, <1>7, <1>10 DEF Sorted, Waiting, Ordered

----------------------------------------------------------------------------
(* What MergeGates starts from.                                             *)

\* What MergeGates starts from: it takes the network, and reads no inputs but those declared.
Analysable(n, D) ==
  /\ IsNet(n) /\ Listed(n) /\ ReadsLive(n) /\ DeadIsBare(n)
  /\ D \in SUBSET Inputs /\ ~ MergeRefuses(n, D)

\* Where it starts: the inputs, and the gates that close a loop.
SourcesOf(n, inputs) == inputs \o InOrder(FeedbackSources(n, Dependents(n)))

\* The sources are terminals, with users, and the default terminal is the first or none.
LEMMA SourcesRight ==
  ASSUME NEW n, NEW D, Analysable(n, D)
  PROVE  LET inputs  == SetToSeq(D)
             sources == SourcesOf(n, inputs)
         IN  /\ inputs \in Seq(D) /\ sources \in Seq(D \cup Live(n))
             /\ DefaultTerminal(inputs) \in Inputs \cup {Null}
             /\ \A i \in DOMAIN sources : sources[i] = DefaultTerminal(inputs) => i = 1
<1> DEFINE inputs == SetToSeq(D)
           K == FeedbackSources(n, Dependents(n))
           gates == InOrder(K)
           sources == inputs \o gates
<1>1. IsFiniteSet(D) /\ D \in SUBSET Inputs
  BY PassesAssumption, FS_Subset DEF Analysable
<1>2. inputs \in Seq(D) /\ \A i, j \in DOMAIN inputs : inputs[i] = inputs[j] => i = j
  <2>1. inputs \in Seq(D)
    BY <1>1, SetSeq
  <2>2. inputs \in [1 .. Cardinality(D) -> D] /\ IsInjective(inputs)
    BY <1>1, SetAsSeq
  <2> HIDE DEF inputs
  <2>3. DOMAIN inputs = 1 .. Cardinality(D)
    BY <2>2
  <2> QED  BY <2>1, <2>2, <2>3 DEF IsInjective
<1>3. K \in SUBSET Live(n) /\ Live(n) \in SUBSET Gates
  BY DEF FeedbackSources, Dependents, Live
<1> HIDE DEF K
<1>4. gates \in Seq(K)
  BY <1>3, InOrderOf
<1> HIDE DEF inputs, gates
<1>5. sources \in Seq(D \cup Live(n))
  <2> DEFINE T == D \cup Live(n)
  <2>1. inputs \in Seq(T) /\ gates \in Seq(T)
    BY <1>2, <1>3, <1>4, SeqOfMore
  <2> HIDE DEF T
  <2>2. sources \in Seq(T)
    BY <2>1
  <2> QED  BY <2>2 DEF T
<1>6. Inputs \cap Gates = {} /\ Null \notin Inputs \cup Gates
  BY NetAssumption DEF Gates
<1>7. DefaultTerminal(inputs) \in Inputs \cup {Null}
  BY <1>1, <1>2 DEF DefaultTerminal
<1>8. ASSUME NEW i \in DOMAIN sources, sources[i] = DefaultTerminal(inputs)  PROVE i = 1
  <2>1. Len(inputs) \in Nat /\ Len(gates) \in Nat /\ DOMAIN inputs = 1 .. Len(inputs)
    BY <1>2, <1>4
  <2>2. \/ i \in DOMAIN inputs /\ sources[i] = inputs[i]
        \/ sources[i] \in K
    BY <1>2, <1>4, <1>8, <2>1
  <2>3. CASE sources[i] \in K
    <3>1. sources[i] \in Gates
      BY <1>3, <2>3
    <3> QED  BY <1>6, <1>7, <1>8, <3>1
  <2>4. CASE i \in DOMAIN inputs /\ sources[i] = inputs[i]
    <3>1. inputs # << >> /\ 1 \in DOMAIN inputs
      BY <2>1, <2>4
    <3>2. inputs[i] = inputs[1]
      BY <1>8, <2>4, <3>1 DEF DefaultTerminal
    <3> QED  BY <1>2, <2>4, <3>1, <3>2
  <2> HIDE DEF sources
  <2> QED  BY <2>2, <2>3, <2>4
<1> QED  BY <1>2, <1>5, <1>7, <1>8 DEF inputs, gates, K, SourcesOf

\* So it is in the order, all of which has users.
LEMMA OrderUsed ==
  ASSUME NEW n, NEW D, NEW order, Analysable(n, D), Ordered(n, SourcesOf(n, SetToSeq(D)), order)
  PROVE  \A i \in DOMAIN order : /\ UsersOf(n, order[i]) # {}
                                 /\ order[i] = DefaultTerminal(SetToSeq(D)) => i = 1
<1> DEFINE inputs == SetToSeq(D)
           sources == SourcesOf(n, inputs)
           default == DefaultTerminal(inputs)
<1>1. /\ sources \in Seq(D \cup Live(n)) /\ default \in Inputs \cup {Null}
      /\ \A i \in DOMAIN sources : sources[i] = default => i = 1
  BY SourcesRight
<1>2. PICK rest \in Seq(Reading(n)) : order = sources \o rest
  BY DEF Ordered
<1> HIDE DEF sources, default
<1>3. ASSUME NEW i \in DOMAIN order
      PROVE  \/ i \in DOMAIN sources /\ order[i] = sources[i] /\ order[i] \in D \cup Live(n)
             \/ order[i] \in Reading(n)
  BY <1>1, <1>2, <1>3
<1>4. Live(n) \in SUBSET Gates /\ Reading(n) \in SUBSET Live(n)
  BY DEF Live, Reading
<1>5. default \notin Gates
  BY <1>1, NetAssumption DEF Gates
<1>6. \A t \in D \cup Live(n) : UsersOf(n, t) # {}
  BY DEF Analysable, MergeRefuses, UsersOf
<1> QED  BY <1>1, <1>3, <1>4, <1>5, <1>6 DEF default

\* The terminals of the tree are finitely many.
LEMMA KnownFinite ==
  ASSUME NEW n, NEW order \in Seq(Terminals), NEW sinks, NEW default \in Inputs \cup {Null}, IsNet(n),
         ToSet(sinks) \in SUBSET Users
  PROVE  IsFiniteSet(KnownTerminals(n, order, sinks) \cup {default})
<1> DEFINE All == Gates \cup Inputs \cup {Low, High} \cup {Sink, Null}
<1>1. IsFiniteSet(All)
  <2>1. IsFiniteSet(Gates)
    BY NetAssumption, FS_Interval DEF Gates
  <2>2. IsFiniteSet({Low, High}) /\ IsFiniteSet({Sink, Null})
    <3>1. IsFiniteSet({Low}) /\ IsFiniteSet({High}) /\ IsFiniteSet({Sink}) /\ IsFiniteSet({Null})
      BY FS_Singleton
    <3>2. {Low, High} = {Low} \cup {High} /\ {Sink, Null} = {Sink} \cup {Null}
      OBVIOUS
    <3>3. \A S, T : IsFiniteSet(S) /\ IsFiniteSet(T) => IsFiniteSet(S \cup T)
      BY FS_Union
    <3>4. IsFiniteSet({Low} \cup {High}) /\ IsFiniteSet({Sink} \cup {Null})
      BY <3>1, <3>3
    <3> QED  BY <3>2, <3>4
  <2>3. IsFiniteSet(Inputs)
    BY PassesAssumption
  <2> QED  BY <2>1, <2>2, <2>3, FS_Union
<1>2. ToSet(order) \in SUBSET Terminals
  BY DEF ToSet
<1>3. \A t \in ToSet(order) : UsersOf(n, t) \in SUBSET Users
  BY <1>2, UsersTyped
<1>4. KnownTerminals(n, order, sinks) \cup {default} \in SUBSET All
  BY <1>2, <1>3 DEF KnownTerminals, Terminals, Users
<1> QED  BY <1>1, <1>4, FS_Subset

\* What MergeGates computes before its first rewrite: the order, and a walk of which what
\* Check says is so.
LEMMA WalkLeads ==
  ASSUME NEW n, NEW D, Analysable(n, D)
  PROVE  LET a == Analysis(n, SetToSeq(D))
         IN  /\ a.sources = SourcesOf(n, SetToSeq(D))
             /\ Ordered(n, a.sources, a.order)
             /\ \A d, t : Check(a.walk, d, t) => Leads(n, t, d)
<1> DEFINE inputs == SetToSeq(D)
           K == FeedbackSinks(n, Dependents(n))
           sinks == <<Sink>> \o InOrder(K)
           sources == SourcesOf(n, inputs)
           order == TopoSort(n, sources, ToSet(sinks))
           default == DefaultTerminal(inputs)
           known == KnownTerminals(n, order, sinks)
           B == known \cup {default}
           tree == PostDominatorTree(n, order, sinks, default)
           walk == WalkTree(tree, sinks)
           a == Analysis(n, inputs)
<1>1. a.sources = sources /\ a.order = order /\ a.walk = walk
  BY DEF Analysis, SourcesOf
<1>2. IsNet(n) /\ Listed(n) /\ DeadIsBare(n)
  BY DEF Analysable
<1>3. sources \in Seq(Terminals) /\ default \in Inputs \cup {Null}
  <2>1. sources \in Seq(D \cup Live(n)) /\ default \in Inputs \cup {Null}
    BY SourcesRight
  <2>2. D \cup Live(n) \in SUBSET Terminals
    BY DEF Analysable, Live, Terminals
  <2> HIDE DEF sources, default
  <2> QED  BY <2>1, <2>2, SeqOfMore
<1>4. sinks \in Seq(Users) /\ Sink \in ToSet(sinks)
  <2>1. K \in SUBSET Gates
    BY DEF FeedbackSinks, Dependents, Live
  <2> HIDE DEF K
  <2> DEFINE gates == InOrder(K)
  <2>2. gates \in Seq(K)
    BY <2>1, InOrderOf
  <2>3. K \in SUBSET Users
    BY <2>1 DEF Users
  <2>4. gates \in Seq(Users)
    <3> HIDE DEF gates
    <3> QED  BY <2>2, <2>3, SeqOfMore
  <2> HIDE DEF gates
  <2>5. Sink \in Users
    BY DEF Users
  <2> DEFINE both == <<Sink>> \o gates
  <2>6. both \in Seq(Users) /\ 1 \in DOMAIN both /\ both[1] = Sink
    BY <2>4, <2>5
  <2> HIDE DEF both
  <2>7. both \in Seq(Users) /\ Sink \in ToSet(both)
    BY <2>6 DEF ToSet
  <2> QED  BY <2>7 DEF both, gates
<1> HIDE DEF sinks
<1>5. Ordered(n, sources, order)
  <2> HIDE DEF sources
  <2> QED  BY <1>2, <1>3, <1>4, OrderRight
<1>6. order \in Seq(Terminals)
  BY <1>5 DEF Ordered
<1>7. \A i \in DOMAIN order : UsersOf(n, order[i]) # {} /\ (order[i] = default => i = 1)
  <2> HIDE DEF order
  <2> QED  BY <1>5, OrderUsed
<1> HIDE DEF order, sources, default, a
<1>8. ToSet(sinks) \in SUBSET Users
  BY <1>4 DEF ToSet
<1>9. IsFiniteSet(B)
  BY <1>2, <1>3, <1>6, <1>8, KnownFinite
<1>10. Complete(n, default, B, tree)
  BY <1>2, <1>6, <1>7, <1>9, TreeComplete
<1>11. sinks \in Seq(B)
  <2>1. Len(sinks) \in Nat /\ sinks = [i \in 1 .. Len(sinks) |-> sinks[i]]
    BY <1>4
  <2>2. \A i \in 1 .. Len(sinks) : sinks[i] \in B
    BY <2>1 DEF KnownTerminals, ToSet
  <2> HIDE DEF B
  <2> QED  BY <2>1, <2>2
<1>12. default \notin ToSet(sinks)
  <2>1. default \notin Users
    BY <1>3, NetAssumption DEF Users, Gates, Sink
  <2> QED  BY <1>8, <2>1
<1>13. default \in B
  OBVIOUS
<1> HIDE DEF B, tree
<1>14. walk \in Seq(Descents(B, ToSet(sinks), default, tree))
  BY <1>9, <1>10, <1>11, <1>12, <1>13, WalkRight
<1> HIDE DEF walk
<1>15. \A d, t : Check(walk, d, t) => Leads(n, t, d)
  <2> DEFINE T == ToSet(sinks)
  <2>1. walk \in Seq(Descents(B, T, default, tree))
    BY <1>14
  <2> HIDE DEF T
  <2> QED  BY <1>10, <2>1, CheckLeads
<1> QED  BY <1>1, <1>5, <1>15 DEF a, sources

----------------------------------------------------------------------------
(* What a cut determines.                                                   *)

\* A list of terminals determines t: so does every set with them in which a gate is that
\* reads something, and nothing but what is in the set.
Closed(n, S) == \A g \in Reading(n) : InputsOf(n, g) \in SUBSET S => g \in S
Fixes(n, cut, t) == \A S : ToSet(cut) \in SUBSET S /\ Closed(n, S) => t \in S
Fixing(n, T) == {c \in Seq(Terminals) : \A t \in T : Fixes(n, c, t)}

\* More terminals determine no less, ...
LEMMA FixesMore ==
  ASSUME NEW n, NEW c, NEW d, NEW t, Fixes(n, c, t), ToSet(c) \in SUBSET ToSet(d)
  PROVE  Fixes(n, d, t)
BY Zenon DEF Fixes

\* ... Joined has those of both cuts, ...
LEMMA JoinedRight ==
  ASSUME NEW acc \in Seq(Terminals), NEW cut \in Seq(Terminals)
  PROVE  /\ Joined(acc, cut) \in Seq(Terminals)
         /\ ToSet(acc) \cup ToSet(cut) \in SUBSET ToSet(Joined(acc, cut))
<1> DEFINE K == {i \in DOMAIN acc : acc[i] \notin ToSet(cut)}
           more == Compact(acc, K)
           both == cut \o more
<1>1. more \in Seq(Terminals) /\ \A i \in K : \E j \in DOMAIN more : more[j] = acc[i]
  <2>1. K \in SUBSET DOMAIN acc
    OBVIOUS
  <2> HIDE DEF K
  <2> QED  BY <2>1, CompactEntries, CompactKeeps
<1>2. \A i \in DOMAIN acc : acc[i] \in ToSet(cut) \/ i \in K
  OBVIOUS
<1> HIDE DEF more, K
<1>3. /\ both \in Seq(Terminals)
      /\ \A i \in DOMAIN cut : i \in DOMAIN both /\ both[i] = cut[i]
      /\ \A j \in DOMAIN more : Len(cut) + j \in DOMAIN both /\ both[Len(cut) + j] = more[j]
  BY <1>1
<1>4. Joined(acc, cut) = both
  BY DEF Joined, more, K
<1> HIDE DEF both
<1>5. ToSet(cut) \in SUBSET ToSet(both)
  BY <1>3 DEF ToSet
<1>6. \A i \in K : acc[i] \in ToSet(both)
  BY <1>1, <1>3 DEF ToSet
<1>7. ToSet(acc) \in SUBSET ToSet(both)
  BY <1>2, <1>5, <1>6 DEF ToSet
<1> QED  BY <1>3, <1>4, <1>5, <1>7

\* ... so it determines what either does, ...
LEMMA JoinFixing ==
  ASSUME NEW n, NEW T, NEW t, NEW acc \in Fixing(n, T), NEW cut \in Fixing(n, {t})
  PROVE  Joined(acc, cut) \in Fixing(n, T \cup {t})
<1> DEFINE both == Joined(acc, cut)
<1>1. acc \in Seq(Terminals) /\ cut \in Seq(Terminals) /\ Fixes(n, cut, t)
      /\ \A u \in T : Fixes(n, acc, u)
  BY DEF Fixing
<1>2. both \in Seq(Terminals) /\ ToSet(acc) \cup ToSet(cut) \in SUBSET ToSet(both)
  BY <1>1, JoinedRight
<1> HIDE DEF both
<1>3. ToSet(acc) \in SUBSET ToSet(both) /\ ToSet(cut) \in SUBSET ToSet(both)
  BY <1>2
<1>4. \A u \in T \cup {t} : Fixes(n, both, u)
  BY <1>1, <1>3, FixesMore
<1> QED  BY <1>2, <1>4 DEF Fixing, both

\* ... and so do all joins with the cuts of one input, ...
LEMMA JoinsFixing ==
  ASSUME NEW n, NEW T, NEW t, NEW acc \in Fixing(n, T), NEW cuts, cuts[t] \in Seq(Fixing(n, {t}))
  PROVE  JoinsOf(cuts, t, acc) \in Seq(Fixing(n, T \cup {t}))
<1> DEFINE F == Fixing(n, T \cup {t})
           all == [k \in DOMAIN cuts[t] |-> Joined(acc, cuts[t][k])]
           K == {k \in DOMAIN all : Len(all[k]) <= 2}
<1>1. \A k \in DOMAIN cuts[t] : Joined(acc, cuts[t][k]) \in F
  <2> TAKE k \in DOMAIN cuts[t]
  <2> DEFINE cut == cuts[t][k]
  <2>1. cut \in Fixing(n, {t})
    OBVIOUS
  <2> HIDE DEF cut
  <2>2. Joined(acc, cut) \in Fixing(n, T \cup {t})
    BY <2>1, JoinFixing
  <2> QED  BY <2>2 DEF cut
<1>2. Len(cuts[t]) \in Nat /\ DOMAIN cuts[t] = 1 .. Len(cuts[t])
  OBVIOUS
<1> HIDE DEF F
<1>3. all \in Seq(F)
  BY <1>1, <1>2
<1>4. K \in SUBSET DOMAIN all
  OBVIOUS
<1>5. JoinsOf(cuts, t, acc) = Compact(all, K)
  BY DEF JoinsOf
<1> HIDE DEF all, K
<1> QED  BY <1>3, <1>4, <1>5, CompactEntries DEF F

\* ... whichever cuts of the inputs before it they join, ...
LEMMA AllJoinsFixing ==
  ASSUME NEW n, NEW T, NEW t, NEW accs \in Seq(Fixing(n, T)), NEW cuts, cuts[t] \in Seq(Fixing(n, {t}))
  PROVE  AllJoins(cuts, t, accs) \in Seq(Fixing(n, T \cup {t}))
<1> DEFINE F == Fixing(n, T)
           G == Fixing(n, T \cup {t})
           l == Len(accs)
<1>1. \A a \in F : JoinsOf(cuts, t, a) \in Seq(G)
  BY JoinsFixing
<1> HIDE DEF F, G
<1>2. accs \in Seq(F)
  BY DEF F
<1>3. l \in Nat /\ \A k \in 1 .. l : accs[k] \in F
  BY <1>2
<1>4. PICK acc : /\ acc[0] = << >>
                 /\ \A k \in 1 .. l : acc[k] = WithJoins(cuts, t, acc[k - 1], accs[k])
                 /\ AllJoins(cuts, t, accs) = acc[l]
  BY <1>2, JoinSteps
<1> HIDE DEF l
<1> DEFINE Good == {k \in 0 .. l : acc[k] \in Seq(G)}
<1>5. 0 \in Good
  <2>1. 0 \in 0 .. l
    BY <1>3
  <2>2. acc[0] \in Seq(G)
    BY <1>4
  <2> QED  BY <2>1, <2>2
<1>6. ASSUME NEW k \in 1 .. l, k - 1 \in Good  PROVE k \in Good
  <2> DEFINE more == JoinsOf(cuts, t, accs[k])
  <2>1. more \in Seq(G) /\ acc[k - 1] \in Seq(G) /\ acc[k] = acc[k - 1] \o more
    BY <1>1, <1>3, <1>4, <1>6 DEF WithJoins
  <2> HIDE DEF more
  <2>2. acc[k] \in Seq(G)
    BY <2>1
  <2> QED  BY <1>3, <2>2
<1>7. \A k \in 0 .. l : k \in Good
  <2> HIDE DEF Good
  <2> QED  BY <1>3, <1>5, <1>6, UpTo
<1>8. l \in Good
  BY <1>3, <1>7
<1> QED  BY <1>4, <1>8 DEF G

\* ... up to the cuts that Collect has of all inputs.
LEMMA CollectFixing ==
  ASSUME NEW n, NEW cuts, \A t \in Terminals : cuts[t] \in Seq(Fixing(n, {t})), NEW ins \in Seq(Terminals)
  PROVE  LET s == Collect(cuts, ins)
         IN  s.accs \in Seq(Fixing(n, ToSet(ins))) /\ s.asked \in Seq(Terminals)
<1> DEFINE first == [accs |-> << << >> >>, asked |-> << >>]
           l == Len(ins)
           Of(k) == {ins[j] : j \in 1 .. k}
<1>1. Collect(cuts, ins) = AllAsked(cuts, first, ins)
  BY DEF Collect, AllAsked, Asked, AllJoins, WithJoins, JoinsOf
<1>2. l \in Nat /\ \A k \in 1 .. l : ins[k] \in Terminals
  OBVIOUS
<1>3. PICK acc : /\ acc[0] = first
                 /\ \A k \in 1 .. l : acc[k] = Asked(cuts, acc[k - 1], ins[k])
                 /\ AllAsked(cuts, first, ins) = acc[l]
  BY AskSteps
<1> DEFINE Good == {k \in 0 .. l : /\ acc[k].accs \in Seq(Fixing(n, Of(k)))
                                   /\ acc[k].asked \in Seq(Terminals)}
<1>4. 0 \in Good
  <2>1. << >> \in Fixing(n, {})
    BY DEF Fixing
  <2>2. Of(0) = {} /\ 0 \in 0 .. l
    BY <1>2
  <2>3. acc[0].accs = << << >> >> /\ acc[0].asked = << >>
    BY <1>3
  <2> HIDE DEF Of
  <2>4. acc[0].accs \in Seq(Fixing(n, Of(0)))
    <3> DEFINE F == Fixing(n, Of(0))
    <3>1. << >> \in F
      BY <2>1, <2>2
    <3> HIDE DEF F
    <3>2. acc[0].accs \in Seq(F)
      BY <2>3, <3>1
    <3> QED  BY <3>2 DEF F
  <2>5. acc[0].asked \in Seq(Terminals)
    BY <2>3
  <2> QED  BY <2>2, <2>4, <2>5
<1>5. ASSUME NEW k \in 1 .. l, k - 1 \in Good  PROVE k \in Good
  <2> DEFINE s == acc[k - 1]
             t == ins[k]
  <2>1. s.accs \in Seq(Fixing(n, Of(k - 1))) /\ s.asked \in Seq(Terminals) /\ t \in Terminals
        /\ acc[k] = Asked(cuts, s, t)
    BY <1>2, <1>3, <1>5
  <2>2. Of(k) = Of(k - 1) \cup {t}
    <3>1. \A j \in 1 .. k : j \in 1 .. k - 1 \/ j = k
      BY <1>2
    <3>2. k \in 1 .. k /\ \A j \in 1 .. k - 1 : j \in 1 .. k
      BY <1>2
    <3> QED  BY <3>1, <3>2
  <2>7. k \in 0 .. l
    BY <1>2
  <2> HIDE DEF Of, s, t
  <2>3. CASE s.accs = << >>
    <3>1. acc[k] = s
      BY <2>1, <2>3 DEF Asked
    <3>2. acc[k].accs \in Seq(Fixing(n, Of(k)))
      <4>1. \A F : << >> \in Seq(F)
        OBVIOUS
      <4> QED  BY <2>3, <3>1, <4>1
    <3> QED  BY <2>1, <2>7, <3>1, <3>2
  <2>4. CASE s.accs # << >>
    <3>1. acc[k] = [accs |-> AllJoins(cuts, t, s.accs), asked |-> Append(s.asked, t)]
      BY <2>1, <2>4 DEF Asked
    <3>2. acc[k].accs = AllJoins(cuts, t, s.accs) /\ acc[k].asked = Append(s.asked, t)
      BY <3>1
    <3>3. AllJoins(cuts, t, s.accs) \in Seq(Fixing(n, Of(k - 1) \cup {t}))
      BY <2>1, AllJoinsFixing
    <3>4. acc[k].asked \in Seq(Terminals)
      BY <2>1, <3>2
    <3> QED  BY <2>2, <2>7, <3>2, <3>3, <3>4
  <2> QED  BY <2>3, <2>4
<1>6. \A k \in 0 .. l : k \in Good
  <2> HIDE DEF Good
  <2> QED  BY <1>2, <1>4, <1>5, UpTo
<1>7. l \in Good
  BY <1>2, <1>6
<1>8. Of(l) = ToSet(ins)
  BY DEF ToSet
<1> HIDE DEF Of, l
<1> QED  BY <1>1, <1>3, <1>7, <1>8

----------------------------------------------------------------------------
(* The cuts of all gates in the order.                                      *)

\* To append what is not there yet keeps to the set of what is appended.
LEMMA AllNewIn ==
  ASSUME NEW S, NEW s0 \in Seq(S), NEW args \in Seq(S)
  PROVE  AllNew(s0, args) \in Seq(S)
<1> DEFINE l == Len(args)
<1>1. l \in Nat /\ \A k \in 1 .. l : args[k] \in S
  OBVIOUS
<1>2. PICK acc : /\ acc[0] = s0
                 /\ \A k \in 1 .. l : acc[k] = AppendNew(acc[k - 1], args[k])
                 /\ AllNew(s0, args) = acc[l]
  BY NewSteps
<1> HIDE DEF l
<1> DEFINE Good == {k \in 0 .. l : acc[k] \in Seq(S)}
<1>3. 0 \in Good
  BY <1>1, <1>2
<1>4. ASSUME NEW k \in 1 .. l, k - 1 \in Good  PROVE k \in Good
  <2>1. acc[k - 1] \in Seq(S) /\ args[k] \in S
    BY <1>1, <1>4
  <2>2. acc[k] = acc[k - 1] \/ acc[k] = Append(acc[k - 1], args[k])
    BY <1>2 DEF AppendNew
  <2>3. acc[k] \in Seq(S)
    <3> DEFINE s == acc[k - 1]
               x == args[k]
    <3>1. s \in Seq(S) /\ x \in S /\ (acc[k] = s \/ acc[k] = Append(s, x))
      BY <2>1, <2>2
    <3> HIDE DEF s, x
    <3>2. Append(s, x) \in Seq(S)
      BY <3>1, AppendProperties
    <3> QED  BY Zenon, <3>1, <3>2
  <2> QED  BY <1>1, <2>3
<1>5. \A k \in 0 .. l : k \in Good
  <2> HIDE DEF Good
  <2> QED  BY <1>1, <1>3, <1>4, UpTo
<1> QED  BY <1>1, <1>2, <1>5

\* A terminal determines itself.
LEMMA OwnFixing ==
  ASSUME NEW n, NEW t \in Terminals
  PROVE  <<t>> \in Fixing(n, {t})
<1> DEFINE c == <<t>>
<1>1. c \in Seq(Terminals) /\ 1 \in DOMAIN c /\ c[1] = t
  OBVIOUS
<1> HIDE DEF c
<1>2. t \in ToSet(c)
  BY <1>1 DEF ToSet
<1>3. Fixes(n, c, t)
  BY <1>2 DEF Fixes
<1>4. c \in Fixing(n, {t})
  BY <1>1, <1>3 DEF Fixing
<1> QED  BY <1>4 DEF c

\* What determines all inputs of a gate determines the gate.
LEMMA GateFixed ==
  ASSUME NEW n, NEW g \in Reading(n), NEW c \in Fixing(n, ToSet(n.ins[g]))
  PROVE  c \in Fixing(n, {g})
<1>1. c \in Seq(Terminals) /\ \A t \in ToSet(n.ins[g]) : Fixes(n, c, t)
  BY DEF Fixing
<1>2. ASSUME NEW S, ToSet(c) \in SUBSET S, Closed(n, S)  PROVE g \in S
  <2>1. \A t \in ToSet(n.ins[g]) : t \in S
    BY <1>1, <1>2 DEF Fixes
  <2>2. InputsOf(n, g) \in SUBSET S
    BY <2>1 DEF InputsOf, ToSet
  <2> QED  BY <1>2, <2>2 DEF Closed
<1>3. Fixes(n, c, g)
  BY <1>2 DEF Fixes
<1> QED  BY <1>1, <1>3 DEF Fixing

\* The candidates: the cuts of a terminal determine it.
CutsRight(n, s) ==
  /\ s.cuts \in [Terminals -> Seq(Seq(Terminals))]
  /\ \A t \in Terminals : s.cuts[t] \in Seq(Fixing(n, {t}))
  /\ s.listed \in Seq(Terminals)

\* One more gate has its own cut and those that Collect has of its inputs, ...
LEMMA WithCutsRight ==
  ASSUME NEW n, NEW s, NEW out, IsNet(n), ReadsLive(n), CutsRight(n, s), out \in Reading(n)
  PROVE  CutsRight(n, WithCuts(n, s, out))
<1> DEFINE ins == n.ins[out]
           collected == Collect(s.cuts, ins)
           found == OwnCut(n, out) \o collected.accs
           cuts == AllNew(s.cuts[out], found)
           listed == AllNew(s.listed, <<out>> \o collected.asked)
           m == WithCuts(n, s, out)
           F == Fixing(n, {out})
<1>1. m = [cuts |-> [s.cuts EXCEPT ![out] = cuts], listed |-> listed]
  BY DEF WithCuts, AllNew, CutsRight
<1>2. out \in Gates /\ out \in Terminals /\ out \in Users /\ out # Sink
  BY NetAssumption DEF Reading, Live, Gates, Terminals, Users, Sink
<1>3. ins \in Seq(Terminals)
  <2>1. ins \in Seq(Terminals \cup {Null})
    BY <1>2, InputPositions
  <2>2. \A i \in DOMAIN ins : ins[i] \in LiveTerminals(n)
    BY <1>2 DEF ReadsLive
  <2>3. LiveTerminals(n) \in SUBSET Terminals
    BY DEF LiveTerminals, Live, Terminals
  <2>4. Len(ins) \in Nat /\ DOMAIN ins = 1 .. Len(ins) /\ ins = [i \in 1 .. Len(ins) |-> ins[i]]
    BY <2>1
  <2> HIDE DEF ins
  <2> QED  BY <2>2, <2>3, <2>4
<1>4. \A t \in Terminals : s.cuts[t] \in Seq(Fixing(n, {t}))
  BY DEF CutsRight
<1> HIDE DEF ins
<1>5. collected.accs \in Seq(Fixing(n, ToSet(ins))) /\ collected.asked \in Seq(Terminals)
  BY <1>3, <1>4, CollectFixing
<1> HIDE DEF collected
<1>6. collected.accs \in Seq(F)
  <2>1. Fixing(n, ToSet(ins)) \in SUBSET F
    BY GateFixed DEF ins
  <2> DEFINE G == Fixing(n, ToSet(ins))
             accs == collected.accs
  <2>2. accs \in Seq(G) /\ G \in SUBSET F
    BY <1>5, <2>1
  <2> HIDE DEF G, F, accs
  <2>3. accs \in Seq(F)
    BY <2>2, SeqOfMore
  <2> QED  BY <2>3 DEF accs
<1>7. OwnCut(n, out) \in Seq(F)
  <2>1. <<out>> \in F
    BY <1>2, OwnFixing
  <2> HIDE DEF F
  <2> DEFINE c == <<out>>
  <2>2. c \in F
    BY <2>1
  <2> HIDE DEF c
  <2>3. <<c>> \in Seq(F) /\ << >> \in Seq(F)
    BY <2>2
  <2> QED  BY <2>3 DEF OwnCut, c
<1>8. found \in Seq(F)
  <2> DEFINE own == OwnCut(n, out)
  <2>1. own \in Seq(F) /\ collected.accs \in Seq(F)
    BY <1>6, <1>7
  <2> HIDE DEF F, own
  <2>2. own \o collected.accs \in Seq(F)
    BY <2>1
  <2> QED  BY <2>2 DEF own
<1>9. cuts \in Seq(F)
  <2>1. s.cuts[out] \in Seq(F)
    BY <1>2, <1>4
  <2> HIDE DEF F, found
  <2> QED  BY <1>8, <2>1, AllNewIn
<1>10. listed \in Seq(Terminals)
  <2>1. <<out>> \o collected.asked \in Seq(Terminals)
    BY <1>2, <1>5
  <2>2. s.listed \in Seq(Terminals)
    BY DEF CutsRight
  <2> QED  BY <2>1, <2>2, AllNewIn
<1>11. cuts \in Seq(Seq(Terminals))
  <2>1. F \in SUBSET Seq(Terminals)
    BY DEF Fixing
  <2> HIDE DEF F, cuts
  <2> QED  BY <1>9, <2>1, SeqOfMore
<1> HIDE DEF cuts, listed
<1>12. s.cuts \in [Terminals -> Seq(Seq(Terminals))]
  BY DEF CutsRight
<1> DEFINE all == [s.cuts EXCEPT ![out] = cuts]
<1>13. all \in [Terminals -> Seq(Seq(Terminals))]
       /\ \A t \in Terminals : all[t] = IF t = out THEN cuts ELSE s.cuts[t]
  BY <1>2, <1>11, <1>12
<1>14. m.cuts = all /\ m.listed = listed
  BY <1>1
<1> HIDE DEF all, m
<1>15. \A t \in Terminals : all[t] \in Seq(Fixing(n, {t}))
  BY <1>4, <1>9, <1>13
<1>16. CutsRight(n, m)
  BY <1>10, <1>13, <1>14, <1>15 DEF CutsRight
<1> QED  BY <1>16 DEF m

\* ... so when the order ends, every cut of a gate determines it.
LEMMA CandidatesRight ==
  ASSUME NEW n, NEW a, IsNet(n), ReadsLive(n), a.sources \in Seq(Terminals),
         Ordered(n, a.sources, a.order)
  PROVE  CutsRight(n, CutCandidates(n, a))
<1> DEFINE start == [t \in Terminals |-> IF t \in ToSet(a.sources) THEN << <<t>> >> ELSE << >>]
           first == [cuts |-> start, listed |-> a.sources]
           outs == SubSeq(a.order, Len(a.sources) + 1, Len(a.order))
           l == Len(outs)
<1>1. CutCandidates(n, a) = AllCuts(n, first, outs)
  BY DEF CutCandidates, AllCuts, WithCuts, OwnCut
<1>2. outs \in Seq(Reading(n))
  <2>1. PICK rest \in Seq(Reading(n)) : a.order = a.sources \o rest
    BY DEF Ordered
  <2> DEFINE R == Reading(n)
             b == a.sources
             order == b \o rest
  <2>2. rest \in Seq(R) /\ b \in Seq(Terminals) /\ outs = SubSeq(order, Len(b) + 1, Len(order))
    BY <2>1
  <2> HIDE DEF R, outs, b
  <2>3. outs \in Seq(R)
    <3>1. Len(order) = Len(b) + Len(rest) /\ Len(b) \in Nat /\ Len(rest) \in Nat
      BY <2>2
    <3>2. \A i \in 1 .. Len(rest) : order[Len(b) + i] \in R
      BY <2>2
    <3> HIDE DEF order
    <3> DEFINE j == Len(b) + 1
    <3>4. \A i \in j .. Len(order) : order[i] \in R
      <4> TAKE i \in j .. Len(order)
      <4>1. i - Len(b) \in 1 .. Len(rest) /\ Len(b) + (i - Len(b)) = i
        BY <3>1
      <4> QED  BY <3>2, <4>1
    <3>5. j \in 1 .. Len(order) + 1 /\ Len(order) \in Nat
      BY <3>1
    <3> HIDE DEF j
    <3> QED  BY <2>2, <3>4, <3>5, SubSeqProperties DEF j
  <2> QED  BY <2>3 DEF R
<1>3. CutsRight(n, first)
  <2>1. \A t \in Terminals : << <<t>> >> \in Seq(Fixing(n, {t})) /\ << >> \in Seq(Fixing(n, {t}))
    <3> TAKE t \in Terminals
    <3> DEFINE F == Fixing(n, {t})
               c == <<t>>
    <3>1. c \in F
      BY OwnFixing
    <3> HIDE DEF F, c
    <3>2. <<c>> \in Seq(F) /\ << >> \in Seq(F)
      BY <3>1
    <3> QED  BY <3>2 DEF F, c
  <2>2. \A t \in Terminals : start[t] \in Seq(Fixing(n, {t}))
    BY <2>1
  <2>3. \A t \in Terminals : << <<t>> >> \in Seq(Seq(Terminals)) /\ << >> \in Seq(Seq(Terminals))
    <3> TAKE t \in Terminals
    <3> DEFINE F == Seq(Terminals)
               c == <<t>>
    <3>1. c \in F
      OBVIOUS
    <3> HIDE DEF F, c
    <3>2. <<c>> \in Seq(F) /\ << >> \in Seq(F)
      BY <3>1
    <3> QED  BY <3>2 DEF F, c
  <2>4. start \in [Terminals -> Seq(Seq(Terminals))]
    BY <2>3
  <2>5. first.cuts = start /\ first.listed = a.sources
    OBVIOUS
  <2> HIDE DEF start, first
  <2> QED  BY <2>2, <2>4, <2>5 DEF CutsRight
<1> HIDE DEF first, outs
<1>4. PICK acc : /\ acc[0] = first
                 /\ \A k \in 1 .. l : acc[k] = WithCuts(n, acc[k - 1], outs[k])
                 /\ AllCuts(n, first, outs) = acc[l]
  BY <1>2, CutSteps
<1>5. l \in Nat /\ \A k \in 1 .. l : outs[k] \in Reading(n)
  BY <1>2
<1> HIDE DEF l
<1> DEFINE Good == {k \in 0 .. l : CutsRight(n, acc[k])}
<1>6. 0 \in Good
  BY <1>3, <1>4, <1>5
<1>7. ASSUME NEW k \in 1 .. l, k - 1 \in Good  PROVE k \in Good
  <2> DEFINE s == acc[k - 1]
             out == outs[k]
  <2>1. CutsRight(n, s) /\ out \in Reading(n) /\ acc[k] = WithCuts(n, s, out)
    BY <1>4, <1>5, <1>7
  <2> HIDE DEF s, out
  <2>2. CutsRight(n, WithCuts(n, s, out))
    BY <2>1, WithCutsRight
  <2> QED  BY <1>5, <2>1, <2>2
<1>8. \A k \in 0 .. l : k \in Good
  <2> HIDE DEF Good
  <2> QED  BY <1>5, <1>6, <1>7, UpTo
<1> QED  BY <1>1, <1>4, <1>5, <1>8

----------------------------------------------------------------------------
(* Determined, and the list of gates with cuts.                             *)

\* The rounds of Determined come to its end: each but the last adds a gate.
LEMMA DeterminedRight ==
  ASSUME NEW cut, NEW t, Fixes(net, cut, t)
  PROVE  t \in Determined(cut)
<1> DEFINE T == ToSet(cut)
           L == Live(net)
           l == Cardinality(L)
<1>1. Determined(cut) = DeterminedIn(net, T, l)
  BY DEF Determined, DeterminedIn, FixedBy
<1>2. IsFiniteSet(L) /\ l \in Nat
  BY LiveFinite
<1> HIDE DEF T, l
<1>3. PICK acc : /\ acc[0] = T
                 /\ \A k \in 1 .. l : acc[k] = FixedBy(net, acc[k - 1])
                 /\ DeterminedIn(net, T, l) = acc[l]
  BY <1>2, FixedSteps
<1> DEFINE New(k) == acc[k] \ T
<1>4. \A S : FixedBy(net, S) = S \cup {g \in Reading(net) : InputsOf(net, g) \subseteq S}
  BY DEF FixedBy, Reading
<1>5. Reading(net) \in SUBSET L
  BY DEF Reading
<1> HIDE DEF L
<1> DEFINE Good == {k \in 0 .. l : /\ T \in SUBSET acc[k] /\ New(k) \in SUBSET L
                                   /\ Closed(net, acc[k]) \/ Cardinality(New(k)) >= k}
<1>6. 0 \in Good
  <2>1. New(0) = {} /\ T \in SUBSET acc[0] /\ 0 \in 0 .. l
    BY <1>2, <1>3
  <2>2. Cardinality(New(0)) >= 0
    BY <2>1, FS_EmptySet
  <2> QED  BY <2>1, <2>2
<1>7. ASSUME NEW k \in 1 .. l, k - 1 \in Good  PROVE k \in Good
  <2> DEFINE S == acc[k - 1]
             M == {g \in Reading(net) : InputsOf(net, g) \subseteq S}
             old == S \ T
             new == acc[k] \ T
  <2>1. acc[k] = S \cup M /\ M \in SUBSET L
    BY <1>3, <1>4, <1>5
  <2>2. /\ T \in SUBSET S /\ old \in SUBSET L /\ k \in Nat \ {0} /\ k \in 0 .. l
        /\ Closed(net, S) \/ Cardinality(old) >= k - 1
    BY <1>2, <1>7
  <2>3. T \in SUBSET acc[k] /\ new \in SUBSET L /\ old \in SUBSET new
    BY <2>1, <2>2
  <2>4. CASE Closed(net, S)
    <3>1. acc[k] = S
      BY <2>1, <2>4 DEF Closed
    <3> QED  BY <2>2, <2>3, <2>4, <3>1
  <2>5. CASE ~ Closed(net, S)
    <3>1. PICK g \in M : g \notin S
      BY <2>5 DEF Closed
    <3> HIDE DEF M, S
    <3>2. IsFiniteSet(new) /\ IsFiniteSet(old)
      BY <1>2, <2>2, <2>3, FS_Subset
    <3>3. g \in new /\ g \notin old
      BY <2>1, <2>2, <3>1
    <3> HIDE DEF new, old
    <3>4. Cardinality(old) <= Cardinality(new) /\ Cardinality(old) # Cardinality(new)
      BY <2>3, <3>2, <3>3, FS_Subset
    <3>5. Cardinality(old) \in Nat /\ Cardinality(new) \in Nat
      BY <3>2, FS_CardinalityType
    <3>6. Cardinality(old) >= k - 1
      BY <2>2, <2>5
    <3>7. Cardinality(new) >= k
      BY <2>2, <3>4, <3>5, <3>6
    <3> QED  BY <2>2, <2>3, <3>7 DEF new
  <2> QED  BY <2>4, <2>5
<1>8. \A k \in 0 .. l : k \in Good
  <2> HIDE DEF Good
  <2> QED  BY <1>2, <1>6, <1>7, UpTo
<1>9. T \in SUBSET acc[l] /\ New(l) \in SUBSET L /\ (Closed(net, acc[l]) \/ Cardinality(New(l)) >= l)
  BY <1>2, <1>8
<1>10. Closed(net, acc[l])
  <2> SUFFICES ASSUME Cardinality(New(l)) >= l  PROVE Closed(net, acc[l])
    BY <1>9
  <2>1. New(l) = L
    <3> DEFINE N == New(l)
    <3>1. N \in SUBSET L /\ Cardinality(N) >= l
      BY <1>9
    <3> HIDE DEF N
    <3>2. Cardinality(N) <= Cardinality(L) /\ IsFiniteSet(N) /\ (Cardinality(L) = Cardinality(N) => L = N)
      BY <1>2, <3>1, FS_Subset
    <3>3. Cardinality(N) \in Nat /\ l = Cardinality(L)
      BY <3>2, FS_CardinalityType DEF l
    <3>4. L = N
      BY <1>2, <3>1, <3>2, <3>3
    <3> QED  BY <3>4 DEF N
  <2> QED  BY <1>5, <2>1 DEF Closed
<1>11. t \in acc[l]
  BY <1>9, <1>10 DEF Fixes, T
<1> QED  BY <1>1, <1>3, <1>11

\* A list, whatever of.
IsList(p) == \E S : p \in Seq(S)

\* The list of rewrites has gates and, with each, cuts that determine it.
LEMMA PlanRight ==
  ASSUME NEW n, NEW a, IsNet(n), ReadsLive(n), a.sources \in Seq(Terminals),
         Ordered(n, a.sources, a.order)
  PROVE  LET p == MergePlan(n, a)
         IN  /\ IsList(p)
             /\ \A k \in DOMAIN p : \A c \in DOMAIN p[k].cuts : Fixes(n, p[k].cuts[c], p[k].out)
<1> DEFINE s == CutCandidates(n, a)
           K == {k \in DOMAIN s.listed : s.listed[k] \in Gates}
           outs == Compact(s.listed, K)
           p == MergePlan(n, a)
<1>1. CutsRight(n, s)
  BY CandidatesRight
<1>2. p = [k \in DOMAIN outs |-> [out |-> outs[k], cuts |-> s.cuts[outs[k]]]]
  BY DEF MergePlan
<1> HIDE DEF s
<1>3. outs \in Seq(Terminals)
  <2>1. s.listed \in Seq(Terminals) /\ K \in SUBSET DOMAIN s.listed
    BY <1>1 DEF CutsRight
  <2> QED  BY <2>1, CompactEntries
<1> HIDE DEF outs, p
<1>5. IsList(p)
  <2> DEFINE S == {p[k] : k \in DOMAIN outs}
  <2>1. p \in [DOMAIN outs -> S] /\ DOMAIN outs = 1 .. Len(outs) /\ Len(outs) \in Nat
    BY <1>2, <1>3
  <2> HIDE DEF S
  <2>2. p \in Seq(S)
    BY <2>1
  <2> QED  BY <2>2 DEF IsList
<1>4. ASSUME NEW k \in DOMAIN p, NEW c \in DOMAIN p[k].cuts  PROVE Fixes(n, p[k].cuts[c], p[k].out)
  <2>1. k \in DOMAIN outs /\ p[k].out = outs[k] /\ p[k].cuts = s.cuts[outs[k]]
    BY <1>2
  <2>2. outs[k] \in Terminals
    BY <1>3, <2>1
  <2>3. s.cuts[outs[k]] \in Seq(Fixing(n, {outs[k]}))
    BY <1>1, <2>2 DEF CutsRight
  <2>4. p[k].cuts[c] \in Fixing(n, {outs[k]})
    <3> DEFINE F == Fixing(n, {outs[k]})
               q == s.cuts[outs[k]]
    <3>1. q \in Seq(F) /\ c \in DOMAIN q /\ p[k].cuts = q
      BY <1>4, <2>1, <2>3
    <3> HIDE DEF F, q
    <3>2. q[c] \in F
      BY <3>1
    <3> QED  BY <3>1, <3>2 DEF F
  <2> QED  BY <2>1, <2>4 DEF Fixing
<1> QED  BY <1>4, <1>5 DEF p

----------------------------------------------------------------------------
(* What the analyses say is so until MergeGates changes something.          *)

\* Of the network n: what Check says of the walk is so, and the cuts of the list determine
\* their gates.
Holds(n, a, p) ==
  /\ \A d, t : Check(a.walk, d, t) => Leads(n, t, d)
  /\ IsList(p)
  /\ \A k \in DOMAIN p : \A c \in DOMAIN p[k].cuts : Fixes(n, p[k].cuts[c], p[k].out)

\* That is what AnalysisSound states.
LEMMA HeldSound ==
  ASSUME Foldable(net), pass = "merge" /\ ~ changed => Holds(net, analysis, plan)
  PROVE  AnalysisSound
<1> SUFFICES ASSUME pass = "merge", ~ changed
             PROVE  /\ \A t \in analysis.known \cap Gates : \A d \in (analysis.known \cap Gates) \ {t} :
                         Check(analysis.walk, d, t) => Sink \notin Downstream(Stopped({d}), UsersOf(net, t))
                    /\ \A k \in DOMAIN plan : \A c \in DOMAIN plan[k].cuts :
                         plan[k].out \in Determined(plan[k].cuts[c])
  BY DEF AnalysisSound
<1>1. /\ \A d, t : Check(analysis.walk, d, t) => Leads(net, t, d)
      /\ \A k \in DOMAIN plan : \A c \in DOMAIN plan[k].cuts : Fixes(net, plan[k].cuts[c], plan[k].out)
  BY DEF Holds
<1>2. IsNet(net)
  BY DEF Foldable, WellFormed
<1>3. \A t \in analysis.known \cap Gates : \A d \in (analysis.known \cap Gates) \ {t} :
        Check(analysis.walk, d, t) => Sink \notin Downstream(Stopped({d}), UsersOf(net, t))
  BY <1>1, <1>2, DownKept
<1>4. \A k \in DOMAIN plan : \A c \in DOMAIN plan[k].cuts :
        plan[k].out \in Determined(plan[k].cuts[c])
  BY <1>1, DeterminedRight
<1> QED  BY <1>3, <1>4

\* It holds of what MergeGates computes, ...
LEMMA AnalysedHolds ==
  ASSUME NEW n, NEW D \in SUBSET Inputs, Foldable(n), ~ MergeRefuses(n, D)
  PROVE  LET a == Analysis(n, SetToSeq(D)) IN Holds(n, a, MergePlan(n, a))
<1> DEFINE a == Analysis(n, SetToSeq(D))
           p == MergePlan(n, a)
<1>1. IsNet(n) /\ ReadsLive(n) /\ Analysable(n, D)
  <2>1. IsNet(n) /\ ExactUses(n) /\ ReadsLive(n) /\ DeadIsBare(n)
    BY DEF Foldable, WellFormed
  <2>2. Listed(n)
    BY <2>1, ExactIsListed
  <2> QED  BY <2>1, <2>2 DEF Analysable
<1>2. /\ a.sources = SourcesOf(n, SetToSeq(D))
      /\ Ordered(n, a.sources, a.order)
      /\ \A d, t : Check(a.walk, d, t) => Leads(n, t, d)
  BY <1>1, WalkLeads
<1>3. a.sources \in Seq(Terminals)
  <2>1. a.sources \in Seq(D \cup Live(n))
    BY <1>1, <1>2, SourcesRight
  <2>2. D \cup Live(n) \in SUBSET Terminals
    BY DEF Live, Terminals
  <2> HIDE DEF a
  <2> QED  BY <2>1, <2>2, SeqOfMore
<1> HIDE DEF a
<1>4. IsList(p) /\ \A k \in DOMAIN p : \A c \in DOMAIN p[k].cuts : Fixes(n, p[k].cuts[c], p[k].out)
  BY <1>1, <1>2, <1>3, PlanRight
<1> QED  BY <1>2, <1>4 DEF Holds, a

\* ... and as long as it changes nothing.
LEMMA TailHolds ==
  ASSUME NEW n, NEW a, NEW p, Holds(n, a, p), p # << >>
  PROVE  Holds(n, a, Tail(p))
<1> DEFINE q == Tail(p)
<1>1. PICK S : p \in Seq(S)
  BY DEF Holds, IsList
<1>2. q \in Seq(S) /\ \A k \in DOMAIN q : k + 1 \in DOMAIN p /\ q[k] = p[k + 1]
  BY <1>1
<1> HIDE DEF q
<1>3. IsList(q)
  BY <1>2 DEF IsList
<1>4. \A k \in DOMAIN q : \A c \in DOMAIN q[k].cuts : Fixes(n, q[k].cuts[c], q[k].out)
  BY <1>2 DEF Holds
<1>5. Holds(n, a, q)
  BY <1>3, <1>4 DEF Holds
<1> QED  BY <1>5 DEF q

AnalysisHolds ==
  /\ declared \in SUBSET Inputs
  /\ pass = "merge" /\ ~ changed => Holds(net, analysis, plan)

\* Whatever pass is entered next, ...
LEMMA EnterHolds ==
  ASSUME AnalysisHolds, Foldable(net), NEW walk, Enter(walk, net), net' = net, declared' = declared,
         walk = "merge" => ~ MergeRefuses(net, declared)
  PROVE  AnalysisHolds'
<1>1. CASE walk # "merge"
  <2>1. pass' = walk
    BY Zenon DEF Enter
  <2> QED  BY <1>1, <2>1 DEF AnalysisHolds
<1>2. CASE walk = "merge"
  <2> DEFINE a == Analysis(net, SetToSeq(declared))
  <2>1. analysis' = a /\ plan' = MergePlan(net, a)
    BY <1>2 DEF Enter
  <2>2. Holds(net, a, MergePlan(net, a))
    BY <1>2, AnalysedHolds DEF AnalysisHolds
  <2> HIDE DEF a
  <2> QED  BY <2>1, <2>2 DEF AnalysisHolds
<1> QED  BY <1>1, <1>2

\* ... no step makes it wrong.
LEMMA NextHolds ==
  ASSUME AnalysisHolds, Foldable(net), Next
  PROVE  AnalysisHolds'
<1>1. CASE Build \/ Done
  <2>1. (pass = "build" \/ pass \in Ended) /\ pass' = pass /\ declared' = declared
    BY Zenon, <1>1 DEF Build, Call, Done, vars, settings
  <2> QED  BY <2>1 DEF AnalysisHolds, Ended
<1>2. CASE Finish
  <2>1. pass' = "nf" /\ declared' = {t \in Inputs : net'.uses[t] # {}}
    BY Zenon, <1>2 DEF Finish, Enter
  <2> QED  BY <2>1 DEF AnalysisHolds
<1>3. CASE \/ VisitFactor \/ VisitNormalForm
           \/ \E g \in Ahead : \/ VisitCanonicalize(g) \/ VisitFold(g) \/ VisitCse(g)
                               \/ VisitWiden(g) \/ VisitSplit(g)
  <2>1. /\ pass \in {"factor", "nf", "canonicalize", "fold", "cse", "widen", "split"} /\ pass' = pass
        /\ declared' = declared
    BY Zenon, <1>3 DEF VisitFactor, VisitNormalForm, VisitCanonicalize, VisitFold, VisitCse, VisitWiden,
                       VisitSplit, Visit, Rewrite, settings
  <2> QED  BY <2>1 DEF AnalysisHolds
<1>4. CASE VisitMerge
  <2>1. /\ pass = "merge" /\ pass' = pass /\ changed' = (changed \/ net' # net) /\ plan # << >>
        /\ plan' = Tail(plan) /\ analysis' = analysis /\ declared' = declared
    BY Zenon, <1>4 DEF VisitMerge, Rewrite, settings
  <2>2. ASSUME ~ changed'  PROVE Holds(net', analysis', plan')
    <3>1. net' = net /\ Holds(net, analysis, plan)
      BY <2>1, <2>2 DEF AnalysisHolds
    <3>2. Holds(net, analysis, Tail(plan))
      BY <2>1, <3>1, TailHolds
    <3> QED  BY <2>1, <3>1, <3>2
  <2> QED  BY <2>1, <2>2 DEF AnalysisHolds
<1>5. CASE FromFold
  <2>1. net' = net /\ declared' = declared
    BY Zenon, <1>5 DEF FromFold, settings
  <2>2. Enter(IF fpga THEN "split" ELSE "merge", net)
    BY Zenon, <1>5 DEF FromFold
  <2>3. CASE fpga
    <3>1. Enter("split", net)
      BY <2>2, <2>3
    <3> QED  BY <2>1, <3>1, EnterHolds
  <2>4. CASE ~ fpga
    <3>1. Enter("merge", net)
      BY <2>2, <2>4
    <3>2. ~ MergeRefuses(net, declared)
      BY Zenon, <1>5, <2>4 DEF FromFold
    <3> QED  BY <2>1, <3>1, <3>2, EnterHolds
  <2> QED  BY <2>3, <2>4
<1>6. CASE Again \/ FromNormalForms \/ FromFactor \/ FromCanonicalize \/ FromCse \/ FromMerge
           \/ FromWiden \/ FromSplit \/ Fail
  <2>1. /\ net' = net /\ declared' = declared
        /\ \E walk : walk # "merge" /\ Enter(walk, net)
    BY <1>6 DEF Again, FromNormalForms, FromFactor, FromCanonicalize, FromCse,
                FromMerge, FromWiden, FromSplit, Fail, Walked, settings
  <2> QED  BY <2>1, EnterHolds
<1> QED  BY Zenon, <1>1, <1>2, <1>3, <1>4, <1>5, <1>6 DEF Next, Pass

\* In every run in which the passes keep the network well formed: until MergeGates changes
\* something, all paths to an output from a gate that Check says d post-dominates lead
\* through d, and each cut found for a gate determines it.
THEOREM AnalysesAreSound == Spec /\ []PassesWellFormed => []AnalysisSound
<1>1. Init => AnalysisHolds
  BY DEF Init, AnalysisHolds
<1>2. AnalysisHolds /\ PassesWellFormed /\ [Next]_vars => AnalysisHolds'
  <2>1. UNCHANGED vars => (AnalysisHolds => AnalysisHolds')
    BY DEF vars, settings, AnalysisHolds
  <2> QED  BY <2>1, NextHolds DEF PassesWellFormed
<1>3. AnalysisHolds /\ PassesWellFormed => AnalysisSound
  BY HeldSound DEF AnalysisHolds, PassesWellFormed
<1> QED  BY <1>1, <1>2, <1>3, PTL DEF Spec

=============================================================================
