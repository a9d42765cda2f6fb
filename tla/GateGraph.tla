------------------------------- MODULE GateGraph -------------------------------
(****************************************************************************)
(* The graph of a gate network (cpu/graph.{h,cc}): its feedback, the order  *)
(* in which signals depend on each other, and their post-dominators.        *)
(*                                                                          *)
(* The nodes are the terminals; an edge leads to each user of a terminal,   *)
(* and Sink is the terminal sink().  The users of a terminal come in the    *)
(* order of the gates, the output gate last, which is the order of          *)
(* linked_hash_set until an input is redirected; the gates where feedback   *)
(* starts and ends, which the code has in hash sets, come in the order of   *)
(* the gates too.                                                           *)
(****************************************************************************)
EXTENDS GateValues, SequencesExt

\* f applied n times to x.
Iterated(f(_), x, n) == FoldLeft(LAMBDA y, k : f(y), x, [k \in 1 .. n |-> k])

UsersOf(net, t) == {u[1] : u \in net.uses[t]}
InOrder(gates) == Compact([g \in Gates |-> g], gates)

\* GetUsers: the users of t, each as often as it reads t.
UserList(net, t) ==
  FoldLeft(LAMBDA list, u :
             list \o [k \in 1 .. Cardinality({i \in DOMAIN net.ins[u] : net.ins[u][i] = t}) |-> u],
           << >>,
           InOrder(UsersOf(net, t) \ {Sink}) \o
             IF Sink \in UsersOf(net, t) THEN <<Sink>> ELSE << >>)

\* Input 0, which is also what a GateTerminal is by default, of the inputs of a network
\* in their order; that of a network without inputs is no terminal of it.
DefaultTerminal(inputs) == IF inputs = << >> THEN Null ELSE inputs[1]

----------------------------------------------------------------------------
(* Sccs: the feedback.                                                      *)

\* Every terminal that depends on one of T, and T.
Downstream(net, T) ==
  Iterated(LAMBDA S : S \cup UNION {UsersOf(net, t) : t \in S \ {Sink}},
           T, Cardinality(Live(net)))

Dependents(net) == [g \in Live(net) |-> Downstream(net, UsersOf(net, g))]

\* The gates on a cycle with g; {} if there is none.
Component(down, g) == {h \in DOMAIN down : h \in down[g] /\ g \in down[h]}

\* The gates on cycles that use a value from outside theirs, and those that are
\* used outside it.
FeedbackSinks(net, down) ==
  {g \in DOMAIN down : Component(down, g) # {} /\ InputsOf(net, g) \ Component(down, g) # {}}
FeedbackSources(net, down) ==
  {g \in DOMAIN down : Component(down, g) # {} /\ UsersOf(net, g) \ Component(down, g) # {}}

----------------------------------------------------------------------------
(* TopoSort.                                                                *)

\* visit(t), where s has the order, the terminals that are ready and of each gate how many
\* of its inputs have been processed.  An input counts as often as it is visited.
TopoVisit(net, sinks, s, t) ==
  FoldLeft(LAMBDA acc, u :
             IF u \in sinks THEN acc
             ELSE [acc EXCEPT
                     !.processed[u] = @ + 1,
                     !.ready = IF acc.processed[u] + 1 = Len(net.ins[u]) THEN Append(@, u) ELSE @],
           [s EXCEPT !.order = Append(@, t)], UserList(net, t))

\* The order without the sinks: the sources, then what becomes ready, first come first
\* served.  A gate where feedback starts is a source and may become ready all the same:
\* then it is visited again.
TopoSort(net, sources, sinks) ==
  LET visited == FoldLeft(LAMBDA s, t : TopoVisit(net, sinks, s, t),
                          [order |-> << >>, ready |-> << >>, processed |-> [g \in Gates |-> 0]],
                          sources)
      Next(s) == IF s.ready = << >> THEN s
                 ELSE TopoVisit(net, sinks, [s EXCEPT !.ready = Tail(@)], Head(s.ready))
  IN  Iterated(Next, visited, Cardinality(Live(net))).order

----------------------------------------------------------------------------
(* PostDominatorTree.  Of each terminal the code keeps the immediate        *)
(* post-dominator, the depth and the terminals it is the immediate          *)
(* post-dominator of.  The sinks are the roots; of terminals whose paths    *)
(* end in different sinks the default terminal becomes the post-dominator,  *)
(* which no sink leads to.                                                  *)

\* lowest_common_ancestor: first the deeper of the two climbs, then both, until they
\* meet, at the default terminal at the latest.
LowestCommon(tree, default, a, b) ==
  LET ends    == IF tree[a].depth > tree[b].depth THEN <<b, a>> ELSE <<a, b>>
      Deep(p) == IF tree[p[2]].depth > tree[p[1]].depth THEN <<p[1], tree[p[2]].up>> ELSE p
      Both(p) == IF p[1] = p[2] THEN p ELSE <<tree[p[1]].up, tree[p[2]].up>>
      n       == Cardinality(DOMAIN tree)
      deep    == IF ends[1] = ends[2] THEN ends ELSE Iterated(Deep, ends, n)
      met     == IF deep[1] = deep[2] THEN deep ELSE Iterated(Both, deep, n)
  IN  IF met[1] = met[2] THEN met[1] ELSE default

\* Faulty: the user that comes last.
LastUser(tree, default, users) == users[Len(users)]

PostDominator(tree, default, users) ==
  FoldLeft(LAMBDA pdom, u : LowestCommon(tree, default, u, pdom), Head(users), Tail(users))

\* The entry of t is written anew: what it post-dominates is forgotten, also where t is
\* a sink as well as a source.
Graft(tree, t, pdom) ==
  [[tree EXCEPT ![t] = [up |-> pdom, depth |-> tree[pdom].depth + 1, kids |-> << >>]]
     EXCEPT ![pdom].kids = Append(@, t)]

\* IsKnown: the tree has an entry for the terminals of the order and their users.
KnownTerminals(net, order, sinks) ==
  ToSet(order) \cup ToSet(sinks) \cup UNION {UsersOf(net, t) : t \in ToSet(order)}

PostDominatorTree(net, order, sinks, default) ==
  FoldLeft(LAMBDA tree, t : Graft(tree, t, PostDominator(tree, default, UserList(net, t))),
           [t \in KnownTerminals(net, order, sinks) \cup {default} |->
              [up |-> default, depth |-> 0, kids |-> << >>]],
           Reverse(order))

\* compute_idx: the walk through the tree from the sinks, as the paths on which it comes
\* to a terminal.  (The places of the paths that begin with one are those from idx to
\* post_idx of its last terminal.)
WalkTree(tree, sinks) ==
  LET Kids(p) == [k \in DOMAIN tree[Last(p)].kids |-> Append(p, tree[Last(p)].kids[k])]
      Deeper(s) ==
        [ paths |-> FoldLeft(LAMBDA paths, p :
                               paths \o <<p>> \o IF Len(p) = s.depth THEN Kids(p) ELSE << >>,
                             << >>, s.paths),
          depth |-> s.depth + 1 ]
  IN  Iterated(Deeper, [paths |-> [k \in DOMAIN sinks |-> <<sinks[k]>>], depth |-> 1],
               Cardinality(DOMAIN tree)).paths

\* Check: d post-dominates t.  Of a terminal that the walk meets more than once the last
\* visit counts.
Visits(walk, t) == {i \in DOMAIN walk : Last(walk[i]) = t}
LastPath(walk, t) == walk[CHOOSE i \in Visits(walk, t) : \A j \in Visits(walk, t) : i >= j]
Check(walk, d, t) ==
  /\ Visits(walk, d) # {} /\ Visits(walk, t) # {}
  /\ IsPrefix(LastPath(walk, d), LastPath(walk, t))

=============================================================================
