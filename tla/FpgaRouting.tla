----------------------------- MODULE FpgaRouting -----------------------------
(****************************************************************************)
(* ChipBuilder and RouteCluster (cpu/fpga_mapping.{h,cc}): the gates of a   *)
(* cluster are placed on the cells of a grid, one after the other, and each *)
(* is routed to its users over the lanes that run along the rows and the    *)
(* columns.  A gate is tried on every cell that can hold it, each time on a *)
(* copy of the builder, and the cheapest attempt is kept.                   *)
(*                                                                          *)
(* Route is a search in breadth that remembers how it reached each lane,    *)
(* and a walk back from the target that takes the lanes and sets the        *)
(* switches on the way; a step of the model is one lane of either.          *)
(*                                                                          *)
(* The clusters come from ClusterGates, which asks a solver for gates that  *)
(* fit the chip, in the order of TopoSort.                                  *)
(****************************************************************************)
EXTENDS Positions

CONSTANTS
  Rows, Cols,   \* the size of the grid
  BusWidth,     \* the lanes of a row or column
  Resources,    \* what each cell is
  Signals,      \* the gates and inputs of clusters
  Clusters,     \* the clusters
  None          \* an absent lane, cell or attempt

Coords == (0 .. Rows - 1) \X (0 .. Cols - 1)
Horizontal == 0
Vertical == 1

\* The lanes, each as <<row, column, orientation, number>>.
Lanes == (0 .. Rows - 1) \X (0 .. Cols - 1) \X {Horizontal, Vertical} \X (0 .. BusWidth - 1)
NodeOf(lane) == <<lane[1], lane[2]>>

\* A signal and its complement, which the cell of a gate has at its other output.
Terminals == Signals \X BOOLEAN
Kinds == {"in", "nor", "nand", "lut", "ff", "mux", "out"}
GateKinds == {"nand", "nor", "lookup"}

\* What a gate may be placed on, in the order of preference.
GetResources(kind, arity) ==
  CASE kind = "input"               -> <<"in">>
    [] kind = "nand"                -> <<"nand", "lut">>
    [] kind = "nor" /\ arity = 2    -> <<"nor", "lut">>
    [] kind = "nor" /\ arity # 2    -> <<"nor">>
    [] kind = "lookup"              -> <<"lut">>

\* num_logical_inputs: a lookup has two, and reads the complements of these too.
Arity(c, g) == IF c.kind[g] = "lookup" THEN 2 ELSE Cardinality(c.reads[g])

\* What ClusterGates accepts as a gate: only a NOR has more than two inputs, and at most
\* four; a lookup reads each of its inputs and the complement, of the same signal twice if
\* that is both inputs, as in Xor(a, a).
Accepted(c, g) ==
  \/ c.kind[g] = "nand" /\ Arity(c, g) = 2
  \/ c.kind[g] = "nor" /\ Arity(c, g) \in 2 .. 4
  \/ c.kind[g] = "lookup" /\ \E S \in SUBSET Signals : /\ Cardinality(S) \in 1 .. 2
                                                       /\ c.reads[g] = S \X BOOLEAN

Elements(s) == {s[i] : i \in DOMAIN s}
Placement(c) == c.gates \o c.inputs

IsCluster(c) ==
  /\ c.gates \in Seq(Signals)        \* its gates, users before what they use
  /\ c.inputs \in Seq(Signals)       \* signals from outside
  /\ c.kind \in [Signals -> GateKinds \cup {"input"}]
  /\ c.reads \in [Signals -> SUBSET Terminals]   \* what each gate reads
  /\ \A g \in Elements(c.gates) : Accepted(c, g)
  /\ \A s \in Elements(c.inputs) : c.kind[s] = "input"
  /\ c.outputs \in SUBSET Elements(c.gates)       \* the gates that are read outside
  /\ LET order == Placement(c)
     IN  \* What a gate reads is a gate or an input of the cluster.
         /\ \A g \in Elements(c.gates) : \A t \in c.reads[g] : t[1] \in Elements(order)
         \* A signal is placed once, after the gates that read it.
         /\ \A i, j \in DOMAIN order :
              /\ order[i] = order[j] => i = j
              /\ (\E p \in BOOLEAN : <<order[j], p>> \in c.reads[order[i]]) => i < j

ASSUME RoutingAssumption ==
  /\ Rows \in Nat /\ Cols \in Nat /\ BusWidth \in Nat
  /\ Resources \in [Coords -> Kinds]
  /\ \A c \in Clusters : IsCluster(c)
  /\ None \notin Coords \cup Lanes

VARIABLES
  cluster,   \* the cluster that is routed
  pc,        \* what RouteCluster is about to do
  builder,   \* the builder with the signals placed so far
  next,      \* the position of the signal to be placed
  untried,   \* the cells it has not been tried on
  best,      \* the cheapest attempt that has been routed
  work,      \* the builder of this attempt
  cost,      \* the cost of this attempt so far
  left,      \* the routes it still needs, as pairs of a terminal and a cell
  source, target,         \* the route that is searched
  seen, queue, pred, lane \* of the search: pred is how it reached each lane

searching == <<source, target, seen, queue, pred, lane>>
attempt == <<work, cost, left>>
vars == <<cluster, pc, builder, next, untried, best, attempt, searching>>

----------------------------------------------------------------------------
(* The builder.                                                             *)

\* The empty chip, with every cell available.
EmptyChip == [ cells  |-> [s \in Signals |-> None],     \* terminals_
               outs   |-> [s \in Signals |-> None],     \* the output cells, of signal_defs_at_locs_
               free   |-> Coords,                       \* available_
               holds  |-> [t \in Terminals |-> {}],     \* signals_
               used   |-> {},                           \* used_lanes_
               links  |-> {},                           \* the switches of the chip that are set
               drives |-> [t \in Terminals |-> None] ]  \* outputs() of the cell

Order == Placement(cluster)
signal == Order[next]
TypesOf(s) == GetResources(cluster.kind[s], Arity(cluster, s))

Available(chip, res) == {loc \in chip.free : Resources[loc] = res}
Todo(chip, types) ==
  Cardinality({i \in DOMAIN Order : chip.cells[Order[i]] = None /\ TypesOf(Order[i]) = types})
Excess(n, m) == IF n > m THEN n - m ELSE 0

\* CheckCapacity: the lookup tables left are enough for the gates that need one
\* and for those that find no cell of their own kind.
CheckCapacity(chip) ==
  LET fixedNors == Todo(chip, <<"nor">>)
      remNors   == Cardinality(Available(chip, "nor"))
      remNands  == Cardinality(Available(chip, "nand"))
      usedLuts  == Todo(chip, <<"lut">>)
                     + Excess(Todo(chip, <<"nand", "lut">>), remNands)
                     + Excess(Todo(chip, <<"nor", "lut">>), remNors - fixedNors)
  IN  /\ fixedNors <= remNors
      /\ usedLuts <= Cardinality(Available(chip, "lut"))

Place(chip, s, loc) == [chip EXCEPT !.free = @ \ {loc}, !.cells[s] = loc]

----------------------------------------------------------------------------
(* Order of cells and lanes: sets of the code are sorted.                   *)

CellRank(loc) == loc[1] * Cols + loc[2] + 1
LaneRank(l) == ((CellRank(NodeOf(l)) - 1) * 2 + l[3]) * BusWidth + l[4] + 1
Sorted(S, Rank(_)) ==
  [k \in 1 .. Cardinality(S) |->
     CHOOSE x \in S : Rank(x) = NthOf({Rank(y) : y \in S}, k)]

\* The cells to be tried, by kind and then by place.
Candidates(s) ==
  LET CellsOf(i) == IF i \in DOMAIN TypesOf(s)
                    THEN Sorted(Available(builder, TypesOf(s)[i]), CellRank) ELSE << >>
  IN  CellsOf(1) \o CellsOf(2)

Distance(a, b) == LET Abs(x) == IF x < 0 THEN -x ELSE x
                  IN  Abs(a[1] - b[1]) + Abs(a[2] - b[2])

\* The output cells left that are closest to loc, the first of them.
ClosestOutput(chip, loc) ==
  LET outs == Available(chip, "out")
      closest == {o \in outs : \A p \in outs : Distance(loc, o) <= Distance(loc, p)}
  IN  Sorted(closest, CellRank)[1]

----------------------------------------------------------------------------
(* The lanes next to a lane.                                                *)

Cross(l) == [i \in 1 .. BusWidth |-> <<l[1], l[2], 1 - l[3], i - 1>>]
Onward(l) == IF l[3] = Horizontal
             THEN << <<l[1], l[2] - 1, l[3], l[4]>>, <<l[1], l[2] + 1, l[3], l[4]>> >>
             ELSE << <<l[1] - 1, l[2], l[3], l[4]>>, <<l[1] + 1, l[2], l[3], l[4]>> >>

\* linked_lane: a lane that a switch joins to one across it is not joined to another.
Linked(chip, l) == \E i \in 1 .. BusWidth : {l, Cross(l)[i]} \in chip.links
\* Faulty: without the bounds of the grid.
StepsOffGrid(chip, l) ==
  (IF Linked(chip, l) THEN << >> ELSE Cross(l))
    \o Compact(Onward(l), {i \in 1 .. 2 : {l, Onward(l)[i]} \notin chip.links})

Steps(chip, l) ==
  (IF Linked(chip, l) THEN << >> ELSE Cross(l))
    \o Compact(Onward(l), {i \in 1 .. 2 : /\ Onward(l)[i] \in Lanes
                                         /\ {l, Onward(l)[i]} \notin chip.links})

\* Faulty: without the check of used_lanes_.
FreshOrUsed(chip, ls) == Compact(ls, {i \in DOMAIN ls : ls[i] \notin seen})

\* The lanes of a sequence that try_enqueue lets in.
Fresh(chip, ls) == Compact(ls, {i \in DOMAIN ls : ls[i] \notin chip.used \cup seen})

\* The last of them that lies at loc, if any.
Arrival(ls, loc) == LET there == {i \in DOMAIN ls : NodeOf(ls[i]) = loc}
                    IN  IF there = {} THEN None ELSE ls[NthOf(there, Cardinality(there))]

----------------------------------------------------------------------------
\* What ClusterGates asks of a cluster.
FitsChip(c) ==
  LET Cells(res) == Cardinality({loc \in Coords : Resources[loc] = res})
      Gates(kind, wide) == Cardinality({g \in Elements(c.gates) :
                             c.kind[g] = kind /\ (Arity(c, g) > 2 <=> wide)})
      nors == Gates("nor", TRUE) + Gates("nor", FALSE)
  IN  /\ Gates("nor", TRUE) <= Cells("nor")
      /\ Excess(nors, Cells("nor")) + Excess(Gates("nand", FALSE), Cells("nand"))
           + Gates("lookup", FALSE) <= Cells("lut")
      /\ Len(c.inputs) <= Cells("in")
      /\ Cardinality(c.outputs) <= Cells("out")

Init ==
  /\ cluster \in {c \in Clusters : FitsChip(c)}
  /\ pc = "next"
  /\ builder = EmptyChip /\ work = EmptyChip
  /\ next = 1
  /\ untried = << >> /\ best = None
  /\ cost = 0 /\ left = {}
  /\ source = None /\ target = None /\ lane = None
  /\ seen = {} /\ queue = << >> /\ pred = << >>

\* The next signal.
StartSignal ==
  /\ pc = "next" /\ next \in DOMAIN Order
  /\ pc' = "try"
  /\ untried' = Candidates(signal)
  /\ best' = None
  /\ UNCHANGED <<cluster, builder, next, attempt, searching>>

Routed ==
  /\ pc = "next" /\ next \notin DOMAIN Order
  /\ pc' = "routed"
  /\ UNCHANGED <<cluster, builder, next, untried, best, attempt, searching>>

\* Faulty: the users of the complement are forgotten.
UsesOfSignal(s, chip) ==
  {<< <<s, TRUE>>, chip.cells[g]>> :
     g \in {h \in Elements(cluster.gates) : <<s, TRUE>> \in cluster.reads[h]}}

\* The routes a signal needs: to the gates of the cluster that read it, and of its
\* complement to those that read that.  A lookup needs both.
Uses(s, chip) ==
  {<<u[1], chip.cells[u[2]]>> :
     u \in {u \in ({s} \X BOOLEAN) \X Elements(cluster.gates) : u[1] \in cluster.reads[u[2]]}}

\* Faulty: without CheckCapacity.
TryAnyCell ==
  /\ pc = "try" /\ untried # << >>
  /\ LET chip == Place(builder, signal, Head(untried))
     IN  /\ pc' = "route"
         /\ work' = chip
         /\ cost' = 0
         /\ left' = Uses(signal, chip)
  /\ UNCHANGED <<cluster, builder, next, untried, best, searching>>

\* Faulty: the cost of the attempts adds up.
TryCellAddsCost ==
  /\ pc = "try" /\ untried # << >>
  /\ LET chip == Place(builder, signal, Head(untried))
     IN  IF CheckCapacity(chip)
         THEN /\ pc' = "route"
              /\ work' = chip
              /\ left' = Uses(signal, chip)
              /\ UNCHANGED <<untried, cost>>
         ELSE /\ untried' = Tail(untried)
              /\ UNCHANGED <<pc, attempt>>
  /\ UNCHANGED <<cluster, builder, next, best, searching>>

TryCell ==
  /\ pc = "try" /\ untried # << >>
  /\ LET chip == Place(builder, signal, Head(untried))
     IN  IF CheckCapacity(chip)
         THEN /\ pc' = "route"
              /\ work' = chip
              /\ cost' = 0
              /\ left' = Uses(signal, chip)
              /\ UNCHANGED untried
         ELSE /\ untried' = Tail(untried)
              /\ UNCHANGED <<pc, attempt>>
  /\ UNCHANGED <<cluster, builder, next, best, searching>>

\* A signal that holds a lane at the target needs no more.
BeginRoute(t, loc) ==
  /\ source' = t /\ target' = loc
  /\ IF \E l \in work.holds[t] : NodeOf(l) = loc
     THEN UNCHANGED <<pc, seen, queue, pred, lane>>
     ELSE LET cell   == work.cells[t[1]]
              pins   == [k \in 1 .. 2 * BusWidth |->
                           <<cell[1], cell[2], (k - 1) % 2, (k - 1) \div 2>>]
              starts == Compact(pins, {i \in DOMAIN pins : pins[i] \notin work.used})
          IN  /\ pc' = "search"
              /\ lane' = IF work.holds[t] = {} THEN Arrival(starts, loc) ELSE None
              /\ IF work.holds[t] = {}
                 THEN /\ seen' = Elements(starts)
                      /\ queue' = starts
                      /\ pred' = [l \in Elements(starts) |-> None]
                 ELSE /\ seen' = work.holds[t]
                      /\ queue' = Sorted(work.holds[t], LaneRank)
                      /\ pred' = << >>

RouteUse(use) ==
  /\ pc = "route"
  /\ left' = left \ {use}
  /\ BeginRoute(use[1], use[2])
  /\ UNCHANGED <<cluster, builder, next, untried, best, work, cost>>

\* A signal that is read outside goes to an output cell, when its users have been routed.
NeedsOutput == signal \in cluster.outputs /\ work.outs[signal] = None

\* CHECK(best_dist) stops the program when there is no output cell left.
RouteOutput ==
  /\ pc = "route" /\ left = {} /\ NeedsOutput
  /\ Available(work, "out") # {}
  /\ LET out == ClosestOutput(work, work.cells[signal])
     IN  /\ work' = [work EXCEPT !.free = @ \ {out}, !.outs[signal] = out]
         /\ BeginRoute(<<signal, TRUE>>, out)
  /\ UNCHANGED <<cluster, builder, next, untried, best, cost, left>>

\* Faulty: in depth, and without coming back.
ExpandForgets ==
  /\ pc = "search" /\ queue # << >> /\ lane = None
  /\ \E fresh \in {Fresh(work, Steps(work, Head(queue)))} :
       /\ queue' = fresh
       /\ seen' = seen \cup Elements(fresh)
       /\ pred' = [l \in Elements(fresh) \cup DOMAIN pred |->
                     IF l \in Elements(fresh) THEN Head(queue) ELSE pred[l]]
       /\ lane' = Arrival(fresh, target)
  /\ UNCHANGED <<cluster, pc, builder, next, untried, best, attempt, source, target>>

\* The loop of Route.
Expand ==
  /\ pc = "search" /\ queue # << >> /\ lane = None
  /\ \E fresh \in {Fresh(work, Steps(work, Head(queue)))} :
       /\ queue' = Tail(queue) \o fresh
       /\ seen' = seen \cup Elements(fresh)
       /\ pred' = [l \in Elements(fresh) \cup DOMAIN pred |->
                     IF l \in Elements(fresh) THEN Head(queue) ELSE pred[l]]
       /\ lane' = Arrival(fresh, target)
  /\ UNCHANGED <<cluster, pc, builder, next, untried, best, attempt, source, target>>

\* Faulty: the cell is tried again.
NoRouteRetries ==
  /\ pc = "search" /\ queue = << >> /\ lane = None
  /\ pc' = "try"
  /\ UNCHANGED <<cluster, builder, next, untried, best, attempt, searching>>

\* The attempt fails: the builder it worked on is dropped.
NoRoute ==
  /\ pc = "search" /\ queue = << >> /\ lane = None
  /\ pc' = "try"
  /\ untried' = Tail(untried)
  /\ UNCHANGED <<cluster, builder, next, best, attempt, searching>>

\* Faulty: the lane is taken and the switch is not set.
WalkNoSwitch ==
  /\ pc = "search" /\ lane # None /\ lane \notin work.holds[source]
  /\ work' = LET taken == [work EXCEPT !.holds[source] = @ \cup {lane}, !.used = @ \cup {lane}]
             IN  IF pred[lane] = None
                 THEN [taken EXCEPT !.drives[source] = lane] ELSE taken
  /\ lane' = pred[lane]
  /\ pc' = IF pred[lane] = None THEN "route" ELSE pc
  /\ cost' = cost + 1
  /\ UNCHANGED <<cluster, builder, next, untried, best, left, source, target, seen, queue, pred>>

\* One lane of the way back.
Walk ==
  /\ pc = "search" /\ lane # None /\ lane \notin work.holds[source]
  /\ work' = LET taken == [work EXCEPT !.holds[source] = @ \cup {lane}, !.used = @ \cup {lane}]
             IN  IF pred[lane] = None
                 THEN [taken EXCEPT !.drives[source] = lane]
                 ELSE [taken EXCEPT !.links = @ \cup {{lane, pred[lane]}}]
  /\ lane' = pred[lane]
  /\ pc' = IF pred[lane] = None THEN "route" ELSE pc
  /\ cost' = cost + 1
  /\ UNCHANGED <<cluster, builder, next, untried, best, left, source, target, seen, queue, pred>>

\* The way back has met a lane that holds the signal.
Joined ==
  /\ pc = "search" /\ lane # None /\ lane \in work.holds[source]
  /\ pc' = "route"
  /\ UNCHANGED <<cluster, builder, next, untried, best, attempt, searching>>

\* The attempt is kept if it is cheaper than those before it.
Attempted ==
  /\ pc = "route" /\ left = {} /\ ~ NeedsOutput
  /\ best' = IF best = None \/ best.cost > cost THEN [cost |-> cost, chip |-> work] ELSE best
  /\ untried' = Tail(untried)
  /\ pc' = "try"
  /\ UNCHANGED <<cluster, builder, next, attempt, searching>>

Placed ==
  /\ pc = "try" /\ untried = << >>
  /\ IF best = None
     THEN /\ pc' = "failed"
          /\ UNCHANGED <<builder, next>>
     ELSE /\ pc' = "next"
          /\ builder' = best.chip
          /\ next' = next + 1
  /\ UNCHANGED <<cluster, untried, best, attempt, searching>>

Stopped == pc \in {"routed", "failed"} /\ UNCHANGED vars

Step == \/ StartSignal \/ Routed \/ TryCell \/ Attempted \/ Placed
        \/ (\E use \in left : RouteUse(use)) \/ RouteOutput
        \/ Expand \/ NoRoute \/ Walk \/ Joined

Next == Step \/ Stopped

\* RouteCluster is a function that has been called.
Spec == Init /\ [][Next]_vars /\ WF_vars(Step)

----------------------------------------------------------------------------
IsBuilder(chip) ==
  chip \in [ cells  : [Signals -> Coords \cup {None}],
             outs   : [Signals -> Coords \cup {None}],
             free   : SUBSET Coords,
             holds  : [Terminals -> SUBSET Lanes],
             used   : SUBSET Lanes,
             links  : SUBSET (SUBSET Lanes),
             drives : [Terminals -> Lanes \cup {None}] ]

\* The variables have their types: no lane lies off the grid, and every route that is
\* still to be searched leads to a cell, for its user has been placed (terminals_.at).
TypeOK ==
  /\ cluster \in Clusters
  /\ pc \in {"next", "try", "route", "search", "routed", "failed"}
  /\ IsBuilder(builder) /\ IsBuilder(work)
  /\ next \in 1 .. Len(Order) + 1
  /\ untried \in Seq(Coords)
  /\ best # None => best.cost \in Nat /\ IsBuilder(best.chip)
  /\ cost \in Nat
  /\ left \in SUBSET (Terminals \X Coords)
  /\ source \in Terminals \cup {None} /\ target \in Coords \cup {None}
  /\ lane \in Lanes \cup {None}
  /\ seen \in SUBSET Lanes
  /\ queue \in Seq(Lanes)
  /\ DOMAIN pred \in SUBSET Lanes
  /\ \A l \in DOMAIN pred : pred[l] \in Lanes \cup {None}

\* No lane carries two signals, and no switch joins lanes of different signals.
NoShort(chip, walking) ==
  /\ \A s, t \in Terminals : s # t => chip.holds[s] \cap chip.holds[t] = {}
  /\ chip.used = UNION {chip.holds[t] : t \in Terminals}
  /\ \A link \in chip.links : \E t \in Terminals :
       link \subseteq chip.holds[t] \cup (IF t = source THEN walking ELSE {})

Walking == IF pc = "search" THEN {lane} ELSE {}

LanesExclusive ==
  /\ NoShort(builder, {})
  /\ pc \in {"route", "search"} => NoShort(work, Walking)
  /\ best # None => NoShort(best.chip, {})

\* The switches lead from the pin of a terminal's cell to every lane that holds it: no
\* part of these lanes has the pin and no switch to the rest.
Connected(chip, t) ==
  \A part \in SUBSET chip.holds[t] :
    chip.drives[t] \in part /\ part # chip.holds[t] =>
      \E l \in part, m \in chip.holds[t] \ part : {l, m} \in chip.links

\* Each lane that holds a signal is reached from a pin of the signal's own cell.
Driven ==
  \A t \in Terminals : builder.holds[t] # {} =>
    /\ builder.drives[t] \in builder.holds[t]
    /\ NodeOf(builder.drives[t]) = builder.cells[t[1]]
    /\ Connected(builder, t)

\* A routed cluster is what Build takes it for: each gate finds every signal it reads, and
\* each output cell its signal, on a lane of its own cell; and the cells suit their gates.
At(chip, t, loc) == \E l \in chip.holds[t] : NodeOf(l) = loc
Realised ==
  pc = "routed" =>
    /\ \A g \in Elements(cluster.gates) : \A t \in cluster.reads[g] :
         At(builder, t, builder.cells[g])
    /\ \A s \in cluster.outputs : At(builder, <<s, TRUE>>, builder.outs[s])
    /\ \A s \in Elements(Order) : Resources[builder.cells[s]] \in Elements(TypesOf(s))
    /\ LET places == {builder.cells[s] : s \in Elements(Order)}
                       \cup {builder.outs[s] : s \in cluster.outputs}
       IN  Cardinality(places) = Len(Order) + Cardinality(cluster.outputs)

\* A cluster that fits the chip keeps fitting it: whatever has been placed where, the
\* next signal finds a cell that leaves enough for the others, and an output the output
\* cell that CHECK(best_dist) asks for.
CellsSuffice ==
  /\ pc = "route" /\ left = {} /\ NeedsOutput => Available(work, "out") # {}
  /\ pc = "next" => CheckCapacity(builder)
  /\ pc = "next" /\ next \in DOMAIN Order =>
       \E loc \in Elements(Candidates(signal)) : CheckCapacity(Place(builder, signal, loc))

\* A search gives up only when it has seen every lane that can be reached.
SearchComplete ==
  pc = "search" /\ queue = << >> /\ lane = None =>
    \A l \in seen : /\ NodeOf(l) # target
                     /\ \A m \in Elements(Steps(work, l)) : m \in seen \cup work.used

\* The cost of an attempt is the number of lanes it takes.
CostIsLanes ==
  pc = "route" => cost = Cardinality(work.used) - Cardinality(builder.used)

\* RouteCluster returns.
Ends == <>(pc \in {"routed", "failed"})

=============================================================================
