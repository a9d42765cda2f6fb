# A TLA+ model of toy-hdl

toy-hdl builds a small CPU out of gates: C++ templates describe its parts as networks of
gates, passes simplify a network and lower it to transistors or to the cells of a little
FPGA, evaluators check the results against specifications, and an instruction set with an
emulator, an assembler and the beginning of a high-level language sits on top.  This
directory holds TLA+ models of that code, the TLC configurations that check them on small
instances, and proofs for instances of every size.

Paths below are relative to `src/`.  `PROJECT.json` names the lines each definition stands
for.

    tlc -workers 2 -config MCGateNetwork.cfg MCGateNetwork.tla    # a run
    tlapm GateNetworkProofs.tla                                   # the proofs


## 1. The system

| Component | State it keeps | Operations | Works with |
|---|---|---|---|
| Gate networks (`cpu/gate_lib`) | a deque of gates (kind, input terminals, lookup table), for each terminal the list `uses_` of input slots that read it, the output slots | builder calls (`Not` ... `Mux`, `TriStateBuffer`, latches, flip-flops, `DeclareOutput`); `SetInput`, `ReplaceAllUsesWith`, `EraseInputs`, `Erase`, `Canonicalize`; walks that call back | everything under `cpu/` |
| Gate passes (`cpu/gate_opt`, `cpu/compiler`) | per walk: the map of gates seen; flags for "something changed" | `RunCanonicalizer`, `CseGates`, `FoldGates`, `OptimizeNF`, `MergeGates`, `FactorGates`, `LowerFpgaGates`, and the two pipelines | calls the operations of the network from inside a walk over it |
| Gate evaluation (`cpu/eval`) | the caller's map of terminal values, kept between calls; a queue | `EvaluateStep`, `GetNum`, `VerifySpec`, `GateSpec::Verify` | reads networks |
| Register file (`cpu/register_file.h`) | bits in loops of gates | `MakeRegister`, `MakeRegisterFile` | builds networks; checked by `GateSpec::Verify` |
| Lowering to transistors (`cpu/lower_gates`, `cpu/transistor_lib`, `cpu/transistor_opt`) | transistors, connections, placeholders | `Lower`, `replace` | reads networks |
| Transistor evaluation (`cpu/eval`) | pin states, a queue | `Evaluate`, `EvaluateAll` | reads transistor networks |
| Graph algorithms (`cpu/graph`) | none | `Sccs`, `TopoSort`, `PostDominatorTree` | used by `MergeGates`, `FactorGates` |
| FPGA description and mapping (`cpu/fpga*`) | lanes, links and cells taken | clustering through Z3, placement, routing | reads lowered networks |
| Gate text format (`cpu/gate_text_format`) | none | print and parse a network | tests |
| Instruction set, encoder, decoder (`isa/isa*`, `isa/instructions`, `isa/encdec.h`, `cpu/decoder.h`) | tables | `DefineInstruction`, the generated decoder, `Decoder::spec` | emulator, assembler |
| Emulator (`isa/emulator`, `cpu/alu.h`) | registers, RAM, inputs, PC, call stack, flag, banks, spare register | `step`, `Op`; inputs change between steps | decoder, ALU |
| Assembler (`isa/assembler`) | labels, the count of instructions | two passes over the text | encoder |
| jank front end (`jank/`) | scopes, chained by pointers; a token stream | lex, parse, print | nothing yet |
| Exporters and drivers (`cpu/export`, `cpu/main`, `export/`) | none | write dot, protobuf, KiCad | networks |

There are no threads, no messages and no persistence.  What makes the code hard is

  * **state kept twice**: `uses_` mirrors the inputs of the gates, and six functions
    maintain it by hand, sometimes while a caller iterates over it;
  * **rewriting under a walk**: a pass changes, erases and adds gates in the callback of the
    walk it runs in, and holds maps of gates it saw before it rewired them;
  * **fixpoints**: passes repeat until nothing changes, and their rules point in opposite
    directions;
  * **feedback**: a latch has several stable states; evaluating it depends on the values of
    the previous call and on the order in which gates are visited;
  * **arithmetic done the hardware's way**: the PC goes through three 4-bit adders, the
    decoder's signals combine freely, predicates hold back some effects and not others;
  * **limits**: the call stack, RAM banks, ROM, the output slots, arity limits of the FPGA.

What should hold, component by component:

  * *networks*: `uses_` is the exact inverse of the inputs; no reader of an erased gate;
    erasing is final;
  * *passes*: every step keeps the network's function and its well-formedness; the passes
    end; what they leave is in lowered form and acceptable to `Lower`;
  * *evaluation*: a call returns, leaves a stable network, and leaves no gate without a
    value once the network was reset; *registers* change on the rising clock edge only;
  * *instruction set and emulator*: what a program sees is the instruction set as described;
    stack and widths are respected; a failing instruction has no effect;
  * *transistors*: evaluation does not depend on its order, and lowering a gate gives its
    function;
  * *graph algorithms*: they compute what their names say;
  * *routing*: no lane carries two signals, and every reader is connected to its writer;
  * *assembler*: a label means the address its instruction ends up at, in both passes, and
    what is emitted is what was written;
  * *jank*: a name is looked up in the scopes that enclose it, and operators bind by their
    precedence.


## 2. The modules

| Module | Models | |
|---|---|---|
| `Positions` | the n-th of a set of numbers; what remains of a sequence | |
| `GateNet` | the value of a network and each operation of `gate_lib` as an operator on it | extends `Positions`; constants: inputs, `MaxGates`, `MaxOutputs` |
| `GateNetwork` | every order of builder calls and then rewriting calls | extends `GateNet` |
| `GateNetworkProofs` | theorems about `GateNetwork` | extends it and `GateFoldsProofs` |
| `GateValues` | `compute_value`, and the function a network stands for | extends `GateNet` |
| `GateGraph` | `Sccs`, `TopoSort`, `PostDominatorTree` | extends `GateValues` |
| `GateRewrites` | what one rewrite of `OptimizeNF`, `FactorGates` or `MergeGates` makes of a network | extends `GateGraph` |
| `GateFolds` | what one visit of `FoldGates` or `CseGates` makes of a network, and what these rely on | extends `GateValues` |
| `GateFoldsProofs` | what each operation of `GateNet` does to a network; theorems about the visits | extends it |
| `GatePasses` | all passes gate by gate and the order `Compile` runs them in | extends `GateRewrites` and `GateFolds` |
| `GatePassesProofs` | theorems about `GatePasses`: the function, the lowered form, the analyses | extends it and `GateFoldsProofs` |
| `GateEval` | `EvaluateStep` with its queue, one visit a step | extends `GateValues` |
| `GateEvalProofs` | theorems about `GateEval` | extends it |
| `RegisterCell` | `MakeDFlipFlop`, `MakeRegister` and the caller `GateSpec::Verify` is | extends `GateEval`, implements `ClockedBit` |
| `ClockedBit` | abstract: a bit that changes on the rising edge or on reset | |
| `TransistorNet` | the wiring of transistors, the builders of `transistor_lib`, `RunDte` | |
| `TransistorEval` | `Evaluate`, `EvaluateAll`, `VerifySpec` with their queue | extends `TransistorNet` |
| `LowerGates` | `Lower`, and the callers that evaluate what it makes | extends `TransistorEval` and `GateValues` |
| `LowerGatesProofs` | theorems about `LowerGates` and the evaluation of a row | extends it |
| `Isa` | fields, encodings, encoder and decoder | |
| `Datapath` | the ALU and the decoder's signals | extends `Isa` |
| `Emulator` | `step` and `Op` | extends `Datapath`, implements `AbstractIsa` |
| `AbstractIsa` | abstract: the instructions as `isa.cc` describes them in its comments | |
| `EmulatorProofs` | theorems about `Emulator`, the refinement among them | extends it |
| `FpgaRouting` | `RouteCluster`: placement and routing on the FPGA's grid | extends `Positions` |
| `FpgaRoutingProofs` | theorems about `FpgaRouting` | extends it |
| `Assembler` | `ParseAssembly`: both passes of `Parse`, `DispatchInstruction` | extends `Isa` |
| `AssemblerProofs` | theorems about `Assembler` | extends it |
| `JankSyntax` | tokens and trees of jank, the text of a program and what it means | |
| `JankParser` | `Parser::Parse`, a statement a step, and the scopes | extends `JankSyntax` |
| `MC*` | small instances | |

### Networks

A network is one record: `kind`, `ins` and `lut` of each gate, `uses` of each terminal,
`size` (the deque) and `outs`.  Terminals are the input bits, `Low`, `High`, the gates, and
`Null`.  The fake gate that holds the output slots is number 0 (`Sink`); it is dead, as in
the code.  A row of a lookup table is a Boolean of a sequence.  Scopes, tags and labels are
left out.  Operations whose C++ body loops over users (`ReplaceAllUsesWith`) or inputs
(`EraseInputs`, `Erase`) are one operator: nothing can be observed between two rounds of
the loop, and the operators say what is there after the last.

`GateNetwork` is the environment of that data structure: the front end builds until the last
output is declared; from then on every rewriting call may come with every live operand it
could be given by some pass, whether or not a pass would.  One kind of call is not among them:
`MergeGates` erases gates that may still be read (section 6).  `GatePasses` has it as it is in
the code, and `NoDeadRead` is a property of the calls other than that one.

`GatePasses` is narrower: the calls come from the code of the passes.  A walk is `pos`, the
position reached; the flags `changed`, `subChanged`, `roundChanged` are the loop conditions
of `FoldGates`/`CseGates`, the inner loop of `RunGateOptPipeline`, and the outer loops;
`seen` is `seen_gates` of `CseGates`, with the keys the gates had *when they were put in*.
One step visits one gate.

`PassesWellFormed` is about more than `uses_`: a rewrite also relies on what its network is
like.  `Foldable` says what that is: the second input of a mux, of a buffer and of each pair of a
lookup is the complement of the first, no gate reads a buffer, a lookup has a row for each value
of its inputs.  `Current` says of `seen_gates` that a gate that was listed still has the key
it was listed under, or else that this key names an erased gate, which no later gate reads.

`OptimizeNF` draws up the list of normal forms before its first rewrite, `MergeGates` the
order, the feedback and the post-dominator tree: `plan` and `analysis` hold what was drawn up
while the network below it changes, as the code's local variables do.  One step takes one
entry.  `FactorGates` is called until it finds no group.  Where `OptimizeNF` and `FactorGates`
take the first of several equal choices in the order of a hash map or of insertion, `GateRewrites`
returns all of them.  The loops of the graph algorithms, which the code writes as recursion or
with work lists, are functions of the number of rounds.

`MergeGates` goes by orders, and so does its model.  The users of a terminal come in the order of the gates,
the output gate last; the gates where feedback starts and ends, which the code has in hash sets,
come in the order of the gates too.  With these, `TopoSort` counts processed input slots, so that a
gate where feedback starts may be visited a second time and then counts twice for its users;
`PostDominatorTree` writes an entry anew where such a gate is a sink as well, and forgets what was
grafted below it; the walk from a cut (`WalkCut`) meets, tabulates and scores a terminal of the cut that the
others determine, and may hand it to the rewrite as removable; of cuts with the same score the first is taken.
The default terminal that `lowest_common_ancestor` returns for paths that never meet is as in the code.

What the code ends by an assertion or an exception is the step `Fail`: in `MergeGates` an input that
nothing reads, a constant that is still read ("Run fold-gates first.") and a gate that reads
itself, and the exception of `funs.at` when the walk meets a gate whose inputs were counted but have no
tables yet (`cpu/gate_opt.cc:311`); in `OptimizeNF` a clause that has an input in both signs; in
`FoldGates` a lookup of fewer inputs than its rows are for.  The run comes to all of these but the last and the
gate that reads itself.  The greedy path of `FactorGates`, which stands behind a `return`
(`cpu/gate_opt.cc:609`), is never reached and left out.

`FunctionKept` works on networks with feedback: for each value of the inputs, the set of
outputs over all stable states.  This is weaker than sequential equivalence (it does not
relate the state before a call to the state after it), which `RegisterCell` is about.

### Transistors

A wiring is a list of transistor types and a set of connections between numbered nodes, with
the numbering of `NodeId`.  `LowerGates` takes a gate network through `Lower`: `LowerGate`
builds the circuit of one gate, with a placeholder for each gate that has not been lowered,
`Replace` puts the circuit in the placeholder's place.  The code replaces in the order of a
hash map; here every order is possible, and a circuit may lead to placeholders of other gates,
or to its own.
The wiring is then evaluated row by row: `TakeInitial` takes one of the nodes the row starts
from (again out of a hash map: any), `TakeQueued` the next of the queue, `Visit` one of the
pins connected to it.  `CallByHand` and `DropTransistors` evaluate wirings that are not the
result of `Lower`, before and after `RunDte`.

### Evaluation

`GateEval` takes `EvaluateStep` apart into its loop: `NextTerminal` pops the queue,
`VisitUser` evaluates one user, `Return` ends the call.  `state` survives calls, as the
caller's map does.  The code visits users in the order of registration; the passes permute
that order, so the model visits them in any order.  `RegisterCell` builds the register as the template does (gates first made with
`kHighGate`, loops closed by `SetInput`) and calls the evaluator with the inputs
`GateSpec::Verify` tries: everything low first, then at each call other data and address
bits and a change of `clk` or of `reset`, not of both.

### Instruction set and emulator

`Isa` writes the instruction list of `BuildIsa` as fields; `Decode` is the table of the
generated decoder (first match) and `Datapath!Decoder` the one of `Decoder::spec` (last
match).  `Emulator!Op` follows `Emulator::Op`: operands, ALU, banks and spare register,
store, call stack, three adders, register and flag.  `Throw` is the same up to the exception
of the call stack.  `AbstractIsa` knows neither signals nor ALU nor adders: it says per
instruction what becomes of flag, registers, stack and PC.

### Assembler

A token is a record (type, text of an identifier, value of a literal); where characters end a
token is left out.  A step of `Assembler` reads a padding directive, a label, the beginning of
an instruction, or one operand more, in either pass.  The three counters are the code's: `pc`
of `Parse`, `counted` of the callback of the first pass, the length of `emitted` in the second.
`Dispatch` hands operands to the fields of the instruction as the generated
`DispatchInstruction` does: the word is emitted first, and what is missing or left over is
found afterwards.  Assertions of the encoder are the verdict `"aborted"`.  `Printed` writes a
program as tokens, so that the properties can compare what comes out with what went in.

### jank

`JankSyntax` holds the tokens and trees, and, for the properties only, what a program means
(`Meaning`, with each name bound to the declaration that its place sees) and when it has a
mistake (`Defective`).  `JankParser` reads: a step is a top-level declaration or header, a
local declaration, a simple statement, or one of the parts of a compound one, and `stack`
holds the calls of `ParseBlock`, `ParseIf`, `ParseWhile` and `ParseFor` that have not
returned.  An expression is read by mutually recursive operators that follow
`ParseExpression`, and scopes are a sequence with the index of the parent.  Calls are bound by name
only: the code does not look at the number of arguments either.

### Routing on the FPGA

`FpgaRouting` follows `RouteCluster` for one cluster on one grid.  The builder is a record:
`cells` (`terminals_`), `outs`, `free` (`available_`), `holds` (`signals_`), `used`
(`used_lanes_`) and the switches of the chip as `links`, sets of two lanes; `bus_passthrough`
and `hv_links` are told apart by the lanes they join.  A signal and its complement, which the
cell of a gate has at its second output, are two terminals.

`StartSignal` and `Placed` are the loop of `RouteCluster`; `TryCell`, `RouteUse`,
`RouteOutput` and `Attempted` the body of `try_loc`; `BeginRoute`, `Expand`, `NoRoute`,
`Walk` and `Joined` one call of `Route`, a lane a step.  The copy of the builder an attempt
works on is `work`, and `builder` does not change until the best attempt is taken over.  The
code is deterministic, and so is the model, in the order of the cells and lanes too, with one
exception: the users of a signal are routed to in any order, since that order is the one of
`uses_`, which the passes permute.  `FitsChip` is what `ClusterGates` asks its solver for.


## 3. What the runs check

| Run | Instance | States | Shows |
|---|---|---|---|
| `gate_network` | 3 gates, 1 output, no input bits | 744 k | `TypeOK`, `UsesExact`, `NoDeadRead`; `ErasedForGood`: no call gives an erased gate anything again |
| `gate_passes` | eleven front ends, see below | 96 k | `PassesWellFormed`, `FunctionKept`, `Lowered`, `AnalysisSound`, `Terminates` |
| `gate_passes_lower` | a mux whose select is inverted by a gate that others read too | 191 | violation: see section 6 |
| `register_cell` | one bit, one address bit | 94 k | `Settled`, `Determined`, `UpToDate`: no gate that was told a value is out of date after a call, `Converges`, `ImplementsRegister` |
| `gate_eval_constants` | a gate that reads a constant only | 25 | violation: see section 6 |
| `fpga_routing` | 112 clusters of two gates on two inputs, 36 of them with a lookup, a grid of 4 by 2 cells, three lanes a bus | 128 k | `TypeOK`, `LanesExclusive`, `Driven`, `Realised`, `CellsSuffice`, `SearchComplete`, `CostIsLanes`, `Ends` |
| `transistors` | what one or two builder calls make of two inputs, lowered, lookups with tables that are the same when both inputs are inverted; all wirings of two transistors to rails, an input and each other; the gates the tests build by hand | 348 k | `NoPlaceholderLeft`, `GatesAgree`, `VerdictIsRight`, `ShortsAreConflicts`, `Ends` |
| `transistors_lookup` | one lookup, "not(a) or b" | 4 k | violation: see section 6 |
| `emulator` | all 2048 words at addresses 0, 3, 63, 1023, three register files, both flags; and all 14^3 programs of three instructions out of fourteen, with an input that toggles | 170 k | `TypeOK`, `StackHoldsCalls`, `ImplementsIsa`, `ThrowLeavesMachine` |
| `assembler` | programs of up to four labels, paddings and jumps, of up to three instructions of each shape, and of two of both; sequences of up to five tokens that are no program | 193 k | `AssemblesProgram`, `RefusesOnlyDefects`, `PassesAgree`, `NothingDropped`, `Returns` |
| `jank` | functions of up to two statements nested three deep, three top-level items out of eleven, expressions of four operands, and texts that are no program | 156 k | `ParsesAsWritten`, `RefusesOnlyMistakes`, `FollowsPrecedence`, `Returns` |
| `jank_lists` | up to seven tokens of a parameter list | 195 k | violation: see section 6 |

Why the bounds are enough to be of interest:

  * `gate_network`: with three gates there are a gate, its reader and a reader of that, both
    operands of a call equal or not, and a feedback loop through two gates.  No input bits are
    needed: a constant is a terminal without a gate as an input bit is.  The proofs carry the
    same invariants to every size.
  * `gate_passes`: a front end is what it starts from and the calls it may make.  `Small`,
    `Wide`, `Mixed`, `Latch` and `Muxes` make every network of one or two calls (each rule of
    `FoldGates` looks at a gate and at the gates it reads, and two calls make every such pair)
    with gates of no, two, three and five inputs, lookups, buffers, feedback and muxes lowered or not;
    `Forms`, the two `Shared` and `Equal` start from the networks of the tests of `OptimizeNF`,
    `FactorGates` and `MergeGates`, for which that is too small, `Implied` from muxes of
    which `MergeGates` makes a lookup that is neither an exclusive or nor its complement, and `Ring` from
    a ring of a NAND and a NOT, whose gates end and start feedback at once and are in the order
    once or twice, as what reads them differs.  The passes add gates of their
    own, and `MaxGates = 32` leaves them that room.  Outputs are chosen freely among the
    results, so an inner gate may be visible or not.
  * `emulator`: the four addresses are those where the low two bits, the middle four and the
    bank carry; the register files have sums that carry and that do not, operands in both
    orders, and equal ones.  In the short programs three words and a stack of four let calls nest
    beyond the limit and return below it.
  * `register_cell`: bits of a word are independent in `MakeRegister`; another address bit
    only widens `Eq`.  The read ports are tri-state buffers that keep nothing.
  * `transistors`: one call gives each circuit of `transistor_lib` with all operands equal or not,
    constants through the second call; two calls and the latches give a gate that is read
    before it is lowered, and one that reads itself.  Two transistors make every short there is:
    a rail against a rail, an input against a rail, through one channel and through two.
  * `assembler`: `Limit` is 69 instead of 1024, so that a program beyond it is not a thousand
    statements long; it is still above 64, where a label's address does not fit the jump any
    more and is cut.  Four statements put a label before, between and behind what refers to
    it, twice, and nowhere.
  * `jank`: two nested blocks in a function and the three names `a` (the parameter), `x` and
    `y` make each declaration hide, be hidden, follow and miss its use.  Three top-level items
    make a prototype, a definition, a variable of that name, in every order.  Four operands let an
    operator stand between two others of any precedence.  `MaxInt` is 8, so that the digit 9 is
    a literal that does not fit.
  * `fpga_routing`: the grid has one cell of each kind of gate and two outputs, as in the test
    `ReserveLut`, where the lookup table lies nearer to an output than the cell for a NOR does.  The
    clusters have two gates of all kinds, the second of which reads the first, its complement,
    both, or neither, and in one family reads three signals.  A lookup reads two inputs and their complements,
    which are four routes to its cell.  With one lane a bus nothing can be routed, since
    a gate needs three lanes at its cell and finds two; with two, no lookup can; with three, clusters
    with lookups and without are routed, and some of both are not, so both ends are met.
    Where an attempt fails, others follow it on the same builder.

`Lowered` says what `LowerFpgaGates` ends with, a network that none of its three loops would
change again; a NOR of more than two inputs may still read `High`, since `FoldGates` drops the
neutral inputs of such a gate but leaves a deciding one.  `AnalysisSound` is what `MergeGates` relies
on, in terms of paths and not of trees: where `Check` says that a gate post-dominates another, no path from
that to an output leads around it, not through feedback either; and each cut in the plan
determines its gate.  It is stated as long as `MergeGates` has changed nothing: afterwards the
code goes on with an analysis of a network that is no longer there.  That a post-dominated gate may be needed
all the same is shown by the run `gate_passes_lower`.

`CHECK_DEADLOCK FALSE` is given to `gate_network` only: a full network may have no further
call.  The other specifications stutter explicitly in their final states, so that a
`CHECK` that stops the program (no output cell left) shows as a deadlock.

**Fairness.**  The program is sequential, so a function that was entered goes on:
`WF_vars(Evaluate)` in `GateEval`, where `Evaluate` is a step of a call and the call itself
is not fair; in the same way `WF_vars(Step)` in `FpgaRouting` and `Assembler`,
`WF_vars(Work)` in `LowerGates` and `WF_vars(Parses)` in `JankParser`.  `GatePasses!Running` says the
same of the passes without ENABLED: infinitely many steps are taken unless the network is still
being built or the passes have ended.  Nothing is assumed about which of several steps is taken: where
the order comes from a hash map, the calls return in every order.

Abstract specifications: `ImplementsIsa` (`Emulator` => `AbstractIsa`, the code of a word
being its decoding) and `ImplementsRegister` (`RegisterCell` => `ClockedBit`, a step of the
abstract cell being the return of a call; all steps in between stutter).  `AssemblesProgram`,
`ParsesAsWritten`, `GatesAgree` and `ShortsAreConflicts` compare with definitions of a different
shape: addresses without passes, the meaning of a program without scopes' tables, the values of
gates, and the least set of levels that transistors carry.

Each property of a passing run has a mutant in `PROJECT.json`: a changed definition, next to
the original and marked "Faulty" in the modules, under which that run reports the property
violated.


## 4. What is proved

Each theorem holds for every value of the constants that satisfies the assumptions the modules
declare; TLC evaluates these assumptions on each instance.

| Module | Theorem | States |
|---|---|---|
| `GateNetworkProofs` | `Invariant` | `Spec => []IInv`, the network is well formed |
| | `TypeCorrect` | `Spec => []TypeOK` |
| | `UsesStayExact` | `Spec => []UsesExact` |
| | `NothingReadsTheDead` | `Spec => []NoDeadRead` |
| | `ErasureIsFinal` | `Spec => ErasedForGood` |
| `EmulatorProofs` | `TypeCorrect` | `Spec => []TypeOK` |
| | `CallsOnStack` | `Spec => []StackHoldsCalls` |
| | `ThrowsWithoutEffect` | `Spec => ThrowLeavesMachine` |
| | `EmulatorImplementsIsa` | `Spec => ImplementsIsa`, the refinement of `AbstractIsa` |
| `FpgaRoutingProofs` | `TypeCorrect` | `Spec => []TypeOK` |
| | `NoTwoSignals` | `Spec => []LanesExclusive` |
| | `CostCountsLanes` | `Spec => []CostIsLanes` |
| | `SearchesWhole` | `Spec => []SearchComplete` |
| | `SignalsConnected` | `Spec => []Driven` |
| | `RoutedIsRealised` | `Spec => []Realised` |
| | `CellsLast` | `Spec => []CellsSuffice` |
| `GateEvalProofs` | `NoChangeIsLost` | `Spec => []UpToDate` |
| | `SettledWhenDetermined` | `Spec => [](Determined => Settled)`, written with the invariant |
| `LowerGatesProofs` | `PlaceholdersReplaced` | `Spec => []NoPlaceholderLeft` |
| | `RowsAreRight` | `Spec => []ShortsAreConflicts` |
| | `TransistorsAgree` | `Spec => [](Lowerable(gates) => GatesAgree)` |
| | `VerdictsAreRight` | `Spec => [](gates # None /\ Lowerable(gates) => VerdictIsRight)` |
| `AssemblerProofs` | `AddressesAreRight` | `Spec => []PassesAgree` |
| | `DecodeUndoesEncode` | decoding an encoded instruction gives its name and its operands, for all that fit |
| | `NoRegisterIsLost` | `Spec => []NothingDropped` |
| `GateFoldsProofs` | `CanonicalizeKeepsBehaviour` | a visit of the canonicalizer keeps `Foldable` and what the network does |
| | `FoldKeepsBehaviour` | so does a visit of `FoldGates` |
| | `CseKeepsBehaviour` | so does a visit of `CseGates`, and its list stays `Current` |
| `GatePassesProofs` | `WidenKeepsBehaviour`, `SplitKeepsBehaviour` | so do the visits of `LowerFpgaGates` |
| | `FactorKeepsBehaviour` | so does each group that `FactorGates` factors |
| | `FunctionOfBehaviour` | `Function`, the evaluator's search, finds what the behaviours show, no more and no less |
| | `PassesKeepTheFunction` | `Spec /\ [](net.size <= MaxGates) /\ [][ListsKeep]_vars => [](PassesWellFormed /\ FunctionKept)` |
| | `EndsLowered` | `Spec /\ []PassesWellFormed => []Lowered` |
| | `AnalysesAreSound` | `Spec /\ []PassesWellFormed => []AnalysisSound` |

The three of `GateFoldsProofs` and the first four of `GatePassesProofs` are about one step on any
network, with their hypotheses in the theorem; the others are about every behaviour of a
specification.

### Networks

Assumptions: the ones `GateNet` declares on its constants (the terminals are distinct, the
bounds are natural numbers, `Null` is none of the terminals).

None of the three invariants is inductive alone.  `UsesExact` tells `Erase` and
`ReplaceAllUsesWith` which slots to change, so exactness after a call needs the types of the
slots before; that nobody reads a dead gate follows from `HasNoUse` *because* the lists are
exact; and exactness is kept by a call only if no dead gate is among its operands.
`IInv == WellFormed(net)` is their conjunction, with one addition, that a dead gate is bare
(no inputs, no users), which makes erasing final.

The argument goes in three layers.  Below: what each primitive (`Redirect`, `SetInput`,
`EraseInputs`, `Erase`, `ReplaceUsesExcept`, `DeclareOutput`, `AddLookup`) does to a
well-formed network, one lemma each (`...Sound`).  `EraseInputs` and `Reregister` move the
inputs that stay to lower positions: `Compact` is proved to keep none but the entries kept
(`CompactEntries`, from `NthOfMember` about ranks in a finite set).  This layer is in
`GateFoldsProofs`, since the passes need it too.  Middle: a relation
`Step(n, m)` between networks that is reflexive and transitive and says that the second is
well formed and that no dead gate was revived, so that compound calls (`Xor`, `Mux`,
latches) compose.  Above: `NextStep`, with one case per action, and the temporal theorems.

### Emulator

Assumptions: `EmulatorAssumption` says that a program's words fit its ROM and the registers
their widths; `IsaAssumption` that each of the 2048 words has exactly one instruction, that
the fields of an instruction do not overlap, and that fields with the same meaning have the
same bits (but for the operands of the ALU, which change sides).  The second has no parameter
of the instance: TLC evaluates it once for the instruction set that there is.

The instruction list and the tables of the decoder are data.  A first group of lemmas turns them
round: for each mnemonic, which signals `Decoder::spec` raises, from which bits it takes its operands, and
what the ALU computes under these signals.  The second goes on from there by what an
instruction does: what the right operand is and where it comes from (`RightIsSource`), the
result (`ResultMatches`), the outcome of a test (`TestMatches`), the three adders that
make the PC, each with the carry of the one below, the stack, the banks.  These meet in
`EmulatorImplementsIsa`, with a case for a predicate that does not hold.  The invariant
is `TypeOK` alone: the refinement, `ThrowLeavesMachine` and `StackHoldsCalls` follow from it
step by step.

### Routing

Assumption: `RoutingAssumption`, for every grid and every cluster that `IsCluster` takes.
It asks for what `ClusterGates` has in its `CHECK`s, NANDs of two inputs, NORs of two to four and
lookups, which read one or two signals and the complement of each, and for an order in which gates
come before what they use.

The invariant is built in layers, each proved with the help of those below.

 1. `TypeInv`: a lane that is seen lies on the grid, `pred` leads back to a start, the signals
    that have cells have cells of the grid.
 2. `ExclusiveInv` (for `LanesExclusive`): a lane that the search has seen is free or the
    signal's own, and stays so until it is walked; the switches join lanes of one signal, but
    for the one set before its second lane is taken.
 3. `CostInv`: the cost is the lanes used in `work` less those in `builder`.
 4. `SearchInv` (for `SearchComplete`): a neighbour of a lane that is seen is seen or
    its lane is in the queue.
 5. `WiredInv` (for `Driven`): the switches lead from a cell's pin to each lane held.  During
    the way back this is true of the lanes that were held before the search, and of the new
    ones only as far as each has a switch to its predecessor, or to the lane taken next
    (`Threaded`); that they end at the old lanes needs that the predecessors go round in no
    circle (`Ranks`).
 6. `ServedInv` (for `Realised`): which uses have been routed, together with those `left`.
 7. `RoomInv` (for `CellsSuffice`): the cells left are enough for the signals left, in numbers,
    as `CheckCapacity` counts them, and the input and output cells likewise.  The greedy choice of a
    cell keeps this because a choice that breaks it is refused by `CheckCapacity`, and because,
    when the numbers fit, each signal left has a kind of cell that may be given away.  Here the
    arities of the gates matter: a NOR of three inputs fits on fewer kinds of cells than one
    of two.

### Evaluation

Assumption: the networks are well formed, and a gate has the inputs that `compute_value` reads
by number (`WellShaped`); the order of the inputs names each of them.

`UpToDate` speaks of the moment when a call returns.  The invariant says where a change is
noted until then: a gate either accords with its inputs, or a terminal it reads is in the queue,
or it is among the users still to be visited (`Tracked`).  It is inductive together with
`Grounded`, that constants and inputs have their values once a call has begun, and `Idle`.
The exception in `Accords`, a gate that was never told of any value, is the disagreement of
section 6: constants are not enqueued.  `SettledWhenDetermined` has the hypothesis
that every gate has a value for this reason; the hypothesis is the property `Determined`, which the
run of `RegisterCell` checks.

### Lowering

Assumptions: the gate networks are well formed and well shaped; placeholders are numbered below
inputs, as `NodeId`s are; and a wiring built by hand is one that `RunDte` does not break
(`DropsUnconnected`: a transistor whose gate pin nothing is connected to is connected nowhere;
`RunDte` looks at the gate pin alone and removes the whole transistor).

`ShortsAreConflicts` compares a row with the least set of levels that is closed under wires and
open transistors.  First, that the set computed by `Carried`, which adds until nothing is new, is
closed and contained in every closed set.  Then `RowInv`: no node has a level that it does not
carry (`OnlyCarried`); a level that has not passed a wire waits at an end of it (`Spread`); an open
transistor has driven its drain (`Driven`).  `Spread` and `Driven` hold only as long as there is
no short, and that is enough: a short itself shows a conflict.  When nothing waits, the levels of a
row without a short are closed, so they are all that is carried.

`PlaceholdersReplaced` has an invariant of its own, `LowerInv`: every connection has a pin at
one end, and at the other a pin, a rail, an input or a placeholder that is still pending; and
what a placeholder is replaced with is none, whichever gates read themselves or each other.  So
no replacement brings a replaced one back, and none is left when nothing is pending.

`TransistorsAgree` and `VerdictsAreRight` are about the networks that transistors can stand for
(`Lowerable`).  In each row, and with the values that the evaluator gives, a gate is `Realised`: it reads
no high impedance; the selects of a mux or a tri-state buffer are complements, and so are the
inputs of a lookup; a lookup's table stays the same when both inputs are inverted (section 6 has what happens to
others); and a mux whose select has no value has none either.  And the values are
`Founded`: each comes of others, and in the end of the inputs, by steps that a circuit makes.  That is
more than it seems to be, for a mux with the same data twice whose select hangs on its own output
has a value for `ComputeValue`, and its transistors never conduct.  The hypothesis speaks
of gates and their values and of no transistor.  It is not checked by the code; TLC evaluates it on
every network of the runs: `Lowerable` holds of each one in `transistors`, and not of the one in
`transistors_lookup`, where `GatesAgree` is violated (`LoweredAssumption`, `ImpliedAssumption` of
`MCLowerGates`).  Networks with feedback are among them.

What `Carried` computes is the least closed set, so it is caught between two bounds.  From above,
`Stands`: some labelling of the nodes, with the values of the gates, is closed under wires and open
transistors and has what the row starts with; a labelling has one level for each node, so nothing is carried twice and
nothing else is.  From below, `Forces`: in every closed set whose rails have their levels the node of a
gate has the value that the gate's circuit computes of the levels of what it reads.  Each builder of
`transistor_lib.cc` has two lemmas, one for each bound: `ComplementaryForced` and `ComplementaryLabelled` (NOT,
NAND and NOR of any number of inputs), and the same for tri-state buffers, muxes and lookups.
Both bounds are invariants of `Lower`: a gate adds transistors of its own
(`StandsMore`, `ForcesMore`), and to replace a placeholder, which has the value of its gate, changes neither
(`StandsReplaced`, `ForcesReplaced`).  In the end `Forces` and `Founded` together say that each value is
carried: the gates whose value is carried are a set as `Founded` speaks of, so all are in it (`CarriedRight`).
With `RowInv` the states of the pins are what is carried (`RowAgrees`).

`VerdictInv` then follows the rows: those before this one are in the table as the gates have them, and
decided.  A row is accepted exactly if the inputs decide all outputs, be it
by `EvaluateAll` or against the gates as specification (`OutputsAgree`), so the call ends with `ok` exactly
if that is so in every row.

### Assembler

Assumptions: programs and texts are sequences of tokens, the limit is a positive number.

The two passes are runs of the same actions with different addresses.  A *place* is the next
token, the instruction that is being read without the address of its jump, and the count; `After` gives
the place that follows, the same in both passes, since how the reading goes on depends on whether there
is an address and never on which.  The first pass leaves a set of places that holds the start and
each successor, with the counts that the labels were given; the second pass is always in that
set.  So it meets a label with the count the label's address says.

`DecodeUndoesEncode` goes through the fields of an instruction, one operand after the other
(`OperandAdded`).  A word is the sum of its eleven bits, so a number that is added above its field's
lowest bit fills just this field, if it fits and the bits were zero (`FieldAdded`, for each of the
seven places there are).  They were: no two fields of an instruction have a bit in common, and its
opcode has none where a field is, which is what `DefineInstruction` checks and `IsaAssumption` states.  In the end
the word agrees with the instruction's encoding, and by the same assumption with no other.

`NoRegisterIsLost` counts: in the second pass the registers among the tokens that have been read
are those of the words emitted and of the instruction being read (`HeldInv`), but for a register
with ":" behind it that is taken for an operand, where the pass ends with an error.  A word
counts for the instruction it is decoded to, so that the step of `DispatchInstruction` rests on
`DecodeUndoesEncode`: it has as many registers as its mnemonic calls for, and that is how many have been
read when nothing is missing and nothing left.  An instruction that is not complete is emitted all the same, and
the count is then wrong; `Parse` returns false.

### Passes

What a network does is its `Behaviour`: what inputs and outputs show in the *consistent* states,
those in which each live gate has the value that `ComputeValue` gives it.  A network with feedback
has several such states for the same inputs, or none, and a rewrite may add none and lose none.
The relation `Keeps(n, m)` says that `m` is `Foldable`, reads no input that `n` does not, has the
outputs of `n` and the same behaviour; it is reflexive and transitive.

The hypotheses are the parts of `PassesWellFormed`: `Foldable(n)`, and for `CseGates` that
its list is `Current` and does not hold the gate that is visited.  The run `gate_passes` checks them in every state,
so they are met, and the theorems show that the three visits keep them.  `FoldGates` has two more: the visit
does not end in its assertion (`FoldRefuses`), and there is room for the gates it makes.

Nearly every rewrite replaces the uses of a gate `g` by a terminal `r`.  The lemma
`RewriteKeeps` asks that in each state in which all gates *but `g`* are consistent (`ConsistentBut`)
the inputs of `g` decide the value that `r` has.  That all others are is enough to find in each consistent state
of the old network one of the new; that `g` itself is not assumed to be is what it
takes for the other direction: with `g` in a loop through `r`, what is true in the old network's consistent
states would not do.  So NOT(NOT(x)), switches with a constant select, neutral inputs, De Morgan's rule
and the tables each come down to a computation with levels.  A rewrite that adds gates is
first a network with one more gate that nobody reads (`NewGateKeeps`), and one that changes the
inputs of `g` itself leaves a gate of the same value (`LocalKeeps`).

For `CseGates` equal keys mean equal values (`EqualKeys`), provided that the keys are those of now:
replacing the uses of one gate changes the keys of the gates that read it, some of them in the list.
Such a key mentions the gate that is erased in the same visit, and so no gate after it has that
key (`TwinIsEqual`).

A gate of `LowerFpgaGates` is built next to the gate it replaces.  `AddAll` makes gates in a row, and
its lemma says that each has the value of its own list of inputs and that the old gates keep
theirs; `Chunks` covers each input once, the last group shorter or not.  `FactorGates`
draws out the inputs that several gates have in common: the new gate and its NOT are added
first, then the gates of the group change one after the other, and the invariant of that loop is that the
gates done read the NOT in place of the inputs factored, and the others what they read before.  The gates of
a group may read each other, so a step back to the old network needs the value of the NOT and of no
other gate of the group.

`FunctionKept`, which the runs check, is not about behaviours but about what `GateValues` finds
with the evaluator's algorithm: `Settle` gives values to the gates that the inputs decide, a gate that is
left without one is given each of its values in turn, and states that contradict themselves are
dropped in the end.  `FunctionOfBehaviour` says that this search finds the consistent states and no other.
A value that is computed before all inputs have theirs stays when they do (`PartValue`), so
settling a state that a consistent state completes gives one that it still completes
(`DecidedFills`); each guess leaves fewer gates without a value, so there are enough rounds for all
of them; and the last line of `Stable` is consistency.

`PassesKeepTheFunction` puts these together.  `PassInv` is the conjunction of the two properties
with the types of what a front end has in its hands.  Each call of a front end leaves a `Foldable` network (the
builders of latches and muxes too, which close loops and make select and complement), so
the invariant holds at `Finish`; each visit keeps it by its theorem; the steps between walks change
nothing but flags.  It has three hypotheses: that the network has room (the code has no
bound), and `ListsKeep`, that steps of `OptimizeNF` and `MergeGates` keep both properties.  The
last is a hypothesis because it is not true of every network: section 6 has the two networks
where these passes break what they were given, and their rewrites are right only as far as the
list that was drawn up before is.  The run `gate_passes` checks `ListsKeep` on its instances,
as it checks both properties after every step.

For `EndsLowered`, `RoundInv` follows the flags: as long as a walk of the third loop
(`fold`, `split`, `cse`) has changed nothing, what it has passed is in the form the walk leaves; when all
three have changed nothing in a row, each gate is in the form of all three.  A flag that is not set where it
should be, or reset too early, would end the loop with a gate unlowered.  The lemmas below it
say what a visit without a change says of its gate: one that `FoldGate` leaves as it is
(`Fixed`) reads no neutral constant, no NOT of a NOT and is used, one that `SplitGate` leaves (`Fits`)
is of the target's sizes, and `CseGate` leaves a gate only when no gate before it has its key.

`AnalysesAreSound` is about the three things that `MergeGates` computes before its first rewrite,
on a network with any feedback: a gate may be in the order twice or before a gate it reads, and
its entry in the tree may be written anew, without what hung below it.  `Leads(n, a, p)` says that
all ways of the signal from `a` to the outputs lead through `p`; it is a preorder, and holds for a
terminal when it holds for all its users.  Of the order the proof needs only that it begins
with the sources, that the rest are gates with inputs (`Ordered`) and that all of it has users.
While the tree grows (`Growing`) each entry's `up` is on the way from it or the default terminal;
so are the ends of the climb from two users (`LowestAbove`), and the place found for a terminal is on its way
(`GraftedRight`).  What hangs below a terminal other than the default thus leads through it.  The
default terminal itself hangs nowhere until it is grafted, which is last of all: it is the first source,
the order is processed backwards, and a source that comes again is a gate, not an input
(`TreeComplete`).  So the paths of the walk lead through their ends (`WalkRight`), and `Check` speaks of
those.  It is here that `MergeRefuses` is needed: an input that nothing reads would have no place in the tree.

A cut *determines* a terminal (`Fixes`) when the terminal is in every set that holds the cut and is closed under
the gates.  `Joined` has what both cuts have, and `CutCandidates` visits its gates with cuts that determine
their inputs, or with none (`WithCutsRight`), in whatever order and how often.  `AnalysisSound` says the
same by rounds that add what is determined (`Determined`); they come to an end, as each but the last
adds a gate (`DeterminedRight`).  The inductive invariant `AnalysisHolds` says both of the network as it is, as long
as `MergeGates` has changed nothing.

### What is not proved

  * Liveness (`Terminates`, `Converges`, `Ends`, `Returns`), which needs fairness and ENABLED.
  * `ListsKeep`: that a step of `OptimizeNF` or `MergeGates` keeps the network's function.  It is
    false in general (section 6), and the networks of the front ends on which it holds are told
    apart only by checking them.
  * What a recursive function computes in the end: `AssemblesProgram` and `RefusesOnlyDefects` (a
    program's text is made from its statements by `FlattenSeq`, and their addresses by a recursive
    function).
  * `VerdictIsRight` for wirings built by hand: whether a specification fits a wiring is a matter of
    the wiring.
  * `Determined`: that a gate gets a value at all is a matter of which inputs decide which gates,
    in an order that has to be found by induction over the network; and it is true of the registers
    checked, not of every network.
  * All of jank: its grammar is recursive.
  * `ImplementsRegister`, which is about one network of a certain shape.


## 5. Limits of the model

  * Networks grow up to `MaxGates`; the code has no bound.  `DeclareOutput` has one
    (`kMaxOutputs`, an assertion): the model has its guard.
  * `GatePasses` keeps tri-state buffers off the inputs of gates, as `eval.cc` asks.  Latches
    whose set, reset or data are constants are outside the instances checked: `FoldGates` makes
    rings of NOTs out of them, on which it never ends or which it makes larger without end.
  * `GateRewrites` has the users of a terminal in the order of the gates.  That is the order of
    `linked_hash_set` until an input is redirected, which moves a reader to the end of another list.
    The gates where feedback starts and ends are in the order of the gates too; in
    the code it is the one of a hash set.
  * `RegisterCell` declares `clk` before the data, as the tests do.  With the data declared
    first a flip-flop whose data changes in the same call as the clock stores the new value,
    since inputs are propagated one after the other in the order of their declaration.
    `ImplementsRegister` is violated in that order.
  * `Emulator` stops (`Undefined`) at a load or store in a RAM bank that does not exist; a
    predicated load reaches it even when its predicate does not hold.
  * `FpgaRouting` takes a cluster as `ClusterGates` makes it: no tri-state buffers (it ends the
    program when it meets one; `Build` would take a buffer placed on an output cell for an
    output), NANDs of two inputs and lookups of at most two inputs with their complements (one, when both inputs are
    the same signal, as in `Xor(a, a)`), no feedback inside a cluster (`TopoSort` is to give an order), one
    complement for a signal.
  * `LowerGates` is checked in `transistors` with the lookups whose tables stay the same when both
    inputs are inverted, those of `Xor` and `Eq` among them; with another one `GatesAgree` is
    violated (`transistors_lookup`).  The theorems about it have the same restriction (`Lowerable`).
  * `Assembler` and `JankParser` begin with tokens: numbers and names are given, and the
    position in a message is left out.
  * In the jank trees, notes and source positions are left out.

Not modelled:

  * Z3's clustering in `ClusterGates`: the solver chooses, the model has what the code asks of it
    (`FitsChip`) and every cluster that satisfies it.
  * Drawing the chip, `export.cc`, `export/*.py`, `dump` functions and the text of the generated
    C++: formatting.
  * `main.cc`, `flags.cc`: command lines.
  * The gate text format: a parser that makes builder calls, each of which `GateNetwork` has.
  * The lexers' characters and comments, and jank's printer, which puts out trees for a reader:
    its text is not always one that the parser takes (a prototype has no parameter names, a `for`
    gains a block each time).
  * Multi-bit templates (`MakeAdder`, `MakeRegisterFile`, `decoder.h`'s gates): the emulator's
    datapath has what they compute, `RegisterCell` one bit of a register.
  * Tags, scopes and labels of networks.


## 6. Where code and text disagree

  * `gate_passes_lower`: `MergeGates` replaces a gate and erases every gate of the cut that this
    gate post-dominates (`cpu/gate_opt.cc:444`, `cpu/gate_opt.cc:314`), though one of them
    may have a user outside: its way to the outputs goes through a terminal of the cut, which the lookup
    reads, so that it is post-dominated and needed all the same.  The erased gate is still read at the end of the
    passes, and `Lower` asserts that this does not happen (`cpu/lower_gates.cc:45`).  With `NandXor`
    in place of `Bypassed` in its cfg the erased gate is a terminal of the cut: of the cut of `Xor(Nand(a, a), a)`, the
    NAND and `a`, the one determines the other, so the walk meets the NAND and removes it, and the new
    lookup itself reads it.  With `OneXor`
    in place of `Bypassed` in its cfg the run shows another network that `Lower` refuses:
    `Xor(kHighGate, kHighGate)` makes a lookup all of whose inputs `Canonicalize` drops at once;
    `FoldGates` folds lookups with exactly two inputs left (`cpu/gate_opt.cc:130`), so it stays, and
    `Lower` asserts four inputs (`cpu/lower_gates.cc:68`).
  * `gate_eval_constants`: `EvaluateStep` gives the constants their values but does not put
    them into its queue (`cpu/eval.cc:534`), so a gate that reads constants only is never
    evaluated.  Its reader may keep a value of an earlier call: the assertion under
    `DEBUG_EVAL` (`cpu/eval.cc:549`) fails.
  * `transistors_lookup`: `make_lookup` connects the gates of a row's two transistors to the same
    signals whatever the row holds (`cpu/transistor_lib.cc:121`).  The N-channel transistors of a row
    that holds a zero conduct in that row; the P-channel ones of a row that holds a one conduct where
    both inputs are inverted.  That is right for `Xor` and `Eq`, whose tables stay the same
    when both inputs are inverted, but `MergeGates` makes every table of two variables that it finds (`Implied` in `MCGatePasses`
    becomes "not(a) or b", `cpu/gate_lib.cc:60`, and still computes its function), and `Compile`
    hands it to `make_lookup`.  With a high and b low both rails reach the output.
  * `jank_lists`: `Get(type, out)` returns false without an error when a parameter has no name
    (`jank/parser.cc:102`); the declaration is given up and the next token begins another one.
    `int f(int` is accepted as an empty module.  The tests expect an error for a list that is
    not closed (`jank/parser_test.cc:88`).

Also met, and not shown by a run:

  * `OptimizeNF` (`cpu/gate_opt.cc:685`) draws up the clauses of all normal forms before it
    rewrites any.  Two gates that are clauses of each other, as the two halves of `MakeSrLatch`
    (`cpu/gate_lib.h:429`) are when its set and reset are NANDs that nothing else reads, are
    rewritten one after the other into two latches that no longer depend on each other; `q` and
    `~q` may then both be high.  With the network `NandLatch` of `MCGatePasses` as the front end,
    `FunctionKept` is violated.
  * `ScoreCut` counts how many inputs of a gate it has come by, and by a terminal of the cut that the others
    determine it comes twice.  For `Mux(s, Not(s), x)`, lowered, a gate is met before all its inputs have a table,
    and `funs.at` ends the pass by an exception (`cpu/gate_opt.cc:311`).
  * `Mux<bw>` of `cpu/gate_lib.h` passes the input it calls `low` where the scalar `Mux` expects
    `high`.
  * A mux whose select is undecided and whose other inputs have the same value has that value for
    `ComputeValue` (`cpu/eval.cc:470`); neither of its transmission gates conducts, and its circuit has
    none.
  * The loop of the assembler's padding directive ignores what the callback returns
    (`isa/assembler.cc:68`), so a program padded past the limit has the error "Too many
    instructions." in its context and is accepted; without padding it is refused.
  * The assembler's first pass refuses the 1024th instruction although the ROM has 1024 places
    (`isa/assembler.cc:218`).  A literal of 16 to 255 passes the parser and fails an assertion of
    the encoder.  `testi 3 < r1` is assembled as `r1 < 3`.  A label named as a register can be
    declared and not be jumped to, and "+" before a label is accepted.
  * jank: the subscript has precedence 0, so that `1 + a[2]` is `(1 + a)[2]`, and `a[b[0]]` and
    `c ? b[0] : d` are refused.  Parameters of type `void` and calls with any number of arguments are
    accepted.  A literal that is no int ends the program.
  * Transistors: `EvaluateAll` throws where `cpu/eval.h:37` describes a table, and an evaluation
    that has found a short goes on (`cpu/eval.h:33` says it stops).


## 7. What could follow

Everything that was planned is modelled: networks, values, graph algorithms and all passes;
evaluation and the register; transistors; routing; instruction set, emulator and assembler; jank's
parser.  Section 4 lists what is proved.  Left to do, in the order of what it would say:

 1. A condition on networks under which `OptimizeNF` and `MergeGates` keep the function (no gate a clause
    of one of its own clauses; every gate erased is read inside the cut only), proved in place of
    `ListsKeep`.  The code would have to check it, too.
 2. `Lowerable` from what the builders and passes promise: complements where the builders make
    them, and which of a network's gates have values that are founded.
 3. In the model: the order of the data and `clk` in `RegisterCell` as a run of its own, the
    read ports, and jank's printer against its parser.
