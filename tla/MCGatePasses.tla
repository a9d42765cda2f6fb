----------------------------- MODULE MCGatePasses -----------------------------
(* Small instances of GatePasses.                                           *)
EXTENDS GatePasses

CONSTANTS in0, in1, in2, in3, in4, in5

FrontEnd(builders, operands, calls) ==
  [ net |-> EmptyNet, results |-> << >>, builders |-> builders, operands |-> operands,
    calls |-> calls, arities |-> {2}, lowerMuxes |-> {FALSE}, norArity |-> 2 ]

\* NANDs and NORs of no inputs, which are constants, and of two, and NOTs.
Small == [FrontEnd({"nand", "nor", "not"}, {in0, in1}, 2) EXCEPT !.arities = {0, 2}]

\* Gates wider than the FPGA has.
Wide == [FrontEnd({"nand", "nor"}, {in0, in1}, 1) EXCEPT !.arities = {3, 5}]

\* Tri-state buffers and lookups.
Mixed == FrontEnd({"tri", "xor"}, {in0, High}, 2)

\* An SR latch and a gate around it, a target with NORs of three inputs.
Latch == [FrontEnd({"nand", "latch"}, {in0, in1}, 2) EXCEPT !.norArity = 3]

\* A front end that starts from the gates of `kinds`, each with inputs that are
\* inputs of the network or places of earlier gates in the list.
Built(gates) ==
  FoldLeft(LAMBDA n, g : AddGate(n, g[1], g[2]), EmptyNet, gates)
From(gates, builders, operands, calls) ==
  [FrontEnd(builders, operands, calls) EXCEPT
     !.net = Built(gates), !.results = [g \in DOMAIN gates |-> g]]

\* A ring of two gates, closed by a NAND, and gates that read both, one of them or none:
\* feedback that TopoSort visits once or twice, and gates that end and start it at once.
Ring == From(<< <<"nand", <<2, in0>>>>, <<"not", <<1>>>> >>, {"nor"}, {in1}, 2)

\* A gate over clauses that share literals: OptimizeNF absorbs, combines and
\* flattens them (gate_opt_test.cc).
Forms ==
  [From(<< <<"not", <<in0>>>>, <<"not", <<in1>>>>, <<"nand", <<in0, 2>>>>,
           <<"nand", <<in0, in1, in2>>>>, <<"nor", <<1, in2>>>> >>,
        {"nand", "nor"}, {}, 1) EXCEPT !.arities = {3}]

\* Gates with five inputs in common, for FactorGates (OptimizeNfVsFactoring), and
\* a target with NORs of five inputs.
Shared(kind, dual) ==
  LET five == <<in0, in1, in2, in3, in4>>
  IN  [From(<< <<dual, <<in0, in5>>>>, <<kind, Append(five, in5)>>,
               <<kind, Append(five, 1)>>, <<kind, Append(five, 1)>> >>, {}, {}, 0) EXCEPT
         !.norArity = 5]

\* Muxes of inputs, their complements and a constant, lowered and not: some are an
\* exclusive or, which MergeGates finds in the lowered ones.
Muxes ==
  [From(<< <<"not", <<in0>>>>, <<"not", <<in1>>>> >>, {"mux"}, {in0, in1, High}, 1) EXCEPT
     !.lowerMuxes = BOOLEAN]

\* The same of a gate, whose complement MergeGates adds (RegressionTestNoExistingNot).
Equal == From(<< <<"nand", <<in0, in1>>>>, <<"nand", <<in2, 1>>>>, <<"nor", <<in2, 1>>>>,
                 <<"not", <<3>>>>, <<"nand", <<2, 4>>>> >>, {}, {}, 0)

\* Muxes of muxes, which MergeGates makes one lookup of, "not(a) or b" (gate_lib.cc:60):
\* its table is another one when both its inputs are inverted.
Implied ==
  [From(<< <<"not", <<in0>>>>, <<"not", <<in1>>>>, <<"mux", <<in1, 2, in0, 1>>>>,
           <<"mux", <<in0, 1, 3, in1>>>>, <<"mux", <<in1, 2, 4, 1>>>> >>, {}, {}, 0) EXCEPT
     !.results = <<5>>]

All ==
  {Small, Wide, Mixed, Latch, Ring, Forms, Shared("nor", "nand"), Shared("nand", "nor"), Muxes,
   Equal, Implied}

\* nand(in0, in0), a complement that FindNot does not know, with a user outside the
\* cut of in0 and gate 3 for the mux: all its paths to the output lead through the mux,
\* but the one through gates 2 and 3 reads it before the cut.
Bypassed ==
  {[From(<< <<"nand", <<in0, in0>>>>, <<"nand", <<1, in1, in2>>>>, <<"not", <<2>>>>,
            <<"nor", <<1, 3>>>>, <<"not", <<in0>>>>, <<"mux", <<in0, 5, 3, 4>>>> >>,
         {}, {}, 0) EXCEPT !.results = <<6>>]}

\* MakeSrLatch(net, Nand(in2, in3), Nand(in0, in1), in4): each gate of the latch reads the
\* other and a NAND that nothing else reads, and OptimizeNF makes two latches of it, one for
\* each output, which need not agree (in the place of All: FunctionKept is violated).
NandLatch ==
  {[From(<< <<"nand", <<in0, in1>>>>, <<"nand", <<in2, in3>>>>,
            <<"nor", <<1, 4, in4>>>>, <<"nor", <<2, 3>>>> >>, {}, {}, 0) EXCEPT
      !.results = <<3, 4>>]}

\* Xor(Nand(in0, in0), in0): of its cut, the NAND and in0, the one determines the other, so
\* MergeGates erases the NAND, which the new lookup reads (in the place of All:
\* PassesWellFormed is violated; in that of Bypassed: LowerAccepts).
NandXor == {[From(<< <<"nand", <<in0, in0>>>> >>, {"xor"}, {in0}, 1) EXCEPT !.results = <<1>>]}

\* One Xor of constants, whose lookup keeps no input: the other way to what Lower does not
\* accept (in the place of Bypassed).
OneXor == {FrontEnd({"xor"}, {in0, Low, High}, 1)}

=============================================================================
