----------------------------- MODULE MCLowerGates -----------------------------
(* Small gate networks that are lowered, and transistor networks built by    *)
(* hand, some of them with shorts.                                           *)
EXTENDS LowerGates

CONSTANTS in0, in1

Declared == <<in0, in1>>

----------------------------------------------------------------------------
\* What one call of a builder returns, and of two, the second on what the first
\* returned.
Built1(n, ts) ==
  {NotOf(n, a) : a \in ts}
  \cup UNION {{NandOf(n, <<a, b>>), NorOf(n, <<a, b, in0>>), XorOf(n, a, b),
               TriStateOf(n, a, b)} : <<a, b>> \in ts \X ts}
  \cup {MuxOf(n, a[1], a[2], a[3]) : a \in ts \X ts \X ts}
  \cup {SrLatch(n, a[1], a[2], Low) : a \in ts \X ts}

Built2 ==
  UNION {{MuxOf(m.net, m.out, in1, High), XorOf(m.net, in0, m.out),
          NandOf(m.net, <<m.out, in0>>), TriStateOf(m.net, in1, m.out)} :
            m \in {NotOf(EmptyNet, in0), NandOf(EmptyNet, <<in0, in1>>),
                   XorOf(EmptyNet, in0, in1), MuxOf(EmptyNet, in0, in1, Low),
                   SrLatch(EmptyNet, in0, in1, Low)}}

\* A lookup with the given table.
LookupOf(lut) ==
  LET na == NotOf(EmptyNet, in0)
      nb == NotOf(na.net, in1)
  IN  [net |-> AddLookup(nb.net, "lookup", <<in0, in1, na.out, nb.out>>, lut),
       out |-> NextGate(nb.net)]

\* The tables that stay the same when both inputs are inverted.
Symmetric == {lut \in [1 .. 4 -> BOOLEAN] : lut[1] = lut[4] /\ lut[2] = lut[3]}

LoweredNetworks ==
  {DeclareOutput(m.net, m.out) :
     m \in Built1(EmptyNet, {in0, in1}) \cup Built2 \cup {LookupOf(lut) : lut \in Symmetric}}

\* "not(a) or b" (gate_lib.cc:60), which MergeGates makes of Implied in MCGatePasses.
ImpliedNetworks ==
  {DeclareOutput(m.net, m.out) : m \in {LookupOf(<<TRUE, FALSE, TRUE, TRUE>>)}}

\* What the theorems ask of a network to be lowered holds of all that is checked, and
\* not of that one.
ASSUME LoweredAssumption == \A n \in LoweredNetworks : Lowerable(n)
ASSUME ImpliedAssumption == \A n \in ImpliedNetworks : ~ Lowerable(n)

----------------------------------------------------------------------------
\* Two transistors, each wired to the rails, to an input and to each other.
Free(types, g, s, joined) ==
  [net |-> Connect([EmptyWiring EXCEPT !.types = types],
             UNION {{<<Gate(t), g[t]>>, <<Source(t), s[t]>>} : t \in {0, 1}}
               \cup IF joined THEN {<<Drain(0), Drain(1)>>} ELSE {}),
   inputs |-> 1, outputs |-> <<Drain(0)>>, spec |-> None]

FreeWirings ==
  {Free(w[1], w[2], w[3], w[4]) :
     w \in [{1, 2} -> {"n", "p"}]
             \X [{0, 1} -> {InputBit(0), Vdd, Drain(0), Drain(1)}]
             \X [{0, 1} -> {InputBit(0), Vdd, Vss, Drain(1)}]
             \X BOOLEAN}

Rows(f(_, _)) ==
  [r \in 0 .. 3 |-> <<IF f(r % 2 = 1, r \div 2 = 1) THEN "high" ELSE "low">>]

\* As the tests build them, the first transistor left unconnected.
Unconnected == [EmptyWiring EXCEPT !.types = <<"n">>]
a == InputBit(0)
b == InputBit(1)

TestWirings ==
  {[net |-> m[1].net, inputs |-> 2, outputs |-> <<m[1].out>>, spec |-> m[2]] :
     m \in {<<MakeXor(Unconnected, a, b), Rows(LAMBDA x, y : x # y)>>,
            <<MakeAnd(Unconnected, <<a, b>>), Rows(LAMBDA x, y : x /\ y)>>,
            <<MakeOr(Unconnected, <<a, b>>), Rows(LAMBDA x, y : x \/ y)>>}}

HandWirings == FreeWirings \cup TestWirings
NoWirings == {}

=============================================================================
