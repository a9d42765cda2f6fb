---------------------------- MODULE TransistorNet ----------------------------
(****************************************************************************)
(* The transistor network of cpu/transistor_lib.{h,cc} as a value, the       *)
(* builders that add the transistors of one gate to it, and RunDte of        *)
(* cpu/transistor_opt.cc.                                                    *)
(*                                                                          *)
(* Nodes are the integers of NodeId: the rails, the input bits, the three    *)
(* pins of each transistor and the placeholders.  A network keeps its        *)
(* connections as ordered pairs; bidi_connections is the same relation the   *)
(* other way round as well.                                                  *)
(****************************************************************************)
EXTENDS Integers, Sequences, FiniteSets

Vdd == -1
Vss == -2
InputBit(i) == -4 - i

\* Placeholders count up from the least int; here from a number that no pin or
\* input reaches.
LeastInt == -1000
Placeholder(k) == LeastInt + k

Pin(t, terminal) == 3 * t + terminal
Drain(t)  == Pin(t, 0)
Gate(t)   == Pin(t, 1)
Source(t) == Pin(t, 2)
TransistorOf(pin) == pin \div 3

EmptyWiring == [types |-> << >>, wires |-> {}]

NumTransistors(net) == Len(net.types)
Transistors(net) == 0 .. NumTransistors(net) - 1
TypeOf(net, t) == net.types[t + 1]
Pins(net) == 0 .. 3 * NumTransistors(net) - 1

\* A network whose connections lead to its pins and to nodes of `ends`.
IsWiring(net, ends) ==
  LET nodes == Pins(net) \cup ends
  IN  net \in [types : Seq({"n", "p"}), wires : SUBSET (nodes \X nodes)]

Wire(a, b) == IF b < a THEN <<b, a>> ELSE <<a, b>>

ConnectedNodes(net, n) ==
  {w[2] : w \in {w \in net.wires : w[1] = n}} \cup {w[1] : w \in {w \in net.wires : w[2] = n}}

Connect(net, pairs) ==
  [net EXCEPT !.wires = @ \cup {Wire(p[1], p[2]) : p \in pairs}]

\* Faulty: connects `to` as well, and leaves what was connected.
RewireKeeps(net, from, to) ==
  Connect(net, {<<to, n>> : n \in ConnectedNodes(net, from) \ {to}})

\* Network::replace: the nodes connected to `from` are connected to `to` instead.
Rewire(net, from, to) ==
  Connect([net EXCEPT !.wires = {w \in @ : from \notin {w[1], w[2]}}],
          {<<to, n>> : n \in ConnectedNodes(net, from)})

----------------------------------------------------------------------------
(* The builders: the network with the new transistors, and the node that     *)
(* carries the result.                                                       *)

Built(net, types, pairs, out) ==
  [net |-> Connect([net EXCEPT !.types = @ \o types], pairs), out |-> out]

\* One transistor for each input in series from the rail `from`, and one of the
\* other type for each input in parallel from the rail `to`.
Complementary(net, ins, series, parallel, from, to) ==
  LET n == Len(ins)
      first == NumTransistors(net)
      Chain(i) == IF i = 0 THEN from ELSE Drain(first + i - 1)
      Across(i) == first + n + i - 1
  IN  Built(net, [i \in 1 .. 2 * n |-> IF i <= n THEN series ELSE parallel],
            UNION {{<<Chain(i - 1), Source(first + i - 1)>>, <<ins[i], Gate(first + i - 1)>>,
                    <<ins[i], Gate(Across(i))>>, <<to, Source(Across(i))>>,
                    <<Chain(n), Drain(Across(i))>>} : i \in 1 .. n},
            Chain(n))

MakeNand(net, ins) == Complementary(net, ins, "n", "p", Vss, Vdd)
MakeNor(net, ins)  == Complementary(net, ins, "p", "n", Vdd, Vss)
MakeNot(net, in)   == MakeNand(net, <<in>>)
MakeAnd(net, ins)  == LET nand == MakeNand(net, ins) IN MakeNot(nand.net, nand.out)
MakeOr(net, ins)   == LET nor == MakeNor(net, ins) IN MakeNot(nor.net, nor.out)

MakeXor(net, a, b) ==
  LET na == MakeNot(net, a)
      nb == MakeNot(na.net, b)
      l  == MakeAnd(nb.net, <<na.out, b>>)
      r  == MakeAnd(l.net, <<nb.out, a>>)
  IN  MakeOr(r.net, <<l.out, r.out>>)

\* Four rows of two transistors in series, from Vdd and of type P where the table
\* holds a one, from Vss and of type N where it holds a zero.
MakeLookup(net, a, b, na, nb, lut) ==
  LET first == NumTransistors(net)
      Kind(r) == IF lut[r + 1] THEN "p" ELSE "n"
      T1(r) == first + 2 * r
      T2(r) == first + 2 * r + 1
  IN  Built(net, [i \in 1 .. 8 |-> Kind((i - 1) \div 2)],
            {<<Drain(T2(r)), Drain(T2(r + 1))>> : r \in 0 .. 2}
              \cup UNION {{<<Source(T1(r)), IF lut[r + 1] THEN Vdd ELSE Vss>>,
                           <<Gate(T1(r)), IF r % 2 = 1 THEN a ELSE na>>,
                           <<Source(T2(r)), Drain(T1(r))>>,
                           <<Gate(T2(r)), IF r \div 2 = 1 THEN b ELSE nb>>} : r \in 0 .. 3},
            Drain(T2(0)))

MakeTriStateBuffer(net, enable, notEnable, data) ==
  LET nand == MakeNand(net, <<data, enable>>)
      nor  == MakeNor(nand.net, <<data, notEnable>>)
      p    == NumTransistors(nor.net)
      n    == p + 1
  IN  Built(nor.net, <<"p", "n">>,
            {<<Source(p), Vdd>>, <<Source(n), Vss>>, <<Drain(p), Drain(n)>>,
             <<nand.out, Gate(p)>>, <<nor.out, Gate(n)>>},
            Drain(n))

\* A transmission gate.
MakeTg(net, sel, notSel, a) ==
  LET p == NumTransistors(net)
      n == p + 1
  IN  Built(net, <<"p", "n">>,
            {<<Gate(n), sel>>, <<Gate(p), notSel>>, <<Source(n), Source(p)>>,
             <<Drain(n), Drain(p)>>, <<Source(n), a>>},
            Drain(n))

\* Faulty: both gates open on the same level.
MakeMuxBothOn(net, sel, notSel, h, l) ==
  LET a == MakeTg(net, sel, notSel, h)
      b == MakeTg(a.net, sel, notSel, l)
  IN  Built(b.net, << >>, {<<a.out, b.out>>}, a.out)

MakeMux(net, sel, notSel, h, l) ==
  LET a == MakeTg(net, sel, notSel, h)
      b == MakeTg(a.net, notSel, sel, l)
  IN  Built(b.net, << >>, {<<a.out, b.out>>}, a.out)

----------------------------------------------------------------------------
\* RunDte drops the transistors whose gate pin is not connected, and renumbers the
\* others.  A pin of a dropped one keeps its number.
Dropped(net) == {t \in Transistors(net) : ConnectedNodes(net, Gate(t)) = {}}
Kept(net) == Transistors(net) \ Dropped(net)

\* The transistors that RunDte drops "aren't connected to anything"
\* (transistor_opt.h:9), which it tells from their gate pin alone.
DropsUnconnected(net) ==
  \A t \in Dropped(net) :
    ConnectedNodes(net, Source(t)) = {} /\ ConnectedNodes(net, Drain(t)) = {}

Renumbered(net, t) == Cardinality({u \in Kept(net) : u < t})

DteLookup(net, n) ==
  IF n >= 0 /\ TransistorOf(n) \in Kept(net)
  THEN Pin(Renumbered(net, TransistorOf(n)), n % 3)
  ELSE n

RunDte(net) ==
  IF Dropped(net) = {} THEN net
  ELSE [types |-> [i \in 1 .. Cardinality(Kept(net)) |->
                     TypeOf(net, CHOOSE t \in Kept(net) : Renumbered(net, t) = i - 1)],
        wires |-> {Wire(DteLookup(net, w[1]), DteLookup(net, w[2])) : w \in net.wires}]

=============================================================================
