---------------------------- MODULE MCFpgaRouting ----------------------------
(* Small instances of FpgaRouting.                                          *)
EXTENDS FpgaRouting

CONSTANTS a, b, g1, g2

Grid == << <<"in", "in">>, <<"lut", "nor">>, <<"out", "nand">>, <<"out", "ff">> >>
GridCells == [loc \in Coords |-> Grid[loc[1] + 1][loc[2] + 1]]

\* Two gates on two inputs; g2 may read g1, and one of them or both are read outside.
Pairs(T) == {{t, u} : t, u \in T} \ {{t} : t \in T}
Lookups(S) == {T \X BOOLEAN : T \in Pairs(S)}
Wide == {{a, b, g1} \X {TRUE}}      \* what a NOR of three inputs reads
First  == {{<<a, TRUE>>, <<b, p>>} : p \in BOOLEAN} \cup Lookups({a, b})
Second == Pairs({<<a, TRUE>>} \cup {g1} \X BOOLEAN) \cup Lookups({a, g1}) \cup Wide
Small ==
  {c \in [ gates   : {<<g2, g1>>},
           inputs  : {<<a, b>>},
           kind    : [Signals -> {"nor", "nand", "lookup", "input"}],
           reads   : {[s \in Signals |-> IF s = g1 THEN r[1] ELSE IF s = g2 THEN r[2] ELSE {}] :
                        r \in First \X Second},
           outputs : {{g2}, {g1, g2}} ] :
     /\ \A s \in Signals : c.kind[s] = "input" <=> s \in {a, b}
     /\ \A s \in {g1, g2} : Accepted(c, s)
     /\ {s \in Signals : \E t \in Signals, p \in BOOLEAN : <<s, p>> \in c.reads[t]}
          \cup c.outputs = Signals }

=============================================================================
