---------------------------- MODULE MCHandFimTask ----------------------------
EXTENDS HandFimTask, TLC

Raster(w, f(_, _)) == [c \in CellsOf(Window(0, 0, w.height, w.width)) |-> f(c[1], c[2])]
Row(b, i, f, q, h) == [branch |-> b, hydroid |-> i, feature |-> f, q |-> q, h |-> h, lake |-> FALSE]
Wide == Window(0, 0, 3, 4)
Inner == Window(1, 1, 2, 3)
Outer == Window(2, 2, 2, 3)
Big(inner, split) ==
    [ids |-> <<0, 1>>, split |-> split,
     place |-> (0 :> Wide) @@ (1 :> inner),
     catchments |-> (0 :> Raster(Wide, LAMBDA r, c : IF r = 0 /\ c = 0 THEN 0 ELSE IF c < 2 THEN 11 ELSE 12))
                 @@ (1 :> Raster(inner, LAMBDA r, c : IF c = 2 THEN 22 ELSE IF r = 0 THEN 21 ELSE 23)),
     rem |-> (0 :> Raster(Wide, LAMBDA r, c : r + c - 1))
          @@ (1 :> Raster(inner, LAMBDA r, c : 2 * r + c)),
     table |-> << Row(0, 11, 1, 0, 0), Row(0, 11, 1, 4, 4), Row(0, 12, 3, 0, 0), Row(0, 12, 2, 2, 1), Row(0, 12, 3, 4, 3), Row(0, 12, 2, 6, 5),
                 Row(1, 21, 2, 0, 1), Row(1, 21, 2, 4, 3), Row(1, 22, 3, 1, 1), Row(1, 22, 3, 4, 6),
                 [Row(1, 23, 4, 0, 9) EXCEPT !.lake = TRUE], Row(1, 24, 5, 0, 9)>>]
Small == [ids |-> <<0>>, split |-> FALSE, place |-> (0 :> Window(0, 0, 2, 2)),
          catchments |-> (0 :> Raster(Window(0, 0, 2, 2), LAMBDA r, c : 31)),
          rem |-> (0 :> Raster(Window(0, 0, 2, 2), LAMBDA r, c : 2 - r)),
          table |-> <<Row(0, 31, 6, 0, 0), Row(0, 31, 6, 4, 4)>>]
MCSources == (1 :> {Big(Inner, FALSE), Big(Inner, TRUE), Big(Outer, FALSE)}) @@ (2 :> {Small})
Reach(h, f, q) == [huc |-> h, feature |-> f, flow |-> q]
A1 == Reach(1, 1, 2)
B3 == Reach(1, 2, 3)
B1 == Reach(1, 2, 1)
C1 == Reach(1, 3, 1)
C3 == Reach(1, 3, 3)
Lake == Reach(1, 4, 3)
Nowhere == Reach(1, 5, 3)
Wet2 == Reach(2, 6, 4)
Dry2 == Reach(2, 6, 1)
Scen(n, rs) == [id |-> n, reaches |-> rs]
MCRequests ==
    {<<Scen(1, rs)>> : rs \in {<<A1>>, <<B3, C1>>, <<C3, B1>>, <<B3, B1, A1>>, <<Lake, C1, A1>>, <<Wet2, B1>>, <<Dry2>>, <<Nowhere>>, <<Dry2, Nowhere, Lake>>}}
    \cup {<<Scen(1, <<A1, Dry2>>), Scen(2, <<C3>>)>>}
\* Two jobs on the same HUC with a scenario of the same name, the second over
\* the outputs of the first, and one whose scenario's name has a dot in it.
Ask(id, hucs) == [id |-> id, hucs |-> hucs]
MCAsked ==
    <<<<Ask(<<1>>, <<8, 7>>), Ask(<<2>>, <<7>>)>>, <<Ask(<<1>>, <<7>>)>>,
      <<Ask(<<3, Dot, 4>>, <<8>>)>>>>
MCPrefix == <<1, 1, 2>>

\* Results to compare: floods moved by up to three pixels, cells lost and
\* added, dry ones, tiles, a missing COG, scenarios that only one result has.
Tile(row, col, height, width, flooded) ==
    [at |-> Area(row, col, height, width), flooded |-> flooded]
Flood == {<<0, 0>>, <<0, 1>>, <<0, 2>>, <<1, 0>>, <<2, 2>>}
Moving(dr, dc) == {<<c[1] + dr, c[2] + dc>> : c \in Flood}
Whole(dr, dc) == {Tile(dr, dc, 3, 3, Moving(dr, dc))}
Cut(dr, dc) ==
    {Tile(dr, dc, 2, 3, {c \in Moving(dr, dc) : c[1] < dr + 2}),
     Tile(dr + 2, dc + 2, 1, 1, {<<dr + 2, dc + 2>>})}
Dry == {Tile(0, 0, 2, 2, {})}
Result(id, rasters, missing) == [id |-> id, rasters |-> rasters, missing |-> missing]
Versus(a, b) == [base |-> <<Result(1, a, <<>>)>>, candidate |-> <<Result(1, b, <<>>)>>]
MCPairs ==
    {Versus(Whole(0, 0), Cut(dr, dc)) : dr \in -3..2, dc \in -1..3}
    \cup {Versus(Whole(0, 0), {Tile(0, 0, 3, 3, Flood \ {c})}) : c \in Flood}
    \cup {Versus(Whole(0, 0), {Tile(0, 0, 3, 4, Moving(0, 1) \cup {<<2, 0>>})})}
    \cup {Versus(Whole(0, 0), Dry), Versus(Dry, Cut(1, 0)), Versus(Dry, Dry),
          Versus({}, Cut(0, 0)),
          [base |-> <<Result(1, Whole(0, 0), <<>>), Result(2, Whole(1, 1), <<>>),
                      Result(3, Dry, <<>>)>>,
           candidate |-> <<Result(2, Cut(1, 1), <<7>>), Result(1, Cut(0, 1), <<>>)>>],
          [base |-> <<Result(1, Whole(0, 0), <<>>), Result(2, Whole(1, 1), <<>>)>>,
           candidate |-> <<Result(1, Cut(0, 0), <<>>), Result(2, Cut(1, 0), <<>>)>>],
          [base |-> <<Result(1, Dry, <<>>)>>, candidate |-> <<Result(2, Dry, <<>>)>>]}
=============================================================================
