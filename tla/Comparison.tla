------------------------------- MODULE Comparison -------------------------------
(***************************************************************************)
(* Comparing two retained results: fimbox_api/parity.py and the tasks      *)
(* hand_fim_parity (a legacy run against its streaming rerun, which        *)
(* precedes the comparison) and hand_fim_compare (any two runs).           *)
(*                                                                         *)
(* Cells are pairs of integers on one grid; a raster is the window that it *)
(* covers and the set of its flooded cells.  Reprojection is left out: the *)
(* rasters differ by whole pixels at most.                                 *)
(***************************************************************************)
EXTENDS Integers, FiniteSets, Sequences, SequencesExt, FiniteSetsExt, Collections

CONSTANTS
    Pairs,          \* pairs [base, candidate] of results: sequences of
                    \* [id, rasters, missing]; a missing COG has no rasters
    MaxGridShift,   \* MAX_GRID_SHIFT
    WindowSize,     \* WINDOW_SIZE
    MaxRestarts     \* bound: killed workers

Areas == [row : Int, col : Int, height : Nat \ {0}, width : Nat \ {0}]

Inside(cell, area) ==
    /\ cell[1] >= area.row /\ cell[1] < area.row + area.height
    /\ cell[2] >= area.col /\ cell[2] < area.col + area.width

\* Rasters are finitely many and finite, their flooded cells within them.
Results ==
    Seq([id : Nat, rasters : SUBSET [at : Areas, flooded : SUBSET (Int \X Int)],
         missing : Seq(Nat)])

ASSUME ComparisonAssumption ==
    /\ Pairs \subseteq [base : Results, candidate : Results]
    /\ \A p \in Pairs : \A s \in ToSet(p.base) \cup ToSet(p.candidate) :
         /\ IsFiniteSet(s.rasters)
         /\ \A r \in s.rasters :
              IsFiniteSet(r.flooded) /\ \A c \in r.flooded : Inside(c, r.at)
    /\ MaxGridShift \in Nat /\ WindowSize \in Nat \ {0} /\ MaxRestarts \in Nat

VARIABLES
    base, candidate,    \* the retained results; they never change
    parity,             \* hand_fim_parity or hand_fim_compare
    replace,            \* overwrite=true
    comparing,          \* [at, todo]: the attempt that runs
    diffs,              \* [id -> difference raster], stored
    report,             \* the report, stored; NoReport when there is none
    restarts

compareVars == <<base, candidate, parity, replace, comparing, diffs, report, restarts>>

NoReport == <<>>

(***************************************************************************)
(* The comparison grid: the rasters' common extent and a margin, so that a *)
(* shift moves no flooded cell out of it.                                  *)
(***************************************************************************)
Area(row, col, height, width) == [row |-> row, col |-> col, height |-> height, width |-> width]

Extent(rasters, margin) ==
    LET north == Min({r.at.row : r \in rasters}) - margin
        west == Min({r.at.col : r \in rasters}) - margin
    IN Area(north, west,
            Max({r.at.row + r.at.height : r \in rasters}) + margin - north,
            Max({r.at.col + r.at.width : r \in rasters}) + margin - west)

\* A mutant of Grid: without the margin.
GridTight(rasters) == Extent(rasters, 0)

Grid(rasters) == Extent(rasters, MaxGridShift)

\* __windows, by their first row and column.
Windows(grid) ==
    {Area(grid.row + i * WindowSize, grid.col + k * WindowSize,
          Min({WindowSize, grid.height - i * WindowSize}),
          Min({WindowSize, grid.width - k * WindowSize})) :
        i \in 0 .. (grid.height - 1) \div WindowSize,
        k \in 0 .. (grid.width - 1) \div WindowSize}

\* Views at an offset of whole pixels: the flood union they show.
Shown(rasters, shift) ==
    {<<c[1] - shift[1], c[2] - shift[2]>> : c \in UNION {r.flooded : r \in rasters}}

(***************************************************************************)
(* __compare: lost and added cells and the coordinate sums, window by      *)
(* window.                                                                 *)
(***************************************************************************)
Compared(bases, tiles, shift) ==
    LET grid == Grid(bases \cup tiles)
        in(cells, w) == {c \in cells : Inside(c, w)}
        all(cells) == UNION {in(cells, w) : w \in Windows(grid)}
        expected == all(Shown(bases, <<0, 0>>))
        actual == all(Shown(tiles, shift))
    IN [base |-> expected, candidate |-> actual,
        lost |-> expected \ actual, added |-> actual \ expected, shift |-> shift]

Different(c) == Cardinality(c.lost) + Cardinality(c.added)

\* Python's round of n / d, d > 0: half to even.
Round(n, d) ==
    LET low == n \div d
        twice == 2 * (n % d)
    IN IF twice > d \/ (twice = d /\ low % 2 = 1) THEN low + 1 ELSE low

\* The rounded offset between the centroids of the two flood masks.
Offset(c, axis) ==
    LET n == Cardinality(c.candidate)
        m == Cardinality(c.base)
        sum(cells) == FoldSet(LAMBDA x, total : x[axis] + total, 0, cells)
    IN Round(sum(c.candidate) * m - sum(c.base) * n, n * m)

(***************************************************************************)
(* compare_scenario_outputs: shift the candidate when that is small and    *)
(* lessens the differences.                                                *)
(***************************************************************************)
CompareOutputs(bases, tiles) ==
    LET unaligned == Compared(bases, tiles, <<0, 0>>)
        offset == <<Offset(unaligned, 1), Offset(unaligned, 2)>>
        small(n) == n \in -MaxGridShift .. MaxGridShift
        aligned == Compared(bases, tiles, offset)
    IN IF /\ Different(unaligned) > 0
          /\ unaligned.base # {} /\ unaligned.candidate # {}
          /\ offset # <<0, 0>> /\ small(offset[1]) /\ small(offset[2])
          /\ Different(aligned) < Different(unaligned)
       THEN aligned
       ELSE unaligned

(***************************************************************************)
(* The tasks.                                                              *)
(***************************************************************************)
IdsOf(result) == [n \in DOMAIN result |-> result[n].id]

Of(result, id) == CHOOSE s \in ToSet(result) : s.id = id

\* parity: every scenario of the legacy run; compare: those of both, base order.
Shared ==
    Kept(IdsOf(base), {n \in DOMAIN base : base[n].id \in ToSet(IdsOf(candidate))})

Stop(outcome) == comparing' = [at |-> outcome, todo |-> <<>>]

\* __legacy_scenarios, __require_s3_keys, __reject_existing_s3_keys.
BeginComparison ==
    /\ comparing.at = "queued"
    /\ IF \/ Shared = <<>>
          \/ parity /\ \E s \in ToSet(base) : s.rasters = {}
          \/ /\ ~replace
             /\ \/ report # NoReport \/ DOMAIN diffs \cap ToSet(Shared) # {}
                \/ parity /\ restarts > 0      \* tiles of the first rerun are there
       THEN Stop("failed")
       ELSE comparing' = [at |-> "compare", todo |-> Shared]
    /\ UNCHANGED <<base, candidate, parity, replace, diffs, report, restarts>>

\* Download both sides, compare, upload the difference raster.
CompareScenario ==
    /\ comparing.at = "compare" /\ comparing.todo # <<>>
    /\ LET id == Head(comparing.todo)
           bases == Of(base, id).rasters
           tiles == Of(candidate, id).rasters
       IN IF bases = {} \/ tiles = {}
          THEN /\ Stop("failed")
               /\ UNCHANGED diffs
          ELSE /\ diffs' = With(diffs, id, CompareOutputs(bases, tiles))
               /\ comparing' = [comparing EXCEPT !.todo = Tail(@)]
    /\ UNCHANGED <<base, candidate, parity, replace, report, restarts>>

Missing(id) ==
    (IF parity THEN {} ELSE ToSet(Of(base, id).missing)) \cup ToSet(Of(candidate, id).missing)

\* One comparison per scenario, and whether it matches.
PutReport ==
    /\ comparing.at = "compare" /\ comparing.todo = <<>>
    /\ report' = [n \in DOMAIN Shared |->
         [id |-> Shared[n],
          matches |-> Different(diffs[Shared[n]]) = 0 /\ Missing(Shared[n]) = {}]]
    /\ Stop("done")
    /\ UNCHANGED <<base, candidate, parity, replace, diffs, restarts>>

\* A download, an upload or the rerun fails.
ComparisonFails ==
    /\ comparing.at = "compare"
    /\ Stop("failed")
    /\ UNCHANGED <<base, candidate, parity, replace, diffs, report, restarts>>

\* The worker is killed and the task delivered again.
RestartComparison ==
    /\ comparing.at = "compare" /\ restarts < MaxRestarts
    /\ comparing' = [at |-> "queued", todo |-> <<>>]
    /\ restarts' = restarts + 1
    /\ UNCHANGED <<base, candidate, parity, replace, diffs, report>>

CompareInit ==
    /\ \E p \in Pairs : base = p.base /\ candidate = p.candidate
    /\ parity \in BOOLEAN /\ replace \in BOOLEAN
    /\ parity => IdsOf(base) = IdsOf(candidate)
    /\ comparing = [at |-> "queued", todo |-> <<>>]
    /\ diffs = <<>>
    /\ report = NoReport
    /\ restarts = 0

CompareNext ==
    \/ BeginComparison \/ CompareScenario \/ PutReport \/ ComparisonFails
    \/ RestartComparison

(***************************************************************************)
(* A difference raster holds exactly the cells in which the two floods     *)
(* differ after a shift of at most MaxGridShift pixels that brings them    *)
(* closer: none is lost at the border of the grid or of a window.  A       *)
(* report covers all shared scenarios, and a scenario that it calls a      *)
(* match has the same flood in both results and misses no reach            *)
(* (parity.py:47-175, tasks.py:580-590, 740-790).                          *)
(***************************************************************************)
ComparisonIsExact ==
    /\ \A id \in DOMAIN diffs :
        LET d == diffs[id]
            expected == UNION {r.flooded : r \in Of(base, id).rasters}
            flood == UNION {r.flooded : r \in Of(candidate, id).rasters}
            moved == {<<c[1] - d.shift[1], c[2] - d.shift[2]>> : c \in flood}
        IN /\ d.lost = expected \ moved /\ d.added = moved \ expected
           /\ \A axis \in {1, 2} : d.shift[axis] \in -MaxGridShift .. MaxGridShift
           /\ d.shift # <<0, 0>> =>
                Different(d) < Cardinality(expected \ flood) + Cardinality(flood \ expected)
    /\ report # NoReport =>
        /\ IdsOf(report) = Shared
        /\ \A s \in ToSet(report) : s.matches =>
             /\ diffs[s.id].lost = {} /\ diffs[s.id].added = {}
             /\ Missing(s.id) = {}
=============================================================================
