------------------------------- MODULE HucIndex -------------------------------
(***************************************************************************)
(* The offline conversion of a downloaded HUC into the prepared index that *)
(* streaming jobs read (docker/handfim/prepare_streaming_dataset.py):      *)
(* download_huc fetches the source files, prepare_huc writes huc.parquet   *)
(* and reaches.parquet.                                                    *)
(*                                                                         *)
(* A raster is a function from cells to values, a hydro-table a sequence   *)
(* of rows, reaches.parquet a sequence of row groups.  Grid sizes and      *)
(* block sizes are a handful of cells; discharges, stages and elevations   *)
(* are integers in the unit to which a stage is rounded.                   *)
(***************************************************************************)
EXTENDS Integers, FiniteSets, Sequences, SequencesExt, Collections

CONSTANTS
    Hucs,               \* HUC identifiers, integers: they are sorted
    Sources,            \* Sources[h]: the hydrofabrics HUC h may have
    BlockSizes,         \* block sizes a conversion is asked for
    ReachesPerGroup,    \* REACHES_PER_GROUP
    MaxInterruptions    \* bound: downloads killed half-way

(***************************************************************************)
(* Grids and windows.                                                      *)
(***************************************************************************)
Window(row, col, height, width) ==
    [row |-> row, col |-> col, height |-> height, width |-> width]

CellsOf(w) == (w.row .. w.row + w.height - 1) \X (w.col .. w.col + w.width - 1)

TableRows ==
    [branch : Int, hydroid : Int, feature : Int, q : Int, h : Int, lake : BOOLEAN]

\* What NOAA publishes of a HUC: the ids of its branches, one hydro-table, and
\* for each branch its place on the grid and two rasters that cover it.
Hydrofabric(src) ==
    /\ src.ids \in Seq(Nat) /\ src.table \in Seq(TableRows)
    /\ \A b \in ToSet(src.ids) :
         /\ src.place[b] \in [row : Int, col : Int, height : Nat \ {0}, width : Nat \ {0}]
         /\ LET cells == CellsOf(Window(0, 0, src.place[b].height, src.place[b].width))
            IN src.catchments[b] \in [cells -> Int] /\ src.rem[b] \in [cells -> Int]

ASSUME IndexAssumption ==
    /\ Hucs \subseteq Nat
    /\ \A h \in Hucs : \A src \in Sources[h] : Hydrofabric(src)
    /\ BlockSizes \subseteq Nat \ {0}
    /\ ReachesPerGroup \in Nat \ {0}
    /\ MaxInterruptions \in Nat

VARIABLES
    source,         \* [Hucs -> source], what NOAA publishes; never changes
    dir,            \* [Hucs -> set of files in flood_<huc>/<huc>]
    fetched,        \* HUCs whose last download_huc returned
    root,           \* block size recorded in dataset.parquet, 0 when absent
    index,          \* [Hucs -> prepared index or NoIndex]
    interruptions

indexVars == <<source, dir, fetched, root, index, interruptions>>

NoIndex == [block |-> 0]

(***************************************************************************)
(* download_huc: the keys it wants, in listing order.  Without a table for *)
(* the whole HUC (`split`) every branch brings its own.                    *)
(***************************************************************************)
File(kind, branch) == [kind |-> kind, branch |-> branch]

Wanted(src) ==
    <<File("branch_ids", -1)>>
        \o FlattenSeq([i \in 1..Len(src.ids) |->
             <<File("catchments", src.ids[i])>>
                \o (IF src.split THEN <<File("hydroTable", src.ids[i])>> ELSE <<>>)])
        \o (IF src.split THEN <<>> ELSE <<File("hydrotable", -1)>>)

HasDownload(h) == File("catchments", 0) \in dir[h]

\* A directory with the catchments of branch 0 is taken to be complete.
SkipDownload(h) ==
    /\ h \notin fetched /\ HasDownload(h)
    /\ fetched' = fetched \cup {h}
    /\ UNCHANGED <<source, dir, root, index, interruptions>>

Download(h) ==
    /\ h \notin fetched /\ ~HasDownload(h)
    /\ dir' = [dir EXCEPT ![h] = @ \cup ToSet(Wanted(source[h]))]
    /\ fetched' = fetched \cup {h}
    /\ UNCHANGED <<source, root, index, interruptions>>

\* The process dies: files appear one by one, each complete.
InterruptDownload(h) ==
    /\ h \notin fetched /\ ~HasDownload(h) /\ interruptions < MaxInterruptions
    /\ \E n \in 1 .. Len(Wanted(source[h])) - 1 :
         dir' = [dir EXCEPT ![h] = @ \cup ToSet(SubSeq(Wanted(source[h]), 1, n))]
    /\ interruptions' = interruptions + 1
    /\ UNCHANGED <<source, fetched, root, index>>

(***************************************************************************)
(* __branch_ids and the branches that are converted: those with a          *)
(* catchments raster.                                                      *)
(***************************************************************************)
BranchIds(h) ==
    IF File("branch_ids", -1) \in dir[h]
    THEN ToSet(source[h].ids)
    ELSE {f.branch : f \in {g \in dir[h] : g.kind = "catchments"}}

BranchSources(h) == {b \in BranchIds(h) : File("catchments", b) \in dir[h]}

HasTable(h, b) ==
    File("hydrotable", -1) \in dir[h] \/ File("hydroTable", b) \in dir[h]

(***************************************************************************)
(* __read_ratings: the rows of a branch outside lakes, by HydroID and      *)
(* feature, in table order.  row_order is kept for a HydroID that several  *)
(* features share, and dropped otherwise.                                  *)
(***************************************************************************)
RowsOf(src, b) ==
    {i \in DOMAIN src.table : src.table[i].branch = b /\ ~src.table[i].lake}

Ratings(src, b) ==
    LET rows == RowsOf(src, b)
        keys == {<<src.table[i].hydroid, src.table[i].feature>> : i \in rows}
        at(k) == Ascending({i \in rows :
                    src.table[i].hydroid = k[1] /\ src.table[i].feature = k[2]})
    IN [k \in keys |->
          [curve |-> [n \in 1 .. Len(at(k)) |->
                        [q |-> src.table[at(k)[n]].q, h |-> src.table[at(k)[n]].h]],
           row_order |-> IF \E k2 \in keys : k2[1] = k[1] /\ k2[2] # k[2]
                         THEN at(k) ELSE <<>>]]

(***************************************************************************)
(* __offsets: a branch lies inside branch 0.                               *)
(***************************************************************************)
Placed(src, b) ==
    LET w == src.place[b] IN
    /\ w.row >= 0 /\ w.col >= 0
    /\ w.row + w.height <= src.place[0].height
    /\ w.col + w.width <= src.place[0].width

(***************************************************************************)
(* __occupied_blocks, one block at a time: the blocks in which a HydroID   *)
(* with ratings occurs.                                                    *)
(***************************************************************************)
BlockWindow(place, block, at) ==
    LET r == at[1] * block
        c == at[2] * block
        low(a, b) == IF a < b THEN a ELSE b
    IN Window(r, c, low(block, place.height - r), low(block, place.width - c))

BlockGrid(place, block) ==
    (0 .. (place.height - 1) \div block) \X (0 .. (place.width - 1) \div block)

\* A mutant of OccupiedBlocks: the last, partial row of blocks is not scanned.
OccupiedFullBlocks(src, b, block, hydroid) ==
    {at \in BlockGrid(src.place[b], block) :
        /\ (at[1] + 1) * block <= src.place[b].height
        /\ \E cell \in CellsOf(BlockWindow(src.place[b], block, at)) :
               src.catchments[b][cell] = hydroid}

OccupiedBlocks(src, b, block, hydroid) ==
    {at \in BlockGrid(src.place[b], block) :
        \E cell \in CellsOf(BlockWindow(src.place[b], block, at)) :
            src.catchments[b][cell] = hydroid}

(***************************************************************************)
(* The rows of reaches.parquet for one branch: one per feature and         *)
(* HydroID, each with the blocks of all HydroIDs of its feature.           *)
(***************************************************************************)
BranchRows(src, b, block) ==
    LET ratings == Ratings(src, b)
        blocks(f) == UNION {OccupiedBlocks(src, b, block, k[1]) :
                              k \in {j \in DOMAIN ratings : j[2] = f}}
    IN {[feature |-> k[2], branch |-> b, hydroid |-> k[1],
         curve |-> ratings[k].curve, row_order |-> ratings[k].row_order,
         blocks |-> blocks(k[2])] : k \in DOMAIN ratings}

(***************************************************************************)
(* __write_reaches: sorted by feature, ReachesPerGroup features per group. *)
(***************************************************************************)
RowGroups(rows) ==
    LET features == Ascending({r.feature : r \in rows})
        groups == (Len(features) + ReachesPerGroup - 1) \div ReachesPerGroup
    IN [g \in 1 .. groups |->
          {r \in rows : \E i \in DOMAIN features :
              /\ features[i] = r.feature
              /\ (i - 1) \div ReachesPerGroup = g - 1}]

\* __write_huc: the reference grid of branch 0 and the place of each branch.
Converted(h, block) ==
    LET src == source[h]
        branches == BranchSources(h)
    IN [block |-> block,
        height |-> src.place[0].height, width |-> src.place[0].width,
        branches |-> [b \in branches |-> src.place[b]],
        groups |-> RowGroups(UNION {BranchRows(src, b, block) : b \in branches})]

Convertible(h) ==
    /\ 0 \in BranchSources(h)
    /\ \A b \in BranchSources(h) : Placed(source[h], b) /\ HasTable(h, b)

(***************************************************************************)
(* prepare_huc.  dataset.parquet fixes the block size of the dataset; a    *)
(* HUC's old index is removed before anything can fail.                    *)
(***************************************************************************)
RefuseDataset(h, block) ==
    /\ h \in fetched
    /\ root \notin {0, block}
    /\ fetched' = fetched \ {h}
    /\ UNCHANGED <<source, dir, root, index, interruptions>>

\* A mutant of PrepareHuc: dataset.parquet is written whatever it held.
PrepareAnyBlock(h, block) ==
    /\ h \in fetched
    /\ root' = block
    /\ index' = [index EXCEPT ![h] = IF Convertible(h) THEN Converted(h, block) ELSE NoIndex]
    /\ fetched' = fetched \ {h}
    /\ UNCHANGED <<source, dir, interruptions>>

PrepareHuc(h, block) ==
    /\ h \in fetched
    /\ root \in {0, block}
    /\ root' = block
    /\ index' = [index EXCEPT ![h] = IF Convertible(h) THEN Converted(h, block) ELSE NoIndex]
    /\ fetched' = fetched \ {h}
    /\ UNCHANGED <<source, dir, interruptions>>

IndexInit ==
    /\ source \in {f \in [Hucs -> UNION {Sources[h] : h \in Hucs}] :
                     \A h \in Hucs : f[h] \in Sources[h]}
    /\ dir = [h \in Hucs |-> {}]
    /\ fetched = {}
    /\ root = 0
    /\ index = [h \in Hucs |-> NoIndex]
    /\ interruptions = 0

IndexNext ==
    \E h \in Hucs :
        \/ SkipDownload(h) \/ Download(h) \/ InterruptDownload(h)
        \/ \E block \in BlockSizes : RefuseDataset(h, block) \/ PrepareHuc(h, block)

(***************************************************************************)
(* What download_huc says of itself (prepare_streaming_dataset.py:224-225):*)
(* "files are renamed into place only when complete, so an interrupted run *)
(* resumes".  A HUC that is handed to the conversion has all its files.    *)
(***************************************************************************)
InterruptedRunResumes ==
    \A h \in fetched : ToSet(Wanted(source[h])) \subseteq dir[h]
=============================================================================
