------------------------------ MODULE TileStream ------------------------------
(***************************************************************************)
(* The command stream-scenario of the container: planning a HUC from its   *)
(* prepared index, scheduling source windows of output tiles, computing    *)
(* and writing the tiles, one manifest per scenario                        *)
(* (docker/handfim/entry.py, stream_storage.py, noaa_stream_rule.py and    *)
(* patches/streamFIM.py).  What readers and retries do with the published  *)
(* objects is StreamPublish's subject; here it is which cells they hold.   *)
(***************************************************************************)
EXTENDS HucIndex

CONSTANTS
    Requests,       \* scenario files: sequences of [id, reaches]
    Rules,          \* flood rules: subset of {"pinned", "updated"}
    TileSize,       \* FIMBOX_STREAM_TILE_SIZE, in cells
    MinDepth,       \* minimum depth of NOAA's newer kernel
    MaxBlocks, MaxTiles     \* admission limits per scenario

\* The API refuses a scenario file that repeats an id (models.py:18).
ASSUME StreamAssumption ==
    /\ Requests \subseteq
         Seq([id : Int, reaches : Seq([huc : Hucs, feature : Int, flow : Int])])
    /\ \A r \in Requests : \A m, n \in DOMAIN r : r[m].id = r[n].id => m = n
    /\ Rules \subseteq {"pinned", "updated"}
    /\ TileSize \in Nat \ {0} /\ MinDepth \in Nat
    /\ MaxBlocks \in Nat /\ MaxTiles \in Nat

VARIABLES
    request,        \* the scenario file; <<>> before the command starts
    rule,           \* --updated or not
    work,           \* progress of the scenario that is computed
    objects,        \* [key -> flooded cells of a tile], the output bucket
    manifests       \* manifests written, in scenario order

streamVars == <<request, rule, work, objects, manifests>>

NoPlan == [huc |-> -1, plans |-> <<>>, schedule |-> <<>>]
NoTile == [huc |-> -1]

Idle == [at |-> "idle", todo |-> <<>>, current |-> NoPlan, left |-> {},
         tiles |-> <<>>, dry |-> NoTile, missing |-> <<>>]

Scenario == request[Len(manifests) + 1]

(***************************************************************************)
(* first_discharges: by HUC, the first discharge of each feature.          *)
(***************************************************************************)
FirstDischarges(reaches, h) ==
    LET first == Kept(reaches, {i \in DOMAIN reaches :
            /\ reaches[i].huc = h
            /\ \A j \in 1 .. i - 1 :
                 reaches[j].huc = h => reaches[j].feature # reaches[i].feature})
    IN [n \in DOMAIN first |-> [feature |-> first[n].feature, flow |-> first[n].flow]]

(***************************************************************************)
(* read_reaches_parquet: only row groups whose range of features can hold  *)
(* a wanted one (bisect_left) are read.                                    *)
(***************************************************************************)
\* A mutant of GroupCanHold: the largest wanted feature is never looked up.
GroupCanHoldAllButLast(wanted, group) ==
    LET features == Ascending({r.feature : r \in group})
        position == Cardinality({i \in DOMAIN wanted : wanted[i] < Head(features)}) + 1
    IN position < Len(wanted) /\ wanted[position] <= Last(features)

GroupCanHold(wanted, group) ==
    LET features == Ascending({r.feature : r \in group})
        position == Cardinality({i \in DOMAIN wanted : wanted[i] < Head(features)}) + 1
    IN position <= Len(wanted) /\ wanted[position] <= Last(features)

ReadReaches(groups, features) ==
    LET wanted == Ascending(features)
    IN {r \in UNION {groups[g] : g \in {n \in DOMAIN groups : GroupCanHold(wanted, groups[n])}} :
          r.feature \in features}

(***************************************************************************)
(* stage_for_discharge: np.interp on increasing discharges, rounded.       *)
(***************************************************************************)
Rounded(a, b) == (2 * a + b) \div (2 * b)

RowsUpTo(discharge, rows) == {k \in DOMAIN rows : rows[k].q <= discharge}

LastRow(below) == CHOOSE i \in below : \A j \in below : j <= i

\* The stage between the k-th of the rows and the next; the first row's below
\* the table, the last row's above it.
Interpolated(discharge, rows, below, k) ==
    IF below = {} THEN rows[1].h
    ELSE IF k = Len(rows) THEN rows[k].h
    ELSE rows[k].h + Rounded((rows[k + 1].h - rows[k].h) * (discharge - rows[k].q),
                             rows[k + 1].q - rows[k].q)

StageForDischarge(discharge, rows) ==
    LET below == RowsUpTo(discharge, rows)
    IN Interpolated(discharge, rows, below, LastRow(below))

(***************************************************************************)
(* The rating rows of a HydroID: one reach's curve as it stands, several   *)
(* reaches' rows back in table order.  The first row decides the discharge.*)
(***************************************************************************)
\* A mutant of RatingRows: the curves stay in the order of the request.
RatingRowsUnsorted(curves) ==
    FlattenSeq([i \in DOMAIN curves |-> [n \in DOMAIN curves[i].row.curve |->
        [flow |-> curves[i].flow, q |-> curves[i].row.curve[n].q,
         h |-> curves[i].row.curve[n].h]]])

RatingRows(curves) ==
    IF Len(curves) = 1
    THEN [n \in DOMAIN curves[1].row.curve |->
            [flow |-> curves[1].flow, q |-> curves[1].row.curve[n].q, h |-> curves[1].row.curve[n].h]]
    ELSE LET merged == UNION {{<<c.row.row_order[n], c.flow, c.row.curve[n]>> :
                                 n \in DOMAIN c.row.curve} : c \in ToSet(curves)}
             order == Ascending({m[1] : m \in merged})
             at(n) == CHOOSE m \in merged : m[1] = order[n]
         IN [n \in DOMAIN order |-> [flow |-> at(n)[2], q |-> at(n)[3].q, h |-> at(n)[3].h]]

(***************************************************************************)
(* plan_huc: branch plans with blocks, in branch order, and the requested  *)
(* features that the index does not hold.                                  *)
(***************************************************************************)
PlanHuc(idx, discharges) ==
    LET rows == ReadReaches(idx.groups, {d.feature : d \in ToSet(discharges)})
        of(b) == {r \in rows : r.branch = b}
        curves(b, hydroid) ==
            LET asked(d) == {r \in of(b) : r.hydroid = hydroid /\ r.feature = d.feature}
                holders == Kept(discharges, {n \in DOMAIN discharges : asked(discharges[n]) # {}})
            IN [n \in DOMAIN holders |->
                  [flow |-> holders[n].flow, row |-> CHOOSE r \in asked(holders[n]) : TRUE]]
        stage(b, hydroid) ==
            LET rating == RatingRows(curves(b, hydroid))
            IN StageForDischarge(rating[1].flow, rating)
        plan(b) == [branch |-> b, place |-> idx.branches[b],
                    stages |-> [i \in {r.hydroid : r \in of(b)} |-> stage(b, i)],
                    blocks |-> UNION {r.blocks : r \in of(b)}]
        planned == Ascending({b \in {r.branch : r \in rows} : plan(b).blocks # {}})
    IN [plans |-> [n \in DOMAIN planned |-> plan(planned[n])],
        missing |-> LET absent == Kept(discharges, {n \in DOMAIN discharges :
                                   discharges[n].feature \notin {r.feature : r \in rows}})
                    IN [n \in DOMAIN absent |-> absent[n].feature]]

BlockCount(plans) ==
    FoldLeft(LAMBDA n, p : n + Cardinality(p.blocks), 0, plans)

(***************************************************************************)
(* schedule_tiles: every block, clipped to its raster, cut along the tiles.*)
(***************************************************************************)
TilesOf(w) ==
    (w.row \div TileSize .. (w.row + w.height - 1) \div TileSize)
        \X (w.col \div TileSize .. (w.col + w.width - 1) \div TileSize)

\* A mutant of Overlap: the end of a tile counts as part of it.
OverlapInclusive(w, tile) ==
    LET low(a, b) == IF a < b THEN a ELSE b
        high(a, b) == IF a < b THEN b ELSE a
        r0 == high(w.row, tile[1] * TileSize)
        c0 == high(w.col, tile[2] * TileSize)
    IN Window(r0, c0, low(w.row + w.height, (tile[1] + 1) * TileSize) - r0,
                      low(w.col + w.width, (tile[2] + 1) * TileSize + 1) - c0)

Overlap(w, tile) ==
    LET low(a, b) == IF a < b THEN a ELSE b
        high(a, b) == IF a < b THEN b ELSE a
        r0 == high(w.row, tile[1] * TileSize)
        c0 == high(w.col, tile[2] * TileSize)
    IN Window(r0, c0, low(w.row + w.height, (tile[1] + 1) * TileSize) - r0,
                      low(w.col + w.width, (tile[2] + 1) * TileSize) - c0)

Moved(w, rows, cols) == [w EXCEPT !.row = @ - rows, !.col = @ - cols]

ScheduleTiles(block, plans) ==
    LET span(i, at) == Moved(BlockWindow(plans[i].place, block, at),
                             -plans[i].place.row, -plans[i].place.col)
        spans == UNION {{<<i, span(i, at)>> : at \in plans[i].blocks} : i \in DOMAIN plans}
        part(s, tile) ==
            LET w == Overlap(s[2], tile) IN
            [plan |-> s[1],
             from |-> Moved(w, plans[s[1]].place.row, plans[s[1]].place.col),
             to |-> Moved(w, tile[1] * TileSize, tile[2] * TileSize)]
    IN [tile \in UNION {TilesOf(s[2]) : s \in spans} |->
          {part(s, tile) : s \in {x \in spans : tile \in TilesOf(x[2])}}]

(***************************************************************************)
(* flooded_cells and NOAA's newer kernel: a cell whose HydroID has a stage *)
(* (found by binary search) above its relative elevation.                  *)
(***************************************************************************)
Deep(stage, elevation) ==
    /\ elevation >= 0
    /\ IF rule = "pinned" THEN stage > elevation ELSE stage - elevation >= MinDepth

Wet(stages, hydroid, elevation) ==
    LET hydroids == Ascending(DOMAIN stages)
        before == Cardinality({i \in DOMAIN hydroids : hydroids[i] < hydroid})
        at == IF before < Len(hydroids) THEN before + 1 ELSE Len(hydroids)
    IN /\ hydroids # <<>>
       /\ hydroids[at] = hydroid
       /\ Deep(stages[hydroids[at]], elevation)

(***************************************************************************)
(* compute_tile: the union of its parts, in cells of the tile.             *)
(***************************************************************************)
ComputeTile(h, plans, parts) ==
    LET src == source[h]
        read(p, cell) == <<cell[1] - p.to.row + p.from.row, cell[2] - p.to.col + p.from.col>>
        wet(p, cell) == LET b == plans[p.plan].branch IN
            Wet(plans[p.plan].stages, src.catchments[b][read(p, cell)], src.rem[b][read(p, cell)])
    IN UNION {{cell \in CellsOf(p.to) : wet(p, cell)} : p \in parts}

TileShape(h, tile) ==
    LET low(a, b) == IF a < b THEN a ELSE b IN
    Window(0, 0, low(TileSize, index[h].height - tile[1] * TileSize),
                 low(TileSize, index[h].width - tile[2] * TileSize))

\* The smallest window around the flooded cells.
Cropped(cells) ==
    LET rows == Ascending({c[1] : c \in cells})
        cols == Ascending({c[2] : c \in cells})
    IN Window(Head(rows), Head(cols), Last(rows) - Head(rows) + 1, Last(cols) - Head(cols) + 1)

\* __write_manifest_tile: key and place of a tile on the HUC's grid.
Entry(h, tile, w) ==
    [key |-> <<Scenario.id, h, tile[1], tile[2]>>, huc |-> h, tile |-> tile,
     at |-> Moved(w, -tile[1] * TileSize, -tile[2] * TileSize)]

Content(cells, w) == {<<c[1] - w.row, c[2] - w.col>> : c \in cells}

Stored(key, cells) == With(objects, key, cells)

(***************************************************************************)
(* run_scenario.                                                           *)
(***************************************************************************)
HucsOf(scenario) == Ascending({r.huc : r \in ToSet(scenario.reaches)})

\* generate_streaming_scenario_fim: read the scenario file, choose the rule.
StartCommand ==
    /\ request = <<>>
    /\ request' \in Requests
    /\ rule' \in Rules
    /\ UNCHANGED <<work, objects, manifests>>

StartScenario ==
    /\ work.at = "idle" /\ Len(manifests) < Len(request)
    /\ IF root = 0
       THEN work' = [work EXCEPT !.at = "failed"]
       ELSE work' = [Idle EXCEPT !.at = "plan", !.todo = HucsOf(Scenario)]
    /\ UNCHANGED <<request, rule, objects, manifests>>

\* Plan and schedule the next HUC, unless it is not prepared or too large.
PlanNextHuc ==
    /\ work.at = "plan" /\ work.todo # <<>>
    /\ LET h == Head(work.todo)
           planned == PlanHuc(index[h], FirstDischarges(Scenario.reaches, h))
           schedule == ScheduleTiles(index[h].block, planned.plans)
           admitted == /\ BlockCount(planned.plans) <= MaxBlocks
                       /\ Len(work.tiles) + Cardinality(DOMAIN schedule) <= MaxTiles
       IN IF index[h] = NoIndex \/ ~admitted
          THEN work' = [work EXCEPT !.at = "failed"]
          ELSE work' = [work EXCEPT
                 !.at = "tiles", !.todo = Tail(@),
                 !.current = [huc |-> h, plans |-> planned.plans, schedule |-> schedule],
                 !.left = DOMAIN schedule,
                 !.missing = @ \o [n \in DOMAIN planned.missing |-> <<h, planned.missing[n]>>]]
    /\ UNCHANGED <<request, rule, objects, manifests>>

\* Tiles in order of row and column.
NextTile(left) ==
    CHOOSE t \in left : \A u \in left : t[1] < u[1] \/ (t[1] = u[1] /\ t[2] <= u[2])

\* Compute one tile; a dry one is remembered if it is the first, else skipped.
RunTile ==
    /\ work.at = "tiles" /\ work.left # {}
    /\ LET h == work.current.huc
           tile == NextTile(work.left)
           cells == ComputeTile(h, work.current.plans, work.current.schedule[tile])
           entry == Entry(h, tile, Cropped(cells))
       IN IF cells = {}
          THEN /\ work' = [work EXCEPT !.left = @ \ {tile},
                             !.dry = IF @ = NoTile THEN Entry(h, tile, TileShape(h, tile)) ELSE @]
               /\ UNCHANGED objects
          ELSE /\ work' = [work EXCEPT !.left = @ \ {tile}, !.tiles = Append(@, entry)]
               /\ objects' = Stored(entry.key, Content(cells, Cropped(cells)))
    /\ UNCHANGED <<request, rule, manifests>>

TileWriteFails ==
    /\ work.at = "tiles" /\ work.left # {}
    /\ work' = [work EXCEPT !.at = "failed"]
    /\ UNCHANGED <<request, rule, objects, manifests>>

FinishHuc ==
    /\ work.at = "tiles" /\ work.left = {}
    /\ work' = [work EXCEPT !.at = "plan", !.current = NoPlan]
    /\ UNCHANGED <<request, rule, objects, manifests>>

\* A dry scenario keeps one blank tile; without any block there is none.
FinishScenario ==
    /\ work.at = "plan" /\ work.todo = <<>>
    /\ IF work.tiles = <<>> /\ work.dry = NoTile
       THEN /\ work' = [work EXCEPT !.at = "failed"]
            /\ UNCHANGED <<objects, manifests>>
       ELSE /\ objects' = IF work.tiles = <<>> THEN Stored(work.dry.key, {}) ELSE objects
            /\ manifests' = Append(manifests,
                 [id |-> Scenario.id, missing |-> work.missing,
                  tiles |-> IF work.tiles = <<>> THEN <<work.dry>> ELSE work.tiles])
            /\ work' = Idle
    /\ UNCHANGED <<request, rule>>

StreamInit ==
    /\ request = <<>>
    /\ rule = "pinned"
    /\ work = Idle
    /\ objects = <<>>
    /\ manifests = <<>>

StreamNext ==
    \/ StartCommand \/ StartScenario \/ PlanNextHuc \/ RunTile \/ TileWriteFails
    \/ FinishHuc \/ FinishScenario

(***************************************************************************)
(* The reference: NOAA's procedure on the whole source rasters and the     *)
(* whole hydro-table, without index, blocks, row groups or tiles.          *)
(***************************************************************************)
RefRows(h, b, hydroid, features) ==
    Kept(source[h].table, {i \in DOMAIN source[h].table :
        LET r == source[h].table[i] IN
        r.branch = b /\ r.hydroid = hydroid /\ ~r.lake /\ r.feature \in features})

RefFlood(h, reaches) ==
    LET discharges == ToSet(FirstDischarges(reaches, h))
        features == {d.feature : d \in discharges}
        flow(f) == (CHOOSE d \in discharges : d.feature = f).flow
        wet(b, cell) ==
            LET rows == RefRows(h, b, source[h].catchments[b][cell], features)
            IN rows # <<>> /\ Deep(StageForDischarge(flow(rows[1].feature), rows),
                                   source[h].rem[b][cell])
        place(b) == source[h].place[b]
    IN UNION {{<<c[1] + place(b).row, c[2] + place(b).col>> :
                 c \in {x \in CellsOf(Window(0, 0, place(b).height, place(b).width)) : wet(b, x)}} :
                b \in DOMAIN index[h].branches}

CellsOfTile(entry) ==
    {<<c[1] + entry.at.row, c[2] + entry.at.col>> : c \in objects[entry.key]}

(***************************************************************************)
(* The tiles of a manifest flood exactly the cells that the reference      *)
(* floods: nothing is lost or gained by row groups, shared HydroIDs, block *)
(* selection, tiling and cropping (run_scenario, plan_huc, prepare_huc).   *)
(* A dry scenario is one blank tile, and only a dry one has such a tile.   *)
(***************************************************************************)
FloodIsReference ==
    \A n \in DOMAIN manifests :
        LET tiles == ToSet(manifests[n].tiles)
            of(h) == {t \in tiles : t.huc = h}
        IN /\ \A h \in {r.huc : r \in ToSet(request[n].reaches)} :
                UNION {CellsOfTile(t) : t \in of(h)} = RefFlood(h, request[n].reaches)
           /\ \/ \A t \in tiles : objects[t.key] # {}
              \/ Len(manifests[n].tiles) = 1

(***************************************************************************)
(* schedule_tiles (streamFIM.py:393): every cell of every block of every   *)
(* branch is computed in exactly one part, and the part reads it from the  *)
(* place on the branch that lies under its place on the output tile.       *)
(***************************************************************************)
EveryCellOnce ==
    \A i \in DOMAIN work.current.plans :
        LET p == work.current.plans[i]
            s == work.current.schedule
            need == UNION {CellsOf(BlockWindow(p.place, index[work.current.huc].block, at)) :
                             at \in p.blocks}
            parts == {y \in UNION {{t} \X s[t] : t \in DOMAIN s} : y[2].plan = i}
        IN /\ \A cell \in need :
                Cardinality({y \in parts : cell \in CellsOf(y[2].from)}) = 1
           /\ \A y \in parts :
                /\ CellsOf(y[2].from) \subseteq need
                /\ y[2].to.row + y[1][1] * TileSize = y[2].from.row + p.place.row
                /\ y[2].to.col + y[1][2] * TileSize = y[2].from.col + p.place.col
                /\ CellsOf(y[2].to) \subseteq CellsOf(TileShape(work.current.huc, y[1]))

(***************************************************************************)
(* The reaches a manifest reports missing are those without a row outside  *)
(* lakes in any converted branch, in the order of the request: the row     *)
(* groups that were not read held none of the requested reaches.           *)
(***************************************************************************)
MissingIsExact ==
    \A n \in DOMAIN manifests :
        LET known(h, f) == \E b \in DOMAIN index[h].branches, r \in ToSet(source[h].table) :
                               r.branch = b /\ r.feature = f /\ ~r.lake
            asked(h) == FirstDischarges(request[n].reaches, h)
            absent(h) == Kept(asked(h), {i \in DOMAIN asked(h) : ~known(h, asked(h)[i].feature)})
        IN manifests[n].missing = FlattenSeq([i \in DOMAIN HucsOf(request[n]) |->
             LET h == HucsOf(request[n])[i]
             IN [k \in DOMAIN absent(h) |-> <<h, absent(h)[k].feature>>]])
=============================================================================
