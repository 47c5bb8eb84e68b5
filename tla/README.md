# Verification of fast-gdb

fast-gdb is a C++17 read-only reader of ESRI File Geodatabases (`.gdb`
directories). It maps the table files and parses them itself, and it can hand a
read to GDAL's OpenFileGDB driver when the fast path must not or cannot be used.
GDAL is also what writes: an application that updates a source through GDAL
tells the library's in-process coordinator before and after.

This directory holds TLA+ models of the library, the TLC runs that check them
on small instances, and proofs checked by TLAPS. `PROJECT.json` maps every
definition to the lines it models and lists the runs, the faults each property
is known to catch, the hazards and the findings.

Contents: 1 inventory, 2 modules, 3 runs, 4 fairness, 5 proofs, 6 findings,
7 what is not modelled, 8 plan.

## 1. Inventory

All paths are below `src/src/edgar/explorgdb/`.

| Component | State it keeps | Operations | What makes it correct |
|---|---|---|---|
| Coordinator, `adaptive/adaptive_coordination.cpp` | one process-wide registry: an entry per normalised path (pending, active, verified, generation, pending events, reader count, Writer's token id); leases and tokens in the caller's hands | `try_acquire_fast_reader`, lease move/release/abandon/safe point, `prepare_external_update`, token open/cancel/close/destroy, recovery by id | readers and Writer never overlap; counts exact; marks always owned; no lost wake-up; fail-closed recovery; generation once per Writer |
| Adaptive session, `adaptive/adaptive_session.cpp`, `adaptive_backends.cpp`, `adaptive_fast_backend.cpp`, `adaptive_gdal_backend.cpp` | the session's layer binding with its generation; a cursor's lease, backend and status | `read`, `open_cursor`, `next`, `close`, `load_adaptive_layer_binding` | "Verified" means one version; a GDAL read that met a Writer says so; a call that is over holds nothing; old bindings fail closed |
| Unified access, `unified/unified.cpp`, `routing.cpp` | dataset, frozen layer schema, cursor with lease or GDAL dataset | `Dataset::open`, `open_layer`, `open_cursor`, `next`, `read_by_fid`, `read_all` | the route a read takes is the documented one; only an open fast cursor holds a lease; schema and generation agree |
| Reader API, `reader/api/reader.cpp` | object graph, source fingerprint | `Reader::open`, `open_layer`, the reads of a Layer, `read_metadata` | what is read under an unchanged fingerprint is of one moment |
| Query engine, `reader/query/`, with its cursors in `reader/api/feature_cursor.cpp` | table parser, single-cursor control block with three generation counters; a cursor's position, lease and raw pointers | `open`, `query`, `open_cursor`, `next`, `move_to`; windows, planner, WHERE | one cursor at a time holds the engine; no cursor follows a deleted parser; early stop never loses rows; every path returns the same rows |
| Table parser, `reader/format/gdb_table*.cpp` | the mapping or window of a table, its fields and offsets; batches in the hands of other threads | `sequential_scan`, the scans of fields and geometries, dense and of candidates, `parse_records`, single reads | a row is read as it was written, by every reader alike; no scan that says how many rows it gave has lost one |
| Offsets and their cache, `gdb_tablx.cpp`, `gdb_tablx_cache.cpp` | the process-wide LRU cache: list, map, bytes | `get`, `put`, the decoding of offsets | offsets decoded exactly; map, list and count agree; entries belong to the file version of their key |
| Catalog and metadata, `gdb_catalog.cpp`, `metadata_reader.cpp` | names, index metadata that all Layers of a Reader share | `scan`, lazy loading, the joins of the system tables | parsed once; joined rows belong together |
| WHERE clauses, `reader/query/query_where_internal.cpp` | none | parse, bind, evaluate on references or on a record | both evaluators agree with the clause |
| Indexes, `reader/index/` | index pages | range and string queries, spatial ranges | every row that matches is a candidate, or the index hands the query back; termination on damaged pages |
| Geometry, `reader/geometry/` | none | peek, decode, rings and holes, predicates, WKB, WKT | a feature meets a box exactly when its shape does |
| Curve fallback, `curve_gdal/` | thread-local GDAL dataset cache | the choice of reader, `read`, `clear_thread_cache` | features that go to GDAL go by the right FID |
| GDAL driver, `gdal_driver/` | a layer's cursor, its filters and OGR's, the last error | `ResetReading`, `GetNextFeature`, filters, `GetFeature`, `GetFeatureCount`; groups | what a layer shows is what its filters let through, and an error is not the end |
| I/O shims, CLI, reference programs | - | - | only the sliding window is modelled |

How they interact: an adaptive session asks the coordinator for a lease and,
with it, builds a fresh reader object graph; without it, it answers
`SourceBusy` or opens a fresh read-only GDAL Dataset. The unified layer does the
same choice once per read and adds sources GDAL alone can read. A Writer is the
application's own code: it prepares, opens its update Dataset, reports it,
writes, closes, and reports that.

What is hard here: threads of one process meet in the registry (mutex,
condition variable, deadlines, spurious wake-ups); leases and tokens are
movable and their destructors act; a Writer may lose its token or fail to
close; a backend may fail to unmap; state is looked at in one lock region and
used after it. Below that, in one thread: files change under a Reader that
nothing keeps from being rewritten; a row does not say by which schema it was
written; several copies of one search have to guess alike; a query has many
ways to its answer, hands itself from one to the next, and may be answered by
another program altogether.

## 2. Modules

| Module | Models | Extends |
|---|---|---|
| `GdbCoordinator` | the registry, `FastReaderLease`, `ExternalUpdateToken`, `prepare_external_update` | |
| `SourceExclusion` | abstract: what readers and Writers of a source may assume | |
| `GdbCoordinatorRefinement` | the refinement mapping to `SourceExclusion` and the inductive invariant | `GdbCoordinator` |
| `ExternalWriter` | the source's files and the Writers of one source | `GdbCoordinator` |
| `GdbCoordinatorProofs` | the coordinator's theorems, and what a source's Writers and its coordinator keep true, whoever reads | `GdbCoordinatorRefinement`, `ExternalWriter` |
| `AdaptiveSession` | reader threads with their sessions, cursors and backends, beside the Writers | `ExternalWriter` |
| `AdaptiveSessionProofs` | its theorems | `AdaptiveSession`, `GdbCoordinatorProofs` |
| `UnifiedLayer` | strands of facade calls: Dataset, Layer and cursor, routes and fallbacks, beside the Writers | `ExternalWriter` |
| `UnifiedLayerProofs` | its theorems | `UnifiedLayer`, `GdbCoordinatorProofs` |
| `QueryEngine` | one engine, its queries and its cursors over one table | |
| `QueryEngineProofs` | its theorems | `QueryEngine` |
| `QueryPlanner` | how box queries, with and without a WHERE clause, find their features | |
| `QueryPlannerProofs` | its theorems, and those of `IndexedQuery` about the two indexes | `QueryPlanner`, `IndexedQuery` |
| `RowLayout` | the bytes of a row and every reader of them | |
| `TableReads` | the scans of a table through a mapping, a window and batches read ahead | `RowLayout` |
| `TableReadsProofs` | its theorems | `TableReads` |
| `TablxCache` | offsets of rows and the process-wide cache of them | |
| `MetadataReader` | what is joined of the rows of the system tables | |
| `ReaderFiles` | Readers, Layers, fingerprints and caches over files that are rewritten | `TablxCache`, `MetadataReader` |
| `ReaderFilesProofs` | the theorems of both it and `TablxCache` | `ReaderFiles` |
| `GridGeometry` | polygons from rings, and whether a geometry meets a box | |
| `CurveGeometry` | lines and rings with curves made straight | `GridGeometry` |
| `GeometryBlob` | a stored geometry: peeking and decoding | `CurveGeometry` |
| `HybridGeometry` | which features go to GDAL, by which FID | `GeometryBlob` |
| `Shapes` | reference: what it means that a shape meets a box | `GridGeometry` |
| `WhereClause` | the grammar of a clause, names, both evaluators | |
| `AttributeIndex` | the `.atx` walk, keys and comparisons | `WhereClause` |
| `SpatialIndex` | the `.spx` search by cells | |
| `IndexedQuery` | queries over rows, blobs, values and both indexes | the six above |
| `UnifiedRows` | the rows that a cursor of the facade, `read_all` and `read_by_fid` deliver | |
| `FastFileGdbDriver` | a layer of the GDAL driver plugin over such a cursor | `UnifiedRows` |
| `FastFileGdbDriverProofs` | the theorems of both | `FastFileGdbDriver` |
| `MC...` | the small instances | |

`GdbCoordinator`. One action is one region of the registry mutex. `sources[p]`
is the registry entry of path `p` (a path that was never looked up behaves as
a default entry, which is how the code creates it), `lease[l]` a
`FastReaderLease` object, `token[w]` an `ExternalUpdateToken` variable, and
`call[w]` the `prepare_external_update` call whose result will be stored there:
asleep in `wait_for`, or awake and about to evaluate its predicate. `release()`
notifies after it has unlocked, so its notification is an action of its own
(`notifying`). The condition variable belongs to the registry, so a
notification wakes the calls of every path. Timeouts are an alternative to
being woken, spurious wake-ups are allowed. `abandoned[p]` is a ghost count of
leases given up fail-closed. Calls that the code rejects change nothing.

`SourceExclusion` says of each source only: readers count up and down, a Writer
announces itself, enters when no reader is left, and leaves with a new
generation or without; `GdbCoordinatorRefinement` maps the registry to it.

`ExternalWriter`. The source's files are a version number and a torn flag (a
Writer has written and not yet closed). The Writer is the application's code,
so its actions are the call sequence that ADR-008 documents, with its failures:
the Dataset does not open, the close cannot be confirmed, the token is lost at
any time (a Pending one only before the Dataset is opened) and the close is
reported by the saved id.

`AdaptiveSession`. Each element of `Leases` is one strand of calls with its own
session on one source. A call's steps are its lock regions, its backend's file
accesses and its local ends; `session[l].at` is where it is. `seen` collects
what a call's accesses found. Results keep the fields a caller sees: status,
backend, consistency, `writer_pending_seen`, `writer_active_seen`. `mapped`
says that the fast backend has the tables mapped, `leaked` that a cursor whose
`close()` threw left its mapping behind.

`UnifiedLayer`. Each element of `Leases` is one strand: a Dataset, a Layer of
it, one cursor at a time; `handle[l].at` is the open object, or the point
inside a call where the registry or the files are next touched. `read_all`,
`read_by_fid` and `read_native_by_fid` are cursors that the call opens, steps
and destroys. The schema of the layer is a function of the source's contents:
the Writers of the versions in `Altering` change it. What a Layer froze is
`schema`, what the source's schema was when the cursor opened is the ghost
`opened_schema`. A fast error whose code is `Unsupported` goes on to GDAL after
the lease is gone, every other one is the result. Rows are only the versions
they were read from; `UnifiedRows` has them one by one. S3 routes, Groups and
the mapping of a feature's values are left out: none of them touches a lease or
decides between versions.

`QueryEngine`. One thread owns an engine; beside it runs only the caller's
other thread that may raise the flag behind `cancel_requested`, so a scan is
one step per slot and everything else one step per call. `parser` is the number
of the `open()` that made `parser_`, 0 for a null pointer: a cursor's `table`
that differs from it dangles. Each slot of the table is what the parser's
checks tell apart: `live`, `deleted` (offset 0), `beyond` (an offset past the
end), `truncated` (the file ends in the record), `bad_geometry`. `size_t` ends
at `MaxSize`, a cursor generation at `GenerationModulus`, so saturation and
wrap-around happen in the small instance. Spatial and attribute queries find
`matching` in one step; results are ascending, so `sort_fids` only decides
whether a cursor walks the table or a result. Two assumptions: a raised cancel
flag stays raised (`query()` asks in the scan and again when it classifies, so
a callback that changes its mind would get a partial result as `Ok`), and the
engine outlives its cursors. `open_generation` is bounded by `MaxOpens` and
does not wrap.

`QueryPlanner` opens up what is `matching` in `QueryEngine`, for box queries. A call goes
through the points in `at`: `bbox` (about to plan), `fused`, `dense`, `batch`,
`per_fid` (the scans, a step per row), `spatial` (the box is answered), `where`
and `canonical` (the recheck of the clause, as a scan and by single reads).
`matched` counts how often a FID is in `matched_fids`, `todo` are the rows still
to be visited, `invalid` says that `invalid_geometries` is not zero. A row is
its kind for the box of the call, and `where` the FIDs the clause accepts.
`mapped` is whether the table is mapped whole: if it is not, any read may fail,
and only then is the batch used. The order in which a batch visits rows is
physical, so any row may come next. What an index is assumed to do is in
`PlannerAssumption`: one that can be read gives at least the rows that match (what the
page walks do is in `IndexedQuery`). `spatial_index` is shared by the calls
of an engine, which is why one call may find it opened by another. Thresholds
are constants; the run gives them values that a table of three slots can meet.

`RowLayout` computes, `TableReads` has the state. A row is its bytes: a bitmap,
then the values of the fields that are not null. `Layouts` are the guesses at
the bitmap's length and the number of fields, in the order of the code,
`Winner` the one it keeps, and there is one operator for each of the copies of
the search (`SequentialRefs`, `parse_row_refs`, `locate_geometry`,
`peek_geometry_blob`, `parse_record_without_geometry`). `WrittenRow` is what
GDAL writes: it is external. Bytes have `BitsPerByte` bits and a fixed width is
one byte, so that a table of four fields has bitmaps of one and two bytes and a
varuint of two. A table of `TableReads` is its fields, the size of its file and
a slot for each FID: the offset its `.gdbtablx` gives, the size in front of the
row, its bytes, and for reference the values that were written. `op` is the scan
under way, `todo` the rows still to come, `current` the batch being filled,
`pending` those read by other threads, `ready` the one being handed over,
`window` what the sliding map shows, `emitted` and `seen` what the callback was
given, `depth` how many batches may be ahead, `result` what was returned. Reads,
views and threads may fail at any row, and the callback may stop.

`TablxCache` has the cache as the code has it, a list of keys in order of use
beside a map, with a byte count, and the decoding of four, five and six byte
offsets. `ReaderFiles` is the one module in which files change under their
readers without a coordinator. `disk` has every file's stamp, what `stat`
tells of it; at an odd stamp it is half rewritten. `pc` says where a thread is
in its call (opening, between the two looks at the key of the cache, between two
of the loads of `read_metadata`), `readers` and `layer` are the object graphs
with their fingerprints, and `SystemRows` gives the rows of a system table at each
stamp, which `MetadataReader` joins. A visit of all files is one step: a change
behind the visit is seen by the next.

`GridGeometry`, `CurveGeometry`, `GeometryBlob` and `HybridGeometry` follow a
geometry from its numbers in the file to the predicate of a query, on exact
integers; `Shapes` says from the corners alone what the predicate should be, by
another method. Geometries have even coordinates and boxes any, so that a box
may lie between vertices. A curve is sampled at one vertex which the blob
carries: which edges it replaces and when it is refused is modelled, how finely
it is drawn is not. `WhereClause` has the recursive descent over tokens, with
the precedence of the code (AND binds tighter; the comment at the top of
`query_where_internal.cpp` has them equal), the three-valued comparisons and the
two evaluators. `AttributeIndex` is a tree of pages and a chain of leaves, with
everything that makes a walk refuse; a key is cut to `KeyWidth` UTF-16 units
and padded, `NonBmp` is a code point of two units. `SpatialIndex` has cells of
several grids under keys of level, column and row. `IndexedQuery` puts them
together: a layer's rows, its two files and a request; the way a query takes is
chosen freely among those the code has, since `QueryPlanner` has the choice.

`UnifiedRows`. A source is its rows in several versions; a row is its FID, the
filters it matches, the areas it lies in and whether its geometry can be
exported and read back. An outcome of `feature_next` is a FID, `NoRow` or
`Error` with the cursor after it, so that prefetching, `read_all`,
`read_by_fid` and the driver all step the same cursor. A cursor of fast-gdb
has its answer at the opening (`left`); a cursor of GDAL looks at the source as
it is at each call, in its own order or by the FIDs it collected first. Both
backends are taken to find the same rows by one filter. The deadline and the
cancellation are looked at once in a call; the limits of `read_all` in bytes
are left out. `FastFileGdbDriver` adds OGR's filters, which are external: a
clause that OGR refuses clears its filter while the driver keeps its last
clause; a geometry it refuses leaves its filter while the driver takes the
envelope. The property claims completeness only when the two agree.

## 3. Runs

| Run | Instance | Shows |
|---|---|---|
| `coordinator` | 2 paths, 2 leases, 2 token variables, 2 Writer lifecycles, 1 abandoned lease per path; 191,179 states | exact counts, exclusion, ownership of marks, no lost wake-up, that it implements `SourceExclusion`, and that a prepare call returns: once its source is drained, by its deadline whatever readers do, without a deadline if readers release |
| `session` | 1 reader, 2 Writers, 2 lifecycles, 1 leaked mapping; 378,319 states | what results may claim; who holds what when a call is over; that a waiting Writer gets in |
| `session_stale_binding` | 1 reader, 1 Writer | finding 1 (violation) |
| `unified` | 1 strand, 2 Writers, 2 lifecycles of which the first alters the schema; 351,429 states | who holds a lease, what a fast cursor reads, that a waiting Writer gets in |
| `query_engine` | 2 cursors, 2 reopenings, 3 slots in 5 tables, 11 requests and 4 of a cursor, `size_t` up to 5, 2 usable generations; 1,686,161 states | who holds the engine, which tables cursors may follow, that cursors and results give the whole answer |
| `query_planner` | 3 slots in 8 tables, 3 coverages, indexes missing, damaged, exact or generous, reads that may fail or not: 768 sources; 168,304 states | that every way through the planner gives each matching feature once |
| `table_reads` | 4 schemas, an ordinary row followed by any that was written or by any 3 bytes, and 3 slots of 7 kinds in both physical orders; 3 kinds of access, one batch at a time or two; 194,864 states | that rows read back as written, that the five scans and single reads agree, and that no row is lost or overtaken on the way to the callback |
| `reader_files` | 2 threads, 1 Reader with its Layers, 1 of 3 commits to two files; 997,254 states | that what a fingerprint lets through is of one moment, metadata included, and that the caches stay whole |
| `reader_stale_offsets` | the same with 2 Readers | finding 2 (violation) |
| `indexed_query` | the layers of `MCIndexedQuery`: every type of geometry, curves, damaged blobs, clauses over 3 columns, damaged indexes, 12 boxes; 1,005 states, each a whole query computed | that an index leaves nothing out and that every way of a query, the one through GDAL included, comes to what shapes and values say |
| `spx_levels` | two grids in two page levels | finding 3 (violation) |
| `gdal_driver` | 3 versions of at most 4 rows with FIDs up to 5 (`MaxFid`), 5 queries, 3 clauses of which OGR refuses one, 1 filter geometry; 343,484 states | that pages are the same by both backends, that a batch is all or nothing, and that a layer of the driver shows what its filters let through |

Bounds. `MaxTokens` bounds the Writer lifecycles ever begun, `MaxAbandoned` the
leases given up per path. Two lifecycles are enough for a token, a lease, a
binding or a frozen schema of one Writer's generation to meet the next Writer
(the coordinator's safety is proved for any number of them); two leases
are enough for a count to be wrong by one while another reader is there, and
for the last release to race with a deadline. Two paths are enough for a
notification of one source to wake a call of the other. Session and unified
runs take one reader: what several readers do to the count is the coordinator's
affair and is proved for any number of them. Two cursors and two usable
generations make a generation come back while an old cursor still exists; two
openings, one of which may fail, give a cursor of an older parser. Three slots
leave room before, in and behind every window, and `MaxSize = 5` puts the sums
of the larger requests past the end of `size_t`.

The schemas of `table_reads` have bitmaps of no, one and two bytes, nullable
and required fields of every way of taking a value, and fields that were added
after the row was written; three slots of three bytes fill a batch and leave one
for the next, and two batches ahead can be taken in the wrong order. A commit
of `reader_files` changes two files that are read by different steps, which is
what a mixture takes; `MaxCalls` bounds the calls of all threads, `MaxBytes` is
what an update of the cache may pass. The geometries of `indexed_query` have
a polygon with a hole and an island, rings in either direction and in any order,
and boxes in, on, between and around them; keys of three units are cut inside
and behind the literals. Three versions give a GDAL cursor two changes to live
through; four rows leave room before, in and behind a page.

`CHECK_DEADLOCK FALSE` is set for `query_engine` only: an engine that has used
its openings, with a raised flag and no work left to ask for, is at rest.

Every property has a mutant of the model (operators marked `Fault:`), a
plausible bug in the code, under which TLC reports it violated.

## 4. Fairness

- Coordinator: a thread inside `release()` reaches its notification and a woken
  prepare call gets the mutex. `LiveSpec` is `Spec /\ LibraryFairness`, weak
  fairness that any scheduler gives. The other two assumptions are premises of
  the properties that need them. `DeadlineEndsPrepare` assumes
  `DeadlineFairness`: past its deadline every further sleep of the call times
  out, however often it is woken in between (strong fairness, since a wake-up
  disables the timeout). `ReleasesEndPrepare` assumes `ReaderFairness`: readers
  reach a safe point and give leases back, which ADR-008 asks of callers.
- `SessionLiveSpec`: a reader goes on with the call it is in and keeps calling
  `next()` on a cursor it holds; woken prepare calls get the mutex. Nobody has
  to begin a call and nothing times out. An abandoned lease keeps Writers out
  for ever by design, so `WriterGetsIn` ends in "the call returns or a mapping
  was leaked".
- `UnifiedLiveSpec`: calls end, and callers destroy their cursors. Stepping a
  cursor to its end is not enough there (finding 4).

Nothing is assumed of Writers or of anybody beginning a call. The other modules
are about results and state none: their calls are sequential code, and where
threads meet (`ReaderFiles`, `TableReads`) nobody waits for anybody but the
holder of a lock.

## 5. Proofs

`GdbCoordinatorProofs` proves, for every set of paths and Writers, every finite
set of leases and every bound, that each safety and action property of
`coordinator` holds of `Spec`, and that `Spec` implements
`SourceExclusion` (`Refinement`). Two more are proved and not in the run: a held
lease is of the current generation (`LeasesCurrent`), and an unverified source
still has its Writer active (`FailClosed`).

The inductive invariant `IndInv` (in `GdbCoordinatorRefinement`) is needed
because exclusion alone is not inductive: that no reader is left when a Writer
enters rests on the exactness of the count, which rests on where each held
lease points; that a mark has one owner rests on token ids being issued once;
that a Pending token stays granted rests on both. `ReaderCountExact` needs that
removing one lease from a finite set of holders lowers its cardinality by one,
which is why the set of leases is assumed finite.

`AdaptiveSessionProofs` and `UnifiedLayerProofs` prove the safety properties of
`session` and `unified` for any number of readers, Writers and lifecycles. Both
systems use the coordinator as its specification has it (`SessionCoordinates`,
`UnifiedCoordinates`: their specifications imply that of the registry), so what
is proved of the registry holds of them, and both stand on `WriterInv` in the
second part of `GdbCoordinatorProofs`: an open update Dataset stands on a mark of the source,
first its token's Pending one, then the Active one, which only the Writer's own
id can end; every id is one Writer's own, held by its call, its token or its
saved copy; and the files are torn only under a Dataset that has written. A
reader's own part is `SessionInv`, or `UnifiedInv`: at which stages a call holds
its lease, that whoever has the source mapped has a counted or an abandoned
lease of it, and what the accesses of a call have found since it began. With a
lease, nobody can have entered, so the version cannot have changed
(`VerifiedSnapshot`, `FastCursorSnapshot`) and no update Dataset can be open
(`UpdateExcluded`, `ReaderExclusion`). Without one, a Writer that came in
between left its trace in one of the two looks at the registry
(`WriterReported`).

`QueryEngineProofs` proves, for any cursors, tables, requests and widths, that
the lease on the engine has one holder (`LeaseSafety`) and that no cursor
follows a deleted parser (`CursorTableSafety`). The invariant `QueryInv` adds
what the two rest on: the active generation is zero or the one a Ready cursor
holds, no cursor was planned by an `open()` that has not happened, and nobody
holds the engine while a call of `query()` or `open_cursor()` is under way,
since that call leases it at its end. Generations may come round after
`GenerationModulus - 1` cursors: only one of them is ever held, so no
freshness is needed, and the proof does not use any.

`ResultExactness` and `CursorAnswersInOrder` say of the same engine that what it
publishes and what its cursors give is the answer. Their invariant `AnswerInv`
follows a request: a scan has listed the matches behind it and has not reached
its stop; what the end of a query finds is the answer or a beginning of it that
is long enough (`Found`); a cursor stands in its answer by FID or by position
(`Stands`), what is ahead of it is the end of what it owes since it was last
moved, and it has given the rest (`Gives`). `EarlyStopIsExact` carries the
arithmetic, for every width of `size_t` and every sequence of matches: a scan
that stops at `scan_stop_after()` publishes what it would have published had it
gone on. It rests on `StopIsLateEnough` (the saturating sums), and on
`ResultWindow` and `ReferenceWindow`, which say element by element what the
two-step cut of the code and the window in unbounded arithmetic are. That a set
of FIDs has one ascending list (`ListsExist`, `ListsUnique`) is shown by the
least counterexample (`LeastNumber`), since induction is out of reach.

`QueryPlannerProofs` proves, for every table, every answer its indexes may give,
every threshold and every failure of a read, that what a box query publishes is
sound (`PlannerSoundness`) and, unless it reports rows that it could not judge
or read one by one, complete (`PlannerCompleteness`). The results alone are not
inductive, since they are put together row by row: `PlanInv` says of a scan that
what it matched is wanted, is behind it and is there once, that what is wanted
is ahead of it or matched (`Progress`), and of each hand-over that the next way
starts with enough candidates (`Plan`). What is wanted changes on the way, from
the box to the clause. The assumption is that of `PlannerAssumption`, that an
index which can be read leaves no match out.

Its other parts prove of the two kinds of index what `PlannerAssumption` takes
for granted, for any rows and clauses, any number and depth of pages and any
size of the grids. `SpatialSearchIsComplete`: no row that meets a box is missing
among the candidates of an `.spx`, by columns or with the columns merged.
`AttributeSearchIsComplete`: an `.atx` that answers leaves no row out that the
clause accepts, but for the texts of `MissedByGe`. Each has one premise about
the layers, which TLC evaluates on every layer of the instance
(`MCLayersAreSound`):

- `SpatialIndexesAreSound`: an `.spx` that is called sound is a search tree
  (`IsSearchTree`) with every row's FID under every cell of its grid; keys of
  several grids stand in one level of pages. The last part is needed: without it
  the theorem is false, which is finding 3. Nothing is asked of an `.spx` that
  is called otherwise.
- `AttributeIndexesAreSound`: the trailer of an `.atx` does not count fewer
  entries than there are, and the entries, wherever in the file they are, have
  every value that is not null under its key, unless one of them has a FID that
  no row has (where something was overwritten). Clauses are tokens that end with
  "end", values are of the type of their field. Nothing is asked of the tree
  above the leaves, of the chain, of the order of the entries or of the number a
  page says it holds: the walk has to refuse what does not fit, and the theorem
  says that it does. The entry that takes the name of an index refuses nothing,
  and so for it `FilesPlainly` asks for a file that reads to its end and for
  texts that a key has room for.

The spatial proof goes from the leaves up. The binary search of a leaf gives
every place whose key lies between two keys (`find_minmax_idx`); the children of
an inner page that are visited include any with such a key below it
(`SearchFindsChild`), and so the search comes to every leaf with such an entry
(`LeafIsReached`); and the cells asked for include those of every row that meets the box, since the
cell of a coordinate grows with it. The attribute proof has three parts. The
walk: as many entries were read as the trailer counts, each from a place of its
own, so every place was read (`Slots`), whatever the chain was. The keys: texts
that were cut and padded are in the order of the texts, or are equal and then
the comparison that is asked allows it. The clause: when the parser makes one
comparison of a clause, then what the clause says as its text reads, by a
definition that cuts it at "or" and "and" outside brackets, is that comparison,
through any number of brackets around it (`ComparisonStandsAlone`,
`WrappedClauseIs`). The answer of an index belongs to the clause that was asked
at every step of the call (`AnswersStayAsked`).

`TableReadsProofs` proves, for every table, batch size and depth, and for every
failure of a read, a view or a thread, that a scan of geometries or of records
which ends and does not return 0 has delivered each row that lies in the file,
once, and returned their number (`CompleteScans`), and that reading ahead keeps
the order (`ReadAheadKeepsOrder`). Nothing is assumed of where rows lie or how
long they are, so the two hold of damaged tables too. `ScanInv` has the rows of a
scan on one line: those delivered, the batches read ahead from the front of the
queue to its back, the batch handed over, the batch being put together, the rows
to visit (`LineOK`). Each step moves a row or a batch along it. Along the line
the order of the scan holds; once a thread could not be started a batch goes
ahead of earlier ones, and only that no row is there twice is left, which is
enough for the first theorem and is why the second stops there. That candidates
have an order by offset at all is shown by the least counterexample.

Its second part is about what a row is read as, for any schema, any bytes and any
number of bits in a byte. Where a single read finds a record, scans deliver the
same (`ScansAndReadsAgree`): the layouts tried for a row are the same for every
reader but for the row number written into the references (`LayoutsAreSame`), so
the same one wins, and of a row that reads in one way only the largest geometry
is that of the winner (`PeekAgrees`). And what was written is read back
(`WrittenRowsAreReadBack`): the layout with the row's own bitmap and its own
number of fields takes up the row to its end (`ReadsWritten`); every layout
tried before it either fails on a field that was added later or reads the same;
so whichever of them is the first to leave nothing over is right
(`WrittenWins`). `ViewInv` says that what a callback was given is what its scan
makes of the row. The functions of `RowLayout` that call themselves (a varuint,
a layout, the list of layouts) are reached by two lemmas that replace induction:
`Upwards`, by the least counterexample, and `StepByStep`, by which such a
function exists. What a written row is, `IsRowOf` says by places in its bytes,
apart from the loops that read it, and `WrittenAssumption` asks it of the rows
that have written values; TLC evaluates it on the rows that `WrittenRow` puts
together. It covers values whose size takes one byte, those a row of the
instance can have, and unused bits of any value. Of rows without written values
nothing but `TablesAssumption` is asked: they are bytes, and a table has one
geometry field at most. `PowersAssumption` is a fact of arithmetic, that 2^b is
a positive number, which the provers lack.

The theorems of `TablxCache` are the first part of `ReaderFilesProofs`: after any
calls of the cache, in any order and with any limits, its list and its map have the same keys, each
once (`CacheKeysTheorem`), and the byte count is the sum over the entries
(`CacheAccountsTheorem`). Of an offset they say what each width is worth: four
and five bytes give the number that was written (`ShortOffsetsAreExact`), six lose
their fifth byte (`SixBytesLoseOne`), and a file of version 4 gives none
(`VersionFourHasNoOffsets`). The account has the premise `BytesAreNumbers`, that
what a value takes (a constant operator) is a number of bytes; it speaks of
every value, so it is a premise and not an ASSUME that TLC could evaluate. `put`
may evict any number of entries from the back; that each sum along the remaining
list is the old one less the freed bytes is again shown by the least
counterexample.

Its second part proves, for any threads, Readers, calls and commits, that a
query whose fingerprint held reads a table that was mapped at that stamp
(`ReadsFollowFingerprint`), that metadata which was accepted is of one moment
(`MetadataSnapshot`), and that the shared index metadata is parsed once
(`OneParse`). Stamps only grow, and `FilesInv` says at every point of a call
that what was read lies between the fingerprint and the files: where the two
are found equal there is nothing in between. Of what is in the cache it says
nothing: by finding 2 that may be of an older file. `ReadersUseTheCache` shows
that the Readers use the cache as `TablxCache` has it, and
`ReadersKeepTheAccount` carries its account over.

`FastFileGdbDriverProofs` proves, for any contents of the source in any number of
versions, any queries, limits, clauses, refusals and geometries, and whatever
Writers do between two calls, that a cursor of the facade gives its result
(`RowsCursorGivesResult`), that `read_all` and `read_by_fid` answer whole
(`RowsCallsAnswerWhole`), and that a layer of the driver gives the rows its
filters let through (`DriverLayerGivesFiltered`). The properties are not
inductive, since what a cursor holds matters as much as what it has given:
`CursorOK` puts the rows given, the one that was fetched for the next call and
those still to come on one line. Of fast-gdb the line is the result
(`FastReads`). Of GDAL (`GdalReads`, `InStep`) what has been dropped for the
offset, what has been given and what GDAL comes to next are the matching rows,
as long as the source is the one that was opened and no error was reported.
When it is not, three things are left, each needed by a property: that the line
ascends and keeps within the limit, that GDAL stands behind it (`Behind`), and,
of a cursor over everything, that no row is missing that was there all the time
(`Steady`). From the last follows that `read_by_fid` misses a row only if it was
not there at some time of the call. That the window in GDAL's reading, with a
skip and a count, is the window of the result is `IsResult`; that a set of FIDs
has one ascending list, and that the list of its larger elements is the list's
end, are `InOrderIs` and `InOrderRest`. A layer (`LayerReads`) is a cursor, what
it has given (`Lets`), and the features among that: those that OGR's filters
accept, which are the wanted ones (`AcceptedIs`), since the cursor's filters let
through what OGR's do as long as they agree (`WantedMatches`). What OGR refuses
is where they do not, and there the theorem has the premise of the property.
The assumptions are `RowsAssumption`, that rows lie by FID, and
`DriverAssumption`, that a row which meets a geometry meets its envelope.

TLC checks each of these properties and inductive invariants first, on the
instances above. The only assumptions are the named ones on the constants, and
`BytesAreNumbers`, `SpatialIndexesAreSound` and `AttributeIndexesAreSound` where
they are named.

Model-checked only:

- everything about liveness and fairness (`PrepareReturns` and the other
  temporal properties of `coordinator`, `WriterGetsIn`, `UnifiedWriterGetsIn`),
  out of the provers' reach, like `ENABLED`;
- `AnswerIsExact` of `IndexedQuery`: that the decoder, the topology of rings and
  the predicates come to what `Shapes` says of the corners is plane geometry over
  any number of vertices, and that the parser reads every clause as its text is
  cut (the theorem has the clauses that are one comparison) is an induction over
  clauses.

## 6. Findings

Three are runs that end in a violation; `PROJECT.json` quotes the lines in full.

1. `session_stale_binding` (`adaptive_backends.cpp:215`). The header promises
   that an old binding's GDAL path fails closed once a Writer's close has moved
   the generation. The generation is compared once and the Dataset is opened
   afterwards: a Writer that closes in between makes an Ok read of the new
   generation with the old schema.
2. `reader_stale_offsets` (`gdb_table.cpp:279`). The cache's header says that a
   changed file makes its entries invalid. The key is made a second time after
   the parse, so offsets of the old file are kept under the identity of the new
   one, and a Reader that is opened later reads rows at old offsets.
3. `spx_levels` (`gdb_spatial_index.cpp:225`). A query is documented to cover
   the several grids of a layer. On an inner page, the column alone decides
   which children are visited, and columns of a coarser grid start over: its
   features are missing from the candidates.

The following disagree with a document or a comment too. Each has a
configuration beside the runs, `tlc -config <name>.cfg <module>` shows it. TLC stops
at the first violation: of the four invariants of `UnifiedDocuments`, take one at a
time.

| Configuration | Module | The code | The text |
|---|---|---|---|
| `SessionRefusedQuery` | `MCAdaptiveSession` | a query the engine refuses, cancels or cuts off comes back Ok and Verified (`adaptive_fast_backend.cpp:157`) | ADR-008: an unsuccessful result must not pass as Verified |
| `UnifiedDocuments`, `SnapshotIsOneVersion` | `MCUnifiedLayer` | only the fast path asks the coordinator; GDAL cursors beside a Writer report `LocalSnapshot` (`unified.cpp:1484`) | `docs/gdal/03`: such reads return `SourceBusy` or report `UnverifiedConcurrentRead` |
| `UnifiedDocuments`, `ExhaustedCursorReleases` | `MCUnifiedLayer` | at the end `next()` sets a flag; Reader and lease stay until `close()` (`unified.cpp:1450`) | `docs/gdal/03`: EOF releases the Reader |
| `UnifiedDocuments`, `FastRowsMatchSchema` | `MCUnifiedLayer` | a fast cursor compares neither schema nor generation with what the Layer froze (`unified.cpp:758`) | `docs/gdal/03`: `open_cursor()` checks schema parity |
| `UnifiedDocuments`, `FallbackRowsMatchSchema` | `MCUnifiedLayer` | parity is checked on one Dataset, rows come from another that is opened later (`unified.cpp:1041`) | the same |
| `QueryTruncated` | `MCQueryEngine` | a record that the file ends in ends the scan; the rows before it are the Ok result (`gdb_table.cpp:513`) | the acceptance document: a failing path must not publish a partial result |
| `TableStaleRefs` | `MCTableReads` | a row that no layout fits is delivered with what an earlier row left in the array of references (`gdb_table.cpp:632`) | `gdb_table.h:204`: it exposes the current row |
| `SpxDamaged` | `MCIndexedQuery` | a page without keys ends the walk, and what lies behind it is missing | none: a sound index is assumed in `indexed_query` |

Met while modelling, and part of the models as the code has them:

- Rows. A zero-length row has a null ObjectId in `sequential_scan` and `fid + 1`
  everywhere else (`gdb_table.cpp:532`).
  Among layouts that leave the same number of bytes over, `peek_geometry_blob`
  may take another one than the scans (`gdb_table_peek.cpp:215`). When a later
  schema needs one more byte of bitmap, a row of the earlier one cannot be told
  from other rows. `docs/gdb/08:353` has the Writer rewrite all rows then, and so
  the instance adds fields without a byte more. A dense scan whose callback stops in the last batch
  returns 0, and a batch whose thread cannot be started is handed over early.
- Offsets. A `.gdbtablx` of version 4 gives no offsets at all
  (`gdb_tablx.cpp:85`), six-byte offsets lose a byte (`gdb_tablx.cpp:164`), the
  block bitmap is parsed and not used. An update of a cached key may take the
  cache over its limit (`gdb_tablx_cache.cpp:135`).
- Files. `Reader::open` reads the catalog before it takes the fingerprint
  (`reader.cpp:271`); a query compares the fingerprint before it reads and not
  afterwards; a failed parse of the index metadata is kept for the life of the
  Reader (`gdb_catalog.cpp:145`).
- Indexes. A `>=` on texts misses rows with a character beyond the BMP, and with
  a control character in the literal shorter texts (`MissedByGe` in
  `IndexedQuery`; `query_engine_combined.cpp:75`). A damaged `.atx` makes the
  entry that takes the name of an index return an empty Ok
  (`query_engine.cpp:426`); that entry also differs in nulls, NaN and `!=`.
  `AttributeCandidatesComplete` and `AnswerIsExact` name these cases.
- Geometry. A blob that cannot be decoded matches when the box in front of it
  lies in the query's. The hybrid reader is right when `gdal_fid_offset` is that
  of the dataset (`docs/gdb/07:33`). Each thread keeps the GDAL dataset it
  opened first for a path (`gdal_curve_backend.cpp:57`).
- GDAL cursors. With `FidAscending` a row that a Writer deletes after its FID
  was collected makes the cursor end without an error (`unified.cpp:1220`). A
  GDAL layer that the Writer dropped leaves the adaptive backend with a null
  layer (`adaptive_gdal_backend.cpp:464`). The fallback streams, though ADR-009
  has it materialise and close first.

## 7. Not modelled

- Bytes and numbers that no property is about: the header and the field
  descriptors of a table, the formatting of values, UUIDs and dates, WKB and WKT
  output, the older decoder to WKT text, the tags of the metadata's XML, pages of
  an index as bytes, the page cache of an `.spx` that is not mapped.
- Floating point: the sampling of curves and the rounding of products and
  long doubles in the predicates. Numbers are exact here.
- How the text of a clause is cut into tokens (a text may have none), UUID
  columns, which the two evaluators compare differently, and the second reading
  of the end of a curve without its M values.
- The behaviour of GDAL itself: an opened Dataset reads what the files hold at
  each access, may fail at any row, and finds the same rows by a filter as
  fast-gdb; for a shape that fast-gdb cannot decode its answer is free. FIDs
  past the slots of the fast path are left to the routes of `UnifiedLayer`.
- S3 sources and their parsing, Groups, projections, the byte limits of
  `read_all`, the native extensions beyond `read_native_by_fid`.
- Of the driver plugin its groups, the opening of a dataset, metadata and
  `GetExtent`, which is OGR's loop over `GetNextFeature` (an error in its middle
  leaves a partial extent).
- The curve fallback's cache of datasets; `read_geometry`, which makes the same
  choice as `query_bbox` and gives WKB.
- Windows shims except the sliding window, command line tools, the reference
  programs: pure I/O, or not built.

## 8. Plan

In this order, with what each would add.

1. That the parser reads every clause as its text is cut, beyond the clauses of
   one comparison; the page cache of an `.spx` that is not mapped.
2. The curve fallback's Dataset cache beside Writers; the driver's groups.
