----------------------------- MODULE UnifiedRows -----------------------------
(***************************************************************************)
(* The rows that a cursor of the unified facade delivers, read_all and     *)
(* read_by_fid, over fast-gdb and over OpenFileGDB, while Writers change   *)
(* the source (unified.cpp). UnifiedLayer has the leases and the schemas;  *)
(* here a source is its rows, and a Writer waits for fast cursors.         *)
(*                                                                         *)
(* A row has a FID, the attribute filters it matches, the areas it lies    *)
(* in, and a geometry that can be written as WKB and read again, or not.   *)
(* Both backends are taken to find the same rows by one filter. GDAL reads *)
(* the source as it is at each call and may fail at any row. The caller's  *)
(* deadline and cancellation are looked at once in a call.                 *)
(***************************************************************************)
EXTENDS Integers, FiniteSets, FiniteSetsExt, Sequences, SequencesExt

CONSTANTS
    Versions,       \* the contents of the source: sequences of rows by FID
    MaxFid,         \* bound: no row has a larger FID
    Queries,        \* the queries of the caller
    Gaps,           \* the filters with LIKE or IS NULL, which go to GDAL at once
    Unsupported,    \* those that the parser of fast-gdb refuses
    Limits,         \* ReadAllOptions::max_features
    concurrent_read \* "SourceBusy" or "GdalUnverified"

Row(fid, filters, areas, wkb) ==
    [fid |-> fid, filters |-> filters, areas |-> areas, wkb |-> wkb]

\* max_fids is max_ordered_fid_bytes / sizeof(Fid).
Query(attribute_filter, spatial_filter, offset, limit, order, max_fids, stops) ==
    [attribute_filter |-> attribute_filter, spatial_filter |-> spatial_filter,
     offset |-> offset, limit |-> limit, order |-> order, max_fids |-> max_fids,
     stops |-> stops]

\* An empty filter lets every row through.
NoFilter == ""

DefaultQuery == Query(NoFilter, NoFilter, 0, 0, "Native", 0, FALSE)

ASSUME RowsAssumption ==
    /\ MaxFid \in Nat
    /\ Len(Versions) \in Nat \ {0} /\ DOMAIN Versions = 1 .. Len(Versions)
    /\ \A v \in DOMAIN Versions :
          /\ DOMAIN Versions[v] = 1 .. Len(Versions[v])
          /\ \A i \in DOMAIN Versions[v] : Versions[v][i].fid \in 1 .. MaxFid
          /\ \A i, j \in DOMAIN Versions[v] :
                i < j => Versions[v][i].fid < Versions[v][j].fid
    /\ \A query \in Queries : query.offset \in Nat /\ query.limit \in Nat
    /\ Limits \subseteq Nat
    /\ concurrent_read \in {"SourceBusy", "GdalUnverified"}

VARIABLES
    backend,     \* LayerState::report.selected
    version,     \* which contents the source has
    writing,     \* a Writer has the source open
    stopped,     \* what cancel_requested and the deadline say
    cursor,      \* the caller's cursor
    given,       \* what it has delivered
    said,        \* "error" or "end", whichever it said first, or "none"
    call,        \* read_all or read_by_fid in progress
    answer       \* what the last call returned

rvars == <<backend, version, writing, stopped, cursor, given, said, call, answer>>

----------------------------------------------------------------------------
(* Rows and results.                                                       *)

Rows == Versions[version]
Fids(rows) == {row.fid : row \in rows}
RowsAt(v) == {Versions[v][i] : i \in DOMAIN Versions[v]}
Exists(fid, v) == fid \in Fids(RowsAt(v))

Matches(row, query) ==
    /\ query.attribute_filter = NoFilter \/ query.attribute_filter \in row.filters
    /\ query.spatial_filter = NoFilter \/ query.spatial_filter \in row.areas

MatchingFids(v, query) == Fids({row \in RowsAt(v) : Matches(row, query)})

InOrder(fids) ==
    [i \in 1 .. Cardinality(fids) |->
        CHOOSE f \in fids : Cardinality({g \in fids : g < f}) = i - 1]

Matching(v, query) == InOrder(MatchingFids(v, query))

\* offset and limit of a result; 0 is no limit.
Window(fids, query) ==
    SubSeq(fids, query.offset + 1,
           IF query.limit = 0 THEN Len(fids)
           ELSE Min({Len(fids), query.offset + query.limit}))

Result(v, query) == Window(Matching(v, query), query)

----------------------------------------------------------------------------
(* Cursors. An outcome is what a call returned, a FID, no row or an error, *)
(* and the cursor after it.                                                *)

NoRow == 0
Error == -1
Outcome(c, returned) == [cursor |-> c, returned |-> returned]
Stopped(query) == query.stops /\ stopped

\* `opened` is a ghost: the contents when the cursor was opened.
CursorState(by, query) ==
    [backend |-> by, query |-> query, opened |-> version, closed |-> FALSE,
     prefetched |-> NoRow,
     left |-> <<>>, failed |-> FALSE,    \* the cursor of the query engine
     after |-> 0,                        \* the row that GDAL came to last
     ordered_fids |-> <<>>, ordered_index |-> 1,
     remaining_skip |-> query.offset, remaining_limit |-> query.limit]

NoCursor == [backend |-> "None"]

\* What GDAL comes to: in its own iteration the rows there are now, or the FIDs
\* that were collected before, whose rows may be gone.
Ahead(c) ==
    IF c.ordered_fids = <<>>
    THEN InOrder({f \in MatchingFids(version, c.query) : f > c.after})
    ELSE SubSeq(c.ordered_fids, c.ordered_index, Len(c.ordered_fids))

\* The cursor after n of them.
Passed(c, n) ==
    CASE n = 0 -> c
      [] n > 0 /\ c.ordered_fids = <<>> -> [c EXCEPT !.after = Ahead(c)[n]]
      [] OTHER -> [c EXCEPT !.ordered_index = @ + n]

next_gdal_source(c) ==
    IF Ahead(c) = <<>>
    THEN {Outcome(c, NoRow)} \union (IF c.ordered_fids = <<>> THEN {Outcome(c, Error)} ELSE {})
    ELSE {Outcome(Passed(c, 1), IF Exists(Ahead(c)[1], version) THEN Ahead(c)[1] ELSE NoRow),
          Outcome(Passed(c, 1), Error)}

\* A geometry that cannot be exported is an error.
map_gdal_feature(o) ==
    IF \E row \in RowsAt(version) : row.fid = o.returned /\ row.wkb = "none"
    THEN Outcome(o.cursor, Error) ELSE o

\* Fault: a cursor that has used up its limit goes on.
next_mapped_unlimited(c) == {map_gdal_feature(o) : o \in next_gdal_source(c)}

\* A row that was read counts against the limit, also one that cannot be mapped.
next_mapped(c) ==
    IF c.query.limit > 0 /\ c.remaining_limit = 0 THEN {Outcome(c, NoRow)}
    ELSE {IF o.returned \in {NoRow, Error} THEN o
          ELSE map_gdal_feature(
                 IF c.query.limit = 0 THEN o
                 ELSE [o EXCEPT !.cursor.remaining_limit = @ - 1]) :
            o \in next_gdal_source(c)}

\* The rows of the offset are read and dropped first, up to one that is not
\* there or cannot be read.
Skips(c) ==
    {n \in 0 .. c.remaining_skip :
        n <= Len(Ahead(c)) /\ \A i \in 1 .. n : Exists(Ahead(c)[i], version)}
Skipped(c, n) == [Passed(c, n) EXCEPT !.remaining_skip = @ - n]

next_gdal(c) ==
    IF Stopped(c.query) THEN {Outcome(c, Error)}
    ELSE UNION {IF n = c.remaining_skip THEN next_mapped(Skipped(c, n))
                ELSE {o \in next_gdal_source(Skipped(c, n)) : o.returned \in {NoRow, Error}} :
                  n \in Skips(c)}

\* FeatureCursor::next
feature_next(c) ==
    IF c.closed THEN {Outcome(c, NoRow)}
    ELSE IF Stopped(c.query) THEN {Outcome([c EXCEPT !.closed = TRUE], Error)}
    ELSE IF c.prefetched # NoRow
    THEN {Outcome([c EXCEPT !.prefetched = NoRow], c.prefetched)}
    ELSE IF c.backend = "GdalOpenFileGDB"
    THEN {IF o.returned = NoRow THEN Outcome([o.cursor EXCEPT !.closed = TRUE], NoRow)
          ELSE o : o \in next_gdal(c)}
    ELSE IF c.failed THEN {Outcome(c, Error)}
    ELSE IF c.left = <<>> THEN {Outcome([c EXCEPT !.closed = TRUE], NoRow)}
    ELSE {Outcome([c EXCEPT !.left = Tail(@)], Head(c.left)),
          Outcome([c EXCEPT !.failed = TRUE], Error)}

----------------------------------------------------------------------------
(* Opening. What cannot be opened is NoCursor.                             *)

\* The engine answers the request, as QueryEngine has it; one row of the
\* answer is fetched at once.
open_fast_cursor(query) ==
    LET found == Result(version, query)
    IN  {NoCursor} \union
        (IF \/ Stopped(query)
            \/ query.order = "FidAscending" /\ Len(Rows) > query.max_fids
         THEN {}
         ELSE {[CursorState("FastGdb", query) EXCEPT
                  !.prefetched = IF found = <<>> THEN NoRow ELSE Head(found),
                  !.left = IF found = <<>> THEN <<>> ELSE Tail(found)]})

\* GDAL in its own order; or all FIDs first, within the budget, and then a
\* row at a time. One row is fetched at once.
open_gdal_cursor(query) ==
    LET fids == Matching(version, query)
        fresh == CursorState("GdalOpenFileGDB", query)
        collected == [fresh EXCEPT !.ordered_fids = fids, !.after = MaxFid]
        Prefetched(c) == {[o.cursor EXCEPT !.prefetched = o.returned] :
                            o \in {p \in next_gdal(c) : p.returned # Error}}
    IN  {NoCursor} \union
        (CASE query.order = "Native" -> Prefetched(fresh)
           [] query.order = "FidAscending" /\ Len(fids) <= query.max_fids ->
                Prefetched(collected)
           [] OTHER -> {})

\* Layer::open_cursor of a layer opened with Auto. GDAL takes over for a gap
\* that is known, for a source that is being written if the caller allows it,
\* and for a filter that the engine turns out not to support.
open_cursor(query) ==
    IF query.order = "FidAscending" /\ query.max_fids = 0 THEN {NoCursor}
    ELSE IF backend = "GdalOpenFileGDB" \/ query.attribute_filter \in Gaps
    THEN open_gdal_cursor(query)
    ELSE IF writing
    THEN IF concurrent_read = "GdalUnverified" THEN open_gdal_cursor(query) ELSE {NoCursor}
    ELSE IF query.attribute_filter \in Unsupported
    THEN IF query.order = "FidAscending" /\ Len(Rows) > query.max_fids
         THEN {NoCursor} ELSE open_gdal_cursor(query)
    ELSE open_fast_cursor(query)

----------------------------------------------------------------------------
(* The caller, one call at a time.                                         *)

NoCall == [kind |-> "none"]
NoAnswer == [kind |-> "none"]
Idle == call = NoCall

RowsInit ==
    /\ backend \in {"FastGdb", "GdalOpenFileGDB"}
    /\ version = 1 /\ writing = FALSE /\ stopped = FALSE
    /\ cursor = NoCursor /\ given = <<>> /\ said = "none"
    /\ call = NoCall /\ answer = NoAnswer

OpenCursor(query) ==
    /\ Idle /\ cursor = NoCursor
    /\ cursor' \in open_cursor(query)
    /\ given' = <<>> /\ said' = "none" /\ answer' = NoAnswer
    /\ UNCHANGED <<backend, version, writing, stopped, call>>

CursorNext ==
    /\ Idle /\ cursor # NoCursor
    /\ \E o \in feature_next(cursor) :
          /\ cursor' = o.cursor
          /\ given' = IF o.returned \in {NoRow, Error} THEN given
                      ELSE Append(given, o.returned)
          /\ said' = CASE said # "none" -> said
                       [] said = "none" /\ o.returned = Error -> "error"
                       [] said = "none" /\ o.returned = NoRow -> "end"
                       [] OTHER -> "none"
    /\ UNCHANGED <<backend, version, writing, stopped, call, answer>>

CursorClose ==
    /\ Idle /\ cursor # NoCursor
    /\ cursor' = NoCursor /\ given' = <<>> /\ said' = "none"
    /\ UNCHANGED <<backend, version, writing, stopped, call, answer>>

\* The deadline passes, or the caller asks its queries to stop.
Stop ==
    /\ ~stopped /\ stopped' = TRUE
    /\ UNCHANGED <<backend, version, writing, cursor, given, said, call, answer>>

\* A call and its answer; `began` and `ended` are ghosts.
Call(kind, query, max) ==
    [kind |-> kind, query |-> query, max |-> max, began |-> version]

Begins(c, started, fid) ==
    /\ call' = [kind |-> c.kind, query |-> c.query, max |-> c.max, began |-> version,
                cursor |-> started, fid |-> fid, batch |-> <<>>]
    /\ answer' = NoAnswer
    /\ UNCHANGED <<backend, version, writing, stopped, cursor, given, said>>

Answers(c, status, fids) ==
    /\ call' = NoCall
    /\ answer' = [kind |-> c.kind, query |-> c.query, max |-> c.max,
                  status |-> status, fids |-> fids, began |-> c.began, ended |-> version]
    /\ UNCHANGED <<backend, version, writing, stopped, cursor, given, said>>

Goes(c, batch) ==
    /\ call' = [call EXCEPT !.cursor = c, !.batch = batch]
    /\ UNCHANGED <<backend, version, writing, stopped, cursor, given, said, answer>>

\* read_all puts a batch together and publishes all of it or nothing. Its
\* limits in bytes are left out.
ReadAll(query, max) ==
    /\ Idle /\ cursor = NoCursor
    /\ \E c \in open_cursor(query) \ {NoCursor} : Begins(Call("read_all", query, max), c, 0)

\* Fault: the limit is looked at before the row, not with it.
ReadAllNextLate ==
    /\ call.kind = "read_all"
    /\ \E o \in feature_next(call.cursor) :
          CASE o.returned = Error -> Answers(call, "error", <<>>)
            [] o.returned = NoRow -> Answers(call, "ok", call.batch)
            [] o.returned \notin {NoRow, Error} /\ Len(call.batch) > call.max -> Answers(call, "limit", <<>>)
            [] OTHER -> Goes(o.cursor, Append(call.batch, o.returned))

ReadAllNext ==
    /\ call.kind = "read_all"
    /\ \E o \in feature_next(call.cursor) :
          CASE o.returned = Error -> Answers(call, "error", <<>>)
            [] o.returned = NoRow -> Answers(call, "ok", call.batch)
            [] o.returned \notin {NoRow, Error} /\ Len(call.batch) >= call.max -> Answers(call, "limit", <<>>)
            [] OTHER -> Goes(o.cursor, Append(call.batch, o.returned))

\* GDAL looks a FID up; fast-gdb goes through all rows until it is there or
\* has been passed.
ByGdal(fid) ==
    /\ Idle /\ backend = "GdalOpenFileGDB"
    /\ \E status \in {IF Exists(fid, version) THEN "ok" ELSE "missing", "error"} :
          Answers(Call("read_by_fid", DefaultQuery, 0), status, <<fid>>)

ReadByFid(fid) ==
    /\ Idle /\ backend = "FastGdb"
    /\ \E c \in open_cursor(DefaultQuery) \ {NoCursor} : Begins(Call("read_by_fid", DefaultQuery, 0), c, fid)

ReadByFidNext ==
    /\ call.kind = "read_by_fid"
    /\ \E o \in feature_next(call.cursor) :
          CASE o.returned = Error -> Answers(call, "error", <<call.fid>>)
            [] o.returned = NoRow \/ o.returned > call.fid -> Answers(call, "missing", <<call.fid>>)
            [] o.returned = call.fid -> Answers(call, "ok", <<call.fid>>)
            [] OTHER -> Goes(o.cursor, <<>>)

CallStep == ReadAllNext \/ ReadByFidNext

----------------------------------------------------------------------------
(* Writers, as GdbCoordinator lets them.                                   *)

FastReaders ==
    {c \in {cursor} \union (IF Idle THEN {} ELSE {call.cursor}) : c.backend = "FastGdb"}

WriterBegins ==
    /\ ~writing /\ FastReaders = {} /\ version < Len(Versions)
    /\ writing' = TRUE
    /\ UNCHANGED <<backend, version, stopped, cursor, given, said, call, answer>>

\* The contents change before the Writer has closed the source.
WriterChanges ==
    /\ writing /\ version < Len(Versions)
    /\ version' = version + 1
    /\ UNCHANGED <<backend, writing, stopped, cursor, given, said, call, answer>>

WriterEnds ==
    /\ writing /\ writing' = FALSE
    /\ UNCHANGED <<backend, version, stopped, cursor, given, said, call, answer>>

WriterStep == WriterBegins \/ WriterChanges \/ WriterEnds

SomeFids == 1 .. MaxFid + 1

CallerStep ==
    \/ \E query \in Queries : OpenCursor(query)
    \/ CursorNext \/ CursorClose \/ Stop
    \/ \E query \in Queries, max \in Limits : ReadAll(query, max)
    \/ \E fid \in SomeFids : ByGdal(fid) \/ ReadByFid(fid)

RowsNext == CallerStep \/ CallStep \/ WriterStep

RowsSpec == RowsInit /\ [][RowsNext]_rvars

----------------------------------------------------------------------------
(* What callers can rely on.                                               *)

Ascending(fids) == \A i, j \in DOMAIN fids : i < j => fids[i] < fids[j]

\* A cursor gives its result in order, no row twice and none beyond the limit,
\* by either backend and whatever happens to the source. While the source is
\* not changed it gives the rows of the result and no other, none is left out
\* unless it has reported an error, and when it is at its end it has given
\* them all: the window of FIDs is the same by GDAL and by fast-gdb.
CursorGivesResult ==
    cursor # NoCursor =>
      LET result == Result(cursor.opened, cursor.query)
      IN  /\ Ascending(given)
          /\ cursor.query.limit > 0 => Len(given) <= cursor.query.limit
          /\ cursor.opened = version =>
                /\ said = "none" => IsPrefix(given, result)
                /\ said = "end" => given = result
                /\ said = "error" =>
                      \A i \in DOMAIN given : given[i] \in MatchingFids(version, cursor.query)

\* read_all publishes all of the result within its limit or nothing, and
\* refuses a result only for being too long. read_by_fid finds the rows there
\* are, and misses one only if it was not there at some time of the call, even
\* when GDAL reads on behind a Writer.
CallsAnswerWhole ==
    /\ answer.kind = "read_all" =>
          LET result == Result(answer.began, answer.query)
          IN  /\ Len(answer.fids) <= answer.max
              /\ answer.began = answer.ended =>
                    /\ answer.status = "ok" => answer.fids = result
                    /\ answer.status = "limit" => Len(result) > answer.max
    /\ answer.kind = "read_by_fid" =>
          LET fid == answer.fids[1]
              during == answer.began .. answer.ended
          IN  /\ answer.status = "ok" => \E v \in during : Exists(fid, v)
              /\ answer.status = "missing" => \E v \in during : ~Exists(fid, v)
=============================================================================
