---------------------------- MODULE QueryEngine ----------------------------
(***************************************************************************)
(* The QueryEngine of the native reader and the FeatureCursors it hands    *)
(* out: reader/query/query_engine.cpp, reader/api/feature_cursor.cpp and   *)
(* the scan they share, GdbTableParser::sequential_scan.                   *)
(*                                                                         *)
(* An engine belongs to one thread; what runs beside it is the caller's    *)
(* cancel flag, which another thread may raise between two rows of a scan. *)
(* The table is a slot per FID; what a slot holds decides which of the     *)
(* parser's checks it passes. How a spatial or an attribute query finds    *)
(* its FIDs is not described here: it finds `matching`.                    *)
(***************************************************************************)
EXTENDS Integers, Sequences, FiniteSets, SequencesExt

CONSTANTS
    Cursors,            \* the FeatureCursor objects of the caller
    MaxFid,             \* feature_count() - 1
    Tables,             \* the contents of .gdbtablx and .gdbtable to look at
    Requests,           \* the QueryRequests the caller makes of query(),
    CursorRequests,     \* and of open_cursor()
    MaxSize,            \* the largest size_t
    GenerationModulus,  \* the number of values of a cursor generation
    MaxOpens            \* bound on calls of open()

Fids == 0..MaxFid

\* deleted: offset 0; beyond: an offset past the end of the file; truncated:
\* the file ends inside the record; bad_geometry: the record can be read, the
\* feature cannot.
RowKinds == {"live", "deleted", "bad_geometry", "truncated", "beyond"}

Statuses == {"Ok", "InvalidRequest", "EngineNotOpen", "CursorActive",
             "Unsupported", "Cancelled", "ResultLimitExceeded"}

\* `input` says what is wrong with a request: a projection out of range; a
\* malformed clause, box or kind; an unavailable index or geometry field. A
\* read by FID and a scan use none of these but the projection.
RequestType ==
    {r \in [kind: {"ReadByFid", "SequentialScan", "WhereClause", "SpatialBbox",
                   "Attribute"},
            fid: Fids,
            input: {"good", "bad_projection", "malformed", "unavailable"},
            offset: 0..MaxSize, limit: 0..MaxSize,
            max_result_features: 0..MaxSize,
            sort_fids: BOOLEAN, cancellable: BOOLEAN] :
        r.kind \in {"ReadByFid", "SequentialScan"} =>
            r.input \in {"good", "bad_projection"}}

ASSUME QueryAssumption ==
    /\ MaxFid \in Nat /\ MaxSize \in Nat /\ MaxOpens \in Nat
    /\ "query" \notin Cursors
    /\ GenerationModulus \in Nat /\ GenerationModulus > 1
    /\ Tables \subseteq [Fids -> RowKinds]
    /\ Requests \subseteq RequestType
    /\ CursorRequests \subseteq RequestType

VARIABLES
    rows, matching,            \* the table, and the FIDs a filter accepts
    cancelled,                 \* what cancel_requested() answers
    open_generation,           \* CursorControl, three counters
    next_cursor_generation,
    active_cursor_generation,
    parser,                    \* parser_: 0, or the open() that made it
    cursor,                    \* the FeatureCursors
    call,                      \* the query() or open_cursor() under way
    result                     \* the QueryResult just returned, or NoResult

table == <<rows, matching>>
control == <<open_generation, next_cursor_generation, active_cursor_generation>>
vars == <<rows, matching, cancelled, open_generation, next_cursor_generation,
          active_cursor_generation, parser, cursor, call, result>>

Present == {f \in Fids : rows[f] # "deleted"}          \* has_feature
Whole == \A f \in Fids : rows[f] \notin {"truncated", "beyond"}

\* The FIDs of S, ascending and each once.
InOrder(S) ==
    CHOOSE s \in [1 .. Cardinality(S) -> S] :
        /\ \A i, j \in DOMAIN s : i < j => s[i] < s[j]
        /\ {s[i] : i \in DOMAIN s} = S

\* Of an ascending sequence, what is not below f.
From(s, f) ==
    LET first == CHOOSE i \in 1 .. Len(s) + 1 :
                    \A j \in DOMAIN s : j < i <=> s[j] < f
    IN  SubSeq(s, first, Len(s))

NoResult == [status |-> "none"]

NoCursor == [state |-> "none", generation |-> 0]

NoCall == [at |-> "idle"]
-----------------------------------------------------------------------------
(***************************************************************************)
(* What a request asks for, whatever path answers it.                      *)
(***************************************************************************)
Answer(r) ==
    CASE r.kind = "ReadByFid" ->
            InOrder({f \in {r.fid} : rows[f] \in {"live", "bad_geometry"}})
      [] r.kind = "SequentialScan" -> InOrder(Present)
      [] OTHER -> InOrder(matching)

\* OFFSET and LIMIT over an answer, in unbounded arithmetic.
Window(s, r) ==
    SubSeq(s, r.offset + 1,
           IF r.limit = 0 \/ r.offset + r.limit > Len(s)
           THEN Len(s) ELSE r.offset + r.limit)

WindowExceeds(r) ==
    r.max_result_features # 0 /\ Len(Window(Answer(r), r)) > r.max_result_features
-----------------------------------------------------------------------------
(***************************************************************************)
(* The arithmetic of the result window, in size_t.                         *)
(***************************************************************************)
\* Fault: the sum wraps around like any size_t.
wrapping_add(lhs, rhs) == (lhs + rhs) % (MaxSize + 1)

saturated_add(lhs, rhs) == IF lhs > MaxSize - rhs THEN MaxSize ELSE lhs + rhs

\* The number of matches after which a scan may stop; 0 when it must not.
scan_stop_after(r) ==
    LET by_limit  == IF r.limit = 0 THEN MaxSize
                     ELSE saturated_add(r.offset, r.limit)
        by_budget == IF r.max_result_features = 0 THEN MaxSize
                     ELSE saturated_add(
                            saturated_add(r.offset, r.max_result_features), 1)
        stop      == IF by_budget < by_limit THEN by_budget ELSE by_limit
    IN  IF stop = MaxSize THEN 0 ELSE stop

apply_result_window(s, r) ==
    LET rest == IF r.offset >= Len(s) THEN << >>
                ELSE SubSeq(s, r.offset + 1, Len(s))
    IN  IF r.limit # 0 /\ Len(rest) > r.limit
        THEN SubSeq(rest, 1, r.limit) ELSE rest

\* Missing attribute indexes stay Ok, with a fallback reason.
classify_query_status(r) ==
    CASE r.input = "malformed" -> "InvalidRequest"
      [] r.input = "unavailable" /\ r.kind = "SpatialBbox" -> "Unsupported"
      [] OTHER -> "Ok"

apply_request_options(s, r) ==
    LET window == apply_result_window(s, r)
        status == IF r.cancellable /\ cancelled THEN "Cancelled"
                  ELSE IF r.max_result_features # 0
                          /\ Len(window) > r.max_result_features
                       THEN "ResultLimitExceeded"
                       ELSE classify_query_status(r)
    IN  [status |-> status, request |-> r,
         fallback |-> r.input # "good" \/ (r.kind = "ReadByFid" /\ s = << >>),
         matched_fids |-> IF status = "Ok" THEN window ELSE << >>]
-----------------------------------------------------------------------------
(***************************************************************************)
(* The lease on the engine.                                                *)
(***************************************************************************)
feature_cursor_active == active_cursor_generation # 0

NextGeneration ==
    LET n == (next_cursor_generation + 1) % GenerationModulus
    IN  IF n = 0 THEN 1 ELSE n

register_feature_cursor ==
    /\ next_cursor_generation' = NextGeneration
    /\ active_cursor_generation' = NextGeneration
    /\ UNCHANGED open_generation

\* Fault: any cursor that goes frees the lease.
release_any_cursor(g) ==
    /\ active_cursor_generation' = 0
    /\ UNCHANGED <<open_generation, next_cursor_generation>>

\* Only the holder of the current generation gives the lease back.
release_feature_cursor(g) ==
    /\ active_cursor_generation' =
           IF g # 0 /\ active_cursor_generation = g
           THEN 0 ELSE active_cursor_generation
    /\ UNCHANGED <<open_generation, next_cursor_generation>>

engine_is_current(c) == cursor[c].planned = open_generation

Release(c) == release_feature_cursor(cursor[c].generation)

Refused(status) == [status |-> status, fallback |-> TRUE, matched_fids |-> << >>]

\* Fault: a walk over the table starts behind its position.
UpcomingSkips(c) ==
    LET k == cursor[c]
    IN  IF k.mode = "Sequential"
        THEN {f \in Present : f > k.position /\ f < k.feature_limit}
        ELSE {k.fids[i] : i \in k.position + 1 .. Len(k.fids)}

\* What next() reads next: the position in the FIDs of the result, or the
\* first slot from next_sequential_fid on that holds a feature.
Upcoming(c) ==
    LET k == cursor[c]
    IN  IF k.mode = "Sequential"
        THEN {f \in Present : f >= k.position /\ f < k.feature_limit}
        ELSE {k.fids[i] : i \in k.position + 1 .. Len(k.fids)}

Least(S) == CHOOSE x \in S : \A y \in S : x <= y

\* The new cursor over the result of a call; `answer`, `anchor` and `yielded`
\* only serve the properties: what it stands for, the FID it was last moved
\* to, and what it has given since.
NewCursor(mode, fids, feature_limit, answer, cancellable, generation) ==
    [state |-> IF generation = 0 THEN "Exhausted" ELSE "Ready",
     mode |-> mode, generation |-> generation, planned |-> open_generation,
     table |-> parser, fids |-> fids, position |-> 0,
     feature_limit |-> feature_limit, cancellable |-> cancellable,
     answer |-> answer, anchor |-> 0, yielded |-> << >>]

\* Nothing of a failed cursor is looked at again.
FailedCursor ==
    [state |-> "Failed", mode |-> "CandidateFids", generation |-> 0,
     planned |-> 0, table |-> 0, fids |-> << >>, position |-> 0,
     feature_limit |-> 0, cancellable |-> FALSE,
     answer |-> << >>, anchor |-> 0, yielded |-> << >>]
-----------------------------------------------------------------------------
Init ==
    /\ rows \in Tables
    /\ matching \in SUBSET Present
    /\ cancelled = FALSE
    /\ open_generation = 0 /\ next_cursor_generation = 0
    /\ active_cursor_generation = 0 /\ parser = 0
    /\ cursor = [c \in Cursors |-> NoCursor]
    /\ call = NoCall /\ result = NoResult

\* Another thread raises the flag that cancel_requested() reads; nobody
\* lowers it again.
Cancel ==
    /\ ~cancelled
    /\ cancelled' = TRUE
    /\ UNCHANGED <<table, control, parser, cursor, call, result>>

\* Fault: only a reopening that works starts a new generation.
OpenCountsSuccess ==
    /\ call.at = "idle" /\ ~feature_cursor_active
    /\ open_generation < MaxOpens
    /\ \/ open_generation' = open_generation + 1 /\ parser' = open_generation + 1
       \/ open_generation' = open_generation /\ parser' = 0
    /\ result' = NoResult
    /\ UNCHANGED <<table, cancelled, next_cursor_generation,
                   active_cursor_generation, cursor, call>>

\* open(): whatever becomes of it, the generation moves on and the old parser
\* is gone. The two outcomes are a table that opens and one that does not.
Open ==
    /\ call.at = "idle" /\ ~feature_cursor_active
    /\ open_generation < MaxOpens
    /\ open_generation' = open_generation + 1
    /\ parser' \in {0, open_generation + 1}
    /\ result' = NoResult
    /\ UNCHANGED <<table, cancelled, next_cursor_generation,
                   active_cursor_generation, cursor, call>>

\* query() refuses without looking at the table.
QueryRefused(r) ==
    /\ call.at = "idle"
    /\ \/ /\ feature_cursor_active
          /\ result' = Refused("CursorActive")
       \/ /\ ~feature_cursor_active /\ parser = 0
          /\ result' = Refused("EngineNotOpen")
       \/ /\ ~feature_cursor_active /\ parser # 0
          /\ r.input = "bad_projection"
          /\ result' = Refused("InvalidRequest")
    /\ UNCHANGED <<table, cancelled, control, parser, cursor, call>>

Scans(r) ==
    r.kind = "SequentialScan" \/ (r.kind = "WhereClause" /\ r.input = "good")

\* query() picks a path: a scan goes on row by row, the others find their
\* FIDs at once.
StartCall(owner, r) ==
    call' = [at |-> IF Scans(r) THEN "scan" ELSE "finish", owner |-> owner,
             request |-> r, fid |-> 0,
             matched_fids |-> IF Scans(r) \/ r.input # "good"
                              THEN << >> ELSE Answer(r)]

Query(r) ==
    /\ call.at = "idle" /\ ~feature_cursor_active /\ parser # 0
    /\ r.input # "bad_projection"
    /\ StartCall("query", r)
    /\ result' = NoResult
    /\ UNCHANGED <<table, cancelled, control, parser, cursor>>

\* One slot of sequential_scan(): an empty one and one past the end of the
\* file are passed over, a record that the file ends in ends the scan.
ScanRow ==
    /\ call.at = "scan"
    /\ LET r    == call.request
           f    == call.fid
           hit  == r.kind = "SequentialScan" \/ f \in matching
           more == IF hit THEN Append(call.matched_fids, f)
                   ELSE call.matched_fids
           stop == \/ r.cancellable /\ cancelled
                   \/ scan_stop_after(r) # 0 /\ Len(more) >= scan_stop_after(r)
           last == f = MaxFid
       IN  call' =
             CASE rows[f] = "truncated" -> [call EXCEPT !.at = "finish"]
               [] rows[f] \in {"deleted", "beyond"} ->
                    IF last THEN [call EXCEPT !.at = "finish"]
                    ELSE [call EXCEPT !.fid = f + 1]
               [] OTHER ->
                    IF stop \/ last
                    THEN [call EXCEPT !.at = "finish", !.matched_fids = more]
                    ELSE [call EXCEPT !.fid = f + 1, !.matched_fids = more]
    /\ UNCHANGED <<table, cancelled, control, parser, cursor, result>>

\* The end of query(): classify, apply the window and the limits.
FinishQuery ==
    /\ call.at = "finish" /\ call.owner = "query"
    /\ result' = apply_request_options(call.matched_fids, call.request)
    /\ call' = NoCall
    /\ UNCHANGED <<table, cancelled, control, parser, cursor>>

\* A sequential request without options is not materialized.
Materialized(r) ==
    \/ r.kind # "SequentialScan" \/ r.offset # 0 \/ r.limit # 0
    \/ r.max_result_features # 0 \/ r.sort_fids \/ r.cancellable
    \/ r.input = "bad_projection"

\* open_cursor() gives a Failed cursor.
OpenCursorFails(c, r) ==
    /\ call.at = "idle" /\ cursor[c].state = "none"
    /\ \/ parser = 0
       \/ parser # 0 /\ feature_cursor_active
       \/ parser # 0 /\ ~feature_cursor_active /\ r.input = "bad_projection"
    /\ cursor' = [cursor EXCEPT ![c] = FailedCursor]
    /\ result' = NoResult
    /\ UNCHANGED <<table, cancelled, control, parser, call>>

\* open_cursor() of a cursor that walks the table itself; an empty table
\* gives an exhausted one, without a lease.
OpenSequentialCursor(c, r) ==
    /\ call.at = "idle" /\ cursor[c].state = "none"
    /\ parser # 0 /\ ~feature_cursor_active /\ ~Materialized(r)
    /\ IF Present = {}
       THEN /\ cursor' = [cursor EXCEPT ![c] =
                             NewCursor("Sequential", << >>, 0, << >>, FALSE, 0)]
            /\ UNCHANGED control
       ELSE /\ register_feature_cursor
            /\ cursor' = [cursor EXCEPT ![c] =
                   NewCursor("Sequential", << >>, MaxFid + 1, Answer(r), FALSE,
                             NextGeneration)]
    /\ result' = NoResult
    /\ UNCHANGED <<table, cancelled, parser, call>>

\* open_cursor() of any other cursor runs the query first.
OpenCursor(c, r) ==
    /\ call.at = "idle" /\ cursor[c].state = "none"
    /\ parser # 0 /\ ~feature_cursor_active
    /\ Materialized(r) /\ r.input # "bad_projection"
    /\ StartCall(c, r)
    /\ result' = NoResult
    /\ UNCHANGED <<table, cancelled, control, parser, cursor>>

FinishCursor(c) ==
    /\ call.at = "finish" /\ call.owner = c
    /\ LET r    == call.request
           done == apply_request_options(call.matched_fids, r)
           New(cancellable, generation) ==
               NewCursor("CandidateFids", done.matched_fids, 0,
                         IF r.input = "good" THEN Window(Answer(r), r) ELSE << >>,
                         cancellable, generation)
       IN  \/ /\ done.status # "Ok"
              /\ cursor' = [cursor EXCEPT ![c] = FailedCursor]
              /\ UNCHANGED control
           \/ /\ done.status = "Ok" /\ done.matched_fids = << >>
              /\ cursor' = [cursor EXCEPT ![c] = New(FALSE, 0)]
              /\ UNCHANGED control
           \/ /\ done.status = "Ok" /\ done.matched_fids # << >>
              /\ register_feature_cursor
              /\ cursor' = [cursor EXCEPT ![c] =
                               New(r.cancellable, NextGeneration)]
    /\ call' = NoCall
    /\ UNCHANGED <<table, cancelled, parser, result>>
-----------------------------------------------------------------------------
(***************************************************************************)
(* FeatureCursor::next and move_to.                                        *)
(***************************************************************************)
CanStep(c) == call.at = "idle" /\ cursor[c].state = "Ready"

Fail(c) ==
    /\ cursor' = [cursor EXCEPT ![c] = FailedCursor]
    /\ Release(c)

NextStops(c) ==
    /\ CanStep(c)
    /\ ~engine_is_current(c) \/ (cursor[c].cancellable /\ cancelled)
    /\ Fail(c)
    /\ result' = NoResult
    /\ UNCHANGED <<table, cancelled, parser, call>>

NextReads(c) ==
    /\ CanStep(c) /\ engine_is_current(c)
    /\ ~(cursor[c].cancellable /\ cancelled)
    /\ Upcoming(c) # {}
    /\ LET f == Least(Upcoming(c))
           k == cursor[c]
       IN  IF rows[f] = "live"
           THEN /\ cursor' = [cursor EXCEPT ![c] =
                      [k EXCEPT !.yielded = Append(k.yielded, f),
                                !.position = IF k.mode = "Sequential"
                                             THEN f + 1 ELSE k.position + 1]]
                /\ UNCHANGED control
           ELSE Fail(c)
    /\ result' = NoResult
    /\ UNCHANGED <<table, cancelled, parser, call>>

NextExhausts(c) ==
    /\ CanStep(c) /\ engine_is_current(c)
    /\ ~(cursor[c].cancellable /\ cancelled)
    /\ Upcoming(c) = {}
    /\ cursor' = [cursor EXCEPT ![c].state = "Exhausted",
                                 ![c].generation = 0]
    /\ Release(c)
    /\ result' = NoResult
    /\ UNCHANGED <<table, cancelled, parser, call>>

\* move_to() of a cursor that has no lease any more takes a new one first; a
\* target past the last result ends the cursor and gives the lease back.
MoveTo(c, f) ==
    /\ call.at = "idle" /\ cursor[c].state \in {"Ready", "Exhausted"}
    /\ LET k       == cursor[c]
           leased  == k.generation # 0
           mine    == IF leased THEN k.generation ELSE NextGeneration
           active  == IF leased THEN active_cursor_generation ELSE NextGeneration
           targets == IF k.mode = "Sequential"
                      THEN {g \in Present : g >= f /\ g < k.feature_limit}
                      ELSE {i - 1 : i \in {j \in 1..Len(k.fids) : k.fids[j] >= f}}
           moved   == [k EXCEPT !.anchor = f, !.yielded = << >>]
       IN  IF ~engine_is_current(c) \/ (~leased /\ feature_cursor_active)
           THEN Fail(c)
           ELSE /\ cursor' = [cursor EXCEPT ![c] =
                      IF targets = {}
                      THEN [moved EXCEPT !.state = "Exhausted", !.generation = 0]
                      ELSE [moved EXCEPT !.state = "Ready", !.generation = mine,
                                         !.position = Least(targets)]]
                /\ active_cursor_generation' =
                      IF targets = {} /\ active = mine THEN 0 ELSE active
                /\ next_cursor_generation' =
                      IF leased THEN next_cursor_generation ELSE NextGeneration
                /\ UNCHANGED open_generation
    /\ result' = NoResult
    /\ UNCHANGED <<table, cancelled, parser, call>>

\* The destructor, also of a cursor that is assigned over.
Destroy(c) ==
    /\ call.at = "idle" /\ cursor[c].state # "none"
    /\ cursor' = [cursor EXCEPT ![c] = NoCursor]
    /\ Release(c)
    /\ result' = NoResult
    /\ UNCHANGED <<table, cancelled, parser, call>>

CursorNext(c) ==
    \/ \E r \in CursorRequests : \/ OpenCursorFails(c, r)
                                \/ OpenSequentialCursor(c, r)
                                \/ OpenCursor(c, r)
    \/ FinishCursor(c)
    \/ NextStops(c) \/ NextReads(c) \/ NextExhausts(c)
    \/ \E f \in 0 .. MaxFid + 1 : MoveTo(c, f)
    \/ Destroy(c)

Next ==
    \/ Cancel \/ Open \/ ScanRow \/ FinishQuery
    \/ \E r \in Requests : Query(r) \/ QueryRefused(r)
    \/ \E c \in Cursors : CursorNext(c)

Spec == Init /\ [][Next]_vars
-----------------------------------------------------------------------------
Generations == 0 .. GenerationModulus - 1

CursorType ==
    [state: {"Ready", "Exhausted", "Failed"},
     mode: {"Sequential", "CandidateFids"}, generation: Generations,
     planned: 0..MaxOpens, table: 0..MaxOpens, fids: Seq(Fids),
     position: 0 .. MaxFid + 1, feature_limit: 0 .. MaxFid + 1,
     cancellable: BOOLEAN, answer: Seq(Fids), anchor: 0 .. MaxFid + 1,
     yielded: Seq(Fids)]

CallType ==
    [at: {"scan", "finish"}, owner: Cursors \cup {"query"},
     request: Requests \cup CursorRequests, fid: Fids, matched_fids: Seq(Fids)]

ResultType ==
    [status: Statuses, request: Requests, fallback: BOOLEAN,
     matched_fids: Seq(Fids)]
    \cup [status: Statuses, fallback: {TRUE}, matched_fids: {<< >>}]

\* Every variable stays in the range its C++ declaration gives it.
QueryTypeOK ==
    /\ rows \in Tables /\ matching \subseteq Fids /\ cancelled \in BOOLEAN
    /\ open_generation \in 0..MaxOpens /\ parser \in {0, open_generation}
    /\ next_cursor_generation \in Generations
    /\ active_cursor_generation \in Generations
    /\ cursor \in [Cursors -> CursorType \cup {NoCursor}]
    /\ call \in CallType \cup {NoCall}
    /\ result \in ResultType \cup {NoResult}

\* The engine is leased exactly while one cursor is Ready, and to that one: a
\* cursor that ends, fails or is destroyed never keeps the engine refused,
\* and a late release never frees the lease of its successor, also when the
\* generations have gone round.
LeaseHasOneHolder ==
    /\ \A c \in Cursors :
          /\ cursor[c].state = "Ready" <=> cursor[c].generation # 0
          /\ cursor[c].generation \in {0, active_cursor_generation}
    /\ feature_cursor_active => \E c \in Cursors : cursor[c].state = "Ready"
    /\ \A c, d \in Cursors :
          cursor[c].state = "Ready" /\ cursor[d].state = "Ready" => c = d

\* The table pointer of a cursor that next() or move_to() may still follow is
\* the engine's parser: open() has deleted every other one.
CursorTableIsLive ==
    \A c \in Cursors :
      cursor[c].state \in {"Ready", "Exhausted"} =>
        /\ engine_is_current(c) => cursor[c].table = parser /\ parser # 0
        /\ cursor[c].state = "Ready" => engine_is_current(c)

\* Since the FID it was last moved to, a cursor has given the answer of its
\* request in order, without a gap or a repetition, and one that says it is
\* done has given all of it, unless the table was cut short under the query
\* that it walks.
CursorYieldsAnswer ==
    \A c \in Cursors :
      cursor[c].state \in {"Ready", "Exhausted"}
      /\ (Whole \/ cursor[c].mode = "Sequential") =>
        LET due == From(cursor[c].answer, cursor[c].anchor)
        IN  /\ IsPrefix(cursor[c].yielded, due)
            /\ cursor[c].state = "Exhausted" => cursor[c].yielded = due

\* A result that says Ok, and does not excuse itself with a fallback reason,
\* is the window of all matches, although the scan stopped early and size_t
\* is bounded; the limit is reported only when that window exceeds it, and
\* Cancelled only to a caller who cancelled. A table cut short is left to
\* OkResultIsComplete.
ResultIsExact ==
    result # NoResult /\ Whole =>
      /\ result.status = "Ok" /\ ~result.fallback =>
           /\ result.matched_fids = Window(Answer(result.request), result.request)
           /\ ~WindowExceeds(result.request)
      /\ result.status = "ResultLimitExceeded" => WindowExceeds(result.request)
      /\ result.status = "Cancelled" => cancelled /\ result.request.cancellable

\* docs/quality/11_只读并发与GDAL冲突验收.md:115: a failing path must not
\* publish a partial result, whatever the file holds.
OkResultIsComplete ==
    result # NoResult /\ result.status = "Ok" /\ ~result.fallback =>
      result.matched_fids = Window(Answer(result.request), result.request)
=============================================================================
