-------------------------- MODULE AdaptiveSession --------------------------
(***************************************************************************)
(* AdaptiveReadSession (adaptive_session.cpp) with its two formal backends  *)
(* (adaptive_backends.cpp), its readers and external GDAL Writers, all over *)
(* the coordinator.                                                        *)
(*                                                                         *)
(* Each element of Leases is one reader thread with a session of the source *)
(* gdb_path; it calls read(), streams a cursor, or reloads its layer        *)
(* binding, one call at a time.  A thread's steps are its lock regions, its *)
(* backend's file accesses and its local ends.                             *)
(***************************************************************************)
EXTENDS ExternalWriter

VARIABLE session      \* each reader thread: its session, call and last result

svars == <<vars, world, session>>

-----------------------------------------------------------------------------
(* Values *)

Status == {"None", "Ok", "SourceBusy", "ReaderExpired",
           "FastBackendReadFailed", "GdalOpenFailed", "GdalReadFailed"}

Session ==
  [at : {"idle", "fast_open", "fast_read", "fast_state", "fast_pending",
         "release", "notify", "cursor", "cursor_row", "closing",
         "gdal_before", "gdal_check", "gdal_open", "gdal_read", "gdal_after",
         "gdal_cursor"},
   kind : {"none", "query", "cursor", "binding"},
   binding : Nat,                  \* AdaptiveLayerBinding::generation
   mapped : BOOLEAN,               \* the fast backend has the source mapped
   leaked : BOOLEAN,               \* so has one whose close() threw
   seen : SUBSET Contents,         \* what the call's file accesses found
   failure : {"None", "Open", "Read"},
   query_ok : BOOLEAN,             \* QueryResult::status is Ok
   changed : BOOLEAN,              \* source_changed
   pending_events_before : Nat,
   opened_generation : Nat,        \* ghost: when the GDAL Dataset was opened
   writer_pending_seen : BOOLEAN,
   writer_active_seen : BOOLEAN,
   status : Status,
   backend : {"None", "FastGdb", "GdalOpenFileGDB"},
   consistency : {"NotApplicable", "Verified", "UnverifiedConcurrentRead"}]

\* A new call of the session: everything but its binding, and the mappings an
\* earlier call leaked, starts afresh.
NewCall(l, kind, at) ==
  [at |-> at, kind |-> kind, binding |-> session[l].binding,
   mapped |-> FALSE, leaked |-> session[l].leaked, seen |-> {},
   failure |-> "None", query_ok |-> FALSE, changed |-> FALSE,
   pending_events_before |-> 0, opened_generation |-> 0,
   writer_pending_seen |-> FALSE, writer_active_seen |-> FALSE,
   status |-> "None", backend |-> "None", consistency |-> "NotApplicable"]

SessionInit ==
  /\ Init
  /\ WorldInit
  /\ session = [l \in Leases |->
       [at |-> "idle", kind |-> "none", binding |-> 0, mapped |-> FALSE,
        leaked |-> FALSE, seen |-> {}, failure |-> "None",
        query_ok |-> FALSE, changed |-> FALSE, pending_events_before |-> 0,
        opened_generation |-> 0, writer_pending_seen |-> FALSE,
        writer_active_seen |-> FALSE, status |-> "None", backend |-> "None",
        consistency |-> "NotApplicable"]]

At(l, pc, kinds) == session[l].at = pc /\ session[l].kind \in kinds

\* A step of thread l that leaves the coordinator alone.
Local(l, s) ==
  /\ session' = [session EXCEPT ![l] = s]
  /\ UNCHANGED <<vars, world>>

-----------------------------------------------------------------------------
(* The fast backend: read(), open_cursor() and load_binding() under a lease *)

BeginFast(l, kind) ==
  /\ session[l].at = "idle"
  /\ TryAcquireFastReader(l, gdb_path)
  /\ session' = [session EXCEPT ![l] =
       [NewCall(l, kind, "fast_open") EXCEPT !.backend = "FastGdb"]]
  /\ UNCHANGED world

\* Catalog, resolver and QueryEngine are opened: the tables are mapped.
FastOpen(l) ==
  /\ At(l, "fast_open", {"query", "binding"})
  /\ Local(l, [session[l] EXCEPT !.at = "fast_read", !.mapped = TRUE])

FastOpenFails(l) ==
  /\ At(l, "fast_open", {"query", "binding"})
  /\ Local(l, [session[l] EXCEPT
       !.at = IF session[l].kind = "query" THEN "fast_state" ELSE "release",
       !.failure = "Open"])

\* One of the many accesses to mapped or opened files.
FastRead(l) ==
  /\ At(l, "fast_read", {"query", "binding"})
  /\ Local(l, [session[l] EXCEPT !.seen = session[l].seen \cup {disk}])

\* The backend returns: engine and catalog are destroyed.  It fails only by
\* throwing; a query that the engine refuses, cancels or cuts off is a
\* success(...) whose QueryResult says so.
FastReadDone(l, failure, query_ok) ==
  /\ At(l, "fast_read", {"query", "binding"})
  /\ query_ok => failure = "None"
  /\ Local(l, [session[l] EXCEPT
       !.at = IF session[l].kind = "query" THEN "fast_state" ELSE "release",
       !.mapped = FALSE,
       !.failure = failure,
       !.query_ok = query_ok /\ session[l].kind = "query"])

\* read_fast_path: state() after the backend has returned.
FastState(l) ==
  /\ At(l, "fast_state", {"query"})
  /\ Local(l, [session[l] EXCEPT
       !.at = "fast_pending",
       !.writer_pending_seen = sources[gdb_path].writer_pending,
       !.writer_active_seen = sources[gdb_path].writer_active,
       !.changed = \/ sources[gdb_path].generation # lease[l].generation
                   \/ sources[gdb_path].writer_active
                   \/ ~sources[gdb_path].source_verified])

\* ... and writer_pending_observed(), in a lock region of its own; the rest
\* of the result is local.
FastPendingObserved(l) ==
  /\ At(l, "fast_pending", {"query"})
  /\ LET status == IF session[l].changed THEN "ReaderExpired"
                   ELSE IF session[l].failure = "None" THEN "Ok"
                   ELSE "FastBackendReadFailed"
     IN Local(l, [session[l] EXCEPT
          !.at = "release",
          !.writer_pending_seen =
             session[l].writer_pending_seen \/ WriterPendingObserved(l),
          !.status = status,
          !.consistency = IF status = "Ok" THEN "Verified"
                                           ELSE "NotApplicable"])

\* The lease is given back; a binding loaded under it takes its generation.
ReleaseLease(l) ==
  /\ session[l].at = "release"
  /\ Release(l)
  /\ session' = [session EXCEPT ![l] =
       [session[l] EXCEPT
          !.at = "notify",
          !.binding = IF session[l].kind = "binding"
                           /\ session[l].failure = "None"
                        THEN lease[l].generation ELSE session[l].binding]]
  /\ UNCHANGED world

NotifyReleased(l) ==
  /\ session[l].at = "notify"
  /\ NotifyAfterRelease(l)
  /\ session' = [session EXCEPT ![l].at = "idle"]
  /\ UNCHANGED world

-----------------------------------------------------------------------------
(* A fast cursor *)

\* Fault: the lease stays behind in the factory call and ends with it.
CursorDropsLease(l) ==
  /\ At(l, "fast_open", {"cursor"})
  /\ Release(l)
  /\ session' = [session EXCEPT ![l] =
       [session[l] EXCEPT !.at = "cursor", !.mapped = TRUE,
                          !.status = "Ok", !.consistency = "Verified"]]
  /\ UNCHANGED world

\* open_fast_cursor_path: the lease moves into the cursor.
CursorOpen(l) ==
  /\ At(l, "fast_open", {"cursor"})
  /\ Local(l, [session[l] EXCEPT
       !.at = "cursor", !.mapped = TRUE,
       !.status = "Ok", !.consistency = "Verified"])

\* The cursor factory throws.
CursorOpenFails(l) ==
  /\ At(l, "fast_open", {"cursor"})
  /\ Local(l, [session[l] EXCEPT
       !.at = "release", !.status = "FastBackendReadFailed"])

\* Fault: next() has no safe point.
CursorNeverExpires(l) ==
  /\ session[l].at = "cursor"
  /\ Local(l, [session[l] EXCEPT !.at = "cursor_row"])

\* The safe point at the entry of next().
CursorSafePoint(l) ==
  /\ session[l].at = "cursor"
  /\ IF ExpiredAtSafePoint(l)
       THEN Local(l, [session[l] EXCEPT
              !.at = "closing", !.status = "ReaderExpired",
              !.consistency = "NotApplicable"])
       ELSE Local(l, [session[l] EXCEPT !.at = "cursor_row"])

\* next() returns a row.
CursorRow(l) ==
  /\ session[l].at = "cursor_row"
  /\ Local(l, [session[l] EXCEPT
       !.at = "cursor", !.seen = session[l].seen \cup {disk}])

\* Fault: a cursor without a next row is done but not closed.
CursorEndsOpen(l, failed) ==
  /\ session[l].at = "cursor_row"
  /\ Local(l, IF failed
       THEN [session[l] EXCEPT
               !.at = "closing", !.status = "FastBackendReadFailed",
               !.consistency = "NotApplicable"]
       ELSE [session[l] EXCEPT !.at = "idle"])

\* next() finds no row, or fails, and closes the cursor.
CursorEnd(l, failed) ==
  /\ session[l].at = "cursor_row"
  /\ Local(l, IF failed
       THEN [session[l] EXCEPT
               !.at = "closing", !.status = "FastBackendReadFailed",
               !.consistency = "NotApplicable"]
       ELSE [session[l] EXCEPT !.at = "closing"])

\* The caller closes or destroys the cursor.
CursorClose(l) ==
  /\ session[l].at = "cursor"
  /\ Local(l, [session[l] EXCEPT !.at = "closing"])

\* close(): the backend unmaps, only then is the lease given back.
CloseBackend(l) ==
  /\ session[l].at = "closing"
  /\ Local(l, [session[l] EXCEPT !.at = "release", !.mapped = FALSE])

\* Fault: a close() that throws gives the lease back all the same.
CloseThrowsReleases(l) ==
  /\ session[l].at = "closing"
  /\ Release(l)
  /\ session' = [session EXCEPT ![l] =
       [session[l] EXCEPT !.at = "notify", !.mapped = FALSE, !.leaked = TRUE]]
  /\ UNCHANGED world

\* close(): the backend's close throws, its mapping may still be there.
CloseBackendThrows(l) ==
  /\ session[l].at = "closing"
  /\ AbandonFailClosed(l)
  /\ session' = [session EXCEPT ![l] =
       IF session[l].status = "Ok"
         THEN [session[l] EXCEPT
                 !.at = "idle", !.mapped = FALSE, !.leaked = TRUE,
                 !.status = "FastBackendReadFailed",
                 !.consistency = "NotApplicable"]
         ELSE [session[l] EXCEPT
                 !.at = "idle", !.mapped = FALSE, !.leaked = TRUE]]
  /\ UNCHANGED world

-----------------------------------------------------------------------------
(* No lease: SourceBusy, or the fresh read-only GDAL Dataset *)

BeginBusyRead(l) ==
  /\ session[l].at = "idle" /\ ~Admits(gdb_path)
  /\ Local(l, NewCall(l, "query", "gdal_before"))

BeginBusyCursor(l, policy) ==
  /\ session[l].at = "idle" /\ ~Admits(gdb_path)
  /\ Local(l, IF policy = "SourceBusy"
       THEN [NewCall(l, "cursor", "idle") EXCEPT !.status = "SourceBusy"]
       ELSE [NewCall(l, "cursor", "gdal_check") EXCEPT
               !.backend = "GdalOpenFileGDB",
               !.consistency = "UnverifiedConcurrentRead"])

\* read(): state() before the GDAL path, and the policy.
ReadBefore(l, policy) ==
  /\ session[l].at = "gdal_before"
  /\ LET before ==
       [session[l] EXCEPT
          !.pending_events_before = sources[gdb_path].pending_events,
          !.writer_pending_seen = sources[gdb_path].writer_pending,
          !.writer_active_seen = sources[gdb_path].writer_active]
     IN Local(l, IF policy = "SourceBusy"
          THEN [before EXCEPT !.at = "idle", !.status = "SourceBusy"]
          ELSE [before EXCEPT
                  !.at = "gdal_check", !.backend = "GdalOpenFileGDB",
                  !.consistency = "UnverifiedConcurrentRead"])

\* The binding's generation is compared in a lock region of its own.
CheckBinding(l) ==
  /\ session[l].at = "gdal_check"
  /\ Local(l, IF sources[gdb_path].generation = session[l].binding
       THEN [session[l] EXCEPT !.at = "gdal_open"]
       ELSE [session[l] EXCEPT
               !.at = IF session[l].kind = "query" THEN "gdal_after"
                                                   ELSE "gdal_cursor",
               !.failure = "Read"])

GdalOpen(l) ==
  /\ session[l].at = "gdal_open"
  /\ Local(l, [session[l] EXCEPT
       !.at = IF session[l].kind = "query" THEN "gdal_read"
                                           ELSE "gdal_cursor",
       !.opened_generation = sources[gdb_path].generation])

GdalOpenFails(l) ==
  /\ session[l].at = "gdal_open"
  /\ Local(l, IF session[l].kind = "query"
       THEN [session[l] EXCEPT !.at = "gdal_after", !.failure = "Open"]
       ELSE [session[l] EXCEPT !.at = "idle", !.status = "GdalOpenFailed"])

GdalRead(l) ==
  /\ \/ session[l].at = "gdal_read"
     \/ session[l].at = "gdal_cursor" /\ session[l].failure = "None"
  /\ Local(l, [session[l] EXCEPT !.seen = session[l].seen \cup {disk}])

GdalReadDone(l, failure) ==
  /\ session[l].at = "gdal_read"
  /\ Local(l, [session[l] EXCEPT !.at = "gdal_after", !.failure = failure])

\* Fault: only the Writer's present state is looked at.
ReadAfterForgetsEvents(l) ==
  /\ session[l].at = "gdal_after"
  /\ Local(l, [session[l] EXCEPT
       !.at = "idle",
       !.writer_pending_seen = \/ session[l].writer_pending_seen
                               \/ sources[gdb_path].writer_pending,
       !.writer_active_seen = \/ session[l].writer_active_seen
                              \/ sources[gdb_path].writer_active,
       !.status = IF session[l].failure = "None" THEN "Ok"
                                                 ELSE "GdalReadFailed"])

\* read_gdal_path: state() after the backend has returned, and the result.
ReadAfter(l) ==
  /\ session[l].at = "gdal_after"
  /\ Local(l, [session[l] EXCEPT
       !.at = "idle",
       !.writer_pending_seen =
          \/ session[l].writer_pending_seen
          \/ sources[gdb_path].writer_pending
          \/ sources[gdb_path].pending_events
               # session[l].pending_events_before,
       !.writer_active_seen =
          \/ session[l].writer_active_seen
          \/ sources[gdb_path].writer_active,
       !.status = CASE session[l].failure = "None" -> "Ok"
                    [] session[l].failure = "Open" -> "GdalOpenFailed"
                    [] session[l].failure = "Read" -> "GdalReadFailed"])

\* A GDAL cursor ends or is closed; one whose binding had expired fails in
\* its first next().
GdalCursorEnd(l, status) ==
  /\ session[l].at = "gdal_cursor"
  /\ Local(l, [session[l] EXCEPT !.at = "idle", !.status = status])

-----------------------------------------------------------------------------
\* The thread goes on with the call it is in.
ReaderProgress(l) ==
  \/ FastOpen(l) \/ FastOpenFails(l) \/ FastRead(l)
  \/ \E f \in {"None", "Read"}, ok \in BOOLEAN : FastReadDone(l, f, ok)
  \/ FastState(l) \/ FastPendingObserved(l)
  \/ ReleaseLease(l) \/ NotifyReleased(l)
  \/ CursorOpen(l) \/ CursorOpenFails(l)
  \/ CursorSafePoint(l) \/ CursorRow(l)
  \/ \E failed \in BOOLEAN : CursorEnd(l, failed)
  \/ CursorClose(l) \/ CloseBackend(l) \/ CloseBackendThrows(l)
  \/ \E policy \in {"SourceBusy", "GdalUnverified"} : ReadBefore(l, policy)
  \/ CheckBinding(l) \/ GdalOpen(l) \/ GdalOpenFails(l) \/ GdalRead(l)
  \/ \E f \in {"None", "Read"} : GdalReadDone(l, f)
  \/ ReadAfter(l)
  \/ \E st \in {"Ok", "GdalReadFailed"} : GdalCursorEnd(l, st)

ReaderBegins(l) ==
  \/ \E kind \in {"query", "cursor", "binding"} : BeginFast(l, kind)
  \/ BeginBusyRead(l)
  \/ \E policy \in {"SourceBusy", "GdalUnverified"} :
       BeginBusyCursor(l, policy)

SessionNext ==
  \/ \E l \in Leases : ReaderProgress(l) \/ ReaderBegins(l)
  \/ \E w \in Writers : WriterStep(w) /\ UNCHANGED session

SessionSpec == SessionInit /\ [][SessionNext]_svars

\* A reader thread goes on with its call, and keeps calling next() on a
\* cursor it holds: the condition ADR-008 puts on a Writer that drains.
\* Nothing times out and nobody has to begin a call.
SessionLiveSpec ==
  /\ SessionSpec
  /\ \A l \in Leases : WF_svars(ReaderProgress(l))
  /\ \A w \in Writers :
       WF_svars(/\ PrepareDrained(w) \/ WaitAgain(w)
                /\ WriterWaits(w)
                /\ UNCHANGED session)

-----------------------------------------------------------------------------
(* What the session promises *)

SessionTypeOK ==
  /\ TypeOK
  /\ WorldTypeOK
  /\ session \in [Leases -> Session]

\* No update Dataset is open while any fast mapping of the source is: not a
\* query's, not an idle cursor's, not one whose close() threw, and not even
\* in the window between GDALOpenEx and notify_update_opened.
MappingExcludesUpdate ==
  (\E w \in Writers : update_dataset[w] # "none") =>
    \A l \in Leases : ~session[l].mapped /\ ~session[l].leaked

\* Whatever a result or a cursor calls Verified was read from one version of
\* the source, and never from half of an update.
VerifiedIsOneSnapshot ==
  \A l \in Leases :
    session[l].consistency = "Verified" =>
      /\ \A c \in session[l].seen : ~c.torn
      /\ \A c, d \in session[l].seen : c = d

\* A GDAL query that met a Writer says so: if its rows came from two versions
\* or from a torn one, writer_pending_seen or writer_active_seen is set, also
\* when the Writer came and went entirely between two looks at the state.
TornReadReportsWriter ==
  \A l \in Leases :
    /\ At(l, "idle", {"query"})
    /\ \E c, d \in session[l].seen : c.torn \/ c # d
    => session[l].writer_pending_seen \/ session[l].writer_active_seen

\* A query that got its lease is never thrown away: the Writer waits for it,
\* so the ReaderExpired branch of read_fast_path is only a safeguard.
LeasedQueryNeverExpires ==
  \A l \in Leases :
    session[l].kind = "query" => session[l].status # "ReaderExpired"

\* A call that is over, however it ended, holds no lease and no mapping of
\* its own: an exhausted, expired or failed cursor does not keep a Writer out.
FinishedCallHoldsNothing ==
  \A l \in Leases :
    session[l].at = "idle" => ~lease[l].counted /\ ~session[l].mapped

\* A GDAL read that succeeds used the schema of the generation it read.
StaleBindingFailsClosed ==
  \A l \in Leases :
    /\ session[l].at = "idle"
    /\ session[l].backend = "GdalOpenFileGDB"
    /\ session[l].status = "Ok"
    /\ session[l].seen # {}
    => session[l].opened_generation = session[l].binding

\* A result is Verified only if the query it carries succeeded.
VerifiedResultSucceeded ==
  \A l \in Leases :
    At(l, "idle", {"query"}) /\ session[l].consistency = "Verified"
      => session[l].query_ok

\* A Writer that waits gets its token as soon as the calls in progress end
\* and the cursors reach their next safe point, without any deadline; only a
\* mapping that could not be closed keeps it out.
WriterGetsIn ==
  \A w \in Writers :
    (call[w].at # "idle")
      ~> (call[w].at = "idle" \/ abandoned[gdb_path] > 0)
=============================================================================
