----------------------- MODULE AdaptiveSessionProofs -----------------------
(***************************************************************************)
(* Proofs about the adaptive session, for any number of reader threads and  *)
(* Writers of the source and any number of Writer lifecycles.               *)
(***************************************************************************)
EXTENDS AdaptiveSession, GdbCoordinatorProofs

\* The stages of a call that has its lease.
LeasedStage ==
  {"fast_open", "fast_read", "fast_state", "fast_pending", "release",
   "cursor", "cursor_row", "closing"}

\* Thread l holds a lease of the source exactly at these stages, maps the
\* source only at some of them, and gave up its lease with a mapping it leaked.
LeaseFollowsCall(l, s) ==
  /\ lease[l].counted <=> s.at \in LeasedStage
  /\ lease[l].counted => lease[l].path = gdb_path
  /\ s.mapped => s.at \in {"fast_read", "cursor", "cursor_row", "closing"}
  /\ s.leaked => abandoned[gdb_path] > 0

StageOfCall(s) ==
  /\ s.at \in {"cursor", "cursor_row", "closing", "gdal_cursor"} =>
       s.kind = "cursor"
  /\ s.at \in {"fast_state", "fast_pending", "gdal_before", "gdal_read",
               "gdal_after"} => s.kind = "query"
  /\ s.at \in {"gdal_check", "gdal_open"} => s.kind \in {"query", "cursor"}
  /\ s.at \in LeasedStage \cup {"notify"} => s.backend = "FastGdb"
  /\ s.at \in {"gdal_check", "gdal_open", "gdal_read", "gdal_after",
               "gdal_cursor"} => s.backend = "GdalOpenFileGDB"
  /\ s.kind = "query" => ~s.changed /\ s.status # "ReaderExpired"

OneVersion(contents) ==
  /\ \A c \in contents : ~c.torn
  /\ \A c, d \in contents : c = d

\* Under its lease a call finds only what the files hold now; what it found
\* stays as it was when the lease is gone.
FastIsOneVersion(s) ==
  /\ s.at \in LeasedStage => s.seen \subseteq {disk}
  /\ s.consistency = "Verified" => s.backend = "FastGdb"
  /\ s.backend = "FastGdb" =>
       /\ s.at \in LeasedStage \cup {"notify", "idle"}
       /\ OneVersion(s.seen)

\* The call has met a Writer: it saw one, or one has been announced since.
MetWriter(s) ==
  \/ s.writer_pending_seen \/ s.writer_active_seen
  \/ sources[gdb_path].pending_events > s.pending_events_before

\* As long as a GDAL query has not met a Writer the files are what it read.
GdalReportsWriter(s) ==
  /\ s.backend = "None" => s.seen = {}
  /\ s.at = "gdal_before" => s.backend = "None"
  /\ s.at \in {"gdal_check", "gdal_open", "gdal_read", "gdal_after"}
         /\ s.kind = "query" =>
       /\ s.pending_events_before <= sources[gdb_path].pending_events
       /\ MetWriter(s) \/ (Quiet /\ s.seen \subseteq {disk})
  /\ s.at = "idle" /\ s.kind = "query" /\ s.backend = "GdalOpenFileGDB" =>
       \/ s.writer_pending_seen \/ s.writer_active_seen
       \/ OneVersion(s.seen)

ThreadOK(l, s) ==
  /\ LeaseFollowsCall(l, s)
  /\ StageOfCall(s)
  /\ FastIsOneVersion(s)
  /\ GdalReportsWriter(s)

SessionInv ==
  /\ WriterInv
  /\ session \in [Leases -> Session]
  /\ \A l \in Leases : ThreadOK(l, session[l])

(* No call has been made yet. *)
LEMMA InitSessionInv == SessionInit => SessionInv
<1> SUFFICES ASSUME SessionInit PROVE SessionInv
  OBVIOUS
<1>1. WriterInv
  BY InitWriterInv DEF SessionInit
<1>2. session \in [Leases -> Session]
  BY DEF SessionInit, Session, Status
<1>3. ASSUME NEW l \in Leases PROVE ThreadOK(l, session[l])
  BY DEF SessionInit, Init, EmptyLease, ThreadOK, LeaseFollowsCall,
         StageOfCall, FastIsOneVersion, GdalReportsWriter, OneVersion,
         LeasedStage
<1> QED BY <1>1, <1>2, <1>3 DEF SessionInv

-----------------------------------------------------------------------------
(* A thread does not notice a step that leaves its session, its lease, the
   files and the Writers' marks alone. *)
LEMMA OtherThread ==
  ASSUME SessionInv, NEW m \in Leases,
         session'[m] = session[m], lease'[m] = lease[m],
         abandoned[gdb_path] > 0 => abandoned'[gdb_path] > 0,
         disk' = disk,
         sources'[gdb_path].pending_events = sources[gdb_path].pending_events,
         Quiet' <=> Quiet
  PROVE  ThreadOK(m, session[m])'
<1>1. ThreadOK(m, session[m])
  BY DEF SessionInv
<1>2. LeaseFollowsCall(m, session[m])'
  BY <1>1 DEF ThreadOK, LeaseFollowsCall
<1>3. StageOfCall(session[m])' /\ FastIsOneVersion(session[m])'
  BY <1>1 DEF ThreadOK, StageOfCall, FastIsOneVersion
<1>4. GdalReportsWriter(session[m])'
  BY <1>1 DEF ThreadOK, GdalReportsWriter, MetWriter
<1> QED BY <1>2, <1>3, <1>4 DEF ThreadOK

(* A local step keeps the invariant if the thread's new session fits the
   coordinator's state. *)
LEMMA LocalKeeps ==
  ASSUME SessionInv, NEW l \in Leases, NEW s \in Session,
         ThreadOK(l, s), Local(l, s)
  PROVE  SessionInv'
<1>1. /\ session' = [session EXCEPT ![l] = s]
      /\ session \in [Leases -> Session]
      /\ UNCHANGED <<vars, world>>
  BY DEF Local, SessionInv
<1>2. UNCHANGED <<sources, lease, abandoned, disk>>
  BY <1>1 DEF vars, world
<1>3. WriterInv'
  <2>1. IndInv'
    BY <1>1, Inductive DEF SessionInv, WriterInv
  <2> QED
    BY <1>1, <2>1
    DEF SessionInv, WriterInv, vars, world, WorldTypeOK, IdsOwned,
        DatasetHeld, TornWhileWritten
<1>4. session' \in [Leases -> Session]
  BY <1>1
<1>5. ThreadOK(l, session[l])'
  BY <1>1, <1>2
  DEF ThreadOK, LeaseFollowsCall, StageOfCall, FastIsOneVersion,
      GdalReportsWriter, MetWriter, Quiet
<1>6. ASSUME NEW m \in Leases, m # l PROVE ThreadOK(m, session[m])'
  BY <1>1, <1>2, <1>6, OtherThread DEF Quiet
<1> QED BY <1>3, <1>4, <1>5, <1>6 DEF SessionInv

(* So does a step of the thread on the coordinator. *)
LEMMA LeaseStepKeeps ==
  ASSUME SessionInv, NEW l \in Leases, NEW s \in Session,
         ReaderStep(l), UNCHANGED world,
         session' = [session EXCEPT ![l] = s],
         \A m \in Leases \ {l} : lease'[m] = lease[m],
         ThreadOK(l, s)'
  PROVE  SessionInv'
<1>1. WriterInv'
  BY ReaderKeepsInv DEF SessionInv
<1>2. session \in [Leases -> Session] /\ session' \in [Leases -> Session]
        /\ session'[l] = s
  BY DEF SessionInv
<1>3. /\ abandoned[gdb_path] > 0 => abandoned'[gdb_path] > 0
      /\ disk' = disk
      /\ sources'[gdb_path].pending_events = sources[gdb_path].pending_events
      /\ Quiet' <=> Quiet
  <2>a. /\ sources \in [Paths -> CoordinatedSourceEntry]
        /\ abandoned \in [Paths -> Nat] /\ gdb_path \in Paths
    BY SourceAssumption DEF SessionInv, WriterInv, IndInv, TypeOK
  <2> USE <2>a DEF Quiet, CoordinatedSourceEntry
  <2>1. disk' = disk
    BY DEF world
  <2>2. ASSUME NEW p \in Paths, TryAcquireFastReader(l, p) PROVE <1>3
    BY <2>1, <2>2 DEF TryAcquireFastReader
  <2>3. CASE Release(l)
    BY <2>1, <2>3 DEF Release
  <2>4. CASE NotifyAfterRelease(l)
    BY <2>1, <2>4 DEF NotifyAfterRelease
  <2>5. CASE AbandonFailClosed(l)
    BY <2>1, <2>5 DEF AbandonFailClosed
  <2>6. ASSUME NEW m \in Leases, MoveLease(l, m) PROVE <1>3
    BY <2>1, <2>6 DEF MoveLease
  <2> QED BY <2>2, <2>3, <2>4, <2>5, <2>6 DEF ReaderStep
<1>4. ASSUME NEW m \in Leases, m # l PROVE ThreadOK(m, session[m])'
  <2>1. session'[m] = session[m]
    BY <1>2, <1>4
  <2> QED BY <1>3, <1>4, <2>1, OtherThread
<1>5. ThreadOK(l, session[l])'
  BY <1>2
<1> QED BY <1>1, <1>2, <1>4, <1>5 DEF SessionInv

(* A step of a Writer: what the files hold changes only when nobody holds a
   lease of them and when every GDAL query has met the Writer. *)
LEMMA WriterStepKeeps ==
  ASSUME SessionInv, NEW w \in Writers, WriterStep(w), UNCHANGED session
  PROVE  SessionInv'
<1>1. WriterInv /\ WriterInv'
  BY WriterKeepsInv DEF SessionInv
<1>2. SeenFromReaders(w)
  BY <1>1, WriterSeen
<1>3. sources[gdb_path].pending_events \in Nat
  BY <1>1, SourceAssumption
  DEF WriterInv, IndInv, TypeOK, CoordinatedSourceEntry
<1>4. ASSUME NEW l \in Leases PROVE ThreadOK(l, session[l])'
  <2>a. PICK s \in Session :
          ThreadOK(l, s) /\ s = session[l] /\ s = session'[l]
    BY DEF SessionInv
  <2>1. LeaseFollowsCall(l, s)' /\ StageOfCall(s)'
    BY <1>2, <2>a DEF SeenFromReaders, ThreadOK, LeaseFollowsCall, StageOfCall
  <2>2. FastIsOneVersion(s)'
    <3>1. s.at \in LeasedStage => disk' = disk
      <4> SUFFICES ASSUME s.at \in LeasedStage PROVE disk' = disk
        OBVIOUS
      <4>1. lease[l].counted /\ lease[l].path = gdb_path
        BY <2>a DEF ThreadOK, LeaseFollowsCall
      <4> QED BY <1>1, <1>2, <4>1, LeasedSource DEF SeenFromReaders
    <3> QED BY <2>a, <3>1 DEF ThreadOK, FastIsOneVersion
  <2>3. GdalReportsWriter(s)'
    <3>1. Quiet => disk' = disk
      BY <1>1, <1>2, UpdateHoldsSource DEF SeenFromReaders
    <3>2. s.pending_events_before \in Nat
      BY <2>a DEF Session
    <3>3. MetWriter(s) => MetWriter(s)'
      BY <1>2, <1>3, <3>2 DEF MetWriter, SeenFromReaders
    <3>4. /\ s.pending_events_before <= sources[gdb_path].pending_events
          /\ Quiet
          => Quiet' \/ MetWriter(s)'
      BY <1>2, <1>3, <3>2 DEF MetWriter, SeenFromReaders
    <3>5. s.pending_events_before <= sources[gdb_path].pending_events
          => s.pending_events_before <= sources'[gdb_path].pending_events
      BY <1>2, <1>3, <3>2 DEF SeenFromReaders
    <3> QED
      BY <2>a, <3>1, <3>3, <3>4, <3>5 DEF ThreadOK, GdalReportsWriter
  <2> QED BY <2>a, <2>1, <2>2, <2>3 DEF ThreadOK
<1> QED BY <1>1, <1>4 DEF SessionInv

-----------------------------------------------------------------------------
(* The calls under a lease. *)

(* The results a call can end with. *)
LEMMA StatusValues ==
  /\ "None" \in Status /\ "Ok" \in Status /\ "SourceBusy" \in Status
  /\ "ReaderExpired" \in Status /\ "FastBackendReadFailed" \in Status
  /\ "GdalOpenFailed" \in Status /\ "GdalReadFailed" \in Status
  BY DEF Status

(* A new call is a session value. *)
LEMMA NewCallType ==
  ASSUME NEW l \in Leases, session[l] \in Session,
         NEW kind \in {"query", "cursor", "binding"},
         NEW at \in {"fast_open", "gdal_before", "gdal_check", "idle"}
  PROVE  NewCall(l, kind, at) \in Session
  BY DEF NewCall, Session, Status

(* A lease is taken: the call starts with nothing found yet. *)
LEMMA BeginFastKeeps ==
  ASSUME SessionInv, NEW l \in Leases,
         NEW kind \in {"query", "cursor", "binding"}, BeginFast(l, kind)
  PROVE  SessionInv'
<1>a. session[l] \in Session /\ ThreadOK(l, session[l])
  BY DEF SessionInv
<1>b. [NewCall(l, kind, "fast_open") EXCEPT !.backend = "FastGdb"] \in Session
  BY <1>a, NewCallType DEF Session
<1>1. PICK s \in Session :
        s = [NewCall(l, kind, "fast_open") EXCEPT !.backend = "FastGdb"]
  BY <1>b
<1>2. /\ s.at = "fast_open" /\ s.kind = kind /\ ~s.mapped /\ ~s.changed
      /\ s.seen = {} /\ s.backend = "FastGdb" /\ s.status = "None"
      /\ s.consistency = "NotApplicable" /\ s.leaked = session[l].leaked
  BY <1>a, <1>1 DEF NewCall, Session
<1>3. ReaderStep(l)
  BY SourceAssumption DEF BeginFast, ReaderStep
<1>4. /\ session' = [session EXCEPT ![l] = s] /\ UNCHANGED world
      /\ lease'[l].counted /\ lease'[l].path = gdb_path
      /\ \A m \in Leases \ {l} : lease'[m] = lease[m]
      /\ UNCHANGED abandoned
  BY <1>1
  DEF BeginFast, TryAcquireFastReader, SessionInv, WriterInv, IndInv, TypeOK
<1>5. ThreadOK(l, s)'
  BY <1>a, <1>2, <1>4
  DEF ThreadOK, LeaseFollowsCall, StageOfCall, FastIsOneVersion,
      GdalReportsWriter, OneVersion, LeasedStage
<1> QED BY <1>1, <1>3, <1>4, <1>5, LeaseStepKeeps

(* The call opens, reads, ends or looks at the coordinator: local steps. *)
LEMMA FastCallKeeps ==
  ASSUME SessionInv, NEW l \in Leases,
         \/ FastOpen(l) \/ FastOpenFails(l) \/ FastRead(l)
         \/ \E f \in {"None", "Read"}, ok \in BOOLEAN : FastReadDone(l, f, ok)
         \/ FastState(l) \/ FastPendingObserved(l)
  PROVE  SessionInv'
<1> USE DEF ThreadOK, LeaseFollowsCall, StageOfCall, FastIsOneVersion,
            GdalReportsWriter, OneVersion, LeasedStage, At
<1>a. session[l] \in Session /\ ThreadOK(l, session[l])
  BY DEF SessionInv
<1>b. session[l].at \in LeasedStage =>
        /\ ~disk.torn
        /\ ~sources[gdb_path].writer_active
        /\ sources[gdb_path].source_verified
        /\ sources[gdb_path].generation = lease[l].generation
  BY <1>a, LeasedSource DEF SessionInv
<1>c. disk \in Contents
  BY DEF SessionInv, WriterInv, WorldTypeOK
<1>1. CASE FastOpen(l)
  <2> DEFINE s == [session[l] EXCEPT !.at = "fast_read", !.mapped = TRUE]
  <2>1. At(l, "fast_open", {"query", "binding"}) /\ Local(l, s)
    BY <1>1 DEF FastOpen
  <2>2. s \in Session
    BY <1>a DEF Session
  <2>3. ThreadOK(l, s)
    BY <1>a, <2>1 DEF Session
  <2> QED BY <2>1, <2>2, <2>3, LocalKeeps
<1>2. CASE FastOpenFails(l)
  <2> DEFINE s == [session[l] EXCEPT
       !.at = IF session[l].kind = "query" THEN "fast_state" ELSE "release",
       !.failure = "Open"]
  <2>1. At(l, "fast_open", {"query", "binding"}) /\ Local(l, s)
    BY <1>2 DEF FastOpenFails
  <2>2. s \in Session
    BY ZenonT(40), <1>a DEF Session
  <2>3. ThreadOK(l, s)
    BY <1>a, <2>1 DEF Session
  <2> QED BY <2>1, <2>2, <2>3, LocalKeeps
<1>3. CASE FastRead(l)
  <2> DEFINE s == [session[l] EXCEPT !.seen = session[l].seen \cup {disk}]
  <2>1. At(l, "fast_read", {"query", "binding"}) /\ Local(l, s)
    BY <1>3 DEF FastRead
  <2>2. s \in Session
    BY <1>a, <1>c DEF Session
  <2>3. ThreadOK(l, s)
    BY <1>a, <1>b, <2>1 DEF Session
  <2> QED BY <2>1, <2>2, <2>3, LocalKeeps
<1>4. ASSUME NEW f \in {"None", "Read"}, NEW ok \in BOOLEAN,
             FastReadDone(l, f, ok)
      PROVE  SessionInv'
  <2> DEFINE query_ok == ok /\ session[l].kind = "query"
             at == IF session[l].kind = "query" THEN "fast_state" ELSE "release"
             s == [session[l] EXCEPT
       !.at = at,
       !.mapped = FALSE,
       !.failure = f,
       !.query_ok = query_ok]
  <2>1. At(l, "fast_read", {"query", "binding"}) /\ Local(l, s)
    BY <1>4 DEF FastReadDone
  <2>a. query_ok \in BOOLEAN
    OBVIOUS
  <2>b. at \in {"fast_state", "release"}
          /\ (at = "fast_state" => session[l].kind = "query")
    OBVIOUS
  <2> HIDE DEF query_ok, at
  <2>2. s \in Session
    BY ZenonT(40), <1>a, <2>a, <2>b DEF Session
  <2>3. ThreadOK(l, s)
    BY <1>a, <2>1, <2>b DEF Session
  <2> QED BY <2>1, <2>2, <2>3, LocalKeeps
<1>5. CASE FastState(l)
  <2> DEFINE changed == \/ sources[gdb_path].generation # lease[l].generation
                        \/ sources[gdb_path].writer_active
                        \/ ~sources[gdb_path].source_verified
             pending == sources[gdb_path].writer_pending
             active == sources[gdb_path].writer_active
             s == [session[l] EXCEPT
       !.at = "fast_pending",
       !.writer_pending_seen = pending,
       !.writer_active_seen = active,
       !.changed = changed]
  <2>1. At(l, "fast_state", {"query"}) /\ Local(l, s)
    BY <1>5 DEF FastState
  <2>a. pending \in BOOLEAN /\ active \in BOOLEAN
    BY SourceAssumption
    DEF SessionInv, WriterInv, IndInv, TypeOK, CoordinatedSourceEntry
  <2>b. changed = FALSE
    BY <1>a, <1>b, <2>1
  <2> HIDE DEF pending, active, changed
  <2>2. s \in Session
    BY ZenonT(40), <1>a, <2>a, <2>b DEF Session
  <2>3. ThreadOK(l, s)
    BY <1>a, <2>1, <2>b DEF Session
  <2> QED BY <2>1, <2>2, <2>3, LocalKeeps
<1>6. CASE FastPendingObserved(l)
  <2> DEFINE status == IF session[l].changed THEN "ReaderExpired"
                       ELSE IF session[l].failure = "None" THEN "Ok"
                       ELSE "FastBackendReadFailed"
             pending ==
               session[l].writer_pending_seen \/ WriterPendingObserved(l)
             s == [session[l] EXCEPT
          !.at = "release",
          !.writer_pending_seen = pending,
          !.status = status,
          !.consistency = IF status = "Ok" THEN "Verified"
                                           ELSE "NotApplicable"]
  <2>1. At(l, "fast_pending", {"query"}) /\ Local(l, s)
    BY <1>6 DEF FastPendingObserved
  <2>a. pending \in BOOLEAN
    OBVIOUS
  <2>b. status \in Status /\ status # "ReaderExpired"
    BY <1>a, <2>1 DEF Status
  <2> HIDE DEF status, pending
  <2>2. s \in Session
    BY ZenonT(40), <1>a, <2>a, <2>b DEF Session
  <2>3. ThreadOK(l, s)
    BY <1>a, <2>1, <2>b DEF Session
  <2> QED BY <2>1, <2>2, <2>3, LocalKeeps
<1> QED BY <1>1, <1>2, <1>3, <1>4, <1>5, <1>6

(* The lease is given back, and the release notifies. *)
LEMMA GiveBackKeeps ==
  ASSUME SessionInv, NEW l \in Leases, ReleaseLease(l) \/ NotifyReleased(l)
  PROVE  SessionInv'
<1>a. session[l] \in Session /\ ThreadOK(l, session[l])
  BY DEF SessionInv
<1>b. /\ lease \in [Leases -> FastReaderLease]
      /\ abandoned \in [Paths -> Nat] /\ gdb_path \in Paths
  BY SourceAssumption DEF SessionInv, WriterInv, IndInv, TypeOK
<1>1. CASE ReleaseLease(l)
  <2> DEFINE binding == IF session[l].kind = "binding"
                             /\ session[l].failure = "None"
                          THEN lease[l].generation ELSE session[l].binding
  <2>1. binding \in Nat
    BY <1>a, <1>b DEF Session, FastReaderLease
  <2> HIDE DEF binding
  <2>2. [session[l] EXCEPT !.at = "notify", !.binding = binding] \in Session
    BY <1>a, <2>1 DEF Session
  <2>3. PICK s \in Session :
          s = [session[l] EXCEPT !.at = "notify", !.binding = binding]
    BY <2>2
  <2>4. /\ session[l].at = "release" /\ Release(l) /\ UNCHANGED world
        /\ session' = [session EXCEPT ![l] = s]
    BY <1>1, <2>3 DEF ReleaseLease, binding
  <2>5. /\ ~lease'[l].counted /\ UNCHANGED abandoned
        /\ \A m \in Leases \ {l} : lease'[m] = lease[m]
    BY <1>b, <2>4 DEF Release, FastReaderLease
  <2>6. ThreadOK(l, s)'
    BY <1>a, <2>3, <2>4, <2>5
    DEF Session, ThreadOK, LeaseFollowsCall, StageOfCall, FastIsOneVersion,
        GdalReportsWriter, OneVersion, LeasedStage
  <2> QED BY <2>4, <2>5, <2>6, LeaseStepKeeps DEF ReaderStep
<1>2. CASE NotifyReleased(l)
  <2>1. PICK s \in Session : s = [session[l] EXCEPT !.at = "idle"]
    BY <1>a DEF Session
  <2>2. /\ session[l].at = "notify" /\ NotifyAfterRelease(l) /\ UNCHANGED world
        /\ session' = [session EXCEPT ![l] = s]
    BY <1>2, <2>1 DEF NotifyReleased
  <2>3. UNCHANGED <<lease, abandoned>>
    BY <2>2 DEF NotifyAfterRelease
  <2>4. ThreadOK(l, s)'
    BY <1>a, <2>1, <2>2, <2>3
    DEF Session, ThreadOK, LeaseFollowsCall, StageOfCall, FastIsOneVersion,
        GdalReportsWriter, OneVersion, LeasedStage
  <2> QED BY <2>2, <2>3, <2>4, LeaseStepKeeps DEF ReaderStep
<1> QED BY <1>1, <1>2

(* The cursor's backend could not be closed: its count stays for ever. *)
LEMMA CloseThrowsKeeps ==
  ASSUME SessionInv, NEW l \in Leases, CloseBackendThrows(l)
  PROVE  SessionInv'
<1>a. session[l] \in Session /\ ThreadOK(l, session[l])
  BY DEF SessionInv
<1>b. /\ lease \in [Leases -> FastReaderLease]
      /\ abandoned \in [Paths -> Nat] /\ gdb_path \in Paths
  BY SourceAssumption DEF SessionInv, WriterInv, IndInv, TypeOK
<1>1. session[l].at = "closing" /\ AbandonFailClosed(l) /\ UNCHANGED world
  BY DEF CloseBackendThrows
<1>2. PICK s \in Session :
        /\ session' = [session EXCEPT ![l] = s]
        /\ s.at = "idle" /\ ~s.mapped /\ s.kind = session[l].kind
        /\ s.backend = session[l].backend /\ s.seen = session[l].seen
        /\ s.consistency \in {session[l].consistency, "NotApplicable"}
  <2>1. CASE session[l].status = "Ok"
    <3>1. PICK s \in Session :
            s = [session[l] EXCEPT
                   !.at = "idle", !.mapped = FALSE, !.leaked = TRUE,
                   !.status = "FastBackendReadFailed",
                   !.consistency = "NotApplicable"]
      BY ZenonT(40), <1>a, StatusValues DEF Session
    <3>2. session' = [session EXCEPT ![l] = s]
      BY <2>1, <3>1 DEF CloseBackendThrows
    <3>3. /\ s.at = "idle" /\ ~s.mapped /\ s.kind = session[l].kind
          /\ s.backend = session[l].backend /\ s.seen = session[l].seen
          /\ s.consistency \in {session[l].consistency, "NotApplicable"}
      BY <1>a, <3>1 DEF Session
    <3> QED BY <3>2, <3>3
  <2>2. CASE session[l].status # "Ok"
    <3>1. PICK s \in Session :
            s = [session[l] EXCEPT
                   !.at = "idle", !.mapped = FALSE, !.leaked = TRUE]
      BY <1>a DEF Session
    <3>2. session' = [session EXCEPT ![l] = s]
      BY <2>2, <3>1 DEF CloseBackendThrows
    <3>3. /\ s.at = "idle" /\ ~s.mapped /\ s.kind = session[l].kind
          /\ s.backend = session[l].backend /\ s.seen = session[l].seen
          /\ s.consistency \in {session[l].consistency, "NotApplicable"}
      BY <1>a, <3>1 DEF Session
    <3> QED BY <3>2, <3>3
  <2> QED BY <2>1, <2>2
<1>3. /\ ~lease'[l].counted /\ abandoned'[gdb_path] > 0
      /\ \A m \in Leases \ {l} : lease'[m] = lease[m]
  <2>1. lease[l].path = gdb_path
    BY <1>1 DEF AbandonFailClosed, ThreadOK, LeaseFollowsCall, SessionInv
  <2> QED BY <1>b, <1>1, <2>1 DEF AbandonFailClosed, FastReaderLease
<1>4. ThreadOK(l, s)'
  BY <1>a, <1>1, <1>2, <1>3
  DEF ThreadOK, LeaseFollowsCall, StageOfCall, FastIsOneVersion,
      GdalReportsWriter, OneVersion, LeasedStage
<1> QED BY <1>1, <1>2, <1>3, <1>4, LeaseStepKeeps DEF ReaderStep

(* A fast cursor from its opening to its close. *)
LEMMA CursorKeeps ==
  ASSUME SessionInv, NEW l \in Leases,
         \/ CursorOpen(l) \/ CursorOpenFails(l)
         \/ CursorSafePoint(l) \/ CursorRow(l)
         \/ \E failed \in BOOLEAN : CursorEnd(l, failed)
         \/ CursorClose(l) \/ CloseBackend(l)
  PROVE  SessionInv'
<1> USE DEF ThreadOK, LeaseFollowsCall, StageOfCall, FastIsOneVersion,
            GdalReportsWriter, OneVersion, LeasedStage, At
<1>a. session[l] \in Session /\ ThreadOK(l, session[l])
  BY DEF SessionInv
<1>b. session[l].at \in LeasedStage => ~disk.torn
  BY <1>a, LeasedSource DEF SessionInv
<1>c. disk \in Contents
  BY DEF SessionInv, WriterInv, WorldTypeOK
<1>1. CASE CursorOpen(l)
  <2> DEFINE s == [session[l] EXCEPT
       !.at = "cursor", !.mapped = TRUE,
       !.status = "Ok", !.consistency = "Verified"]
  <2>1. At(l, "fast_open", {"cursor"}) /\ Local(l, s)
    BY <1>1 DEF CursorOpen
  <2>2. s \in Session
    BY ZenonT(40), <1>a, StatusValues DEF Session
  <2>3. ThreadOK(l, s)
    BY <1>a, <2>1 DEF Session
  <2> QED BY <2>1, <2>2, <2>3, LocalKeeps
<1>2. CASE CursorOpenFails(l)
  <2> DEFINE s == [session[l] EXCEPT
       !.at = "release", !.status = "FastBackendReadFailed"]
  <2>1. At(l, "fast_open", {"cursor"}) /\ Local(l, s)
    BY <1>2 DEF CursorOpenFails
  <2>2. s \in Session
    BY <1>a, StatusValues DEF Session
  <2>3. ThreadOK(l, s)
    BY <1>a, <2>1 DEF Session
  <2> QED BY <2>1, <2>2, <2>3, LocalKeeps
<1>3. CASE CursorSafePoint(l)
  <2> DEFINE e == [session[l] EXCEPT
              !.at = "closing", !.status = "ReaderExpired",
              !.consistency = "NotApplicable"]
             r == [session[l] EXCEPT !.at = "cursor_row"]
  <2>1. session[l].at = "cursor" /\ (Local(l, e) \/ Local(l, r))
    BY <1>3 DEF CursorSafePoint
  <2>2. e \in Session /\ r \in Session
    BY ZenonT(40), <1>a, StatusValues DEF Session
  <2>3. ThreadOK(l, e)
    BY <1>a, <2>1 DEF Session
  <2>4. ThreadOK(l, r)
    BY <1>a, <2>1 DEF Session
  <2> QED BY <2>1, <2>2, <2>3, <2>4, LocalKeeps
<1>4. CASE CursorRow(l)
  <2> DEFINE s == [session[l] EXCEPT
       !.at = "cursor", !.seen = session[l].seen \cup {disk}]
  <2>1. session[l].at = "cursor_row" /\ Local(l, s)
    BY <1>4 DEF CursorRow
  <2>2. s \in Session
    BY <1>a, <1>c DEF Session
  <2>3. ThreadOK(l, s)
    BY <1>a, <1>b, <2>1 DEF Session
  <2> QED BY <2>1, <2>2, <2>3, LocalKeeps
<1>5. ASSUME NEW failed \in BOOLEAN, CursorEnd(l, failed) PROVE SessionInv'
  <2> DEFINE e == [session[l] EXCEPT
               !.at = "closing", !.status = "FastBackendReadFailed",
               !.consistency = "NotApplicable"]
             d == [session[l] EXCEPT !.at = "closing"]
  <2>1. session[l].at = "cursor_row" /\ (Local(l, e) \/ Local(l, d))
    BY <1>5 DEF CursorEnd
  <2>2. e \in Session /\ d \in Session
    BY ZenonT(40), <1>a, StatusValues DEF Session
  <2>3. ThreadOK(l, e)
    BY <1>a, <2>1 DEF Session
  <2>4. ThreadOK(l, d)
    BY <1>a, <2>1 DEF Session
  <2> QED BY <2>1, <2>2, <2>3, <2>4, LocalKeeps
<1>6. CASE CursorClose(l)
  <2> DEFINE s == [session[l] EXCEPT !.at = "closing"]
  <2>1. session[l].at = "cursor" /\ Local(l, s)
    BY <1>6 DEF CursorClose
  <2>2. s \in Session
    BY <1>a DEF Session
  <2>3. ThreadOK(l, s)
    BY <1>a, <2>1 DEF Session
  <2> QED BY <2>1, <2>2, <2>3, LocalKeeps
<1>7. CASE CloseBackend(l)
  <2> DEFINE s == [session[l] EXCEPT !.at = "release", !.mapped = FALSE]
  <2>1. session[l].at = "closing" /\ Local(l, s)
    BY <1>7 DEF CloseBackend
  <2>2. s \in Session
    BY <1>a DEF Session
  <2>3. ThreadOK(l, s)
    BY <1>a, <2>1 DEF Session
  <2> QED BY <2>1, <2>2, <2>3, LocalKeeps
<1> QED BY <1>1, <1>2, <1>3, <1>4, <1>5, <1>6, <1>7

-----------------------------------------------------------------------------
(* The calls without a lease. *)

(* SourceBusy, or a GDAL call begins. *)
LEMMA BeginBusyKeeps ==
  ASSUME SessionInv, NEW l \in Leases,
         \/ BeginBusyRead(l)
         \/ \E policy \in {"SourceBusy", "GdalUnverified"} :
              BeginBusyCursor(l, policy)
  PROVE  SessionInv'
<1> USE DEF ThreadOK, LeaseFollowsCall, StageOfCall, FastIsOneVersion,
            GdalReportsWriter, OneVersion, LeasedStage
<1>a. session[l] \in Session /\ ThreadOK(l, session[l])
  BY DEF SessionInv
<1>1. CASE BeginBusyRead(l)
  <2> DEFINE s == NewCall(l, "query", "gdal_before")
  <2>1. session[l].at = "idle" /\ Local(l, s)
    BY <1>1 DEF BeginBusyRead
  <2>2. s \in Session
    BY <1>a, NewCallType
  <2>3. ThreadOK(l, s)
    BY <1>a, <2>1 DEF NewCall
  <2> QED BY <2>1, <2>2, <2>3, LocalKeeps
<1>2. ASSUME NEW policy \in {"SourceBusy", "GdalUnverified"},
             BeginBusyCursor(l, policy)
      PROVE  SessionInv'
  <2> DEFINE new == NewCall(l, "cursor", "gdal_check")
             b == [NewCall(l, "cursor", "idle") EXCEPT !.status = "SourceBusy"]
             g == [new EXCEPT !.backend = "GdalOpenFileGDB",
                              !.consistency = "UnverifiedConcurrentRead"]
  <2>1. session[l].at = "idle" /\ (Local(l, b) \/ Local(l, g))
    BY <1>2 DEF BeginBusyCursor
  <2>2. NewCall(l, "cursor", "idle") \in Session /\ new \in Session
    BY <1>a, NewCallType
  <2>3. b \in Session
    BY <2>2, StatusValues DEF Session
  <2>4. g \in Session
    <3>1. ASSUME NEW n \in Session
          PROVE  [n EXCEPT !.backend = "GdalOpenFileGDB",
                           !.consistency = "UnverifiedConcurrentRead"]
                   \in Session
      BY ZenonT(40) DEF Session
    <3> QED BY <2>2, <3>1
  <2>5. ThreadOK(l, b)
    BY <1>a, <2>1 DEF NewCall
  <2>6. ThreadOK(l, g)
    BY <1>a, <2>1 DEF NewCall
  <2> QED BY <2>1, <2>3, <2>4, <2>5, <2>6, LocalKeeps
<1> QED BY <1>1, <1>2

(* A GDAL query looks at the coordinator before its backend opens. *)
LEMMA ReadBeforeKeeps ==
  ASSUME SessionInv, NEW l \in Leases,
         NEW policy \in {"SourceBusy", "GdalUnverified"}, ReadBefore(l, policy)
  PROVE  SessionInv'
<1> DEFINE pending == sources[gdb_path].writer_pending
           active == sources[gdb_path].writer_active
           events == sources[gdb_path].pending_events
           b == [session[l] EXCEPT
                  !.pending_events_before = events,
                  !.writer_pending_seen = pending,
                  !.writer_active_seen = active]
<1>a. session[l] \in Session /\ ThreadOK(l, session[l])
  BY DEF SessionInv
<1>b. pending \in BOOLEAN /\ active \in BOOLEAN /\ events \in Nat
  BY SourceAssumption
  DEF SessionInv, WriterInv, IndInv, TypeOK, CoordinatedSourceEntry
<1>c. b \in Session
  <2> HIDE DEF pending, active, events
  <2> QED BY <1>a, <1>b DEF Session
<1>d. /\ b.kind = session[l].kind /\ b.mapped = session[l].mapped
      /\ b.leaked = session[l].leaked /\ b.seen = session[l].seen
      /\ b.changed = session[l].changed /\ b.status = session[l].status
      /\ b.pending_events_before = events /\ b.backend = session[l].backend
      /\ b.writer_pending_seen = pending /\ b.writer_active_seen = active
      /\ b.consistency = session[l].consistency
  <2> HIDE DEF pending, active, events
  <2> QED BY <1>a DEF Session
<1>1. /\ session[l].at = "gdal_before"
      /\ \/ Local(l, [b EXCEPT !.at = "idle", !.status = "SourceBusy"])
         \/ Local(l, [b EXCEPT !.at = "gdal_check",
                               !.backend = "GdalOpenFileGDB",
                               !.consistency = "UnverifiedConcurrentRead"])
  BY DEF ReadBefore
<1>2. pending \/ active \/ Quiet
  BY DEF Quiet
<1> HIDE DEF b, pending, active
<1> USE DEF ThreadOK, LeaseFollowsCall, StageOfCall, FastIsOneVersion,
            GdalReportsWriter, OneVersion, LeasedStage, MetWriter
<1>3. ASSUME Local(l, [b EXCEPT !.at = "idle", !.status = "SourceBusy"])
      PROVE  SessionInv'
  <2> DEFINE s == [b EXCEPT !.at = "idle", !.status = "SourceBusy"]
  <2>1. s \in Session
    BY <1>c, StatusValues DEF Session
  <2>2. ThreadOK(l, s)
    BY <1>a, <1>c, <1>d, <1>1 DEF Session
  <2> QED BY <1>3, <2>1, <2>2, LocalKeeps
<1>4. ASSUME Local(l, [b EXCEPT !.at = "gdal_check",
                                !.backend = "GdalOpenFileGDB",
                                !.consistency = "UnverifiedConcurrentRead"])
      PROVE  SessionInv'
  <2> DEFINE s == [b EXCEPT !.at = "gdal_check",
                            !.backend = "GdalOpenFileGDB",
                            !.consistency = "UnverifiedConcurrentRead"]
  <2>1. s \in Session
    BY ZenonT(40), <1>c DEF Session
  <2>2. ThreadOK(l, s)
    BY <1>a, <1>b, <1>c, <1>d, <1>1, <1>2 DEF Session
  <2> QED BY <1>4, <2>1, <2>2, LocalKeeps
<1> QED BY <1>1, <1>3, <1>4

(* A GDAL call checks its binding, opens and reads. *)
LEMMA GdalCallKeeps ==
  ASSUME SessionInv, NEW l \in Leases,
         \/ CheckBinding(l) \/ GdalOpen(l) \/ GdalOpenFails(l) \/ GdalRead(l)
         \/ \E f \in {"None", "Read"} : GdalReadDone(l, f)
         \/ \E st \in {"Ok", "GdalReadFailed"} : GdalCursorEnd(l, st)
  PROVE  SessionInv'
<1> USE DEF ThreadOK, LeaseFollowsCall, StageOfCall, FastIsOneVersion,
            GdalReportsWriter, MetWriter, LeasedStage
<1>a. session[l] \in Session /\ ThreadOK(l, session[l])
  BY DEF SessionInv
<1>c. /\ disk \in Contents
      /\ sources[gdb_path].generation \in Nat
  BY SourceAssumption
  DEF SessionInv, WriterInv, WorldTypeOK, IndInv, TypeOK,
      CoordinatedSourceEntry
<1> DEFINE opened == IF session[l].kind = "query" THEN "gdal_read"
                                                  ELSE "gdal_cursor"
           failed == IF session[l].kind = "query" THEN "gdal_after"
                                                  ELSE "gdal_cursor"
<1>d. /\ opened \in {"gdal_read", "gdal_cursor"}
      /\ failed \in {"gdal_after", "gdal_cursor"}
      /\ session[l].kind = "query" <=> opened = "gdal_read"
      /\ session[l].kind = "query" <=> failed = "gdal_after"
      /\ session[l].kind # "query" <=> opened = "gdal_cursor"
      /\ session[l].kind # "query" <=> failed = "gdal_cursor"
  OBVIOUS
<1>e. session[l].at \in {"gdal_check", "gdal_open"} =>
        session[l].kind \in {"query", "cursor"}
  BY <1>a
<1>1. CASE CheckBinding(l)
  <2> DEFINE g == [session[l] EXCEPT !.at = "gdal_open"]
             e == [session[l] EXCEPT !.at = failed, !.failure = "Read"]
  <2>1. session[l].at = "gdal_check" /\ (Local(l, g) \/ Local(l, e))
    BY <1>1 DEF CheckBinding
  <2> HIDE DEF failed
  <2>2. g \in Session
    BY <1>a DEF Session
  <2>3. e \in Session
    BY ZenonT(40), <1>a, <1>d DEF Session
  <2>4. ThreadOK(l, g)
    BY <1>a, <2>1 DEF Session
  <2>5. ThreadOK(l, e)
    BY <1>a, <1>d, <1>e, <2>1 DEF Session
  <2> QED BY <2>1, <2>2, <2>3, <2>4, <2>5, LocalKeeps
<1>2. CASE GdalOpen(l)
  <2> DEFINE generation == sources[gdb_path].generation
             s == [session[l] EXCEPT !.at = opened,
                                     !.opened_generation = generation]
  <2>1. session[l].at = "gdal_open" /\ Local(l, s)
    BY <1>2 DEF GdalOpen
  <2>a. generation \in Nat
    BY <1>c
  <2> HIDE DEF opened, generation
  <2>2. s \in Session
    BY <1>a, <1>d, <2>a DEF Session
  <2>3. ThreadOK(l, s)
    BY <1>a, <1>d, <1>e, <2>1 DEF Session
  <2> QED BY <2>1, <2>2, <2>3, LocalKeeps
<1>3. CASE GdalOpenFails(l)
  <2> DEFINE q == [session[l] EXCEPT !.at = "gdal_after", !.failure = "Open"]
             c == [session[l] EXCEPT !.at = "idle", !.status = "GdalOpenFailed"]
  <2>1. /\ session[l].at = "gdal_open"
        /\ \/ session[l].kind = "query" /\ Local(l, q)
           \/ session[l].kind # "query" /\ Local(l, c)
    BY <1>3 DEF GdalOpenFails
  <2>2. q \in Session
    BY <1>a DEF Session
  <2>3. c \in Session
    BY <1>a, StatusValues DEF Session
  <2>4. session[l].kind = "query" => ThreadOK(l, q)
    BY <1>a, <2>1 DEF Session
  <2>5. session[l].kind # "query" => ThreadOK(l, c)
    BY <1>a, <2>1 DEF Session
  <2> QED BY <2>1, <2>2, <2>3, <2>4, <2>5, LocalKeeps
<1>4. CASE GdalRead(l)
  <2> DEFINE s == [session[l] EXCEPT !.seen = session[l].seen \cup {disk}]
  <2>1. session[l].at \in {"gdal_read", "gdal_cursor"} /\ Local(l, s)
    BY <1>4 DEF GdalRead
  <2>2. s \in Session
    BY <1>a, <1>c DEF Session
  <2>a. /\ s.seen = session[l].seen \cup {disk}
        /\ s.seen \subseteq {disk} <=> session[l].seen \subseteq {disk}
    BY <1>a DEF Session
  <2>b. /\ s.at = session[l].at /\ s.kind = session[l].kind
        /\ s.mapped = session[l].mapped /\ s.leaked = session[l].leaked
        /\ s.changed = session[l].changed /\ s.status = session[l].status
        /\ s.pending_events_before = session[l].pending_events_before
        /\ s.backend = session[l].backend
        /\ s.writer_pending_seen = session[l].writer_pending_seen
        /\ s.writer_active_seen = session[l].writer_active_seen
        /\ s.consistency = session[l].consistency
    BY <1>a DEF Session
  <2> HIDE DEF s
  <2>3. ThreadOK(l, s)
    <3>1. LeaseFollowsCall(l, s) /\ StageOfCall(s)
      BY <1>a, <2>b
    <3>2. FastIsOneVersion(s)
      BY <1>a, <2>1, <2>a, <2>b
    <3>3. GdalReportsWriter(s)
      BY <1>a, <2>1, <2>a, <2>b
    <3> QED BY <3>1, <3>2, <3>3
  <2> QED BY <2>1, <2>2, <2>3, LocalKeeps
<1>5. ASSUME NEW f \in {"None", "Read"}, GdalReadDone(l, f) PROVE SessionInv'
  <2> DEFINE s == [session[l] EXCEPT !.at = "gdal_after", !.failure = f]
  <2>1. session[l].at = "gdal_read" /\ Local(l, s)
    BY <1>5 DEF GdalReadDone
  <2>2. s \in Session
    BY <1>a DEF Session
  <2>3. ThreadOK(l, s)
    BY <1>a, <2>1 DEF Session
  <2> QED BY <2>1, <2>2, <2>3, LocalKeeps
<1>6. ASSUME NEW st \in {"Ok", "GdalReadFailed"}, GdalCursorEnd(l, st)
      PROVE  SessionInv'
  <2> DEFINE s == [session[l] EXCEPT !.at = "idle", !.status = st]
  <2>1. session[l].at = "gdal_cursor" /\ Local(l, s)
    BY <1>6 DEF GdalCursorEnd
  <2>2. s \in Session
    BY <1>a, StatusValues DEF Session
  <2>3. ThreadOK(l, s)
    BY <1>a, <2>1 DEF Session
  <2> QED BY <2>1, <2>2, <2>3, LocalKeeps
<1> QED BY <1>1, <1>2, <1>3, <1>4, <1>5, <1>6

(* The result of a GDAL query: the event counter tells of a Writer that came
   and went between the two looks. *)
LEMMA ReadAfterKeeps ==
  ASSUME SessionInv, NEW l \in Leases, ReadAfter(l)
  PROVE  SessionInv'
<1> DEFINE pending == \/ session[l].writer_pending_seen
                      \/ sources[gdb_path].writer_pending
                      \/ sources[gdb_path].pending_events
                           # session[l].pending_events_before
           active == \/ session[l].writer_active_seen
                     \/ sources[gdb_path].writer_active
           status == CASE session[l].failure = "None" -> "Ok"
                       [] session[l].failure = "Open" -> "GdalOpenFailed"
                       [] session[l].failure = "Read" -> "GdalReadFailed"
           s == [session[l] EXCEPT
                   !.at = "idle",
                   !.writer_pending_seen = pending,
                   !.writer_active_seen = active,
                   !.status = status]
<1>a. session[l] \in Session /\ ThreadOK(l, session[l])
  BY DEF SessionInv
<1>1. session[l].at = "gdal_after" /\ Local(l, s)
  BY DEF ReadAfter
<1>2. status \in {"Ok", "GdalOpenFailed", "GdalReadFailed"}
  BY <1>a DEF Session
<1>3. pending \in BOOLEAN /\ active \in BOOLEAN
  OBVIOUS
<1>4. pending \/ active \/ OneVersion(session[l].seen)
  <2>1. /\ session[l].pending_events_before \in Nat
        /\ sources[gdb_path].pending_events \in Nat
    BY <1>a, SourceAssumption
    DEF Session, SessionInv, WriterInv, IndInv, TypeOK, CoordinatedSourceEntry
  <2>2. MetWriter(session[l]) \/ (Quiet /\ session[l].seen \subseteq {disk})
    BY <1>a, <1>1 DEF ThreadOK, StageOfCall, GdalReportsWriter
  <2>3. CASE MetWriter(session[l])
    BY <2>1, <2>3 DEF MetWriter
  <2>4. CASE Quiet /\ session[l].seen \subseteq {disk}
    BY <2>4, QuietFilesWhole DEF SessionInv, OneVersion
  <2> QED BY <2>2, <2>3, <2>4
<1> HIDE DEF pending, active, status
<1>5. s \in Session
  BY ZenonT(40), <1>a, <1>2, <1>3, StatusValues DEF Session
<1>6. ThreadOK(l, s)
  BY <1>a, <1>1, <1>2, <1>4
  DEF Session, ThreadOK, LeaseFollowsCall, StageOfCall, FastIsOneVersion,
      GdalReportsWriter, LeasedStage
<1> QED BY <1>1, <1>5, <1>6, LocalKeeps

-----------------------------------------------------------------------------
LEMMA SessionInductive == SessionInv /\ [SessionNext]_svars => SessionInv'
<1> SUFFICES ASSUME SessionInv, [SessionNext]_svars PROVE SessionInv'
  OBVIOUS
<1>1. ASSUME NEW l \in Leases, ReaderBegins(l) PROVE SessionInv'
  BY <1>1, BeginFastKeeps, BeginBusyKeeps DEF ReaderBegins
<1>2. ASSUME NEW l \in Leases, ReaderProgress(l) PROVE SessionInv'
  BY <1>2, FastCallKeeps, GiveBackKeeps, CursorKeeps, CloseThrowsKeeps,
     ReadBeforeKeeps, GdalCallKeeps, ReadAfterKeeps
  DEF ReaderProgress
<1>3. ASSUME NEW w \in Writers, WriterStep(w), UNCHANGED session
      PROVE  SessionInv'
  BY <1>3, WriterStepKeeps
<1>4. CASE UNCHANGED svars
  <2>1. UNCHANGED <<vars, world, session>>
    BY <1>4 DEF svars
  <2>2. IndInv'
    BY <2>1, Inductive DEF SessionInv, WriterInv
  <2> QED
    BY <2>1, <2>2
    DEF vars, world, SessionInv, WriterInv, WorldTypeOK, IdsOwned, DatasetHeld,
        TornWhileWritten, ThreadOK, LeaseFollowsCall, StageOfCall,
        FastIsOneVersion, GdalReportsWriter, MetWriter, Quiet
<1> QED BY <1>1, <1>2, <1>3, <1>4 DEF SessionNext

(* The inductive invariant of the session holds in every behaviour. *)
THEOREM SessionInvariance == SessionSpec => []SessionInv
<1>1. SessionInit => SessionInv
  BY InitSessionInv
<1>2. SessionInv /\ [SessionNext]_svars => SessionInv'
  BY SessionInductive
<1> QED BY <1>1, <1>2, PTL DEF SessionSpec

(* Every variable of the session, its coordinator and its source keeps its
   type. *)
THEOREM SessionTypeCorrect == SessionSpec => []SessionTypeOK
<1>1. SessionInv => SessionTypeOK
  BY DEF SessionInv, WriterInv, IndInv, SessionTypeOK
<1> QED BY <1>1, SessionInvariance, PTL

(* No Writer has the source open for update, reported or not, while a fast
   backend has it mapped: not under a query, not under an idle cursor, not
   after a close() that threw. *)
THEOREM UpdateExcluded == SessionSpec => []MappingExcludesUpdate
<1>1. SessionInv => MappingExcludesUpdate
  <2> SUFFICES ASSUME SessionInv, NEW w \in Writers, update_dataset[w] # "none",
                      NEW l \in Leases
               PROVE  ~session[l].mapped /\ ~session[l].leaked
    BY DEF MappingExcludesUpdate
  <2>1. Holders(gdb_path) = {} /\ abandoned[gdb_path] = 0
    BY UpdateHoldsSource DEF SessionInv
  <2>2. LeaseFollowsCall(l, session[l])
    BY DEF SessionInv, ThreadOK
  <2>3. ~lease[l].counted
    BY <2>1, <2>2 DEF LeaseFollowsCall, Holders
  <2> QED BY <2>1, <2>2, <2>3 DEF LeaseFollowsCall, LeasedStage
<1> QED BY <1>1, SessionInvariance, PTL

(* What a result or a cursor calls Verified was read from one version of the
   source, never from half of an update. *)
THEOREM VerifiedSnapshot == SessionSpec => []VerifiedIsOneSnapshot
<1>1. SessionInv => VerifiedIsOneSnapshot
  BY DEF SessionInv, ThreadOK, FastIsOneVersion, OneVersion,
         VerifiedIsOneSnapshot
<1> QED BY <1>1, SessionInvariance, PTL

(* The result of a query whose rows are not of one version says that a Writer
   was there, also one that came and went between two looks. *)
THEOREM WriterReported == SessionSpec => []TornReadReportsWriter
<1>1. SessionInv => TornReadReportsWriter
  <2> SUFFICES ASSUME SessionInv, NEW l \in Leases, At(l, "idle", {"query"}),
                      ~session[l].writer_pending_seen,
                      ~session[l].writer_active_seen
               PROVE  OneVersion(session[l].seen)
    BY DEF TornReadReportsWriter, OneVersion
  <2>1. session[l] \in Session /\ ThreadOK(l, session[l])
    BY DEF SessionInv
  <2>2. session[l].backend \in {"None", "FastGdb", "GdalOpenFileGDB"}
    BY <2>1 DEF Session
  <2>3. session[l].at = "idle" /\ session[l].kind = "query"
    BY DEF At
  <2> QED
    BY <2>1, <2>2, <2>3
    DEF ThreadOK, FastIsOneVersion, GdalReportsWriter, OneVersion
<1> QED BY <1>1, SessionInvariance, PTL

(* read() never returns ReaderExpired for a query that had its lease. *)
THEOREM LeasedNeverExpires == SessionSpec => []LeasedQueryNeverExpires
<1>1. SessionInv => LeasedQueryNeverExpires
  BY DEF SessionInv, ThreadOK, StageOfCall, LeasedQueryNeverExpires
<1> QED BY <1>1, SessionInvariance, PTL

(* A call that is over holds no lease and no mapping of its own. *)
THEOREM FinishedHoldsNothing == SessionSpec => []FinishedCallHoldsNothing
<1>1. SessionInv => FinishedCallHoldsNothing
  BY DEF SessionInv, ThreadOK, LeaseFollowsCall, LeasedStage,
         FinishedCallHoldsNothing
<1> QED BY <1>1, SessionInvariance, PTL

-----------------------------------------------------------------------------
(* A step of the session is a step of the coordinator, or none of its. *)
LEMMA SessionStepCoordinates ==
  SessionInv /\ [SessionNext]_svars => [Next]_vars
<1> SUFFICES ASSUME SessionInv, [SessionNext]_svars PROVE [Next]_vars
  OBVIOUS
<1>1. ASSUME NEW l \in Leases, ReaderBegins(l) PROVE [Next]_vars
  BY <1>1, SourceAssumption
  DEF ReaderBegins, BeginFast, BeginBusyRead, BeginBusyCursor, Local, Next,
      ReaderStep
<1>2. ASSUME NEW l \in Leases, ReaderProgress(l) PROVE [Next]_vars
  <2>1. CASE ReleaseLease(l) \/ NotifyReleased(l) \/ CloseBackendThrows(l)
    BY <2>1
    DEF ReleaseLease, NotifyReleased, CloseBackendThrows, Next, ReaderStep
  <2>2. CASE ~(ReleaseLease(l) \/ NotifyReleased(l) \/ CloseBackendThrows(l))
    <3>1. UNCHANGED vars
      BY <1>2, <2>2
      DEF ReaderProgress, FastOpen, FastOpenFails, FastRead, FastReadDone,
          FastState, FastPendingObserved, CursorOpen, CursorOpenFails,
          CursorSafePoint, CursorRow, CursorEnd, CursorClose, CloseBackend,
          ReadBefore, CheckBinding, GdalOpen, GdalOpenFails, GdalRead,
          GdalReadDone, ReadAfter, GdalCursorEnd, Local
    <3> QED BY <3>1
  <2> QED BY <2>1, <2>2
<1>3. ASSUME NEW w \in Writers, WriterStep(w) PROVE [Next]_vars
  BY <1>3, WriterCoordinates DEF SessionInv
<1>4. CASE UNCHANGED svars
  BY <1>4 DEF svars
<1> QED BY <1>1, <1>2, <1>3, <1>4 DEF SessionNext

(* The session with its Writers uses the coordinator as the coordinator
   allows: everything proved of it holds beside the session. *)
THEOREM SessionCoordinates == SessionSpec => Spec
<1>1. SessionInit => Init
  BY DEF SessionInit
<1>2. SessionInv /\ [SessionNext]_svars => [Next]_vars
  BY SessionStepCoordinates
<1>3. []SessionInv /\ [][SessionNext]_svars => [][Next]_vars
  BY <1>2, PTL
<1> QED BY <1>1, <1>3, SessionInvariance, PTL DEF SessionSpec, Spec
=============================================================================
