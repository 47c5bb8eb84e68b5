--------------------------- MODULE GdbCoordinator ---------------------------
(***************************************************************************)
(* The in-process coordinator of fast readers and external Writers         *)
(* (adaptive_coordination.cpp and the classes of adaptive_reader.h).       *)
(*                                                                         *)
(* One registry, shared by every coordinator object of the process, holds  *)
(* one entry per normalised .gdb path.  A fast reader holds a              *)
(* FastReaderLease.  A Writer calls prepare_external_update, which stops   *)
(* new leases, waits for the leases already given out, and returns an      *)
(* ExternalUpdateToken; the Writer then reports that it opened and closed  *)
(* its update Dataset.                                                     *)
(*                                                                         *)
(* Every step below is one critical section of the registry mutex, except  *)
(* NotifyAfterRelease, the notify_all that release() calls after it has    *)
(* unlocked.  The other notify_all calls are part of the step before them: *)
(* only release() can make the predicate of a sleeping call true, so when  *)
(* those wake it makes no difference but to how soon it looks again.  A    *)
(* call that the code rejects changes nothing and is no step.              *)
(* The widths of the counters are left out: they are uint64_t and count    *)
(* Writer lifecycles.                                                      *)
(***************************************************************************)
EXTENDS Naturals, FiniteSets

CONSTANTS
  Paths,          \* normalised source paths
  Leases,         \* FastReaderLease objects of the process
  Writers,        \* variables of the process that hold an ExternalUpdateToken
  NoPath,         \* a lease or token whose registry pointer is null
  MaxTokens,      \* bound: Writer lifecycles ever begun
  MaxAbandoned    \* bound: leases ever given up by abandon_fail_closed

ASSUME CoordinatorAssumption ==
  /\ IsFiniteSet(Leases)
  /\ NoPath \notin Paths
  /\ MaxTokens \in Nat
  /\ MaxAbandoned \in Nat

VARIABLES
  sources,        \* CoordinatorRegistry::sources
  next_token_id,  \* CoordinatorRegistry::next_token_id
  lease,          \* the state of each FastReaderLease
  notifying,      \* leases whose release() has unlocked and not yet notified
  token,          \* the state of each ExternalUpdateToken
  call,           \* the prepare_external_update call made into each Writer
  abandoned       \* ghost: leases given up per path, never counted down

vars == <<sources, next_token_id, lease, notifying, token, call, abandoned>>

-----------------------------------------------------------------------------
(* Values *)

CoordinatedSourceEntry ==
  [writer_pending : BOOLEAN,
   writer_active : BOOLEAN,
   source_verified : BOOLEAN,
   writer_generation_invalidated : BOOLEAN,
   generation : Nat,
   pending_events : Nat,
   fast_reader_count : Nat,
   writer_token_id : Nat]

FastReaderLease ==
  [counted : BOOLEAN,
   path : Paths \cup {NoPath},
   generation : Nat,
   pending_events : Nat]

ExternalUpdateToken ==
  [phase : {"Invalid", "Pending", "Active", "Closed"},
   path : Paths \cup {NoPath},
   token_id : Nat]

\* A prepare call sleeps on the condition variable or is awake and must
\* look at its predicate again.
PrepareCall ==
  [at : {"idle", "asleep", "awake"},
   path : Paths \cup {NoPath},
   token_id : Nat]

EmptyLease == [counted |-> FALSE, path |-> NoPath,
               generation |-> 0, pending_events |-> 0]
InvalidToken == [phase |-> "Invalid", path |-> NoPath, token_id |-> 0]
NoCall == [at |-> "idle", path |-> NoPath, token_id |-> 0]

TypeOK ==
  /\ sources \in [Paths -> CoordinatedSourceEntry]
  /\ next_token_id \in Nat
  /\ lease \in [Leases -> FastReaderLease]
  /\ notifying \subseteq Leases
  /\ token \in [Writers -> ExternalUpdateToken]
  /\ call \in [Writers -> PrepareCall]
  /\ abandoned \in [Paths -> Nat]

\* An absent entry of the map behaves as a default-constructed one.
Init ==
  /\ sources = [p \in Paths |->
       [writer_pending |-> FALSE, writer_active |-> FALSE,
        source_verified |-> TRUE, writer_generation_invalidated |-> FALSE,
        generation |-> 0, pending_events |-> 0,
        fast_reader_count |-> 0, writer_token_id |-> 0]]
  /\ next_token_id = 1
  /\ lease = [l \in Leases |-> EmptyLease]
  /\ notifying = {}
  /\ token = [w \in Writers |-> InvalidToken]
  /\ call = [w \in Writers |-> NoCall]
  /\ abandoned = [p \in Paths |-> 0]

\* condition.notify_all(): the condition variable belongs to the registry, so
\* the calls sleeping for every path are woken.
NotifyAll(calls) ==
  [w \in Writers |-> IF calls[w].at = "asleep"
                       THEN [calls[w] EXCEPT !.at = "awake"] ELSE calls[w]]

-----------------------------------------------------------------------------
(* Fast readers *)

\* Fault: the Active check is missing.
AdmitsWhileActive(p) ==
  ~sources[p].writer_pending /\ sources[p].source_verified

\* Fault: the Pending check is missing.
AdmitsWhilePending(p) ==
  ~sources[p].writer_active /\ sources[p].source_verified

\* try_acquire_fast_reader would give out a lease of p.
Admits(p) ==
  /\ ~sources[p].writer_pending
  /\ ~sources[p].writer_active
  /\ sources[p].source_verified

\* try_acquire_fast_reader(p), its result stored in the empty lease l.
TryAcquireFastReader(l, p) ==
  /\ ~lease[l].counted /\ l \notin notifying
  /\ Admits(p)
  /\ sources' = [sources EXCEPT ![p].fast_reader_count = @ + 1]
  /\ lease' = [lease EXCEPT ![l] =
       [counted |-> TRUE, path |-> p,
        generation |-> sources[p].generation,
        pending_events |-> sources[p].pending_events]]
  /\ UNCHANGED <<next_token_id, notifying, token, call, abandoned>>

\* Fault: counted_ is not cleared and the count is taken down unchecked.
ReleaseTwice(l) ==
  /\ lease[l].counted
  /\ sources' = [sources EXCEPT ![lease[l].path].fast_reader_count = @ - 1]
  /\ notifying' = notifying \cup {l}
  /\ UNCHANGED <<next_token_id, lease, token, call, abandoned>>

\* Fault: release() does not notify.
ReleaseSilently(l) ==
  /\ lease[l].counted
  /\ sources' = [sources EXCEPT ![lease[l].path].fast_reader_count = @ - 1]
  /\ lease' = [lease EXCEPT ![l].counted = FALSE]
  /\ UNCHANGED <<next_token_id, notifying, token, call, abandoned>>

\* release(), by name or by the destructor, up to the unlock.
Release(l) ==
  /\ lease[l].counted
  /\ sources' = [sources EXCEPT ![lease[l].path].fast_reader_count =
                   IF @ > 0 THEN @ - 1 ELSE @]
  /\ lease' = [lease EXCEPT ![l].counted = FALSE]
  /\ notifying' = notifying \cup {l}
  /\ UNCHANGED <<next_token_id, token, call, abandoned>>

\* Fault: the notify_all reaches nobody.
NotifyNobody(l) ==
  /\ l \in notifying
  /\ notifying' = notifying \ {l}
  /\ UNCHANGED <<sources, next_token_id, lease, token, call, abandoned>>

\* The notify_all of release(), outside the lock.
NotifyAfterRelease(l) ==
  /\ l \in notifying
  /\ notifying' = notifying \ {l}
  /\ call' = NotifyAll(call)
  /\ UNCHANGED <<sources, next_token_id, lease, token, abandoned>>

\* abandon_fail_closed(): the backend could not be closed; the lease forgets
\* the registry and leaves its count in the entry for ever.
AbandonFailClosed(l) ==
  /\ lease[l].counted
  /\ abandoned[lease[l].path] < MaxAbandoned
  /\ lease' = [lease EXCEPT ![l] = [@ EXCEPT !.counted = FALSE, !.path = NoPath]]
  /\ abandoned' = [abandoned EXCEPT ![lease[l].path] = @ + 1]
  /\ UNCHANGED <<sources, next_token_id, notifying, token, call>>

\* Fault: the moved-from lease stays counted.
CopyLease(l, m) ==
  /\ l # m /\ {l, m} \cap notifying = {}
  /\ lease[l].counted /\ ~lease[m].counted
  /\ lease' = [lease EXCEPT ![m] = lease[l]]
  /\ UNCHANGED <<sources, next_token_id, notifying, token, call, abandoned>>

\* The move constructor, and the move assignment after its release().
MoveLease(l, m) ==
  /\ l # m /\ {l, m} \cap notifying = {}
  /\ lease[l].counted /\ ~lease[m].counted
  /\ lease' = [lease EXCEPT ![m] = lease[l], ![l] = EmptyLease]
  /\ UNCHANGED <<sources, next_token_id, notifying, token, call, abandoned>>

\* expired_at_safe_point() and writer_pending_observed(), for a held lease.
ExpiredAtSafePoint(l) ==
  \/ lease[l].path = NoPath
  \/ sources[lease[l].path].writer_pending
  \/ sources[lease[l].path].writer_active
  \/ ~sources[lease[l].path].source_verified
  \/ sources[lease[l].path].generation # lease[l].generation

WriterPendingObserved(l) ==
  /\ lease[l].path # NoPath
  /\ sources[lease[l].path].pending_events # lease[l].pending_events

-----------------------------------------------------------------------------
(* prepare_external_update *)

\* A token variable that may take the result of a prepare call.
CanPrepare(w, p) ==
  /\ call[w].at = "idle"
  /\ token[w].phase \in {"Invalid", "Closed"}
  /\ next_token_id <= MaxTokens
  /\ ~sources[p].writer_pending
  /\ ~sources[p].writer_active

MarkPending(p) ==
  /\ sources' = [sources EXCEPT ![p] =
       [@ EXCEPT !.writer_pending = TRUE,
                 !.pending_events = sources[p].pending_events + 1,
                 !.writer_token_id = next_token_id]]
  /\ next_token_id' = next_token_id + 1

\* No lease is out: the predicate holds at once and the token is returned
\* without the mutex ever being given up.
PrepareImmediate(w, p) ==
  /\ CanPrepare(w, p)
  /\ sources[p].fast_reader_count = 0
  /\ MarkPending(p)
  /\ call' = NotifyAll(call)
  /\ token' = [token EXCEPT ![w] =
       [phase |-> "Pending", path |-> p, token_id |-> next_token_id]]
  /\ UNCHANGED <<lease, notifying, abandoned>>

\* Leases are out: the call sleeps, the mutex is free.
PrepareWait(w, p) ==
  /\ CanPrepare(w, p)
  /\ sources[p].fast_reader_count # 0
  /\ MarkPending(p)
  /\ call' = [NotifyAll(call) EXCEPT ![w] =
       [at |-> "asleep", path |-> p, token_id |-> next_token_id]]
  /\ UNCHANGED <<lease, notifying, token, abandoned>>

\* The predicate of wait_for.
Drained(w) ==
  /\ sources[call[w].path].writer_pending
  /\ sources[call[w].path].writer_token_id = call[w].token_id
  /\ sources[call[w].path].fast_reader_count = 0

ReturnToken(w) ==
  /\ token' = [token EXCEPT ![w] = [phase |-> "Pending",
                 path |-> call[w].path, token_id |-> call[w].token_id]]
  /\ call' = [call EXCEPT ![w] = NoCall]
  /\ UNCHANGED <<sources, next_token_id, lease, notifying, abandoned>>

PrepareDrained(w) ==
  /\ call[w].at = "awake" /\ Drained(w)
  /\ ReturnToken(w)

WaitAgain(w) ==
  /\ call[w].at = "awake" /\ ~Drained(w)
  /\ call' = [call EXCEPT ![w].at = "asleep"]
  /\ UNCHANGED <<sources, next_token_id, lease, notifying, token, abandoned>>

\* A condition variable may wake a sleeper for no reason.
SpuriousWake(w) ==
  /\ call[w].at = "asleep"
  /\ call' = [call EXCEPT ![w].at = "awake"]
  /\ UNCHANGED <<sources, next_token_id, lease, notifying, token, abandoned>>

\* drain_timeout has passed: the predicate is evaluated one last time.
TimeoutDrained(w) ==
  /\ call[w].at = "asleep" /\ Drained(w)
  /\ ReturnToken(w)

\* Fault: the timed-out call leaves its pending mark behind.
TimeoutLeavesPending(w) ==
  /\ call[w].at = "asleep" /\ ~Drained(w)
  /\ call' = NotifyAll([call EXCEPT ![w] = NoCall])
  /\ UNCHANGED <<sources, next_token_id, lease, notifying, token, abandoned>>

\* Fault: the call goes on waiting after its deadline.
TimeoutWaitsOn(w) ==
  /\ call[w].at = "asleep" /\ ~Drained(w)
  /\ call' = [call EXCEPT ![w].at = "awake"]
  /\ UNCHANGED <<sources, next_token_id, lease, notifying, token, abandoned>>

\* ReadersActive: the pending mark is withdrawn if it is still this call's.
TimeoutReadersActive(w) ==
  /\ call[w].at = "asleep" /\ ~Drained(w)
  /\ sources' = [sources EXCEPT ![call[w].path] =
       IF @.writer_pending /\ @.writer_token_id = call[w].token_id
         THEN [@ EXCEPT !.writer_pending = FALSE, !.writer_token_id = 0]
         ELSE @]
  /\ call' = NotifyAll([call EXCEPT ![w] = NoCall])
  /\ UNCHANGED <<next_token_id, lease, notifying, token, abandoned>>

-----------------------------------------------------------------------------
(* ExternalUpdateToken *)

\* The token's own Pending mark is in the entry.
OwnsPending(w) ==
  /\ token[w].phase = "Pending"
  /\ sources[token[w].path].writer_pending
  /\ sources[token[w].path].writer_token_id = token[w].token_id

NotifyUpdateOpened(w) ==
  /\ OwnsPending(w)
  /\ sources[token[w].path].fast_reader_count = 0
  /\ sources' = [sources EXCEPT ![token[w].path] =
       [@ EXCEPT !.writer_pending = FALSE, !.writer_active = TRUE,
                 !.writer_generation_invalidated = FALSE]]
  /\ token' = [token EXCEPT ![w].phase = "Active"]
  /\ call' = NotifyAll(call)
  /\ UNCHANGED <<next_token_id, lease, notifying, abandoned>>

ClearPending(p) ==
  sources' = [sources EXCEPT ![p] =
    [@ EXCEPT !.writer_pending = FALSE, !.writer_token_id = 0]]

CancelBeforeUpdate(w) ==
  /\ OwnsPending(w)
  /\ ClearPending(token[w].path)
  /\ token' = [token EXCEPT ![w].phase = "Closed"]
  /\ call' = NotifyAll(call)
  /\ UNCHANGED <<next_token_id, lease, notifying, abandoned>>

\* Fault: every report moves the generation.
CompleteCountsEveryReport(p, id, close_succeeded) ==
  /\ sources[p].writer_active
  /\ sources[p].writer_token_id = id
  /\ sources' = [sources EXCEPT ![p] =
       [@ EXCEPT
          !.generation = sources[p].generation + 1,
          !.writer_generation_invalidated = ~close_succeeded,
          !.source_verified = close_succeeded,
          !.writer_active = ~close_succeeded,
          !.writer_token_id = IF close_succeeded THEN 0 ELSE id]]
  /\ call' = NotifyAll(call)

\* complete_external_update: the first report of a lifecycle moves the
\* generation; only a report of success ends the lifecycle.
CompleteExternalUpdate(p, id, close_succeeded) ==
  /\ sources[p].writer_active
  /\ sources[p].writer_token_id = id
  /\ sources' = [sources EXCEPT ![p] =
       [@ EXCEPT
          !.generation = IF sources[p].writer_generation_invalidated
                           THEN sources[p].generation
                           ELSE sources[p].generation + 1,
          !.writer_generation_invalidated = ~close_succeeded,
          !.source_verified = close_succeeded,
          !.writer_active = ~close_succeeded,
          !.writer_token_id = IF close_succeeded THEN 0 ELSE id]]
  /\ call' = NotifyAll(call)

NotifyUpdateClosed(w, close_succeeded) ==
  /\ token[w].phase = "Active"
  /\ CompleteExternalUpdate(token[w].path, token[w].token_id, close_succeeded)
  /\ token' = IF close_succeeded THEN [token EXCEPT ![w].phase = "Closed"]
                                 ELSE token
  /\ UNCHANGED <<next_token_id, lease, notifying, abandoned>>

\* notify_external_update_closed(path, coordination_id, close_succeeded): the
\* recovery path of a caller that kept only the id.
NotifyExternalUpdateClosed(p, id, close_succeeded) ==
  /\ id # 0
  /\ CompleteExternalUpdate(p, id, close_succeeded)
  /\ UNCHANGED <<next_token_id, lease, notifying, token, abandoned>>

\* abandon_current_state(): Pending is cancelled, Active stays in the entry.
DestroyToken(w) ==
  /\ token[w].phase # "Invalid"
  /\ IF OwnsPending(w)
       THEN ClearPending(token[w].path) /\ call' = NotifyAll(call)
       ELSE UNCHANGED <<sources, call>>
  /\ token' = [token EXCEPT ![w] = InvalidToken]
  /\ UNCHANGED <<next_token_id, lease, notifying, abandoned>>

\* The move constructor, and the move assignment onto a token that has been
\* abandoned or that holds nothing to cancel.
MoveToken(v, w) ==
  /\ v # w
  /\ call[w].at = "idle" /\ token[w].phase # "Pending"
  /\ token[v].phase \in {"Pending", "Active"}
  /\ token' = [token EXCEPT ![w] = token[v], ![v] = InvalidToken]
  /\ UNCHANGED <<sources, next_token_id, lease, notifying, call, abandoned>>

-----------------------------------------------------------------------------
ReaderStep(l) ==
  \/ \E p \in Paths : TryAcquireFastReader(l, p)
  \/ Release(l)
  \/ NotifyAfterRelease(l)
  \/ AbandonFailClosed(l)
  \/ \E m \in Leases : MoveLease(l, m)

PrepareStep(w) ==
  \/ \E p \in Paths : PrepareImmediate(w, p) \/ PrepareWait(w, p)
  \/ PrepareDrained(w)
  \/ WaitAgain(w)
  \/ SpuriousWake(w)
  \/ TimeoutDrained(w)
  \/ TimeoutReadersActive(w)

TokenStep(w) ==
  \/ NotifyUpdateOpened(w)
  \/ CancelBeforeUpdate(w)
  \/ \E ok \in BOOLEAN : NotifyUpdateClosed(w, ok)
  \/ DestroyToken(w)
  \/ \E v \in Writers : MoveToken(v, w)

Next ==
  \/ \E l \in Leases : ReaderStep(l)
  \/ \E w \in Writers : PrepareStep(w) \/ TokenStep(w)
  \/ \E p \in Paths, id \in 1..MaxTokens, ok \in BOOLEAN :
       NotifyExternalUpdateClosed(p, id, ok)

Spec == Init /\ [][Next]_vars

\* What the library itself owes: a thread inside release() gets to its
\* notify_all, and a woken prepare call gets the mutex and looks again.
LibraryFairness ==
  /\ \A l \in Leases : WF_vars(NotifyAfterRelease(l))
  /\ \A w \in Writers : WF_vars(PrepareDrained(w) \/ WaitAgain(w))

\* Past its deadline every further sleep of the call times out, however often
\* it is woken in between: strong fairness.
DeadlineFairness ==
  \A w \in Writers : SF_vars(TimeoutDrained(w) \/ TimeoutReadersActive(w))

\* What the coordination protocol asks of readers: some lease of a source
\* that a Writer waits for reaches a safe point and is released.
ReaderFairness ==
  \A p \in Paths :
    WF_vars(\E l \in Leases : lease[l].path = p /\ Release(l))

LiveSpec == Spec /\ LibraryFairness

-----------------------------------------------------------------------------
(* What the coordinator promises *)

Holders(p) == {l \in Leases : lease[l].counted /\ lease[l].path = p}

\* The count of an entry is the number of leases held on the path plus those
\* given up fail-closed: no move, release or abandonment of a lease counts
\* twice or is lost.
ReaderCountExact ==
  \A p \in Paths :
    sources[p].fast_reader_count = Cardinality(Holders(p)) + abandoned[p]

\* While a Writer is active no fast reader holds the source, not even one
\* whose mapping could not be closed.
WriterExclusion ==
  \A p \in Paths :
    sources[p].writer_active =>
      /\ Holders(p) = {} /\ abandoned[p] = 0
      /\ ~sources[p].writer_pending

\* A lease, however long it is held, is of the current generation: the
\* generation never moves under a reader.
LeaseGenerationCurrent ==
  \A l \in Leases :
    lease[l].counted => lease[l].generation = sources[lease[l].path].generation

\* A pending mark always has one owner that can still withdraw it, a sleeping
\* prepare call or a Pending token: otherwise the source would be closed to
\* readers and Writers for ever.
OwnsMark(w, p) ==
  \/ /\ call[w].at # "idle"
     /\ call[w].path = p
     /\ call[w].token_id = sources[p].writer_token_id
  \/ /\ token[w].phase = "Pending"
     /\ token[w].path = p
     /\ token[w].token_id = sources[p].writer_token_id

PendingHasOneOwner ==
  \A p \in Paths :
    sources[p].writer_pending =>
      \E w \in Writers : \A x \in Writers : OwnsMark(x, p) <=> x = w

\* A token in the Writer's hands was granted over a drained source and still
\* is: notify_update_opened on it cannot fail.
GrantStaysDrained ==
  \A w \in Writers :
    token[w].phase = "Pending" =>
      /\ OwnsPending(w)
      /\ sources[token[w].path].fast_reader_count = 0

\* A source is unverified exactly from a failed close report to a successful
\* one, and then the Writer still counts as active: readers and the next
\* Writer are kept out until the recovery.
UnverifiedStaysClosed ==
  \A p \in Paths :
    /\ sources[p].writer_generation_invalidated <=> ~sources[p].source_verified
    /\ ~sources[p].source_verified =>
         sources[p].writer_active /\ sources[p].writer_token_id # 0

\* No wake-up is lost between the unlock and the notify_all of release(): a
\* call that sleeps although its source is drained has a notify on its way.
NoLostWakeup ==
  \A w \in Writers :
    call[w].at = "asleep" /\ Drained(w) => notifying # {}

\* The generation moves by one, once in a Writer's lifecycle, and only when
\* that Writer reports its close: never by a reader, by a cancelled or timed
\* out prepare, or by the recovery of a close already reported as failed.
GenerationOncePerWriter ==
  [][\A p \in Paths :
       sources'[p].generation # sources[p].generation =>
         /\ sources'[p].generation = sources[p].generation + 1
         /\ sources[p].writer_active
         /\ sources[p].source_verified
         /\ Holders(p) = {}]_vars

\* A prepare call whose source is drained returns although nothing times out.
DrainedPrepareReturns ==
  \A w \in Writers :
    (call[w].at # "idle" /\ Drained(w)) ~> (call[w].at = "idle")

\* A prepare call returns by its deadline, whatever readers do.
DeadlineEndsPrepare ==
  DeadlineFairness =>
    \A w \in Writers : (call[w].at # "idle") ~> (call[w].at = "idle")

\* Without any deadline, a prepare call returns if readers give back their
\* leases: new readers cannot starve it, only an abandoned lease can.
ReleasesEndPrepare ==
  ReaderFairness =>
    \A w \in Writers, p \in Paths :
      (call[w].at # "idle" /\ call[w].path = p)
        ~> (call[w].at = "idle" \/ abandoned[p] > 0)
=============================================================================
