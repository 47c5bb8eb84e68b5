----------------------- MODULE GdbCoordinatorProofs -----------------------
(***************************************************************************)
(* Proofs about the coordinator, for any paths, any finite set of leases,   *)
(* any token variables and any bounds; and what the Writers of a source and *)
(* its coordinator keep true together, for any readers beside them: the     *)
(* facts the proofs about the adaptive session and about the unified facade *)
(* share.                                                                   *)
(***************************************************************************)
EXTENDS ExternalWriter, GdbCoordinatorRefinement, FiniteSetTheorems, TLAPS

(* The invariant holds in the initial state: nothing has happened yet.      *)
LEMMA InitIndInv == Init => IndInv
<1> SUFFICES ASSUME Init PROVE IndInv
  OBVIOUS
<1> USE DEF Init
<1>1. TypeOK
  BY DEF TypeOK, CoordinatedSourceEntry, FastReaderLease, ExternalUpdateToken,
         PrepareCall, EmptyLease, InvalidToken, NoCall
<1>2. WellFormed
  BY DEF WellFormed, EmptyLease, InvalidToken, NoCall
<1>3. ReaderCountExact
  <2> SUFFICES ASSUME NEW p \in Paths
               PROVE  sources[p].fast_reader_count
                        = Cardinality(Holders(p)) + abandoned[p]
    BY DEF ReaderCountExact
  <2>1. Holders(p) = {}
    BY DEF Holders, EmptyLease
  <2> QED BY <2>1, FS_EmptySet
<1>4. EntryExclusion /\ LeaseGenerationCurrent /\ UnverifiedStaysClosed
  BY DEF EntryExclusion, LeaseGenerationCurrent, UnverifiedStaysClosed,
         EmptyLease
<1>5. CallOwnsPending /\ GrantStaysDrained /\ NoLostWakeup
  BY DEF CallOwnsPending, GrantStaysDrained, NoLostWakeup, NoCall,
         InvalidToken
<1>6. PendingHasOneOwner
  BY DEF PendingHasOneOwner
<1> QED BY <1>1, <1>2, <1>3, <1>4, <1>5, <1>6 DEF IndInv

-----------------------------------------------------------------------------
(* notify_all only wakes: what a call waits for does not change.            *)
LEMMA NotifyAllWakes ==
  ASSUME NEW calls \in [Writers -> PrepareCall]
  PROVE  /\ NotifyAll(calls) \in [Writers -> PrepareCall]
         /\ \A w \in Writers :
              /\ NotifyAll(calls)[w].at # "asleep"
              /\ NotifyAll(calls)[w].at = "idle" <=> calls[w].at = "idle"
              /\ NotifyAll(calls)[w].path = calls[w].path
              /\ NotifyAll(calls)[w].token_id = calls[w].token_id
  BY DEF NotifyAll, PrepareCall

(* The two updates of an entry that touch more than flags keep its type. *)
LEMMA EntryUpdates ==
  ASSUME NEW e \in CoordinatedSourceEntry, NEW n \in Nat, NEW ok \in BOOLEAN
  PROVE  /\ [e EXCEPT !.writer_pending = TRUE,
                      !.pending_events = e.pending_events + 1,
                      !.writer_token_id = n] \in CoordinatedSourceEntry
         /\ [e EXCEPT
               !.generation = IF e.writer_generation_invalidated
                                THEN e.generation ELSE e.generation + 1,
               !.writer_generation_invalidated = ~ok,
               !.source_verified = ok,
               !.writer_active = ~ok,
               !.writer_token_id = IF ok THEN 0 ELSE n]
              \in CoordinatedSourceEntry
<1>1. e.pending_events + 1 \in Nat
  BY DEF CoordinatedSourceEntry
<1>2. /\ (IF e.writer_generation_invalidated
            THEN e.generation ELSE e.generation + 1) \in Nat
      /\ (IF ok THEN 0 ELSE n) \in Nat
      /\ (~ok) \in BOOLEAN
  BY DEF CoordinatedSourceEntry
<1>3. [e EXCEPT !.writer_pending = TRUE,
                !.pending_events = e.pending_events + 1,
                !.writer_token_id = n] \in CoordinatedSourceEntry
  BY <1>1 DEF CoordinatedSourceEntry
<1>4. [e EXCEPT
         !.generation = IF e.writer_generation_invalidated
                          THEN e.generation ELSE e.generation + 1,
         !.writer_generation_invalidated = ~ok,
         !.source_verified = ok,
         !.writer_active = ~ok,
         !.writer_token_id = IF ok THEN 0 ELSE n] \in CoordinatedSourceEntry
  BY <1>2 DEF CoordinatedSourceEntry
<1> QED BY <1>3, <1>4

(* Every step keeps the types. *)
LEMMA TypeStep == TypeOK /\ WellFormed /\ [Next]_vars => TypeOK'
<1> SUFFICES ASSUME TypeOK, WellFormed, [Next]_vars PROVE TypeOK'
  OBVIOUS
<1>a. /\ \A p \in Paths : sources[p] \in CoordinatedSourceEntry
      /\ \A l \in Leases : lease[l] \in FastReaderLease
      /\ \A w \in Writers : token[w] \in ExternalUpdateToken
      /\ \A w \in Writers : call[w] \in PrepareCall
      /\ \A p \in Paths : abandoned[p] \in Nat
      /\ next_token_id \in Nat
  BY DEF TypeOK
<1>b. NotifyAll(call) \in [Writers -> PrepareCall]
  BY NotifyAllWakes DEF TypeOK
<1>c. NoCall \in PrepareCall /\ InvalidToken \in ExternalUpdateToken
        /\ EmptyLease \in FastReaderLease
  BY DEF NoCall, PrepareCall, InvalidToken, ExternalUpdateToken, EmptyLease,
         FastReaderLease
<1>1. ASSUME NEW l \in Leases, NEW p \in Paths, TryAcquireFastReader(l, p)
      PROVE  TypeOK'
  <2>1. [sources[p] EXCEPT !.fast_reader_count = @ + 1]
          \in CoordinatedSourceEntry
    BY <1>a DEF CoordinatedSourceEntry
  <2>2. [counted |-> TRUE, path |-> p, generation |-> sources[p].generation,
         pending_events |-> sources[p].pending_events] \in FastReaderLease
    BY <1>a DEF FastReaderLease, CoordinatedSourceEntry
  <2> QED BY <1>1, <2>1, <2>2 DEF TryAcquireFastReader, TypeOK
<1>2. ASSUME NEW l \in Leases, Release(l) PROVE TypeOK'
  <2> DEFINE p == lease[l].path
  <2>1. p \in Paths
    BY <1>2 DEF Release, WellFormed
  <2>2. [sources[p] EXCEPT !.fast_reader_count = IF @ > 0 THEN @ - 1 ELSE @]
          \in CoordinatedSourceEntry
    BY <1>a, <2>1 DEF CoordinatedSourceEntry
  <2>3. [lease[l] EXCEPT !.counted = FALSE] \in FastReaderLease
    BY <1>a DEF FastReaderLease
  <2> QED BY <1>2, <2>2, <2>3 DEF Release, TypeOK
<1>3. ASSUME NEW l \in Leases, NotifyAfterRelease(l) PROVE TypeOK'
  BY <1>b, <1>3 DEF NotifyAfterRelease, TypeOK
<1>4. ASSUME NEW l \in Leases, AbandonFailClosed(l) PROVE TypeOK'
  <2>1. [lease[l] EXCEPT !.counted = FALSE, !.path = NoPath] \in FastReaderLease
    BY <1>a DEF FastReaderLease
  <2>2. abandoned' \in [Paths -> Nat]
    <3>1. \A p \in Paths : abandoned[p] + 1 \in Nat
      BY <1>a
    <3> QED BY <1>4, <3>1 DEF AbandonFailClosed, TypeOK, WellFormed
  <2> QED BY <1>4, <2>1, <2>2 DEF AbandonFailClosed, TypeOK
<1>5. ASSUME NEW l \in Leases, NEW m \in Leases, MoveLease(l, m) PROVE TypeOK'
  BY <1>5, <1>a, <1>c DEF MoveLease, TypeOK
<1>6. ASSUME NEW w \in Writers, NEW p \in Paths,
             PrepareImmediate(w, p) \/ PrepareWait(w, p)
      PROVE  TypeOK'
  <2> DEFINE e == [sources[p] EXCEPT
                     !.writer_pending = TRUE,
                     !.pending_events = sources[p].pending_events + 1,
                     !.writer_token_id = next_token_id]
  <2>1. e \in CoordinatedSourceEntry
    BY <1>a, EntryUpdates
  <2>2. /\ sources' = [sources EXCEPT ![p] = e]
        /\ next_token_id' = next_token_id + 1
    <3>1. MarkPending(p)
      BY <1>6 DEF PrepareImmediate, PrepareWait
    <3> QED BY <3>1, Zenon DEF MarkPending
  <2> HIDE DEF e
  <2>3. /\ sources' \in [Paths -> CoordinatedSourceEntry]
        /\ next_token_id' \in Nat
    BY <1>a, <2>1, <2>2 DEF TypeOK
  <2>4. /\ [phase |-> "Pending", path |-> p, token_id |-> next_token_id]
             \in ExternalUpdateToken
        /\ [at |-> "asleep", path |-> p, token_id |-> next_token_id]
             \in PrepareCall
    BY <1>a DEF ExternalUpdateToken, PrepareCall
  <2>5. CASE PrepareImmediate(w, p)
    BY <1>b, <2>3, <2>4, <2>5 DEF PrepareImmediate, TypeOK
  <2>6. CASE PrepareWait(w, p)
    BY <1>b, <2>3, <2>4, <2>6 DEF PrepareWait, TypeOK
  <2> QED BY <1>6, <2>5, <2>6
<1>8. ASSUME NEW w \in Writers, PrepareDrained(w) \/ TimeoutDrained(w)
      PROVE  TypeOK'
  <2>1. [phase |-> "Pending", path |-> call[w].path,
         token_id |-> call[w].token_id] \in ExternalUpdateToken
    BY <1>a DEF ExternalUpdateToken, PrepareCall
  <2> QED
    BY <1>8, <1>c, <2>1 DEF PrepareDrained, TimeoutDrained, ReturnToken, TypeOK
<1>9. ASSUME NEW w \in Writers, WaitAgain(w) \/ SpuriousWake(w) PROVE TypeOK'
  <2>1. /\ [call[w] EXCEPT !.at = "asleep"] \in PrepareCall
        /\ [call[w] EXCEPT !.at = "awake"] \in PrepareCall
    BY <1>a DEF PrepareCall
  <2> QED BY <1>9, <2>1 DEF WaitAgain, SpuriousWake, TypeOK
<1>10. ASSUME NEW w \in Writers, TimeoutReadersActive(w) PROVE TypeOK'
  <2> DEFINE p == call[w].path
  <2>1. p \in Paths
    BY <1>10 DEF TimeoutReadersActive, WellFormed
  <2>2. [sources[p] EXCEPT !.writer_pending = FALSE, !.writer_token_id = 0]
          \in CoordinatedSourceEntry
    BY <1>a, <2>1 DEF CoordinatedSourceEntry
  <2>3. [call EXCEPT ![w] = NoCall] \in [Writers -> PrepareCall]
    BY <1>c DEF TypeOK
  <2>4. call' \in [Writers -> PrepareCall]
    BY <1>10, <2>3, NotifyAllWakes DEF TimeoutReadersActive
  <2> QED BY <1>10, <1>a, <2>1, <2>2, <2>4 DEF TimeoutReadersActive, TypeOK
<1>11. ASSUME NEW w \in Writers, NotifyUpdateOpened(w) PROVE TypeOK'
  <2> DEFINE p == token[w].path
  <2>1. p \in Paths
    BY <1>11 DEF NotifyUpdateOpened, OwnsPending, WellFormed
  <2>2. [sources[p] EXCEPT !.writer_pending = FALSE, !.writer_active = TRUE,
                           !.writer_generation_invalidated = FALSE]
          \in CoordinatedSourceEntry
    BY <1>a, <2>1 DEF CoordinatedSourceEntry
  <2>3. [token[w] EXCEPT !.phase = "Active"] \in ExternalUpdateToken
    BY <1>a DEF ExternalUpdateToken
  <2> QED BY <1>11, <1>b, <2>2, <2>3 DEF NotifyUpdateOpened, TypeOK
<1>12. ASSUME NEW w \in Writers, CancelBeforeUpdate(w) \/ DestroyToken(w)
       PROVE  TypeOK'
  <2> DEFINE p == token[w].path
  <2>1. ASSUME OwnsPending(w)
        PROVE  [sources[p] EXCEPT !.writer_pending = FALSE,
                                  !.writer_token_id = 0]
                 \in CoordinatedSourceEntry
    BY <1>a, <2>1 DEF OwnsPending, WellFormed, CoordinatedSourceEntry
  <2>2. [token[w] EXCEPT !.phase = "Closed"] \in ExternalUpdateToken
    BY <1>a DEF ExternalUpdateToken
  <2>3. CASE CancelBeforeUpdate(w)
    BY <1>b, <2>1, <2>2, <2>3 DEF CancelBeforeUpdate, ClearPending, TypeOK
  <2>4. CASE DestroyToken(w)
    BY <1>b, <1>c, <2>1, <2>4 DEF DestroyToken, ClearPending, TypeOK
  <2> QED BY <1>12, <2>3, <2>4
<1>13. ASSUME NEW p, NEW id, NEW ok \in BOOLEAN,
              CompleteExternalUpdate(p, id, ok)
       PROVE  sources' \in [Paths -> CoordinatedSourceEntry]
                /\ call' \in [Writers -> PrepareCall]
  <2> DEFINE e == [sources[p] EXCEPT
                !.generation = IF sources[p].writer_generation_invalidated
                                 THEN sources[p].generation ELSE sources[p].generation + 1,
                !.writer_generation_invalidated = ~ok,
                !.source_verified = ok,
                !.writer_active = ~ok,
                !.writer_token_id = IF ok THEN 0 ELSE id]
  <2>0. p \in Paths => id \in Nat
    BY <1>13, <1>a DEF CompleteExternalUpdate, CoordinatedSourceEntry
  <2>1. p \in Paths => e \in CoordinatedSourceEntry
    BY <1>a, <2>0, EntryUpdates
  <2>2. sources' = [sources EXCEPT ![p] = e] /\ call' = NotifyAll(call)
    BY <1>13, Zenon DEF CompleteExternalUpdate
  <2> HIDE DEF e
  <2> QED BY <1>b, <2>1, <2>2 DEF TypeOK
<1>14. ASSUME NEW w \in Writers, NEW ok \in BOOLEAN, NotifyUpdateClosed(w, ok)
       PROVE  TypeOK'
  <2>1. [token[w] EXCEPT !.phase = "Closed"] \in ExternalUpdateToken
    BY <1>a DEF ExternalUpdateToken
  <2> QED BY <1>13, <1>14, <2>1 DEF NotifyUpdateClosed, TypeOK
<1>15. ASSUME NEW v \in Writers, NEW w \in Writers, MoveToken(v, w)
       PROVE  TypeOK'
  BY <1>15, <1>a, <1>c DEF MoveToken, TypeOK
<1>16. ASSUME NEW p \in Paths, NEW id \in 1..MaxTokens, NEW ok \in BOOLEAN,
              NotifyExternalUpdateClosed(p, id, ok)
       PROVE  TypeOK'
  BY <1>13, <1>16 DEF NotifyExternalUpdateClosed, TypeOK
<1>17. CASE UNCHANGED vars
  BY <1>17 DEF vars, TypeOK
<1> QED
  BY <1>1, <1>2, <1>3, <1>4, <1>5, <1>6, <1>8, <1>9, <1>10, <1>11,
     <1>12, <1>14, <1>15, <1>16, <1>17
  DEF Next, ReaderStep, PrepareStep, TokenStep
-----------------------------------------------------------------------------
(* What each step does, entry by entry and call by call. *)

(* Of a source, all but its pending mark and its token id. *)
SameReadersAndWriter(p) ==
  /\ sources'[p].writer_active = sources[p].writer_active
  /\ sources'[p].source_verified = sources[p].source_verified
  /\ sources'[p].writer_generation_invalidated
       = sources[p].writer_generation_invalidated
  /\ sources'[p].generation = sources[p].generation
  /\ sources'[p].fast_reader_count = sources[p].fast_reader_count

(* Of a prepare call, all but whether it sleeps. *)
SameCall(w) ==
  /\ call'[w].at = "idle" <=> call[w].at = "idle"
  /\ call'[w].path = call[w].path
  /\ call'[w].token_id = call[w].token_id

(* A new Writer, whether it has to wait or not. *)
LEMMA PrepareEffect ==
  ASSUME TypeOK, NEW w \in Writers, NEW p \in Paths,
         PrepareImmediate(w, p) \/ PrepareWait(w, p)
  PROVE  /\ CanPrepare(w, p)
         /\ next_token_id' = next_token_id + 1
         /\ sources'[p].writer_pending
         /\ sources'[p].writer_token_id = next_token_id
         /\ \A q \in Paths \ {p} : sources'[q] = sources[q]
         /\ \A q \in Paths : SameReadersAndWriter(q)
         /\ \A x \in Writers \ {w} :
              token'[x] = token[x] /\ SameCall(x) /\ call'[x].at # "asleep"
         /\ \/ /\ sources[p].fast_reader_count = 0
               /\ token'[w].phase = "Pending" /\ token'[w].path = p
               /\ token'[w].token_id = next_token_id
               /\ call'[w].at = "idle"
            \/ /\ sources[p].fast_reader_count # 0
               /\ token'[w] = token[w]
               /\ call'[w].at = "asleep" /\ call'[w].path = p
               /\ call'[w].token_id = next_token_id
         /\ UNCHANGED <<lease, notifying, abandoned>>
<1>1. CanPrepare(w, p) /\ MarkPending(p)
  BY DEF PrepareImmediate, PrepareWait
<1>2. /\ next_token_id' = next_token_id + 1
      /\ sources'[p].writer_pending
      /\ sources'[p].writer_token_id = next_token_id
      /\ \A q \in Paths \ {p} : sources'[q] = sources[q]
      /\ \A q \in Paths : SameReadersAndWriter(q)
  BY <1>1 DEF MarkPending, SameReadersAndWriter, TypeOK,
              CoordinatedSourceEntry
<1>3. /\ NotifyAll(call) \in [Writers -> PrepareCall]
      /\ call \in [Writers -> PrepareCall]
  BY NotifyAllWakes DEF TypeOK
<1>4. CASE PrepareImmediate(w, p)
  <2>1. /\ call' = NotifyAll(call)
        /\ token' = [token EXCEPT ![w] =
             [phase |-> "Pending", path |-> p, token_id |-> next_token_id]]
        /\ sources[p].fast_reader_count = 0
        /\ UNCHANGED <<lease, notifying, abandoned>>
    BY <1>4 DEF PrepareImmediate
  <2>2. call[w].at = "idle"
    BY <1>1 DEF CanPrepare
  <2> QED
    BY <1>1, <1>2, <1>3, <2>1, <2>2, NotifyAllWakes DEF TypeOK, SameCall
<1>5. CASE PrepareWait(w, p)
  <2>1. /\ call' = [NotifyAll(call) EXCEPT ![w] =
             [at |-> "asleep", path |-> p, token_id |-> next_token_id]]
        /\ sources[p].fast_reader_count # 0
        /\ UNCHANGED <<lease, notifying, token, abandoned>>
    BY <1>5 DEF PrepareWait
  <2> QED
    BY <1>1, <1>2, <1>3, <2>1, NotifyAllWakes DEF SameCall
<1> QED BY <1>4, <1>5

(* A call that is woken, or that looks at its predicate in vain. *)
LEMMA RecheckEffect ==
  ASSUME TypeOK, NEW w \in Writers, WaitAgain(w) \/ SpuriousWake(w)
  PROVE  /\ \A x \in Writers : SameCall(x)
         /\ \A x \in Writers :
              call'[x].at = "asleep" =>
                call[x].at = "asleep" \/ (x = w /\ ~Drained(w))
         /\ UNCHANGED <<sources, next_token_id, lease, notifying, token,
                        abandoned>>
<1>1. CASE WaitAgain(w)
  BY <1>1 DEF WaitAgain, SameCall, TypeOK, PrepareCall
<1>2. CASE SpuriousWake(w)
  BY <1>2 DEF SpuriousWake, SameCall, TypeOK, PrepareCall
<1> QED BY <1>1, <1>2

(* A prepare call that returns its token, in time or at its deadline. *)
LEMMA ReturnTokenEffect ==
  ASSUME TypeOK, NEW w \in Writers, PrepareDrained(w) \/ TimeoutDrained(w)
  PROVE  /\ call[w].at # "idle" /\ Drained(w)
         /\ token'[w].phase = "Pending"
         /\ token'[w].path = call[w].path
         /\ token'[w].token_id = call[w].token_id
         /\ call'[w].at = "idle"
         /\ \A x \in Writers \ {w} : token'[x] = token[x] /\ call'[x] = call[x]
         /\ UNCHANGED <<sources, next_token_id, lease, notifying, abandoned>>
<1>1. call[w].at # "idle" /\ Drained(w) /\ ReturnToken(w)
  BY DEF PrepareDrained, TimeoutDrained
<1> QED BY <1>1 DEF ReturnToken, TypeOK, NoCall

(* Withdrawing a pending mark changes nothing else of the entry. *)
LEMMA ClearPendingEffect ==
  ASSUME TypeOK, NEW p \in Paths, ClearPending(p)
  PROVE  /\ \A q \in Paths \ {p} : sources'[q] = sources[q]
         /\ ~sources'[p].writer_pending /\ sources'[p].writer_token_id = 0
         /\ \A q \in Paths : SameReadersAndWriter(q)
  BY DEF ClearPending, SameReadersAndWriter, TypeOK, CoordinatedSourceEntry

(* A prepare call that gives up withdraws its own pending mark. *)
LEMMA TimeoutEffect ==
  ASSUME TypeOK, WellFormed, CallOwnsPending,
         NEW w \in Writers, TimeoutReadersActive(w)
  PROVE  /\ call[w].at # "idle" /\ call[w].path \in Paths
         /\ sources[call[w].path].writer_pending
         /\ ClearPending(call[w].path)
         /\ call'[w].at = "idle"
         /\ \A x \in Writers \ {w} : SameCall(x) /\ call'[x].at # "asleep"
         /\ UNCHANGED <<next_token_id, lease, notifying, token, abandoned>>
<1> DEFINE returned == [call EXCEPT ![w] = NoCall]
<1>1. /\ call[w].at = "asleep" /\ call' = NotifyAll(returned)
      /\ UNCHANGED <<next_token_id, lease, notifying, token, abandoned>>
  BY DEF TimeoutReadersActive
<1>2. /\ call[w].path \in Paths
      /\ sources[call[w].path].writer_pending
      /\ sources[call[w].path].writer_token_id = call[w].token_id
  BY <1>1 DEF CallOwnsPending, WellFormed
<1>3. ClearPending(call[w].path)
  BY <1>2 DEF TimeoutReadersActive, ClearPending
<1>4. /\ returned \in [Writers -> PrepareCall]
      /\ returned[w].at = "idle"
      /\ \A x \in Writers \ {w} : returned[x] = call[x]
  BY DEF TypeOK, NoCall, PrepareCall
<1> HIDE DEF returned
<1> QED BY <1>1, <1>2, <1>3, <1>4, NotifyAllWakes DEF SameCall

(* The Writer opens its Dataset over a drained source. *)
LEMMA OpenEffect ==
  ASSUME TypeOK, WellFormed, NEW w \in Writers, NotifyUpdateOpened(w)
  PROVE  /\ OwnsPending(w) /\ token[w].path \in Paths
         /\ sources[token[w].path].fast_reader_count = 0
         /\ \A q \in Paths \ {token[w].path} : sources'[q] = sources[q]
         /\ ~sources'[token[w].path].writer_pending
         /\ sources'[token[w].path].writer_active
         /\ ~sources'[token[w].path].writer_generation_invalidated
         /\ \A q \in Paths :
              /\ sources'[q].source_verified = sources[q].source_verified
              /\ sources'[q].generation = sources[q].generation
              /\ sources'[q].fast_reader_count = sources[q].fast_reader_count
              /\ sources'[q].writer_token_id = sources[q].writer_token_id
         /\ token'[w].phase = "Active"
         /\ token'[w].path = token[w].path
         /\ token'[w].token_id = token[w].token_id
         /\ \A x \in Writers \ {w} : token'[x] = token[x]
         /\ \A x \in Writers : SameCall(x) /\ call'[x].at # "asleep"
         /\ UNCHANGED <<next_token_id, lease, notifying, abandoned>>
<1>1. OwnsPending(w) /\ token[w].path \in Paths
  BY DEF NotifyUpdateOpened, OwnsPending, WellFormed
<1>2. \A x \in Writers : SameCall(x) /\ call'[x].at # "asleep"
  BY NotifyAllWakes DEF NotifyUpdateOpened, TypeOK, SameCall
<1> QED
  BY <1>1, <1>2 DEF NotifyUpdateOpened, TypeOK, CoordinatedSourceEntry,
                    ExternalUpdateToken

(* The report of a close, by token or by id, changes one entry. *)
LEMMA CompleteEffect ==
  ASSUME TypeOK, NEW p \in Paths, NEW id, NEW ok \in BOOLEAN,
         CompleteExternalUpdate(p, id, ok)
  PROVE  /\ sources[p].writer_active /\ sources[p].writer_token_id = id
         /\ \A q \in Paths \ {p} : sources'[q] = sources[q]
         /\ sources'[p].generation =
              IF sources[p].writer_generation_invalidated
                THEN sources[p].generation ELSE sources[p].generation + 1
         /\ sources'[p].writer_generation_invalidated = ~ok
         /\ sources'[p].source_verified = ok
         /\ sources'[p].writer_active = ~ok
         /\ sources'[p].writer_token_id = (IF ok THEN 0 ELSE id)
         /\ \A q \in Paths :
              /\ sources'[q].writer_pending = sources[q].writer_pending
              /\ sources'[q].fast_reader_count = sources[q].fast_reader_count
         /\ \A w \in Writers : SameCall(w) /\ call'[w].at # "asleep"
<1>1. call' = NotifyAll(call) /\ call \in [Writers -> PrepareCall]
  BY DEF CompleteExternalUpdate, TypeOK
<1> QED
  BY <1>1, NotifyAllWakes DEF CompleteExternalUpdate, TypeOK,
     CoordinatedSourceEntry, SameCall

(* A token is cancelled by name or by its destruction. *)
LEMMA DestroyEffect ==
  ASSUME TypeOK, WellFormed, NEW w \in Writers, DestroyToken(w)
  PROVE  /\ \/ /\ OwnsPending(w) /\ token[w].path \in Paths
               /\ ClearPending(token[w].path)
            \/ ~OwnsPending(w) /\ sources' = sources
         /\ token'[w].phase = "Invalid"
         /\ \A x \in Writers \ {w} : token'[x] = token[x]
         /\ \A x \in Writers :
              SameCall(x) /\ (call'[x].at = "asleep" => call[x].at = "asleep")
         /\ UNCHANGED <<next_token_id, lease, notifying, abandoned>>
<1>1. call \in [Writers -> PrepareCall]
  BY DEF TypeOK
<1>2. CASE OwnsPending(w)
  <2>1. token[w].path \in Paths
    BY <1>2 DEF OwnsPending, WellFormed
  <2> QED
    BY <1>1, <1>2, <2>1, NotifyAllWakes
    DEF DestroyToken, TypeOK, InvalidToken, SameCall
<1>3. CASE ~OwnsPending(w)
  BY <1>1, <1>3 DEF DestroyToken, TypeOK, InvalidToken, SameCall
<1> QED BY <1>2, <1>3

(* A count of zero means that no lease is held and none was given up. *)
LEMMA ZeroCountNoHolders ==
  ASSUME TypeOK, ReaderCountExact, NEW p \in Paths,
         sources[p].fast_reader_count = 0
  PROVE  Holders(p) = {} /\ abandoned[p] = 0
<1>1. IsFiniteSet(Holders(p))
  BY CoordinatorAssumption, FS_Subset DEF Holders
<1>2. Cardinality(Holders(p)) \in Nat /\ abandoned[p] \in Nat
  BY <1>1, FS_CardinalityType DEF TypeOK
<1>3. Cardinality(Holders(p)) = 0 /\ abandoned[p] = 0
  BY <1>2 DEF ReaderCountExact
<1> QED BY <1>1, <1>3, FS_EmptySet

-----------------------------------------------------------------------------
(* Paths and ids stay real ones: ids are only ever handed on. *)
LEMMA WellFormedStep == IndInv /\ [Next]_vars /\ TypeOK' => WellFormed'
<1> SUFFICES ASSUME IndInv, [Next]_vars, TypeOK' PROVE WellFormed'
  OBVIOUS
<1> USE DEF IndInv
<1>a. /\ sources \in [Paths -> CoordinatedSourceEntry]
      /\ lease \in [Leases -> FastReaderLease]
      /\ token \in [Writers -> ExternalUpdateToken]
      /\ call \in [Writers -> PrepareCall]
  BY DEF TypeOK
<1>b. \A w \in Writers : /\ NotifyAll(call)[w].at # "asleep"
                         /\ NotifyAll(call)[w].at = "idle" <=> call[w].at = "idle"
                         /\ NotifyAll(call)[w].path = call[w].path
                         /\ NotifyAll(call)[w].token_id = call[w].token_id
  BY <1>a, NotifyAllWakes
<1>1. ASSUME NEW l \in Leases, NEW p \in Paths, TryAcquireFastReader(l, p)
      PROVE  WellFormed'
  BY <1>a, <1>1
     DEF TryAcquireFastReader, Admits, WellFormed, CoordinatedSourceEntry
<1>2. ASSUME NEW l \in Leases, Release(l)
      PROVE  WellFormed'
  BY <1>a, <1>2 DEF Release, WellFormed, CoordinatedSourceEntry
<1>3. ASSUME NEW l \in Leases, NotifyAfterRelease(l)
      PROVE  WellFormed'
  BY <1>a, <1>3, <1>b
     DEF NotifyAfterRelease, WellFormed, CoordinatedSourceEntry
<1>4. ASSUME NEW l \in Leases, AbandonFailClosed(l)
      PROVE  WellFormed'
  BY <1>a, <1>4 DEF AbandonFailClosed, WellFormed, CoordinatedSourceEntry
<1>5. ASSUME NEW l \in Leases, NEW m \in Leases, MoveLease(l, m)
      PROVE  WellFormed'
  BY <1>a, <1>5 DEF MoveLease, EmptyLease, WellFormed, CoordinatedSourceEntry
<1>6. ASSUME NEW w \in Writers, NEW p \in Paths,
             PrepareImmediate(w, p) \/ PrepareWait(w, p)
      PROVE  WellFormed'
  <2>1. next_token_id' > 0 /\ next_token_id < next_token_id'
    BY <1>6, PrepareEffect DEF TypeOK, WellFormed
  <2>2. \A k \in Leases : lease'[k].counted => lease'[k].path \in Paths
    BY <1>6, PrepareEffect DEF WellFormed
  <2>3. ASSUME NEW x \in Writers, x # w
        PROVE  /\ call'[x].at # "idle" =>
                    call'[x].path \in Paths /\ call'[x].token_id < next_token_id'
               /\ token'[x].phase # "Invalid" =>
                    token'[x].path \in Paths /\ token'[x].token_id < next_token_id'
    <3>1. token'[x] = token[x] /\ SameCall(x)
      BY <1>6, <2>3, PrepareEffect
    <3>2. call[x].token_id \in Nat /\ token[x].token_id \in Nat
      BY <1>a DEF PrepareCall, ExternalUpdateToken
    <3> QED BY <2>1, <3>1, <3>2 DEF WellFormed, SameCall, TypeOK
  <2>4. /\ call'[w].at # "idle" =>
             call'[w].path \in Paths /\ call'[w].token_id < next_token_id'
        /\ token'[w].phase # "Invalid" =>
             token'[w].path \in Paths /\ token'[w].token_id < next_token_id'
    <3>1. token[w].token_id \in Nat
      BY <1>a DEF ExternalUpdateToken
    <3> QED BY <1>6, <2>1, <3>1, PrepareEffect DEF WellFormed, TypeOK
  <2> QED BY <2>1, <2>2, <2>3, <2>4 DEF WellFormed
<1>8. ASSUME NEW w \in Writers, PrepareDrained(w) \/ TimeoutDrained(w)
      PROVE  WellFormed'
  BY <1>a, <1>8, ReturnTokenEffect
     DEF Drained, WellFormed, CoordinatedSourceEntry
<1>9. ASSUME NEW w \in Writers, WaitAgain(w) \/ SpuriousWake(w)
      PROVE  WellFormed'
  BY <1>a, <1>9, RecheckEffect
     DEF SameCall, WellFormed, CoordinatedSourceEntry
<1>10. ASSUME NEW w \in Writers, TimeoutReadersActive(w)
       PROVE  WellFormed'
  BY <1>a, <1>10, TimeoutEffect, ClearPendingEffect
     DEF SameReadersAndWriter, SameCall, WellFormed, CoordinatedSourceEntry
<1>11. ASSUME NEW w \in Writers, NotifyUpdateOpened(w)
       PROVE  WellFormed'
  BY <1>a, <1>11, OpenEffect
     DEF OwnsPending, SameCall, WellFormed, CoordinatedSourceEntry
<1>12. ASSUME NEW w \in Writers, CancelBeforeUpdate(w)
       PROVE  WellFormed'
  BY <1>a, <1>12, <1>b
     DEF CancelBeforeUpdate, OwnsPending, ClearPending, WellFormed,
         CoordinatedSourceEntry
<1>13. ASSUME NEW w \in Writers, NEW ok \in BOOLEAN, NotifyUpdateClosed(w, ok)
       PROVE  WellFormed'
  BY <1>a, <1>13, CompleteEffect
     DEF NotifyUpdateClosed, SameCall, WellFormed, CoordinatedSourceEntry
<1>14. ASSUME NEW w \in Writers, DestroyToken(w)
       PROVE  WellFormed'
  BY <1>a, <1>14, DestroyEffect, ClearPendingEffect
     DEF OwnsPending, SameReadersAndWriter, SameCall, WellFormed,
         CoordinatedSourceEntry
<1>15. ASSUME NEW v \in Writers, NEW w \in Writers, MoveToken(v, w)
       PROVE  WellFormed'
  BY <1>a, <1>15
     DEF MoveToken, InvalidToken, WellFormed, CoordinatedSourceEntry
<1>16. ASSUME NEW p \in Paths, NEW id \in 1..MaxTokens, NEW ok \in BOOLEAN,
              NotifyExternalUpdateClosed(p, id, ok)
       PROVE  WellFormed'
  BY <1>a, <1>16, CompleteEffect
     DEF NotifyExternalUpdateClosed, SameCall, WellFormed, CoordinatedSourceEntry
<1>17. CASE UNCHANGED vars
  BY <1>17 DEF vars, WellFormed
<1> QED
  BY <1>1, <1>2, <1>3, <1>4, <1>5, <1>6, <1>8, <1>9, <1>10, <1>11, <1>12,
     <1>13, <1>14, <1>15, <1>16, <1>17
     DEF Next, ReaderStep, PrepareStep, TokenStep

(* A Writer becomes active over a count of zero, and nothing raises the
   count or marks the entry pending while it is. *)
LEMMA EntryExclusionStep == IndInv /\ [Next]_vars /\ TypeOK' => EntryExclusion'
<1> SUFFICES ASSUME IndInv, [Next]_vars, TypeOK' PROVE EntryExclusion'
  OBVIOUS
<1> USE DEF IndInv
<1>a. /\ sources \in [Paths -> CoordinatedSourceEntry]
      /\ lease \in [Leases -> FastReaderLease]
      /\ token \in [Writers -> ExternalUpdateToken]
      /\ call \in [Writers -> PrepareCall]
  BY DEF TypeOK
<1>b. \A w \in Writers : /\ NotifyAll(call)[w].at # "asleep"
                         /\ NotifyAll(call)[w].at = "idle" <=> call[w].at = "idle"
                         /\ NotifyAll(call)[w].path = call[w].path
                         /\ NotifyAll(call)[w].token_id = call[w].token_id
  BY <1>a, NotifyAllWakes
<1>1. ASSUME NEW l \in Leases, NEW p \in Paths, TryAcquireFastReader(l, p)
      PROVE  EntryExclusion'
  BY <1>a, <1>1
     DEF TryAcquireFastReader, Admits, EntryExclusion, WellFormed,
         CoordinatedSourceEntry
<1>2. ASSUME NEW l \in Leases, Release(l)
      PROVE  EntryExclusion'
  BY <1>a, <1>2
     DEF Release, EntryExclusion, WellFormed, CoordinatedSourceEntry
<1>3. ASSUME NEW l \in Leases, NotifyAfterRelease(l)
      PROVE  EntryExclusion'
  BY <1>a, <1>3, <1>b
     DEF NotifyAfterRelease, EntryExclusion, WellFormed, CoordinatedSourceEntry
<1>4. ASSUME NEW l \in Leases, AbandonFailClosed(l)
      PROVE  EntryExclusion'
  BY <1>a, <1>4
     DEF AbandonFailClosed, EntryExclusion, WellFormed, CoordinatedSourceEntry
<1>5. ASSUME NEW l \in Leases, NEW m \in Leases, MoveLease(l, m)
      PROVE  EntryExclusion'
  BY <1>a, <1>5
     DEF MoveLease, EmptyLease, EntryExclusion, WellFormed, CoordinatedSourceEntry
<1>6. ASSUME NEW w \in Writers, NEW p \in Paths,
             PrepareImmediate(w, p) \/ PrepareWait(w, p)
      PROVE  EntryExclusion'
  BY <1>a, <1>6, PrepareEffect
     DEF CanPrepare, SameReadersAndWriter, SameCall, EntryExclusion, WellFormed,
         CoordinatedSourceEntry
<1>8. ASSUME NEW w \in Writers, PrepareDrained(w) \/ TimeoutDrained(w)
      PROVE  EntryExclusion'
  BY <1>a, <1>8, ReturnTokenEffect
     DEF Drained, EntryExclusion, WellFormed, CoordinatedSourceEntry
<1>9. ASSUME NEW w \in Writers, WaitAgain(w) \/ SpuriousWake(w)
      PROVE  EntryExclusion'
  BY <1>a, <1>9, RecheckEffect
     DEF SameCall, EntryExclusion, WellFormed, CoordinatedSourceEntry
<1>10. ASSUME NEW w \in Writers, TimeoutReadersActive(w)
       PROVE  EntryExclusion'
  BY <1>a, <1>10, TimeoutEffect, ClearPendingEffect
     DEF SameReadersAndWriter, SameCall, EntryExclusion, WellFormed,
         CoordinatedSourceEntry
<1>11. ASSUME NEW w \in Writers, NotifyUpdateOpened(w)
       PROVE  EntryExclusion'
  BY <1>a, <1>11, OpenEffect
     DEF OwnsPending, SameCall, EntryExclusion, WellFormed, CoordinatedSourceEntry
<1>12. ASSUME NEW w \in Writers, CancelBeforeUpdate(w)
       PROVE  EntryExclusion'
  BY <1>a, <1>12, <1>b
     DEF CancelBeforeUpdate, OwnsPending, ClearPending, EntryExclusion, WellFormed,
         CoordinatedSourceEntry
<1>13. ASSUME NEW w \in Writers, NEW ok \in BOOLEAN, NotifyUpdateClosed(w, ok)
       PROVE  EntryExclusion'
  BY SMTT(40), <1>a, <1>13, CompleteEffect
     DEF NotifyUpdateClosed, SameCall, EntryExclusion, WellFormed,
         CoordinatedSourceEntry
<1>14. ASSUME NEW w \in Writers, DestroyToken(w)
       PROVE  EntryExclusion'
  BY <1>a, <1>14, DestroyEffect, ClearPendingEffect
     DEF OwnsPending, SameReadersAndWriter, SameCall, EntryExclusion, WellFormed,
         CoordinatedSourceEntry
<1>15. ASSUME NEW v \in Writers, NEW w \in Writers, MoveToken(v, w)
       PROVE  EntryExclusion'
  BY <1>a, <1>15
     DEF MoveToken, InvalidToken, EntryExclusion, WellFormed,
         CoordinatedSourceEntry
<1>16. ASSUME NEW p \in Paths, NEW id \in 1..MaxTokens, NEW ok \in BOOLEAN,
              NotifyExternalUpdateClosed(p, id, ok)
       PROVE  EntryExclusion'
  BY <1>a, <1>16, CompleteEffect
     DEF NotifyExternalUpdateClosed, SameCall, EntryExclusion, WellFormed,
         CoordinatedSourceEntry
<1>17. CASE UNCHANGED vars
  BY <1>17 DEF vars, EntryExclusion, WellFormed
<1> QED
  BY <1>1, <1>2, <1>3, <1>4, <1>5, <1>6, <1>8, <1>9, <1>10, <1>11, <1>12,
     <1>13, <1>14, <1>15, <1>16, <1>17
     DEF Next, ReaderStep, PrepareStep, TokenStep

(* The generation moves only under an active Writer, when no lease is held. *)
LEMMA LeaseGenerationCurrentStep == IndInv /\ [Next]_vars /\ TypeOK' => LeaseGenerationCurrent'
<1> SUFFICES ASSUME IndInv, [Next]_vars, TypeOK' PROVE LeaseGenerationCurrent'
  OBVIOUS
<1> USE DEF IndInv
<1>a. /\ sources \in [Paths -> CoordinatedSourceEntry]
      /\ lease \in [Leases -> FastReaderLease]
      /\ token \in [Writers -> ExternalUpdateToken]
      /\ call \in [Writers -> PrepareCall]
  BY DEF TypeOK
<1>b. \A w \in Writers : /\ NotifyAll(call)[w].at # "asleep"
                         /\ NotifyAll(call)[w].at = "idle" <=> call[w].at = "idle"
                         /\ NotifyAll(call)[w].path = call[w].path
                         /\ NotifyAll(call)[w].token_id = call[w].token_id
  BY <1>a, NotifyAllWakes
<1>1. ASSUME NEW l \in Leases, NEW p \in Paths, TryAcquireFastReader(l, p)
      PROVE  LeaseGenerationCurrent'
  BY <1>a, <1>1
     DEF TryAcquireFastReader, Admits, LeaseGenerationCurrent, WellFormed,
         EntryExclusion, CoordinatedSourceEntry
<1>2. ASSUME NEW l \in Leases, Release(l)
      PROVE  LeaseGenerationCurrent'
  BY <1>a, <1>2
     DEF Release, LeaseGenerationCurrent, WellFormed, EntryExclusion,
         CoordinatedSourceEntry
<1>3. ASSUME NEW l \in Leases, NotifyAfterRelease(l)
      PROVE  LeaseGenerationCurrent'
  BY <1>a, <1>3, <1>b
     DEF NotifyAfterRelease, LeaseGenerationCurrent, WellFormed, EntryExclusion,
         CoordinatedSourceEntry
<1>4. ASSUME NEW l \in Leases, AbandonFailClosed(l)
      PROVE  LeaseGenerationCurrent'
  BY <1>a, <1>4
     DEF AbandonFailClosed, LeaseGenerationCurrent, WellFormed, EntryExclusion,
         CoordinatedSourceEntry
<1>5. ASSUME NEW l \in Leases, NEW m \in Leases, MoveLease(l, m)
      PROVE  LeaseGenerationCurrent'
  BY <1>a, <1>5
     DEF MoveLease, EmptyLease, LeaseGenerationCurrent, WellFormed, EntryExclusion,
         CoordinatedSourceEntry
<1>6. ASSUME NEW w \in Writers, NEW p \in Paths,
             PrepareImmediate(w, p) \/ PrepareWait(w, p)
      PROVE  LeaseGenerationCurrent'
  BY <1>a, <1>6, PrepareEffect
     DEF CanPrepare, SameReadersAndWriter, SameCall, LeaseGenerationCurrent,
         WellFormed, EntryExclusion, CoordinatedSourceEntry
<1>8. ASSUME NEW w \in Writers, PrepareDrained(w) \/ TimeoutDrained(w)
      PROVE  LeaseGenerationCurrent'
  BY <1>a, <1>8, ReturnTokenEffect
     DEF Drained, LeaseGenerationCurrent, WellFormed, EntryExclusion,
         CoordinatedSourceEntry
<1>9. ASSUME NEW w \in Writers, WaitAgain(w) \/ SpuriousWake(w)
      PROVE  LeaseGenerationCurrent'
  BY <1>a, <1>9, RecheckEffect
     DEF SameCall, LeaseGenerationCurrent, WellFormed, EntryExclusion,
         CoordinatedSourceEntry
<1>10. ASSUME NEW w \in Writers, TimeoutReadersActive(w)
       PROVE  LeaseGenerationCurrent'
  BY <1>a, <1>10, TimeoutEffect, ClearPendingEffect
     DEF SameReadersAndWriter, SameCall, LeaseGenerationCurrent, WellFormed,
         EntryExclusion, CoordinatedSourceEntry
<1>11. ASSUME NEW w \in Writers, NotifyUpdateOpened(w)
       PROVE  LeaseGenerationCurrent'
  BY <1>a, <1>11, OpenEffect
     DEF OwnsPending, SameCall, LeaseGenerationCurrent, WellFormed, EntryExclusion,
         CoordinatedSourceEntry
<1>12. ASSUME NEW w \in Writers, CancelBeforeUpdate(w)
       PROVE  LeaseGenerationCurrent'
  BY <1>a, <1>12, <1>b
     DEF CancelBeforeUpdate, OwnsPending, ClearPending, LeaseGenerationCurrent,
         WellFormed, EntryExclusion, CoordinatedSourceEntry
<1>13. ASSUME NEW w \in Writers, NEW ok \in BOOLEAN, NotifyUpdateClosed(w, ok)
       PROVE  LeaseGenerationCurrent'
  <2> DEFINE p == token[w].path
  <2>1. p \in Paths /\ CompleteExternalUpdate(p, token[w].token_id, ok)
    BY <1>13 DEF NotifyUpdateClosed, WellFormed
  <2>2. Holders(p) = {}
    BY <2>1, CompleteEffect, ZeroCountNoHolders DEF EntryExclusion
  <2>3. lease' = lease
    BY <1>13 DEF NotifyUpdateClosed
  <2> HIDE DEF p
  <2>4. \A q \in Paths \ {p} : sources'[q] = sources[q]
    BY <2>1, CompleteEffect
  <2> QED
    BY <2>2, <2>3, <2>4 DEF LeaseGenerationCurrent, WellFormed, Holders
<1>14. ASSUME NEW w \in Writers, DestroyToken(w)
       PROVE  LeaseGenerationCurrent'
  BY <1>a, <1>14, DestroyEffect, ClearPendingEffect
     DEF OwnsPending, SameReadersAndWriter, SameCall, LeaseGenerationCurrent,
         WellFormed, EntryExclusion, CoordinatedSourceEntry
<1>15. ASSUME NEW v \in Writers, NEW w \in Writers, MoveToken(v, w)
       PROVE  LeaseGenerationCurrent'
  BY <1>a, <1>15
     DEF MoveToken, InvalidToken, LeaseGenerationCurrent, WellFormed,
         EntryExclusion, CoordinatedSourceEntry
<1>16. ASSUME NEW p \in Paths, NEW id \in 1..MaxTokens, NEW ok \in BOOLEAN,
              NotifyExternalUpdateClosed(p, id, ok)
       PROVE  LeaseGenerationCurrent'
  <2>1. p \in Paths /\ CompleteExternalUpdate(p, id, ok)
    BY <1>16 DEF NotifyExternalUpdateClosed
  <2>2. Holders(p) = {}
    BY <2>1, CompleteEffect, ZeroCountNoHolders DEF EntryExclusion
  <2>3. lease' = lease
    BY <1>16 DEF NotifyExternalUpdateClosed
  <2>4. \A q \in Paths \ {p} : sources'[q] = sources[q]
    BY <2>1, CompleteEffect
  <2> QED
    BY <2>2, <2>3, <2>4 DEF LeaseGenerationCurrent, WellFormed, Holders
<1>17. CASE UNCHANGED vars
  BY <1>17 DEF vars, LeaseGenerationCurrent, WellFormed, EntryExclusion
<1> QED
  BY <1>1, <1>2, <1>3, <1>4, <1>5, <1>6, <1>8, <1>9, <1>10, <1>11, <1>12,
     <1>13, <1>14, <1>15, <1>16, <1>17
     DEF Next, ReaderStep, PrepareStep, TokenStep

(* Only the owner of a pending mark removes it. *)
LEMMA CallOwnsPendingStep == IndInv /\ [Next]_vars /\ TypeOK' => CallOwnsPending'
<1> SUFFICES ASSUME IndInv, [Next]_vars, TypeOK' PROVE CallOwnsPending'
  OBVIOUS
<1> USE DEF IndInv
<1>a. /\ sources \in [Paths -> CoordinatedSourceEntry]
      /\ lease \in [Leases -> FastReaderLease]
      /\ token \in [Writers -> ExternalUpdateToken]
      /\ call \in [Writers -> PrepareCall]
  BY DEF TypeOK
<1>b. \A w \in Writers : /\ NotifyAll(call)[w].at # "asleep"
                         /\ NotifyAll(call)[w].at = "idle" <=> call[w].at = "idle"
                         /\ NotifyAll(call)[w].path = call[w].path
                         /\ NotifyAll(call)[w].token_id = call[w].token_id
  BY <1>a, NotifyAllWakes
<1>1. ASSUME NEW l \in Leases, NEW p \in Paths, TryAcquireFastReader(l, p)
      PROVE  CallOwnsPending'
  BY <1>a, <1>1
     DEF TryAcquireFastReader, Admits, CallOwnsPending, WellFormed,
         PendingHasOneOwner, OwnsMark, GrantStaysDrained,
         CoordinatedSourceEntry
<1>2. ASSUME NEW l \in Leases, Release(l)
      PROVE  CallOwnsPending'
  BY <1>a, <1>2
     DEF Release, CallOwnsPending, WellFormed, PendingHasOneOwner, OwnsMark,
         GrantStaysDrained, CoordinatedSourceEntry
<1>3. ASSUME NEW l \in Leases, NotifyAfterRelease(l)
      PROVE  CallOwnsPending'
  BY <1>a, <1>3, <1>b
     DEF NotifyAfterRelease, CallOwnsPending, WellFormed, PendingHasOneOwner,
         OwnsMark, GrantStaysDrained, CoordinatedSourceEntry
<1>4. ASSUME NEW l \in Leases, AbandonFailClosed(l)
      PROVE  CallOwnsPending'
  BY <1>a, <1>4
     DEF AbandonFailClosed, CallOwnsPending, WellFormed, PendingHasOneOwner,
         OwnsMark, GrantStaysDrained, CoordinatedSourceEntry
<1>5. ASSUME NEW l \in Leases, NEW m \in Leases, MoveLease(l, m)
      PROVE  CallOwnsPending'
  BY <1>a, <1>5
     DEF MoveLease, EmptyLease, CallOwnsPending, WellFormed, PendingHasOneOwner,
         OwnsMark, GrantStaysDrained, CoordinatedSourceEntry
<1>6. ASSUME NEW w \in Writers, NEW p \in Paths,
             PrepareImmediate(w, p) \/ PrepareWait(w, p)
      PROVE  CallOwnsPending'
  <2>1. ASSUME NEW x \in Writers, x # w, call'[x].at # "idle"
        PROVE  /\ sources'[call'[x].path].writer_pending
               /\ sources'[call'[x].path].writer_token_id = call'[x].token_id
               /\ token'[x].phase \in {"Invalid", "Closed"}
    <3>1. token'[x] = token[x] /\ SameCall(x)
      BY <1>6, <2>1, PrepareEffect
    <3>2. call[x].path \in Paths /\ sources[call[x].path].writer_pending
      BY <2>1, <3>1 DEF CallOwnsPending, WellFormed, SameCall
    <3>3. call[x].path # p
      BY <1>6, <3>2, PrepareEffect DEF CanPrepare
    <3>4. sources'[call[x].path] = sources[call[x].path]
      BY <1>6, <3>2, <3>3, PrepareEffect
    <3> QED BY <2>1, <3>1, <3>4 DEF CallOwnsPending, SameCall
  <2>2. call'[w].at # "idle" =>
          /\ sources'[call'[w].path].writer_pending
          /\ sources'[call'[w].path].writer_token_id = call'[w].token_id
          /\ token'[w].phase \in {"Invalid", "Closed"}
    BY <1>6, PrepareEffect DEF CanPrepare
  <2> QED BY <2>1, <2>2 DEF CallOwnsPending
<1>8. ASSUME NEW w \in Writers, PrepareDrained(w) \/ TimeoutDrained(w)
      PROVE  CallOwnsPending'
  BY <1>a, <1>8, ReturnTokenEffect
     DEF Drained, CallOwnsPending, WellFormed, PendingHasOneOwner, OwnsMark,
         GrantStaysDrained, CoordinatedSourceEntry
<1>9. ASSUME NEW w \in Writers, WaitAgain(w) \/ SpuriousWake(w)
      PROVE  CallOwnsPending'
  BY <1>a, <1>9, RecheckEffect
     DEF SameCall, CallOwnsPending, WellFormed, PendingHasOneOwner, OwnsMark,
         GrantStaysDrained, CoordinatedSourceEntry
<1>10. ASSUME NEW w \in Writers, TimeoutReadersActive(w)
       PROVE  CallOwnsPending'
  BY <1>a, <1>10, TimeoutEffect, ClearPendingEffect
     DEF SameReadersAndWriter, SameCall, CallOwnsPending, WellFormed,
         PendingHasOneOwner, OwnsMark, GrantStaysDrained,
         CoordinatedSourceEntry
<1>11. ASSUME NEW w \in Writers, NotifyUpdateOpened(w)
       PROVE  CallOwnsPending'
  BY <1>a, <1>11, OpenEffect
     DEF OwnsPending, SameCall, CallOwnsPending, WellFormed, PendingHasOneOwner,
         OwnsMark, GrantStaysDrained, CoordinatedSourceEntry
<1>12. ASSUME NEW w \in Writers, CancelBeforeUpdate(w)
       PROVE  CallOwnsPending'
  BY <1>a, <1>12, <1>b
     DEF CancelBeforeUpdate, OwnsPending, ClearPending, CallOwnsPending,
         WellFormed, PendingHasOneOwner, OwnsMark, GrantStaysDrained,
         CoordinatedSourceEntry
<1>13. ASSUME NEW w \in Writers, NEW ok \in BOOLEAN, NotifyUpdateClosed(w, ok)
       PROVE  CallOwnsPending'
  <2> DEFINE p == token[w].path
  <2>1. p \in Paths /\ CompleteExternalUpdate(p, token[w].token_id, ok)
    BY <1>13 DEF NotifyUpdateClosed, WellFormed
  <2>2. ~sources[p].writer_pending
    BY <2>1, CompleteEffect DEF EntryExclusion
  <2>3. \A x \in Writers :
          token[x].phase \in {"Invalid", "Closed"} =>
            token'[x].phase \in {"Invalid", "Closed"}
    BY <1>a, <1>13 DEF NotifyUpdateClosed
  <2> HIDE DEF p
  <2>4. /\ \A q \in Paths \ {p} : sources'[q] = sources[q]
        /\ \A x \in Writers : SameCall(x)
    BY <2>1, CompleteEffect
  <2> QED
    BY <2>2, <2>3, <2>4 DEF CallOwnsPending, WellFormed, SameCall
<1>14. ASSUME NEW w \in Writers, DestroyToken(w)
       PROVE  CallOwnsPending'
  BY <1>a, <1>14, DestroyEffect, ClearPendingEffect
     DEF OwnsPending, SameReadersAndWriter, SameCall, CallOwnsPending, WellFormed,
         PendingHasOneOwner, OwnsMark, GrantStaysDrained,
         CoordinatedSourceEntry
<1>15. ASSUME NEW v \in Writers, NEW w \in Writers, MoveToken(v, w)
       PROVE  CallOwnsPending'
  BY <1>a, <1>15
     DEF MoveToken, InvalidToken, CallOwnsPending, WellFormed, PendingHasOneOwner,
         OwnsMark, GrantStaysDrained, CoordinatedSourceEntry
<1>16. ASSUME NEW p \in Paths, NEW id \in 1..MaxTokens, NEW ok \in BOOLEAN,
              NotifyExternalUpdateClosed(p, id, ok)
       PROVE  CallOwnsPending'
  <2>1. p \in Paths /\ CompleteExternalUpdate(p, id, ok)
    BY <1>16 DEF NotifyExternalUpdateClosed
  <2>2. ~sources[p].writer_pending
    BY <2>1, CompleteEffect DEF EntryExclusion
  <2>3. \A x \in Writers :
          token[x].phase \in {"Invalid", "Closed"} =>
            token'[x].phase \in {"Invalid", "Closed"}
    BY <1>a, <1>16 DEF NotifyExternalUpdateClosed
  <2>4. /\ \A q \in Paths \ {p} : sources'[q] = sources[q]
        /\ \A x \in Writers : SameCall(x)
    BY <2>1, CompleteEffect
  <2> QED
    BY <2>2, <2>3, <2>4 DEF CallOwnsPending, WellFormed, SameCall
<1>17. CASE UNCHANGED vars
  BY <1>17
     DEF vars, CallOwnsPending, WellFormed, PendingHasOneOwner, OwnsMark,
         GrantStaysDrained
<1> QED
  BY <1>1, <1>2, <1>3, <1>4, <1>5, <1>6, <1>8, <1>9, <1>10, <1>11, <1>12,
     <1>13, <1>14, <1>15, <1>16, <1>17
     DEF Next, ReaderStep, PrepareStep, TokenStep

(* A pending mark keeps new leases out, so a drained source stays drained. *)
LEMMA GrantStaysDrainedStep == IndInv /\ [Next]_vars /\ TypeOK' => GrantStaysDrained'
<1> SUFFICES ASSUME IndInv, [Next]_vars, TypeOK' PROVE GrantStaysDrained'
  OBVIOUS
<1> USE DEF IndInv
<1>a. /\ sources \in [Paths -> CoordinatedSourceEntry]
      /\ lease \in [Leases -> FastReaderLease]
      /\ token \in [Writers -> ExternalUpdateToken]
      /\ call \in [Writers -> PrepareCall]
  BY DEF TypeOK
<1>b. \A w \in Writers : /\ NotifyAll(call)[w].at # "asleep"
                         /\ NotifyAll(call)[w].at = "idle" <=> call[w].at = "idle"
                         /\ NotifyAll(call)[w].path = call[w].path
                         /\ NotifyAll(call)[w].token_id = call[w].token_id
  BY <1>a, NotifyAllWakes
<1>1. ASSUME NEW l \in Leases, NEW p \in Paths, TryAcquireFastReader(l, p)
      PROVE  GrantStaysDrained'
  BY <1>a, <1>1
     DEF TryAcquireFastReader, Admits, GrantStaysDrained, OwnsPending, WellFormed,
         PendingHasOneOwner, OwnsMark, CallOwnsPending, EntryExclusion,
         CoordinatedSourceEntry
<1>2. ASSUME NEW l \in Leases, Release(l)
      PROVE  GrantStaysDrained'
  BY <1>a, <1>2
     DEF Release, GrantStaysDrained, OwnsPending, WellFormed, PendingHasOneOwner,
         OwnsMark, CallOwnsPending, EntryExclusion, CoordinatedSourceEntry
<1>3. ASSUME NEW l \in Leases, NotifyAfterRelease(l)
      PROVE  GrantStaysDrained'
  BY <1>a, <1>3, <1>b
     DEF NotifyAfterRelease, GrantStaysDrained, OwnsPending, WellFormed,
         PendingHasOneOwner, OwnsMark, CallOwnsPending, EntryExclusion,
         CoordinatedSourceEntry
<1>4. ASSUME NEW l \in Leases, AbandonFailClosed(l)
      PROVE  GrantStaysDrained'
  BY <1>a, <1>4
     DEF AbandonFailClosed, GrantStaysDrained, OwnsPending, WellFormed,
         PendingHasOneOwner, OwnsMark, CallOwnsPending, EntryExclusion,
         CoordinatedSourceEntry
<1>5. ASSUME NEW l \in Leases, NEW m \in Leases, MoveLease(l, m)
      PROVE  GrantStaysDrained'
  BY <1>a, <1>5
     DEF MoveLease, EmptyLease, GrantStaysDrained, OwnsPending, WellFormed,
         PendingHasOneOwner, OwnsMark, CallOwnsPending, EntryExclusion,
         CoordinatedSourceEntry
<1>6. ASSUME NEW w \in Writers, NEW p \in Paths,
             PrepareImmediate(w, p) \/ PrepareWait(w, p)
      PROVE  GrantStaysDrained'
  BY <1>a, <1>6, PrepareEffect
     DEF CanPrepare, SameReadersAndWriter, SameCall, GrantStaysDrained,
         OwnsPending, WellFormed, PendingHasOneOwner, OwnsMark,
         CallOwnsPending, EntryExclusion, CoordinatedSourceEntry
<1>8. ASSUME NEW w \in Writers, PrepareDrained(w) \/ TimeoutDrained(w)
      PROVE  GrantStaysDrained'
  BY <1>a, <1>8, ReturnTokenEffect
     DEF Drained, GrantStaysDrained, OwnsPending, WellFormed, PendingHasOneOwner,
         OwnsMark, CallOwnsPending, EntryExclusion, CoordinatedSourceEntry
<1>9. ASSUME NEW w \in Writers, WaitAgain(w) \/ SpuriousWake(w)
      PROVE  GrantStaysDrained'
  BY <1>a, <1>9, RecheckEffect
     DEF SameCall, GrantStaysDrained, OwnsPending, WellFormed, PendingHasOneOwner,
         OwnsMark, CallOwnsPending, EntryExclusion, CoordinatedSourceEntry
<1>10. ASSUME NEW w \in Writers, TimeoutReadersActive(w)
       PROVE  GrantStaysDrained'
  BY <1>a, <1>10, TimeoutEffect, ClearPendingEffect
     DEF SameReadersAndWriter, SameCall, GrantStaysDrained, OwnsPending,
         WellFormed, PendingHasOneOwner, OwnsMark, CallOwnsPending,
         EntryExclusion, CoordinatedSourceEntry
<1>11. ASSUME NEW w \in Writers, NotifyUpdateOpened(w)
       PROVE  GrantStaysDrained'
  BY <1>a, <1>11, OpenEffect
     DEF OwnsPending, SameCall, GrantStaysDrained, OwnsPending, WellFormed,
         PendingHasOneOwner, OwnsMark, CallOwnsPending, EntryExclusion,
         CoordinatedSourceEntry
<1>12. ASSUME NEW w \in Writers, CancelBeforeUpdate(w)
       PROVE  GrantStaysDrained'
  BY <1>a, <1>12, <1>b
     DEF CancelBeforeUpdate, OwnsPending, ClearPending, GrantStaysDrained,
         OwnsPending, WellFormed, PendingHasOneOwner, OwnsMark,
         CallOwnsPending, EntryExclusion, CoordinatedSourceEntry
<1>13. ASSUME NEW w \in Writers, NEW ok \in BOOLEAN, NotifyUpdateClosed(w, ok)
       PROVE  GrantStaysDrained'
  BY <1>a, <1>13, CompleteEffect
     DEF NotifyUpdateClosed, SameCall, GrantStaysDrained, OwnsPending, WellFormed,
         PendingHasOneOwner, OwnsMark, CallOwnsPending, EntryExclusion,
         CoordinatedSourceEntry
<1>14. ASSUME NEW w \in Writers, DestroyToken(w)
       PROVE  GrantStaysDrained'
  BY <1>a, <1>14, DestroyEffect, ClearPendingEffect
     DEF OwnsPending, SameReadersAndWriter, SameCall, GrantStaysDrained,
         OwnsPending, WellFormed, PendingHasOneOwner, OwnsMark,
         CallOwnsPending, EntryExclusion, CoordinatedSourceEntry
<1>15. ASSUME NEW v \in Writers, NEW w \in Writers, MoveToken(v, w)
       PROVE  GrantStaysDrained'
  BY <1>a, <1>15
     DEF MoveToken, InvalidToken, GrantStaysDrained, OwnsPending, WellFormed,
         PendingHasOneOwner, OwnsMark, CallOwnsPending, EntryExclusion,
         CoordinatedSourceEntry
<1>16. ASSUME NEW p \in Paths, NEW id \in 1..MaxTokens, NEW ok \in BOOLEAN,
              NotifyExternalUpdateClosed(p, id, ok)
       PROVE  GrantStaysDrained'
  BY <1>a, <1>16, CompleteEffect
     DEF NotifyExternalUpdateClosed, SameCall, GrantStaysDrained, OwnsPending,
         WellFormed, PendingHasOneOwner, OwnsMark, CallOwnsPending,
         EntryExclusion, CoordinatedSourceEntry
<1>17. CASE UNCHANGED vars
  BY <1>17
     DEF vars, GrantStaysDrained, OwnsPending, WellFormed, PendingHasOneOwner,
         OwnsMark, CallOwnsPending, EntryExclusion
<1> QED
  BY <1>1, <1>2, <1>3, <1>4, <1>5, <1>6, <1>8, <1>9, <1>10, <1>11, <1>12,
     <1>13, <1>14, <1>15, <1>16, <1>17
     DEF Next, ReaderStep, PrepareStep, TokenStep

(* Only a report of a successful close ends a lifecycle. *)
LEMMA UnverifiedStaysClosedStep == IndInv /\ [Next]_vars /\ TypeOK' => UnverifiedStaysClosed'
<1> SUFFICES ASSUME IndInv, [Next]_vars, TypeOK' PROVE UnverifiedStaysClosed'
  OBVIOUS
<1> USE DEF IndInv
<1>a. /\ sources \in [Paths -> CoordinatedSourceEntry]
      /\ lease \in [Leases -> FastReaderLease]
      /\ token \in [Writers -> ExternalUpdateToken]
      /\ call \in [Writers -> PrepareCall]
  BY DEF TypeOK
<1>b. \A w \in Writers : /\ NotifyAll(call)[w].at # "asleep"
                         /\ NotifyAll(call)[w].at = "idle" <=> call[w].at = "idle"
                         /\ NotifyAll(call)[w].path = call[w].path
                         /\ NotifyAll(call)[w].token_id = call[w].token_id
  BY <1>a, NotifyAllWakes
<1>1. ASSUME NEW l \in Leases, NEW p \in Paths, TryAcquireFastReader(l, p)
      PROVE  UnverifiedStaysClosed'
  BY <1>a, <1>1
     DEF TryAcquireFastReader, Admits, UnverifiedStaysClosed, EntryExclusion,
         WellFormed, CoordinatedSourceEntry
<1>2. ASSUME NEW l \in Leases, Release(l)
      PROVE  UnverifiedStaysClosed'
  BY <1>a, <1>2
     DEF Release, UnverifiedStaysClosed, EntryExclusion, WellFormed,
         CoordinatedSourceEntry
<1>3. ASSUME NEW l \in Leases, NotifyAfterRelease(l)
      PROVE  UnverifiedStaysClosed'
  BY <1>a, <1>3, <1>b
     DEF NotifyAfterRelease, UnverifiedStaysClosed, EntryExclusion, WellFormed,
         CoordinatedSourceEntry
<1>4. ASSUME NEW l \in Leases, AbandonFailClosed(l)
      PROVE  UnverifiedStaysClosed'
  BY <1>a, <1>4
     DEF AbandonFailClosed, UnverifiedStaysClosed, EntryExclusion, WellFormed,
         CoordinatedSourceEntry
<1>5. ASSUME NEW l \in Leases, NEW m \in Leases, MoveLease(l, m)
      PROVE  UnverifiedStaysClosed'
  BY <1>a, <1>5
     DEF MoveLease, EmptyLease, UnverifiedStaysClosed, EntryExclusion, WellFormed,
         CoordinatedSourceEntry
<1>6. ASSUME NEW w \in Writers, NEW p \in Paths,
             PrepareImmediate(w, p) \/ PrepareWait(w, p)
      PROVE  UnverifiedStaysClosed'
  BY <1>a, <1>6, PrepareEffect
     DEF CanPrepare, SameReadersAndWriter, SameCall, UnverifiedStaysClosed,
         EntryExclusion, WellFormed, CoordinatedSourceEntry
<1>8. ASSUME NEW w \in Writers, PrepareDrained(w) \/ TimeoutDrained(w)
      PROVE  UnverifiedStaysClosed'
  BY <1>a, <1>8, ReturnTokenEffect
     DEF Drained, UnverifiedStaysClosed, EntryExclusion, WellFormed,
         CoordinatedSourceEntry
<1>9. ASSUME NEW w \in Writers, WaitAgain(w) \/ SpuriousWake(w)
      PROVE  UnverifiedStaysClosed'
  BY <1>a, <1>9, RecheckEffect
     DEF SameCall, UnverifiedStaysClosed, EntryExclusion, WellFormed,
         CoordinatedSourceEntry
<1>10. ASSUME NEW w \in Writers, TimeoutReadersActive(w)
       PROVE  UnverifiedStaysClosed'
  BY <1>a, <1>10, TimeoutEffect, ClearPendingEffect
     DEF SameReadersAndWriter, SameCall, UnverifiedStaysClosed, EntryExclusion,
         WellFormed, CoordinatedSourceEntry
<1>11. ASSUME NEW w \in Writers, NotifyUpdateOpened(w)
       PROVE  UnverifiedStaysClosed'
  BY <1>a, <1>11, OpenEffect
     DEF OwnsPending, SameCall, UnverifiedStaysClosed, EntryExclusion, WellFormed,
         CoordinatedSourceEntry
<1>12. ASSUME NEW w \in Writers, CancelBeforeUpdate(w)
       PROVE  UnverifiedStaysClosed'
  BY <1>a, <1>12, <1>b
     DEF CancelBeforeUpdate, OwnsPending, ClearPending, UnverifiedStaysClosed,
         EntryExclusion, WellFormed, CoordinatedSourceEntry
<1>13. ASSUME NEW w \in Writers, NEW ok \in BOOLEAN, NotifyUpdateClosed(w, ok)
       PROVE  UnverifiedStaysClosed'
  <2> DEFINE p == token[w].path
  <2>1. p \in Paths /\ CompleteExternalUpdate(p, token[w].token_id, ok)
    BY <1>13 DEF NotifyUpdateClosed, WellFormed
  <2> HIDE DEF p
  <2> QED
    BY <1>a, <2>1, CompleteEffect DEF UnverifiedStaysClosed, EntryExclusion,
       CoordinatedSourceEntry
<1>14. ASSUME NEW w \in Writers, DestroyToken(w)
       PROVE  UnverifiedStaysClosed'
  BY SMTT(40), <1>a, <1>14, DestroyEffect, ClearPendingEffect
     DEF OwnsPending, SameReadersAndWriter, SameCall, UnverifiedStaysClosed,
         EntryExclusion, WellFormed, CoordinatedSourceEntry
<1>15. ASSUME NEW v \in Writers, NEW w \in Writers, MoveToken(v, w)
       PROVE  UnverifiedStaysClosed'
  BY <1>a, <1>15
     DEF MoveToken, InvalidToken, UnverifiedStaysClosed, EntryExclusion,
         WellFormed, CoordinatedSourceEntry
<1>16. ASSUME NEW p \in Paths, NEW id \in 1..MaxTokens, NEW ok \in BOOLEAN,
              NotifyExternalUpdateClosed(p, id, ok)
       PROVE  UnverifiedStaysClosed'
  BY <1>a, <1>16, CompleteEffect
     DEF NotifyExternalUpdateClosed, SameCall, UnverifiedStaysClosed,
         EntryExclusion, WellFormed, CoordinatedSourceEntry
<1>17. CASE UNCHANGED vars
  BY <1>17 DEF vars, UnverifiedStaysClosed, EntryExclusion, WellFormed
<1> QED
  BY <1>1, <1>2, <1>3, <1>4, <1>5, <1>6, <1>8, <1>9, <1>10, <1>11, <1>12,
     <1>13, <1>14, <1>15, <1>16, <1>17
     DEF Next, ReaderStep, PrepareStep, TokenStep

(* A pending mark is handed on with its id, and a new one has a new id. *)
LEMMA PendingHasOneOwnerStep == IndInv /\ [Next]_vars /\ TypeOK' => PendingHasOneOwner'
<1> SUFFICES ASSUME IndInv, [Next]_vars, TypeOK' PROVE PendingHasOneOwner'
  OBVIOUS
<1> USE DEF IndInv
<1>a. /\ sources \in [Paths -> CoordinatedSourceEntry]
      /\ lease \in [Leases -> FastReaderLease]
      /\ token \in [Writers -> ExternalUpdateToken]
      /\ call \in [Writers -> PrepareCall]
  BY DEF TypeOK
<1>b. \A w \in Writers : /\ NotifyAll(call)[w].at # "asleep"
                         /\ NotifyAll(call)[w].at = "idle" <=> call[w].at = "idle"
                         /\ NotifyAll(call)[w].path = call[w].path
                         /\ NotifyAll(call)[w].token_id = call[w].token_id
  BY <1>a, NotifyAllWakes
<1>1. ASSUME NEW l \in Leases, NEW p \in Paths, TryAcquireFastReader(l, p)
      PROVE  PendingHasOneOwner'
  BY <1>a, <1>1
     DEF TryAcquireFastReader, Admits, PendingHasOneOwner, OwnsMark, WellFormed,
         CallOwnsPending, GrantStaysDrained, EntryExclusion,
         CoordinatedSourceEntry
<1>2. ASSUME NEW l \in Leases, Release(l)
      PROVE  PendingHasOneOwner'
  BY <1>a, <1>2
     DEF Release, PendingHasOneOwner, OwnsMark, WellFormed, CallOwnsPending,
         GrantStaysDrained, EntryExclusion, CoordinatedSourceEntry
<1>3. ASSUME NEW l \in Leases, NotifyAfterRelease(l)
      PROVE  PendingHasOneOwner'
  <2> SUFFICES ASSUME NEW q \in Paths, sources'[q].writer_pending
               PROVE  \E w1 \in Writers : \A x \in Writers :
                        OwnsMark(x, q)' <=> x = w1
    BY DEF PendingHasOneOwner
  <2>1. sources[q].writer_pending
    BY <1>3 DEF NotifyAfterRelease
  <2>5. \A x \in Writers : OwnsMark(x, q)' <=> OwnsMark(x, q)
    BY <1>b, <1>3 DEF NotifyAfterRelease, OwnsMark
  <2> QED BY <2>1, <2>5 DEF PendingHasOneOwner
<1>4. ASSUME NEW l \in Leases, AbandonFailClosed(l)
      PROVE  PendingHasOneOwner'
  BY <1>a, <1>4
     DEF AbandonFailClosed, PendingHasOneOwner, OwnsMark, WellFormed,
         CallOwnsPending, GrantStaysDrained, EntryExclusion,
         CoordinatedSourceEntry
<1>5. ASSUME NEW l \in Leases, NEW m \in Leases, MoveLease(l, m)
      PROVE  PendingHasOneOwner'
  BY <1>a, <1>5
     DEF MoveLease, EmptyLease, PendingHasOneOwner, OwnsMark, WellFormed,
         CallOwnsPending, GrantStaysDrained, EntryExclusion,
         CoordinatedSourceEntry
<1>6. ASSUME NEW w \in Writers, NEW p \in Paths,
             PrepareImmediate(w, p) \/ PrepareWait(w, p)
      PROVE  PendingHasOneOwner'
  <2> SUFFICES ASSUME NEW q \in Paths, sources'[q].writer_pending
               PROVE  \E w1 \in Writers : \A x \in Writers :
                        OwnsMark(x, q)' <=> x = w1
    BY DEF PendingHasOneOwner
  <2>1. CASE q = p
    <3>1. OwnsMark(w, q)'
      BY <1>6, <2>1, PrepareEffect DEF OwnsMark
    <3>2. ASSUME NEW x \in Writers, x # w, OwnsMark(x, q)'
          PROVE  FALSE
      <4>1. /\ token'[x] = token[x] /\ SameCall(x)
            /\ sources'[q].writer_token_id = next_token_id
        BY <1>6, <2>1, <3>2, PrepareEffect
      <4>2. next_token_id < next_token_id
        BY <3>2, <4>1 DEF OwnsMark, SameCall, WellFormed
      <4> QED BY <4>2 DEF TypeOK
    <3> QED BY <3>1, <3>2
  <2>2. CASE q # p
    <3>1. sources'[q] = sources[q] /\ sources[q].writer_pending
      BY <1>6, <2>2, PrepareEffect
    <3>2. ASSUME NEW x \in Writers, x # w
          PROVE  OwnsMark(x, q)' <=> OwnsMark(x, q)
      BY <1>6, <3>1, <3>2, PrepareEffect DEF OwnsMark, SameCall
    <3>3. ~OwnsMark(w, q)' /\ ~OwnsMark(w, q)
      BY <1>6, <2>2, PrepareEffect DEF OwnsMark, CanPrepare
    <3> QED BY <3>1, <3>2, <3>3 DEF PendingHasOneOwner
  <2> QED BY <2>1, <2>2
<1>8. ASSUME NEW w \in Writers, PrepareDrained(w) \/ TimeoutDrained(w)
      PROVE  PendingHasOneOwner'
  BY SMTT(40), <1>a, <1>8, ReturnTokenEffect
     DEF Drained, PendingHasOneOwner, OwnsMark, WellFormed, CallOwnsPending,
         GrantStaysDrained, EntryExclusion, CoordinatedSourceEntry
<1>9. ASSUME NEW w \in Writers, WaitAgain(w) \/ SpuriousWake(w)
      PROVE  PendingHasOneOwner'
  <2> SUFFICES ASSUME NEW q \in Paths, sources'[q].writer_pending
               PROVE  \E w1 \in Writers : \A x \in Writers :
                        OwnsMark(x, q)' <=> x = w1
    BY DEF PendingHasOneOwner
  <2>1. sources[q].writer_pending
    BY <1>9, RecheckEffect
  <2>5. \A x \in Writers : OwnsMark(x, q)' <=> OwnsMark(x, q)
    BY <1>9, RecheckEffect DEF SameCall, OwnsMark
  <2> QED BY <2>1, <2>5 DEF PendingHasOneOwner
<1>10. ASSUME NEW w \in Writers, TimeoutReadersActive(w)
       PROVE  PendingHasOneOwner'
  <2> SUFFICES ASSUME NEW q \in Paths, sources'[q].writer_pending
               PROVE  \E w1 \in Writers : \A x \in Writers :
                        OwnsMark(x, q)' <=> x = w1
    BY DEF PendingHasOneOwner
  <2>1. /\ q # call[w].path /\ sources'[q] = sources[q]
        /\ sources[q].writer_pending
    BY <1>10, TimeoutEffect, ClearPendingEffect
  <2>5. \A x \in Writers : OwnsMark(x, q)' <=> OwnsMark(x, q)
    <3>1. ASSUME NEW x \in Writers, x # w
          PROVE  OwnsMark(x, q)' <=> OwnsMark(x, q)
      BY <1>10, <2>1, <3>1, TimeoutEffect DEF SameCall, OwnsMark
    <3>2. ~OwnsMark(w, q)' /\ ~OwnsMark(w, q)
      BY <1>10, <2>1, TimeoutEffect DEF CallOwnsPending, OwnsMark
    <3> QED BY <3>1, <3>2
  <2> QED BY <2>1, <2>5 DEF PendingHasOneOwner
<1>11. ASSUME NEW w \in Writers, NotifyUpdateOpened(w)
       PROVE  PendingHasOneOwner'
  <2> SUFFICES ASSUME NEW q \in Paths, sources'[q].writer_pending
               PROVE  \E w1 \in Writers : \A x \in Writers :
                        OwnsMark(x, q)' <=> x = w1
    BY DEF PendingHasOneOwner
  <2>1. /\ q # token[w].path /\ sources'[q] = sources[q]
        /\ sources[q].writer_pending
    BY <1>11, OpenEffect
  <2>5. \A x \in Writers : OwnsMark(x, q)' <=> OwnsMark(x, q)
    BY <1>11, <2>1, OpenEffect DEF SameCall, OwnsMark
  <2> QED BY <2>1, <2>5 DEF PendingHasOneOwner
<1>12. ASSUME NEW w \in Writers, CancelBeforeUpdate(w)
       PROVE  PendingHasOneOwner'
  <2> SUFFICES ASSUME NEW q \in Paths, sources'[q].writer_pending
               PROVE  \E w1 \in Writers : \A x \in Writers :
                        OwnsMark(x, q)' <=> x = w1
    BY DEF PendingHasOneOwner
  <2>0. token[w].path \in Paths /\ ClearPending(token[w].path)
    BY <1>12 DEF CancelBeforeUpdate, OwnsPending, WellFormed
  <2>1. /\ q # token[w].path /\ sources'[q] = sources[q]
        /\ sources[q].writer_pending
    BY <2>0, ClearPendingEffect
  <2>5. \A x \in Writers : OwnsMark(x, q)' <=> OwnsMark(x, q)
    BY <1>a, <1>b, <1>12, <2>1
       DEF CancelBeforeUpdate, OwnsMark, ExternalUpdateToken
  <2> QED BY <2>1, <2>5 DEF PendingHasOneOwner
<1>13. ASSUME NEW w \in Writers, NEW ok \in BOOLEAN, NotifyUpdateClosed(w, ok)
       PROVE  PendingHasOneOwner'
  <2> SUFFICES ASSUME NEW q \in Paths, sources'[q].writer_pending
               PROVE  \E w1 \in Writers : \A x \in Writers :
                        OwnsMark(x, q)' <=> x = w1
    BY DEF PendingHasOneOwner
  <2> DEFINE p == token[w].path
  <2>0. p \in Paths /\ CompleteExternalUpdate(p, token[w].token_id, ok)
    BY <1>13 DEF NotifyUpdateClosed, WellFormed
  <2>2. sources'[q].writer_pending = sources[q].writer_pending
    BY <2>0, CompleteEffect
  <2>1. q # p /\ sources'[q] = sources[q] /\ sources[q].writer_pending
    BY <2>0, <2>2, CompleteEffect DEF EntryExclusion
  <2>3. \A x \in Writers : SameCall(x)
    BY <2>0, CompleteEffect
  <2>5. \A x \in Writers : OwnsMark(x, q)' <=> OwnsMark(x, q)
    BY <1>a, <1>13, <2>1, <2>3
       DEF NotifyUpdateClosed, SameCall, OwnsMark, ExternalUpdateToken
  <2> QED BY <2>1, <2>5 DEF PendingHasOneOwner
<1>14. ASSUME NEW w \in Writers, DestroyToken(w)
       PROVE  PendingHasOneOwner'
  <2> SUFFICES ASSUME NEW q \in Paths, sources'[q].writer_pending
               PROVE  \E w1 \in Writers : \A x \in Writers :
                        OwnsMark(x, q)' <=> x = w1
    BY DEF PendingHasOneOwner
  <2>0. \/ sources' = sources /\ token[w].phase # "Pending"
        \/ token[w].path \in Paths /\ ClearPending(token[w].path)
    BY <1>14, DestroyEffect DEF GrantStaysDrained
  <2>1. /\ sources'[q] = sources[q] /\ sources[q].writer_pending
        /\ token[w].phase = "Pending" => q # token[w].path
    BY <2>0, ClearPendingEffect
  <2>5. \A x \in Writers : OwnsMark(x, q)' <=> OwnsMark(x, q)
    BY <1>14, <2>1, DestroyEffect DEF SameCall, OwnsMark
  <2> QED BY <2>1, <2>5 DEF PendingHasOneOwner
<1>15. ASSUME NEW v \in Writers, NEW w \in Writers, MoveToken(v, w)
       PROVE  PendingHasOneOwner'
  BY <1>a, <1>15
     DEF MoveToken, InvalidToken, PendingHasOneOwner, OwnsMark, WellFormed,
         CallOwnsPending, GrantStaysDrained, EntryExclusion,
         CoordinatedSourceEntry
<1>16. ASSUME NEW p \in Paths, NEW id \in 1..MaxTokens, NEW ok \in BOOLEAN,
              NotifyExternalUpdateClosed(p, id, ok)
       PROVE  PendingHasOneOwner'
  <2> SUFFICES ASSUME NEW q \in Paths, sources'[q].writer_pending
               PROVE  \E w1 \in Writers : \A x \in Writers :
                        OwnsMark(x, q)' <=> x = w1
    BY DEF PendingHasOneOwner
  <2>0. p \in Paths /\ CompleteExternalUpdate(p, id, ok)
    BY <1>16 DEF NotifyExternalUpdateClosed
  <2>2. sources'[q].writer_pending = sources[q].writer_pending
    BY <2>0, CompleteEffect
  <2>1. q # p /\ sources'[q] = sources[q] /\ sources[q].writer_pending
    BY <2>0, <2>2, CompleteEffect DEF EntryExclusion
  <2>3. \A x \in Writers : SameCall(x)
    BY <2>0, CompleteEffect
  <2>5. \A x \in Writers : OwnsMark(x, q)' <=> OwnsMark(x, q)
    BY <1>16, <2>1, <2>3
       DEF NotifyExternalUpdateClosed, SameCall, OwnsMark
  <2> QED BY <2>1, <2>5 DEF PendingHasOneOwner
<1>17. CASE UNCHANGED vars
  BY <1>17
     DEF vars, PendingHasOneOwner, OwnsMark, WellFormed, CallOwnsPending,
         GrantStaysDrained, EntryExclusion
<1> QED
  BY <1>1, <1>2, <1>3, <1>4, <1>5, <1>6, <1>8, <1>9, <1>10, <1>11, <1>12,
     <1>13, <1>14, <1>15, <1>16, <1>17
     DEF Next, ReaderStep, PrepareStep, TokenStep

(* A count that falls to zero does so in a release that still has to notify. *)
LEMMA NoLostWakeupStep == IndInv /\ [Next]_vars /\ TypeOK' => NoLostWakeup'
<1> SUFFICES ASSUME IndInv, [Next]_vars, TypeOK' PROVE NoLostWakeup'
  OBVIOUS
<1> USE DEF IndInv
<1>a. /\ sources \in [Paths -> CoordinatedSourceEntry]
      /\ lease \in [Leases -> FastReaderLease]
      /\ token \in [Writers -> ExternalUpdateToken]
      /\ call \in [Writers -> PrepareCall]
  BY DEF TypeOK
<1>b. \A w \in Writers : /\ NotifyAll(call)[w].at # "asleep"
                         /\ NotifyAll(call)[w].at = "idle" <=> call[w].at = "idle"
                         /\ NotifyAll(call)[w].path = call[w].path
                         /\ NotifyAll(call)[w].token_id = call[w].token_id
  BY <1>a, NotifyAllWakes
<1>1. ASSUME NEW l \in Leases, NEW p \in Paths, TryAcquireFastReader(l, p)
      PROVE  NoLostWakeup'
  BY <1>a, <1>1
     DEF TryAcquireFastReader, Admits, NoLostWakeup, Drained, WellFormed,
         CallOwnsPending, CoordinatedSourceEntry
<1>2. ASSUME NEW l \in Leases, Release(l)
      PROVE  NoLostWakeup'
  BY <1>a, <1>2
     DEF Release, NoLostWakeup, Drained, WellFormed, CallOwnsPending,
         CoordinatedSourceEntry
<1>3. ASSUME NEW l \in Leases, NotifyAfterRelease(l)
      PROVE  NoLostWakeup'
  BY <1>a, <1>3, <1>b
     DEF NotifyAfterRelease, NoLostWakeup, Drained, WellFormed, CallOwnsPending,
         CoordinatedSourceEntry
<1>4. ASSUME NEW l \in Leases, AbandonFailClosed(l)
      PROVE  NoLostWakeup'
  BY <1>a, <1>4
     DEF AbandonFailClosed, NoLostWakeup, Drained, WellFormed, CallOwnsPending,
         CoordinatedSourceEntry
<1>5. ASSUME NEW l \in Leases, NEW m \in Leases, MoveLease(l, m)
      PROVE  NoLostWakeup'
  BY <1>a, <1>5
     DEF MoveLease, EmptyLease, NoLostWakeup, Drained, WellFormed, CallOwnsPending,
         CoordinatedSourceEntry
<1>6. ASSUME NEW w \in Writers, NEW p \in Paths,
             PrepareImmediate(w, p) \/ PrepareWait(w, p)
      PROVE  NoLostWakeup'
  BY <1>a, <1>6, PrepareEffect
     DEF CanPrepare, SameReadersAndWriter, SameCall, NoLostWakeup, Drained,
         WellFormed, CallOwnsPending, CoordinatedSourceEntry
<1>8. ASSUME NEW w \in Writers, PrepareDrained(w) \/ TimeoutDrained(w)
      PROVE  NoLostWakeup'
  BY <1>a, <1>8, ReturnTokenEffect
     DEF Drained, NoLostWakeup, Drained, WellFormed, CallOwnsPending,
         CoordinatedSourceEntry
<1>9. ASSUME NEW w \in Writers, WaitAgain(w) \/ SpuriousWake(w)
      PROVE  NoLostWakeup'
  BY <1>a, <1>9, RecheckEffect
     DEF SameCall, NoLostWakeup, Drained, WellFormed, CallOwnsPending,
         CoordinatedSourceEntry
<1>10. ASSUME NEW w \in Writers, TimeoutReadersActive(w)
       PROVE  NoLostWakeup'
  BY <1>a, <1>10, TimeoutEffect, ClearPendingEffect
     DEF SameReadersAndWriter, SameCall, NoLostWakeup, Drained, WellFormed,
         CallOwnsPending, CoordinatedSourceEntry
<1>11. ASSUME NEW w \in Writers, NotifyUpdateOpened(w)
       PROVE  NoLostWakeup'
  BY <1>a, <1>11, OpenEffect
     DEF OwnsPending, SameCall, NoLostWakeup, Drained, WellFormed, CallOwnsPending,
         CoordinatedSourceEntry
<1>12. ASSUME NEW w \in Writers, CancelBeforeUpdate(w)
       PROVE  NoLostWakeup'
  BY <1>a, <1>12, <1>b
     DEF CancelBeforeUpdate, OwnsPending, ClearPending, NoLostWakeup, Drained,
         WellFormed, CallOwnsPending, CoordinatedSourceEntry
<1>13. ASSUME NEW w \in Writers, NEW ok \in BOOLEAN, NotifyUpdateClosed(w, ok)
       PROVE  NoLostWakeup'
  BY <1>a, <1>13, CompleteEffect
     DEF NotifyUpdateClosed, SameCall, NoLostWakeup, Drained, WellFormed,
         CallOwnsPending, CoordinatedSourceEntry
<1>14. ASSUME NEW w \in Writers, DestroyToken(w)
       PROVE  NoLostWakeup'
  BY <1>a, <1>14, DestroyEffect, ClearPendingEffect
     DEF OwnsPending, SameReadersAndWriter, SameCall, NoLostWakeup, Drained,
         WellFormed, CallOwnsPending, CoordinatedSourceEntry
<1>15. ASSUME NEW v \in Writers, NEW w \in Writers, MoveToken(v, w)
       PROVE  NoLostWakeup'
  BY <1>a, <1>15
     DEF MoveToken, InvalidToken, NoLostWakeup, Drained, WellFormed,
         CallOwnsPending, CoordinatedSourceEntry
<1>16. ASSUME NEW p \in Paths, NEW id \in 1..MaxTokens, NEW ok \in BOOLEAN,
              NotifyExternalUpdateClosed(p, id, ok)
       PROVE  NoLostWakeup'
  BY <1>a, <1>16, CompleteEffect
     DEF NotifyExternalUpdateClosed, SameCall, NoLostWakeup, Drained, WellFormed,
         CallOwnsPending, CoordinatedSourceEntry
<1>17. CASE UNCHANGED vars
  BY <1>17 DEF vars, NoLostWakeup, Drained, WellFormed, CallOwnsPending
<1> QED
  BY <1>1, <1>2, <1>3, <1>4, <1>5, <1>6, <1>8, <1>9, <1>10, <1>11, <1>12,
     <1>13, <1>14, <1>15, <1>16, <1>17
     DEF Next, ReaderStep, PrepareStep, TokenStep

(* Leases are counted in and out one by one; a move keeps the number of
   holders, an abandonment turns a holder into a leak. *)
LEMMA ReaderCountExactStep ==
        IndInv /\ [Next]_vars /\ TypeOK' => ReaderCountExact'
<1> SUFFICES ASSUME IndInv, [Next]_vars, TypeOK', NEW q \in Paths
             PROVE  sources'[q].fast_reader_count
                      = Cardinality(Holders(q)') + abandoned'[q]
  BY DEF ReaderCountExact
<1> USE DEF IndInv
<1> DEFINE Exact == sources'[q].fast_reader_count
                      = Cardinality(Holders(q)') + abandoned'[q]
<1>a. /\ IsFiniteSet(Holders(q)) /\ Cardinality(Holders(q)) \in Nat
      /\ sources[q].fast_reader_count = Cardinality(Holders(q)) + abandoned[q]
  BY CoordinatorAssumption, FS_Subset, FS_CardinalityType
  DEF Holders, ReaderCountExact
<1>b. /\ sources \in [Paths -> CoordinatedSourceEntry]
      /\ lease \in [Leases -> FastReaderLease]
      /\ abandoned \in [Paths -> Nat] /\ abandoned[q] \in Nat
  BY DEF TypeOK
<1>c. ASSUME UNCHANGED <<lease, abandoned>>,
             sources'[q].fast_reader_count = sources[q].fast_reader_count
      PROVE  Exact
  <2>1. Holders(q)' = Holders(q)
    BY <1>c DEF Holders
  <2> QED BY <1>a, <1>c, <2>1
<1>1. ASSUME NEW l \in Leases, NEW p \in Paths, TryAcquireFastReader(l, p)
      PROVE  Exact
  <2>1. CASE q = p
    <3>1. Holders(q)' = Holders(q) \cup {l} /\ l \notin Holders(q)
      BY <1>b, <1>1, <2>1 DEF TryAcquireFastReader, Holders
    <3>2. Cardinality(Holders(q)') = Cardinality(Holders(q)) + 1
      BY <1>a, <3>1, FS_AddElement
    <3>3. sources'[q].fast_reader_count = sources[q].fast_reader_count + 1
            /\ abandoned' = abandoned
      BY <1>b, <1>1, <2>1 DEF TryAcquireFastReader, CoordinatedSourceEntry
    <3> QED BY <1>a, <1>b, <3>2, <3>3
  <2>2. CASE q # p
    <3>1. Holders(q)' = Holders(q)
      BY <1>b, <1>1, <2>2 DEF TryAcquireFastReader, Holders
    <3>2. sources'[q] = sources[q] /\ abandoned' = abandoned
      BY <1>b, <1>1, <2>2 DEF TryAcquireFastReader
    <3> QED BY <1>a, <3>1, <3>2
  <2> QED BY <2>1, <2>2
<1>2. ASSUME NEW l \in Leases, Release(l) PROVE Exact
  <2>1. CASE q = lease[l].path
    <3>1. Holders(q)' = Holders(q) \ {l} /\ l \in Holders(q)
      BY <1>b, <1>2, <2>1 DEF Release, Holders, FastReaderLease
    <3>2. /\ Cardinality(Holders(q)') = Cardinality(Holders(q)) - 1
          /\ Cardinality(Holders(q)') \in Nat
      BY <1>a, <3>1, FS_RemoveElement, FS_CardinalityType
    <3>3. /\ sources'[q].fast_reader_count =
               IF sources[q].fast_reader_count > 0
                 THEN sources[q].fast_reader_count - 1
                 ELSE sources[q].fast_reader_count
          /\ abandoned' = abandoned
      BY <1>b, <1>2, <2>1 DEF Release, CoordinatedSourceEntry
    <3> QED BY <1>a, <1>b, <3>2, <3>3
  <2>2. CASE q # lease[l].path
    <3>1. Holders(q)' = Holders(q)
      BY <1>b, <1>2, <2>2 DEF Release, Holders, FastReaderLease
    <3>2. sources'[q] = sources[q] /\ abandoned' = abandoned
      BY <1>b, <1>2, <2>2 DEF Release
    <3> QED BY <1>a, <3>1, <3>2
  <2> QED BY <2>1, <2>2
<1>3. ASSUME NEW l \in Leases, NotifyAfterRelease(l) PROVE Exact
  BY <1>c, <1>3 DEF NotifyAfterRelease
<1>4. ASSUME NEW l \in Leases, AbandonFailClosed(l) PROVE Exact
  <2>1. CASE q = lease[l].path
    <3>1. Holders(q)' = Holders(q) \ {l} /\ l \in Holders(q)
      BY <1>b, <1>4, <2>1, CoordinatorAssumption
      DEF AbandonFailClosed, Holders, FastReaderLease
    <3>2. Cardinality(Holders(q)') = Cardinality(Holders(q)) - 1
      BY <1>a, <3>1, FS_RemoveElement
    <3>3. abandoned'[q] = abandoned[q] + 1 /\ sources' = sources
      BY <1>b, <1>4, <2>1 DEF AbandonFailClosed
    <3> QED BY <1>a, <1>b, <3>2, <3>3
  <2>2. CASE q # lease[l].path
    <3>1. Holders(q)' = Holders(q)
      BY <1>b, <1>4, <2>2, CoordinatorAssumption
      DEF AbandonFailClosed, Holders, FastReaderLease
    <3>2. abandoned'[q] = abandoned[q] /\ sources' = sources
      BY <1>b, <1>4, <2>2 DEF AbandonFailClosed
    <3> QED BY <1>a, <3>1, <3>2
  <2> QED BY <2>1, <2>2
<1>5. ASSUME NEW l \in Leases, NEW m \in Leases, MoveLease(l, m) PROVE Exact
  <2>1. UNCHANGED <<sources, abandoned>>
    BY <1>5 DEF MoveLease
  <2>2. CASE q = lease[l].path
    <3>1. /\ Holders(q)' = (Holders(q) \ {l}) \cup {m}
          /\ l \in Holders(q) /\ m \notin Holders(q)
      BY <1>b, <1>5, <2>2 DEF MoveLease, Holders, EmptyLease
    <3>2. /\ IsFiniteSet(Holders(q) \ {l})
          /\ Cardinality(Holders(q) \ {l}) = Cardinality(Holders(q)) - 1
      BY <1>a, <3>1, FS_RemoveElement
    <3>3. Cardinality(Holders(q)') = Cardinality(Holders(q) \ {l}) + 1
      BY <3>1, <3>2, FS_AddElement
    <3> QED BY <1>a, <2>1, <3>2, <3>3
  <2>3. CASE q # lease[l].path
    <3>1. Holders(q)' = Holders(q)
      BY <1>b, <1>5, <2>3 DEF MoveLease, Holders, EmptyLease
    <3> QED BY <1>a, <2>1, <3>1
  <2> QED BY <2>2, <2>3
<1>6. ASSUME NEW w \in Writers, NEW p \in Paths,
             PrepareImmediate(w, p) \/ PrepareWait(w, p)
      PROVE  Exact
  BY <1>c, <1>6, PrepareEffect DEF SameReadersAndWriter
<1>8. ASSUME NEW w \in Writers, PrepareDrained(w) \/ TimeoutDrained(w)
      PROVE  Exact
  BY <1>c, <1>8, ReturnTokenEffect
<1>9. ASSUME NEW w \in Writers, WaitAgain(w) \/ SpuriousWake(w) PROVE Exact
  BY <1>c, <1>9, RecheckEffect
<1>10. ASSUME NEW w \in Writers, TimeoutReadersActive(w) PROVE Exact
  BY <1>c, <1>10, TimeoutEffect, ClearPendingEffect DEF SameReadersAndWriter
<1>11. ASSUME NEW w \in Writers, NotifyUpdateOpened(w) PROVE Exact
  BY <1>c, <1>11, OpenEffect
<1>12. ASSUME NEW w \in Writers, CancelBeforeUpdate(w) PROVE Exact
  <2>1. /\ token[w].path \in Paths /\ ClearPending(token[w].path)
        /\ UNCHANGED <<lease, abandoned>>
    BY <1>12 DEF CancelBeforeUpdate, OwnsPending, WellFormed
  <2> QED BY <1>c, <2>1, ClearPendingEffect DEF SameReadersAndWriter
<1>13. ASSUME NEW w \in Writers, NEW ok \in BOOLEAN, NotifyUpdateClosed(w, ok)
       PROVE  Exact
  BY <1>c, <1>13, CompleteEffect DEF NotifyUpdateClosed, WellFormed
<1>14. ASSUME NEW w \in Writers, DestroyToken(w) PROVE Exact
  BY <1>c, <1>14, DestroyEffect, ClearPendingEffect DEF SameReadersAndWriter
<1>15. ASSUME NEW v \in Writers, NEW w \in Writers, MoveToken(v, w) PROVE Exact
  BY <1>c, <1>15 DEF MoveToken
<1>16. ASSUME NEW p \in Paths, NEW id \in 1..MaxTokens, NEW ok \in BOOLEAN,
              NotifyExternalUpdateClosed(p, id, ok)
       PROVE  Exact
  BY <1>c, <1>16, CompleteEffect DEF NotifyExternalUpdateClosed
<1>17. CASE UNCHANGED vars
  BY <1>c, <1>17 DEF vars
<1> QED
  BY <1>1, <1>2, <1>3, <1>4, <1>5, <1>6, <1>8, <1>9, <1>10, <1>11, <1>12,
     <1>13, <1>14, <1>15, <1>16, <1>17
  DEF Next, ReaderStep, PrepareStep, TokenStep

-----------------------------------------------------------------------------
LEMMA Inductive == IndInv /\ [Next]_vars => IndInv'
<1> SUFFICES ASSUME IndInv, [Next]_vars PROVE IndInv'
  OBVIOUS
<1>1. TypeOK'
  BY TypeStep DEF IndInv
<1> QED
  BY <1>1, WellFormedStep, ReaderCountExactStep, EntryExclusionStep,
     LeaseGenerationCurrentStep, CallOwnsPendingStep, GrantStaysDrainedStep,
     PendingHasOneOwnerStep, UnverifiedStaysClosedStep, NoLostWakeupStep
  DEF IndInv

(* The inductive invariant holds in every state of every behaviour. *)
THEOREM Invariance == Spec => []IndInv
<1>1. Init => IndInv
  BY InitIndInv
<1>2. IndInv /\ [Next]_vars => IndInv'
  BY Inductive
<1> QED BY <1>1, <1>2, PTL DEF Spec

(* Every variable of the coordinator keeps its type. *)
THEOREM TypeCorrect == Spec => []TypeOK
<1>1. IndInv => TypeOK
  BY DEF IndInv
<1> QED BY <1>1, Invariance, PTL

(* fast_reader_count is exact: no acquire, release, move or abandonment of a
   lease is counted twice or lost. *)
THEOREM ReaderCount == Spec => []ReaderCountExact
<1>1. IndInv => ReaderCountExact
  BY DEF IndInv
<1> QED BY <1>1, Invariance, PTL

(* While a Writer is active no lease is held on the source and none was ever
   given up with its mapping open. *)
THEOREM MutualExclusion == Spec => []WriterExclusion
<1>1. IndInv => WriterExclusion
  <2> SUFFICES ASSUME IndInv, NEW p \in Paths, sources[p].writer_active
               PROVE  /\ Holders(p) = {} /\ abandoned[p] = 0
                      /\ ~sources[p].writer_pending
    BY DEF WriterExclusion
  <2>1. sources[p].fast_reader_count = 0 /\ ~sources[p].writer_pending
    BY DEF IndInv, EntryExclusion
  <2> QED BY <2>1, ZeroCountNoHolders DEF IndInv
<1> QED BY <1>1, Invariance, PTL

(* A held lease is of the current generation, however long it is held. *)
THEOREM LeasesCurrent == Spec => []LeaseGenerationCurrent
<1>1. IndInv => LeaseGenerationCurrent
  BY DEF IndInv
<1> QED BY <1>1, Invariance, PTL

(* A pending mark can always be withdrawn by exactly one call or token. *)
THEOREM PendingOwned == Spec => []PendingHasOneOwner
<1>1. IndInv => PendingHasOneOwner
  BY DEF IndInv
<1> QED BY <1>1, Invariance, PTL

(* notify_update_opened on a granted token finds the source drained. *)
THEOREM GrantsHold == Spec => []GrantStaysDrained
<1>1. IndInv => GrantStaysDrained
  BY DEF IndInv
<1> QED BY <1>1, Invariance, PTL

(* A source whose Writer did not confirm its close stays closed to others. *)
THEOREM FailClosed == Spec => []UnverifiedStaysClosed
<1>1. IndInv => UnverifiedStaysClosed
  BY DEF IndInv
<1> QED BY <1>1, Invariance, PTL

(* No wake-up of a drained prepare call is lost. *)
THEOREM WakeupsKept == Spec => []NoLostWakeup
<1>1. IndInv => NoLostWakeup
  BY DEF IndInv
<1> QED BY <1>1, Invariance, PTL

-----------------------------------------------------------------------------
(* Only the report of a close moves a generation. *)
LEMMA GenerationStep ==
  ASSUME IndInv, [Next]_vars, NEW p \in Paths,
         sources'[p].generation # sources[p].generation
  PROVE  /\ sources'[p].generation = sources[p].generation + 1
         /\ sources[p].writer_active
         /\ sources[p].source_verified
         /\ Holders(p) = {}
<1> USE DEF IndInv
<1> DEFINE Goal == /\ sources'[p].generation = sources[p].generation + 1
                   /\ sources[p].writer_active
                   /\ sources[p].source_verified
                   /\ Holders(p) = {}
<1>a. sources \in [Paths -> CoordinatedSourceEntry]
  BY DEF TypeOK
<1>1. ASSUME NEW q \in Paths, NEW id, NEW ok \in BOOLEAN,
             CompleteExternalUpdate(q, id, ok)
      PROVE  Goal
  <2>1. p = q /\ ~sources[p].writer_generation_invalidated
          /\ sources[p].writer_active
          /\ sources'[p].generation = sources[p].generation + 1
    BY <1>1, CompleteEffect
  <2>2. sources[p].source_verified
    BY <2>1 DEF UnverifiedStaysClosed
  <2>3. Holders(p) = {}
    BY <2>1, ZeroCountNoHolders DEF EntryExclusion
  <2> QED BY <2>1, <2>2, <2>3
<1>2. ASSUME NEW l \in Leases, ReaderStep(l) PROVE FALSE
  BY <1>a, <1>2
  DEF ReaderStep, TryAcquireFastReader, Release, NotifyAfterRelease,
      AbandonFailClosed, MoveLease, CoordinatedSourceEntry
<1>3. ASSUME NEW w \in Writers, PrepareStep(w) PROVE FALSE
  <2>1. ASSUME NEW q \in Paths, PrepareImmediate(w, q) \/ PrepareWait(w, q)
        PROVE  FALSE
    BY <2>1, PrepareEffect DEF SameReadersAndWriter
  <2>2. CASE PrepareDrained(w) \/ TimeoutDrained(w)
    BY <2>2, ReturnTokenEffect
  <2>3. CASE WaitAgain(w) \/ SpuriousWake(w)
    BY <2>3, RecheckEffect
  <2>4. CASE TimeoutReadersActive(w)
    BY <2>4, TimeoutEffect, ClearPendingEffect DEF SameReadersAndWriter
  <2> QED BY <1>3, <2>1, <2>2, <2>3, <2>4 DEF PrepareStep
<1>4. ASSUME NEW w \in Writers, TokenStep(w) PROVE Goal
  <2>1. CASE NotifyUpdateOpened(w)
    BY <2>1, OpenEffect
  <2>2. CASE CancelBeforeUpdate(w)
    <3>1. token[w].path \in Paths /\ ClearPending(token[w].path)
      BY <2>2 DEF CancelBeforeUpdate, OwnsPending, WellFormed
    <3> QED BY <3>1, ClearPendingEffect DEF SameReadersAndWriter
  <2>3. ASSUME NEW ok \in BOOLEAN, NotifyUpdateClosed(w, ok) PROVE Goal
    <3>1. /\ token[w].path \in Paths
          /\ CompleteExternalUpdate(token[w].path, token[w].token_id, ok)
      BY <2>3 DEF NotifyUpdateClosed, WellFormed
    <3> QED BY <1>1, <3>1
  <2>4. CASE DestroyToken(w)
    BY <2>4, DestroyEffect, ClearPendingEffect DEF SameReadersAndWriter
  <2>5. ASSUME NEW v \in Writers, MoveToken(v, w) PROVE FALSE
    BY <2>5 DEF MoveToken
  <2> QED BY <1>4, <2>1, <2>2, <2>3, <2>4, <2>5 DEF TokenStep
<1>5. ASSUME NEW q \in Paths, NEW id \in 1..MaxTokens, NEW ok \in BOOLEAN,
             NotifyExternalUpdateClosed(q, id, ok)
      PROVE  Goal
  BY <1>1, <1>5 DEF NotifyExternalUpdateClosed
<1>6. CASE UNCHANGED vars
  BY <1>6 DEF vars
<1> QED BY <1>2, <1>3, <1>4, <1>5, <1>6 DEF Next

(* The generation moves once in a Writer's lifecycle, at its close report. *)
THEOREM GenerationOnce == Spec => GenerationOncePerWriter
<1> DEFINE Once == \A p \in Paths :
       sources'[p].generation # sources[p].generation =>
         /\ sources'[p].generation = sources[p].generation + 1
         /\ sources[p].writer_active
         /\ sources[p].source_verified
         /\ Holders(p) = {}
<1>1. IndInv /\ [Next]_vars => [Once]_vars
  BY GenerationStep
<1>2. []IndInv /\ [][Next]_vars => [][Once]_vars
  BY <1>1, PTL
<1>3. Spec => []IndInv
  BY Invariance
<1> QED BY <1>2, <1>3, PTL DEF Spec, GenerationOncePerWriter

-----------------------------------------------------------------------------
(* The coordinator implements SourceExclusion. *)

LEMMA AbstractReadersAreCounted ==
  ReaderCountExact =>
    AbstractReaders = [p \in Paths |-> sources[p].fast_reader_count]
  BY DEF ReaderCountExact, AbstractReaders

LEMMA InitRefines == Init => Abstract!Init
<1> SUFFICES ASSUME Init PROVE Abstract!Init
  OBVIOUS
<1>1. ReaderCountExact
  BY InitIndInv DEF IndInv
<1>2. AbstractReaders = [p \in Paths |-> 0]
  BY <1>1, AbstractReadersAreCounted DEF Init
<1>3. AbstractPhase = [p \in Paths |-> "open"]
  BY DEF Init, AbstractPhase
<1>4. AbstractVersion = [p \in Paths |-> 0]
  BY DEF Init, AbstractVersion
<1> QED BY <1>2, <1>3, <1>4 DEF Abstract!Init

(* A step that leaves the counts, the Writer marks and the generations of all
   sources alone is invisible to the specification. *)
SameSources ==
  \A p \in Paths :
    /\ SameReadersAndWriter(p)
    /\ sources'[p].writer_pending = sources[p].writer_pending

(* Every step of the coordinator is a step of the specification or none. *)
LEMMA StepRefines ==
  ASSUME IndInv, IndInv', [Next]_vars
  PROVE  [Abstract!Next]_(Abstract!vars)
<1> DEFINE Count == [p \in Paths |-> sources[p].fast_reader_count]
<1> DEFINE Refined == [Abstract!Next]_(Abstract!vars)
<1>r. AbstractReaders = Count /\ AbstractReaders' = Count'
  <2>1. ReaderCountExact /\ ReaderCountExact'
    BY DEF IndInv
  <2>2. AbstractReaders' = Count'
    BY <2>1 DEF ReaderCountExact, AbstractReaders
  <2> QED BY <2>1, <2>2, AbstractReadersAreCounted
<1>a. /\ sources \in [Paths -> CoordinatedSourceEntry]
      /\ TypeOK /\ WellFormed /\ CallOwnsPending
  BY DEF IndInv, TypeOK
<1>same. ASSUME SameSources PROVE Refined
  <2>1. Count' = Count
    BY <1>same DEF SameSources, SameReadersAndWriter
  <2>2. AbstractPhase' = AbstractPhase
    BY <1>same DEF SameSources, SameReadersAndWriter, AbstractPhase
  <2>3. AbstractVersion' = AbstractVersion
    BY <1>same DEF SameSources, SameReadersAndWriter, AbstractVersion
  <2> QED BY <1>r, <2>1, <2>2, <2>3 DEF Abstract!vars
<1>unchanged. ASSUME sources' = sources PROVE Refined
  BY <1>same, <1>unchanged DEF SameSources, SameReadersAndWriter
<1>1. ASSUME NEW l \in Leases, NEW p \in Paths, TryAcquireFastReader(l, p)
      PROVE  Refined
  <2>1. Count' = [Count EXCEPT ![p] = @ + 1]
    BY <1>a, <1>1 DEF TryAcquireFastReader, CoordinatedSourceEntry
  <2>2. AbstractPhase[p] = "open" /\ AbstractPhase' = AbstractPhase
    BY <1>a, <1>1
    DEF TryAcquireFastReader, Admits, AbstractPhase, CoordinatedSourceEntry
  <2>3. AbstractVersion' = AbstractVersion
    BY <1>a, <1>1
    DEF TryAcquireFastReader, AbstractVersion, CoordinatedSourceEntry
  <2> QED BY <1>r, <2>1, <2>2, <2>3 DEF Abstract!Next, Abstract!Enter
<1>2. ASSUME NEW l \in Leases, Release(l) PROVE Refined
  <2> DEFINE p == lease[l].path
  <2>1. p \in Paths /\ l \in Holders(p)
    BY <1>2, <1>a DEF Release, WellFormed, Holders
  <2>2. sources[p].fast_reader_count > 0
    <3>1. Holders(p) # {}
      BY <2>1
    <3>2. sources[p].fast_reader_count # 0
      BY <2>1, <3>1, ZeroCountNoHolders DEF IndInv
    <3> QED BY <1>a, <2>1, <3>2 DEF CoordinatedSourceEntry
  <2>3. Count' = [Count EXCEPT ![p] = @ - 1]
    BY <1>a, <1>2, <2>1, <2>2 DEF Release, CoordinatedSourceEntry
  <2>4. AbstractPhase' = AbstractPhase
    BY <1>a, <1>2, <2>1 DEF Release, AbstractPhase, CoordinatedSourceEntry
  <2>5. AbstractVersion' = AbstractVersion
    BY <1>a, <1>2, <2>1 DEF Release, AbstractVersion, CoordinatedSourceEntry
  <2> HIDE DEF p
  <2> QED
    BY <1>r, <2>1, <2>2, <2>3, <2>4, <2>5 DEF Abstract!Next, Abstract!Leave
<1>3. ASSUME NEW l \in Leases,
             NotifyAfterRelease(l) \/ AbandonFailClosed(l)
               \/ \E m \in Leases : MoveLease(l, m)
      PROVE  Refined
  BY <1>unchanged, <1>3 DEF NotifyAfterRelease, AbandonFailClosed, MoveLease
<1>5. ASSUME NEW w \in Writers, NEW p \in Paths,
             PrepareImmediate(w, p) \/ PrepareWait(w, p)
      PROVE  Refined
  <2>1. Count' = Count
    BY <1>a, <1>5, PrepareEffect DEF SameReadersAndWriter
  <2>2. /\ AbstractPhase[p] = "open"
        /\ AbstractPhase' = [AbstractPhase EXCEPT ![p] = "draining"]
    <3>1. /\ sources'[p].writer_pending
          /\ \A q \in Paths \ {p} : sources'[q] = sources[q]
          /\ ~sources[p].writer_pending /\ ~sources[p].writer_active
      BY <1>a, <1>5, PrepareEffect DEF CanPrepare
    <3>2. AbstractPhase[p] = "open"
      BY <3>1 DEF AbstractPhase
    <3>3. AbstractPhase' = [AbstractPhase EXCEPT ![p] = "draining"]
      <4> DEFINE Of(e) == IF e.writer_pending THEN "draining"
                          ELSE IF ~e.writer_active THEN "open"
                          ELSE IF e.source_verified THEN "writing"
                          ELSE "unclosed"
      <4>1. AbstractPhase = [q \in Paths |-> Of(sources[q])]
              /\ AbstractPhase' = [q \in Paths |-> Of(sources'[q])]
        BY DEF AbstractPhase
      <4>2. Of(sources'[p]) = "draining"
        BY <3>1
      <4> HIDE DEF Of
      <4> QED BY <3>1, <4>1, <4>2
    <3> QED BY <3>2, <3>3
  <2>3. AbstractVersion' = AbstractVersion
    BY <1>a, <1>5, PrepareEffect DEF SameReadersAndWriter, AbstractVersion
  <2> QED BY <1>r, <2>1, <2>2, <2>3 DEF Abstract!Next, Abstract!Announce
<1>6. ASSUME NEW w \in Writers,
             PrepareDrained(w) \/ TimeoutDrained(w)
               \/ WaitAgain(w) \/ SpuriousWake(w)
      PROVE  Refined
  BY <1>a, <1>unchanged, <1>6, ReturnTokenEffect, RecheckEffect
<1>7. ASSUME NEW p \in Paths, ClearPending(p), sources[p].writer_pending
      PROVE  Refined
  <2>1. Count' = Count
    BY <1>a, <1>7, ClearPendingEffect DEF SameReadersAndWriter
  <2>2. ~sources[p].writer_active
    BY <1>7 DEF IndInv, EntryExclusion
  <2>3. /\ AbstractPhase[p] = "draining"
        /\ AbstractPhase' = [AbstractPhase EXCEPT ![p] = "open"]
    BY ZenonT(40), <1>a, <1>7, <2>2, ClearPendingEffect
    DEF SameReadersAndWriter, AbstractPhase
  <2>4. AbstractVersion' = AbstractVersion
    BY <1>a, <1>7, ClearPendingEffect
    DEF SameReadersAndWriter, AbstractVersion
  <2> QED BY <1>r, <2>1, <2>3, <2>4 DEF Abstract!Next, Abstract!Withdraw
<1>8. ASSUME NEW w \in Writers, TimeoutReadersActive(w) PROVE Refined
  BY <1>a, <1>7, <1>8, TimeoutEffect
<1>9. ASSUME NEW w \in Writers, NotifyUpdateOpened(w) PROVE Refined
  <2> DEFINE p == token[w].path
  <2>1. /\ p \in Paths /\ sources[p].writer_pending
        /\ sources[p].fast_reader_count = 0
    BY <1>a, <1>9, OpenEffect DEF OwnsPending
  <2>2. Count' = Count
    BY <1>a, <1>9, OpenEffect
  <2>3. sources[p].source_verified
    BY <2>1 DEF IndInv, UnverifiedStaysClosed, EntryExclusion
  <2>4. /\ AbstractPhase[p] = "draining"
        /\ AbstractPhase' = [AbstractPhase EXCEPT ![p] = "writing"]
    BY <1>a, <1>9, <2>1, <2>3, OpenEffect DEF AbstractPhase
  <2>5. AbstractVersion' = AbstractVersion
    BY <1>a, <1>9, OpenEffect DEF AbstractVersion
  <2> HIDE DEF p
  <2> QED
    BY <1>r, <2>1, <2>2, <2>4, <2>5 DEF Abstract!Next, Abstract!StartUpdate
<1>10. ASSUME NEW w \in Writers, CancelBeforeUpdate(w) PROVE Refined
  BY <1>a, <1>7, <1>10 DEF CancelBeforeUpdate, OwnsPending, WellFormed
<1>11. ASSUME NEW p \in Paths, NEW id, NEW ok \in BOOLEAN,
              CompleteExternalUpdate(p, id, ok)
       PROVE  Refined
  <2>0. sources[p] \in CoordinatedSourceEntry
    BY <1>a
  <2>1. Count' = Count
    BY <1>a, <1>11, CompleteEffect
  <2>2. sources[p].writer_active /\ ~sources[p].writer_pending
    BY <1>a, <1>11, CompleteEffect DEF IndInv, EntryExclusion
  <2>3. AbstractPhase' = [AbstractPhase EXCEPT ![p] =
                            IF ok THEN "open" ELSE "unclosed"]
    <3>1. /\ sources'[p].writer_active = ~ok
          /\ sources'[p].source_verified = ok
          /\ ~sources'[p].writer_pending
          /\ \A q \in Paths \ {p} : sources'[q] = sources[q]
      BY <1>a, <1>11, <2>2, CompleteEffect
    <3> QED BY <3>1 DEF AbstractPhase
  <2>4. CASE ~sources[p].writer_generation_invalidated
    <3>1. AbstractPhase[p] = "writing"
      BY <2>2, <2>4 DEF AbstractPhase, IndInv, UnverifiedStaysClosed
    <3>2. AbstractVersion' = [AbstractVersion EXCEPT ![p] = @ + 1]
      <4>1. /\ sources'[p].generation = sources[p].generation + 1
            /\ \A q \in Paths \ {p} : sources'[q] = sources[q]
        BY <1>a, <1>11, <2>4, CompleteEffect
      <4> QED BY <4>1 DEF AbstractVersion
    <3> QED
      BY <1>r, <2>1, <2>3, <3>1, <3>2
      DEF Abstract!Next, Abstract!ReportClosed, Abstract!ReportNotClosed
  <2>5. CASE sources[p].writer_generation_invalidated
    <3>1. ~sources[p].source_verified
      BY <2>5 DEF IndInv, UnverifiedStaysClosed
    <3>2. AbstractPhase[p] = "unclosed"
      BY <2>2, <3>1 DEF AbstractPhase
    <3>3. AbstractVersion' = AbstractVersion
      BY <1>a, <1>11, <2>5, CompleteEffect DEF AbstractVersion
    <3>4. CASE ok
      BY <1>r, <2>1, <2>3, <3>2, <3>3, <3>4 DEF Abstract!Next, Abstract!Recover
    <3>5. CASE ~ok
      <4>1. AbstractPhase' = AbstractPhase
        BY <2>3, <3>2, <3>5 DEF AbstractPhase
      <4> QED BY <1>r, <2>1, <3>3, <4>1 DEF Abstract!vars
    <3> QED BY <3>4, <3>5
  <2> QED BY <2>4, <2>5
<1>12. ASSUME NEW w \in Writers, NEW ok \in BOOLEAN, NotifyUpdateClosed(w, ok)
       PROVE  Refined
  <2>1. /\ token[w].path \in Paths
        /\ CompleteExternalUpdate(token[w].path, token[w].token_id, ok)
    BY <1>a, <1>12 DEF NotifyUpdateClosed, WellFormed
  <2> QED BY <1>11, <2>1
<1>13. ASSUME NEW w \in Writers, DestroyToken(w) PROVE Refined
  BY <1>a, <1>7, <1>unchanged, <1>13, DestroyEffect DEF OwnsPending
<1>14. ASSUME NEW v \in Writers, NEW w \in Writers, MoveToken(v, w)
       PROVE  Refined
  BY <1>unchanged, <1>14 DEF MoveToken
<1>15. ASSUME NEW p \in Paths, NEW id \in 1..MaxTokens, NEW ok \in BOOLEAN,
              NotifyExternalUpdateClosed(p, id, ok)
       PROVE  Refined
  BY <1>11, <1>15 DEF NotifyExternalUpdateClosed
<1>16. CASE UNCHANGED vars
  BY <1>unchanged, <1>16 DEF vars
<1> QED
  BY <1>1, <1>2, <1>3, <1>5, <1>6, <1>8, <1>9, <1>10, <1>12, <1>13, <1>14,
     <1>15, <1>16
  DEF Next, ReaderStep, PrepareStep, TokenStep

(* Every behaviour of the coordinator, seen source by source, is a behaviour
   of SourceExclusion whose readers are the leases really held. *)
THEOREM Refinement == Spec => ImplementsSourceExclusion
<1>1. Init => Abstract!Init
  BY InitRefines
<1>2. IndInv /\ IndInv' /\ [Next]_vars => [Abstract!Next]_(Abstract!vars)
  BY StepRefines
<1>3. Spec => []IndInv
  BY Invariance
<1> QED
  BY <1>1, <1>2, <1>3, PTL DEF Spec, ImplementsSourceExclusion, Abstract!Spec

-----------------------------------------------------------------------------
(* Writers and the coordinator, whoever reads.                             *)

\* Every id is a Writer's own: nobody but the Writer that got it from its
\* call, or kept it from its token, can report with it.
IdsOwned ==
  /\ next_token_id <= MaxTokens + 1
  /\ \A w \in Writers :
       /\ coordination_id[w] < next_token_id
       /\ call[w].at # "idle" =>
            call[w].path = gdb_path /\ update_dataset[w] = "none"
       /\ token[w].phase # "Invalid" =>
            /\ token[w].path = gdb_path
            /\ token[w].token_id = coordination_id[w]
       /\ \A v \in Writers :
            /\ call[v].at # "idle" => call[v].token_id # coordination_id[w]
            /\ v # w /\ coordination_id[v] # 0 =>
                 coordination_id[v] # coordination_id[w]

\* An update Dataset stands on a mark in the source's entry: its token's
\* Pending mark, then the Active one that only its own id can end.
DatasetHeld ==
  \A w \in Writers :
    /\ update_dataset[w] = "open" => token[w].phase = "Pending"
    /\ update_dataset[w] \in {"reported", "written"} =>
         /\ sources[gdb_path].writer_active
         /\ sources[gdb_path].writer_token_id = coordination_id[w]

\* The files are torn only under a Dataset that has written.
TornWhileWritten ==
  disk.torn => \E w \in Writers : update_dataset[w] = "written"

WriterInv ==
  /\ IndInv
  /\ WorldTypeOK
  /\ IdsOwned
  /\ DatasetHeld
  /\ TornWhileWritten

\* No Writer is announced or at work.
Quiet ==
  ~sources[gdb_path].writer_pending /\ ~sources[gdb_path].writer_active

(* Nothing has been opened yet. *)
LEMMA InitWriterInv == Init /\ WorldInit => WriterInv
<1> SUFFICES ASSUME Init, WorldInit PROVE WriterInv
  OBVIOUS
<1>1. IndInv
  BY InitIndInv
<1>2. WorldTypeOK
  BY DEF WorldInit, WorldTypeOK, Contents
<1>3. IdsOwned
  <2>1. 1 <= MaxTokens + 1
    BY CoordinatorAssumption
  <2> QED
    BY <2>1 DEF Init, WorldInit, IdsOwned, NoCall, InvalidToken
<1>4. DatasetHeld /\ TornWhileWritten
  BY DEF WorldInit, DatasetHeld, TornWhileWritten
<1> QED BY <1>1, <1>2, <1>3, <1>4 DEF WriterInv

-----------------------------------------------------------------------------
(* While an update Dataset is open the source is drained, nothing of it was
   given up, and its entry says that a Writer is there. *)
LEMMA UpdateHoldsSource ==
  ASSUME WriterInv, NEW w \in Writers, update_dataset[w] # "none"
  PROVE  /\ sources[gdb_path].fast_reader_count = 0
         /\ Holders(gdb_path) = {} /\ abandoned[gdb_path] = 0
         /\ ~Quiet
<1> USE DEF WriterInv
<1>1. update_dataset[w] \in {"open", "reported", "written"}
  BY DEF WorldTypeOK
<1>2. CASE update_dataset[w] = "open"
  <2>1. token[w].phase = "Pending" /\ token[w].path = gdb_path
    BY <1>2 DEF DatasetHeld, IdsOwned
  <2>2. /\ sources[gdb_path].fast_reader_count = 0
        /\ sources[gdb_path].writer_pending
    BY <2>1 DEF IndInv, GrantStaysDrained, OwnsPending
  <2> QED
    BY <2>2, SourceAssumption, ZeroCountNoHolders DEF IndInv, Quiet
<1>3. CASE update_dataset[w] \in {"reported", "written"}
  <2>1. sources[gdb_path].writer_active
    BY <1>3 DEF DatasetHeld
  <2>2. sources[gdb_path].fast_reader_count = 0
    BY <2>1, SourceAssumption DEF IndInv, EntryExclusion
  <2> QED
    BY <2>1, <2>2, SourceAssumption, ZeroCountNoHolders DEF IndInv, Quiet
<1> QED BY <1>1, <1>2, <1>3

(* Under a lease of the source no Writer has it open, the files are whole,
   and their generation is the lease's. *)
LEMMA LeasedSource ==
  ASSUME WriterInv, NEW l \in Leases,
         lease[l].counted, lease[l].path = gdb_path
  PROVE  /\ \A w \in Writers : update_dataset[w] = "none"
         /\ ~disk.torn
         /\ ~sources[gdb_path].writer_active
         /\ sources[gdb_path].source_verified
         /\ sources[gdb_path].generation = lease[l].generation
<1> USE SourceAssumption DEF WriterInv
<1>1. l \in Holders(gdb_path)
  BY DEF Holders
<1>2. \A w \in Writers : update_dataset[w] = "none"
  BY <1>1, UpdateHoldsSource
<1>3. ~disk.torn
  BY <1>2 DEF TornWhileWritten
<1>4. sources[gdb_path].fast_reader_count # 0
  BY <1>1, ZeroCountNoHolders DEF IndInv
<1>5. ~sources[gdb_path].writer_active
  BY <1>4 DEF IndInv, EntryExclusion
<1>6. /\ sources[gdb_path].source_verified
      /\ sources[gdb_path].generation = lease[l].generation
  BY <1>5 DEF IndInv, UnverifiedStaysClosed, LeaseGenerationCurrent
<1> QED BY <1>2, <1>3, <1>5, <1>6

(* With no Writer about, the files are whole. *)
LEMMA QuietFilesWhole == WriterInv /\ Quiet => ~disk.torn
  BY UpdateHoldsSource DEF WriterInv, TornWhileWritten

(* No two Writers have the source open for update. *)
LEMMA OneUpdate ==
  ASSUME WriterInv, NEW v \in Writers, NEW w \in Writers,
         update_dataset[v] # "none", update_dataset[w] # "none"
  PROVE  v = w
<1> USE DEF WriterInv
<1>1. /\ update_dataset[v] \in {"open", "reported", "written"}
      /\ update_dataset[w] \in {"open", "reported", "written"}
  BY DEF WorldTypeOK
<1>2. ASSUME NEW x \in Writers, update_dataset[x] = "open"
      PROVE  OwnsMark(x, gdb_path) /\ sources[gdb_path].writer_pending
  BY <1>2
  DEF DatasetHeld, IdsOwned, IndInv, GrantStaysDrained, OwnsPending, OwnsMark
<1>3. ASSUME NEW x \in Writers, update_dataset[x] \in {"reported", "written"}
      PROVE  /\ sources[gdb_path].writer_active
             /\ sources[gdb_path].writer_token_id = coordination_id[x]
             /\ ~sources[gdb_path].writer_pending
             /\ coordination_id[x] # 0
  BY <1>3, SourceAssumption DEF DatasetHeld, IndInv, EntryExclusion
<1>4. CASE update_dataset[v] = "open" /\ update_dataset[w] = "open"
  <2>1. OwnsMark(v, gdb_path) /\ OwnsMark(w, gdb_path)
          /\ sources[gdb_path].writer_pending
    BY <1>2, <1>4
  <2> QED BY <2>1, SourceAssumption DEF IndInv, PendingHasOneOwner
<1>5. CASE /\ update_dataset[v] \in {"reported", "written"}
           /\ update_dataset[w] \in {"reported", "written"}
  BY <1>3, <1>5 DEF IdsOwned
<1> QED BY <1>1, <1>2, <1>3, <1>4, <1>5

-----------------------------------------------------------------------------
(* Whatever a Writer does is a step of the coordinator, or none.            *)
LEMMA WriterCoordinates ==
  ASSUME WriterInv, NEW w \in Writers, WriterStep(w)
  PROVE  [Next]_vars
<1> USE SourceAssumption DEF WriterInv
<1>1. CASE WriterPrepares(w)
  BY <1>1 DEF WriterPrepares, Next, PrepareStep
<1>2. CASE WriterWaits(w)
  BY <1>2 DEF WriterWaits, Next, PrepareStep
<1>3. CASE OpenUpdate(w) \/ WriteFeatures(w) \/ CloseUpdate(w)
  BY <1>3 DEF OpenUpdate, WriteFeatures, CloseUpdate
<1>4. CASE OpenUpdateFails(w)
  BY <1>4 DEF OpenUpdateFails, Next, TokenStep
<1>5. CASE ReportOpened(w)
  BY <1>5 DEF ReportOpened, Next, TokenStep
<1>6. ASSUME NEW ok \in BOOLEAN, ReportClosed(w, ok) PROVE Next
  <2>1. CASE NotifyUpdateClosed(w, ok)
    BY <2>1 DEF Next, TokenStep
  <2>2. CASE NotifyExternalUpdateClosed(gdb_path, coordination_id[w], ok)
    <3>1. coordination_id[w] # 0
      BY <2>2 DEF NotifyExternalUpdateClosed
    <3>2. coordination_id[w] \in Nat /\ coordination_id[w] < next_token_id
            /\ next_token_id <= MaxTokens + 1
      BY DEF WorldTypeOK, IdsOwned
    <3>3. coordination_id[w] \in 1..MaxTokens
      BY <3>1, <3>2, CoordinatorAssumption DEF IndInv, TypeOK
    <3> QED BY <2>2, <3>3 DEF Next
  <2> QED BY <1>6, <2>1, <2>2 DEF ReportClosed
<1>7. CASE LoseToken(w)
  BY <1>7 DEF LoseToken, Next, TokenStep
<1> QED BY <1>1, <1>2, <1>3, <1>4, <1>5, <1>6, <1>7 DEF WriterStep

\* What readers see of a Writer's step: it touches no lease, writes only
\* under its own Dataset, and nobody is announced without being counted.
SeenFromReaders(w) ==
  /\ UNCHANGED <<lease, notifying, abandoned>>
  /\ disk' # disk => update_dataset[w] # "none"
  /\ sources'[gdb_path].pending_events \in Nat
  /\ sources'[gdb_path].pending_events >= sources[gdb_path].pending_events
  /\ Quiet /\ ~Quiet' =>
       sources'[gdb_path].pending_events > sources[gdb_path].pending_events

(* A Writer's step, as the readers of the source see it. *)
LEMMA WriterSeen ==
  ASSUME WriterInv, NEW w \in Writers, WriterStep(w)
  PROVE  SeenFromReaders(w)
<1> USE SourceAssumption DEF WriterInv, SeenFromReaders, Quiet
<1>a. /\ sources \in [Paths -> CoordinatedSourceEntry]
      /\ \A p \in Paths : sources[p].pending_events \in Nat
      /\ call \in [Writers -> PrepareCall]
  BY DEF IndInv, TypeOK, CoordinatedSourceEntry
<1>1. CASE WriterPrepares(w)
  <2>1. /\ MarkPending(gdb_path)
        /\ UNCHANGED <<lease, notifying, abandoned, disk>>
    BY <1>1 DEF WriterPrepares, PrepareImmediate, PrepareWait
  <2>2. sources'[gdb_path].pending_events = sources[gdb_path].pending_events + 1
    BY <1>a, <2>1 DEF MarkPending, CoordinatedSourceEntry
  <2> QED BY <1>a, <2>1, <2>2
<1>2. CASE WriterWaits(w)
  <2>1. CASE TimeoutReadersActive(w)
    <3>1. /\ call[w].path \in Paths /\ ClearPending(call[w].path)
          /\ UNCHANGED <<lease, notifying, abandoned>>
      BY <2>1, TimeoutEffect DEF IndInv
    <3>2. disk' = disk
      BY <1>2 DEF WriterWaits
    <3> QED BY <1>a, <3>1, <3>2 DEF ClearPending, CoordinatedSourceEntry
  <2>2. CASE ~TimeoutReadersActive(w)
    <3>1. UNCHANGED <<sources, lease, notifying, abandoned, disk>>
      BY <1>2, <2>2
      DEF WriterWaits, PrepareDrained, TimeoutDrained, ReturnToken, WaitAgain,
          SpuriousWake
    <3> QED BY <1>a, <3>1
  <2> QED BY <2>1, <2>2
<1>3. CASE OpenUpdate(w) \/ WriteFeatures(w) \/ CloseUpdate(w)
  <2>1. UNCHANGED vars /\ (disk' # disk => update_dataset[w] # "none")
    BY <1>3 DEF OpenUpdate, WriteFeatures, CloseUpdate
  <2> QED BY <1>a, <2>1 DEF vars
<1>4. CASE OpenUpdateFails(w)
  <2>1. /\ token[w].path \in Paths /\ ClearPending(token[w].path)
        /\ UNCHANGED <<lease, notifying, abandoned, disk>>
    BY <1>4
    DEF OpenUpdateFails, CancelBeforeUpdate, OwnsPending, IndInv, WellFormed,
        world
  <2> QED BY <1>a, <2>1 DEF ClearPending, CoordinatedSourceEntry
<1>5. CASE ReportOpened(w)
  <2>1. /\ token[w].path = gdb_path /\ OwnsPending(w)
        /\ NotifyUpdateOpened(w) /\ disk' = disk
    BY <1>5
    DEF ReportOpened, NotifyUpdateOpened, OwnsPending, IdsOwned
  <2> QED
    BY <1>a, <2>1 DEF NotifyUpdateOpened, OwnsPending, CoordinatedSourceEntry
<1>6. ASSUME NEW ok \in BOOLEAN, ReportClosed(w, ok) PROVE SeenFromReaders(w)
  <2>1. PICK id : /\ CompleteExternalUpdate(gdb_path, id, ok)
                  /\ UNCHANGED <<lease, notifying, abandoned, disk>>
    BY <1>6
    DEF ReportClosed, NotifyUpdateClosed, NotifyExternalUpdateClosed,
        IdsOwned, world
  <2> QED
    BY <1>a, <2>1 DEF CompleteExternalUpdate, CoordinatedSourceEntry
<1>7. CASE LoseToken(w)
  <2>1. /\ UNCHANGED <<lease, notifying, abandoned, disk>>
        /\ \/ token[w].path \in Paths /\ ClearPending(token[w].path)
           \/ sources' = sources
    BY <1>7, DestroyEffect DEF LoseToken, world, IndInv
  <2>2. CASE sources' = sources
    BY <1>a, <2>1, <2>2
  <2>3. CASE token[w].path \in Paths /\ ClearPending(token[w].path)
    BY <1>a, <2>1, <2>3 DEF ClearPending, CoordinatedSourceEntry
  <2> QED BY <2>1, <2>2, <2>3
<1> QED BY <1>1, <1>2, <1>3, <1>4, <1>5, <1>6, <1>7 DEF WriterStep

-----------------------------------------------------------------------------
(* The world keeps its types. *)
LEMMA WorldTypeStep ==
  ASSUME WriterInv, NEW w \in Writers, WriterStep(w)
  PROVE  WorldTypeOK'
<1> USE DEF WriterInv, WorldTypeOK
<1>a. /\ next_token_id \in Nat /\ call[w].token_id \in Nat
      /\ disk.version \in Nat /\ disk.torn \in BOOLEAN
  BY DEF IndInv, TypeOK, PrepareCall, Contents
<1>1. CASE WriterPrepares(w)
  BY <1>a, <1>1 DEF WriterPrepares
<1>2. CASE WriterWaits(w)
  BY <1>a, <1>2 DEF WriterWaits
<1>3. CASE OpenUpdate(w) \/ ReportOpened(w)
  BY <1>3 DEF OpenUpdate, ReportOpened
<1>4. CASE WriteFeatures(w)
  BY <1>4 DEF WriteFeatures, Contents
<1>5. CASE CloseUpdate(w)
  <2>1. [version |-> disk.version + 1, torn |-> FALSE] \in Contents
    BY <1>a DEF Contents
  <2> QED BY <1>5, <2>1 DEF CloseUpdate
<1>6. CASE OpenUpdateFails(w) \/ LoseToken(w)
             \/ \E ok \in BOOLEAN : ReportClosed(w, ok)
  BY <1>6 DEF OpenUpdateFails, LoseToken, ReportClosed, world
<1> QED BY <1>1, <1>2, <1>3, <1>4, <1>5, <1>6 DEF WriterStep

(* Two calls that wait for the source wait with different ids. *)
LEMMA CallIdsDiffer ==
  ASSUME WriterInv, NEW v \in Writers, NEW w \in Writers,
         call[v].at # "idle", call[w].at # "idle",
         call[v].token_id = call[w].token_id
  PROVE  v = w
<1>1. /\ call[v].path = gdb_path /\ call[w].path = gdb_path
      /\ sources[gdb_path].writer_pending
      /\ sources[gdb_path].writer_token_id = call[v].token_id
      /\ sources[gdb_path].writer_token_id = call[w].token_id
  BY DEF WriterInv, IdsOwned, IndInv, CallOwnsPending
<1>2. OwnsMark(v, gdb_path) /\ OwnsMark(w, gdb_path)
  BY <1>1 DEF OwnsMark
<1> QED
  BY <1>1, <1>2, SourceAssumption DEF WriterInv, IndInv, PendingHasOneOwner

(* A step that hands out no id and starts no call leaves the ids owned. *)
LEMMA IdsStay ==
  ASSUME WriterInv,
         UNCHANGED <<next_token_id, coordination_id>>,
         \A w \in Writers :
           /\ call'[w].at # "idle" =>
                /\ call[w].at # "idle"
                /\ call'[w].path = call[w].path
                /\ call'[w].token_id = call[w].token_id
                /\ update_dataset'[w] = update_dataset[w]
           /\ token'[w].phase # "Invalid" =>
                /\ token[w].phase # "Invalid"
                /\ token'[w].path = token[w].path
                /\ token'[w].token_id = token[w].token_id
  PROVE  IdsOwned'
  BY DEF WriterInv, IdsOwned

(* Ids are never shared: a new call takes a new one, a token the one of its
   call. *)
LEMMA IdsOwnedStep ==
  ASSUME WriterInv, NEW w \in Writers, WriterStep(w)
  PROVE  IdsOwned'
<1> USE SourceAssumption DEF WriterInv
<1>a. /\ call \in [Writers -> PrepareCall]
      /\ token \in [Writers -> ExternalUpdateToken]
      /\ next_token_id \in Nat /\ MaxTokens \in Nat
      /\ update_dataset \in [Writers -> {"none", "open", "reported", "written"}]
      /\ coordination_id \in [Writers -> Nat]
  BY CoordinatorAssumption DEF IndInv, TypeOK, WorldTypeOK
<1>b. \A x \in Writers : call[x].at # "idle" => call[x].token_id < next_token_id
  BY DEF IndInv, WellFormed
<1>c. TypeOK /\ WellFormed /\ CallOwnsPending
  BY DEF IndInv
<1>1. CASE WriterPrepares(w)
  <2>1. /\ next_token_id <= MaxTokens /\ update_dataset[w] = "none"
        /\ call[w].at = "idle" /\ next_token_id' = next_token_id + 1
        /\ UNCHANGED update_dataset
        /\ \A x \in Writers \ {w} : token'[x] = token[x] /\ SameCall(x)
    BY <1>1, <1>c, PrepareEffect DEF WriterPrepares, CanPrepare
  <2>2. CASE PrepareImmediate(w, gdb_path)
    <3>1. /\ coordination_id' = [coordination_id EXCEPT ![w] = next_token_id]
          /\ token'[w].path = gdb_path
          /\ token'[w].token_id = next_token_id
      BY <1>a, <1>1, <2>2 DEF WriterPrepares, PrepareImmediate, PrepareWait
    <3>2. call'[w].at = "idle"
      BY <1>c, <2>2, PrepareEffect DEF PrepareImmediate
    <3>3. \A x \in Writers : call'[x].at # "idle" =>
            /\ x # w /\ call[x].at # "idle" /\ call'[x].path = call[x].path
            /\ call'[x].token_id = call[x].token_id
      BY <2>1, <3>2 DEF SameCall
    <3>4. \A x \in Writers :
            /\ coordination_id[x] < next_token_id
            /\ coordination_id'[x] =
                 IF x = w THEN next_token_id ELSE coordination_id[x]
      BY <1>a, <3>1 DEF IdsOwned
    <3>5. \A x \in Writers : token'[x].phase # "Invalid" =>
            /\ token'[x].path = gdb_path
            /\ token'[x].token_id = coordination_id'[x]
      BY <2>1, <3>1, <3>4 DEF IdsOwned
    <3>6. \A v, x \in Writers :
            /\ call'[v].at # "idle" => call'[v].token_id # coordination_id'[x]
            /\ v # x /\ coordination_id'[v] # 0 =>
                 coordination_id'[v] # coordination_id'[x]
      BY <1>a, <1>b, <3>3, <3>4 DEF IdsOwned
    <3>7. /\ next_token_id' <= MaxTokens + 1
          /\ \A x \in Writers : coordination_id'[x] < next_token_id'
      BY <1>a, <2>1, <3>4
    <3>8. \A x \in Writers : call'[x].at # "idle" =>
            call'[x].path = gdb_path /\ update_dataset'[x] = "none"
      BY <2>1, <3>3 DEF IdsOwned
    <3> QED BY <3>5, <3>6, <3>7, <3>8 DEF IdsOwned
  <2>3. CASE PrepareWait(w, gdb_path)
    <3>1. /\ UNCHANGED <<coordination_id, token>>
          /\ call'[w].path = gdb_path /\ call'[w].token_id = next_token_id
      BY ZenonT(40), <1>a, <1>1, <1>c, <2>3, PrepareEffect
      DEF WriterPrepares, PrepareImmediate, PrepareWait
    <3>2. /\ next_token_id' <= MaxTokens + 1
          /\ \A x \in Writers : coordination_id'[x] < next_token_id
          /\ \A x \in Writers : coordination_id'[x] < next_token_id'
      BY <1>a, <2>1, <3>1 DEF IdsOwned
    <3>3. \A x \in Writers : call'[x].at # "idle" =>
            call'[x].path = gdb_path /\ update_dataset'[x] = "none"
      BY <2>1, <3>1 DEF IdsOwned, SameCall
    <3>4. \A v, x \in Writers :
            /\ call'[v].at # "idle" => call'[v].token_id # coordination_id'[x]
            /\ v # x /\ coordination_id'[v] # 0 =>
                 coordination_id'[v] # coordination_id'[x]
      BY <1>a, <2>1, <3>1, <3>2 DEF IdsOwned, SameCall
    <3> QED BY <3>1, <3>2, <3>3, <3>4 DEF IdsOwned
  <2> QED BY <1>1, <2>2, <2>3 DEF WriterPrepares
<1>2. CASE WriterWaits(w)
  <2> UNCHANGED update_dataset
    BY <1>2 DEF WriterWaits
  <2>1. CASE /\ PrepareDrained(w) \/ TimeoutDrained(w)
             /\ coordination_id' =
                  [coordination_id EXCEPT ![w] = call[w].token_id]
    <3>1. /\ call[w].at # "idle" /\ call[w].path = gdb_path
          /\ call'[w].at = "idle"
          /\ token'[w].path = call[w].path
          /\ token'[w].token_id = call[w].token_id
          /\ \A x \in Writers \ {w} :
               token'[x] = token[x] /\ call'[x] = call[x]
          /\ UNCHANGED next_token_id
      BY <1>c, <2>1, ReturnTokenEffect DEF IdsOwned
    <3>2. \A x \in Writers \ {w} :
            call[x].at # "idle" => call[x].token_id # call[w].token_id
      BY <3>1, CallIdsDiffer
    <3>3. \A x \in Writers :
            /\ coordination_id'[x] =
                 IF x = w THEN call[w].token_id ELSE coordination_id[x]
            /\ coordination_id'[x] < next_token_id'
      BY <1>a, <1>b, <2>1, <3>1 DEF IdsOwned
    <3>4. \A v, x \in Writers :
            /\ call'[v].at # "idle" => call'[v].token_id # coordination_id'[x]
            /\ v # x /\ coordination_id'[v] # 0 =>
                 coordination_id'[v] # coordination_id'[x]
      BY <3>1, <3>2, <3>3 DEF IdsOwned
    <3>5. \A x \in Writers : token'[x].phase # "Invalid" =>
            /\ token'[x].path = gdb_path
            /\ token'[x].token_id = coordination_id'[x]
      BY <3>1, <3>3 DEF IdsOwned
    <3> QED BY <3>1, <3>3, <3>4, <3>5 DEF IdsOwned
  <2>2. CASE /\ WaitAgain(w) \/ SpuriousWake(w)
             /\ UNCHANGED coordination_id
    <3>1. (\A x \in Writers : SameCall(x)) /\ UNCHANGED <<token, next_token_id>>
      BY <1>c, <2>2, RecheckEffect
    <3> QED BY <2>2, <3>1, IdsStay DEF SameCall
  <2>3. CASE TimeoutReadersActive(w) /\ UNCHANGED coordination_id
    <3>1. /\ \A x \in Writers \ {w} : SameCall(x)
          /\ call'[w].at = "idle"
          /\ UNCHANGED <<token, next_token_id>>
      BY <1>c, <2>3, TimeoutEffect
    <3> QED BY <2>3, <3>1, IdsStay DEF SameCall
  <2> QED BY <1>2, <2>1, <2>2, <2>3 DEF WriterWaits
<1>3. CASE OpenUpdate(w)
  <2>1. call[w].at = "idle"
    BY <1>3, <1>c DEF OpenUpdate, CallOwnsPending
  <2> QED BY <1>a, <1>3, <2>1, IdsStay DEF OpenUpdate, vars
<1>4. CASE WriteFeatures(w) \/ CloseUpdate(w)
  <2>1. call[w].at = "idle"
    BY <1>4 DEF WriteFeatures, CloseUpdate, IdsOwned
  <2> QED
    BY <1>a, <1>4, <2>1, IdsStay DEF WriteFeatures, CloseUpdate, vars
<1>5. CASE OpenUpdateFails(w)
  <2>1. /\ \A x \in Writers : SameCall(x)
        /\ token' = [token EXCEPT ![w].phase = "Closed"]
        /\ token[w].phase # "Invalid"
        /\ UNCHANGED <<next_token_id, coordination_id, update_dataset>>
    BY <1>a, <1>5, NotifyAllWakes
    DEF OpenUpdateFails, CancelBeforeUpdate, OwnsPending, SameCall, world
  <2> QED BY <1>a, <2>1, IdsStay DEF SameCall, ExternalUpdateToken
<1>6. CASE ReportOpened(w)
  <2>1. /\ \A x \in Writers : SameCall(x)
        /\ token' = [token EXCEPT ![w].phase = "Active"]
        /\ token[w].phase # "Invalid" /\ call[w].at = "idle"
        /\ UNCHANGED <<next_token_id, coordination_id>>
        /\ \A x \in Writers \ {w} : update_dataset'[x] = update_dataset[x]
    BY <1>a, <1>6, <1>c, NotifyAllWakes
    DEF ReportOpened, NotifyUpdateOpened, OwnsPending, SameCall,
        CallOwnsPending
  <2> QED BY <1>a, <2>1, IdsStay DEF SameCall, ExternalUpdateToken
<1>7. ASSUME NEW ok \in BOOLEAN, ReportClosed(w, ok) PROVE IdsOwned'
  <2>1. /\ \A x \in Writers : SameCall(x)
        /\ UNCHANGED <<next_token_id, coordination_id, update_dataset>>
    BY <1>a, <1>7, NotifyAllWakes
    DEF ReportClosed, NotifyUpdateClosed, NotifyExternalUpdateClosed,
        CompleteExternalUpdate, SameCall, world
  <2>2. \/ token' = token
        \/ /\ token' = [token EXCEPT ![w].phase = "Closed"]
           /\ token[w].phase # "Invalid"
    BY <1>7
    DEF ReportClosed, NotifyUpdateClosed, NotifyExternalUpdateClosed
  <2> QED BY SMTT(40), <1>a, <2>1, <2>2, IdsStay DEF SameCall, ExternalUpdateToken
<1>8. CASE LoseToken(w)
  <2>1. /\ \A x \in Writers : SameCall(x)
        /\ token'[w].phase = "Invalid"
        /\ \A x \in Writers \ {w} : token'[x] = token[x]
        /\ UNCHANGED <<next_token_id, coordination_id, update_dataset>>
    BY <1>8, <1>c, DestroyEffect DEF LoseToken, world
  <2> QED BY <2>1, IdsStay DEF SameCall
<1> QED
  BY <1>1, <1>2, <1>3, <1>4, <1>5, <1>6, <1>7, <1>8 DEF WriterStep

(* A Dataset keeps the mark it stands on: only a pending mark without a
   Dataset is withdrawn, and only the Writer's own id ends its lifecycle. *)
LEMMA DatasetHeldStep ==
  ASSUME WriterInv, NEW w \in Writers, WriterStep(w)
  PROVE  DatasetHeld'
<1> USE SourceAssumption DEF WriterInv
<1> DEFINE Reported(x) == update_dataset[x] \in {"reported", "written"}
<1>a. /\ sources \in [Paths -> CoordinatedSourceEntry]
      /\ token \in [Writers -> ExternalUpdateToken]
      /\ update_dataset \in [Writers -> {"none", "open", "reported", "written"}]
  BY DEF IndInv, TypeOK, WorldTypeOK
<1>b. TypeOK /\ WellFormed /\ CallOwnsPending /\ EntryExclusion
  BY DEF IndInv
<1>c. ASSUME sources[gdb_path].writer_pending
             \/ ~sources[gdb_path].writer_active
      PROVE  \A x \in Writers : ~Reported(x)
  BY <1>b, <1>c DEF DatasetHeld, EntryExclusion
<1>1. CASE WriterPrepares(w)
  <2>1. /\ CanPrepare(w, gdb_path) /\ update_dataset[w] = "none"
        /\ UNCHANGED update_dataset
        /\ \A x \in Writers \ {w} : token'[x] = token[x]
    BY <1>1, <1>b, PrepareEffect DEF WriterPrepares
  <2> QED BY <1>c, <2>1 DEF CanPrepare, DatasetHeld
<1>2. CASE WriterWaits(w)
  <2>1. UNCHANGED <<update_dataset, disk>>
    BY <1>2 DEF WriterWaits
  <2>2. CASE /\ PrepareDrained(w) \/ TimeoutDrained(w)
             /\ coordination_id' =
                  [coordination_id EXCEPT ![w] = call[w].token_id]
    <3>1. /\ call[w].at # "idle" /\ UNCHANGED sources
          /\ \A x \in Writers \ {w} : token'[x] = token[x]
      BY <1>b, <2>2, ReturnTokenEffect
    <3>2. update_dataset[w] = "none"
      BY <3>1 DEF IdsOwned
    <3>3. \A x \in Writers \ {w} : coordination_id'[x] = coordination_id[x]
      BY <2>2 DEF WorldTypeOK
    <3> QED BY <2>1, <3>1, <3>2, <3>3 DEF DatasetHeld
  <2>3. CASE /\ WaitAgain(w) \/ SpuriousWake(w)
             /\ UNCHANGED coordination_id
    <3>1. UNCHANGED <<sources, token>>
      BY <1>b, <2>3, RecheckEffect
    <3> QED BY <2>1, <2>3, <3>1 DEF DatasetHeld
  <2>4. CASE TimeoutReadersActive(w) /\ UNCHANGED coordination_id
    <3>1. /\ call[w].at # "idle" /\ UNCHANGED token
          /\ sources[call[w].path].writer_pending
      BY <1>b, <2>4, TimeoutEffect
    <3>2. sources[gdb_path].writer_pending
      BY <3>1 DEF IdsOwned
    <3> QED BY <1>c, <2>1, <3>1, <3>2 DEF DatasetHeld
  <2> QED BY <1>2, <2>2, <2>3, <2>4 DEF WriterWaits
<1>3. CASE OpenUpdate(w)
  BY <1>a, <1>3 DEF OpenUpdate, DatasetHeld, vars
<1>4. CASE WriteFeatures(w) \/ CloseUpdate(w)
  BY <1>a, <1>4 DEF WriteFeatures, CloseUpdate, DatasetHeld, vars
<1>5. CASE OpenUpdateFails(w)
  <2>1. /\ OwnsPending(w) /\ update_dataset[w] = "none"
        /\ UNCHANGED update_dataset
        /\ \A x \in Writers \ {w} : token'[x] = token[x]
    BY <1>a, <1>5 DEF OpenUpdateFails, CancelBeforeUpdate, world
  <2>2. sources[gdb_path].writer_pending
    BY <2>1 DEF OwnsPending, IdsOwned
  <2> QED BY <1>c, <2>1, <2>2 DEF DatasetHeld
<1>6. CASE ReportOpened(w)
  <2>1. /\ OwnsPending(w) /\ token[w].path = gdb_path
        /\ token[w].token_id = coordination_id[w]
        /\ sources'[gdb_path].writer_active
        /\ sources'[gdb_path].writer_token_id
             = sources[gdb_path].writer_token_id
        /\ \A x \in Writers \ {w} : token'[x] = token[x]
    BY <1>6, <1>b, OpenEffect DEF ReportOpened, OwnsPending, IdsOwned
  <2>2. /\ update_dataset' = [update_dataset EXCEPT ![w] = "reported"]
        /\ UNCHANGED coordination_id
    BY <1>6 DEF ReportOpened
  <2>3. \A x \in Writers : ~Reported(x)
    BY <1>c, <2>1 DEF OwnsPending
  <2>4. sources[gdb_path].writer_token_id = coordination_id[w]
    BY <2>1 DEF OwnsPending
  <2> QED BY <1>a, <2>1, <2>2, <2>3, <2>4 DEF DatasetHeld
<1>7. ASSUME NEW ok \in BOOLEAN, ReportClosed(w, ok) PROVE DatasetHeld'
  <2>1. /\ CompleteExternalUpdate(gdb_path, coordination_id[w], ok)
        /\ ok => update_dataset[w] = "none"
        /\ UNCHANGED <<update_dataset, coordination_id>>
        /\ \A x \in Writers \ {w} : token'[x] = token[x]
        /\ token'[w] # token[w] => ok
    BY <1>a, <1>7
    DEF ReportClosed, NotifyUpdateClosed, NotifyExternalUpdateClosed,
        IdsOwned, world
  <2>2. /\ sources[gdb_path].writer_active
        /\ sources[gdb_path].writer_token_id = coordination_id[w]
        /\ sources'[gdb_path].writer_active = ~ok
        /\ sources'[gdb_path].writer_token_id =
             (IF ok THEN 0 ELSE coordination_id[w])
    BY <1>b, <2>1, CompleteEffect
  <2>3. coordination_id[w] # 0
    BY <1>b, <2>2 DEF EntryExclusion
  <2>4. \A x \in Writers : Reported(x) => x = w
    BY <2>2, <2>3 DEF DatasetHeld, IdsOwned
  <2>5. CASE ok
    BY <2>1, <2>4, <2>5 DEF DatasetHeld
  <2>6. CASE ~ok
    BY <2>1, <2>2, <2>6 DEF DatasetHeld
  <2> QED BY <2>5, <2>6
<1>8. CASE LoseToken(w)
  <2>1. /\ UNCHANGED <<update_dataset, coordination_id>>
        /\ token[w].phase = "Pending" => update_dataset[w] = "none"
        /\ \A x \in Writers \ {w} : token'[x] = token[x]
        /\ OwnsPending(w) \/ UNCHANGED sources
    BY <1>8, <1>b, DestroyEffect DEF LoseToken, world
  <2>2. OwnsPending(w) => \A x \in Writers : ~Reported(x)
    BY <1>c DEF OwnsPending, IdsOwned
  <2> QED BY <2>1, <2>2 DEF DatasetHeld
<1> QED
  BY <1>1, <1>2, <1>3, <1>4, <1>5, <1>6, <1>7, <1>8 DEF WriterStep

(* The first write tears the files, the close of that Dataset mends them. *)
LEMMA TornStep ==
  ASSUME WriterInv, NEW w \in Writers, WriterStep(w)
  PROVE  TornWhileWritten'
<1> USE DEF WriterInv, TornWhileWritten
<1>a. /\ update_dataset \in [Writers -> {"none", "open", "reported", "written"}]
      /\ disk \in Contents
  BY DEF WorldTypeOK
<1>1. CASE WriterPrepares(w) \/ WriterWaits(w) \/ OpenUpdateFails(w)
             \/ LoseToken(w) \/ \E ok \in BOOLEAN : ReportClosed(w, ok)
  BY <1>1
  DEF WriterPrepares, WriterWaits, OpenUpdateFails, LoseToken, ReportClosed,
      world
<1>2. CASE OpenUpdate(w) \/ ReportOpened(w)
  BY <1>a, <1>2 DEF OpenUpdate, ReportOpened
<1>3. CASE WriteFeatures(w)
  BY <1>a, <1>3 DEF WriteFeatures
<1>4. CASE CloseUpdate(w)
  BY <1>a, <1>4 DEF CloseUpdate
<1> QED BY <1>1, <1>2, <1>3, <1>4 DEF WriterStep

(* Every step of a Writer keeps the invariant. *)
LEMMA WriterKeepsInv ==
  ASSUME WriterInv, NEW w \in Writers, WriterStep(w)
  PROVE  WriterInv'
<1>1. IndInv'
  BY WriterCoordinates, Inductive DEF WriterInv
<1> QED
  BY <1>1, WorldTypeStep, IdsOwnedStep, DatasetHeldStep, TornStep DEF WriterInv

(* So does every step of a reader that leaves files and Datasets alone. *)
LEMMA ReaderKeepsInv ==
  ASSUME WriterInv, NEW l \in Leases, ReaderStep(l), UNCHANGED world
  PROVE  WriterInv'
<1> USE SourceAssumption DEF WriterInv
<1>1. IndInv'
  BY Inductive DEF Next
<1>2. /\ UNCHANGED <<next_token_id, token>>
      /\ \A w \in Writers : SameCall(w)
      /\ sources'[gdb_path].writer_active = sources[gdb_path].writer_active
      /\ sources'[gdb_path].writer_token_id = sources[gdb_path].writer_token_id
  <2>a. /\ sources \in [Paths -> CoordinatedSourceEntry]
        /\ call \in [Writers -> PrepareCall]
    BY DEF IndInv, TypeOK
  <2>1. ASSUME NEW p \in Paths, TryAcquireFastReader(l, p) PROVE <1>2
    BY <2>a, <2>1
    DEF TryAcquireFastReader, SameCall, CoordinatedSourceEntry
  <2>2. CASE Release(l)
    BY <2>a, <2>2 DEF Release, SameCall, CoordinatedSourceEntry
  <2>3. CASE NotifyAfterRelease(l)
    BY <2>a, <2>3, NotifyAllWakes DEF NotifyAfterRelease, SameCall
  <2>4. CASE AbandonFailClosed(l)
    BY <2>4 DEF AbandonFailClosed, SameCall
  <2>5. ASSUME NEW m \in Leases, MoveLease(l, m) PROVE <1>2
    BY <2>5 DEF MoveLease, SameCall
  <2> QED BY <2>1, <2>2, <2>3, <2>4, <2>5 DEF ReaderStep
<1>3. UNCHANGED <<disk, update_dataset, coordination_id>>
  BY DEF world
<1>4. IdsOwned'
  BY <1>2, <1>3, IdsStay DEF SameCall
<1> QED
  BY <1>1, <1>2, <1>3, <1>4
  DEF WorldTypeOK, DatasetHeld, TornWhileWritten
=============================================================================
