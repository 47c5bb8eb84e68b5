------------------------- MODULE QueryEngineProofs -------------------------
(***************************************************************************)
(* Proofs about QueryEngine for any number of cursors and slots, any       *)
(* requests and any number of reopenings: the engine is leased to exactly  *)
(* the one cursor that is Ready, no cursor that can still be stepped or    *)
(* moved follows a pointer to a parser that open() has deleted, a result   *)
(* is the window of all matches, and a cursor gives its answer in order.   *)
(***************************************************************************)
EXTENDS QueryEngine, SequenceTheorems, FiniteSetTheorems, WellFoundedInduction,
        TLAPS

\* What the properties need besides themselves: the fields a cursor has,
\* that its planned generation is never ahead of the engine's, and that a
\* query under way has the engine to itself and works for a fresh cursor.
CursorShape ==
    /\ DOMAIN cursor = Cursors
    /\ \A c \in Cursors :
          /\ {"state", "generation"} \subseteq DOMAIN cursor[c]
          /\ cursor[c].state \in {"none", "Ready", "Exhausted", "Failed"}
          /\ cursor[c].state \in {"Ready", "Exhausted"} =>
                {"planned", "table"} \subseteq DOMAIN cursor[c]

PlannedBehind ==
    \A c \in Cursors :
      cursor[c].state \in {"Ready", "Exhausted"} =>
        cursor[c].planned \in Nat /\ cursor[c].planned <= open_generation

CallOwnsEngine ==
    call.at # "idle" =>
      /\ ~feature_cursor_active /\ parser # 0
      /\ call.owner \in Cursors => cursor[call.owner].state = "none"

QueryInv ==
    /\ CursorShape
    /\ open_generation \in Nat /\ parser \in {0, open_generation}
    /\ PlannedBehind
    /\ CallOwnsEngine
    /\ LeaseHasOneHolder
    /\ CursorTableIsLive

\* A fresh generation is never the value that stands for no lease.
LEMMA NextGenerationNonZero == NextGeneration # 0
  BY DEF NextGeneration

LEMMA QueryInvInit == Init => QueryInv
  BY SMT DEF Init, QueryInv, CursorShape, PlannedBehind, CallOwnsEngine, NoCall,
     NoCursor, LeaseHasOneHolder, CursorTableIsLive, feature_cursor_active

\* Steps that leave the cursors, the lease and the parser alone.
LEMMA QueryInvQuiet ==
  ASSUME QueryInv, UNCHANGED <<control, parser, cursor>>,
         \/ call' = call \/ call'.at = "idle"
         \/ call.at # "idle" /\ call'.owner = call.owner
         \/ /\ ~feature_cursor_active /\ parser # 0
            /\ call'.owner \in Cursors => cursor[call'.owner].state = "none"
  PROVE  QueryInv'
  BY SMT DEF QueryInv, CursorShape, PlannedBehind, CallOwnsEngine, control,
     LeaseHasOneHolder, CursorTableIsLive, feature_cursor_active,
     engine_is_current

\* open(): nobody is Ready, so no cursor counts itself current any more.
LEMMA QueryInvOpen == QueryInv /\ Open => QueryInv'
  <1> SUFFICES ASSUME QueryInv, Open PROVE QueryInv'
    OBVIOUS
  <1>1. /\ open_generation' = open_generation + 1
        /\ parser' \in {0, open_generation'}
        /\ cursor' = cursor /\ call' = call /\ call.at = "idle"
        /\ active_cursor_generation = 0 /\ active_cursor_generation' = 0
    BY DEF Open, feature_cursor_active
  <1>2. \A c \in Cursors : cursor[c].state # "Ready"
    BY <1>1 DEF QueryInv, LeaseHasOneHolder
  <1>3. \A c \in Cursors :
          cursor[c].state \in {"Ready", "Exhausted"} => ~engine_is_current(c)'
    BY <1>1 DEF QueryInv, PlannedBehind, engine_is_current
  <1>. QED
    BY <1>1, <1>2, <1>3 DEF QueryInv, CursorShape, PlannedBehind, CallOwnsEngine,
       LeaseHasOneHolder, CursorTableIsLive, feature_cursor_active

\* What a cursor may become, and the lease with it: it keeps its lease or its
\* having none, it gives back the one it had, or it takes the free one.
Becomes(c, new) ==
    /\ {"state", "generation"} \subseteq DOMAIN new
    /\ new.state \in {"none", "Ready", "Exhausted", "Failed"}
    /\ new.state = "Ready" <=> new.generation # 0
    /\ new.state \in {"Ready", "Exhausted"} =>
          /\ {"planned", "table"} \subseteq DOMAIN new
          /\ new.planned \in Nat /\ new.planned <= open_generation
          /\ new.planned = open_generation => new.table = parser /\ parser # 0
          /\ new.state = "Ready" => new.planned = open_generation
    /\ \/ /\ active_cursor_generation' = active_cursor_generation
          /\ new.generation = cursor[c].generation
       \/ /\ new.generation = 0 /\ active_cursor_generation' = 0
          /\ feature_cursor_active => cursor[c].generation # 0
       \/ /\ ~feature_cursor_active
          /\ new.generation # 0 /\ active_cursor_generation' = new.generation

LEMMA QueryInvCursor ==
  ASSUME QueryInv, NEW c \in Cursors, NEW new, Becomes(c, new),
         cursor' = [cursor EXCEPT ![c] = new],
         UNCHANGED <<parser, open_generation>>, call'.at = "idle"
  PROVE  QueryInv'
  <1>1. /\ DOMAIN cursor' = Cursors /\ cursor'[c] = new
        /\ \A d \in Cursors \ {c} : cursor'[d] = cursor[d]
    BY DEF QueryInv, CursorShape
  <1>2. CursorShape' /\ PlannedBehind' /\ CallOwnsEngine'
    BY <1>1 DEF QueryInv, CursorShape, PlannedBehind, CallOwnsEngine, Becomes
  <1>3. LeaseHasOneHolder'
    BY <1>1 DEF QueryInv, LeaseHasOneHolder, Becomes, feature_cursor_active
  <1>4. CursorTableIsLive'
    BY <1>1 DEF QueryInv, CursorTableIsLive, Becomes, engine_is_current
  <1>. QED
    BY <1>2, <1>3, <1>4 DEF QueryInv

LEMMA FailKeepsInv ==
  ASSUME QueryInv, NEW c \in Cursors, Fail(c), UNCHANGED parser,
         call'.at = "idle"
  PROVE  QueryInv'
  <1>1. Becomes(c, FailedCursor)
    BY DEF QueryInv, LeaseHasOneHolder, Becomes, FailedCursor, Fail, Release,
       release_feature_cursor, feature_cursor_active
  <1>. QED
    BY <1>1, QueryInvCursor DEF Fail, Release, release_feature_cursor

\* A new cursor over the current parser, with the free lease or without one.
LEMMA NewCursorKeepsInv ==
  ASSUME QueryInv, NEW c \in Cursors, cursor[c].generation = 0,
         ~feature_cursor_active, parser # 0,
         NEW mode, NEW fids, NEW limit, NEW answer, NEW cancellable, NEW g,
         \/ g = 0 /\ UNCHANGED control
         \/ g = NextGeneration /\ register_feature_cursor,
         cursor' = [cursor EXCEPT ![c] =
                      NewCursor(mode, fids, limit, answer, cancellable, g)],
         UNCHANGED parser, call'.at = "idle"
  PROVE  QueryInv'
  <1>1. Becomes(c, NewCursor(mode, fids, limit, answer, cancellable, g))
    BY NextGenerationNonZero
    DEF QueryInv, Becomes, NewCursor, control, register_feature_cursor,
        feature_cursor_active
  <1>2. UNCHANGED open_generation
    BY DEF control, register_feature_cursor
  <1>. QED
    BY <1>1, <1>2, QueryInvCursor

LEMMA NoneHasNoLease ==
  ASSUME QueryInv, NEW c \in Cursors, cursor[c].state # "Ready"
  PROVE  cursor[c].generation = 0
  BY DEF QueryInv, LeaseHasOneHolder

LEMMA OpenSequentialKeepsInv ==
  ASSUME QueryInv, NEW c \in Cursors, NEW r, OpenSequentialCursor(c, r)
  PROVE  QueryInv'
  <1>1. /\ cursor[c].generation = 0 /\ ~feature_cursor_active /\ parser # 0
        /\ call'.at = "idle" /\ parser' = parser
    BY NoneHasNoLease DEF OpenSequentialCursor
  <1>2. CASE Present = {}
    <2>1. /\ cursor' = [cursor EXCEPT ![c] =
                           NewCursor("Sequential", << >>, 0, << >>, FALSE, 0)]
          /\ UNCHANGED control
      BY <1>2 DEF OpenSequentialCursor
    <2>. QED
      BY <1>1, <2>1, NewCursorKeepsInv
  <1>3. CASE Present # {}
    <2>1. /\ cursor' = [cursor EXCEPT ![c] =
                NewCursor("Sequential", << >>, MaxFid + 1, Answer(r), FALSE,
                          NextGeneration)]
          /\ register_feature_cursor
      BY <1>3 DEF OpenSequentialCursor
    <2>. QED
      BY <1>1, <2>1, NewCursorKeepsInv
  <1>. QED
    BY <1>2, <1>3

LEMMA FinishCursorKeepsInv ==
  ASSUME QueryInv, NEW c \in Cursors, FinishCursor(c)
  PROVE  QueryInv'
  <1> DEFINE r    == call.request
             done == apply_request_options(call.matched_fids, r)
             answer == IF r.input = "good" THEN Window(Answer(r), r) ELSE << >>
  <1>1. /\ cursor[c].generation = 0 /\ ~feature_cursor_active /\ parser # 0
        /\ call'.at = "idle" /\ parser' = parser
    BY NoneHasNoLease DEF FinishCursor, QueryInv, CallOwnsEngine, NoCall
  <1>2. CASE done.status # "Ok"
    <2>1. cursor' = [cursor EXCEPT ![c] = FailedCursor] /\ UNCHANGED control
      BY <1>2 DEF FinishCursor
    <2>2. Becomes(c, FailedCursor)
      BY <1>1, <2>1 DEF Becomes, FailedCursor, control
    <2>. QED
      BY <1>1, <2>1, <2>2, QueryInvCursor DEF control
  <1>3. CASE done.status = "Ok" /\ done.matched_fids = << >>
    <2>1. /\ cursor' = [cursor EXCEPT ![c] = NewCursor("CandidateFids",
                           done.matched_fids, 0, answer, FALSE, 0)]
          /\ UNCHANGED control
      BY <1>3 DEF FinishCursor
    <2>. QED
      BY <1>1, <2>1, NewCursorKeepsInv
  <1>4. CASE done.status = "Ok" /\ done.matched_fids # << >>
    <2>1. /\ cursor' = [cursor EXCEPT ![c] = NewCursor("CandidateFids",
                           done.matched_fids, 0, answer, r.cancellable,
                           NextGeneration)]
          /\ register_feature_cursor
      BY <1>4 DEF FinishCursor
    <2>. QED
      BY <1>1, <2>1, NewCursorKeepsInv
  <1>. QED
    BY <1>2, <1>3, <1>4

LEMMA OpenFailsKeepsInv ==
  ASSUME QueryInv, NEW c \in Cursors, NEW r, OpenCursorFails(c, r)
  PROVE  QueryInv'
  <1>1. /\ cursor[c].generation = 0 /\ call'.at = "idle"
        /\ UNCHANGED control /\ UNCHANGED parser
        /\ cursor' = [cursor EXCEPT ![c] = FailedCursor]
    BY NoneHasNoLease DEF OpenCursorFails
  <1>2. Becomes(c, FailedCursor)
    BY <1>1 DEF Becomes, FailedCursor, control
  <1>. QED
    BY <1>1, <1>2, QueryInvCursor DEF control

\* next() on a Ready cursor: it stays Ready, ends or fails.
LEMMA NextReadsKeepsInv ==
  ASSUME QueryInv, NEW c \in Cursors, NextReads(c)
  PROVE  QueryInv'
  <1> DEFINE k == cursor[c]
             f == Least(Upcoming(c))
             new == [k EXCEPT !.yielded = Append(k.yielded, f),
                              !.position = IF k.mode = "Sequential"
                                           THEN f + 1 ELSE k.position + 1]
  <1>1. call'.at = "idle" /\ parser' = parser /\ k.state = "Ready"
    BY DEF NextReads, CanStep
  <1>2. CASE rows[f] # "live"
    <2>1. Fail(c)
      BY <1>2 DEF NextReads
    <2>. QED
      BY <1>1, <2>1, FailKeepsInv
  <1>3. CASE rows[f] = "live"
    <2>1. cursor' = [cursor EXCEPT ![c] = new] /\ UNCHANGED control
      BY <1>3 DEF NextReads
    <2>2. /\ DOMAIN new = DOMAIN k
          /\ \A x \in {"state", "generation", "planned", "table"} \cap DOMAIN k :
                new[x] = k[x]
      OBVIOUS
    <2>3. Becomes(c, new)
      BY <1>1, <2>1, <2>2 DEF QueryInv, CursorShape, LeaseHasOneHolder, PlannedBehind,
         CursorTableIsLive, engine_is_current, Becomes, control
    <2>. QED
      BY <1>1, <2>1, <2>3, QueryInvCursor DEF control
  <1>. QED
    BY <1>2, <1>3

LEMMA NextExhaustsKeepsInv ==
  ASSUME QueryInv, NEW c \in Cursors, NextExhausts(c)
  PROVE  QueryInv'
  <1> DEFINE ended == [cursor[c] EXCEPT !.state = "Exhausted", !.generation = 0]
  <1>1. /\ call'.at = "idle" /\ UNCHANGED <<parser, open_generation>>
        /\ cursor[c].state = "Ready" /\ cursor[c].generation # 0
        /\ active_cursor_generation' = 0
    BY DEF NextExhausts, CanStep, Release, release_feature_cursor, QueryInv,
       LeaseHasOneHolder
  <1>2. cursor' = [cursor EXCEPT ![c] = ended]
    BY DEF NextExhausts
  <1>3. /\ DOMAIN ended = DOMAIN cursor[c]
        /\ ended.state = "Exhausted" /\ ended.generation = 0
        /\ ended.planned = cursor[c].planned /\ ended.table = cursor[c].table
    BY <1>1 DEF QueryInv, CursorShape
  <1>4. Becomes(c, ended)
    BY <1>1, <1>3 DEF QueryInv, CursorShape, PlannedBehind, CursorTableIsLive,
       engine_is_current, Becomes
  <1>. QED
    BY <1>1, <1>2, <1>4, QueryInvCursor

\* move_to() of a live cursor: it fails, ends, or is Ready with its own lease
\* or with the free one.
LEMMA MoveToKeepsInv ==
  ASSUME QueryInv, NEW c \in Cursors, NEW f, MoveTo(c, f)
  PROVE  QueryInv'
  <1> DEFINE k       == cursor[c]
             leased  == k.generation # 0
             mine    == IF leased THEN k.generation ELSE NextGeneration
             active  == IF leased THEN active_cursor_generation
                        ELSE NextGeneration
             targets == IF k.mode = "Sequential"
                        THEN {g \in Present : g >= f /\ g < k.feature_limit}
                        ELSE {i - 1 : i \in {j \in 1..Len(k.fids) : k.fids[j] >= f}}
             moved   == [k EXCEPT !.anchor = f, !.yielded = << >>]
             ended   == [moved EXCEPT !.state = "Exhausted", !.generation = 0]
             again   == [moved EXCEPT !.state = "Ready", !.generation = mine,
                                      !.position = Least(targets)]
  <1>1. /\ call'.at = "idle" /\ parser' = parser
        /\ k.state \in {"Ready", "Exhausted"}
    BY DEF MoveTo
  <1>2. CASE ~engine_is_current(c) \/ (~leased /\ feature_cursor_active)
    <2>1. Fail(c)
      BY <1>2 DEF MoveTo
    <2>. QED
      BY <1>1, <2>1, FailKeepsInv
  <1>3. CASE ~(~engine_is_current(c) \/ (~leased /\ feature_cursor_active))
    <2>1. /\ cursor' = [cursor EXCEPT ![c] = IF targets = {} THEN ended ELSE again]
          /\ active_cursor_generation' =
                IF targets = {} /\ active = mine THEN 0 ELSE active
          /\ UNCHANGED open_generation
      BY <1>3 DEF MoveTo
    <2>2. mine # 0 /\ active = mine
      BY NextGenerationNonZero DEF QueryInv, LeaseHasOneHolder
    <2>3. /\ DOMAIN moved = DOMAIN k
          /\ \A x \in {"state", "generation", "planned", "table"} \cap DOMAIN k :
                moved[x] = k[x]
      OBVIOUS
    <2>4. CASE targets = {}
      <3>1. /\ DOMAIN ended = DOMAIN k
            /\ ended.state = "Exhausted" /\ ended.generation = 0
            /\ ended.planned = k.planned /\ ended.table = k.table
        BY <1>1, <2>3 DEF QueryInv, CursorShape
      <3>2. Becomes(c, ended)
        BY <1>1, <1>3, <2>1, <2>2, <2>4, <3>1 DEF QueryInv, CursorShape, PlannedBehind,
           CursorTableIsLive, engine_is_current, Becomes
      <3>. QED
        BY <1>1, <2>1, <2>4, <3>2, QueryInvCursor
    <2>5. CASE targets # {}
      <3>1. /\ DOMAIN again = DOMAIN k
            /\ again.state = "Ready" /\ again.generation = mine
            /\ again.planned = k.planned /\ again.table = k.table
        BY <1>1, <2>3 DEF QueryInv, CursorShape
      <3>2. Becomes(c, again)
        BY <1>1, <1>3, <2>1, <2>2, <2>5, <3>1 DEF QueryInv, CursorShape, PlannedBehind,
           LeaseHasOneHolder, CursorTableIsLive, engine_is_current, Becomes
      <3>. QED
        BY <1>1, <2>1, <2>5, <3>2, QueryInvCursor
    <2>. QED
      BY <2>4, <2>5
  <1>. QED
    BY <1>2, <1>3

LEMMA DestroyKeepsInv ==
  ASSUME QueryInv, NEW c \in Cursors, Destroy(c)
  PROVE  QueryInv'
  <1>1. /\ cursor' = [cursor EXCEPT ![c] = NoCursor] /\ call'.at = "idle"
        /\ UNCHANGED <<parser, open_generation>>
    BY DEF Destroy, Release, release_feature_cursor
  <1>2. Becomes(c, NoCursor)
    BY DEF Destroy, Release, release_feature_cursor, QueryInv, LeaseHasOneHolder,
       Becomes, NoCursor, feature_cursor_active
  <1>. QED
    BY <1>1, <1>2, QueryInvCursor

LEMMA QueryInvNext == QueryInv /\ [Next]_vars => QueryInv'
  <1> SUFFICES ASSUME QueryInv, [Next]_vars PROVE QueryInv'
    OBVIOUS
  <1>1. CASE Cancel
    BY <1>1, QueryInvQuiet DEF Cancel
  <1>2. CASE Open
    BY <1>2, QueryInvOpen
  <1>3. CASE ScanRow
    <2>1. call.at # "idle"
      BY <1>3 DEF ScanRow
    <2>2. call'.owner = call.owner
      BY <1>3 DEF ScanRow
    <2>. QED
      BY <1>3, <2>1, <2>2, QueryInvQuiet DEF ScanRow
  <1>4. CASE FinishQuery
    BY <1>4, QueryInvQuiet DEF FinishQuery, NoCall
  <1>5. ASSUME NEW r \in Requests, Query(r) PROVE QueryInv'
    <2>1. call'.owner \notin Cursors
      BY <1>5, QueryAssumption DEF Query, StartCall
    <2>. QED
      BY <1>5, <2>1, QueryInvQuiet DEF Query
  <1>6. ASSUME NEW r \in Requests, QueryRefused(r) PROVE QueryInv'
    BY <1>6, QueryInvQuiet DEF QueryRefused
  <1>7. ASSUME NEW c \in Cursors, CursorNext(c) PROVE QueryInv'
    <2>1. ASSUME NEW r \in CursorRequests, OpenCursorFails(c, r) PROVE QueryInv'
      BY <2>1, OpenFailsKeepsInv
    <2>2. ASSUME NEW r \in CursorRequests, OpenSequentialCursor(c, r)
          PROVE QueryInv'
      BY <2>2, OpenSequentialKeepsInv
    <2>3. ASSUME NEW r \in CursorRequests, OpenCursor(c, r) PROVE QueryInv'
      <3>1. call'.owner = c
        BY <2>3 DEF OpenCursor, StartCall
      <3>. QED
        BY <2>3, <3>1, QueryInvQuiet DEF OpenCursor
    <2>4. CASE FinishCursor(c)
      BY <2>4, FinishCursorKeepsInv
    <2>5. CASE NextStops(c)
      BY <2>5, FailKeepsInv DEF NextStops, CanStep
    <2>6. CASE NextReads(c)
      BY <2>6, NextReadsKeepsInv
    <2>7. CASE NextExhausts(c)
      BY <2>7, NextExhaustsKeepsInv
    <2>8. ASSUME NEW f \in 0 .. MaxFid + 1, MoveTo(c, f) PROVE QueryInv'
      BY <2>8, MoveToKeepsInv
    <2>9. CASE Destroy(c)
      BY <2>9, DestroyKeepsInv
    <2>. QED
      BY <1>7, <2>1, <2>2, <2>3, <2>4, <2>5, <2>6, <2>7, <2>8, <2>9 DEF CursorNext
  <1>8. CASE UNCHANGED vars
    BY <1>8, QueryInvQuiet DEF vars, control
  <1>. QED
    BY <1>1, <1>2, <1>3, <1>4, <1>5, <1>6, <1>7, <1>8 DEF Next

LEMMA QueryInvariant == Spec => []QueryInv
  BY QueryInvInit, QueryInvNext, PTL DEF Spec

\* At every moment the engine is leased exactly while one cursor is Ready, and
\* to that one, whatever order cursors end, fail, move and are destroyed in.
THEOREM LeaseSafety == Spec => []LeaseHasOneHolder
  <1>1. QueryInv => LeaseHasOneHolder
    BY DEF QueryInv
  <1>. QED
    BY <1>1, QueryInvariant, PTL

\* No cursor that next() or move_to() may still step follows a table pointer
\* to a parser that a reopening, successful or not, has deleted.
THEOREM CursorTableSafety == Spec => []CursorTableIsLive
  <1>1. QueryInv => CursorTableIsLive
    BY DEF QueryInv
  <1>. QED
    BY <1>1, QueryInvariant, PTL
-----------------------------------------------------------------------------
\* The number of FIDs that a window leaves of n.
WindowSize(n, r) ==
    LET rest == IF r.offset >= n THEN 0 ELSE n - r.offset
    IN  IF r.limit # 0 /\ rest > r.limit THEN r.limit ELSE rest

\* The part of a sequence after its first m elements, up to its n-th.
LEMMA Cut ==
  ASSUME NEW S, NEW s \in Seq(S), NEW m \in Nat, NEW n \in 0..Len(s)
  PROVE  /\ SubSeq(s, m + 1, n) \in Seq(S)
         /\ Len(SubSeq(s, m + 1, n)) = IF m < n THEN n - m ELSE 0
         /\ \A i \in 1 .. Len(SubSeq(s, m + 1, n)) :
               SubSeq(s, m + 1, n)[i] = s[m + i]
  <1>1. Len(s) \in Nat /\ \A i \in 1 .. Len(s) : s[i] \in S
    BY LenProperties, ElementOfSeq
  <1>2. \A i \in m + 1 .. n : s[i] \in S
    BY <1>1
  <1>. QED
    BY <1>1, <1>2, SubSeqProperties

LEMMA CutFront ==
  ASSUME NEW S, NEW s \in Seq(S), NEW n \in 0..Len(s)
  PROVE  /\ SubSeq(s, 1, n) \in Seq(S)
         /\ Len(SubSeq(s, 1, n)) = n
         /\ \A i \in 1 .. n : SubSeq(s, 1, n)[i] = s[i]
  <1>1. Len(s) \in Nat /\ \A i \in 1 .. Len(s) : s[i] \in S
    BY LenProperties, ElementOfSeq
  <1>2. \A i \in 1 .. n : s[i] \in S
    BY <1>1
  <1>3. n \in Int /\ 1 \in Int
    BY <1>1
  <1>4. /\ SubSeq(s, 1, n) \in Seq(S)
        /\ Len(SubSeq(s, 1, n)) = IF 1 <= n THEN n - 1 + 1 ELSE 0
        /\ \A i \in 1 .. n - 1 + 1 : SubSeq(s, 1, n)[i] = s[1 + i - 1]
    BY <1>2, <1>3, SubSeqProperties
  <1>. QED
    BY <1>1, <1>4

\* The code cuts a result down in two steps.
LEMMA ResultWindow ==
  ASSUME NEW S, NEW s \in Seq(S), NEW r, r.offset \in Nat, r.limit \in Nat
  PROVE  /\ apply_result_window(s, r) \in Seq(S)
         /\ Len(apply_result_window(s, r)) = WindowSize(Len(s), r)
         /\ \A i \in 1 .. WindowSize(Len(s), r) :
               apply_result_window(s, r)[i] = s[r.offset + i]
  <1> DEFINE rest == IF r.offset >= Len(s) THEN << >>
                     ELSE SubSeq(s, r.offset + 1, Len(s))
             size == IF r.offset >= Len(s) THEN 0 ELSE Len(s) - r.offset
  <1>1. Len(s) \in Nat
    BY LenProperties
  <1>2. /\ rest \in Seq(S) /\ Len(rest) = size
        /\ \A i \in 1 .. size : rest[i] = s[r.offset + i]
    <2>1. CASE r.offset >= Len(s)
      BY <1>1, <2>1, EmptySeq
    <2>2. CASE r.offset < Len(s)
      BY <1>1, <2>2, Cut
    <2>. QED
      BY SMTT(40), <1>1, <2>1, <2>2
  <1>5. /\ apply_result_window(s, r) =
              IF r.limit # 0 /\ Len(rest) > r.limit THEN SubSeq(rest, 1, r.limit)
              ELSE rest
        /\ WindowSize(Len(s), r) =
              IF r.limit # 0 /\ size > r.limit THEN r.limit ELSE size
    BY DEF apply_result_window, WindowSize
  <1> HIDE DEF rest
  <1>3. CASE r.limit # 0 /\ Len(rest) > r.limit
    <2>1. /\ apply_result_window(s, r) = SubSeq(rest, 1, r.limit)
          /\ WindowSize(Len(s), r) = r.limit
      BY <1>2, <1>3, <1>5
    <2>2. r.limit \in 0 .. Len(rest)
      BY <1>1, <1>2, <1>3
    <2>3. /\ SubSeq(rest, 1, r.limit) \in Seq(S)
          /\ Len(SubSeq(rest, 1, r.limit)) = r.limit
          /\ \A i \in 1 .. r.limit : SubSeq(rest, 1, r.limit)[i] = rest[i]
      BY <1>2, <2>2, CutFront
    <2>. QED
      BY SMTT(40), <1>1, <1>2, <1>3, <2>1, <2>3
  <1>4. CASE ~(r.limit # 0 /\ Len(rest) > r.limit)
    <2>1. /\ apply_result_window(s, r) = rest
          /\ WindowSize(Len(s), r) = size
      BY <1>2, <1>4, <1>5
    <2>. QED
      BY <1>2, <2>1
  <1>. QED
    BY <1>3, <1>4

LEMMA ReferenceWindow ==
  ASSUME NEW S, NEW s \in Seq(S), NEW r, r.offset \in Nat, r.limit \in Nat
  PROVE  /\ Window(s, r) \in Seq(S)
         /\ Len(Window(s, r)) = WindowSize(Len(s), r)
         /\ \A i \in 1 .. WindowSize(Len(s), r) :
               Window(s, r)[i] = s[r.offset + i]
  <1> DEFINE last == IF r.limit = 0 \/ r.offset + r.limit > Len(s)
                     THEN Len(s) ELSE r.offset + r.limit
  <1>1. Len(s) \in Nat /\ last \in 0 .. Len(s)
    BY LenProperties
  <1>2. WindowSize(Len(s), r) = IF r.offset < last THEN last - r.offset ELSE 0
    BY <1>1 DEF WindowSize
  <1>3. Window(s, r) = SubSeq(s, r.offset + 1, last)
    BY DEF Window
  <1> HIDE DEF last
  <1>4. /\ SubSeq(s, r.offset + 1, last) \in Seq(S)
        /\ Len(SubSeq(s, r.offset + 1, last)) =
              IF r.offset < last THEN last - r.offset ELSE 0
        /\ \A i \in 1 .. Len(SubSeq(s, r.offset + 1, last)) :
              SubSeq(s, r.offset + 1, last)[i] = s[r.offset + i]
    BY <1>1, Cut
  <1>. QED
    BY <1>2, <1>3, <1>4

\* scan_stop_after() saturates, for any width of size_t: when it says stop
\* after `stop` of n matches, the window of those is as large as the window
\* of all and lies within them, or both exceed the limit on results.
LEMMA StopIsLateEnough ==
  ASSUME NEW r, r.offset \in 0..MaxSize, r.limit \in 0..MaxSize,
         r.max_result_features \in 0..MaxSize,
         NEW n \in Nat, scan_stop_after(r) # 0, scan_stop_after(r) <= n
  PROVE  LET stop == scan_stop_after(r)
         IN  /\ stop \in Nat
             /\ \/ WindowSize(stop, r) = WindowSize(n, r)
                \/ /\ r.max_result_features # 0
                   /\ WindowSize(stop, r) > r.max_result_features
                   /\ WindowSize(n, r) > r.max_result_features
  BY QueryAssumption DEF scan_stop_after, saturated_add, WindowSize

\* The first matches of an answer have the window of all of them, when the
\* window of the first is as large.
LEMMA FrontHasTheWindow ==
  ASSUME NEW S, NEW s \in Seq(S), NEW t \in Seq(S), Len(t) <= Len(s),
         \A i \in 1 .. Len(t) : t[i] = s[i],
         NEW r, r.offset \in Nat, r.limit \in Nat,
         WindowSize(Len(t), r) = WindowSize(Len(s), r)
  PROVE  apply_result_window(t, r) = Window(s, r)
  <1>1. Len(s) \in Nat /\ Len(t) \in Nat
    BY LenProperties
  <1>2. /\ apply_result_window(t, r) \in Seq(S)
        /\ Len(apply_result_window(t, r)) = WindowSize(Len(t), r)
        /\ \A i \in 1 .. WindowSize(Len(t), r) :
              apply_result_window(t, r)[i] = t[r.offset + i]
    BY ResultWindow
  <1>3. /\ Window(s, r) \in Seq(S)
        /\ Len(Window(s, r)) = WindowSize(Len(s), r)
        /\ \A i \in 1 .. WindowSize(Len(s), r) :
              Window(s, r)[i] = s[r.offset + i]
    BY ReferenceWindow
  <1>4. \A i \in 1 .. WindowSize(Len(t), r) : r.offset + i \in 1 .. Len(t)
    BY <1>1 DEF WindowSize
  <1>5. \A i \in 1 .. WindowSize(Len(t), r) :
          apply_result_window(t, r)[i] = Window(s, r)[i]
    BY <1>2, <1>3, <1>4
  <1>. QED
    BY <1>2, <1>3, <1>5, SeqEqual

\* A scan that stops early publishes what it would have published had it gone
\* on to the last of its matches s: the window of all of them, or the status
\* ResultLimitExceeded, which the window of all would have earned as well.
THEOREM EarlyStopIsExact ==
  ASSUME NEW r, r.offset \in 0..MaxSize, r.limit \in 0..MaxSize,
         r.max_result_features \in 0..MaxSize,
         NEW S, NEW s \in Seq(S),
         scan_stop_after(r) # 0, scan_stop_after(r) <= Len(s),
         NEW seen, seen = SubSeq(s, 1, scan_stop_after(r))
  PROVE  \/ apply_result_window(seen, r) = Window(s, r)
         \/ /\ r.max_result_features # 0
            /\ Len(apply_result_window(seen, r)) > r.max_result_features
            /\ Len(Window(s, r)) > r.max_result_features
  <1> DEFINE stop == scan_stop_after(r)
  <1>1. Len(s) \in Nat /\ r.offset \in Nat /\ r.limit \in Nat
    BY LenProperties, QueryAssumption
  <1>2. /\ stop \in 0 .. Len(s)
        /\ \/ WindowSize(stop, r) = WindowSize(Len(s), r)
           \/ /\ r.max_result_features # 0
              /\ WindowSize(stop, r) > r.max_result_features
              /\ WindowSize(Len(s), r) > r.max_result_features
    BY <1>1, StopIsLateEnough
  <1>3. seen = SubSeq(s, 1, stop)
    OBVIOUS
  <1> HIDE DEF stop
  <1>4. /\ seen \in Seq(S) /\ Len(seen) = stop
        /\ \A i \in 1 .. stop : seen[i] = s[i]
    BY <1>2, <1>3, CutFront
  <1>5. CASE WindowSize(stop, r) = WindowSize(Len(s), r)
    <2>1. Len(seen) <= Len(s) /\ \A i \in 1 .. Len(seen) : seen[i] = s[i]
      BY <1>1, <1>2, <1>4
    <2>2. WindowSize(Len(seen), r) = WindowSize(Len(s), r)
      BY <1>4, <1>5
    <2>. QED
      BY <1>1, <1>4, <2>1, <2>2, FrontHasTheWindow
  <1>6. Len(apply_result_window(seen, r)) = WindowSize(Len(seen), r)
    BY <1>1, <1>4, ResultWindow
  <1>7. Len(Window(s, r)) = WindowSize(Len(s), r)
    BY <1>1, ReferenceWindow
  <1>. QED
    BY <1>2, <1>4, <1>5, <1>6, <1>7
-----------------------------------------------------------------------------
(* Ascending sequences of FIDs.                                            *)

\* s has the elements of S, each once and ascending.
Lists(s, S) ==
    /\ s \in Seq(S)
    /\ \A i, j \in 1 .. Len(s) : i < j => s[i] < s[j]
    /\ \A f \in S : \E i \in 1 .. Len(s) : s[i] = f

LEMMA ListTypes ==
  ASSUME NEW S, S \subseteq Nat, NEW s, Lists(s, S)
  PROVE  /\ s \in Seq(S) /\ s \in Seq(Nat) /\ Len(s) \in Nat
         /\ DOMAIN s = 1 .. Len(s)
         /\ \A i \in 1 .. Len(s) : s[i] \in S /\ s[i] \in Nat
  <1>1. s \in Seq(S)
    BY DEF Lists
  <1>2. Len(s) \in Nat /\ DOMAIN s = 1 .. Len(s)
    BY <1>1, LenProperties
  <1>3. \A i \in 1 .. Len(s) : s[i] \in S
    BY <1>1, ElementOfSeq
  <1>4. s \in Seq(Nat)
    BY <1>1, SeqMonotonic
  <1>. QED
    BY <1>1, <1>2, <1>3, <1>4

\* A set of numbers that is not empty has a least one: what stands in for
\* induction below.
LEMMA LeastNumber ==
  ASSUME NEW T, T \subseteq Nat, T # {}
  PROVE  \E x \in T : \A y \in T : x <= y
  <1> DEFINE R == OpToRel(<, Nat)
  <1>1. IsWellFoundedOn(R, Nat)
    BY NatLessThanWellFounded
  <1>2. \A a, b \in Nat : a < b => <<a, b>> \in R
    BY DEF OpToRel
  <1> HIDE DEF R
  <1>3. PICK x \in T : \A y \in T : ~(<<y, x>> \in R)
    BY <1>1, WFMin
  <1>4. ASSUME NEW y \in T PROVE x <= y
    <2>1. x \in Nat /\ y \in Nat /\ ~(<<y, x>> \in R)
      BY <1>3
    <2>2. ~(y < x)
      BY <1>2, <2>1
    <2>. QED
      BY <2>1, <2>2
  <1>. QED
    BY <1>4

LEMMA ListsAppend ==
  ASSUME NEW T, T \subseteq Nat, NEW t, Lists(t, T),
         NEW x \in Nat, \A y \in T : y < x
  PROVE  Lists(Append(t, x), T \cup {x}) /\ Len(Append(t, x)) = Len(t) + 1
  <1>1. t \in Seq(T \cup {x}) /\ Len(t) \in Nat
        /\ \A i \in 1 .. Len(t) : t[i] \in T
    BY DEF Lists
  <1>2. /\ Append(t, x) \in Seq(T \cup {x})
        /\ Len(Append(t, x)) = Len(t) + 1
        /\ \A i \in 1 .. Len(t) : Append(t, x)[i] = t[i]
        /\ Append(t, x)[Len(t) + 1] = x
    BY <1>1, AppendProperties
  <1>3. \A i, j \in 1 .. Len(t) + 1 :
          i < j => Append(t, x)[i] < Append(t, x)[j]
    <2> SUFFICES ASSUME NEW i \in 1 .. Len(t) + 1, NEW j \in 1 .. Len(t) + 1, i < j
                 PROVE  Append(t, x)[i] < Append(t, x)[j]
      OBVIOUS
    <2>1. i \in 1 .. Len(t) /\ (j \in 1 .. Len(t) \/ j = Len(t) + 1)
      BY <1>1
    <2>. QED
      BY <1>1, <1>2, <2>1 DEF Lists
  <1>4. ASSUME NEW f \in T \cup {x}
        PROVE  \E i \in 1 .. Len(t) + 1 : Append(t, x)[i] = f
    <2>1. CASE f = x
      BY <1>1, <1>2, <2>1
    <2>2. CASE f \in T
      <3>1. PICK i \in 1 .. Len(t) : t[i] = f
        BY <2>2 DEF Lists
      <3>2. i \in 1 .. Len(t) + 1 /\ Append(t, x)[i] = f
        BY <1>1, <1>2, <3>1
      <3>. QED
        BY <3>2
    <2>. QED
      BY <2>1, <2>2
  <1>. QED
    BY <1>2, <1>3, <1>4 DEF Lists

\* One more FID looked at.
LEMMA ListsAfter ==
  ASSUME NEW W, W \subseteq Nat, NEW f \in Nat,
         NEW m, Lists(m, {g \in W : g < f})
  PROVE  /\ f \in W => /\ Lists(Append(m, f), {g \in W : g < f + 1})
                       /\ Len(Append(m, f)) = Len(m) + 1
         /\ f \notin W => Lists(m, {g \in W : g < f + 1})
  <1> DEFINE T == {g \in W : g < f}
             U == {g \in W : g < f + 1}
  <1>1. T \subseteq Nat /\ \A y \in T : y < f
    OBVIOUS
  <1>0. \A y \in W : y < f + 1 <=> y < f \/ y = f
    OBVIOUS
  <1>2. f \in W => U = T \cup {f}
    <2> SUFFICES ASSUME f \in W PROVE \A y : y \in U <=> y \in T \cup {f}
      OBVIOUS
    <2>. QED
      BY <1>0
  <1>3. f \notin W => U = T
    <2> SUFFICES ASSUME f \notin W PROVE \A y : y \in U <=> y \in T
      OBVIOUS
    <2>. QED
      BY <1>0
  <1>4. Lists(m, T)
    OBVIOUS
  <1> HIDE DEF T, U
  <1>5. Lists(Append(m, f), T \cup {f}) /\ Len(Append(m, f)) = Len(m) + 1
    BY <1>1, <1>4, ListsAppend
  <1>6. /\ f \in W => Lists(Append(m, f), U) /\ Len(Append(m, f)) = Len(m) + 1
        /\ f \notin W => Lists(m, U)
    BY <1>2, <1>3, <1>4, <1>5
  <1>. QED
    BY <1>6 DEF U

\* Every set of FIDs can be listed, in as many places as it has elements.
LEMMA ListsExist ==
  ASSUME NEW n \in Nat
  PROVE  \A S \in SUBSET (0 .. n - 1) :
            /\ IsFiniteSet(S)
            /\ \E s : Lists(s, S) /\ Len(s) = Cardinality(S)
  <1> DEFINE Good(m) == \A S \in SUBSET (0 .. m - 1) :
                           /\ IsFiniteSet(S)
                           /\ \E s : Lists(s, S) /\ Len(s) = Cardinality(S)
             Bad == {m \in Nat : ~Good(m)}
  <1>1. ASSUME NEW m \in Nat, Good(m) PROVE Good(m + 1)
    <2> SUFFICES ASSUME NEW S \in SUBSET (0 .. m)
                 PROVE  /\ IsFiniteSet(S)
                        /\ \E s : Lists(s, S) /\ Len(s) = Cardinality(S)
      BY m + 1 - 1 = m
    <2> DEFINE T == S \ {m}
    <2>1. T \in SUBSET (0 .. m - 1)
      OBVIOUS
    <2>2. PICK t : IsFiniteSet(T) /\ Lists(t, T) /\ Len(t) = Cardinality(T)
      BY <1>1, <2>1
    <2>3. CASE m \notin S
      <3>1. S = T
        BY <2>3
      <3>. QED
        BY <2>2, <3>1
    <2>4. CASE m \in S
      <3>1. S = T \cup {m} /\ m \notin T /\ T \subseteq Nat /\ \A y \in T : y < m
        BY <2>1, <2>4
      <3>2. IsFiniteSet(S) /\ Cardinality(S) = Cardinality(T) + 1
        <4>1. /\ IsFiniteSet(T \cup {m})
              /\ Cardinality(T \cup {m}) =
                    IF m \in T THEN Cardinality(T) ELSE Cardinality(T) + 1
          BY <2>2, FS_AddElement
        <4>. QED
          BY <3>1, <4>1
      <3> HIDE DEF T
      <3>3. Lists(Append(t, m), S) /\ Len(Append(t, m)) = Cardinality(S)
        BY <2>2, <3>1, <3>2, ListsAppend
      <3>. QED
        BY <3>2, <3>3
    <2>. QED
      BY <2>3, <2>4
  <1>2. Good(0)
    <2> SUFFICES ASSUME NEW S \in SUBSET (0 .. 0 - 1)
                 PROVE  /\ IsFiniteSet(S)
                        /\ \E s : Lists(s, S) /\ Len(s) = Cardinality(S)
      OBVIOUS
    <2>1. S = {}
      OBVIOUS
    <2>2. Lists(<< >>, {}) /\ Len(<< >>) = 0
      BY EmptySeq DEF Lists
    <2>. QED
      BY <2>1, <2>2, FS_EmptySet
  <1>3. Bad = {}
    <2> SUFFICES ASSUME Bad # {} PROVE FALSE
      OBVIOUS
    <2> HIDE DEF Good
    <2>1. PICK m \in Bad : \A k \in Bad : m <= k
      BY LeastNumber
    <2>2. m \in Nat /\ m # 0
      BY <1>2, <2>1
    <2>3. m - 1 \in Nat /\ m - 1 \notin Bad
      BY <2>1, <2>2
    <2>4. Good(m - 1 + 1)
      BY <1>1, <2>3
    <2>5. m - 1 + 1 = m
      BY <2>2
    <2>. QED
      BY <2>1, <2>4, <2>5
  <1>. QED
    BY <1>3

LEMMA InOrderLists ==
  ASSUME NEW S \in SUBSET Fids
  PROVE  Lists(InOrder(S), S)
  <1>1. MaxFid + 1 \in Nat
    BY QueryAssumption
  <1>9. IsFiniteSet(S) /\ \E s : Lists(s, S) /\ Len(s) = Cardinality(S)
    <2>0. PICK n \in Nat : n = MaxFid + 1
      BY <1>1
    <2>1. S \in SUBSET (0 .. n - 1)
      <3>1. ASSUME NEW f \in S PROVE f \in 0 .. n - 1
        <4>1. f \in 0 .. MaxFid
          BY DEF Fids
        <4>. QED
          BY <2>0, <4>1, QueryAssumption
      <3>. QED
        BY <3>1
    <2>2. \A T \in SUBSET (0 .. n - 1) :
            /\ IsFiniteSet(T)
            /\ \E s : Lists(s, T) /\ Len(s) = Cardinality(T)
      BY <2>1, ListsExist
    <2>. QED
      BY <2>1, <2>2
  <1>2. PICK s : IsFiniteSet(S) /\ Lists(s, S) /\ Len(s) = Cardinality(S)
    BY <1>9
  <1>3. Cardinality(S) \in Nat
    BY <1>2, FS_CardinalityType
  <1> DEFINE Goes(t) == /\ \A i, j \in DOMAIN t : i < j => t[i] < t[j]
                        /\ {t[i] : i \in DOMAIN t} = S
  <1>4. s \in [1 .. Cardinality(S) -> S] /\ DOMAIN s = 1 .. Len(s)
    BY <1>2 DEF Lists
  <1>5. Goes(s)
    <2>1. \A i \in DOMAIN s : s[i] \in S
      BY <1>4
    <2>2. \A f \in S : \E i \in DOMAIN s : s[i] = f
      BY <1>2, <1>4 DEF Lists
    <2>3. \A i, j \in DOMAIN s : i < j => s[i] < s[j]
      BY <1>2, <1>4 DEF Lists
    <2>. QED
      BY <2>1, <2>2, <2>3
  <1>6. InOrder(S) = CHOOSE t \in [1 .. Cardinality(S) -> S] : Goes(t)
    BY DEF InOrder
  <1>7. InOrder(S) \in [1 .. Cardinality(S) -> S] /\ Goes(InOrder(S))
    <2> HIDE DEF Goes
    <2>. QED
      BY <1>4, <1>5, <1>6
  <1>8. InOrder(S) \in Seq(S) /\ Len(InOrder(S)) = Cardinality(S)
        /\ DOMAIN InOrder(S) = 1 .. Cardinality(S)
    BY <1>3, <1>7
  <1>. QED
    BY <1>7, <1>8 DEF Lists

\* The elements of T are the least ones of S.
Below(T, S) == T \subseteq S /\ \A x \in T : \A y \in S \ T : x < y

\* t is the beginning of s.
Begins(t, s) == Len(t) <= Len(s) /\ \A i \in 1 .. Len(t) : t[i] = s[i]

\* A list of the least elements of S is the beginning of the list of S.
LEMMA ListsFront ==
  ASSUME NEW S, S \subseteq Nat, NEW T, Below(T, S),
         NEW s, Lists(s, S), NEW t, Lists(t, T)
  PROVE  Begins(t, s)
  <1> DEFINE Bad == {i \in 1 .. Len(t) : ~(i <= Len(s) /\ t[i] = s[i])}
  <1>1. /\ Len(t) \in Nat /\ Len(s) \in Nat
        /\ \A i \in 1 .. Len(t) : t[i] \in T /\ t[i] \in Nat /\ t[i] \in S
        /\ \A i \in 1 .. Len(s) : s[i] \in S /\ s[i] \in Nat
    <2>1. T \subseteq Nat /\ T \subseteq S
      BY DEF Below
    <2>. QED
      BY <2>1, ListTypes
  <1>2. Bad = {}
    <2> SUFFICES ASSUME Bad # {} PROVE FALSE
      OBVIOUS
    <2>0. Bad \subseteq Nat /\ Bad # {}
      BY <1>1
    <2>1. PICK i \in Bad : \A k \in Bad : i <= k
      <3> HIDE DEF Bad
      <3>. QED
        BY <2>0, LeastNumber
    <2>2. i \in 1 .. Len(t)
          /\ \A k \in 1 .. i - 1 : k <= Len(s) /\ t[k] = s[k]
      BY <1>1, <2>1
    <2>3. PICK j \in 1 .. Len(s) : s[j] = t[i]
      BY <1>1, <2>2 DEF Lists
    <2>4. i <= j
      <3> SUFFICES ASSUME j < i PROVE FALSE
        BY <1>1, <2>2
      <3>1. j \in 1 .. Len(t) /\ t[j] = s[j]
        BY <1>1, <2>2
      <3>2. t[j] < t[i]
        BY <1>1, <2>2, <3>1 DEF Lists
      <3>. QED
        BY <1>1, <2>2, <2>3, <3>1, <3>2
    <2>5. i \in 1 .. Len(s) /\ s[i] # t[i]
      BY <1>1, <2>1, <2>2, <2>4
    <2>6. s[i] < t[i]
      <3>1. i < j
        BY <1>1, <2>2, <2>3, <2>4, <2>5
      <3>. QED
        BY <2>3, <2>5, <3>1 DEF Lists
    <2>7. s[i] \in T
      BY <1>1, <2>2, <2>5, <2>6 DEF Below
    <2>8. PICK m \in 1 .. Len(t) : t[m] = s[i]
      BY <2>7 DEF Lists
    <2>9. m < i
      <3> SUFFICES ASSUME i <= m PROVE FALSE
        BY <1>1, <2>2
      <3>1. i = m \/ t[i] < t[m]
        BY <1>1, <2>2 DEF Lists
      <3>. QED
        BY <1>1, <2>2, <2>5, <2>6, <2>8, <3>1
    <2>10. m \in 1 .. Len(s) /\ s[m] = s[i] /\ s[m] < s[i]
      BY <1>1, <2>2, <2>5, <2>8, <2>9 DEF Lists
    <2>. QED
      BY <1>1, <2>5, <2>10
  <1>3. \A i \in 1 .. Len(t) : i <= Len(s) /\ t[i] = s[i]
    BY <1>2
  <1>4. Len(t) <= Len(s)
    <2>1. CASE Len(t) = 0
      BY <1>1, <2>1
    <2>2. CASE Len(t) # 0
      BY <1>1, <1>3, <2>2
    <2>. QED
      BY <2>1, <2>2
  <1>. QED
    BY <1>3, <1>4 DEF Begins

LEMMA ListsUnique ==
  ASSUME NEW S, S \subseteq Nat, NEW s, Lists(s, S), NEW t, Lists(t, S)
  PROVE  s = t
  <1>1. Below(S, S)
    BY DEF Below
  <1>2. Begins(t, s) /\ Begins(s, t)
    BY <1>1, ListsFront
  <1>3. s \in Seq(S) /\ t \in Seq(S) /\ Len(s) \in Nat /\ Len(t) \in Nat
    BY ListTypes
  <1>. QED
    BY <1>2, <1>3, SeqEqual DEF Begins
-----------------------------------------------------------------------------
(* What scans, cursors and results have of the answer.                     *)

ElementsOf(s) == {s[i] : i \in 1 .. Len(s)}

\* The FIDs that a request's answer lists.
Wanted(r) ==
    CASE r.kind = "ReadByFid" -> {f \in {r.fid} : rows[f] \in {"live", "bad_geometry"}}
      [] r.kind = "SequentialScan" -> Present
      [] OTHER -> matching

TableFacts ==
    /\ rows \in [Fids -> RowKinds] /\ matching \subseteq Present
    /\ cancelled \in BOOLEAN

\* What the end of a query finds in call.matched_fids: the answer, or the
\* beginning of it that scan_stop_after() allows, unless the request is at
\* fault or the caller has cancelled.
Found(r, m) ==
    \/ r.cancellable /\ cancelled
    \/ r.input # "good" /\ m = << >>
    \/ r.input = "good" /\ m = Answer(r)
    \/ /\ r.input = "good" /\ m \in Seq(Fids) /\ Begins(m, Answer(r))
       /\ scan_stop_after(r) # 0 /\ Len(m) = scan_stop_after(r)

\* A scan has listed the matches behind it, and has not reached its stop.
CallFinds(k) ==
    k.at # "idle" =>
      /\ DOMAIN k = {"at", "owner", "request", "fid", "matched_fids"}
      /\ k.request \in RequestType /\ k.request.input # "bad_projection"
      /\ Whole /\ k.at = "scan" =>
           /\ k.request.input = "good"
           /\ k.request.kind \in {"SequentialScan", "WhereClause"}
           /\ k.fid \in Fids
           /\ Lists(k.matched_fids, {f \in Wanted(k.request) : f < k.fid})
           /\ scan_stop_after(k.request) # 0 =>
                 Len(k.matched_fids) < scan_stop_after(k.request)
      /\ Whole /\ k.at # "scan" => Found(k.request, k.matched_fids)

\* ResultIsExact, of any result.
ExactResult(x) ==
    x # NoResult /\ Whole =>
      /\ x.status = "Ok" /\ ~x.fallback =>
           /\ x.matched_fids = Window(Answer(x.request), x.request)
           /\ ~WindowExceeds(x.request)
      /\ x.status = "ResultLimitExceeded" => WindowExceeds(x.request)
      /\ x.status = "Cancelled" => cancelled /\ x.request.cancellable

\* The elements of s after position p.
After(s, p) == {s[i] : i \in p + 1 .. Len(s)}

\* What a cursor owes since it was last moved, and what it has still to read.
Due(k) == {f \in ElementsOf(k.answer) : f >= k.anchor}

Ahead(k) ==
    IF k.mode = "Sequential"
    THEN {f \in Present : f >= k.position /\ f < k.feature_limit}
    ELSE After(k.fids, k.position)

\* A cursor stands in its answer: by FID in the table, or by position in the
\* result of its query.
Stands(k) ==
    /\ Lists(k.answer, ElementsOf(k.answer)) /\ ElementsOf(k.answer) \subseteq Fids
    /\ k.anchor \in Nat
    /\ k.mode = "Sequential" =>
         /\ k.position \in Nat /\ k.feature_limit \in Nat
         /\ ElementsOf(k.answer) = {f \in Present : f < k.feature_limit}
    /\ k.mode # "Sequential" =>
         k.fids = k.answer /\ k.position \in 0 .. Len(k.answer)

\* What is ahead of a cursor is the end of what it owes, and it has given the
\* rest.
Gives(k) ==
    /\ k.state = "Ready" =>
         /\ Ahead(k) \subseteq Due(k) /\ Below(Due(k) \ Ahead(k), Due(k))
         /\ Lists(k.yielded, Due(k) \ Ahead(k))
    /\ k.state = "Exhausted" => Lists(k.yielded, Due(k))

CursorFields ==
    {"state", "mode", "generation", "planned", "table", "fids", "position",
     "feature_limit", "cancellable", "answer", "anchor", "yielded"}

CursorGives(k) ==
    k.state \in {"Ready", "Exhausted"} =>
      /\ DOMAIN k = CursorFields
      /\ Whole \/ k.mode = "Sequential" => Stands(k) /\ Gives(k)

AnswerInv ==
    /\ TableFacts
    /\ CallFinds(call)
    /\ ExactResult(result)
    /\ DOMAIN cursor = Cursors /\ \A c \in Cursors : CursorGives(cursor[c])

LEMMA AnswerLists ==
  ASSUME TableFacts, NEW r \in RequestType
  PROVE  /\ Wanted(r) \in SUBSET Fids /\ Wanted(r) \subseteq Nat
         /\ Lists(Answer(r), Wanted(r)) /\ Answer(r) \in Seq(Fids)
  <1>1. matching \subseteq Fids /\ Present \subseteq Fids /\ r.fid \in Fids
    BY DEF TableFacts, Present, RequestType
  <1>2. Wanted(r) \in SUBSET Fids
    BY <1>1 DEF Wanted
  <1>3. Answer(r) = InOrder(Wanted(r))
    BY DEF Answer, Wanted
  <1>4. Lists(Answer(r), Wanted(r))
    BY <1>2, <1>3, InOrderLists
  <1>5. Wanted(r) \subseteq Nat
    BY <1>2, QueryAssumption DEF Fids
  <1>6. Answer(r) \in Seq(Wanted(r))
    BY <1>4 DEF Lists
  <1>. QED
    BY <1>2, <1>4, <1>5, <1>6, SeqMonotonic

LEMMA RequestWidths ==
  ASSUME NEW r \in RequestType
  PROVE  /\ r.offset \in 0 .. MaxSize /\ r.limit \in 0 .. MaxSize
         /\ r.max_result_features \in 0 .. MaxSize
         /\ r.offset \in Nat /\ r.limit \in Nat /\ r.max_result_features \in Nat
         /\ scan_stop_after(r) \in Nat
  <1>1. /\ r.offset \in 0 .. MaxSize /\ r.limit \in 0 .. MaxSize
        /\ r.max_result_features \in 0 .. MaxSize
    BY DEF RequestType
  <1>2. /\ r.offset \in Nat /\ r.limit \in Nat /\ r.max_result_features \in Nat
        /\ MaxSize \in Nat
    BY <1>1, QueryAssumption
  <1>. QED
    BY <1>1, <1>2 DEF scan_stop_after, saturated_add

\* Windows of an ascending list ascend.
LEMMA WindowLists ==
  ASSUME NEW S, S \subseteq Nat, NEW s, Lists(s, S),
         NEW r, r.offset \in Nat, r.limit \in Nat
  PROVE  /\ Lists(Window(s, r), ElementsOf(Window(s, r)))
         /\ ElementsOf(Window(s, r)) \subseteq S
  <1> DEFINE w == Window(s, r)
             n == WindowSize(Len(s), r)
  <1>1. s \in Seq(S) /\ Len(s) \in Nat
        /\ \A i \in 1 .. Len(s) : s[i] \in S /\ s[i] \in Nat
    BY ListTypes
  <1>2. /\ w \in Seq(S) /\ Len(w) = n
        /\ \A i \in 1 .. n : w[i] = s[r.offset + i]
    BY <1>1, ReferenceWindow
  <1>3. n \in Nat /\ \A i \in 1 .. n : r.offset + i \in 1 .. Len(s)
    BY <1>1 DEF WindowSize
  <1>4. \A i, j \in 1 .. n : i < j => w[i] < w[j]
    <2> SUFFICES ASSUME NEW i \in 1 .. n, NEW j \in 1 .. n, i < j
                 PROVE  w[i] < w[j]
      OBVIOUS
    <2>1. r.offset + i \in 1 .. Len(s) /\ r.offset + j \in 1 .. Len(s)
          /\ r.offset + i < r.offset + j
      BY <1>3
    <2>2. s[r.offset + i] < s[r.offset + j]
      BY <2>1 DEF Lists
    <2>. QED
      BY <1>2, <2>2
  <1>5. w \in [1 .. n -> ElementsOf(w)]
    <2>1. w \in [1 .. n -> S]
      BY <1>2, LenProperties
    <2>. QED
      BY <1>2, <2>1 DEF ElementsOf
  <1>6. w \in Seq(ElementsOf(w))
    BY <1>3, <1>5
  <1>7. ElementsOf(w) \subseteq S
    BY <1>2, <1>3, <1>1 DEF ElementsOf
  <1>8. \A f \in ElementsOf(w) : \E i \in 1 .. Len(w) : w[i] = f
    BY DEF ElementsOf
  <1>. QED
    BY <1>2, <1>4, <1>6, <1>7, <1>8 DEF Lists

\* What the end of a query makes of what the query found.
LEMMA FinishIsExact ==
  ASSUME TableFacts, NEW r \in RequestType, NEW m, Found(r, m),
         NEW done, done = apply_request_options(m, r)
  PROVE  /\ done.status = "Ok" =>
              /\ done.matched_fids =
                    IF r.input = "good" THEN Window(Answer(r), r) ELSE << >>
              /\ r.input = "good" => ~WindowExceeds(r)
         /\ done.status = "ResultLimitExceeded" => WindowExceeds(r)
         /\ done.status = "Cancelled" => cancelled /\ r.cancellable
  <1> DEFINE w == apply_result_window(m, r)
             over == r.max_result_features # 0 /\ Len(w) > r.max_result_features
  <1>1. /\ done.status = IF r.cancellable /\ cancelled THEN "Cancelled"
                         ELSE IF over THEN "ResultLimitExceeded"
                         ELSE classify_query_status(r)
        /\ done.status = "Ok" => done.matched_fids = w
    BY DEF apply_request_options
  <1>2. classify_query_status(r) \in {"Ok", "InvalidRequest", "Unsupported"}
    BY DEF classify_query_status
  <1>3. r.offset \in Nat /\ r.limit \in Nat /\ r.max_result_features \in Nat
    BY RequestWidths
  <1>4. Lists(Answer(r), Wanted(r)) /\ Answer(r) \in Seq(Fids)
    BY AnswerLists
  <1>5. CASE r.cancellable /\ cancelled
    BY <1>1, <1>5
  <1>6. CASE r.input # "good" /\ m = << >>
    <2>1. w = << >> /\ ~over
      BY <1>3, <1>6 DEF apply_result_window
    <2>. QED
      BY <1>1, <1>2, <1>6, <2>1
  <1>7. CASE r.input = "good" /\ w = Window(Answer(r), r)
    <2>1. over <=> WindowExceeds(r)
      BY <1>7 DEF WindowExceeds
    <2>. QED
      BY <1>1, <1>2, <1>7, <2>1
  <1>8. CASE r.input = "good" /\ m = Answer(r)
    <2>1. w = Window(Answer(r), r)
      <3> DEFINE s == Answer(r)
      <3>1. s \in Seq(Fids) /\ Len(s) <= Len(s)
            /\ \A i \in 1 .. Len(s) : s[i] = s[i]
        BY <1>4, LenProperties
      <3> HIDE DEF s
      <3>2. apply_result_window(s, r) = Window(s, r)
        BY <1>3, <3>1, FrontHasTheWindow
      <3>. QED
        BY <1>8, <3>2 DEF s
    <2>. QED
      BY <1>7, <1>8, <2>1
  <1>9. CASE /\ r.input = "good" /\ m \in Seq(Fids) /\ Begins(m, Answer(r))
             /\ scan_stop_after(r) # 0 /\ Len(m) = scan_stop_after(r)
    <2> DEFINE s == Answer(r)
               stop == scan_stop_after(r)
    <2>1. s \in Seq(Fids) /\ Len(s) \in Nat /\ stop \in Nat /\ stop <= Len(s)
      BY <1>4, <1>9, LenProperties, RequestWidths DEF Begins
    <2>2. /\ SubSeq(s, 1, stop) \in Seq(Fids)
          /\ Len(SubSeq(s, 1, stop)) = stop
          /\ \A i \in 1 .. stop : SubSeq(s, 1, stop)[i] = s[i]
      <3>1. stop \in 0 .. Len(s)
        BY <2>1
      <3> HIDE DEF s, stop
      <3>. QED
        BY <2>1, <3>1, CutFront
    <2>3. m = SubSeq(s, 1, stop)
      <3>1. \A i \in 1 .. Len(m) : m[i] = SubSeq(s, 1, stop)[i]
        BY <1>9, <2>2 DEF Begins
      <3>. QED
        BY <1>9, <2>2, <3>1, SeqEqual
    <2>4. \/ w = Window(s, r)
          \/ over /\ WindowExceeds(r)
      <3>1. \/ apply_result_window(m, r) = Window(s, r)
            \/ /\ r.max_result_features # 0
               /\ Len(apply_result_window(m, r)) > r.max_result_features
               /\ Len(Window(s, r)) > r.max_result_features
        <4>1. /\ r.offset \in 0 .. MaxSize /\ r.limit \in 0 .. MaxSize
              /\ r.max_result_features \in 0 .. MaxSize
              /\ scan_stop_after(r) # 0 /\ scan_stop_after(r) <= Len(s)
              /\ m = SubSeq(s, 1, scan_stop_after(r))
          BY <1>9, <2>1, <2>3, RequestWidths
        <4> HIDE DEF s, stop
        <4>. QED
          BY <2>1, <4>1, EarlyStopIsExact
      <3>. QED
        BY <3>1 DEF WindowExceeds
    <2>5. CASE w = Window(s, r)
      BY <1>7, <1>9, <2>5
    <2>6. CASE over /\ WindowExceeds(r)
      BY <1>1, <1>2, <1>5, <2>6
    <2>. QED
      BY <2>4, <2>5, <2>6
  <1>. QED
    BY <1>5, <1>6, <1>8, <1>9 DEF Found

\* The table, the answers of requests and what was found stay as they are; a
\* raised flag stays raised.
LEMMA AnswersStay ==
  ASSUME UNCHANGED table, cancelled => cancelled'
  PROVE  /\ \A k : CallFinds(k) => CallFinds(k)'
         /\ \A x : ExactResult(x) => ExactResult(x)'
         /\ \A k : CursorGives(k) => CursorGives(k)'
  <1>1. rows' = rows /\ matching' = matching
    BY DEF table
  <1>2. Present' = Present /\ (Whole' <=> Whole)
    BY <1>1 DEF Present, Whole
  <1>3. \A r : Answer(r)' = Answer(r) /\ Wanted(r)' = Wanted(r)
    BY <1>1, <1>2 DEF Answer, Wanted
  <1>4. \A r : WindowExceeds(r)' <=> WindowExceeds(r)
    BY <1>3 DEF WindowExceeds
  <1>5. \A r, m : Found(r, m) => Found(r, m)'
    BY <1>3 DEF Found
  <1>6. ASSUME NEW k, CallFinds(k) PROVE CallFinds(k)'
    BY <1>2, <1>3, <1>5, <1>6 DEF CallFinds
  <1>7. ASSUME NEW x, ExactResult(x) PROVE ExactResult(x)'
    BY <1>2, <1>3, <1>4, <1>7 DEF ExactResult
  <1>8. ASSUME NEW k, CursorGives(k) PROVE CursorGives(k)'
    <2>1. Ahead(k)' = Ahead(k)
      BY <1>2 DEF Ahead
    <2>2. Stands(k)' <=> Stands(k)
      BY <1>2 DEF Stands
    <2>3. Gives(k)' <=> Gives(k)
      BY <2>1 DEF Gives
    <2>. QED
      BY <1>2, <1>8, <2>2, <2>3 DEF CursorGives
  <1>. QED
    BY <1>6, <1>7, <1>8

\* A step that leaves the table alone: what it must say of the call, of the
\* result and of the cursors that it makes.
LEMMA AnswerInvStep ==
  ASSUME AnswerInv, UNCHANGED table,
         cancelled' \in BOOLEAN, cancelled => cancelled',
         NEW k, call' = k, CallFinds(k),
         NEW x, result' = x, ExactResult(x),
         NEW f, cursor' = f, DOMAIN f = Cursors, \A c \in Cursors : CursorGives(f[c])
  PROVE  AnswerInv'
  <1>1. TableFacts'
    BY DEF AnswerInv, TableFacts, table, Present
  <1>2. CallFinds(k)' /\ ExactResult(x)' /\ \A c \in Cursors : CursorGives(f[c])'
    BY AnswersStay
  <1>3. CallFinds(call)'
    BY <1>2 DEF CallFinds, Found
  <1>4. ExactResult(result)'
    BY <1>2 DEF ExactResult
  <1>5. (\A c \in Cursors : CursorGives(cursor[c]))'
    BY <1>2
  <1>. QED
    BY <1>1, <1>3, <1>4, <1>5 DEF AnswerInv

LEMMA NoResultIsExact == ExactResult(NoResult)
  BY DEF ExactResult

LEMMA NoCallFinds == CallFinds(NoCall)
  BY DEF CallFinds, NoCall

\* Cursors that are gone or have failed owe nothing.
LEMMA IdleGives == CursorGives(NoCursor) /\ CursorGives(FailedCursor)
  BY DEF CursorGives, NoCursor, FailedCursor

\* A step of one cursor.
LEMMA AnswerInvCursor ==
  ASSUME AnswerInv, UNCHANGED <<table, cancelled>>,
         NEW k, call' = k, CallFinds(k),
         NEW x, result' = x, ExactResult(x),
         NEW c \in Cursors, NEW new, CursorGives(new),
         cursor' = [cursor EXCEPT ![c] = new]
  PROVE  AnswerInv'
  <1>1. PICK f : f = [cursor EXCEPT ![c] = new]
    OBVIOUS
  <1>2. DOMAIN f = Cursors /\ \A d \in Cursors : CursorGives(f[d])
    BY <1>1 DEF AnswerInv
  <1>3. cancelled' \in BOOLEAN /\ (cancelled => cancelled')
    BY DEF AnswerInv, TableFacts
  <1>. QED
    BY <1>1, <1>2, <1>3, AnswerInvStep

\* What StartCall begins with.
LEMMA StartFinds ==
  ASSUME TableFacts, NEW r \in RequestType, r.input # "bad_projection",
         NEW owner, NEW k,
         k = [at |-> IF Scans(r) THEN "scan" ELSE "finish", owner |-> owner,
              request |-> r, fid |-> 0,
              matched_fids |-> IF Scans(r) \/ r.input # "good"
                               THEN << >> ELSE Answer(r)]
  PROVE  CallFinds(k)
  <1>1. CASE Scans(r)
    <2>1. /\ k.at = "scan" /\ k.request = r /\ k.fid = 0 /\ k.matched_fids = << >>
      BY <1>1
    <2>2. r.input = "good" /\ r.kind \in {"SequentialScan", "WhereClause"}
      BY <1>1 DEF Scans, RequestType
    <2>3. {f \in Wanted(r) : f < 0} = {}
      BY AnswerLists
    <2>4. Lists(<< >>, {f \in Wanted(r) : f < 0})
      BY <2>3, EmptySeq DEF Lists
    <2>5. scan_stop_after(r) # 0 => 0 < scan_stop_after(r)
      BY RequestWidths
    <2>6. 0 \in Fids
      BY QueryAssumption DEF Fids
    <2>7. Len(<< >>) = 0
      BY EmptySeq
    <2>. QED
      BY <2>1, <2>2, <2>4, <2>5, <2>6, <2>7 DEF CallFinds
  <1>2. CASE ~Scans(r)
    <2>1. /\ k.at = "finish" /\ k.request = r
          /\ k.matched_fids = IF r.input # "good" THEN << >> ELSE Answer(r)
      BY <1>2
    <2>. QED
      BY <2>1 DEF CallFinds, Found
  <1>. QED
    BY <1>1, <1>2

\* One slot of a scan: the call k becomes n.
LEMMA ScanFinds ==
  ASSUME AnswerInv, ScanRow, NEW k, k = call, NEW n, n = call'
  PROVE  CallFinds(n)
  <1> DEFINE r    == k.request
             f    == k.fid
             m    == k.matched_fids
             hit  == r.kind = "SequentialScan" \/ f \in matching
             more == IF hit THEN Append(m, f) ELSE m
             stop == \/ r.cancellable /\ cancelled
                     \/ scan_stop_after(r) # 0 /\ Len(more) >= scan_stop_after(r)
             last == f = MaxFid
             W    == Wanted(r)
  <1>1. k.at = "scan"
        /\ n = CASE rows[f] = "truncated" -> [k EXCEPT !.at = "finish"]
                 [] rows[f] \in {"deleted", "beyond"} ->
                      IF last THEN [k EXCEPT !.at = "finish"]
                      ELSE [k EXCEPT !.fid = f + 1]
                 [] OTHER ->
                      IF stop \/ last
                      THEN [k EXCEPT !.at = "finish", !.matched_fids = more]
                      ELSE [k EXCEPT !.fid = f + 1, !.matched_fids = more]
    BY DEF ScanRow
  <1>2. TableFacts /\ r \in RequestType /\ r.input # "bad_projection"
    BY <1>1 DEF AnswerInv, CallFinds
  <1>3. DOMAIN k = {"at", "owner", "request", "fid", "matched_fids"}
    BY <1>1 DEF AnswerInv, CallFinds
  <1>4. CASE ~Whole
    <2>1. n.request = r /\ DOMAIN n = DOMAIN k
      BY <1>1
    <2>. QED
      BY <1>2, <1>3, <1>4, <2>1 DEF CallFinds
  <1>5. CASE Whole
    <2>1. /\ r.input = "good" /\ r.kind \in {"SequentialScan", "WhereClause"}
          /\ f \in Fids /\ Lists(m, {g \in W : g < f})
          /\ scan_stop_after(r) # 0 => Len(m) < scan_stop_after(r)
      BY <1>1, <1>5 DEF AnswerInv, CallFinds
    <2>2. /\ W \subseteq Nat /\ W \subseteq Fids /\ Lists(Answer(r), W)
          /\ scan_stop_after(r) \in Nat /\ f \in 0 .. MaxFid /\ MaxFid \in Nat
      BY <1>2, <2>1, AnswerLists, RequestWidths, QueryAssumption DEF Fids
    <2>3. rows[f] \in {"live", "deleted", "bad_geometry"}
      BY <1>2, <1>5, <2>1 DEF TableFacts, RowKinds, Whole
    <2>4. rows[f] # "deleted" => (f \in W <=> hit)
      BY <1>2, <2>1 DEF Wanted, Present, TableFacts
    <2>5. rows[f] = "deleted" => f \notin W
      BY <1>2, <2>1 DEF Wanted, Present, TableFacts
    <2>6. f = MaxFid => {g \in W : g < f + 1} = W
      BY <2>2 DEF Fids
    <2>7. Len(m) \in Nat
      BY <2>1, <2>2 DEF Lists
    <2>8. CASE rows[f] = "deleted"
      <3>1. {g \in W : g < f + 1} = {g \in W : g < f}
        BY <2>2, <2>5, <2>8
      <3>2. CASE last
        <4>1. Lists(m, W)
          BY <2>1, <2>6, <3>1, <3>2
        <4>2. m = Answer(r)
          BY <2>2, <4>1, ListsUnique
        <4>3. n = [k EXCEPT !.at = "finish"]
          BY <1>1, <2>8, <3>2
        <4>4. DOMAIN n = DOMAIN k /\ n.at = "finish" /\ n.request = r
              /\ n.matched_fids = m
          BY <1>3, <4>3
        <4>. QED
          BY <1>2, <1>3, <2>1, <4>2, <4>4 DEF CallFinds, Found
      <3>3. CASE ~last
        <4>1. n = [k EXCEPT !.fid = f + 1]
          BY <1>1, <2>8, <3>3
        <4>2. DOMAIN n = DOMAIN k /\ n.at = "scan" /\ n.request = r
              /\ n.matched_fids = m /\ n.fid = f + 1
          BY <1>1, <1>3, <4>1
        <4>3. f + 1 \in Fids
          BY <2>2, <3>3 DEF Fids
        <4>4. Lists(m, {g \in W : g < f + 1})
          BY <2>1, <3>1
        <4>. QED
          BY <1>2, <1>3, <2>1, <4>2, <4>3, <4>4 DEF CallFinds
      <3>. QED
        BY <3>2, <3>3
    <2>9. CASE rows[f] # "deleted"
      <3>1. /\ Lists(more, {g \in W : g < f + 1})
            /\ Len(more) \in Nat /\ Len(more) <= Len(m) + 1
        <4>1. f \in W <=> hit
          BY <2>4, <2>9
        <4>2. /\ f \in W => /\ Lists(Append(m, f), {g \in W : g < f + 1})
                            /\ Len(Append(m, f)) = Len(m) + 1
              /\ f \notin W => Lists(m, {g \in W : g < f + 1})
          <5>1. W \subseteq Nat /\ f \in Nat /\ Lists(m, {g \in W : g < f})
            BY <2>1, <2>2
          <5> HIDE DEF W, f, m
          <5>. QED
            BY <5>1, ListsAfter
        <4>3. CASE hit
          <5>1. more = Append(m, f)
            BY <4>3
          <5>2. Len(Append(m, f)) \in Nat /\ Len(Append(m, f)) <= Len(m) + 1
            BY <2>7, <4>1, <4>2, <4>3
          <5>. QED
            BY <4>1, <4>2, <4>3, <5>1, <5>2
        <4>4. CASE ~hit
          <5>1. more = m
            BY <4>4
          <5>2. Len(m) <= Len(m) + 1
            BY <2>7
          <5>. QED
            BY <2>7, <4>1, <4>2, <4>4, <5>1, <5>2
        <4>. QED
          BY <4>3, <4>4
      <3>2. CASE stop \/ last
        <4>1. n = [k EXCEPT !.at = "finish", !.matched_fids = more]
          BY <1>1, <2>3, <2>9, <3>2
        <4>2. DOMAIN n = DOMAIN k /\ n.at = "finish" /\ n.request = r
              /\ n.matched_fids = more
          BY <1>3, <4>1
        <4>3. Found(r, more)
          <5>1. CASE r.cancellable /\ cancelled
            BY <5>1 DEF Found
          <5>2. CASE scan_stop_after(r) # 0 /\ Len(more) >= scan_stop_after(r)
            <6>1. Len(more) = scan_stop_after(r)
              BY <2>1, <2>2, <2>7, <3>1, <5>2
            <6>2. Below({g \in W : g < f + 1}, W)
              BY <2>2 DEF Below
            <6>3. Begins(more, Answer(r))
              BY <2>2, <3>1, <6>2, ListsFront
            <6>4. more \in Seq(Fids)
              <7>1. more \in Seq({g \in W : g < f + 1})
                    /\ {g \in W : g < f + 1} \subseteq Fids
                BY <2>2, <3>1 DEF Lists
              <7>. QED
                BY <7>1, SeqMonotonic
            <6>. QED
              BY <2>1, <5>2, <6>1, <6>3, <6>4 DEF Found
          <5>3. CASE last
            <6>1. Lists(more, W)
              BY <2>6, <3>1, <5>3
            <6>2. more = Answer(r)
              BY <2>2, <6>1, ListsUnique
            <6>. QED
              BY <2>1, <6>2 DEF Found
          <5>. QED
            BY <3>2, <5>1, <5>2, <5>3
        <4>. QED
          BY <1>2, <1>3, <4>2, <4>3 DEF CallFinds
      <3>3. CASE ~(stop \/ last)
        <4>1. n = [k EXCEPT !.fid = f + 1, !.matched_fids = more]
          BY <1>1, <2>3, <2>9, <3>3
        <4>2. DOMAIN n = DOMAIN k /\ n.at = "scan" /\ n.request = r
              /\ n.matched_fids = more /\ n.fid = f + 1
          BY <1>1, <1>3, <4>1
        <4>3. f + 1 \in Fids
          BY <2>2, <3>3 DEF Fids
        <4>4. scan_stop_after(r) # 0 => Len(more) < scan_stop_after(r)
          BY <2>2, <3>1, <3>3
        <4>. QED
          BY <1>2, <1>3, <2>1, <3>1, <4>2, <4>3, <4>4 DEF CallFinds
      <3>. QED
        BY <3>2, <3>3
    <2>. QED
      BY <2>8, <2>9
  <1>. QED
    BY <1>4, <1>5

LEMMA AnswerInvInit == Init => AnswerInv
  <1> SUFFICES ASSUME Init PROVE AnswerInv
    OBVIOUS
  <1>1. TableFacts
    BY QueryAssumption DEF Init, TableFacts
  <1>2. call = NoCall /\ result = NoResult
    BY DEF Init
  <1>3. CallFinds(call) /\ ExactResult(result)
    BY <1>2, NoCallFinds, NoResultIsExact
  <1>4. DOMAIN cursor = Cursors /\ \A c \in Cursors : cursor[c] = NoCursor
    BY DEF Init
  <1>5. \A c \in Cursors : CursorGives(cursor[c])
    BY <1>4, IdleGives
  <1>. QED
    BY <1>1, <1>3, <1>4, <1>5 DEF AnswerInv

\* The end of query() publishes the exact result.
LEMMA FinishQueryAnswers ==
  ASSUME AnswerInv, FinishQuery
  PROVE  AnswerInv'
  <1> DEFINE r == call.request
             m == call.matched_fids
  <1>1. PICK x : x = apply_request_options(m, r)
    OBVIOUS
  <1>2. /\ result' = x /\ call' = NoCall /\ cursor' = cursor
        /\ UNCHANGED table /\ cancelled' = cancelled /\ call.at = "finish"
    BY <1>1 DEF FinishQuery
  <1>3. TableFacts /\ r \in RequestType /\ (Whole => Found(r, m))
    BY <1>2 DEF AnswerInv, CallFinds
  <1>4. /\ x.request = r
        /\ ~x.fallback => r.input = "good"
    BY <1>1 DEF apply_request_options
  <1>5. ExactResult(x)
    <2>1. CASE Whole
      BY <1>1, <1>3, <1>4, <2>1, FinishIsExact DEF ExactResult
    <2>2. CASE ~Whole
      BY <2>2 DEF ExactResult
    <2>. QED
      BY <2>1, <2>2
  <1>6. PICK f : f = cursor
    OBVIOUS
  <1>7. PICK k : k = NoCall
    OBVIOUS
  <1>8. CallFinds(k)
    BY <1>7, NoCallFinds
  <1>9. DOMAIN f = Cursors /\ \A c \in Cursors : CursorGives(f[c])
    BY <1>6 DEF AnswerInv
  <1>10. cancelled' \in BOOLEAN /\ (cancelled => cancelled')
    BY <1>2 DEF AnswerInv, TableFacts
  <1>11. call' = k /\ cursor' = f
    BY <1>2, <1>6, <1>7
  <1>. QED
    BY <1>2, <1>5, <1>8, <1>9, <1>10, <1>11, AnswerInvStep

\* Steps that leave the cursors alone.
LEMMA QuietAnswers ==
  ASSUME AnswerInv, UNCHANGED <<table, cursor>>,
         cancelled' \in BOOLEAN, cancelled => cancelled',
         NEW k, call' = k, CallFinds(k),
         NEW x, result' = x, ExactResult(x)
  PROVE  AnswerInv'
  <1>1. PICK f : f = cursor
    OBVIOUS
  <1>2. cursor' = f /\ DOMAIN f = Cursors /\ \A c \in Cursors : CursorGives(f[c])
    BY <1>1 DEF AnswerInv
  <1>. QED
    BY <1>2, AnswerInvStep

\* A refusal says neither Ok nor anything about a limit.
LEMMA RefusalIsExact ==
  ASSUME NEW status \in {"CursorActive", "EngineNotOpen", "InvalidRequest"}
  PROVE  ExactResult(Refused(status))
  BY DEF ExactResult, Refused

LEMMA QueryRefusedAnswers ==
  ASSUME AnswerInv, NEW r, QueryRefused(r)
  PROVE  AnswerInv'
  <1>1. PICK k : k = call
    OBVIOUS
  <1>2. PICK status \in {"CursorActive", "EngineNotOpen", "InvalidRequest"} :
          result' = Refused(status)
    BY DEF QueryRefused
  <1>3. PICK x : x = Refused(status)
    OBVIOUS
  <1>4. call' = k /\ CallFinds(k) /\ result' = x /\ ExactResult(x)
        /\ UNCHANGED <<table, cursor>> /\ cancelled' = cancelled
    BY <1>1, <1>2, <1>3, RefusalIsExact DEF QueryRefused, AnswerInv
  <1>5. cancelled' \in BOOLEAN /\ (cancelled => cancelled')
    BY <1>4 DEF AnswerInv, TableFacts
  <1>. QED
    BY <1>4, <1>5, QuietAnswers

LEMMA ListsElements ==
  ASSUME NEW S, S \subseteq Nat, NEW s, Lists(s, S)
  PROVE  ElementsOf(s) = S
  <1>1. \A i \in 1 .. Len(s) : s[i] \in S
    BY ListTypes
  <1>2. \A f \in S : \E i \in 1 .. Len(s) : s[i] = f
    BY DEF Lists
  <1>. QED
    BY <1>1, <1>2 DEF ElementsOf

LEMMA NothingListed == Lists(<< >>, {}) /\ ElementsOf(<< >>) = {}
  <1>1. << >> \in Seq({}) /\ Len(<< >>) = 0
    BY EmptySeq
  <1>. QED
    BY <1>1 DEF Lists, ElementsOf

\* A cursor that has all its answer ahead owes nothing yet.
LEMMA FreshGives ==
  ASSUME NEW k, DOMAIN k = CursorFields, k.state \in {"Ready", "Exhausted"},
         k.anchor = 0, k.yielded = << >>,
         Whole \/ k.mode = "Sequential" =>
           /\ Stands(k) /\ Ahead(k) = ElementsOf(k.answer)
           /\ k.state = "Exhausted" => ElementsOf(k.answer) = {}
  PROVE  CursorGives(k)
  <1> SUFFICES ASSUME Stands(k), Ahead(k) = ElementsOf(k.answer),
                      k.state = "Exhausted" => ElementsOf(k.answer) = {}
               PROVE  Gives(k)
    BY DEF CursorGives
  <1>1. ElementsOf(k.answer) \subseteq Nat
    BY QueryAssumption DEF Stands, Fids
  <1>2. Due(k) = ElementsOf(k.answer)
    BY <1>1 DEF Due
  <1>3. Due(k) \ Ahead(k) = {}
    BY <1>2
  <1>4. Below({}, Due(k))
    BY DEF Below
  <1>. QED
    BY <1>2, <1>3, <1>4, NothingListed DEF Gives

\* A new cursor over the table.
LEMMA SequentialGives ==
  ASSUME TableFacts, NEW r \in RequestType, r.kind = "SequentialScan",
         NEW g, NEW k,
         \/ /\ Present = {}
            /\ k = NewCursor("Sequential", << >>, 0, << >>, FALSE, 0)
         \/ /\ g # 0
            /\ k = NewCursor("Sequential", << >>, MaxFid + 1, Answer(r), FALSE, g)
  PROVE  CursorGives(k)
  <1>1. /\ DOMAIN k = CursorFields /\ k.anchor = 0 /\ k.yielded = << >>
        /\ k.mode = "Sequential" /\ k.position = 0
    BY DEF NewCursor, CursorFields
  <1>2. Present \subseteq 0 .. MaxFid /\ MaxFid \in Nat
    BY QueryAssumption DEF Present, Fids
  <1>3. CASE /\ Present = {}
             /\ k = NewCursor("Sequential", << >>, 0, << >>, FALSE, 0)
    <2>1. k.state = "Exhausted" /\ k.answer = << >> /\ k.feature_limit = 0
      BY <1>3 DEF NewCursor
    <2>2. ElementsOf(k.answer) = {} /\ Lists(k.answer, ElementsOf(k.answer))
      BY <2>1, NothingListed
    <2>3. Ahead(k) = {}
      <3>1. Ahead(k) = {f \in Present : f >= k.position /\ f < k.feature_limit}
        BY <1>1 DEF Ahead
      <3>. QED
        BY <1>3, <3>1
    <2>4. Stands(k)
      <3>1. {f \in Present : f < k.feature_limit} = {}
        BY <1>3
      <3>2. k.anchor \in Nat /\ k.position \in Nat /\ k.feature_limit \in Nat
        BY <1>1, <2>1
      <3>. QED
        BY <1>1, <2>2, <3>1, <3>2 DEF Stands
    <2>. QED
      BY <1>1, <2>1, <2>2, <2>3, <2>4, FreshGives
  <1>4. CASE /\ g # 0
             /\ k = NewCursor("Sequential", << >>, MaxFid + 1, Answer(r), FALSE, g)
    <2>1. k.state = "Ready" /\ k.answer = Answer(r) /\ k.feature_limit = MaxFid + 1
      BY <1>4 DEF NewCursor
    <2>2. Wanted(r) = Present
      BY DEF Wanted
    <2>3. ElementsOf(k.answer) = Present /\ Lists(k.answer, ElementsOf(k.answer))
      BY <2>1, <2>2, AnswerLists, ListsElements
    <2>4. Present = {f \in Present : f < k.feature_limit} /\ Present \subseteq Fids
      <3>1. \A f \in 0 .. MaxFid : f < MaxFid + 1
        BY <1>2
      <3>2. \A f \in Present : f < k.feature_limit
        BY <1>2, <2>1, <3>1
      <3>. QED
        BY <1>2, <3>2 DEF Fids
    <2>5. Ahead(k) = Present
      <3>1. Ahead(k) = {f \in Present : f >= k.position /\ f < k.feature_limit}
        BY <1>1 DEF Ahead
      <3>2. \A f \in 0 .. MaxFid : f >= 0 /\ f < MaxFid + 1
        BY <1>2
      <3>3. \A f \in Present : f >= k.position /\ f < k.feature_limit
        BY <1>1, <1>2, <2>1, <3>2
      <3>. QED
        BY <3>1, <3>3
    <2>6. Stands(k)
      BY <1>1, <1>2, <2>1, <2>3, <2>4 DEF Stands
    <2>. QED
      BY <1>1, <2>1, <2>3, <2>5, <2>6, FreshGives
  <1>. QED
    BY <1>3, <1>4

\* A new cursor over the result of a query.
LEMMA CandidateGives ==
  ASSUME TableFacts, NEW w, NEW a, NEW cancellable, NEW g, NEW k,
         k = NewCursor("CandidateFids", w, 0, a, cancellable, g),
         Whole => a = w /\ Lists(w, ElementsOf(w)) /\ ElementsOf(w) \subseteq Fids,
         g = 0 => w = << >>
  PROVE  CursorGives(k)
  <1>1. /\ DOMAIN k = CursorFields /\ k.anchor = 0 /\ k.yielded = << >>
        /\ k.mode = "CandidateFids" /\ k.position = 0
        /\ k.state = IF g = 0 THEN "Exhausted" ELSE "Ready"
        /\ k.fids = w /\ k.answer = a
    BY DEF NewCursor, CursorFields
  <1>2. CASE Whole
    <2>1. k.fids = k.answer /\ Lists(k.answer, ElementsOf(k.answer))
          /\ ElementsOf(k.answer) \subseteq Fids
      BY <1>1, <1>2
    <2>2. Len(k.answer) \in Nat
      BY <2>1, LenProperties DEF Lists
    <2>3. Ahead(k) = ElementsOf(k.answer)
      BY <1>1, <2>1 DEF Ahead, After, ElementsOf
    <2>4. Stands(k)
      BY <1>1, <2>1, <2>2 DEF Stands
    <2>5. k.state = "Exhausted" => ElementsOf(k.answer) = {}
      BY <1>1, <1>2, NothingListed
    <2>. QED
      BY <1>1, <2>3, <2>4, <2>5, FreshGives
  <1>3. CASE ~Whole
    BY <1>1, <1>3 DEF CursorGives
  <1>. QED
    BY <1>2, <1>3

LEMMA StartAnswers ==
  ASSUME AnswerInv, NEW r \in RequestType, NEW owner,
         r.input # "bad_projection", StartCall(owner, r),
         result' = NoResult, UNCHANGED <<table, cancelled, cursor>>
  PROVE  AnswerInv'
  <1>1. PICK k : k = [at |-> IF Scans(r) THEN "scan" ELSE "finish",
                      owner |-> owner, request |-> r, fid |-> 0,
                      matched_fids |-> IF Scans(r) \/ r.input # "good"
                                       THEN << >> ELSE Answer(r)]
    OBVIOUS
  <1>2. TableFacts
    BY DEF AnswerInv
  <1>3. call' = k
    BY <1>1 DEF StartCall
  <1>4. CallFinds(k)
    BY <1>1, <1>2, StartFinds
  <1>5. PICK x : x = NoResult
    OBVIOUS
  <1>6. result' = x /\ ExactResult(x)
    BY <1>5, NoResultIsExact
  <1>7. cancelled' \in BOOLEAN /\ (cancelled => cancelled')
    BY <1>2 DEF TableFacts
  <1>. QED
    BY <1>3, <1>4, <1>6, <1>7, QuietAnswers

\* Steps that leave the call, the result and the cursors alone, or clear the
\* result.
LEMMA IdleAnswers ==
  ASSUME AnswerInv, UNCHANGED <<table, cursor, call>>,
         cancelled' \in BOOLEAN, cancelled => cancelled',
         result' \in {result, NoResult}
  PROVE  AnswerInv'
  <1>1. PICK k : k = call
    OBVIOUS
  <1>2. PICK x \in {result, NoResult} : result' = x
    OBVIOUS
  <1>3. call' = k /\ CallFinds(k) /\ ExactResult(x)
    BY <1>1, <1>2, NoResultIsExact DEF AnswerInv
  <1>. QED
    BY <1>2, <1>3, QuietAnswers

LEMMA ScanAnswers ==
  ASSUME AnswerInv, ScanRow
  PROVE  AnswerInv'
  <1>1. PICK k : k = call
    OBVIOUS
  <1>2. PICK n : n = call'
    OBVIOUS
  <1>3. CallFinds(n)
    BY <1>1, <1>2, ScanFinds
  <1>4. PICK x : x = result
    OBVIOUS
  <1>5. UNCHANGED <<table, cursor>> /\ cancelled' = cancelled /\ result' = x
        /\ ExactResult(x)
    BY <1>4 DEF ScanRow, AnswerInv
  <1>6. cancelled' \in BOOLEAN /\ (cancelled => cancelled')
    BY <1>5 DEF AnswerInv, TableFacts
  <1>. QED
    BY <1>2, <1>3, <1>5, <1>6, QuietAnswers

\* A step of one cursor that calls no query.
LEMMA CursorAnswers ==
  ASSUME AnswerInv, UNCHANGED <<table, cancelled, call>>, result' = NoResult,
         NEW c \in Cursors, NEW new, CursorGives(new),
         cursor' = [cursor EXCEPT ![c] = new]
  PROVE  AnswerInv'
  <1>1. PICK k : k = call
    OBVIOUS
  <1>2. PICK x : x = NoResult
    OBVIOUS
  <1>3. call' = k /\ CallFinds(k) /\ result' = x /\ ExactResult(x)
    BY <1>1, <1>2, NoResultIsExact DEF AnswerInv
  <1>. QED
    BY <1>3, AnswerInvCursor

LEMMA FailAnswers ==
  ASSUME AnswerInv, UNCHANGED <<table, cancelled, call>>, result' = NoResult,
         NEW c \in Cursors, NEW gone \in {NoCursor, FailedCursor},
         cursor' = [cursor EXCEPT ![c] = gone]
  PROVE  AnswerInv'
  <1>1. PICK new : new = gone
    OBVIOUS
  <1>. QED
    BY <1>1, IdleGives, CursorAnswers

LEMMA OpenSequentialAnswers ==
  ASSUME AnswerInv, NEW c \in Cursors, NEW r \in RequestType,
         OpenSequentialCursor(c, r)
  PROVE  AnswerInv'
  <1>1. TableFacts /\ r.kind = "SequentialScan"
    BY DEF AnswerInv, OpenSequentialCursor, Materialized
  <1>2. UNCHANGED <<table, cancelled, call>> /\ result' = NoResult
    BY DEF OpenSequentialCursor
  <1>3. CASE Present = {}
    <2>1. PICK new : new = NewCursor("Sequential", << >>, 0, << >>, FALSE, 0)
      OBVIOUS
    <2>2. cursor' = [cursor EXCEPT ![c] = new]
      BY <1>3, <2>1 DEF OpenSequentialCursor
    <2>3. CursorGives(new)
      BY <1>1, <1>3, <2>1, SequentialGives
    <2>. QED
      BY <1>2, <2>2, <2>3, CursorAnswers
  <1>4. CASE Present # {}
    <2>1. PICK new : new = NewCursor("Sequential", << >>, MaxFid + 1, Answer(r),
                                     FALSE, NextGeneration)
      OBVIOUS
    <2>2. cursor' = [cursor EXCEPT ![c] = new]
      BY <1>4, <2>1 DEF OpenSequentialCursor
    <2>3. CursorGives(new)
      BY <1>1, <2>1, NextGenerationNonZero, SequentialGives
    <2>. QED
      BY <1>2, <2>2, <2>3, CursorAnswers
  <1>. QED
    BY <1>3, <1>4

\* A cursor over the result of its query.
LEMMA FinishCursorAnswers ==
  ASSUME AnswerInv, NEW c \in Cursors, FinishCursor(c)
  PROVE  AnswerInv'
  <1> DEFINE r == call.request
             m == call.matched_fids
             a == IF r.input = "good" THEN Window(Answer(r), r) ELSE << >>
  <1>1. PICK done : done = apply_request_options(m, r)
    OBVIOUS
  <1>2. call' = NoCall /\ UNCHANGED <<table, cancelled, result>>
        /\ call.at = "finish"
    BY DEF FinishCursor
  <1>3. TableFacts /\ r \in RequestType /\ (Whole => Found(r, m))
    BY <1>2 DEF AnswerInv, CallFinds
  <1>4. Lists(a, ElementsOf(a)) /\ ElementsOf(a) \subseteq Fids
    <2>1. CASE r.input = "good"
      <3>1. /\ Lists(Answer(r), Wanted(r)) /\ Wanted(r) \subseteq Nat
            /\ Wanted(r) \subseteq Fids /\ r.offset \in Nat /\ r.limit \in Nat
        BY <1>3, AnswerLists, RequestWidths
      <3>2. /\ Lists(Window(Answer(r), r), ElementsOf(Window(Answer(r), r)))
            /\ ElementsOf(Window(Answer(r), r)) \subseteq Wanted(r)
        BY <3>1, WindowLists
      <3>. QED
        BY <2>1, <3>1, <3>2
    <2>2. CASE r.input # "good"
      BY <2>2, NothingListed
    <2>. QED
      BY <2>1, <2>2
  <1>5. Whole /\ done.status = "Ok" => done.matched_fids = a
    BY <1>1, <1>3, FinishIsExact
  <1>6. \E new : cursor' = [cursor EXCEPT ![c] = new] /\ CursorGives(new)
    <2>1. CASE done.status # "Ok"
      BY <1>1, <2>1, IdleGives DEF FinishCursor
    <2>2. CASE done.status = "Ok" /\ done.matched_fids = << >>
      <3>1. PICK new : new = NewCursor("CandidateFids", done.matched_fids, 0, a,
                                       FALSE, 0)
        OBVIOUS
      <3>2. cursor' = [cursor EXCEPT ![c] = new]
        BY <1>1, <2>2, <3>1 DEF FinishCursor
      <3>3. CursorGives(new)
        <4> HIDE DEF a
        <4>. QED
          BY <1>3, <1>4, <1>5, <2>2, <3>1, CandidateGives
      <3>. QED
        BY <3>2, <3>3
    <2>3. CASE done.status = "Ok" /\ done.matched_fids # << >>
      <3>1. PICK new : new = NewCursor("CandidateFids", done.matched_fids, 0, a,
                                       r.cancellable, NextGeneration)
        OBVIOUS
      <3>2. cursor' = [cursor EXCEPT ![c] = new]
        BY <1>1, <2>3, <3>1 DEF FinishCursor
      <3>3. CursorGives(new)
        <4> HIDE DEF a
        <4>. QED
          BY <1>3, <1>4, <1>5, <2>3, <3>1, NextGenerationNonZero, CandidateGives
      <3>. QED
        BY <3>2, <3>3
    <2>. QED
      BY <2>1, <2>2, <2>3
  <1>7. PICK new : cursor' = [cursor EXCEPT ![c] = new] /\ CursorGives(new)
    BY <1>6
  <1>8. PICK k : k = NoCall
    OBVIOUS
  <1>9. PICK x : x = result
    OBVIOUS
  <1>10. call' = k /\ CallFinds(k) /\ result' = x /\ ExactResult(x)
    BY <1>2, <1>8, <1>9, NoCallFinds DEF AnswerInv
  <1>. QED
    BY <1>2, <1>7, <1>10, AnswerInvCursor

LEMMA LeastIs ==
  ASSUME NEW T, T \subseteq Nat, T # {}
  PROVE  Least(T) \in T /\ \A y \in T : Least(T) <= y
  <1>1. \E x \in T : \A y \in T : x <= y
    BY LeastNumber
  <1>. QED
    BY <1>1 DEF Least

\* Giving the least of what is ahead.
LEMMA GivesOne ==
  ASSUME NEW D, D \subseteq Nat, NEW A, A \subseteq D, Below(D \ A, D),
         NEW y, Lists(y, D \ A), NEW f \in A, \A g \in A : f <= g,
         NEW B, B = A \ {f}
  PROVE  B \subseteq D /\ Below(D \ B, D) /\ Lists(Append(y, f), D \ B)
  <1>1. D \ B = (D \ A) \cup {f}
    OBVIOUS
  <1>2. \A x \in D \ A : x < f
    BY DEF Below
  <1>3. Lists(Append(y, f), (D \ A) \cup {f})
    BY <1>2, ListsAppend
  <1>4. ASSUME NEW x \in D \ B, NEW z \in D \ (D \ B) PROVE x < z
    <2>1. z \in A /\ z # f /\ f <= z /\ z \in Nat /\ f \in Nat /\ x \in Nat
      OBVIOUS
    <2>2. CASE x = f
      BY <2>1, <2>2
    <2>3. CASE x \in D \ A
      BY <1>2, <2>1, <2>3
    <2>. QED
      BY <2>2, <2>3
  <1>. QED
    BY <1>1, <1>3, <1>4 DEF Below

\* Where the least of what is ahead stands in the result of a query.
LEMMA CandidateNext ==
  ASSUME NEW s, NEW S, S \subseteq Nat, Lists(s, S), NEW p \in 0 .. Len(s),
         After(s, p) # {}
  PROVE  /\ p + 1 \in 0 .. Len(s) /\ Least(After(s, p)) = s[p + 1]
         /\ After(s, p) \ {Least(After(s, p))} = After(s, p + 1)
  <1> DEFINE A == After(s, p)
  <1>0. A = {s[i] : i \in p + 1 .. Len(s)} /\ A # {}
    BY DEF After
  <1> HIDE DEF A
  <1>1. Len(s) \in Nat /\ \A i \in 1 .. Len(s) : s[i] \in Nat
    BY ListTypes
  <1>2. \A i, j \in 1 .. Len(s) : i < j => s[i] < s[j]
    BY DEF Lists
  <1>3. p \in Nat /\ p + 1 \in 1 .. Len(s) /\ s[p + 1] \in A
    BY <1>0, <1>1
  <1>4. A \subseteq Nat /\ A # {}
    BY <1>0, <1>1
  <1>5. Least(A) \in A /\ Least(A) <= s[p + 1]
    BY <1>3, <1>4, LeastIs
  <1>6. PICK i \in p + 1 .. Len(s) : Least(A) = s[i]
    BY <1>0, <1>5
  <1>7. i = p + 1
    <2>1. i \in 1 .. Len(s) /\ s[i] \in Nat /\ s[p + 1] \in Nat
      BY <1>1, <1>3
    <2>2. ~(p + 1 < i)
      BY <1>2, <1>3, <1>5, <1>6, <2>1
    <2>. QED
      BY <1>1, <1>3, <2>1, <2>2
  <1>8. \A j \in p + 1 + 1 .. Len(s) : s[j] # s[p + 1]
    <2>1. ASSUME NEW j \in p + 1 + 1 .. Len(s) PROVE s[j] # s[p + 1]
      <3>1. j \in 1 .. Len(s) /\ p + 1 < j
        BY <1>1, <1>3
      <3>2. s[p + 1] < s[j] /\ s[p + 1] \in Nat /\ s[j] \in Nat
        BY <1>1, <1>2, <1>3, <3>1
      <3>. QED
        BY <3>2
    <2>. QED
      BY <2>1
  <1>9. A \ {s[p + 1]} = {s[j] : j \in p + 1 + 1 .. Len(s)}
    <2>1. \A j \in p + 1 .. Len(s) : j = p + 1 \/ j \in p + 1 + 1 .. Len(s)
      BY <1>1, <1>3
    <2>2. \A j \in p + 1 + 1 .. Len(s) : j \in p + 1 .. Len(s)
      BY <1>1, <1>3
    <2>. QED
      BY <1>0, <1>8, <2>1, <2>2
  <1>10. Least(A) = s[p + 1] /\ p + 1 \in 0 .. Len(s)
    BY <1>1, <1>3, <1>6, <1>7
  <1>. QED
    BY <1>9, <1>10 DEF A, After

\* next() on the cursor k gives the least FID ahead, and k becomes new.
LEMMA ReadGives ==
  ASSUME NEW k, CursorGives(k), k.state = "Ready", Ahead(k) # {},
         NEW f, f = Least(Ahead(k)), NEW new,
         new = [k EXCEPT !.yielded = Append(k.yielded, f),
                         !.position = IF k.mode = "Sequential"
                                      THEN f + 1 ELSE k.position + 1]
  PROVE  CursorGives(new)
  <1>1. DOMAIN k = CursorFields
    BY DEF CursorGives
  <1>2. /\ DOMAIN new = CursorFields /\ new.state = "Ready" /\ new.mode = k.mode
        /\ new.fids = k.fids /\ new.answer = k.answer /\ new.anchor = k.anchor
        /\ new.feature_limit = k.feature_limit
        /\ new.yielded = Append(k.yielded, f)
        /\ new.position = IF k.mode = "Sequential" THEN f + 1 ELSE k.position + 1
    BY <1>1 DEF CursorFields
  <1> SUFFICES ASSUME Whole \/ k.mode = "Sequential"
               PROVE  Stands(new) /\ Gives(new)
    BY <1>2 DEF CursorGives
  <1>3. Stands(k) /\ Gives(k)
    BY DEF CursorGives
  <1>4. Due(new) = Due(k)
    BY <1>2 DEF Due
  <1>5. Due(k) \subseteq Nat /\ Ahead(k) \subseteq Due(k)
        /\ Below(Due(k) \ Ahead(k), Due(k))
        /\ Lists(k.yielded, Due(k) \ Ahead(k))
    BY <1>3, QueryAssumption DEF Gives, Stands, Due, Fids
  <1>6. f \in Ahead(k) /\ f \in Nat /\ \A g \in Ahead(k) : f <= g
    BY <1>5, LeastIs
  <1>7. Stands(new) /\ Ahead(new) = Ahead(k) \ {f}
    <2>1. CASE k.mode = "Sequential"
      <3>1. Stands(new)
        BY <1>2, <1>3, <1>6, <2>1 DEF Stands
      <3>2. /\ Ahead(k) = {g \in Present : g >= k.position /\ g < k.feature_limit}
            /\ Ahead(new) = {g \in Present : g >= f + 1 /\ g < k.feature_limit}
            /\ k.position \in Nat /\ Present \subseteq Nat
        BY <1>2, <1>3, <2>1, QueryAssumption DEF Ahead, Stands, Present, Fids
      <3>3. \A g \in Present :
              g >= f + 1 /\ g < k.feature_limit <=> g \in Ahead(k) /\ g # f
        <4> SUFFICES ASSUME NEW g \in Present
                     PROVE  g >= f + 1 /\ g < k.feature_limit
                               <=> g \in Ahead(k) /\ g # f
          OBVIOUS
        <4>1. g \in Nat /\ k.position \in Nat /\ f >= k.position
          BY <1>6, <3>2
        <4>2. g \in Ahead(k) <=> g >= k.position /\ g < k.feature_limit
          BY <3>2
        <4>3. g \in Ahead(k) => f <= g
          BY <1>6
        <4>. QED
          BY <1>6, <4>1, <4>2, <4>3
      <3>. QED
        BY <3>1, <3>2, <3>3
    <2>2. CASE k.mode # "Sequential"
      <3> DEFINE s == k.answer
                 p == k.position
                 A == Ahead(k)
      <3>1. /\ k.fids = s /\ p \in 0 .. Len(s) /\ Lists(s, ElementsOf(s))
            /\ ElementsOf(s) \subseteq Nat
        BY <1>3, <2>2, QueryAssumption DEF Stands, Fids
      <3>2. A = After(s, p) /\ A # {}
        BY <2>2, <3>1 DEF Ahead
      <3>3. p + 1 \in 0 .. Len(s) /\ A \ {Least(A)} = After(s, p + 1)
        <4> HIDE DEF s, p, A
        <4>. QED
          BY <3>1, <3>2, CandidateNext
      <3>4. Ahead(new) = After(s, p + 1)
        BY <1>2, <2>2, <3>1 DEF Ahead
      <3>5. Stands(new)
        BY <1>2, <1>3, <2>2, <3>3 DEF Stands
      <3>. QED
        BY <3>3, <3>4, <3>5
    <2>. QED
      BY <2>1, <2>2
  <1>8. Gives(new)
    <2> DEFINE D == Due(k)
               A == Ahead(k)
               B == Ahead(new)
               y == k.yielded
    <2>1. D \subseteq Nat /\ A \subseteq D /\ Below(D \ A, D) /\ Lists(y, D \ A)
          /\ f \in A /\ (\A g \in A : f <= g) /\ B = A \ {f}
      BY <1>5, <1>6, <1>7
    <2> HIDE DEF D, A, B, y
    <2>2. B \subseteq D /\ Below(D \ B, D) /\ Lists(Append(y, f), D \ B)
      BY <2>1, GivesOne
    <2>. QED
      BY <1>2, <1>4, <2>2 DEF Gives, D, B, y
  <1>. QED
    BY <1>7, <1>8

\* A cursor that was moved owes what is ahead of it, or nothing.
LEMMA MovedGives ==
  ASSUME NEW new, DOMAIN new = CursorFields, new.yielded = << >>,
         Whole \/ new.mode = "Sequential" =>
           /\ Stands(new)
           /\ new.state = "Ready" => Ahead(new) = Due(new)
           /\ new.state = "Exhausted" => Due(new) = {}
  PROVE  CursorGives(new)
  <1> SUFFICES ASSUME Stands(new),
                      new.state = "Ready" => Ahead(new) = Due(new),
                      new.state = "Exhausted" => Due(new) = {}
               PROVE  Gives(new)
    BY DEF CursorGives
  <1>1. Below({}, Due(new))
    BY DEF Below
  <1>2. CASE new.state = "Ready"
    <2>1. Due(new) \ Ahead(new) = {}
      BY <1>2
    <2>. QED
      BY <1>1, <1>2, <2>1, NothingListed DEF Gives
  <1>3. CASE new.state # "Ready"
    BY <1>3, NothingListed DEF Gives
  <1>. QED
    BY <1>2, <1>3

\* The positions in the result of a query before what is not below f.
Places(s, f) == {i - 1 : i \in {j \in 1 .. Len(s) : s[j] >= f}}

LEMMA CandidateMove ==
  ASSUME NEW s, NEW S, S \subseteq Nat, Lists(s, S), NEW f \in Nat,
         NEW T, T = Places(s, f),
         NEW D, \A g : g \in D <=> g \in ElementsOf(s) /\ g >= f
  PROVE  /\ T = {} => D = {}
         /\ T # {} => Least(T) \in 0 .. Len(s) /\ After(s, Least(T)) = D
  <1>0. T = {i - 1 : i \in {j \in 1 .. Len(s) : s[j] >= f}}
    BY DEF Places
  <1>1. Len(s) \in Nat /\ \A i \in 1 .. Len(s) : s[i] \in Nat
    BY ListTypes
  <1>2. \A i, j \in 1 .. Len(s) : i < j => s[i] < s[j]
    BY DEF Lists
  <1>3. \A i \in 1 .. Len(s) : s[i] >= f => i - 1 \in T
    BY <1>0
  <1>4. T = {} => D = {}
    BY <1>3 DEF ElementsOf
  <1>5. ASSUME T # {} PROVE Least(T) \in 0 .. Len(s) /\ After(s, Least(T)) = D
    <2>1. T \subseteq Nat
      BY <1>0, <1>1
    <2>2. PICK p : p = Least(T)
      OBVIOUS
    <2>3. p \in T /\ \A y \in T : p <= y
      BY <1>5, <2>1, <2>2, LeastIs
    <2>4. PICK j \in 1 .. Len(s) : s[j] >= f /\ p = j - 1
      BY <1>0, <2>3
    <2>5. p \in 0 .. Len(s) /\ p + 1 = j
      BY <1>1, <2>4
    <2>6. \A i \in 1 .. Len(s) : s[i] >= f <=> i \in p + 1 .. Len(s)
      <3> SUFFICES ASSUME NEW i \in 1 .. Len(s)
                   PROVE  s[i] >= f <=> i \in p + 1 .. Len(s)
        OBVIOUS
      <3>1. s[i] >= f => p <= i - 1
        BY <1>3, <2>3
      <3>2. i >= j => s[i] >= f
        BY <1>1, <1>2, <2>4
      <3>. QED
        BY <1>1, <2>5, <3>1, <3>2
    <2>7. \A i \in p + 1 .. Len(s) : i \in 1 .. Len(s)
      BY <1>1, <2>5
    <2>8. After(s, p) = D
      BY <2>6, <2>7 DEF After, ElementsOf
    <2>. QED
      BY <2>2, <2>5, <2>8
  <1>. QED
    BY <1>4, <1>5

\* next() at the end of what is ahead.
LEMMA EndGives ==
  ASSUME NEW k, CursorGives(k), k.state = "Ready", Ahead(k) = {},
         NEW new, new = [k EXCEPT !.state = "Exhausted", !.generation = 0]
  PROVE  CursorGives(new)
  <1>1. DOMAIN k = CursorFields
    BY DEF CursorGives
  <1>2. /\ DOMAIN new = CursorFields /\ new.state = "Exhausted" /\ new.mode = k.mode
        /\ new.fids = k.fids /\ new.answer = k.answer /\ new.anchor = k.anchor
        /\ new.feature_limit = k.feature_limit /\ new.yielded = k.yielded
        /\ new.position = k.position
    BY <1>1 DEF CursorFields
  <1> SUFFICES ASSUME Whole \/ k.mode = "Sequential"
               PROVE  Stands(new) /\ Gives(new)
    BY <1>2 DEF CursorGives
  <1>3. Stands(k) /\ Gives(k)
    BY DEF CursorGives
  <1>4. Stands(new)
    BY <1>2, <1>3 DEF Stands
  <1>5. Due(new) = Due(k) /\ Due(k) \ Ahead(k) = Due(k)
    BY <1>2 DEF Due
  <1>6. Lists(new.yielded, Due(new))
    BY <1>2, <1>3, <1>5 DEF Gives
  <1>. QED
    BY <1>2, <1>4, <1>6 DEF Gives

\* move_to(f): where a cursor may stop, and what becomes of it there.
Targets(k, f) ==
    IF k.mode = "Sequential"
    THEN {g \in Present : g >= f /\ g < k.feature_limit}
    ELSE Places(k.fids, f)

Moved(k, f, mine) ==
    LET moved == [k EXCEPT !.anchor = f, !.yielded = << >>]
    IN  IF Targets(k, f) = {}
        THEN [moved EXCEPT !.state = "Exhausted", !.generation = 0]
        ELSE [moved EXCEPT !.state = "Ready", !.generation = mine,
                           !.position = Least(Targets(k, f))]

LEMMA MoveGives ==
  ASSUME NEW k, CursorGives(k), k.state \in {"Ready", "Exhausted"},
         NEW f \in Nat, NEW mine
  PROVE  CursorGives(Moved(k, f, mine))
  <1> DEFINE moved == [k EXCEPT !.anchor = f, !.yielded = << >>]
  <1>a. PICK T : T = Targets(k, f)
    OBVIOUS
  <1>b. PICK new : new = Moved(k, f, mine)
    OBVIOUS
  <1>c. T = IF k.mode = "Sequential"
            THEN {g \in Present : g >= f /\ g < k.feature_limit}
            ELSE Places(k.fids, f)
    BY <1>a DEF Targets
  <1>d. new = IF T = {}
              THEN [moved EXCEPT !.state = "Exhausted", !.generation = 0]
              ELSE [moved EXCEPT !.state = "Ready", !.generation = mine,
                                 !.position = Least(T)]
    BY <1>a, <1>b DEF Moved
  <1>1. DOMAIN k = CursorFields
    BY DEF CursorGives
  <1>2. /\ DOMAIN moved = CursorFields /\ moved.mode = k.mode
        /\ moved.fids = k.fids /\ moved.answer = k.answer /\ moved.anchor = f
        /\ moved.feature_limit = k.feature_limit /\ moved.yielded = << >>
        /\ moved.position = k.position
    BY <1>1 DEF CursorFields
  <1> HIDE DEF moved
  <1>3. /\ DOMAIN new = CursorFields /\ new.mode = k.mode
        /\ new.fids = k.fids /\ new.answer = k.answer /\ new.anchor = f
        /\ new.feature_limit = k.feature_limit /\ new.yielded = << >>
        /\ new.position = IF T = {} THEN k.position ELSE Least(T)
        /\ new.state = IF T = {} THEN "Exhausted" ELSE "Ready"
    BY <1>d, <1>2 DEF CursorFields
  <1>4. ASSUME Whole \/ k.mode = "Sequential"
        PROVE  /\ Stands(new)
               /\ T # {} => Ahead(new) = Due(new)
               /\ T = {} => Due(new) = {}
    <2>1. Stands(k)
      BY <1>4 DEF CursorGives
    <2>2. Due(new) = {g \in ElementsOf(k.answer) : g >= f}
      BY <1>3 DEF Due
    <2>3. CASE k.mode = "Sequential"
      <3>1. /\ ElementsOf(k.answer) = {g \in Present : g < k.feature_limit}
            /\ k.position \in Nat /\ k.feature_limit \in Nat
            /\ Present \subseteq Nat
        BY <2>1, <2>3, QueryAssumption DEF Stands, Present, Fids
      <3>2. T = {g \in Present : g >= f /\ g < k.feature_limit}
        BY <1>c, <2>3
      <3>3. Due(new) = T
        BY <2>2, <3>1, <3>2
      <3>4. T # {} => Least(T) \in T /\ \A y \in T : Least(T) <= y
        <4>1. T \subseteq Nat
          BY <3>1, <3>2
        <4>. QED
          BY <4>1, LeastIs
      <3>5. T # {} => new.position \in Nat
        BY <1>3, <3>1, <3>2, <3>4
      <3>6. new.position \in Nat
        BY <1>3, <3>1, <3>5
      <3>7. Stands(new)
        BY <1>3, <2>1, <2>3, <3>6 DEF Stands
      <3>8. ASSUME T # {} PROVE Ahead(new) = T
        <4>1. Ahead(new) = {g \in Present : g >= Least(T) /\ g < k.feature_limit}
          BY <1>3, <2>3, <3>8 DEF Ahead
        <4>2. PICK p : p = Least(T)
          OBVIOUS
        <4>3. p \in Nat /\ p >= f /\ p \in T /\ \A y \in T : p <= y
          BY <3>1, <3>2, <3>4, <3>8, <4>2
        <4>4. \A g \in Present : g >= p /\ g < k.feature_limit <=> g \in T
          <5> SUFFICES ASSUME NEW g \in Present
                       PROVE  g >= p /\ g < k.feature_limit <=> g \in T
            OBVIOUS
          <5>1. g \in Nat /\ (g \in T <=> g >= f /\ g < k.feature_limit)
            BY <3>1, <3>2
          <5>2. g \in T => p <= g
            BY <4>3
          <5>. QED
            BY <4>3, <5>1, <5>2
        <4>5. T \subseteq Present
          BY <3>2
        <4>. QED
          BY <4>1, <4>2, <4>4, <4>5
      <3>. QED
        BY <3>3, <3>7, <3>8
    <2>4. CASE k.mode # "Sequential"
      <3> DEFINE s == k.answer
                 S == ElementsOf(s)
                 D == Due(new)
      <3>1. /\ k.fids = s /\ k.position \in 0 .. Len(s) /\ Lists(s, S)
            /\ S \subseteq Nat
        BY <2>1, <2>4, QueryAssumption DEF Stands, Fids
      <3>2. T = Places(s, f)
        BY <1>c, <2>4, <3>1
      <3>3. \A g : g \in D <=> g \in ElementsOf(s) /\ g >= f
        BY <2>2
      <3>4. /\ T = {} => D = {}
            /\ T # {} => Least(T) \in 0 .. Len(s) /\ After(s, Least(T)) = D
        <4>1. Lists(s, S) /\ S \subseteq Nat
          BY <3>1
        <4> HIDE DEF s, S, D
        <4>. QED
          BY <3>2, <3>3, <4>1, CandidateMove
      <3>5. Stands(new)
        BY <1>3, <2>1, <2>4, <3>1, <3>4 DEF Stands
      <3>6. T # {} => Ahead(new) = D
        BY <1>3, <2>4, <3>1, <3>4 DEF Ahead
      <3>. QED
        BY <3>4, <3>5, <3>6
    <2>. QED
      BY <2>3, <2>4
  <1>5. Whole \/ new.mode = "Sequential" =>
          /\ Stands(new)
          /\ new.state = "Ready" => Ahead(new) = Due(new)
          /\ new.state = "Exhausted" => Due(new) = {}
    <2> SUFFICES ASSUME Whole \/ k.mode = "Sequential"
                 PROVE  /\ Stands(new)
                        /\ new.state = "Ready" => Ahead(new) = Due(new)
                        /\ new.state = "Exhausted" => Due(new) = {}
      BY <1>3
    <2>1. /\ Stands(new)
          /\ T # {} => Ahead(new) = Due(new)
          /\ T = {} => Due(new) = {}
      BY <1>4
    <2>2. (new.state = "Ready" => T # {}) /\ (new.state = "Exhausted" => T = {})
      <3>1. PICK reached : reached = new.state
        OBVIOUS
      <3>2. CASE T = {}
        <4>1. reached = "Exhausted"
          BY <1>3, <3>1, <3>2
        <4>. QED
          BY <3>1, <3>2, <4>1
      <3>3. CASE T # {}
        <4>1. reached = "Ready"
          BY <1>3, <3>1, <3>3
        <4>. QED
          BY <3>1, <3>3, <4>1
      <3>. QED
        BY <3>2, <3>3
    <2>. QED
      BY <2>1, <2>2
  <1>. QED
    BY <1>b, <1>3, <1>5, MovedGives

LEMMA UpcomingIsAhead ==
  ASSUME NEW c \in Cursors
  PROVE  Upcoming(c) = Ahead(cursor[c])
  BY DEF Upcoming, Ahead, After

LEMMA NextReadsAnswers ==
  ASSUME AnswerInv, NEW c \in Cursors, NextReads(c)
  PROVE  AnswerInv'
  <1>1. UNCHANGED <<table, cancelled, call>> /\ result' = NoResult
        /\ cursor[c].state = "Ready"
    BY DEF NextReads, CanStep
  <1>2. PICK k : k = cursor[c]
    OBVIOUS
  <1>3. PICK f : f = Least(Ahead(k))
    OBVIOUS
  <1>4. Ahead(k) # {} /\ f = Least(Upcoming(c)) /\ CursorGives(k)
    BY <1>2, <1>3, UpcomingIsAhead DEF NextReads, AnswerInv
  <1>5. CASE rows[f] = "live"
    <2>1. PICK new :
            new = [k EXCEPT !.yielded = Append(k.yielded, f),
                            !.position = IF k.mode = "Sequential"
                                         THEN f + 1 ELSE k.position + 1]
      OBVIOUS
    <2>2. cursor' = [cursor EXCEPT ![c] = new]
      BY <1>2, <1>4, <1>5, <2>1 DEF NextReads
    <2>3. CursorGives(new)
      BY <1>1, <1>2, <1>3, <1>4, <2>1, ReadGives
    <2>. QED
      BY <1>1, <2>2, <2>3, CursorAnswers
  <1>6. CASE rows[f] # "live"
    <2>1. cursor' = [cursor EXCEPT ![c] = FailedCursor]
      BY <1>4, <1>6 DEF NextReads, Fail
    <2>. QED
      BY <1>1, <2>1, FailAnswers
  <1>. QED
    BY <1>5, <1>6

LEMMA NextExhaustsAnswers ==
  ASSUME AnswerInv, NEW c \in Cursors, NextExhausts(c)
  PROVE  AnswerInv'
  <1>1. UNCHANGED <<table, cancelled, call>> /\ result' = NoResult
        /\ cursor[c].state = "Ready"
    BY DEF NextExhausts, CanStep
  <1>2. PICK k : k = cursor[c]
    OBVIOUS
  <1>3. Ahead(k) = {} /\ CursorGives(k)
    BY <1>2, UpcomingIsAhead DEF NextExhausts, AnswerInv
  <1>4. PICK new : new = [k EXCEPT !.state = "Exhausted", !.generation = 0]
    OBVIOUS
  <1>5. cursor' = [cursor EXCEPT ![c] = new]
    BY <1>2, <1>4 DEF NextExhausts
  <1>6. CursorGives(new)
    BY <1>1, <1>2, <1>3, <1>4, EndGives
  <1>. QED
    BY <1>1, <1>5, <1>6, CursorAnswers

LEMMA MoveToAnswers ==
  ASSUME AnswerInv, NEW c \in Cursors, NEW f \in 0 .. MaxFid + 1, MoveTo(c, f)
  PROVE  AnswerInv'
  <1> DEFINE k       == cursor[c]
             leased  == k.generation # 0
             mine    == IF leased THEN k.generation ELSE NextGeneration
             targets == IF k.mode = "Sequential"
                        THEN {g \in Present : g >= f /\ g < k.feature_limit}
                        ELSE {i - 1 : i \in {j \in 1..Len(k.fids) : k.fids[j] >= f}}
             moved   == [k EXCEPT !.anchor = f, !.yielded = << >>]
             reached == IF targets = {}
                        THEN [moved EXCEPT !.state = "Exhausted", !.generation = 0]
                        ELSE [moved EXCEPT !.state = "Ready", !.generation = mine,
                                           !.position = Least(targets)]
  <1>1. UNCHANGED <<table, cancelled, call>> /\ result' = NoResult
        /\ k.state \in {"Ready", "Exhausted"}
    BY DEF MoveTo
  <1>2. CASE ~engine_is_current(c) \/ (~leased /\ feature_cursor_active)
    <2>1. cursor' = [cursor EXCEPT ![c] = FailedCursor]
      BY <1>2 DEF MoveTo, Fail
    <2>. QED
      BY <1>1, <2>1, FailAnswers
  <1>3. CASE ~(~engine_is_current(c) \/ (~leased /\ feature_cursor_active))
    <2>1. cursor' = [cursor EXCEPT ![c] = reached]
      BY <1>3 DEF MoveTo
    <2>2. targets = Targets(k, f)
      BY DEF Targets, Places
    <2>3. reached = Moved(k, f, mine)
      <3> HIDE DEF targets
      <3>. QED
        BY <2>2 DEF Moved
    <2>4. PICK new : new = reached
      OBVIOUS
    <2>5. CursorGives(k) /\ f \in Nat /\ k.state \in {"Ready", "Exhausted"}
      BY <1>1, QueryAssumption DEF AnswerInv
    <2> HIDE DEF reached, mine
    <2>6. cursor' = [cursor EXCEPT ![c] = new]
      BY <2>1, <2>4
    <2>7. CursorGives(new)
      <3> HIDE DEF k
      <3>1. CursorGives(Moved(k, f, mine))
        BY <2>5, MoveGives
      <3>. QED
        BY <2>3, <2>4, <3>1
    <2>. QED
      BY <1>1, <2>6, <2>7, CursorAnswers
  <1>. QED
    BY <1>2, <1>3

LEMMA AnswerInvNext == AnswerInv /\ [Next]_vars => AnswerInv'
  <1> SUFFICES ASSUME AnswerInv, [Next]_vars PROVE AnswerInv'
    OBVIOUS
  <1>0. cancelled \in BOOLEAN
    BY DEF AnswerInv, TableFacts
  <1>1. CASE Cancel
    BY <1>0, <1>1, IdleAnswers DEF Cancel
  <1>2. CASE Open
    BY <1>0, <1>2, IdleAnswers DEF Open
  <1>3. CASE ScanRow
    BY <1>3, ScanAnswers
  <1>4. CASE FinishQuery
    BY <1>4, FinishQueryAnswers
  <1>5. ASSUME NEW r \in Requests, Query(r) PROVE AnswerInv'
    BY <1>5, StartAnswers, QueryAssumption DEF Query
  <1>6. ASSUME NEW r \in Requests, QueryRefused(r) PROVE AnswerInv'
    BY <1>6, QueryRefusedAnswers
  <1>7. ASSUME NEW c \in Cursors, CursorNext(c) PROVE AnswerInv'
    <2>1. ASSUME NEW r \in CursorRequests, OpenCursorFails(c, r) PROVE AnswerInv'
      BY <2>1, FailAnswers DEF OpenCursorFails
    <2>2. ASSUME NEW r \in CursorRequests, OpenSequentialCursor(c, r)
          PROVE AnswerInv'
      BY <2>2, OpenSequentialAnswers, QueryAssumption
    <2>3. ASSUME NEW r \in CursorRequests, OpenCursor(c, r) PROVE AnswerInv'
      BY <2>3, StartAnswers, QueryAssumption DEF OpenCursor
    <2>4. CASE FinishCursor(c)
      BY <2>4, FinishCursorAnswers
    <2>5. CASE NextStops(c)
      BY <2>5, FailAnswers DEF NextStops, Fail
    <2>6. CASE NextReads(c)
      BY <2>6, NextReadsAnswers
    <2>7. CASE NextExhausts(c)
      BY <2>7, NextExhaustsAnswers
    <2>8. ASSUME NEW f \in 0 .. MaxFid + 1, MoveTo(c, f) PROVE AnswerInv'
      BY <2>8, MoveToAnswers
    <2>9. CASE Destroy(c)
      BY <2>9, FailAnswers DEF Destroy
    <2>. QED
      BY <1>7, <2>1, <2>2, <2>3, <2>4, <2>5, <2>6, <2>7, <2>8, <2>9 DEF CursorNext
  <1>8. CASE UNCHANGED vars
    BY <1>0, <1>8, IdleAnswers DEF vars, table
  <1>. QED
    BY <1>1, <1>2, <1>3, <1>4, <1>5, <1>6, <1>7, <1>8 DEF Next

LEMMA AnswerInvariant == Spec => []AnswerInv
  BY AnswerInvInit, AnswerInvNext, PTL DEF Spec

\* A result that says Ok is the window of all matches, the limit is reported
\* only when that window exceeds it and Cancelled only to a caller who
\* cancelled, whatever the table holds, wherever the scan stopped and however
\* large size_t is.
THEOREM ResultExactness == Spec => []ResultIsExact
  <1>1. AnswerInv => ResultIsExact
    BY DEF AnswerInv, ExactResult, ResultIsExact
  <1>. QED
    BY <1>1, AnswerInvariant, PTL

\* What is not below f of an ascending list.
LEMMA FromLists ==
  ASSUME NEW S, S \subseteq Nat, NEW s, Lists(s, S), NEW f \in Nat
  PROVE  Lists(From(s, f), {g \in S : g >= f})
  <1> DEFINE n == Len(s)
             Splits(i) == \A j \in DOMAIN s : j < i <=> s[j] < f
             High == {i \in 1 .. n : s[i] >= f}
  <1>1. /\ s \in Seq(S) /\ n \in Nat /\ DOMAIN s = 1 .. n
        /\ \A i \in 1 .. n : s[i] \in S /\ s[i] \in Nat
    BY ListTypes
  <1>2. \A i, j \in 1 .. n : i < j => s[i] < s[j]
    BY DEF Lists
  <1>3. \E i \in 1 .. n + 1 : Splits(i)
    <2>1. CASE High = {}
      <3>1. \A j \in 1 .. n : j < n + 1 /\ s[j] < f
        BY <1>1, <2>1
      <3>2. n + 1 \in 1 .. n + 1
        BY <1>1
      <3>. QED
        BY <1>1, <3>1, <3>2
    <2>2. CASE High # {}
      <3>1. High \subseteq Nat
        BY <1>1
      <3>2. PICK i \in High : \A y \in High : i <= y
        <4> HIDE DEF High
        <4>. QED
          BY <2>2, <3>1, LeastNumber
      <3>3. i \in 1 .. n /\ s[i] >= f
        OBVIOUS
      <3>4. ASSUME NEW j \in 1 .. n PROVE j < i <=> s[j] < f
        <4>1. j < i => s[j] < f
          BY <1>1, <3>2
        <4>2. j = i \/ i < j => ~(s[j] < f)
          BY <1>1, <1>2, <3>3
        <4>. QED
          BY <1>1, <3>3, <4>1, <4>2
      <3>5. i \in 1 .. n + 1
        BY <1>1, <3>3
      <3>. QED
        BY <1>1, <3>4, <3>5
    <2>. QED
      BY <2>1, <2>2
  <1>4. PICK first : first = CHOOSE i \in 1 .. n + 1 : Splits(i)
    OBVIOUS
  <1>5. first \in 1 .. n + 1 /\ Splits(first)
    <2> HIDE DEF Splits, n
    <2>. QED
      BY <1>3, <1>4
  <1>6. \A j \in 1 .. n : j < first <=> s[j] < f
    BY <1>1, <1>5
  <1>7. From(s, f) = SubSeq(s, first, n)
    BY <1>4 DEF From
  <1>8. PICK t : t = SubSeq(s, first, n)
    OBVIOUS
  <1>9. /\ Len(t) = n - first + 1 /\ Len(t) \in Nat
        /\ \A i \in 1 .. Len(t) : t[i] = s[first + i - 1]
        /\ t \in Seq(S)
    <2>1. first \in Nat /\ n - first + 1 \in Nat
          /\ \A i \in first .. n : i \in 1 .. n
      BY <1>1, <1>5
    <2>2. t = [i \in 1 .. n - first + 1 |-> s[i + first - 1]]
      BY <1>1, <1>5, <1>8, <2>1
    <2>. QED
      BY <1>1, <2>1, <2>2
  <1>. QED
    <2> DEFINE H == {g \in S : g >= f}
    <2>1. \A i \in 1 .. Len(t) : first + i - 1 \in 1 .. n /\ ~(first + i - 1 < first)
      BY <1>1, <1>5, <1>9
    <2>2. \A i \in 1 .. Len(t) : t[i] \in H
      BY <1>1, <1>6, <1>9, <2>1
    <2>3. t \in Seq(H)
      <3>1. DOMAIN t = 1 .. Len(t) /\ t = [i \in 1 .. Len(t) |-> t[i]]
        BY <1>9, LenProperties
      <3> HIDE DEF H
      <3>2. t \in [1 .. Len(t) -> H]
        BY <2>2, <3>1
      <3>. QED
        BY <1>9, <3>2
    <2>4. \A i, j \in 1 .. Len(t) : i < j => t[i] < t[j]
      <3> SUFFICES ASSUME NEW i \in 1 .. Len(t), NEW j \in 1 .. Len(t), i < j
                   PROVE  t[i] < t[j]
        OBVIOUS
      <3>1. first + i - 1 < first + j - 1
        BY <1>5, <1>9
      <3>. QED
        BY <1>2, <1>9, <2>1, <3>1
    <2>5. \A g \in H : \E i \in 1 .. Len(t) : t[i] = g
      <3> SUFFICES ASSUME NEW g \in S, g >= f
                   PROVE  \E i \in 1 .. Len(t) : t[i] = g
        OBVIOUS
      <3>1. PICK j \in 1 .. n : s[j] = g
        BY DEF Lists
      <3>2. ~(j < first)
        BY <1>1, <1>6, <3>1
      <3>3. j - first + 1 \in 1 .. Len(t) /\ first + (j - first + 1) - 1 = j
        BY <1>1, <1>5, <1>9, <3>2
      <3>4. t[j - first + 1] = s[j]
        BY <1>9, <3>3
      <3>. QED
        BY <3>1, <3>3, <3>4
    <2>6. Lists(t, H)
      BY <2>3, <2>4, <2>5 DEF Lists
    <2>. QED
      BY <1>7, <1>8, <2>6

\* Since the FID it was last moved to, every cursor has given the answer of
\* its request in order, without a gap or a repetition, and one that says it
\* is done has given all of it: by FID over the table or by position in the
\* result of its query, which was itself right.
THEOREM CursorAnswersInOrder == Spec => []CursorYieldsAnswer
  <1>1. ASSUME AnswerInv PROVE CursorYieldsAnswer
    <2> SUFFICES ASSUME NEW c \in Cursors, cursor[c].state \in {"Ready", "Exhausted"},
                        Whole \/ cursor[c].mode = "Sequential",
                        NEW due, due = From(cursor[c].answer, cursor[c].anchor)
                 PROVE  /\ IsPrefix(cursor[c].yielded, due)
                        /\ cursor[c].state = "Exhausted" =>
                              cursor[c].yielded = due
      BY DEF CursorYieldsAnswer
    <2>1. PICK k : k = cursor[c]
      OBVIOUS
    <2>2. Stands(k) /\ Gives(k)
      BY <1>1, <2>1 DEF AnswerInv, CursorGives
    <2>3. /\ Lists(k.answer, ElementsOf(k.answer)) /\ k.anchor \in Nat
          /\ ElementsOf(k.answer) \subseteq Nat
      BY <2>2, QueryAssumption DEF Stands, Fids
    <2>4. Lists(due, {g \in ElementsOf(k.answer) : g >= k.anchor})
      BY <2>1, <2>3, FromLists
    <2>5. Lists(due, Due(k)) /\ Due(k) \subseteq Nat
      BY <2>3, <2>4 DEF Due
    <2>6. ASSUME NEW y, NEW T, Lists(y, T), Below(T, Due(k))
          PROVE  IsPrefix(y, due)
      <3>1. Begins(y, due)
        BY <2>5, <2>6, ListsFront
      <3>2. y \in Seq(Nat) /\ due \in Seq(Nat)
        <4>1. T \subseteq Nat
          BY <2>5, <2>6 DEF Below
        <4>. QED
          BY <2>5, <2>6, <4>1, ListTypes
      <3>. QED
        BY <3>1, <3>2 DEF Begins, IsPrefix
    <2>7. CASE k.state = "Ready"
      <3>1. Lists(k.yielded, Due(k) \ Ahead(k)) /\ Below(Due(k) \ Ahead(k), Due(k))
        BY <2>2, <2>7 DEF Gives
      <3>2. IsPrefix(k.yielded, due)
        BY <2>6, <3>1
      <3>. QED
        BY <2>1, <2>7, <3>2
    <2>8. CASE k.state = "Exhausted"
      <3>1. Lists(k.yielded, Due(k)) /\ Below(Due(k), Due(k))
        BY <2>2, <2>8 DEF Gives, Below
      <3>2. k.yielded = due
        BY <2>5, <3>1, ListsUnique
      <3>3. IsPrefix(k.yielded, due)
        BY <2>6, <3>1
      <3>. QED
        BY <2>1, <3>2, <3>3
    <2>. QED
      BY <2>1, <2>7, <2>8
  <1>. QED
    BY <1>1, AnswerInvariant, PTL
=============================================================================
