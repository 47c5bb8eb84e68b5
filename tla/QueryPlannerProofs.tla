------------------------- MODULE QueryPlannerProofs -------------------------
(***************************************************************************)
(* Theorems about QueryPlanner: for every table, every answer of its       *)
(* indexes and every failure of a read, what a query publishes is sound,   *)
(* and complete unless it says otherwise.                                  *)
(*                                                                         *)
(* Theorems about IndexedQuery: what QueryPlanner takes for granted of the *)
(* indexes, for every file that has the entries of its rows.               *)
(***************************************************************************)
EXTENDS QueryPlanner, IndexedQuery, SequenceTheorems, FiniteSetTheorems,
        WellFoundedInduction, TLAPS

Points == {"bbox", "fused", "dense", "batch", "per_fid", "spatial", "where",
           "canonical"}

\* The rows that the current way of answering has to find.
Wanted(c) ==
    IF c.at = "fused" THEN Intersecting \cap source.where
    ELSE IF c.at \in {"where", "canonical"} THEN c.candidates \cap source.where
    ELSE Intersecting

\* What is matched so far is wanted, is not to be visited again, and is there
\* once; what is wanted is still to be visited, unless it was matched or
\* something was reported.
Progress(c) ==
    /\ \A f \in Fids : c.matched[f] <= 1
    /\ \A f \in c.todo : c.matched[f] = 0
    /\ \A f \in Fids : c.matched[f] > 0 => f \in Wanted(c)
    /\ ~c.invalid /\ ~c.canonical =>
         \A f \in Wanted(c) : f \in c.todo \/ c.matched[f] > 0

\* No way starts with too few candidates, and the recheck of the clause starts
\* with all the spatial part found.
Plan(c) ==
    /\ c.at \in {"fused", "batch", "per_fid"} => Intersecting \subseteq c.candidates
    /\ c.at = "dense" => c.candidates = {} \/ Intersecting \subseteq c.candidates
    /\ c.at \in {"where", "canonical"} =>
         /\ c.todo \subseteq c.candidates /\ c.candidates \subseteq Intersecting
         /\ \/ c.spatial_invalid \/ c.canonical
            \/ Intersecting \cap source.where \subseteq c.candidates
    /\ c.at \in {"fused", "where", "canonical"} => c.kind = "SpatialWhere"
    /\ c.at = "spatial" => c.todo = {}
    /\ c.at = "canonical" => c.canonical

PlanInv ==
    /\ PlannerTypeOK
    /\ call.at \notin {"idle", "bbox"} => Progress(call) /\ Plan(call)
    /\ PlannedResultIsSound
    /\ PlannedResultIsComplete
-----------------------------------------------------------------------------
(***************************************************************************)
(* What the helpers do to a call.                                          *)
(***************************************************************************)
LEMMA SomeFacts ==
    ASSUME PlannerTypeOK
    PROVE  /\ source.where \subseteq Fids
           /\ source.spx_fids \subseteq Fids
           /\ source.atx_fids \subseteq Fids
           /\ Intersecting \subseteq Active
           /\ Active \subseteq Fids
           /\ Opened = source.spx
           /\ source.spx = "good" => Intersecting \subseteq source.spx_fids
           /\ source.atx = "good" => source.where \subseteq source.atx_fids
BY PlannerAssumption
   DEF PlannerTypeOK, SourceType, Intersecting, IntersectingRows, Active, Opened

LEMMA NothingType == Nothing \in [Fids -> Nat] /\ \A f \in Fids : Nothing[f] = 0
BY DEF Nothing

\* A scan begins with nothing found, and all its rows to visit.
LEMMA BeginCall ==
    ASSUME NEW c \in CallType, NEW place \in Points, NEW fids \in SUBSET Fids
    PROVE  /\ Begin(c, place, fids) \in CallType
           /\ Begin(c, place, fids).at = place
           /\ Begin(c, place, fids).kind = c.kind
           /\ Begin(c, place, fids).candidates = fids
           /\ Begin(c, place, fids).todo = fids
           /\ Begin(c, place, fids).matched = Nothing
           /\ Begin(c, place, fids).invalid = FALSE
           /\ Begin(c, place, fids).canonical = c.canonical
           /\ Begin(c, place, fids).spatial_invalid = c.spatial_invalid
BY NothingType DEF Begin, CallType, Points

\* Row f is behind the call, and nothing but its matches and its count of
\* invalid geometries may be different.
Visited(c, d, f) ==
    /\ d \in CallType
    /\ d.at = c.at /\ d.kind = c.kind /\ d.candidates = c.candidates
    /\ d.todo = c.todo \ {f} /\ d.canonical = c.canonical
    /\ d.spatial_invalid = c.spatial_invalid
    /\ c.invalid => d.invalid

Matched(c, d, f) == d.matched = [c.matched EXCEPT ![f] = @ + 1]

LEMMA EvaluateCall ==
    ASSUME NEW c \in CallType, NEW f \in c.todo, NEW e, e = Evaluate(c, f)
    PROVE  /\ Visited(c, e, f)
           /\ f \in Intersecting => Matched(c, e, f)
           /\ f \notin Intersecting => e.matched = c.matched
<1>1. c.matched \in [Fids -> Nat] /\ f \in Fids
  BY DEF CallType
<1>2. [c.matched EXCEPT ![f] = @ + 1] \in [Fids -> Nat]
  BY <1>1
<1>3. [c.matched EXCEPT ![f] = IF f \in Intersecting THEN @ + 1 ELSE @]
        = IF f \in Intersecting THEN [c.matched EXCEPT ![f] = @ + 1] ELSE c.matched
  BY <1>1
<1> QED BY <1>1, <1>2, <1>3 DEF Evaluate, CallType, Visited, Matched

LEMMA CountInvalidCall ==
    ASSUME NEW c \in CallType, NEW f \in c.todo, NEW e, e = CountInvalid(c, f)
    PROVE  /\ Visited(c, e, f)
           /\ e.invalid /\ e.matched = c.matched
BY DEF CountInvalid, CallType, Visited

LEMMA EvaluateFusedCall ==
    ASSUME NEW c \in CallType, NEW f \in c.todo, NEW e, e = EvaluateFused(c, f)
    PROVE  /\ Visited(c, e, f)
           /\ f \in Intersecting \cap source.where
                => Matched(c, e, f)
           /\ f \notin Intersecting \cap source.where => e.matched = c.matched
<1>1. c.matched \in [Fids -> Nat] /\ f \in Fids
  BY DEF CallType
<1>2. [c.matched EXCEPT ![f] = @ + 1] \in [Fids -> Nat]
  BY <1>1
<1>3. [c.matched EXCEPT ![f] = IF f \in Intersecting \cap source.where
                                THEN @ + 1 ELSE @]
        = IF f \in Intersecting \cap source.where
          THEN [c.matched EXCEPT ![f] = @ + 1] ELSE c.matched
  BY <1>1
<1> QED BY <1>1, <1>2, <1>3 DEF EvaluateFused, CallType, Visited, Matched

LEMMA EvaluateWhereCall ==
    ASSUME NEW c \in CallType, NEW f \in c.todo, NEW e, e = EvaluateWhere(c, f)
    PROVE  /\ Visited(c, e, f)
           /\ f \in source.where => Matched(c, e, f)
           /\ f \notin source.where => e.matched = c.matched
<1>1. c.matched \in [Fids -> Nat] /\ f \in Fids
  BY DEF CallType
<1>2. [c.matched EXCEPT ![f] = @ + 1] \in [Fids -> Nat]
  BY <1>1
<1>3. [c.matched EXCEPT ![f] = IF f \in source.where THEN @ + 1 ELSE @]
        = IF f \in source.where THEN [c.matched EXCEPT ![f] = @ + 1] ELSE c.matched
  BY <1>1
<1> QED BY <1>1, <1>2, <1>3 DEF EvaluateWhere, CallType, Visited, Matched
-----------------------------------------------------------------------------
(***************************************************************************)
(* What keeps the invariant.                                               *)
(***************************************************************************)
\* A row is visited: matched once if it is wanted, or reported.
LEMMA RowKeepsProgress ==
    ASSUME PlannerTypeOK, NEW c \in CallType, NEW d, NEW f \in c.todo,
           c.at # "spatial", Progress(c), Plan(c), Visited(c, d, f),
           \/ Matched(c, d, f) /\ f \in Wanted(c)
           \/ d.matched = c.matched /\ (f \notin Wanted(c) \/ d.invalid \/ d.canonical)
    PROVE  Progress(d) /\ Plan(d)
<1> d \in CallType
  BY DEF Visited
<1> USE DEF Matched
<1>0. /\ d.at = c.at /\ d.kind = c.kind /\ d.candidates = c.candidates
      /\ d.todo = c.todo \ {f} /\ d.canonical = c.canonical
      /\ d.spatial_invalid = c.spatial_invalid /\ (c.invalid => d.invalid)
  BY DEF Visited
<1>1. /\ c.matched \in [Fids -> Nat] /\ d.matched \in [Fids -> Nat]
      /\ f \in Fids /\ c.todo \subseteq Fids
      /\ c.invalid \in BOOLEAN /\ d.invalid \in BOOLEAN
      /\ c.canonical \in BOOLEAN
  BY DEF CallType
<1>2. Wanted(d) = Wanted(c) /\ Wanted(c) \subseteq Fids
  BY <1>0, SomeFacts DEF Wanted, CallType
<1>3. Plan(d)
  BY <1>0 DEF Plan
<1>4. c.matched[f] = 0
  BY DEF Progress
<1>5. \A g \in Fids : g # f => d.matched[g] = c.matched[g]
  BY <1>1
<1>6. d.matched[f] \in {0, 1} /\ (d.matched[f] = 1 <=> d.matched # c.matched)
  BY <1>1, <1>4
<1>7. d.matched[f] > 0 => f \in Wanted(c)
  BY <1>1, <1>4
<1>8. f \in Wanted(c) => d.matched[f] > 0 \/ d.invalid \/ d.canonical
  BY <1>1, <1>4
<1>9. \A g \in Fids : d.matched[g] <= 1
  BY <1>5, <1>6 DEF Progress
<1>10. \A g \in d.todo : d.matched[g] = 0
  BY <1>0, <1>1, <1>5 DEF Progress
<1>11. \A g \in Fids : d.matched[g] > 0 => g \in Wanted(d)
  BY <1>2, <1>5, <1>7 DEF Progress
<1>12. ~d.invalid /\ ~d.canonical =>
         \A g \in Wanted(d) : g \in d.todo \/ d.matched[g] > 0
  BY <1>0, <1>1, <1>2, <1>5, <1>8 DEF Progress
<1> QED BY <1>3, <1>9, <1>10, <1>11, <1>12 DEF Progress

\* Whatever has a fresh start and enough to visit has all its progress to make.
LEMMA FreshStart ==
    ASSUME NEW c \in CallType, c.matched = Nothing, Wanted(c) \subseteq c.todo
    PROVE  Progress(c)
BY NothingType DEF Progress, CallType

LEMMA CallGoesOn ==
    ASSUME PlanInv, source' = source, spatial_index' \in {spatial_index, Opened},
           call' \in CallType, result' \in {result, NoResult},
           call'.at # "bbox" => Progress(call') /\ Plan(call')
    PROVE  PlanInv'
<1>1. PlannerTypeOK'
  BY SomeFacts DEF PlanInv, PlannerTypeOK
<1>2. PlannedResultIsSound' /\ PlannedResultIsComplete'
  BY DEF PlanInv, PlannedResultIsSound, PlannedResultIsComplete, Answer,
         Intersecting, IntersectingRows, Once
<1>3. call'.at # "bbox" => Progress(call)' /\ Plan(call)'
  BY DEF Progress, Plan, Wanted, Intersecting, IntersectingRows
<1> QED BY <1>1, <1>2, <1>3 DEF PlanInv

LEMMA CallIsPublished ==
    ASSUME PlanInv, UNCHANGED <<source, spatial_index>>, call \in CallType,
           NEW m \in [Fids -> Nat], Publish(call, m),
           \A f \in Fids : m[f] <= 1 /\ (m[f] > 0 => f \in Answer(call)),
           ~call.invalid /\ ~call.spatial_invalid /\ ~call.canonical =>
             \A f \in Answer(call) : m[f] > 0
    PROVE  PlanInv'
<1>1. call' = Idle /\ Idle.at = "idle"
  BY DEF Publish, Idle
<1>2. /\ result'.status = "Ok" /\ result'.kind = call.kind /\ result'.matched = m
      /\ result'.damaged = (call.invalid \/ call.spatial_invalid \/ call.canonical)
      /\ result' \in ResultType
  BY DEF Publish, ResultType, CallType
<1>3. PlannerTypeOK'
  BY <1>1, <1>2 DEF PlanInv, PlannerTypeOK
<1>4. Answer(result)' = Answer(call)
  BY <1>2 DEF Answer, Intersecting, IntersectingRows
<1>5. \A f \in Fids : Once(Answer(call))[f] = IF f \in Answer(call) THEN 1 ELSE 0
  BY DEF Once
<1>6. \A f \in Fids : m[f] <= Once(Answer(call))[f]
  BY <1>5
<1>7. PlannedResultIsSound'
  BY <1>2, <1>4, <1>6 DEF PlannedResultIsSound, Once
<1>8. PlannedResultIsComplete'
  BY <1>2, <1>4 DEF PlannedResultIsComplete
<1> QED BY <1>1, <1>3, <1>7, <1>8 DEF PlanInv
-----------------------------------------------------------------------------
(***************************************************************************)
(* The actions, one lemma for each kind.                                   *)
(***************************************************************************)
LEMMA BusyCall ==
    ASSUME PlanInv, call.at # "idle"
    PROVE  call \in CallType
BY DEF PlanInv, PlannerTypeOK, Idle

LEMMA QueryStep ==
    ASSUME PlanInv, NEW kind \in {"SpatialBbox", "SpatialWhere"},
           NEW coverage \in Coverages, NEW predicate \in BOOLEAN,
           Query(kind, coverage, predicate)
    PROVE  PlanInv'
<1> DEFINE new == [at |-> "bbox", kind |-> kind, coverage |-> coverage,
                   predicate |-> predicate, candidates |-> {}, todo |-> {},
                   matched |-> Nothing, scanned |-> FALSE, invalid |-> FALSE,
                   spatial_invalid |-> FALSE, canonical |-> FALSE]
<1>1. new \in CallType /\ new.at = "bbox" /\ new.kind = kind
  BY NothingType DEF CallType
<1>2. PlannerTypeOK
  BY DEF PlanInv
<1>3. CASE call' = new
  <2>1. UNCHANGED source /\ spatial_index' \in {spatial_index, Opened}
        /\ result' = NoResult
    BY DEF Query
  <2> QED BY <1>1, <1>3, <2>1, CallGoesOn
<1>4. ASSUME Fusable(kind, coverage, predicate), Opened = "good",
             NEW fids \in SUBSET Fids, fids = source.spx_fids,
             call' = Begin(new, "fused", fids)
      PROVE  PlanInv'
  <2> DEFINE b == Begin(new, "fused", fids)
  <2>1. Intersecting \subseteq fids
    BY <1>2, <1>4, SomeFacts
  <2> HIDE DEF new
  <2>0. "fused" \in Points
    BY DEF Points
  <2>2. /\ b \in CallType /\ b.at = "fused" /\ b.kind = new.kind
        /\ b.candidates = fids /\ b.todo = fids
        /\ b.matched = Nothing
    <3>1. new \in CallType
      BY <1>1
    <3> QED BY ZenonT(40), <2>0, <3>1, BeginCall
  <2> HIDE DEF b
  <2>3. kind = "SpatialWhere"
    BY <1>4 DEF Fusable
  <2>4. Wanted(b) \subseteq b.todo /\ Plan(b)
    BY <1>1, <2>1, <2>2, <2>3 DEF Wanted, Plan
  <2>5. Progress(b)
    BY <2>2, <2>4, FreshStart
  <2>6. UNCHANGED source /\ spatial_index' \in {spatial_index, Opened}
        /\ result' = NoResult /\ call' = b
    BY <1>4 DEF Query, b
  <2> QED BY <2>2, <2>4, <2>5, <2>6, CallGoesOn
<1>5. source.spx_fids \in SUBSET Fids
  BY <1>2, SomeFacts
<1>6. \/ call' = new
      \/ /\ Fusable(kind, coverage, predicate) /\ Opened = "good"
         /\ call' = Begin(new, "fused", source.spx_fids)
  BY DEF Query
<1> QED BY <1>3, <1>4, <1>5, <1>6

LEMMA PlanStep ==
    ASSUME PlanInv, PlanBbox
    PROVE  PlanInv'
<1>1. call \in CallType /\ PlannerTypeOK
  BY BusyCall DEF PlanBbox, PlanInv
<1>2. /\ Fids \in SUBSET Fids /\ {} \in SUBSET Fids
      /\ source.spx_fids \in SUBSET Fids
      /\ Intersecting \subseteq Active /\ Active \subseteq Fids
      /\ Opened = "good" => Intersecting \subseteq source.spx_fids
  BY <1>1, SomeFacts
<1>3. UNCHANGED <<source, result>> /\ spatial_index' \in {spatial_index, Opened}
  BY DEF PlanBbox, Step
<1>4. ASSUME Active = {}, NEW fids \in SUBSET Fids, fids = {},
             call' = Begin(call, "spatial", fids)
      PROVE  PlanInv'
  <2>0. "spatial" \in Points
    BY DEF Points
  <2>1. /\ call' \in CallType /\ call'.at = "spatial"
        /\ call'.candidates = fids /\ call'.todo = fids /\ call'.matched = Nothing
    <3>1. call' = Begin(call, "spatial", fids)
      BY <1>4
    <3> QED BY ZenonT(40), <1>1, <2>0, <3>1, BeginCall
  <2>2. Wanted(call') \subseteq call'.todo /\ Plan(call')
    BY <1>2, <1>4, <2>1 DEF Wanted, Plan
  <2> QED BY <1>3, <2>1, <2>2, FreshStart, CallGoesOn
<1>5. ASSUME NEW fids \in SUBSET Fids, fids = {} \/ Intersecting \subseteq fids,
             call' = [Begin(call, "dense", fids) EXCEPT !.todo = Fids]
      PROVE  PlanInv'
  <2> DEFINE b == Begin(call, "dense", fids)
  <2>0. "dense" \in Points
    BY DEF Points
  <2>1. /\ b \in CallType /\ b.at = "dense" /\ b.candidates = fids
        /\ b.matched = Nothing
    BY <1>1, BeginCall, <2>0
  <2>2. call' = [b EXCEPT !.todo = Fids]
    BY <1>5
  <2> HIDE DEF b
  <2>3. /\ call' \in CallType /\ call'.at = "dense" /\ call'.candidates = fids
        /\ call'.todo = Fids /\ call'.matched = Nothing
    BY <2>1, <2>2 DEF CallType
  <2>4. Wanted(call') \subseteq call'.todo /\ Plan(call')
    BY <1>2, <1>5, <2>3 DEF Wanted, Plan
  <2> QED BY <1>3, <2>3, <2>4, FreshStart, CallGoesOn
<1>6. ASSUME NEW fids \in SUBSET Fids, Intersecting \subseteq fids,
             call' = Begin(call, "batch", fids)
      PROVE  PlanInv'
  <2>0. "batch" \in Points
    BY DEF Points
  <2>1. /\ call' \in CallType /\ call'.at = "batch"
        /\ call'.candidates = fids /\ call'.todo = fids
        /\ call'.matched = Nothing
    BY ZenonT(40), <1>1, <1>6, <2>0, BeginCall
  <2>2. Wanted(call') \subseteq call'.todo /\ Plan(call')
    BY <1>2, <1>6, <2>1 DEF Wanted, Plan
  <2> QED BY <1>3, <2>1, <2>2, FreshStart, CallGoesOn
<1>7. \/ Active = {} /\ call' = Begin(call, "spatial", {})
      \/ call' = [Begin(call, "dense", {}) EXCEPT !.todo = Fids]
      \/ /\ Opened = "good"
         /\ call' = [Begin(call, "dense", source.spx_fids) EXCEPT !.todo = Fids]
      \/ Opened = "good" /\ call' = Begin(call, "batch", source.spx_fids)
  BY DEF PlanBbox, Step
<1> QED BY <1>2, <1>4, <1>5, <1>6, <1>7

\* A row is passed over without a word.
LEMMA PassedCall ==
    ASSUME NEW c \in CallType, NEW f \in c.todo, NEW e,
           e = [c EXCEPT !.todo = @ \ {f}]
    PROVE  /\ Visited(c, e, f)
           /\ e.matched = c.matched
BY DEF CallType, Visited

LEMMA RowVisited ==
    ASSUME PlanInv, NEW f \in call.todo, call.at \notin {"idle", "bbox", "spatial"},
           UNCHANGED <<source, spatial_index, result>>, Visited(call, call', f),
           \/ Matched(call, call', f) /\ f \in Wanted(call)
           \/ /\ call'.matched = call.matched
              /\ f \notin Wanted(call) \/ call'.invalid \/ call'.canonical
    PROVE  PlanInv'
<1>1. call \in CallType /\ PlannerTypeOK /\ Progress(call) /\ Plan(call)
  BY BusyCall DEF PlanInv
<1>2. Progress(call') /\ Plan(call')
  BY <1>1, RowKeepsProgress
<1>3. call' \in CallType
  BY DEF Visited
<1> QED BY <1>2, <1>3, CallGoesOn

LEMMA RowStep ==
    ASSUME PlanInv, NEW f \in Fids,
           \/ FusedRow(f) \/ DenseRow(f) \/ BatchRow(f)
           \/ PerFidRow(f) \/ WhereRow(f) \/ CanonicalRow(f)
    PROVE  PlanInv'
<1>1. /\ f \in call.todo /\ call.at \notin {"idle", "bbox", "spatial"}
      /\ UNCHANGED <<source, spatial_index, result>>
  BY DEF FusedRow, DenseRow, BatchRow, PerFidRow, WhereRow, CanonicalRow,
         IsNext, Step
<1>2. call \in CallType /\ PlannerTypeOK /\ Plan(call)
  BY <1>1, BusyCall DEF PlanInv
<1>3. CASE /\ call.at \in {"dense", "batch", "per_fid"}
           /\ call' = Evaluate(call, f)
  <2>1. Wanted(call) = Intersecting
    BY <1>3 DEF Wanted
  <2> QED BY <1>1, <1>2, <1>3, <2>1, EvaluateCall, RowVisited
<1>4. CASE call.at = "per_fid" /\ call' = CountInvalid(call, f)
  BY <1>1, <1>2, <1>4, CountInvalidCall, RowVisited
<1>5. CASE call.at = "fused" /\ call' = EvaluateFused(call, f)
  <2>1. Wanted(call) = Intersecting \cap source.where
    BY <1>5 DEF Wanted
  <2> QED BY <1>1, <1>2, <1>5, <2>1, EvaluateFusedCall, RowVisited
<1>6. CASE /\ call.at \in {"where", "canonical"}
           /\ call' = EvaluateWhere(call, f)
  <2>1. f \in Wanted(call) <=> f \in call.candidates /\ f \in source.where
    BY <1>6 DEF Wanted
  <2>2. f \in call.candidates
    BY <1>1, <1>2, <1>6 DEF Plan
  <2> QED BY <1>1, <1>2, <1>6, <2>1, <2>2, EvaluateWhereCall, RowVisited
<1>7. CASE /\ call.at = "dense" /\ source.rows[f] \in {"deleted", "beyond"}
           /\ call' = [call EXCEPT !.todo = @ \ {f}]
  <2>1. f \notin Wanted(call)
    BY <1>7 DEF Wanted, Intersecting, IntersectingRows
  <2> QED BY <1>1, <1>2, <1>7, <2>1, PassedCall, RowVisited
<1>8. CASE call.at = "canonical" /\ call' = [call EXCEPT !.todo = @ \ {f}]
  <2>1. call.canonical
    BY <1>2, <1>8 DEF Plan
  <2> QED BY <1>1, <1>2, <1>8, <2>1, PassedCall, RowVisited
<1>9. \/ call.at \in {"dense", "batch", "per_fid"} /\ call' = Evaluate(call, f)
      \/ call.at = "per_fid" /\ call' = CountInvalid(call, f)
      \/ call.at = "fused" /\ call' = EvaluateFused(call, f)
      \/ call.at \in {"where", "canonical"} /\ call' = EvaluateWhere(call, f)
      \/ /\ call.at = "dense" /\ source.rows[f] \in {"deleted", "beyond"}
         /\ call' = [call EXCEPT !.todo = @ \ {f}]
      \/ call.at = "canonical" /\ call' = [call EXCEPT !.todo = @ \ {f}]
  BY DEF FusedRow, DenseRow, BatchRow, PerFidRow, WhereRow, CanonicalRow, Step
<1> QED BY <1>3, <1>4, <1>5, <1>6, <1>7, <1>8, <1>9

\* A way that gives up hands its candidates, or all there are, to the next.
LEMMA HandOverStep ==
    ASSUME PlanInv, FusedFails \/ DenseFails \/ BatchFails
    PROVE  PlanInv'
<1>1. call.at \in {"fused", "dense", "batch"}
      /\ UNCHANGED <<source, spatial_index, result>>
  BY DEF FusedFails, DenseFails, BatchFails, Step
<1>2. call \in CallType /\ PlannerTypeOK /\ Plan(call)
  BY <1>1, BusyCall DEF PlanInv
<1>3. call.candidates \in SUBSET Fids /\ Active \in SUBSET Fids
      /\ Intersecting \subseteq Active
  BY <1>2, SomeFacts DEF CallType
<1>4. ASSUME NEW fids \in SUBSET Fids, call' = Begin(call, "bbox", fids)
      PROVE  PlanInv'
  <2>1. "bbox" \in Points
    BY DEF Points
  <2>2. call' \in CallType /\ call'.at = "bbox"
    BY <1>2, <1>4, <2>1, BeginCall
  <2> QED BY <1>1, <2>2, CallGoesOn
<1>5. ASSUME NEW fids \in SUBSET Fids, Intersecting \subseteq fids,
             NEW place \in {"batch", "per_fid"}, call' = Begin(call, place, fids)
      PROVE  PlanInv'
  <2>1. place \in Points
    BY DEF Points
  <2>2. /\ call' \in CallType /\ call'.at = place
        /\ call'.candidates = fids /\ call'.todo = fids /\ call'.matched = Nothing
    <3>1. call' = Begin(call, place, fids)
      BY <1>5
    <3> QED BY <1>2, <2>1, <3>1, BeginCall
  <2>3. Wanted(call') \subseteq call'.todo /\ Plan(call')
    BY <1>5, <2>2 DEF Wanted, Plan
  <2> QED BY <1>1, <2>2, <2>3, FreshStart, CallGoesOn
<1>6. CASE FusedFails
  <2>1. call' = Begin(call, "bbox", {}) /\ {} \in SUBSET Fids
    BY <1>6 DEF FusedFails, Step
  <2> QED BY <2>1, <1>4
<1>7. CASE DenseFails
  <2> DEFINE fids == IF call.candidates = {} THEN Active ELSE call.candidates
  <2>1. fids \in SUBSET Fids /\ Intersecting \subseteq fids
    BY <1>2, <1>3, <1>7 DEF DenseFails, Plan
  <2>2. call' = Begin(call, "batch", fids)
    BY <1>7 DEF DenseFails, Step
  <2> QED BY <2>1, <2>2, <1>5
<1>8. CASE BatchFails
  <2>1. Intersecting \subseteq call.candidates
    BY <1>2, <1>8 DEF BatchFails, Plan
  <2>2. call' = Begin(call, "per_fid", call.candidates)
    BY <1>8 DEF BatchFails, Step
  <2> QED BY <1>3, <2>1, <2>2, <1>5
<1> QED BY <1>6, <1>7, <1>8

LEMMA SpatialStep ==
    ASSUME PlanInv, DenseEnds \/ CandidatesEnd
    PROVE  PlanInv'
<1>1. /\ call.at \in {"dense", "batch", "per_fid"} /\ call.todo = {}
      /\ call' = [call EXCEPT !.at = "spatial"]
      /\ UNCHANGED <<source, spatial_index, result>>
  BY DEF DenseEnds, CandidatesEnd, Step
<1>2. call \in CallType /\ PlannerTypeOK /\ Progress(call)
  BY <1>1, BusyCall DEF PlanInv
<1>3. /\ call' \in CallType /\ call'.at = "spatial" /\ call'.todo = {}
      /\ call'.matched = call.matched /\ call'.invalid = call.invalid
      /\ call'.canonical = call.canonical
  BY <1>1, <1>2 DEF CallType
<1>4. Wanted(call) = Intersecting /\ Wanted(call') = Intersecting
  BY <1>1, <1>3 DEF Wanted
<1>5. Progress(call') /\ Plan(call')
  BY <1>1, <1>2, <1>3, <1>4 DEF Progress, Plan
<1> QED BY <1>1, <1>3, <1>5, CallGoesOn
-----------------------------------------------------------------------------
(***************************************************************************)
(* The recheck of the clause, and the end of a query.                      *)
(***************************************************************************)
LEMMA WhereFailsStep ==
    ASSUME PlanInv, WhereFails
    PROVE  PlanInv'
<1>1. call.at = "where" /\ UNCHANGED <<source, spatial_index, result>>
  BY DEF WhereFails, Step
<1>2. call \in CallType /\ Plan(call)
  BY <1>1, BusyCall DEF PlanInv
<1>3. call.candidates \in SUBSET Fids
  BY <1>2 DEF CallType
<1> DEFINE b == Begin(call, "canonical", call.candidates)
<1>4. "canonical" \in Points
  BY DEF Points
<1>5. /\ b \in CallType /\ b.at = "canonical" /\ b.candidates = call.candidates
      /\ b.todo = call.candidates /\ b.matched = Nothing /\ b.kind = call.kind
      /\ b.spatial_invalid = call.spatial_invalid
  BY ZenonT(40), <1>2, <1>3, <1>4, BeginCall
<1>6. call' = [b EXCEPT !.canonical = TRUE]
  BY DEF WhereFails, Step
<1> HIDE DEF b
<1>7. /\ call' \in CallType /\ call'.at = "canonical" /\ call'.canonical
      /\ call'.candidates = call.candidates /\ call'.todo = call.candidates
      /\ call'.matched = Nothing /\ call'.kind = call.kind
  BY <1>5, <1>6 DEF CallType
<1>8. Wanted(call') \subseteq call'.todo /\ Plan(call')
  BY <1>1, <1>2, <1>7 DEF Wanted, Plan
<1> QED BY <1>1, <1>7, <1>8, FreshStart, CallGoesOn

LEMMA OnceType ==
    ASSUME NEW S \in SUBSET Fids
    PROVE  /\ Once(S) \in [Fids -> Nat]
           /\ \A f \in Fids : Once(S)[f] <= 1 /\ (Once(S)[f] > 0 <=> f \in S)
BY DEF Once

LEMMA PublishStep ==
    ASSUME PlanInv, FusedEnds \/ SpatialEnds \/ WhereEnds
    PROVE  PlanInv'
<1>1. /\ call.at \in {"fused", "spatial", "where", "canonical"}
      /\ UNCHANGED <<source, spatial_index>>
  BY DEF FusedEnds, SpatialEnds, WhereEnds
<1>2. call \in CallType /\ PlannerTypeOK /\ Progress(call) /\ Plan(call)
  BY <1>1, BusyCall DEF PlanInv
<1>3. call.matched \in [Fids -> Nat] /\ Wanted(call) \subseteq Fids
  BY <1>2, SomeFacts DEF CallType, Wanted
<1>4. CASE FusedEnds \/ SpatialEnds
  <2>1. Publish(call, call.matched) /\ call.todo = {}
    BY <1>2, <1>4 DEF FusedEnds, SpatialEnds, Plan
  <2>2. Wanted(call) = Answer(call)
    BY <1>2, <1>4 DEF FusedEnds, SpatialEnds, Wanted, Answer, Plan
  <2> QED BY <1>1, <1>2, <1>3, <2>1, <2>2, CallIsPublished DEF Progress
<1>5. CASE WhereEnds
  <2> DEFINE m == Once(FidsOf(call.matched))
  <2>1. Publish(call, m) /\ call.todo = {} /\ call.at \in {"where", "canonical"}
    BY <1>5 DEF WhereEnds
  <2>2. FidsOf(call.matched) \in SUBSET Fids
    BY DEF FidsOf
  <2>3. m \in [Fids -> Nat] /\ \A f \in Fids :
          m[f] <= 1 /\ (m[f] > 0 <=> call.matched[f] > 0)
    BY <2>2, OnceType DEF FidsOf
  <2> HIDE DEF m
  <2>4. /\ Wanted(call) \subseteq Answer(call)
        /\ ~call.spatial_invalid /\ ~call.canonical
             => Answer(call) \subseteq Wanted(call)
    BY <1>2, <2>1 DEF Wanted, Answer, Plan
  <2>5. \A f \in Fids : m[f] <= 1 /\ (m[f] > 0 => f \in Answer(call))
    BY <1>2, <2>3, <2>4 DEF Progress
  <2>6. ~call.invalid /\ ~call.spatial_invalid /\ ~call.canonical =>
          \A f \in Answer(call) : m[f] > 0
    BY <1>2, <1>3, <2>1, <2>3, <2>4 DEF Progress
  <2> QED BY <1>1, <1>2, <2>1, <2>3, <2>5, <2>6, CallIsPublished
<1> QED BY <1>4, <1>5

LEMMA UseAttributesStep ==
    ASSUME PlanInv, UseAttributes
    PROVE  PlanInv'
<1>1. /\ call.at = "spatial" /\ call.kind = "SpatialWhere"
      /\ UNCHANGED <<source, spatial_index>>
  BY DEF UseAttributes
<1>2. call \in CallType /\ PlannerTypeOK /\ Progress(call) /\ Plan(call)
  BY <1>1, BusyCall DEF PlanInv
<1>3. PICK rest \in SUBSET Fids :
        /\ rest \subseteq FidsOf(call.matched)
        /\ FidsOf(call.matched) \cap source.where \subseteq rest
        /\ IF rest = {} THEN Publish(call, Nothing)
           ELSE /\ call' = [Begin(call, "where", rest)
                             EXCEPT !.spatial_invalid = call.invalid]
                /\ UNCHANGED result
  <2> DEFINE found == FidsOf(call.matched)
             used == /\ call.predicate /\ source.atx = "good"
                     /\ ~should_bypass_attribute_index(Cardinality(found))
             rest == IF used THEN found \cap source.atx_fids ELSE found
  <2>1. used => source.where \subseteq source.atx_fids
    BY <1>2, SomeFacts
  <2>2. found \in SUBSET Fids
    BY DEF FidsOf
  <2>3. IF rest = {} THEN Publish(call, Nothing)
        ELSE Step([Begin(call, "where", rest) EXCEPT !.spatial_invalid = call.invalid])
    BY DEF UseAttributes
  <2> QED BY <2>1, <2>2, <2>3 DEF Step
<1>4. /\ rest \subseteq Intersecting
      /\ ~call.invalid /\ ~call.canonical =>
           Intersecting \cap source.where \subseteq rest
  <2>1. Wanted(call) = Intersecting /\ call.todo = {} /\ Intersecting \subseteq Fids
    BY <1>1, <1>2, SomeFacts DEF Wanted, Plan
  <2> QED BY <1>2, <1>3, <2>1 DEF Progress, FidsOf
<1>5. CASE rest = {}
  <2>1. Publish(call, Nothing)
    BY <1>3, <1>5
  <2>2. ~call.invalid /\ ~call.canonical => Answer(call) = {}
    BY <1>1, <1>4, <1>5 DEF Answer
  <2> QED BY <1>1, <1>2, <2>1, <2>2, NothingType, CallIsPublished
<1>6. CASE rest # {}
  <2> DEFINE b == Begin(call, "where", rest)
  <2>1. "where" \in Points
    BY DEF Points
  <2>2. /\ b \in CallType /\ b.at = "where" /\ b.candidates = rest
        /\ b.todo = rest /\ b.matched = Nothing /\ b.kind = call.kind
        /\ b.canonical = call.canonical
    BY ZenonT(40), <1>2, <2>1, BeginCall
  <2>3. call' = [b EXCEPT !.spatial_invalid = call.invalid] /\ UNCHANGED result
    BY <1>3, <1>6
  <2> HIDE DEF b
  <2>4. /\ call' \in CallType /\ call'.at = "where" /\ call'.candidates = rest
        /\ call'.todo = rest /\ call'.matched = Nothing /\ call'.kind = call.kind
        /\ call'.canonical = call.canonical /\ call'.spatial_invalid = call.invalid
    BY <1>2, <2>2, <2>3 DEF CallType
  <2>5. Wanted(call') \subseteq call'.todo /\ Plan(call')
    BY <1>1, <1>4, <2>4 DEF Wanted, Plan
  <2> QED BY <1>1, <2>3, <2>4, <2>5, FreshStart, CallGoesOn
<1> QED BY <1>5, <1>6
-----------------------------------------------------------------------------
(***************************************************************************)
(* The theorems.                                                           *)
(***************************************************************************)
LEMMA PlanInvStays ==
    ASSUME PlanInv, [Next]_vars
    PROVE  PlanInv'
<1>1. CASE UNCHANGED vars
  BY <1>1 DEF vars, PlanInv, PlannerTypeOK, Progress, Plan, Wanted, Intersecting,
         IntersectingRows, PlannedResultIsSound, PlannedResultIsComplete, Answer,
         Once
<1>2. CASE Next
  BY <1>2, QueryStep, PlanStep, RowStep, HandOverStep, SpatialStep,
     WhereFailsStep, PublishStep, UseAttributesStep DEF Next, CallStep
<1> QED BY <1>1, <1>2

THEOREM PlannerInvariant == Spec => []PlanInv
<1>1. Init => PlanInv
  BY DEF Init, PlanInv, PlannerTypeOK, PlannedResultIsSound,
         PlannedResultIsComplete, Idle, Opened
<1>2. PlanInv /\ [Next]_vars => PlanInv'
  BY PlanInvStays
<1> QED BY <1>1, <1>2, PTL DEF Spec

\* The planner's variables stay in their ranges.
THEOREM PlannerTypes == Spec => []PlannerTypeOK
<1>1. PlanInv => PlannerTypeOK
  BY DEF PlanInv
<1> QED BY <1>1, PlannerInvariant, PTL

\* Whichever way a query takes and gives up, for every table and whatever its
\* indexes and reads do: no feature that does not match is published, and none
\* twice.
THEOREM PlannerSoundness == Spec => []PlannedResultIsSound
<1>1. PlanInv => PlannedResultIsSound
  BY DEF PlanInv
<1> QED BY <1>1, PlannerInvariant, PTL

\* ... and each feature that matches is published, unless the result says that
\* rows could not be judged or were read one by one.
THEOREM PlannerCompleteness == Spec => []PlannedResultIsComplete
<1>1. PlanInv => PlannedResultIsComplete
  BY DEF PlanInv
<1> QED BY <1>1, PlannerInvariant, PTL

----------------------------------------------------------------------------
(***************************************************************************)
(* The indexes of IndexedQuery. First the numbers and functions that the   *)
(* proofs need: least and greatest numbers, counting up, functions defined *)
(* from one place to the next, and division.                               *)
(***************************************************************************)
LEMMA LeastNumber ==
  ASSUME NEW T, T \subseteq Nat, T # {}
  PROVE  \E x \in T : \A y \in T : x <= y
  <1> DEFINE R == OpToRel(<, Nat)
  <1>1. IsWellFoundedOn(R, Nat)
    BY NatLessThanWellFounded
  <1>2. \A a, b \in Nat : a < b => <<a, b>> \in R
    BY DEF OpToRel
  <1> HIDE DEF R
  <1>3. PICK x \in T : \A y \in T : ~(<<y, x>> \in R)
    BY <1>1, WFMin
  <1>4. ASSUME NEW y \in T PROVE x <= y
    <2>1. x \in Nat /\ y \in Nat /\ ~(<<y, x>> \in R)
      BY <1>3
    <2>2. ~(y < x)
      BY <1>2, <2>1
    <2>. QED
      BY <2>1, <2>2
  <1>. QED
    BY <1>4
LEMMA GreatestNumber ==
  ASSUME NEW n \in Nat, NEW T, T \subseteq 0 .. n, T # {}
  PROVE  \E x \in T : \A y \in T : x >= y
  <1> DEFINE D == {n - x : x \in T}
  <1>1. D \subseteq Nat /\ D # {}
    <2>1. \A x \in T : n - x \in Nat /\ n - x \in D
      OBVIOUS
    <2> QED BY <2>1
  <1>2. PICK d \in D : \A e \in D : d <= e
    <2> HIDE DEF D
    <2> QED BY <1>1, LeastNumber
  <1>3. PICK x \in T : d = n - x
    OBVIOUS
  <1>4. ASSUME NEW y \in T PROVE x >= y
    <2>1. n - x <= n - y
      BY <1>2, <1>3
    <2>2. x \in Int /\ y \in Int
      OBVIOUS
    <2> QED BY <2>1, <2>2
  <1> QED BY <1>4

LEMMA MinIs ==
  ASSUME NEW T, T \subseteq Nat, T # {}
  PROVE  Min(T) \in T /\ \A y \in T : Min(T) <= y
  BY LeastNumber DEF Min

LEMMA MaxIs ==
  ASSUME NEW n \in Nat, NEW T, T \subseteq 0 .. n, T # {}
  PROVE  Max(T) \in T /\ \A y \in T : Max(T) >= y
  BY GreatestNumber DEF Max

LEMMA Upwards ==
  ASSUME NEW n \in Nat, NEW S, 0 \in S, \A i \in 1 .. n : i - 1 \in S => i \in S
  PROVE  \A i \in 0 .. n : i \in S
  <1> DEFINE T == {i \in 0 .. n : i \notin S}
  <1> SUFFICES ASSUME T # {} PROVE FALSE
    OBVIOUS
  <1>1. T \subseteq Nat
    OBVIOUS
  <1>2. PICK x \in T : \A y \in T : x <= y
    <2> HIDE DEF T
    <2> QED BY <1>1, LeastNumber
  <1>3. x \in 1 .. n /\ x - 1 \in 0 .. n /\ ~(x <= x - 1)
    OBVIOUS
  <1> QED BY <1>2, <1>3

\* A function can be defined step by step.
Steps(T, n, V, v, step) ==
    T \in [0 .. n -> V] /\ T[0] = v /\ \A i \in 1 .. n : T[i] = step[i][T[i - 1]]

LEMMA StepByStep ==
  ASSUME NEW n \in Nat, NEW V, NEW v \in V, NEW step \in [1 .. n -> [V -> V]]
  PROVE  \E T : Steps(T, n, V, v, step)
  <1> DEFINE Upto(m, T) == T[0] = v /\ \A i \in 1 .. m : T[i] = step[i][T[i - 1]]
             S == {m \in 0 .. n : \E T \in [0 .. m -> V] : Upto(m, T)}
  <1>1. 0 \in S
    <2> DEFINE T == [i \in 0 .. 0 |-> v]
    <2>1. T \in [0 .. 0 -> V] /\ Upto(0, T) /\ 0 \in 0 .. n
      OBVIOUS
    <2> HIDE DEF T, Upto
    <2> QED BY <2>1
  <1>2. ASSUME NEW m \in 1 .. n, m - 1 \in S PROVE m \in S
    <2>1. PICK T \in [0 .. m - 1 -> V] : Upto(m - 1, T)
      BY <1>2
    <2> DEFINE U == [i \in 0 .. m |-> IF i = m THEN step[m][T[m - 1]] ELSE T[i]]
    <2>2. step[m][T[m - 1]] \in V
      OBVIOUS
    <2>3. U \in [0 .. m -> V]
      <3>1. \A i \in 0 .. m : i # m => i \in 0 .. m - 1
        OBVIOUS
      <3> QED BY <2>2, <3>1
    <2>4. U[0] = v
      BY <2>1
    <2>5. ASSUME NEW i \in 1 .. m PROVE U[i] = step[i][U[i - 1]]
      <3>1. i - 1 \in 0 .. m /\ i - 1 # m /\ U[i - 1] = T[i - 1]
        OBVIOUS
      <3>2. CASE i = m
        BY <3>1, <3>2
      <3>3. CASE i # m
        <4>1. i \in 1 .. m - 1 /\ U[i] = T[i]
          BY <3>3
        <4> QED BY <2>1, <3>1, <4>1
      <3> QED BY <3>2, <3>3
    <2> HIDE DEF U
    <2>6. Upto(m, U) /\ m \in 0 .. n
      BY <2>4, <2>5
    <2> HIDE DEF Upto
    <2> QED BY <2>3, <2>6
  <1>3. n \in S
    <2> HIDE DEF S
    <2>1. \A m \in 1 .. n : m - 1 \in S => m \in S
      BY <1>2
    <2>2. \A m \in 0 .. n : m \in S
      BY <1>1, <2>1, Upwards
    <2> QED BY <2>2
  <1>4. PICK T \in [0 .. n -> V] : Upto(n, T)
    BY <1>3
  <1>5. Steps(T, n, V, v, step)
    BY <1>4 DEF Steps
  <1> QED BY <1>5

\* Counting down.
LEMMA Downwards ==
  ASSUME NEW n \in Nat, NEW S, n \in S, \A i \in 0 .. n - 1 : i + 1 \in S => i \in S
  PROVE  \A i \in 0 .. n : i \in S
  <1> DEFINE T == {i \in 0 .. n : n - i \in S}
  <1>1. 0 \in T
    OBVIOUS
  <1>2. ASSUME NEW i \in 1 .. n, i - 1 \in T PROVE i \in T
    <2>1. n - i \in 0 .. n - 1 /\ (n - i) + 1 = n - (i - 1) /\ i \in 0 .. n
      OBVIOUS
    <2> QED BY <1>2, <2>1
  <1>3. \A i \in 0 .. n : i \in T
    <2> HIDE DEF T
    <2>1. \A i \in 1 .. n : i - 1 \in T => i \in T
      BY <1>2
    <2> QED BY <1>1, <2>1, Upwards
  <1>4. ASSUME NEW i \in 0 .. n PROVE i \in S
    <2>1. n - i \in 0 .. n /\ n - (n - i) = i
      OBVIOUS
    <2>2. n - i \in T
      BY <1>3, <2>1
    <2> QED BY <2>1, <2>2
  <1> QED BY <1>4

LEMMA DivisionIs ==
  ASSUME NEW a \in Int, NEW d \in Nat \ {0}
  PROVE  /\ a \div d \in Int /\ a % d \in 0 .. d - 1
         /\ a = d * (a \div d) + (a % d)
  OBVIOUS

LEMMA ProductGrows ==
  ASSUME NEW d \in Nat \ {0}, NEW m \in Int, NEW n \in Int, m < n
  PROVE  d * m + d <= d * n
  <1>1. d * (m + 1) <= d * n
    <2>1. n - m - 1 \in Nat
      OBVIOUS
    <2>2. d * (n - m - 1) \in Nat
      BY <2>1
    <2>3. d * (n - m - 1) = d * n - d * (m + 1)
      OBVIOUS
    <2> QED BY <2>2, <2>3
  <1>2. d * (m + 1) = d * m + d
    OBVIOUS
  <1> QED BY <1>1, <1>2

LEMMA DivisionIsMonotone ==
  ASSUME NEW a \in Int, NEW b \in Int, a <= b, NEW d \in Nat \ {0}
  PROVE  a \div d <= b \div d
  <1> DEFINE m == b \div d
             n == a \div d
  <1> SUFFICES ASSUME m < n PROVE FALSE
    BY DivisionIs
  <1>1. /\ m \in Int /\ n \in Int /\ a % d \in 0 .. d - 1 /\ b % d \in 0 .. d - 1
        /\ a = d * n + (a % d) /\ b = d * m + (b % d)
    BY DivisionIs
  <1>2. d * m + d <= d * n
    BY <1>1, ProductGrows
  <1>3. d * m \in Int /\ d * n \in Int
    BY <1>1
  <1> HIDE DEF m, n
  <1> QED BY <1>1, <1>2, <1>3

-----------------------------------------------------------------------------
(***************************************************************************)
(* The binary searches of a page.                                          *)
(***************************************************************************)
AreAscending(keys) ==
    keys \in Seq(Nat) /\ \A i, j \in DOMAIN keys : i <= j => keys[i] <= keys[j]

Span(n) == [lo : 1 .. n, hi : 1 .. n]

LastRound(left, keys, max) ==
    IF left.hi - left.lo < 2 THEN left
    ELSE IF keys[Middle(left)] <= max THEN [left EXCEPT !.lo = Middle(left)]
    ELSE [left EXCEPT !.hi = Middle(left)]

FirstRound(left, keys, min) ==
    IF left.hi - left.lo < 2 THEN left
    ELSE IF keys[Middle(left)] >= min THEN [left EXCEPT !.hi = Middle(left)]
    ELSE [left EXCEPT !.lo = Middle(left)]

LastFrom(F, keys, max) ==
    F = [n \in 0 .. Len(keys) |->
            IF n = 0 THEN [lo |-> 1, hi |-> Len(keys)] ELSE LastRound(F[n - 1], keys, max)]

FirstFrom(F, keys, min, last) ==
    F = [n \in 0 .. last |->
            IF n = 0 THEN [lo |-> 1, hi |-> last] ELSE FirstRound(F[n - 1], keys, min)]

LEMMA MiddleIs ==
  ASSUME NEW n \in Nat, NEW left \in Span(n)
  PROVE  /\ Middle(left) \in 1 .. n
         /\ left.hi - left.lo >= 2 => left.lo < Middle(left) /\ Middle(left) < left.hi
  <1>1. left.lo \in 1 .. n /\ left.hi \in 1 .. n
    BY DEF Span
  <1>2. \A a, b \in 1 .. n : (a + b) \div 2 \in 1 .. n
    OBVIOUS
  <1>3. \A a, b \in 1 .. n : b - a >= 2 => a < (a + b) \div 2 /\ (a + b) \div 2 < b
    OBVIOUS
  <1> QED BY <1>1, <1>2, <1>3 DEF Middle

LEMMA LastRoundStays ==
  ASSUME NEW keys \in Seq(Nat), NEW max \in Nat, NEW left \in Span(Len(keys))
  PROVE  LastRound(left, keys, max) \in Span(Len(keys))
  <1>1. Len(keys) \in Nat
    OBVIOUS
  <1>2. Middle(left) \in 1 .. Len(keys)
    BY <1>1, MiddleIs
  <1> HIDE DEF Middle
  <1> QED BY <1>2 DEF LastRound, Span

LEMMA FirstRoundStays ==
  ASSUME NEW keys, NEW min, NEW last \in Nat, NEW left \in Span(last)
  PROVE  FirstRound(left, keys, min) \in Span(last)
  <1>2. Middle(left) \in 1 .. last
    BY MiddleIs
  <1> HIDE DEF Middle
  <1> QED BY <1>2 DEF FirstRound, Span

LEMMA LastExists ==
  ASSUME NEW keys \in Seq(Nat), keys # <<>>, NEW max \in Nat
  PROVE  \E F : LastFrom(F, keys, max) /\ F \in [0 .. Len(keys) -> Span(Len(keys))]
  <1> DEFINE L0 == Len(keys)
             V == Span(L0)
             v == [lo |-> 1, hi |-> L0]
             step == [i \in 1 .. L0 |-> [left \in V |-> LastRound(left, keys, max)]]
  <1>1. L0 \in Nat /\ L0 >= 1
    BY EmptySeq
  <1>2. v \in V
    BY <1>1 DEF Span
  <1>3. step \in [1 .. L0 -> [V -> V]]
    <2>1. \A left \in V : LastRound(left, keys, max) \in V
      BY LastRoundStays
    <2> HIDE DEF V
    <2> QED BY <2>1
  <1>4. PICK F : Steps(F, L0, V, v, step)
    <2> HIDE DEF V, v, step, L0
    <2> QED BY <1>1, <1>2, <1>3, StepByStep
  <1>5. F \in [0 .. L0 -> V] /\ F[0] = v
    BY <1>4 DEF Steps
  <1>6. \A i \in 1 .. L0 : F[i] = LastRound(F[i - 1], keys, max)
    <2> SUFFICES ASSUME NEW i \in 1 .. L0 PROVE F[i] = LastRound(F[i - 1], keys, max)
      OBVIOUS
    <2>1. F[i] = step[i][F[i - 1]]
      BY <1>4 DEF Steps
    <2>2. F[i - 1] \in V
      <3>1. i - 1 \in 0 .. L0
        BY <1>1
      <3> QED BY <1>5, <3>1
    <2> HIDE DEF V
    <2> QED BY <2>1, <2>2
  <1>7. LastFrom(F, keys, max)
    <2>1. F = [i \in 0 .. L0 |-> F[i]]
      BY <1>5
    <2>2. \A i \in 0 .. L0 : F[i] = IF i = 0 THEN [lo |-> 1, hi |-> Len(keys)]
                                     ELSE LastRound(F[i - 1], keys, max)
      <3>1. \A i \in 0 .. L0 : i # 0 => i \in 1 .. L0
        BY <1>1
      <3> QED BY <1>5, <1>6, <3>1
    <2> QED BY <2>1, <2>2 DEF LastFrom
  <1> QED BY <1>5, <1>7

LEMMA FirstExists ==
  ASSUME NEW keys, NEW min, NEW last \in Nat \ {0}
  PROVE  \E F : FirstFrom(F, keys, min, last) /\ F \in [0 .. last -> Span(last)]
  <1> DEFINE V == Span(last)
             v == [lo |-> 1, hi |-> last]
             step == [i \in 1 .. last |-> [left \in V |-> FirstRound(left, keys, min)]]
  <1>2. v \in V
    BY DEF Span
  <1>3. step \in [1 .. last -> [V -> V]]
    <2>1. \A left \in V : FirstRound(left, keys, min) \in V
      BY FirstRoundStays
    <2> HIDE DEF V
    <2> QED BY <2>1
  <1>4. PICK F : Steps(F, last, V, v, step)
    <2> HIDE DEF V, v, step
    <2> QED BY <1>2, <1>3, StepByStep
  <1>5. F \in [0 .. last -> V] /\ F[0] = v
    BY <1>4 DEF Steps
  <1>6. \A i \in 1 .. last : F[i] = FirstRound(F[i - 1], keys, min)
    <2> SUFFICES ASSUME NEW i \in 1 .. last PROVE F[i] = FirstRound(F[i - 1], keys, min)
      OBVIOUS
    <2>1. F[i] = step[i][F[i - 1]]
      BY <1>4 DEF Steps
    <2>2. F[i - 1] \in V
      <3>1. i - 1 \in 0 .. last
        OBVIOUS
      <3> QED BY <1>5, <3>1
    <2> HIDE DEF V
    <2> QED BY <2>1, <2>2
  <1>7. FirstFrom(F, keys, min, last)
    <2>1. F = [i \in 0 .. last |-> F[i]]
      BY <1>5
    <2>2. \A i \in 0 .. last : F[i] = IF i = 0 THEN [lo |-> 1, hi |-> last]
                                     ELSE FirstRound(F[i - 1], keys, min)
      <3>1. \A i \in 0 .. last : i # 0 => i \in 1 .. last
        OBVIOUS
      <3> QED BY <1>5, <1>6, <3>1
    <2> QED BY <2>1, <2>2 DEF FirstFrom
  <1> QED BY <1>5, <1>7

\* The first search does not stop before a key that is not above `max`.
LEMMA NarrowToLastReaches ==
  ASSUME NEW keys, AreAscending(keys), NEW max \in Nat,
         NEW k \in DOMAIN keys, keys[k] <= max
  PROVE  NarrowToLast(keys, max) \in 1 .. Len(keys) /\ k <= NarrowToLast(keys, max)
  <1> DEFINE n == Len(keys)
             F == CHOOSE G : LastFrom(G, keys, max)
  <1>1. keys \in Seq(Nat) /\ n \in Nat /\ DOMAIN keys = 1 .. n /\ keys # <<>>
    BY DEF AreAscending
  <1>2. LastFrom(F, keys, max)
    BY <1>1, LastExists
  <1>3. NarrowToLast(keys, max) = F[n].hi
    BY DEF NarrowToLast, LastFrom, LastRound
  <1> HIDE DEF F
  <1>4. F[0] = [lo |-> 1, hi |-> n] /\ \A i \in 1 .. n : F[i] = LastRound(F[i - 1], keys, max)
    <2>1. 0 \in 0 .. n /\ \A i \in 1 .. n : i \in 0 .. n /\ i # 0
      BY <1>1
    <2> QED BY <1>2, <2>1 DEF LastFrom
  <1> DEFINE S == {i \in 0 .. n : F[i] \in Span(n) /\ k <= F[i].hi}
  <1>5. 0 \in S
    BY <1>1, <1>4 DEF Span
  <1>6. ASSUME NEW i \in 1 .. n, i - 1 \in S PROVE i \in S
    <2> DEFINE left == F[i - 1]
               m == Middle(left)
    <2>1. left \in Span(n) /\ k <= left.hi /\ F[i] = LastRound(left, keys, max) /\ i \in 0 .. n
      BY <1>1, <1>4, <1>6
    <2> HIDE DEF left
    <2>2. LastRound(left, keys, max) \in Span(n)
      BY <1>1, <2>1, LastRoundStays
    <2>3. m \in 1 .. n
      BY <1>1, <2>1, MiddleIs
    <2>4. left.lo \in 1 .. n /\ left.hi \in 1 .. n
          /\ LastRound(left, keys, max).hi \in {left.hi, m}
          /\ (LastRound(left, keys, max).hi = left.hi \/ ~(keys[m] <= max))
      <3>1. left.lo \in 1 .. n /\ left.hi \in 1 .. n /\ left = [lo |-> left.lo, hi |-> left.hi]
        BY <2>1 DEF Span
      <3> HIDE DEF n
      <3> QED BY <3>1 DEF LastRound
    <2>5. ~(keys[m] <= max) => k <= m
      <3> SUFFICES ASSUME ~(keys[m] <= max), m < k PROVE FALSE
        BY <1>1, <2>3
      <3>1. keys[m] <= keys[k] /\ keys[m] \in Nat /\ keys[k] \in Nat
        BY <1>1, <2>3 DEF AreAscending
      <3> QED BY <3>1
    <2>6. k <= LastRound(left, keys, max).hi
      BY <2>1, <2>4, <2>5
    <2> QED BY <2>1, <2>2, <2>6
  <1>7. n \in S
    <2> HIDE DEF S
    <2>1. \A i \in 1 .. n : i - 1 \in S => i \in S
      BY <1>6
    <2>2. \A i \in 0 .. n : i \in S
      BY <1>1, <1>5, <2>1, Upwards
    <2> QED BY <1>1, <2>2
  <1> QED BY <1>3, <1>7 DEF Span

\* The second does not start after a key that is not below `min`.
LEMMA NarrowToFirstReaches ==
  ASSUME NEW keys, AreAscending(keys), NEW min \in Nat, NEW last \in DOMAIN keys,
         NEW k \in 1 .. last, keys[k] >= min
  PROVE  NarrowToFirst(keys, min, last) \in 1 .. last /\ NarrowToFirst(keys, min, last) <= k
  <1> DEFINE F == CHOOSE G : FirstFrom(G, keys, min, last)
  <1>1. /\ keys \in Seq(Nat) /\ Len(keys) \in Nat /\ DOMAIN keys = 1 .. Len(keys)
        /\ last \in Nat \ {0} /\ last <= Len(keys)
    BY DEF AreAscending
  <1>2. FirstFrom(F, keys, min, last)
    BY <1>1, FirstExists
  <1>3. NarrowToFirst(keys, min, last) = F[last].lo
    BY DEF NarrowToFirst, FirstFrom, FirstRound
  <1> HIDE DEF F
  <1>4. F[0] = [lo |-> 1, hi |-> last]
        /\ \A i \in 1 .. last : F[i] = FirstRound(F[i - 1], keys, min)
    <2>1. 0 \in 0 .. last /\ \A i \in 1 .. last : i \in 0 .. last /\ i # 0
      BY <1>1
    <2> QED BY <1>2, <2>1 DEF FirstFrom
  <1> DEFINE S == {i \in 0 .. last : F[i] \in Span(last) /\ F[i].lo <= k}
  <1>5. 0 \in S
    BY <1>1, <1>4 DEF Span
  <1>6. ASSUME NEW i \in 1 .. last, i - 1 \in S PROVE i \in S
    <2> DEFINE left == F[i - 1]
               m == Middle(left)
    <2>1. left \in Span(last) /\ left.lo <= k /\ F[i] = FirstRound(left, keys, min)
          /\ i \in 0 .. last
      BY <1>1, <1>4, <1>6
    <2> HIDE DEF left
    <2>2. FirstRound(left, keys, min) \in Span(last)
      BY <1>1, <2>1, FirstRoundStays
    <2>3. m \in 1 .. last
      BY <1>1, <2>1, MiddleIs
    <2>4. left.lo \in 1 .. last /\ left.hi \in 1 .. last
          /\ FirstRound(left, keys, min).lo \in {left.lo, m}
          /\ (FirstRound(left, keys, min).lo = left.lo \/ ~(keys[m] >= min))
      <3>1. left.lo \in 1 .. last /\ left.hi \in 1 .. last
            /\ left = [lo |-> left.lo, hi |-> left.hi]
        BY <2>1 DEF Span
      <3> QED BY <3>1 DEF FirstRound
    <2>5. ~(keys[m] >= min) => m <= k
      <3> SUFFICES ASSUME ~(keys[m] >= min), k < m PROVE FALSE
        BY <1>1, <2>3
      <3>1. keys[k] <= keys[m] /\ keys[m] \in Nat /\ keys[k] \in Nat
        BY <1>1, <2>3 DEF AreAscending
      <3> QED BY <3>1
    <2>6. FirstRound(left, keys, min).lo <= k
      BY <2>1, <2>4, <2>5
    <2> QED BY <2>1, <2>2, <2>6
  <1>7. last \in S
    <2> HIDE DEF S
    <2>1. \A i \in 1 .. last : i - 1 \in S => i \in S
      BY <1>6
    <2>2. \A i \in 0 .. last : i \in S
      BY <1>1, <1>5, <2>1, Upwards
    <2> QED BY <1>1, <2>2
  <1> QED BY <1>3, <1>7 DEF Span

\* A page's search passes over no key of the query.
LEMMA SearchFindsKeys ==
  ASSUME NEW keys, AreAscending(keys), NEW min \in Nat, NEW max \in Nat,
         NEW k \in DOMAIN keys, min <= keys[k], keys[k] <= max
  PROVE  k \in find_minmax_idx(keys, min, max)
  <1> DEFINE not_above == {i \in 1 .. NarrowToLast(keys, max) : keys[i] <= max}
             last == Max(not_above)
             not_below == {i \in NarrowToFirst(keys, min, last) .. Len(keys) : keys[i] >= min}
  <1>1. keys \in Seq(Nat) /\ Len(keys) \in Nat /\ DOMAIN keys = 1 .. Len(keys)
    BY DEF AreAscending
  <1>2. NarrowToLast(keys, max) \in 1 .. Len(keys) /\ k <= NarrowToLast(keys, max)
    BY NarrowToLastReaches
  <1>3. k \in not_above /\ not_above \subseteq 0 .. Len(keys) /\ not_above \subseteq DOMAIN keys
    BY <1>1, <1>2
  <1>4. last \in not_above /\ last >= k
    <2> HIDE DEF not_above
    <2> QED BY <1>1, <1>3, MaxIs
  <1>5. last \in DOMAIN keys /\ k \in 1 .. last /\ last \in Nat
    BY <1>1, <1>3, <1>4
  <1>6. keys[k] >= min
    BY <1>1
  <1> HIDE DEF last
  <1>7. NarrowToFirst(keys, min, last) \in 1 .. last /\ NarrowToFirst(keys, min, last) <= k
    BY <1>5, <1>6, NarrowToFirstReaches
  <1>8. k \in not_below /\ not_below \subseteq Nat
    BY <1>1, <1>5, <1>6, <1>7
  <1>9. Min(not_below) \in Nat /\ Min(not_below) <= k
    <2> HIDE DEF not_below
    <2> QED BY <1>8, MinIs
  <1>10. find_minmax_idx(keys, min, max) = Min(not_below) .. last
    <2>1. not_above # {} /\ not_below # {}
      BY <1>3, <1>8
    <2> QED BY <2>1 DEF find_minmax_idx, last
  <1> QED BY <1>4, <1>5, <1>9, <1>10

-----------------------------------------------------------------------------
(***************************************************************************)
(* The tree of a .spx file, from its root to its leaves.                   *)
(***************************************************************************)
SpxPage == [keys : Seq(Nat), fids : Seq(Nat), children : Seq(Nat)]
SpxEntry == [key : Nat, fid : Nat]

EntriesOn(page) ==
    {[key |-> page.keys[i], fid |-> page.fids[i]] : i \in DOMAIN page.fids}

EntriesFrom(F, file) ==
    F = [n \in 0 .. file.depth - 1 |->
           [id \in DOMAIN file.pages |->
              IF n = 0 THEN EntriesOn(file.pages[id])
              ELSE UNION {F[n - 1][file.pages[id].children[i]] :
                            i \in DOMAIN file.pages[id].children}]]

FilledPages(file, ids) ==
    {id \in ids : id \in DOMAIN file.pages /\ file.pages[id].keys # <<>>}

PagesFrom(F, file, n, min, max) ==
    F = [k \in 0 .. n |->
           FilledPages(file, IF k = 0 THEN {1}
                             ELSE UNION {ChildrenInRange(file.pages[id], min, max) :
                                           id \in F[k - 1]})]

LEMMA TreeIs ==
  ASSUME NEW file, IsSearchTree(file)
  PROVE  /\ file.depth \in Nat \ {0} /\ 1 \in DOMAIN file.pages
         /\ \A id \in DOMAIN file.pages :
              /\ file.pages[id] \in SpxPage
              /\ AreAscending(file.pages[id].keys)
              /\ DOMAIN file.pages[id].fids \subseteq DOMAIN file.pages[id].keys
              /\ file.pages[id].children # <<>> =>
                   /\ file.pages[id].keys # <<>>
                   /\ Len(file.pages[id].children) = Len(file.pages[id].keys) + 1
              /\ \A i \in DOMAIN file.pages[id].children :
                   file.pages[id].children[i] \in DOMAIN file.pages
  <1>1. file.pages \in Seq(SpxPage) /\ file.pages # <<>> /\ file.depth \in Nat \ {0}
    BY DEF IsSearchTree, SpxPage
  <1>2. 1 \in DOMAIN file.pages
    BY <1>1, EmptySeq
  <1>3. ASSUME NEW id \in DOMAIN file.pages
        PROVE  /\ file.pages[id] \in SpxPage
               /\ AreAscending(file.pages[id].keys)
               /\ DOMAIN file.pages[id].fids \subseteq DOMAIN file.pages[id].keys
               /\ file.pages[id].children # <<>> =>
                    /\ file.pages[id].keys # <<>>
                    /\ Len(file.pages[id].children) = Len(file.pages[id].keys) + 1
               /\ \A i \in DOMAIN file.pages[id].children :
                    file.pages[id].children[i] \in DOMAIN file.pages
    <2>1. file.pages[id] \in SpxPage
      BY <1>1
    <2> DEFINE page == file.pages[id]
    <2>2. page.keys \in Seq(Nat) /\ page.fids \in Seq(Nat)
      BY <2>1 DEF SpxPage
    <2>3. AreAscending(page.keys)
      BY <2>2 DEF IsSearchTree, AreAscending
    <2>4. Len(page.fids) <= Len(page.keys)
      BY DEF IsSearchTree
    <2>5. DOMAIN page.fids \subseteq DOMAIN page.keys
      BY <2>2, <2>4
    <2>6. page.children # <<>> => page.keys # <<>> /\ Len(page.children) = Len(page.keys) + 1
      BY DEF IsSearchTree
    <2>7. \A i \in DOMAIN page.children : page.children[i] \in DOMAIN file.pages
      BY DEF IsSearchTree
    <2> QED BY <2>1, <2>3, <2>5, <2>6, <2>7
  <1> QED BY <1>1, <1>2, <1>3

LEMMA EntriesExist ==
  ASSUME NEW file, IsSearchTree(file)
  PROVE  \E F : EntriesFrom(F, file)
  <1> DEFINE n == file.depth - 1
             D == DOMAIN file.pages
             V == [D -> SUBSET SpxEntry]
             Below(T) == [id \in D |-> UNION {T[file.pages[id].children[i]] :
                                               i \in DOMAIN file.pages[id].children}]
             v == [id \in D |-> EntriesOn(file.pages[id])]
             step == [i \in 1 .. n |-> [T \in V |-> Below(T)]]
  <1>1. n \in Nat
    BY TreeIs
  <1>2. v \in V
    <2>1. ASSUME NEW id \in D PROVE EntriesOn(file.pages[id]) \subseteq SpxEntry
      <3>1. /\ file.pages[id].keys \in Seq(Nat) /\ file.pages[id].fids \in Seq(Nat)
            /\ DOMAIN file.pages[id].fids \subseteq DOMAIN file.pages[id].keys
        BY TreeIs DEF SpxPage
      <3> QED BY <3>1 DEF EntriesOn, SpxEntry
    <2> QED BY <2>1
  <1>3. ASSUME NEW T \in V PROVE Below(T) \in V
    <2>1. ASSUME NEW id \in D
          PROVE  UNION {T[file.pages[id].children[i]] : i \in DOMAIN file.pages[id].children}
                    \subseteq SpxEntry
      <3>1. \A i \in DOMAIN file.pages[id].children : file.pages[id].children[i] \in D
        BY TreeIs
      <3>2. \A c \in D : T[c] \subseteq SpxEntry
        BY <1>3
      <3> QED BY <3>1, <3>2
    <2> QED BY <2>1
  <1>4. step \in [1 .. n -> [V -> V]]
    <2> HIDE DEF V, Below
    <2> QED BY <1>3
  <1>5. PICK F : Steps(F, n, V, v, step)
    <2> HIDE DEF n, V, v, step
    <2> QED BY <1>1, <1>2, <1>4, StepByStep
  <1>6. F \in [0 .. n -> V] /\ F[0] = v
    BY <1>5 DEF Steps
  <1>7. ASSUME NEW i \in 1 .. n PROVE F[i] = Below(F[i - 1])
    <2>1. F[i] = step[i][F[i - 1]]
      BY <1>5 DEF Steps
    <2>2. F[i - 1] \in V
      <3>1. i - 1 \in 0 .. n
        BY <1>1
      <3> QED BY <1>6, <3>1
    <2> HIDE DEF V, Below
    <2> QED BY <2>1, <2>2
  <1>8. F = [i \in 0 .. n |-> IF i = 0 THEN v ELSE Below(F[i - 1])]
    <2>1. F = [i \in 0 .. n |-> F[i]]
      BY <1>6
    <2>2. \A i \in 0 .. n : i # 0 => i \in 1 .. n
      BY <1>1
    <2> HIDE DEF v, Below
    <2>3. \A i \in 0 .. n : F[i] = IF i = 0 THEN v ELSE Below(F[i - 1])
      BY <1>6, <1>7, <2>2
    <2> QED BY <2>1, <2>3
  <1>9. \A i \in 0 .. n : (IF i = 0 THEN v ELSE Below(F[i - 1]))
           = [id \in D |-> IF i = 0 THEN EntriesOn(file.pages[id])
                ELSE UNION {F[i - 1][file.pages[id].children[j]] :
                              j \in DOMAIN file.pages[id].children}]
    OBVIOUS
  <1>10. EntriesFrom(F, file)
    <2> HIDE DEF v, Below
    <2> QED BY <1>8, <1>9 DEF EntriesFrom
  <1> QED BY <1>10

\* The entries below a page are those below its children.
LEMMA EntriesAre ==
  ASSUME NEW file, IsSearchTree(file), NEW n \in 0 .. file.depth - 1,
         NEW id \in DOMAIN file.pages
  PROVE  /\ n = 0 => EntriesBelow(file)[n][id] = EntriesOn(file.pages[id])
         /\ n # 0 => \A e \in EntriesBelow(file)[n][id] :
                       \E i \in DOMAIN file.pages[id].children :
                         e \in EntriesBelow(file)[n - 1][file.pages[id].children[i]]
  <1> DEFINE F == CHOOSE G : EntriesFrom(G, file)
  <1>1. EntriesFrom(F, file)
    BY EntriesExist
  <1>2. EntriesBelow(file) = F
    BY DEF EntriesBelow, EntriesFrom, EntriesOn
  <1> HIDE DEF F
  <1>3. F[n] = [p \in DOMAIN file.pages |->
                  IF n = 0 THEN EntriesOn(file.pages[p])
                  ELSE UNION {F[n - 1][file.pages[p].children[i]] :
                                i \in DOMAIN file.pages[p].children}]
    BY <1>1 DEF EntriesFrom
  <1>4. n = 0 => F[n][id] = EntriesOn(file.pages[id])
    BY <1>3
  <1>5. n # 0 => F[n][id] = UNION {F[n - 1][file.pages[id].children[i]] :
                                     i \in DOMAIN file.pages[id].children}
    BY <1>3
  <1>6. n # 0 => \A e \in F[n][id] : \E i \in DOMAIN file.pages[id].children :
                    e \in F[n - 1][file.pages[id].children[i]]
    BY <1>5
  <1> QED BY <1>2, <1>4, <1>6

LEMMA PagesExist ==
  ASSUME NEW file, NEW n \in Nat, NEW min, NEW max
  PROVE  \E F : PagesFrom(F, file, n, min, max)
  <1> DEFINE V == SUBSET DOMAIN file.pages
             Next1(T) == FilledPages(file, UNION {ChildrenInRange(file.pages[id], min, max) :
                                                     id \in T})
             v == FilledPages(file, {1})
             step == [i \in 1 .. n |-> [T \in V |-> Next1(T)]]
  <1>1. v \in V /\ \A T : Next1(T) \in V
    BY DEF FilledPages
  <1>2. step \in [1 .. n -> [V -> V]]
    <2> HIDE DEF V, Next1
    <2> QED BY <1>1
  <1>3. PICK F : Steps(F, n, V, v, step)
    <2> HIDE DEF V, v, step
    <2> QED BY <1>1, <1>2, StepByStep
  <1>4. F \in [0 .. n -> V] /\ F[0] = v
    BY <1>3 DEF Steps
  <1>5. ASSUME NEW i \in 1 .. n PROVE F[i] = Next1(F[i - 1])
    <2>1. F[i] = step[i][F[i - 1]]
      BY <1>3 DEF Steps
    <2>2. F[i - 1] \in V
      <3>1. i - 1 \in 0 .. n
        OBVIOUS
      <3> QED BY <1>4, <3>1
    <2> HIDE DEF V, Next1
    <2> QED BY <2>1, <2>2
  <1>6. F = [i \in 0 .. n |-> IF i = 0 THEN v ELSE Next1(F[i - 1])]
    <2>1. F = [i \in 0 .. n |-> F[i]]
      BY <1>4
    <2>2. \A i \in 0 .. n : i # 0 => i \in 1 .. n
      OBVIOUS
    <2> HIDE DEF v, Next1
    <2>3. \A i \in 0 .. n : F[i] = IF i = 0 THEN v ELSE Next1(F[i - 1])
      BY <1>4, <1>5, <2>2
    <2> QED BY <2>1, <2>3
  <1>7. \A i \in 0 .. n : (IF i = 0 THEN v ELSE Next1(F[i - 1]))
           = FilledPages(file, IF i = 0 THEN {1}
                ELSE UNION {ChildrenInRange(file.pages[id], min, max) : id \in F[i - 1]})
    OBVIOUS
  <1>8. PagesFrom(F, file, n, min, max)
    <2> HIDE DEF v, Next1
    <2> QED BY <1>6, <1>7 DEF PagesFrom
  <1> QED BY <1>8

-----------------------------------------------------------------------------
(***************************************************************************)
(* Columns.                                                                *)
(***************************************************************************)
\* Within one grid the column grows with the key.
LEMMA ColumnsAscend ==
  ASSUME NEW a \in Nat, NEW b \in Nat, a <= b, b < CellSpan * CellSpan
  PROVE  ColumnOf(a) <= ColumnOf(b)
  <1>1. CellSpan \in Nat \ {0}
    BY SpatialIndexAssumption
  <1>2. ASSUME NEW k \in Nat, k < CellSpan * CellSpan
        PROVE  ColumnOf(k) = k \div CellSpan
    <2> DEFINE q == k \div CellSpan
    <2>1. q \in Int /\ k % CellSpan \in 0 .. CellSpan - 1 /\ k = CellSpan * q + (k % CellSpan)
      BY <1>1, DivisionIs
    <2>2. q >= 0
      <3> SUFFICES ASSUME q < 0 PROVE FALSE
        BY <2>1
      <3> HIDE DEF q
      <3>1. CellSpan * q + CellSpan <= CellSpan * 0
        BY <1>1, <2>1, ProductGrows
      <3>2. CellSpan * q \in Int /\ CellSpan * 0 = 0
        BY <1>1, <2>1
      <3> QED BY <1>1, <1>2, <2>1, <3>1, <3>2
    <2>3. q < CellSpan
      <3> SUFFICES ASSUME CellSpan <= q PROVE FALSE
        BY <1>1, <2>1
      <3> HIDE DEF q
      <3>1. CellSpan * CellSpan <= CellSpan * q
        <4>1. CellSpan = q \/ CellSpan * CellSpan + CellSpan <= CellSpan * q
          BY <1>1, <2>1, ProductGrows
        <4>2. CellSpan * CellSpan \in Int /\ CellSpan * q \in Int
          BY <1>1, <2>1
        <4> QED BY <1>1, <4>1, <4>2
      <3>2. CellSpan * CellSpan \in Int /\ CellSpan * q \in Int
        BY <1>1, <2>1
      <3> QED BY <1>1, <1>2, <2>1, <3>1, <3>2
    <2>4. q % CellSpan = q
      <3> HIDE DEF q
      <3> QED BY <1>1, <2>1, <2>2, <2>3
    <2> QED BY <2>4 DEF ColumnOf
  <1>3. a < CellSpan * CellSpan
    BY <1>1
  <1>4. a \div CellSpan <= b \div CellSpan
    BY <1>1, DivisionIsMonotone
  <1> QED BY <1>2, <1>3, <1>4

\* The children that are searched, by their places.
FirstChild(keys, n, min) ==
    LET reached == {i \in 1 .. n : ColumnOf(keys[i]) >= ColumnOf(min)}
    IN  IF reached = {} THEN 1 ELSE Max({1, Min(reached) - 1})
LastChild(keys, n, max) ==
    Min({i \in 1 .. n : ColumnOf(keys[i]) > ColumnOf(max)} \union {n + 1})

LEMMA LastChildReaches ==
  ASSUME NEW n \in Nat, NEW keys \in [1 .. n -> Nat],
         \A i, j \in 1 .. n : i <= j => keys[i] <= keys[j],
         NEW max \in Nat, max < CellSpan * CellSpan,
         NEW key \in Nat, key <= max,
         NEW c \in 1 .. n + 1, c > 1 => keys[c - 1] <= key
  PROVE  c <= LastChild(keys, n, max) /\ LastChild(keys, n, max) \in Nat
  <1> DEFINE right == {i \in 1 .. n : ColumnOf(keys[i]) > ColumnOf(max)}
  <1>1. \A k \in Nat : ColumnOf(k) \in Int
    BY SpatialIndexAssumption DEF ColumnOf
  <1>2. ASSUME NEW i \in 1 .. n, i < c PROVE i \notin right
    <2>1. c - 1 \in 1 .. n /\ c > 1 /\ i <= c - 1
      BY <1>2
    <2>2. keys[i] <= keys[c - 1] /\ keys[c - 1] <= key /\ keys[i] \in Nat /\ keys[c - 1] \in Nat
      BY <2>1
    <2>3. keys[i] <= max
      BY <2>2
    <2>4. ColumnOf(keys[i]) <= ColumnOf(max)
      BY <2>2, <2>3, ColumnsAscend
    <2> QED BY <1>1, <2>2, <2>4
  <1>3. \A i \in right \union {n + 1} : c <= i
    <2>1. right \subseteq 1 .. n
      OBVIOUS
    <2> HIDE DEF right
    <2>2. \A i \in right : c <= i
      BY <1>2, <2>1
    <2> QED BY <2>2
  <1>4. right \union {n + 1} \subseteq Nat /\ right \union {n + 1} # {}
    OBVIOUS
  <1>5. LastChild(keys, n, max) = Min(right \union {n + 1})
    BY DEF LastChild
  <1> HIDE DEF right
  <1> QED BY <1>3, <1>4, <1>5, MinIs

LEMMA FirstChildReaches ==
  ASSUME NEW n \in Nat, NEW keys \in [1 .. n -> Nat],
         \A i \in 1 .. n : keys[i] < CellSpan * CellSpan,
         NEW min \in Nat, NEW key \in Nat, min <= key,
         NEW c \in 1 .. n + 1, c <= n => key <= keys[c]
  PROVE  FirstChild(keys, n, min) <= c /\ FirstChild(keys, n, min) \in Nat
  <1> DEFINE reached == {i \in 1 .. n : ColumnOf(keys[i]) >= ColumnOf(min)}
             m == Min(reached)
             P == {1, m - 1}
  <1>1. \A k \in Nat : ColumnOf(k) \in Int
    BY SpatialIndexAssumption DEF ColumnOf
  <1>2. FirstChild(keys, n, min) = IF reached = {} THEN 1 ELSE Max(P)
    BY DEF FirstChild
  <1>3. CASE reached = {}
    BY <1>2, <1>3
  <1>4. CASE reached # {}
    <2>1. m \in reached /\ \A i \in reached : m <= i
      <3>1. reached \subseteq Nat
        OBVIOUS
      <3> HIDE DEF reached
      <3> QED BY <1>4, <3>1, MinIs
    <2>2. m \in 1 .. n
      BY <2>1
    <2>3. c <= n => c \in reached
      <3> SUFFICES ASSUME c <= n PROVE c \in reached
        OBVIOUS
      <3>1. c \in 1 .. n /\ keys[c] \in Nat /\ min <= keys[c] /\ keys[c] < CellSpan * CellSpan
        OBVIOUS
      <3>2. ColumnOf(min) <= ColumnOf(keys[c])
        BY <3>1, ColumnsAscend
      <3> QED BY <1>1, <3>1, <3>2
    <2> HIDE DEF reached, m
    <2>4. m <= c
      BY <2>1, <2>2, <2>3
    <2>5. P \subseteq 0 .. n + 1 /\ P # {} /\ n + 1 \in Nat
      BY <2>2
    <2>6. Max(P) \in P
      <3> HIDE DEF P
      <3> QED BY <2>5, MaxIs
    <2>7. FirstChild(keys, n, min) = Max(P)
      BY <1>2, <1>4
    <2>8. FirstChild(keys, n, min) = 1 \/ FirstChild(keys, n, min) = m - 1
      BY <2>6, <2>7
    <2> QED BY <2>2, <2>4, <2>8
  <1> QED BY <1>3, <1>4

\* The child with a key of the query is among those that are searched.
LEMMA SearchFindsChild ==
  ASSUME NEW page \in SpxPage, AreAscending(page.keys),
         Len(page.children) = Len(page.keys) + 1,
         \A i \in DOMAIN page.keys : page.keys[i] < CellSpan * CellSpan,
         NEW min \in Nat, NEW max \in Nat, max < CellSpan * CellSpan,
         NEW key \in Nat, min <= key, key <= max,
         NEW c \in DOMAIN page.children,
         c <= Len(page.keys) => key <= page.keys[c],
         c > 1 => page.keys[c - 1] <= key
  PROVE  page.children[c] \in ChildrenInRange(page, min, max)
  <1>1. PICK n \in Nat : n = Len(page.keys)
    BY DEF SpxPage
  <1>2. PICK keys : keys = page.keys
    OBVIOUS
  <1>3. keys \in [1 .. n -> Nat] /\ DOMAIN keys = 1 .. n
    <2>1. keys \in Seq(Nat)
      BY <1>2 DEF SpxPage
    <2> QED BY <1>1, <1>2, <2>1, LenProperties
  <1>4. c \in 1 .. n + 1
    <2>1. page.children \in Seq(Nat)
      BY DEF SpxPage
    <2>2. DOMAIN page.children = 1 .. Len(page.children)
      BY <2>1, LenProperties
    <2> QED BY <1>1, <2>2
  <1>5. \A i, j \in 1 .. n : i <= j => keys[i] <= keys[j]
    BY <1>2, <1>3 DEF AreAscending
  <1>6. \A i \in 1 .. n : keys[i] < CellSpan * CellSpan
    BY <1>2, <1>3
  <1>7. (c <= n => key <= keys[c]) /\ (c > 1 => keys[c - 1] <= key)
    BY <1>1, <1>2
  <1>8. c <= LastChild(keys, n, max) /\ LastChild(keys, n, max) \in Nat
    BY <1>3, <1>4, <1>5, <1>7, LastChildReaches
  <1>9. FirstChild(keys, n, min) <= c /\ FirstChild(keys, n, min) \in Nat
    BY <1>3, <1>4, <1>6, <1>7, FirstChildReaches
  <1>10. c \in FirstChild(keys, n, min) .. LastChild(keys, n, max)
    BY <1>4, <1>8, <1>9
  <1>11. ChildrenInRange(page, min, max)
            = {page.children[i] : i \in FirstChild(keys, n, min) .. LastChild(keys, n, max)}
    BY <1>1, <1>2 DEF ChildrenInRange, FirstChild, LastChild
  <1> QED BY <1>10, <1>11

-----------------------------------------------------------------------------
(***************************************************************************)
(* What the search of a .spx file finds.                                   *)
(***************************************************************************)
LEMMA PageWithEntries ==
  ASSUME NEW file, IsSearchTree(file), NEW n \in 0 .. file.depth - 1,
         NEW id \in DOMAIN file.pages, NEW e \in EntriesBelow(file)[n][id]
  PROVE  file.pages[id].keys # <<>>
  <1> DEFINE page == file.pages[id]
  <1>1. /\ page \in SpxPage /\ DOMAIN page.fids \subseteq DOMAIN page.keys
        /\ page.children # <<>> => page.keys # <<>>
    BY TreeIs
  <1>2. CASE n = 0
    <2>1. e \in EntriesOn(page)
      BY <1>2, EntriesAre
    <2>2. \E i \in DOMAIN page.keys : TRUE
      BY <1>1, <2>1 DEF EntriesOn
    <2> QED BY <2>2
  <1>3. CASE n # 0
    <2>2. \E i \in DOMAIN page.children : TRUE
      BY <1>3, EntriesAre
    <2>3. page.children # <<>>
      BY <2>2
    <2> QED BY <1>1, <2>3
  <1> QED BY <1>2, <1>3

\* When the columns of the keys can be relied on.
ColumnsHold(file, max) ==
    \/ file.depth = 1
    \/ /\ max < CellSpan * CellSpan
       /\ \A id \in DOMAIN file.pages :
            \A i \in DOMAIN file.pages[id].keys : file.pages[id].keys[i] < CellSpan * CellSpan

\* Wherever an entry of the query is below a page that is searched, it is
\* below a child that is searched.
LEMMA SearchGoesDown ==
  ASSUME NEW file, IsSearchTree(file), NEW min \in Nat, NEW max \in Nat,
         ColumnsHold(file, max),
         NEW n \in 1 .. file.depth - 1, NEW id \in DOMAIN file.pages,
         NEW e \in EntriesBelow(file)[n][id], e.key \in Nat, min <= e.key, e.key <= max
  PROVE  \E child \in ChildrenInRange(file.pages[id], min, max) :
            child \in DOMAIN file.pages /\ e \in EntriesBelow(file)[n - 1][child]
  <1> DEFINE page == file.pages[id]
  <1>1. file.depth \in Nat \ {0} /\ n \in 0 .. file.depth - 1 /\ n # 0
    BY TreeIs
  <1>3. PICK c \in DOMAIN page.children : e \in EntriesBelow(file)[n - 1][page.children[c]]
    BY <1>1, EntriesAre
  <1>4. /\ page \in SpxPage /\ AreAscending(page.keys)
        /\ page.children # <<>> => Len(page.children) = Len(page.keys) + 1
        /\ page.children[c] \in DOMAIN file.pages
    BY TreeIs
  <1>5. page.children # <<>>
    BY <1>3
  <1>6. (c <= Len(page.keys) => e.key <= page.keys[c]) /\ (c > 1 => page.keys[c - 1] <= e.key)
    BY <1>3 DEF IsSearchTree
  <1>7. /\ max < CellSpan * CellSpan
        /\ \A i \in DOMAIN page.keys : page.keys[i] < CellSpan * CellSpan
    <2>1. file.depth # 1
      BY <1>1
    <2> QED BY <2>1 DEF ColumnsHold
  <1>8. page.children[c] \in ChildrenInRange(page, min, max)
    <2> HIDE DEF page
    <2> QED BY <1>4, <1>5, <1>6, <1>7, SearchFindsChild
  <1> QED BY <1>3, <1>4, <1>8

LEMMA LeafIsReached ==
  ASSUME NEW file, IsSearchTree(file), NEW min \in Nat, NEW max \in Nat,
         ColumnsHold(file, max),
         NEW e \in EntriesBelow(file)[file.depth - 1][1], e.key \in Nat,
         min <= e.key, e.key <= max
  PROVE  \E id \in PagesBelow(file, file.depth - 1, min, max) :
            id \in DOMAIN file.pages /\ e \in EntriesOn(file.pages[id])
  <1> DEFINE n == file.depth - 1
             F == CHOOSE G : PagesFrom(G, file, n, min, max)
             LeadsTo(k, id) == id \in DOMAIN file.pages /\ e \in EntriesBelow(file)[n - k][id]
             S == {k \in 0 .. n : \E id \in F[k] : LeadsTo(k, id)}
  <1>1. n \in Nat /\ 1 \in DOMAIN file.pages
    BY TreeIs
  <1>2. PagesFrom(F, file, n, min, max)
    <2> HIDE DEF n
    <2> QED BY <1>1, PagesExist
  <1>3. PagesBelow(file, n, min, max) = F[n]
    BY DEF PagesBelow, PagesFrom, FilledPages
  <1> HIDE DEF F
  <1>4. F[0] = FilledPages(file, {1})
        /\ \A k \in 1 .. n : F[k] = FilledPages(file,
              UNION {ChildrenInRange(file.pages[id], min, max) : id \in F[k - 1]})
    <2>1. 0 \in 0 .. n /\ \A k \in 1 .. n : k \in 0 .. n /\ k # 0
      BY <1>1
    <2> HIDE DEF n
    <2> QED BY <1>2, <2>1 DEF PagesFrom
  <1>5. 0 \in S
    <2>1. n - 0 = n /\ n \in 0 .. n /\ 0 \in 0 .. n
      BY <1>1
    <2>2. file.pages[1].keys # <<>>
      BY <1>1, <2>1, PageWithEntries
    <2>3. 1 \in F[0]
      BY <1>1, <1>4, <2>2 DEF FilledPages
    <2>4. LeadsTo(0, 1)
      BY <1>1, <2>1
    <2> HIDE DEF Has
    <2> QED BY <2>1, <2>3, <2>4
  <1>6. ASSUME NEW k \in 1 .. n, k - 1 \in S PROVE k \in S
    <2>1. PICK id \in F[k - 1] : LeadsTo(k - 1, id)
      BY <1>6
    <2> DEFINE m == n - (k - 1)
    <2>2. m \in 1 .. file.depth - 1 /\ m - 1 = n - k /\ n - k \in 0 .. file.depth - 1 /\ k \in 0 .. n
      BY <1>1
    <2>3. id \in DOMAIN file.pages /\ e \in EntriesBelow(file)[m][id]
      BY <2>1
    <2> HIDE DEF m
    <2>4. PICK child \in ChildrenInRange(file.pages[id], min, max) :
             child \in DOMAIN file.pages /\ e \in EntriesBelow(file)[m - 1][child]
      BY <2>2, <2>3, SearchGoesDown
    <2>5. LeadsTo(k, child)
      BY <2>2, <2>4
    <2>6. file.pages[child].keys # <<>>
      BY <2>2, <2>4, <2>5, PageWithEntries
    <2>7. child \in F[k]
      <3>1. F[k] = FilledPages(file,
              UNION {ChildrenInRange(file.pages[p], min, max) : p \in F[k - 1]})
        BY <1>4
      <3>2. child \in UNION {ChildrenInRange(file.pages[p], min, max) : p \in F[k - 1]}
        BY <2>1, <2>4
      <3> HIDE DEF n
      <3> QED BY <2>4, <2>6, <3>1, <3>2 DEF FilledPages
    <2> HIDE DEF Has
    <2> QED BY <2>2, <2>5, <2>7
  <1>7. n \in S
    <2> HIDE DEF S
    <2>1. \A k \in 1 .. n : k - 1 \in S => k \in S
      BY <1>6
    <2> HIDE DEF n
    <2>2. \A k \in 0 .. n : k \in S
      BY <1>1, <1>5, <2>1, Upwards
    <2> QED BY <1>1, <2>2
  <1>8. PICK id \in F[n] : LeadsTo(n, id)
    BY <1>7
  <1>9. n - n = 0 /\ 0 \in 0 .. file.depth - 1
    BY <1>1
  <1>10. e \in EntriesOn(file.pages[id])
    BY <1>8, <1>9, EntriesAre
  <1> QED BY <1>3, <1>8, <1>10

LEMMA EntryIsCollected ==
  ASSUME NEW file, IsSearchTree(file), NEW min \in Nat, NEW max \in Nat,
         ColumnsHold(file, max),
         NEW e \in EntriesBelow(file)[file.depth - 1][1], e.key \in Nat,
         min <= e.key, e.key <= max, e.fid # 0
  PROVE  e.fid - 1 \in collect_fids_btree(file, min, max)
  <1>1. PICK id \in PagesBelow(file, file.depth - 1, min, max) :
           id \in DOMAIN file.pages /\ e \in EntriesOn(file.pages[id])
    BY LeafIsReached
  <1> DEFINE page == file.pages[id]
             found == {k \in find_minmax_idx(page.keys, min, max) :
                         min <= page.keys[k] /\ page.keys[k] <= max /\ page.fids[k] # 0}
  <1>2. AreAscending(page.keys) /\ DOMAIN page.fids \subseteq DOMAIN page.keys
    BY <1>1, TreeIs
  <1>3. PICK i \in DOMAIN page.fids : e = [key |-> page.keys[i], fid |-> page.fids[i]]
    BY <1>1 DEF EntriesOn
  <1>4. i \in DOMAIN page.keys /\ page.keys[i] = e.key /\ page.fids[i] = e.fid
    BY <1>2, <1>3
  <1>5. i \in find_minmax_idx(page.keys, min, max)
    <2> HIDE DEF page
    <2> QED BY <1>2, <1>4, SearchFindsKeys
  <1>6. i \in found
    BY <1>4, <1>5
  <1> HIDE DEF page, found
  <1>7. e.fid - 1 \in {page.fids[k] - 1 : k \in found}
    BY <1>4, <1>6
  <1>8. file.depth # 0
    BY TreeIs
  <1> QED BY <1>1, <1>7, <1>8 DEF collect_fids_btree, page, found

-----------------------------------------------------------------------------
(***************************************************************************)
(* Cells, and the candidates of a box.                                     *)
(***************************************************************************)
LEMMA ClampIs ==
  ASSUME NEW cell \in Int
  PROVE  /\ clamp31(cell) \in 0 .. CellSpan - 1
         /\ cell \in 0 .. CellSpan - 1 => clamp31(cell) = cell
         /\ cell < 0 => clamp31(cell) = 0
         /\ cell >= CellSpan => clamp31(cell) = CellSpan - 1
  <1> DEFINE s == CellSpan - 1
             m == Min({cell, s})
  <1>1. s \in Nat /\ CellSpan \in Nat
    BY SpatialIndexAssumption
  <1> HIDE DEF s
  <1>2. m = IF cell <= s THEN cell ELSE s
    BY <1>1 DEF Min
  <1>3. m \in Int
    BY <1>1, <1>2
  <1> HIDE DEF m
  <1>4. Max({0, m}) = IF m >= 0 THEN m ELSE 0
    BY <1>3 DEF Max
  <1>5. clamp31(cell) = Max({0, m})
    BY DEF clamp31, m, s
  <1> QED BY <1>1, <1>2, <1>4, <1>5 DEF s

AreGrids(grids, level) ==
    /\ grids \in Seq(Nat \ {0}) /\ level \in DOMAIN grids /\ grids[level] >= grids[1]

LEMMA CellsAscend ==
  ASSUME NEW grids, NEW level, AreGrids(grids, level), NEW a \in Int, NEW b \in Int, a <= b
  PROVE  /\ CellAt(a, grids, level) \in Int /\ CellAt(b, grids, level) \in Int
         /\ CellAt(a, grids, level) <= CellAt(b, grids, level)
  <1>1. 1 \in DOMAIN grids /\ level \in DOMAIN grids
    BY DEF AreGrids
  <1> DEFINE first == grids[1]
             ratio == grids[level] \div first
  <1>2. first \in Nat \ {0} /\ grids[level] \in Nat \ {0} /\ grids[level] >= first
    BY <1>1 DEF AreGrids
  <1>3. ratio \in Nat \ {0}
    <2>1. first \div first = 1
      BY <1>2
    <2> HIDE DEF first
    <2>2. first \div first <= ratio
      <3>1. first \in Int /\ grids[level] \in Int /\ first <= grids[level]
        BY <1>2
      <3> QED BY <1>2, <3>1, DivisionIsMonotone
    <2>3. ratio \in Int
      <3>1. grids[level] \in Int
        BY <1>2
      <3> QED BY <1>2, <3>1, DivisionIs
    <2> HIDE DEF ratio
    <2> QED BY <2>1, <2>2, <2>3
  <1> HIDE DEF ratio, first
  <1>4. a \div first \in Int /\ b \div first \in Int /\ a \div first <= b \div first
    BY <1>2, DivisionIs, DivisionIsMonotone
  <1>5. /\ (a \div first) \div ratio \in Int /\ (b \div first) \div ratio \in Int
        /\ (a \div first) \div ratio <= (b \div first) \div ratio
    BY <1>3, <1>4, DivisionIs, DivisionIsMonotone
  <1>6. CellBias \in Int
    BY SpatialIndexAssumption
  <1> QED BY <1>5, <1>6 DEF CellAt, first, ratio

\* Of two intervals that meet, the cells meet.
LEMMA CellsMeet ==
  ASSUME NEW grids, NEW level, AreGrids(grids, level),
         NEW a \in Int, NEW b \in Int, NEW p \in Int, NEW q \in Int,
         a <= b, p <= q, a <= q, p <= b,
         CellAt(a, grids, level) \in 0 .. CellSpan - 1,
         CellAt(b, grids, level) \in 0 .. CellSpan - 1
  PROVE  /\ cell_for_min(p, grids, level) \in 0 .. CellSpan - 1
         /\ cell_for_max(q, grids, level) \in 0 .. CellSpan - 1
         /\ \E c \in CellAt(a, grids, level) .. CellAt(b, grids, level) :
              /\ cell_for_min(p, grids, level) <= c
              /\ c <= cell_for_max(q, grids, level)
  <1> DEFINE A == CellAt(a, grids, level)
             B == CellAt(b, grids, level)
             P == CellAt(p, grids, level)
             R == CellAt(q, grids, level)
             from == clamp31(P)
             to == clamp31(R + 1)
  <1>1. /\ A \in Int /\ B \in Int /\ P \in Int /\ R \in Int
        /\ A <= B /\ P <= R /\ A <= R /\ P <= B
    BY CellsAscend
  <1>2. A \in 0 .. CellSpan - 1 /\ B \in 0 .. CellSpan - 1 /\ CellSpan \in Nat
    BY SpatialIndexAssumption
  <1>3. cell_for_min(p, grids, level) = from /\ cell_for_max(q, grids, level) = to
    BY DEF cell_for_min, cell_for_max
  <1> HIDE DEF A, B, P, R
  <1>4. /\ from \in 0 .. CellSpan - 1
        /\ P \in 0 .. CellSpan - 1 => from = P
        /\ P < 0 => from = 0
        /\ P >= CellSpan => from = CellSpan - 1
    BY <1>1, ClampIs
  <1>5. R + 1 \in Int
    BY <1>1
  <1>6. /\ to \in 0 .. CellSpan - 1
        /\ R + 1 \in 0 .. CellSpan - 1 => to = R + 1
        /\ R + 1 < 0 => to = 0
        /\ R + 1 >= CellSpan => to = CellSpan - 1
    BY <1>5, ClampIs
  <1> HIDE DEF from, to
  <1>7. from <= B /\ A <= to /\ from <= to
    BY <1>1, <1>2, <1>4, <1>6
  <1>8. \E c \in A .. B : from <= c /\ c <= to
    <2>1. CASE A <= from
      <3>1. from \in A .. B
        BY <1>1, <1>4, <1>7, <2>1
      <3> QED BY <1>4, <1>6, <1>7, <3>1
    <2>2. CASE ~(A <= from)
      <3>1. A \in A .. B /\ from <= A
        BY <1>1, <1>4, <2>2
      <3> QED BY <1>7, <3>1
    <2> QED BY <2>1, <2>2
  <1> QED BY <1>3, <1>4, <1>6, <1>8 DEF A, B

LEMMA RawKeysAscend ==
  ASSUME NEW v \in Nat,
         NEW cx \in 0 .. CellSpan - 1, NEW dx \in 0 .. CellSpan - 1, cx <= dx,
         NEW cy \in 0 .. CellSpan - 1, NEW dy \in 0 .. CellSpan - 1, cy <= dy
  PROVE  RawKey(v, cx, cy) \in Nat /\ RawKey(v, cx, cy) <= RawKey(v, dx, dy)
  <1>1. CellSpan \in Nat
    BY SpatialIndexAssumption
  <1> DEFINE s == v * CellSpan
  <1>2. s \in Nat
    BY <1>1
  <1> HIDE DEF s
  <1> DEFINE a == s + cx
             d == dx - cx
  <1>3. a \in Nat /\ d \in Nat /\ s + dx = a + d
    BY <1>1, <1>2
  <1> HIDE DEF a, d
  <1>4. a * CellSpan \in Nat /\ d * CellSpan \in Nat
    BY <1>1, <1>3
  <1>5. (a + d) * CellSpan = a * CellSpan + d * CellSpan
    BY <1>1, <1>3
  <1>6. RawKey(v, cx, cy) = a * CellSpan + cy
    BY DEF RawKey, a, s
  <1>7. RawKey(v, dx, dy) = (a + d) * CellSpan + dy
    BY <1>3 DEF RawKey, s
  <1>8. cy \in Nat /\ dy \in Nat /\ cy <= dy
    BY <1>1
  <1> QED BY <1>4, <1>5, <1>6, <1>7, <1>8

LEMMA RawKeysAreBelow ==
  ASSUME NEW cx \in 0 .. CellSpan - 1, NEW cy \in 0 .. CellSpan - 1
  PROVE  RawKey(0, cx, cy) < CellSpan * CellSpan
  <1>1. CellSpan \in Nat \ {0} /\ cx \in Int /\ cx < CellSpan /\ cy < CellSpan /\ cy \in Int
    BY SpatialIndexAssumption
  <1>2. CellSpan * cx + CellSpan <= CellSpan * CellSpan
    BY <1>1, ProductGrows
  <1>3. RawKey(0, cx, cy) = CellSpan * cx + cy
    BY <1>1 DEF RawKey
  <1>4. CellSpan * cx \in Int /\ CellSpan * CellSpan \in Int
    BY <1>1
  <1> QED BY <1>1, <1>2, <1>3, <1>4

\* Every row that meets the box is among the candidates, whether the columns
\* are asked for one by one or at once.
LEMMA RowIsCandidate ==
  ASSUME NEW l, SpatialIndexIsSound(l), l.spx = "sound",
         NEW box, IsQueryBox(box), NEW f \in DOMAIN l.rows,
         ShouldMeet(l.rows[f], box), IsGeometry(l.rows[f], box),
         NEW merge_x_ranges \in BOOLEAN
  PROVE  f - 1 \in query_bbox(l.spx_file, l.grids, box, Len(l.rows) - 1, merge_x_ranges)
  <1> DEFINE bounds == ShapeBounds(l.rows[f].shape)
             file == l.spx_file
             grids == l.grids
  <1>1. /\ l.rows \in Seq(ToSet(l.rows)) /\ grids \in Seq(Nat \ {0})
        /\ \A level \in DOMAIN grids : grids[level] >= grids[1]
        /\ IsSearchTree(file) /\ SuitsColumns(file)
        /\ Len(grids) = 1 \/ file.depth = 1
        /\ l.rows[f].shape.parts # <<>> => FilesRow(l, f)
    BY DEF SpatialIndexIsSound
  <1>2. /\ bounds \in [xmin : Int, ymin : Int, xmax : Int, ymax : Int]
        /\ bounds.xmin <= bounds.xmax /\ bounds.ymin <= bounds.ymax
        /\ l.rows[f].shape.parts # <<>> /\ ~Disjoint(bounds, box)
    BY DEF IsGeometry
  <1>3. /\ box \in [xmin : Int, ymin : Int, xmax : Int, ymax : Int]
        /\ box.xmin <= box.xmax /\ box.ymin <= box.ymax
    BY DEF IsQueryBox
  <1>4. FilesRow(l, f)
    BY <1>1, <1>2
  <1> HIDE DEF bounds
  <1>5. PICK level \in DOMAIN grids :
          /\ {CellAt(bounds.xmin, grids, level), CellAt(bounds.xmax, grids, level),
              CellAt(bounds.ymin, grids, level), CellAt(bounds.ymax, grids, level)}
                \subseteq 0 .. CellSpan - 1
          /\ \A key \in KeysOf(bounds, grids, level) :
                [key |-> key, fid |-> f] \in EntriesBelow(file)[file.depth - 1][1]
    BY <1>4 DEF FilesRow, bounds
  <1>6. /\ bounds.xmin \in Int /\ bounds.xmax \in Int /\ bounds.ymin \in Int /\ bounds.ymax \in Int
        /\ box.xmin \in Int /\ box.xmax \in Int /\ box.ymin \in Int /\ box.ymax \in Int
    BY <1>2, <1>3
  <1>7. /\ bounds.xmin <= box.xmax /\ box.xmin <= bounds.xmax
        /\ bounds.ymin <= box.ymax /\ box.ymin <= bounds.ymax
    BY <1>2, <1>6 DEF Disjoint
  <1>8. AreGrids(grids, level)
    BY <1>1 DEF AreGrids
  <1> DEFINE from == cell_for_min(box.xmin, grids, level)
             to == cell_for_max(box.xmax, grids, level)
             row_min == cell_for_min(box.ymin, grids, level)
             row_max == cell_for_max(box.ymax, grids, level)
             C == 0 .. CellSpan - 1
  <1>9. /\ from \in C /\ to \in C
        /\ \E c \in CellAt(bounds.xmin, grids, level) .. CellAt(bounds.xmax, grids, level) :
             from <= c /\ c <= to
    <2> HIDE DEF grids
    <2> QED BY <1>2, <1>3, <1>5, <1>6, <1>7, <1>8, CellsMeet
  <1>10. /\ row_min \in C /\ row_max \in C
         /\ \E c \in CellAt(bounds.ymin, grids, level) .. CellAt(bounds.ymax, grids, level) :
              row_min <= c /\ c <= row_max
    <2> HIDE DEF grids
    <2> QED BY <1>2, <1>3, <1>5, <1>6, <1>7, <1>8, CellsMeet
  <1>11. PICK cx \in CellAt(bounds.xmin, grids, level) .. CellAt(bounds.xmax, grids, level) :
            from <= cx /\ cx <= to
    BY <1>9
  <1>12. PICK cy \in CellAt(bounds.ymin, grids, level) .. CellAt(bounds.ymax, grids, level) :
            row_min <= cy /\ cy <= row_max
    BY <1>10
  <1>13. cx \in C /\ cy \in C /\ CellSpan \in Nat
    BY <1>5, <1>11, <1>12, SpatialIndexAssumption
  <1>14. level \in Nat \ {0} /\ level - 1 \in Nat
    <2>1. DOMAIN grids = 1 .. Len(grids) /\ Len(grids) \in Nat
      BY <1>1, LenProperties
    <2> HIDE DEF grids
    <2> QED BY <2>1
  <1> DEFINE key == RawKey(level - 1, cx, cy)
             entry == [key |-> key, fid |-> f]
  <1>15. entry \in EntriesBelow(file)[file.depth - 1][1]
    <2>1. key \in KeysOf(bounds, grids, level)
      BY DEF KeysOf
    <2> HIDE DEF key
    <2> QED BY <1>5, <2>1
  <1>16. f \in Nat \ {0} /\ f <= Len(l.rows) /\ Len(l.rows) \in Nat
    <2>1. DOMAIN l.rows = 1 .. Len(l.rows) /\ Len(l.rows) \in Nat
      BY <1>1, LenProperties
    <2> QED BY <2>1
  <1> DEFINE FoundIn(a, b) == collect_fids_btree(file, RawKey(level - 1, a, row_min),
                                               RawKey(level - 1, b, row_max))
  <1> HIDE DEF from, to, row_min, row_max, bounds, file, grids
  <1>17. ASSUME NEW a \in C, NEW b \in C, a <= cx, cx <= b PROVE f - 1 \in FoundIn(a, b)
    <2> DEFINE min == RawKey(level - 1, a, row_min)
               max == RawKey(level - 1, b, row_max)
    <2>1. min \in Nat /\ min <= key
      BY <1>10, <1>12, <1>13, <1>14, <1>17, RawKeysAscend
    <2>2. key \in Nat /\ key <= max
      BY <1>10, <1>12, <1>13, <1>14, <1>17, RawKeysAscend
    <2>3. max \in Nat
      <3>1. b <= b /\ row_max <= row_max
        BY <1>10, <1>13
      <3> QED BY <1>10, <1>14, <3>1, RawKeysAscend
    <2>4. ColumnsHold(file, max)
      <3>1. CASE file.depth = 1
        BY <3>1 DEF ColumnsHold
      <3>2. CASE file.depth # 1
        <4>1. DOMAIN grids = 1 .. 1
          BY <1>1, <3>2, LenProperties
        <4>2. level = 1 /\ level - 1 = 0
          BY <4>1
        <4>3. max < CellSpan * CellSpan
          BY <1>10, <4>2, RawKeysAreBelow
        <4> HIDE DEF max
        <4> QED BY <1>1, <3>2, <4>3 DEF SuitsColumns, ColumnsHold
      <3> QED BY <3>1, <3>2
    <2> HIDE DEF min, max, key
    <2>5. entry.key = key /\ entry.fid = f /\ entry.fid # 0
      BY <1>16
    <2> HIDE DEF entry
    <2>6. entry.fid - 1 \in collect_fids_btree(file, min, max)
      BY <1>1, <1>15, <2>1, <2>2, <2>3, <2>4, <2>5, EntryIsCollected
    <2> QED BY <2>5, <2>6 DEF min, max
  <1> DEFINE Level == IF merge_x_ranges THEN FoundIn(from, to)
                      ELSE UNION {FoundIn(c, c) : c \in from .. to}
  <1>18. f - 1 \in Level
    <2>1. CASE merge_x_ranges
      <3>1. f - 1 \in FoundIn(from, to)
        BY <1>9, <1>11, <1>17
      <3> HIDE DEF FoundIn
      <3> QED BY <2>1, <3>1
    <2>2. CASE ~merge_x_ranges
      <3>1. cx <= cx /\ cx \in from .. to
        BY <1>9, <1>11, <1>13
      <3>2. f - 1 \in FoundIn(cx, cx)
        BY <1>13, <1>17, <3>1
      <3> HIDE DEF FoundIn
      <3> QED BY <2>2, <3>1, <3>2
    <2> QED BY <2>1, <2>2
  <1>19. f - 1 <= Len(l.rows) - 1
    BY <1>16
  <1> QED
    <2> HIDE DEF C
    <2> QED BY <1>18, <1>19 DEF query_bbox, from, to, row_min, row_max, file, grids

-----------------------------------------------------------------------------
(***************************************************************************)
(* Any query of layers with sound spatial indexes.                         *)
(***************************************************************************)
\* The layer and the request of a call stay what they were.
LayerIsGiven ==
    \E i \in DOMAIN Layers :
        layer = Layers[i] /\ \E r \in DOMAIN layer.requests : request = layer.requests[r]

LEMMA LayerStays == QuerySpec => []LayerIsGiven
  <1>1. QueryInit => LayerIsGiven
    BY DEF QueryInit, LayerIsGiven
  <1>2. LayerIsGiven /\ [QueryNext]_qvars => LayerIsGiven'
    <2> SUFFICES ASSUME LayerIsGiven, [QueryNext]_qvars PROVE UNCHANGED <<layer, request>>
      BY DEF LayerIsGiven
    <2>1. CASE UNCHANGED qvars
      BY <2>1 DEF qvars
    <2>2. CASE Refuse \/ ScanAllRows \/ LookUpSpx \/ CheckGeometry \/ LookUpAtx
      BY <2>2 DEF Refuse, ScanAllRows, LookUpSpx, CheckGeometry, LookUpAtx, Found, Done
    <2>3. CASE FusedScan \/ CheckWhere \/ CheckWhereByRecord
      BY <2>3 DEF FusedScan, CheckWhere, CheckWhereByRecord, Done
    <2>4. CASE query_where \/ query_attribute \/ feature_intersects \/ hybrid_query_bbox
      BY <2>4 DEF query_where, query_attribute, feature_intersects, hybrid_query_bbox, Done
    <2>5. CASE Returned
      BY <2>5 DEF Returned, qvars
    <2> QED BY <2>1, <2>2, <2>3, <2>4, <2>5 DEF QueryNext
  <1> QED BY <1>1, <1>2, PTL DEF QuerySpec

LEMMA AllCandidatesAreFound ==
  ASSUME SpatialIndexesAreSound, LayerIsGiven
  PROVE  SpatialCandidatesComplete
  <1> SUFFICES ASSUME Q.kind \in {"Bbox", "SpatialWhere"}, L.spx = "sound",
                      NEW merge_x_ranges \in BOOLEAN,
                      NEW fid \in AllFids, ShouldMeet(RowAt(fid), Q.box)
               PROVE  fid \in SpxCandidates(merge_x_ranges)
    BY DEF SpatialCandidatesComplete
  <1>1. PICK i \in DOMAIN Layers : layer = Layers[i]
    BY DEF LayerIsGiven
  <1>2. PICK r \in DOMAIN layer.requests : request = layer.requests[r]
    BY DEF LayerIsGiven
  <1>3. SpatialIndexIsSound(layer)
    BY <1>1 DEF SpatialIndexesAreSound
  <1>4. request \in ToSet(layer.requests)
    BY <1>2 DEF ToSet
  <1>5. /\ layer.rows \in Seq(ToSet(layer.rows))
        /\ IsQueryBox(request.box) /\ \A row \in ToSet(layer.rows) : IsGeometry(row, request.box)
    BY <1>3, <1>4 DEF SpatialIndexIsSound, Q, L
  <1> DEFINE f == fid + 1
  <1>6. f \in DOMAIN layer.rows /\ f - 1 = fid
    <2>1. DOMAIN layer.rows = 1 .. Len(layer.rows) /\ Len(layer.rows) \in Nat
      BY <1>5, LenProperties
    <2>2. fid \in 0 .. Len(layer.rows) - 1
      BY DEF AllFids, L
    <2> QED BY <2>1, <2>2
  <1>7. ShouldMeet(layer.rows[f], request.box)
    BY DEF RowAt, L, Q
  <1> HIDE DEF f
  <1>8. layer.rows[f] \in ToSet(layer.rows)
    BY <1>6 DEF ToSet
  <1>9. IsGeometry(layer.rows[f], request.box)
    BY <1>5, <1>8
  <1>10. layer.spx = "sound"
    BY DEF L
  <1>11. f - 1 \in query_bbox(layer.spx_file, layer.grids, request.box,
                              Len(layer.rows) - 1, merge_x_ranges)
    BY <1>3, <1>5, <1>6, <1>7, <1>9, <1>10, RowIsCandidate
  <1> QED BY <1>6, <1>11 DEF SpxCandidates, L, Q

\* When every .spx file is a search tree with all cells of the rows in it, no
\* row that meets a box is missing among its candidates: the binary searches
\* stop at no key too early, the pages are searched down to every leaf, and the
\* cells asked for are all those a row that meets the box can be filed under.
\* (collect_fids_btree, query_bbox)
THEOREM SpatialSearchIsComplete ==
  SpatialIndexesAreSound => (QuerySpec => []SpatialCandidatesComplete)
  <1> SUFFICES ASSUME SpatialIndexesAreSound
               PROVE  QuerySpec => []SpatialCandidatesComplete
    OBVIOUS
  <1>1. LayerIsGiven => SpatialCandidatesComplete
    BY AllCandidatesAreFound
  <1> QED BY <1>1, LayerStays, PTL

-----------------------------------------------------------------------------
(***************************************************************************)
(* The walk over the pages of a .atx file, and the entries on its way.     *)
(***************************************************************************)
\* A file that can be walked: the root is there.
Walkable(file) == IsFile(file) /\ file.depth \in 1 .. Len(file.pages)

PagesOf(file) == DOMAIN file.pages

WalkRound(file, k, id) ==
    IF id = 0 THEN 0
    ELSE PageAt(file, IF k <= file.depth THEN file.pages[id].first ELSE file.pages[id].next)

WalkFrom(F, file) ==
    F = [k \in 1 .. Len(file.pages) + 1 |->
           IF k = 1 THEN 1 ELSE WalkRound(file, k, F[k - 1])]

LEMMA FileIs ==
  ASSUME NEW file, Walkable(file)
  PROVE  /\ Len(file.pages) \in Nat \ {0} /\ DOMAIN file.pages = 1 .. Len(file.pages)
         /\ file.depth \in 1 .. Len(file.pages) /\ file.total \in Nat
         /\ \A id \in DOMAIN file.pages :
              file.pages[id].entries \in Seq(ToSet(file.pages[id].entries))
  <1>1. file.pages \in Seq(ToSet(file.pages)) /\ file.depth \in 1 .. Len(file.pages)
        /\ file.total \in Nat
    BY DEF Walkable, IsFile
  <1>2. Len(file.pages) \in Nat /\ DOMAIN file.pages = 1 .. Len(file.pages)
    BY <1>1, LenProperties
  <1>3. \A id \in DOMAIN file.pages :
           file.pages[id].entries \in Seq(ToSet(file.pages[id].entries))
    BY DEF Walkable, IsFile
  <1> QED BY <1>1, <1>2, <1>3

LEMMA WalkExists ==
  ASSUME NEW file, Walkable(file)
  PROVE  \E F : WalkFrom(F, file)
  <1> DEFINE n == Len(file.pages)
             V == 0 .. n
             step == [i \in 1 .. n |-> [id \in V |-> WalkRound(file, i + 1, id)]]
  <1>1. n \in Nat \ {0} /\ DOMAIN file.pages = 1 .. n
    BY FileIs
  <1>2. \A k, id : WalkRound(file, k, id) \in V
    BY <1>1 DEF WalkRound, PageAt
  <1>3. step \in [1 .. n -> [V -> V]]
    BY <1>2
  <1>4. 1 \in V
    BY <1>1
  <1>5. PICK T : Steps(T, n, V, 1, step)
    <2> HIDE DEF n, V, step
    <2> QED BY <1>1, <1>3, <1>4, StepByStep
  <1> DEFINE F == [k \in 1 .. n + 1 |-> T[k - 1]]
  <1>6. F[1] = 1
    BY <1>1, <1>5 DEF Steps
  <1>7. ASSUME NEW k \in 1 .. n + 1, k # 1 PROVE F[k] = WalkRound(file, k, F[k - 1])
    <2>1. k - 1 \in 1 .. n /\ k - 1 \in 1 .. n + 1 /\ (k - 1) + 1 = k /\ (k - 1) - 1 \in 0 .. n
      BY <1>1, <1>7
    <2>2. T[k - 1] = step[k - 1][T[(k - 1) - 1]] /\ T[(k - 1) - 1] \in V
      BY <1>5, <2>1 DEF Steps
    <2>3. F[k] = T[k - 1] /\ F[k - 1] = T[(k - 1) - 1]
      BY <2>1
    <2>4. step[k - 1] = [id \in V |-> WalkRound(file, k, id)]
      BY <2>1
    <2> HIDE DEF F, step, V
    <2> QED BY <2>2, <2>3, <2>4
  <1>8. F = [k \in 1 .. n + 1 |-> IF k = 1 THEN 1 ELSE WalkRound(file, k, F[k - 1])]
    <2>1. F = [k \in 1 .. n + 1 |-> F[k]]
      OBVIOUS
    <2> HIDE DEF F
    <2>2. \A k \in 1 .. n + 1 : F[k] = IF k = 1 THEN 1 ELSE WalkRound(file, k, F[k - 1])
      BY <1>6, <1>7
    <2> QED BY <2>1, <2>2
  <1>9. WalkFrom(F, file)
    <2> HIDE DEF F
    <2> QED BY <1>8 DEF WalkFrom
  <1> QED BY <1>9

\* A walk goes from page to page, and ends where it comes to none.
LEMMA WalkIs ==
  ASSUME NEW file, Walkable(file)
  PROVE  /\ Walk(file) \in [1 .. Len(file.pages) + 1 -> Nat]
         /\ Len(Walk(file)) = Len(file.pages) + 1
         /\ \A k \in 1 .. Len(file.pages) + 1 :
              Walk(file)[k] # 0 => Walk(file)[k] \in DOMAIN file.pages
         /\ \A k \in 1 .. Len(file.pages) : Walk(file)[k] = 0 => Walk(file)[k + 1] = 0
  <1> DEFINE n == Len(file.pages)
             F == CHOOSE G : WalkFrom(G, file)
  <1>1. n \in Nat \ {0} /\ DOMAIN file.pages = 1 .. n
    BY FileIs
  <1>2. WalkFrom(F, file)
    BY WalkExists
  <1>3. Walk(file) = [k \in 1 .. n + 1 |-> F[k]]
    BY DEF Walk, WalkFrom, WalkRound
  <1> HIDE DEF F
  <1>4. F = [k \in 1 .. n + 1 |-> IF k = 1 THEN 1 ELSE WalkRound(file, k, F[k - 1])]
    BY <1>2 DEF WalkFrom
  <1> HIDE DEF n
  <1>5. \A k, id : WalkRound(file, k, id) \in 0 .. n
    BY <1>1 DEF WalkRound, PageAt
  <1>6. \A k \in 1 .. n + 1 : F[k] \in 0 .. n
    BY <1>1, <1>4, <1>5
  <1>7. ASSUME NEW k \in 1 .. n, F[k] = 0 PROVE F[k + 1] = 0
    <2>1. k + 1 \in 1 .. n + 1 /\ k + 1 # 1 /\ (k + 1) - 1 = k
      BY <1>1
    <2>2. F[k + 1] = WalkRound(file, k + 1, F[k])
      BY <1>4, <2>1
    <2> QED BY <1>7, <2>2 DEF WalkRound
  <1>8. Walk(file) \in [1 .. n + 1 -> Nat] /\ \A k \in 1 .. n + 1 : Walk(file)[k] = F[k]
    BY <1>1, <1>3, <1>6
  <1>9. Len(Walk(file)) = n + 1
    <2>1. n + 1 \in Nat
      BY <1>1
    <2> QED BY <1>3, <2>1, LenProperties
  <1>10. \A k \in 1 .. n + 1 : Walk(file)[k] # 0 => Walk(file)[k] \in DOMAIN file.pages
    BY <1>1, <1>6, <1>8
  <1>11. \A k \in 1 .. n : Walk(file)[k] = 0 => Walk(file)[k + 1] = 0
    <2>1. \A k \in 1 .. n : k \in 1 .. n + 1 /\ k + 1 \in 1 .. n + 1
      BY <1>1
    <2> QED BY <1>7, <1>8, <2>1
  <1> QED BY <1>8, <1>9, <1>10, <1>11 DEF n

\* The places of the entries that are still to come at step k of a walk.
SlotsOn(file, id) == {<<id, i>> : i \in DOMAIN file.pages[id].entries}
SlotsFrom(file, walk, k) ==
    UNION {SlotsOn(file, walk[j]) : j \in {m \in k .. Len(walk) : walk[m] # 0}}

FiledEntries(file) == {EntryAt(file, s) : s \in Slots(file)}

EntriesRound(file, id, rest) == IF id = 0 THEN <<>> ELSE file.pages[id].entries \o rest

ListedFrom(F, file, walk) ==
    F = [k \in file.depth .. Len(walk) |->
           EntriesRound(file, walk[k], IF k < Len(walk) THEN F[k + 1] ELSE <<>>)]

LEMMA SlotsAre ==
  ASSUME NEW file, IsFile(file)
  PROVE  /\ Slots(file) = UNION {SlotsOn(file, id) : id \in DOMAIN file.pages}
         /\ IsFiniteSet(Slots(file))
         /\ \A id \in DOMAIN file.pages :
              /\ IsFiniteSet(SlotsOn(file, id)) /\ SlotsOn(file, id) \subseteq Slots(file)
              /\ Cardinality(SlotsOn(file, id)) = Len(file.pages[id].entries)
              /\ file.pages[id].entries \in Seq(FiledEntries(file))
  <1>1. Slots(file) = UNION {SlotsOn(file, id) : id \in DOMAIN file.pages}
    BY DEF Slots, SlotsOn
  <1>2. ASSUME NEW id \in DOMAIN file.pages
        PROVE  /\ IsFiniteSet(SlotsOn(file, id)) /\ SlotsOn(file, id) \subseteq Slots(file)
               /\ Cardinality(SlotsOn(file, id)) = Len(file.pages[id].entries)
               /\ file.pages[id].entries \in Seq(FiledEntries(file))
    <2> DEFINE e == file.pages[id].entries
               n == Len(e)
               S == SlotsOn(file, id)
               b == [i \in 1 .. n |-> <<id, i>>]
    <2>1. e \in Seq(ToSet(e)) /\ n \in Nat /\ DOMAIN e = 1 .. n
      <3>1. e \in Seq(ToSet(e))
        BY DEF IsFile
      <3> QED BY <3>1, LenProperties
    <2>2. S = {<<id, i>> : i \in 1 .. n}
      BY <2>1 DEF SlotsOn
    <2>3. b \in Bijection(1 .. n, S)
      <3>1. b \in [1 .. n -> S] /\ \A i \in 1 .. n : b[i] = <<id, i>>
        BY <2>2
      <3> HIDE DEF b, n
      <3>2. \A i, j \in 1 .. n : b[i] = b[j] => i = j
        BY <3>1
      <3>3. \A s \in S : \E i \in 1 .. n : b[i] = s
        BY <2>2, <3>1
      <3> HIDE DEF S
      <3> QED BY <3>1, <3>2, <3>3 DEF Bijection, Injection, Surjection, IsInjective
    <2>4. IsFiniteSet(S) /\ Cardinality(S) = n
      <3> HIDE DEF S, n, b
      <3>1. IsFiniteSet(1 .. n)
        <4>1. 1 \in Int /\ n \in Int
          BY <2>1
        <4> QED BY <4>1, FS_Interval
      <3>2. ExistsBijection(1 .. n, S)
        BY <2>3 DEF ExistsBijection
      <3> QED BY <2>1, <3>1, <3>2, FS_Bijection, FS_CountingElements
    <2>5. S \subseteq Slots(file)
      BY <1>1
    <2>6. e \in Seq(FiledEntries(file))
      <3>1. \A i \in 1 .. n : e[i] \in FiledEntries(file)
        <4> SUFFICES ASSUME NEW i \in 1 .. n PROVE e[i] \in FiledEntries(file)
          OBVIOUS
        <4>1. <<id, i>> \in Slots(file)
          BY <2>2, <2>5
        <4>2. EntryAt(file, <<id, i>>) = e[i]
          BY DEF EntryAt
        <4> QED BY <4>1, <4>2 DEF FiledEntries
      <3>2. e = [i \in 1 .. n |-> e[i]]
        BY <2>1
      <3>3. [i \in 1 .. n |-> e[i]] \in [1 .. n -> FiledEntries(file)]
        BY <3>1
      <3> HIDE DEF e, n
      <3> QED BY <2>1, <3>2, <3>3, IsASeq
    <2> QED BY <2>4, <2>5, <2>6
  <1>3. IsFiniteSet(Slots(file))
    <2> DEFINE D == DOMAIN file.pages
               f == [id \in D |-> SlotsOn(file, id)]
               A == {SlotsOn(file, id) : id \in D}
    <2>1. IsFiniteSet(D)
      <3>1. file.pages \in Seq(ToSet(file.pages))
        BY DEF IsFile
      <3>2. D = 1 .. Len(file.pages) /\ Len(file.pages) \in Int
        BY <3>1, LenProperties
      <3> QED BY <3>2, FS_Interval
    <2>2. f \in Surjection(D, A)
      BY DEF Surjection
    <2>3. IsFiniteSet(A)
      <3> HIDE DEF D, f, A
      <3> QED BY <2>1, <2>2, FS_Surjection
    <2>4. \A T \in A : IsFiniteSet(T)
      BY <1>2
    <2>5. IsFiniteSet(UNION A)
      <3> HIDE DEF A
      <3> QED BY <2>3, <2>4, FS_UNION
    <2> QED BY <1>1, <2>5
  <1> QED BY <1>1, <1>2, <1>3

LEMMA ListExists ==
  ASSUME NEW file, Walkable(file)
  PROVE  \E F : ListedFrom(F, file, Walk(file))
  <1> DEFINE walk == Walk(file)
             N == Len(file.pages) + 1
             n == Len(file.pages) + 2 - file.depth
             V == Seq(FiledEntries(file))
             step == [i \in 1 .. n |-> [rest \in V |-> EntriesRound(file, walk[N + 1 - i], rest)]]
  <1>1. /\ N \in Nat \ {0} /\ n \in Nat \ {0} /\ file.depth \in 1 .. N /\ n = N + 1 - file.depth
    BY FileIs
  <1>2. /\ Len(walk) = N
        /\ \A k \in 1 .. N : walk[k] # 0 => walk[k] \in DOMAIN file.pages
    BY WalkIs
  <1>3. ASSUME NEW k \in 1 .. N, NEW rest \in V
        PROVE  EntriesRound(file, walk[k], rest) \in V
    <2>1. CASE walk[k] = 0
      <3>1. <<>> \in V
        BY EmptySeq
      <3> HIDE DEF V
      <3> QED BY <2>1, <3>1 DEF EntriesRound
    <2>2. CASE walk[k] # 0
      <3>1. file.pages[walk[k]].entries \in V
        BY <1>2, <2>2, SlotsAre DEF Walkable
      <3>2. file.pages[walk[k]].entries \o rest \in V
        BY <3>1, ConcatProperties
      <3> HIDE DEF V
      <3> QED BY <2>2, <3>2 DEF EntriesRound
    <2> QED BY <2>1, <2>2
  <1> HIDE DEF walk
  <1>4. \A i \in 1 .. n : N + 1 - i \in 1 .. N
    <2> HIDE DEF N, n
    <2> QED BY <1>1
  <1>5. step \in [1 .. n -> [V -> V]]
    <2>1. ASSUME NEW i \in 1 .. n PROVE step[i] \in [V -> V]
      <3>1. \A rest \in V : EntriesRound(file, walk[N + 1 - i], rest) \in V
        <4> HIDE DEF V, N, n
        <4> QED BY <1>3, <1>4
      <3> HIDE DEF V, N, n
      <3> QED BY <3>1
    <2> HIDE DEF V, N, n
    <2> QED BY <2>1
  <1>6. <<>> \in V
    BY EmptySeq
  <1>7. PICK T : Steps(T, n, V, <<>>, step)
    <2> HIDE DEF n, V, step
    <2> QED BY <1>1, <1>5, <1>6, StepByStep
  <1>8. T \in [0 .. n -> V] /\ T[0] = <<>>
    BY <1>7 DEF Steps
  <1>9. ASSUME NEW i \in 1 .. n PROVE T[i] = EntriesRound(file, walk[N + 1 - i], T[i - 1])
    <2>1. T[i] = step[i][T[i - 1]]
      BY <1>7 DEF Steps
    <2>2. T[i - 1] \in V
      <3>1. i - 1 \in 0 .. n
        BY <1>1
      <3> QED BY <1>8, <3>1
    <2> HIDE DEF V, N, n
    <2> QED BY <2>1, <2>2
  <1> HIDE DEF V, N, n, step
  <1> DEFINE F == [k \in file.depth .. N |-> T[N + 1 - k]]
  <1>10. ASSUME NEW k \in file.depth .. N
         PROVE  F[k] = EntriesRound(file, walk[k], IF k < N THEN F[k + 1] ELSE <<>>)
    <2>1. PICK i \in 1 .. n : i = N + 1 - k /\ N + 1 - i = k
      <3>1. N + 1 - k \in 1 .. n /\ N + 1 - (N + 1 - k) = k
        BY <1>1
      <3> QED BY <3>1
    <2>2. F[k] = EntriesRound(file, walk[k], T[i - 1])
      <3>1. F[k] = T[i]
        BY <2>1
      <3>2. T[i] = EntriesRound(file, walk[k], T[i - 1])
        BY <1>9, <2>1
      <3> HIDE DEF F
      <3> QED BY <3>1, <3>2
    <2>3. CASE k < N
      <3>1. k + 1 \in file.depth .. N /\ N + 1 - (k + 1) = i - 1
        BY <1>1, <2>1, <2>3
      <3>2. F[k + 1] = T[i - 1]
        BY <3>1
      <3> HIDE DEF F
      <3> QED BY <2>2, <2>3, <3>2
    <2>4. CASE ~(k < N)
      <3>1. i - 1 = 0
        BY <1>1, <2>1, <2>4
      <3> HIDE DEF F
      <3> QED BY <1>8, <2>2, <2>4, <3>1
    <2> QED BY <2>3, <2>4
  <1>11. ListedFrom(F, file, walk)
    <2>1. F = [k \in file.depth .. N |-> F[k]]
      OBVIOUS
    <2> HIDE DEF F
    <2> QED BY <1>2, <1>10, <2>1 DEF ListedFrom
  <1> HIDE DEF F
  <1> QED BY <1>11 DEF walk

\* A walk that comes to no page twice lists every entry on its way.
LEMMA WalkIsInjective ==
  ASSUME NEW file, Walkable(file), ChainIsWhole(file, Walk(file)),
         NEW j \in 1 .. Len(file.pages) + 1, NEW k \in 1 .. Len(file.pages) + 1,
         Walk(file)[j] # 0, Walk(file)[j] = Walk(file)[k]
  PROVE  j = k
  <1> DEFINE walk == Walk(file)
             S == Reached(walk)
             T == {walk[m] : m \in S}
             f == [m \in S |-> walk[m]]
  <1>1. /\ walk \in [1 .. Len(file.pages) + 1 -> Nat]
        /\ DOMAIN walk = 1 .. Len(file.pages) + 1
    BY WalkIs
  <1>2. S \subseteq 1 .. Len(file.pages) + 1 /\ j \in S /\ k \in S
    <2> HIDE DEF walk
    <2>1. S = {m \in 1 .. Len(file.pages) + 1 : walk[m] # 0}
      BY <1>1 DEF Reached
    <2>2. walk[j] # 0 /\ walk[k] # 0
      BY DEF walk
    <2> QED BY <2>1, <2>2
  <1>3. Cardinality(T) = Cardinality(S)
    BY DEF ChainIsWhole
  <1>4. IsFiniteSet(S)
    <2>1. IsFiniteSet(1 .. Len(file.pages) + 1)
      <3>1. 1 \in Int /\ Len(file.pages) + 1 \in Int
        BY FileIs
      <3> QED BY <3>1, FS_Interval
    <2> QED BY <1>2, <2>1, FS_Subset
  <1> HIDE DEF walk, S
  <1>5. f \in Surjection(S, T)
    BY DEF Surjection
  <1>6. f \in Injection(S, T)
    <2> HIDE DEF f, T
    <2> QED BY <1>3, <1>4, <1>5, FS_Surjection
  <1>7. f[j] = f[k]
    <2>1. walk[j] = walk[k]
      BY DEF walk
    <2> QED BY <1>2, <2>1
  <1>8. \A a, b \in S : f[a] = f[b] => a = b
    <2> HIDE DEF f, T
    <2> QED BY <1>6 DEF Injection, IsInjective
  <1> HIDE DEF f
  <1> QED BY <1>2, <1>7, <1>8

LEMMA WalkStaysEnded ==
  ASSUME NEW file, Walkable(file), NEW k \in 1 .. Len(file.pages) + 1, Walk(file)[k] = 0,
         NEW j \in k .. Len(file.pages) + 1
  PROVE  Walk(file)[j] = 0
  <1> DEFINE N == Len(file.pages) + 1
             S == {i \in 0 .. N - k : Walk(file)[k + i] = 0}
  <1>1. N \in Nat \ {0} /\ N - k \in Nat
    BY FileIs
  <1>2. 0 \in S
    BY <1>1
  <1>3. ASSUME NEW i \in 1 .. N - k, i - 1 \in S PROVE i \in S
    <2>1. k + (i - 1) \in 1 .. Len(file.pages) /\ (k + (i - 1)) + 1 = k + i /\ i \in 0 .. N - k
      BY <1>1
    <2>2. Walk(file)[k + (i - 1)] = 0
      BY <1>3
    <2>3. Walk(file)[(k + (i - 1)) + 1] = 0
      BY <2>1, <2>2, WalkIs
    <2> QED BY <2>1, <2>3
  <1>4. \A i \in 0 .. N - k : i \in S
    <2> HIDE DEF S, N
    <2>1. \A i \in 1 .. N - k : i - 1 \in S => i \in S
      BY <1>3
    <2> QED BY <1>1, <1>2, <2>1, Upwards
  <1>5. j - k \in 0 .. N - k /\ k + (j - k) = j
    BY <1>1
  <1>6. j - k \in S
    <2> HIDE DEF S, N
    <2> QED BY <1>4, <1>5
  <1> QED BY <1>5, <1>6

LEMMA SlotsContinue ==
  ASSUME NEW file, Walkable(file), ChainIsWhole(file, Walk(file)),
         NEW k \in 1 .. Len(file.pages) + 1
  PROVE  LET walk == Walk(file)
         IN  /\ walk[k] = 0 => SlotsFrom(file, walk, k) = {}
             /\ walk[k] # 0 =>
                  /\ SlotsFrom(file, walk, k)
                        = SlotsOn(file, walk[k]) \union SlotsFrom(file, walk, k + 1)
                  /\ SlotsOn(file, walk[k]) \intersect SlotsFrom(file, walk, k + 1) = {}
  <1> DEFINE walk == Walk(file)
             N == Len(file.pages) + 1
             On(j) == SlotsOn(file, walk[j])
             Later == {m \in k + 1 .. N : walk[m] # 0}
  <1>1. N \in Nat \ {0} /\ Len(walk) = N
    BY FileIs, WalkIs
  <1>2. SlotsFrom(file, walk, k) = UNION {On(j) : j \in {m \in k .. N : walk[m] # 0}}
    BY <1>1 DEF SlotsFrom
  <1>3. SlotsFrom(file, walk, k + 1) = UNION {On(j) : j \in Later}
    BY <1>1 DEF SlotsFrom
  <1>4. CASE walk[k] = 0
    <2>1. \A m \in k .. N : walk[m] = 0
      BY <1>4, WalkStaysEnded
    <2> HIDE DEF walk, On
    <2>2. {m \in k .. N : walk[m] # 0} = {}
      BY <2>1
    <2> QED BY <1>2, <1>4, <2>2 DEF walk
  <1>5. CASE walk[k] # 0
    <2>1. {m \in k .. N : walk[m] # 0} = {k} \union Later
      <3> HIDE DEF walk, N
      <3>1. k \in k .. N /\ \A m \in k .. N : m = k \/ m \in k + 1 .. N
        BY <1>1 DEF N
      <3>2. \A m \in k + 1 .. N : m \in k .. N
        BY <1>1
      <3> QED BY <1>5, <3>1, <3>2
    <2>2. SlotsFrom(file, walk, k) = On(k) \union SlotsFrom(file, walk, k + 1)
      <3> HIDE DEF walk, On, Later
      <3> QED BY <1>2, <1>3, <2>1
    <2>3. ASSUME NEW s \in On(k), s \in SlotsFrom(file, walk, k + 1) PROVE FALSE
      <3>1. PICK j \in Later : s \in On(j)
        BY <1>3, <2>3
      <3>2. walk[j] = walk[k]
        BY <2>3, <3>1 DEF SlotsOn
      <3>3. j \in 1 .. N /\ j > k
        BY <1>1
      <3>4. k = j
        BY <1>5, <3>2, <3>3, WalkIsInjective
      <3> QED BY <3>3, <3>4
    <2>4. On(k) \intersect SlotsFrom(file, walk, k + 1) = {}
      <3> HIDE DEF On, walk
      <3> QED BY <2>3
    <2> QED BY <1>5, <2>2, <2>4
  <1> QED BY <1>4, <1>5

\* A list of the entries at some places, each once.
ListsSlots(list, file, S) ==
    /\ list \in Seq(FiledEntries(file)) /\ IsFiniteSet(S)
    /\ Len(list) = Cardinality(S)
    /\ \A s \in S : \E q \in DOMAIN list : list[q] = EntryAt(file, s)

LEMMA ListsJoin ==
  ASSUME NEW file, NEW left, NEW right, NEW A, NEW B, A \intersect B = {},
         ListsSlots(left, file, A), ListsSlots(right, file, B)
  PROVE  ListsSlots(left \o right, file, A \union B)
  <1> DEFINE FE == FiledEntries(file)
             both == left \o right
  <1>1. left \in Seq(FE) /\ right \in Seq(FE)
    BY DEF ListsSlots
  <1> HIDE DEF FE
  <1>2. /\ both \in Seq(FE) /\ Len(both) = Len(left) + Len(right)
        /\ \A i \in 1 .. Len(left) + Len(right) :
             both[i] = IF i <= Len(left) THEN left[i] ELSE right[i - Len(left)]
    BY <1>1, ConcatProperties
  <1>3. /\ Len(left) \in Nat /\ DOMAIN left = 1 .. Len(left)
        /\ Len(right) \in Nat /\ DOMAIN right = 1 .. Len(right)
        /\ DOMAIN both = 1 .. Len(left) + Len(right)
    BY <1>1, <1>2, LenProperties
  <1> HIDE DEF both
  <1>4. IsFiniteSet(A \union B) /\ Cardinality(A \union B) = Len(both)
    <2>1. IsFiniteSet(A) /\ IsFiniteSet(B) /\ Cardinality(A) = Len(left) /\ Cardinality(B) = Len(right)
      BY DEF ListsSlots
    <2>2. Cardinality(A \intersect B) = 0
      BY FS_EmptySet
    <2>3. Cardinality(A \union B) = Cardinality(A) + Cardinality(B) - Cardinality(A \intersect B)
      BY <2>1, FS_Union
    <2>4. Cardinality(A \union B) = Len(left) + Len(right) - 0
      BY <2>1, <2>2, <2>3
    <2>5. Cardinality(A \union B) = Len(both)
      BY <1>2, <1>3, <2>4
    <2>6. IsFiniteSet(A \union B)
      BY <2>1, FS_Union
    <2> QED BY <2>5, <2>6
  <1>5. ASSUME NEW s \in A PROVE \E q \in DOMAIN both : both[q] = EntryAt(file, s)
    <2>1. PICK q \in DOMAIN left : left[q] = EntryAt(file, s)
      BY DEF ListsSlots
    <2>2. q \in 1 .. Len(left) + Len(right) /\ q <= Len(left)
      BY <1>3
    <2> QED BY <1>2, <1>3, <2>1, <2>2
  <1>6. ASSUME NEW s \in B PROVE \E q \in DOMAIN both : both[q] = EntryAt(file, s)
    <2>1. PICK q \in DOMAIN right : right[q] = EntryAt(file, s)
      BY DEF ListsSlots
    <2>2. /\ Len(left) + q \in 1 .. Len(left) + Len(right) /\ ~(Len(left) + q <= Len(left))
          /\ (Len(left) + q) - Len(left) = q
      BY <1>3
    <2>3. both[Len(left) + q] = right[q]
      BY <1>2, <2>2
    <2> QED BY <1>3, <2>1, <2>2, <2>3
  <1> QED BY <1>2, <1>4, <1>5, <1>6 DEF ListsSlots, FE, both

LEMMA WalkListsEntries ==
  ASSUME NEW file, Walkable(file), ChainIsWhole(file, Walk(file))
  PROVE  ListsSlots(Entries(file, Walk(file)), file, SlotsFrom(file, Walk(file), file.depth))
  <1> DEFINE walk == Walk(file)
             N == Len(file.pages) + 1
             F == CHOOSE G : ListedFrom(G, file, walk)
             After(k) == IF k < N THEN F[k + 1] ELSE <<>>
             S == {k \in 0 .. N : k + 1 >= file.depth =>
                     ListsSlots(After(k), file, SlotsFrom(file, walk, k + 1))}
  <1>1. N \in Nat \ {0} /\ file.depth \in 1 .. N /\ file.depth \in Nat
    BY FileIs
  <1>2. Len(walk) = N /\ \A k \in 1 .. N : walk[k] # 0 => walk[k] \in DOMAIN file.pages
    BY WalkIs
  <1>3. ListedFrom(F, file, walk)
    BY ListExists
  <1>4. Entries(file, walk) = F[file.depth]
    BY DEF Entries, ListedFrom, EntriesRound
  <1> HIDE DEF F
  <1>5. F = [k \in file.depth .. N |-> EntriesRound(file, walk[k], After(k))]
    BY <1>2, <1>3 DEF ListedFrom
  <1>6. ListsSlots(<<>>, file, {})
    <2>1. <<>> \in Seq(FiledEntries(file)) /\ Len(<<>>) = 0
      BY EmptySeq
    <2> QED BY <2>1, FS_EmptySet DEF ListsSlots
  <1>7. N \in S
    <2>1. SlotsFrom(file, walk, N + 1) = {}
      <3>1. N + 1 .. Len(walk) = {}
        BY <1>1, <1>2
      <3> HIDE DEF walk, N
      <3> QED BY <3>1 DEF SlotsFrom
    <2>2. After(N) = <<>>
      BY <1>1
    <2>3. N \in 0 .. N
      BY <1>1
    <2> HIDE DEF After, walk, N
    <2>4. ListsSlots(After(N), file, SlotsFrom(file, walk, N + 1))
      BY <1>6, <2>1, <2>2
    <2> QED BY <2>3, <2>4
  <1>8. ASSUME NEW i \in 0 .. N - 1, i + 1 \in S PROVE i \in S
    <2> DEFINE k == i + 1
    <2>1. k \in 1 .. N /\ i < N /\ i \in 0 .. N
      BY <1>1
    <2> SUFFICES ASSUME k >= file.depth
                 PROVE  ListsSlots(After(i), file, SlotsFrom(file, walk, k))
      BY <2>1
    <2>2. k \in file.depth .. N
      BY <1>1, <2>1
    <2>3. After(i) = EntriesRound(file, walk[k], After(k))
      BY <1>5, <2>1, <2>2
    <2>4. ListsSlots(After(k), file, SlotsFrom(file, walk, k + 1))
      BY <1>1, <1>8, <2>1
    <2> HIDE DEF After, k
    <2>5. CASE walk[k] = 0
      <3>1. SlotsFrom(file, walk, k) = {}
        BY <2>1, <2>5, SlotsContinue
      <3>2. After(i) = <<>>
        BY <2>3, <2>5 DEF EntriesRound
      <3> HIDE DEF walk
      <3> QED BY <1>6, <3>1, <3>2
    <2>6. CASE walk[k] # 0
      <3>1. /\ SlotsFrom(file, walk, k) = SlotsOn(file, walk[k]) \union SlotsFrom(file, walk, k + 1)
            /\ SlotsOn(file, walk[k]) \intersect SlotsFrom(file, walk, k + 1) = {}
        BY <2>1, <2>6, SlotsContinue
      <3>2. After(i) = file.pages[walk[k]].entries \o After(k)
        BY <2>3, <2>6 DEF EntriesRound
      <3>3. walk[k] \in DOMAIN file.pages
        BY <1>2, <2>1, <2>6
      <3>4. ListsSlots(file.pages[walk[k]].entries, file, SlotsOn(file, walk[k]))
        <4>1. PICK id \in DOMAIN file.pages : id = walk[k]
          BY <3>3
        <4>2. /\ IsFiniteSet(SlotsOn(file, id))
              /\ Cardinality(SlotsOn(file, id)) = Len(file.pages[id].entries)
              /\ file.pages[id].entries \in Seq(FiledEntries(file))
          BY SlotsAre DEF Walkable
        <4>3. \A s \in SlotsOn(file, id) : \E q \in DOMAIN file.pages[id].entries :
                file.pages[id].entries[q] = EntryAt(file, s)
          BY DEF SlotsOn, EntryAt
        <4> HIDE DEF walk
        <4> QED BY <4>1, <4>2, <4>3 DEF ListsSlots
      <3> HIDE DEF walk
      <3> QED BY <2>4, <3>1, <3>2, <3>4, ListsJoin
    <2> QED BY <2>5, <2>6
  <1>9. \A i \in 0 .. N : i \in S
    <2> HIDE DEF S, N
    <2>1. \A i \in 0 .. N - 1 : i + 1 \in S => i \in S
      BY <1>8
    <2> QED BY <1>1, <1>7, <2>1, Downwards
  <1>10. file.depth - 1 \in S
    <2>1. file.depth - 1 \in 0 .. N
      BY <1>1
    <2> HIDE DEF S
    <2> QED BY <1>9, <2>1
  <1>11. ListsSlots(After(file.depth - 1), file, SlotsFrom(file, walk, file.depth))
    <2>1. (file.depth - 1) + 1 = file.depth
      BY <1>1
    <2> HIDE DEF After, walk, N
    <2> QED BY <1>1, <1>10, <2>1
  <1>12. After(file.depth - 1) = F[file.depth]
    <2>1. (file.depth - 1) + 1 = file.depth /\ file.depth - 1 < N
      BY <1>1
    <2> QED BY <2>1
  <1> QED BY <1>4, <1>11, <1>12

\* A chain that is whole and lists as many entries as the file has lists them
\* all.
LEMMA ChainHasAllEntries ==
  ASSUME NEW file, Walkable(file), ChainIsWhole(file, Walk(file)),
         Cardinality(Slots(file)) <= Len(Entries(file, Walk(file)))
  PROVE  LET entries == Entries(file, Walk(file))
         IN  /\ \A s \in Slots(file) : \E q \in DOMAIN entries : entries[q] = EntryAt(file, s)
             /\ \A q \in DOMAIN entries : \E s \in Slots(file) : entries[q] = EntryAt(file, s)
  <1> DEFINE entries == Entries(file, Walk(file))
             S == SlotsFrom(file, Walk(file), file.depth)
  <1>1. ListsSlots(entries, file, S)
    BY WalkListsEntries
  <1>2. S \subseteq Slots(file)
    <2> DEFINE walk == Walk(file)
    <2>1. \A k \in 1 .. Len(file.pages) + 1 : walk[k] # 0 => walk[k] \in DOMAIN file.pages
      BY WalkIs
    <2>2. \A k \in file.depth .. Len(walk) : k \in 1 .. Len(file.pages) + 1
      BY WalkIs, FileIs
    <2>3. \A id \in DOMAIN file.pages : SlotsOn(file, id) \subseteq Slots(file)
      BY SlotsAre DEF Walkable
    <2> HIDE DEF walk
    <2>4. \A k \in {m \in file.depth .. Len(walk) : walk[m] # 0} :
             SlotsOn(file, walk[k]) \subseteq Slots(file)
      BY <2>1, <2>2, <2>3
    <2>5. SlotsFrom(file, walk, file.depth) \subseteq Slots(file)
      BY <2>4 DEF SlotsFrom
    <2> QED BY <2>5 DEF walk
  <1>3. IsFiniteSet(Slots(file))
    BY SlotsAre DEF Walkable
  <1> HIDE DEF S, entries
  <1>4. Slots(file) = S
    <2>1. Cardinality(Slots(file)) <= Cardinality(S)
      BY <1>1 DEF ListsSlots, entries
    <2>2. Cardinality(S) <= Cardinality(Slots(file))
      BY <1>2, <1>3, FS_Subset
    <2>3. Cardinality(S) \in Nat /\ Cardinality(Slots(file)) \in Nat
      BY <1>1, <1>3, FS_CardinalityType DEF ListsSlots
    <2>4. Cardinality(Slots(file)) = Cardinality(S)
      BY <2>1, <2>2, <2>3
    <2> QED BY <1>2, <1>3, <2>4, FS_Subset
  <1>5. \A q \in DOMAIN entries : \E s \in Slots(file) : entries[q] = EntryAt(file, s)
    <2>1. entries \in Seq(FiledEntries(file))
      BY <1>1 DEF ListsSlots
    <2>2. \A q \in DOMAIN entries : entries[q] \in FiledEntries(file)
      BY <2>1, ElementOfSeq, LenProperties
    <2> QED BY <2>2 DEF FiledEntries
  <1> QED BY <1>1, <1>4, <1>5 DEF ListsSlots, entries

-----------------------------------------------------------------------------
(***************************************************************************)
(* Texts, and the keys that are made of them.                              *)
(***************************************************************************)
\* What it is for a text not to come before another.
NotBefore(left, right) ==
    \/ \E j \in 1 .. Len(left) :
         /\ j <= Len(right) /\ left[j] > right[j]
         /\ \A i \in 1 .. j - 1 : left[i] = right[i]
    \/ /\ Len(left) >= Len(right)
       /\ \A i \in 1 .. Len(right) : left[i] = right[i]

LEMMA ComparisonIs ==
  ASSUME NEW left \in Seq(Int), NEW right \in Seq(Int)
  PROVE  /\ CompareTexts(left, right) \in Int
         /\ CompareTexts(left, right) >= 0 <=> NotBefore(left, right)
         /\ CompareTexts(left, right) = 0 <=> left = right
  <1> DEFINE common == Min({Len(left), Len(right)})
             differ == {i \in 1 .. common : left[i] # right[i]}
             m == Min(differ)
  <1>1. Len(left) \in Nat /\ Len(right) \in Nat
    BY LenProperties
  <1>2. common = IF Len(left) <= Len(right) THEN Len(left) ELSE Len(right)
    BY <1>1 DEF Min
  <1>3. CompareTexts(left, right) =
           IF differ # {} THEN IF left[m] < right[m] THEN -1 ELSE 1
           ELSE CASE Len(left) < Len(right) -> -1
                  [] Len(left) = Len(right) -> 0
                  [] OTHER -> 1
    BY DEF CompareTexts
  <1> HIDE DEF common
  <1>4. \A i \in 1 .. common : left[i] \in Int /\ right[i] \in Int
    BY <1>1, <1>2, ElementOfSeq
  <1>5. CASE differ = {}
    <2>1. \A i \in 1 .. common : left[i] = right[i]
      BY <1>5
    <2> HIDE DEF differ, m
    <2>2. CompareTexts(left, right) = CASE Len(left) < Len(right) -> -1
                                        [] Len(left) = Len(right) -> 0
                                        [] OTHER -> 1
      BY <1>3, <1>5
    <2>3. CASE Len(left) < Len(right)
      <3>1. CompareTexts(left, right) = -1
        BY <2>2, <2>3
      <3>2. common = Len(left)
        BY <1>1, <1>2, <2>3
      <3>3. ~NotBefore(left, right)
        <4>1. \A j \in 1 .. Len(left) : left[j] = right[j] /\ left[j] \in Int
          BY <1>4, <2>1, <3>2
        <4> QED BY <1>1, <2>3, <4>1 DEF NotBefore
      <3> QED BY <2>3, <3>1, <3>3
    <2>4. CASE Len(left) = Len(right)
      <3>1. CompareTexts(left, right) = 0
        BY <2>2, <2>4
      <3>2. common = Len(right) /\ common = Len(left)
        BY <1>1, <1>2, <2>4
      <3>3. NotBefore(left, right)
        BY <1>1, <2>1, <2>4, <3>2 DEF NotBefore
      <3>4. left = right
        BY <2>1, <2>4, <3>2, SeqEqual
      <3> QED BY <3>1, <3>3, <3>4
    <2>5. CASE Len(left) > Len(right)
      <3>1. CompareTexts(left, right) = 1
        BY <1>1, <2>2, <2>5
      <3>2. common = Len(right)
        BY <1>1, <1>2, <2>5
      <3>3. NotBefore(left, right)
        BY <1>1, <2>1, <2>5, <3>2 DEF NotBefore
      <3>4. left # right
        BY <1>1, <2>5
      <3> QED BY <3>1, <3>3, <3>4
    <2> QED BY <1>1, <2>3, <2>4, <2>5
  <1>6. CASE differ # {}
    <2>1. differ \subseteq Nat
      OBVIOUS
    <2>2. m \in differ /\ \A y \in differ : m <= y
      <3> HIDE DEF differ
      <3> QED BY <1>6, <2>1, MinIs
    <2>3. m \in 1 .. common /\ left[m] # right[m]
      BY <2>2
    <2>4. CompareTexts(left, right) = IF left[m] < right[m] THEN -1 ELSE 1
      BY <1>3, <1>6
    <2> HIDE DEF m
    <2>5. \A i \in 1 .. m - 1 : left[i] = right[i]
      <3>1. common \in Nat
        BY <1>1, <1>2
      <3>2. \A i \in 1 .. m - 1 : i \in 1 .. common /\ ~(m <= i)
        BY <2>3, <3>1
      <3> QED BY <2>2, <3>2
    <2>6. m \in 1 .. Len(left) /\ m \in 1 .. Len(right) /\ left[m] \in Int /\ right[m] \in Int
      BY <1>1, <1>2, <1>4, <2>3
    <2>7. left # right
      BY <2>3
    <2>8. CASE left[m] > right[m]
      <3>1. NotBefore(left, right)
        BY <2>5, <2>6, <2>8 DEF NotBefore
      <3>2. CompareTexts(left, right) = 1
        BY <2>4, <2>6, <2>8
      <3> QED BY <2>7, <3>1, <3>2
    <2>9. CASE ~(left[m] > right[m])
      <3>1. left[m] < right[m]
        BY <2>3, <2>6, <2>9
      <3>2. CompareTexts(left, right) = -1
        BY <2>4, <3>1
      <3>3. ASSUME NEW j \in 1 .. Len(left), j <= Len(right), left[j] > right[j],
                   \A i \in 1 .. j - 1 : left[i] = right[i]
            PROVE  FALSE
        <4>1. j \in 1 .. common /\ left[j] # right[j]
          BY <1>1, <1>2, <1>4, <3>3
        <4>2. m <= j
          BY <2>2, <4>1
        <4>3. m # j
          BY <2>9, <3>3
        <4>4. m \in 1 .. j - 1
          BY <2>3, <4>2, <4>3
        <4> QED BY <2>3, <3>3, <4>4
      <3>4. ~(\A i \in 1 .. Len(right) : left[i] = right[i])
        BY <2>3, <2>6
      <3>5. ~NotBefore(left, right)
        BY <3>3, <3>4 DEF NotBefore
      <3> QED BY <2>7, <3>2, <3>5
    <2> QED BY <2>8, <2>9
  <1> QED BY <1>5, <1>6

\* What a key leaves of a text: all before the first space that a key has
\* room for.
IsCut(text, c) ==
    /\ c \in 0 .. Len(text) /\ c <= KeyWidth
    /\ \A i \in 1 .. c : text[i] # Space
    /\ c = KeyWidth \/ c = Len(text) \/ text[c + 1] = Space

LEMMA SubSeqsAgree ==
  ASSUME NEW s, NEW t, NEW c \in Nat, \A i \in 1 .. c : s[i] = t[i] /\ s[i] \in Int
  PROVE  /\ SubSeq(s, 1, c) = SubSeq(t, 1, c)
         /\ SubSeq(s, 1, c) \in Seq(Int) /\ Len(SubSeq(s, 1, c)) = c
         /\ \A i \in 1 .. c : SubSeq(s, 1, c)[i] = s[i]
  <1>1. ASSUME NEW u, \A i \in 1 .. c : u[i] \in Int
        PROVE  /\ SubSeq(u, 1, c) \in Seq(Int) /\ Len(SubSeq(u, 1, c)) = c
               /\ \A i \in 1 .. c : SubSeq(u, 1, c)[i] = u[i]
    <2>1. /\ SubSeq(u, 1, c) \in Seq(Int)
          /\ Len(SubSeq(u, 1, c)) = IF 1 <= c THEN c - 1 + 1 ELSE 0
          /\ \A i \in 1 .. c - 1 + 1 : SubSeq(u, 1, c)[i] = u[1 + i - 1]
      BY <1>1, SubSeqProperties
    <2>2. \A i \in 1 .. c : i \in 1 .. c - 1 + 1 /\ 1 + i - 1 = i
      OBVIOUS
    <2>3. Len(SubSeq(u, 1, c)) = c
      BY <2>1
    <2> QED BY <2>1, <2>2, <2>3
  <1>2. \A i \in 1 .. c : t[i] \in Int
    OBVIOUS
  <1> QED BY <1>1, <1>2, SeqEqual

LEMMA DecodedIs ==
  ASSUME NEW key \in Seq(Int)
  PROVE  \E c \in 0 .. Len(key) :
            /\ decode_value(key) = SubSeq(key, 1, c)
            /\ \A i \in 1 .. c : key[i] # Space
            /\ c = Len(key) \/ key[c + 1] = Space
  <1> DEFINE spaces == {k \in DOMAIN key : key[k] = Space}
  <1>1. Len(key) \in Nat /\ DOMAIN key = 1 .. Len(key)
    BY LenProperties
  <1>2. decode_value(key) = IF spaces = {} THEN key ELSE SubSeq(key, 1, Min(spaces) - 1)
    BY DEF decode_value
  <1>3. CASE spaces = {}
    <2>1. key = SubSeq(key, 1, Len(key))
      BY SubSeqFull
    <2>2. \A i \in 1 .. Len(key) : key[i] # Space
      BY <1>1, <1>3
    <2> HIDE DEF spaces
    <2>3. decode_value(key) = SubSeq(key, 1, Len(key)) /\ Len(key) \in 0 .. Len(key)
      BY <1>1, <1>2, <1>3, <2>1
    <2> QED BY <2>2, <2>3
  <1>4. CASE spaces # {}
    <2>1. spaces \subseteq Nat
      BY <1>1
    <2>2. Min(spaces) \in spaces /\ \A y \in spaces : Min(spaces) <= y
      <3> HIDE DEF spaces
      <3> QED BY <1>4, <2>1, MinIs
    <2>3. Min(spaces) \in 1 .. Len(key) /\ key[Min(spaces)] = Space
      BY <1>1, <2>2
    <2> DEFINE c == Min(spaces) - 1
    <2>4. c \in 0 .. Len(key) /\ c + 1 = Min(spaces)
      BY <1>1, <2>3
    <2>5. \A i \in 1 .. c : key[i] # Space
      <3> SUFFICES ASSUME NEW i \in 1 .. c, key[i] = Space PROVE FALSE
        OBVIOUS
      <3> HIDE DEF c
      <3>1. i \in DOMAIN key /\ ~(c + 1 <= i)
        BY <1>1, <2>4
      <3>2. i \in spaces
        BY <3>1
      <3> HIDE DEF spaces
      <3> QED BY <2>2, <2>4, <3>1, <3>2
    <2>6. decode_value(key) = SubSeq(key, 1, c)
      BY <1>2, <1>4
    <2> HIDE DEF c
    <2> QED BY <2>3, <2>4, <2>5, <2>6
  <1> QED BY <1>3, <1>4

LEMMA TruncatedIs ==
  ASSUME NEW text \in Seq(Int)
  PROVE  \E c : IsCut(text, c) /\ truncate_index_string(text) = SubSeq(text, 1, c)
  <1> DEFINE n == Min({KeyWidth, Len(text)})
             key == SubSeq(text, 1, n)
  <1>1. KeyWidth \in Nat /\ Len(text) \in Nat
    BY IndexAssumption, LenProperties
  <1>2. n = IF KeyWidth <= Len(text) THEN KeyWidth ELSE Len(text)
    BY <1>1 DEF Min
  <1> HIDE DEF n
  <1>3. n \in 0 .. Len(text) /\ n <= KeyWidth /\ (n = KeyWidth \/ n = Len(text)) /\ n \in Nat
    BY <1>1, <1>2
  <1>4. /\ key \in Seq(Int) /\ Len(key) = n
        /\ \A i \in 1 .. n : key[i] = text[i] /\ key[i] \in Int
    <2>1. \A i \in 1 .. n : text[i] = text[i] /\ text[i] \in Int
      BY <1>1, <1>3, ElementOfSeq
    <2> QED BY <1>3, <2>1, SubSeqsAgree
  <1>5. PICK c \in 0 .. n : /\ decode_value(key) = SubSeq(key, 1, c)
                            /\ \A i \in 1 .. c : key[i] # Space
                            /\ c = n \/ key[c + 1] = Space
    <2> HIDE DEF key
    <2> QED BY <1>4, DecodedIs
  <1>6. truncate_index_string(text) = decode_value(key)
    BY DEF truncate_index_string, n
  <1>7. SubSeq(key, 1, c) = SubSeq(text, 1, c)
    <2>1. c \in Nat /\ \A i \in 1 .. c : key[i] = text[i] /\ key[i] \in Int
      BY <1>3, <1>4
    <2> HIDE DEF key
    <2> QED BY <2>1, SubSeqsAgree
  <1>8. IsCut(text, c)
    <2> HIDE DEF key
    <2>1. \A i \in 1 .. c : i \in 1 .. n
      BY <1>3
    <2>2. \A i \in 1 .. c : text[i] # Space
      BY <1>4, <1>5, <2>1
    <2>3. c = n \/ text[c + 1] = Space
      <3>1. c # n => c + 1 \in 1 .. n
        BY <1>3
      <3> QED BY <1>4, <1>5, <3>1
    <2> QED BY <1>1, <1>3, <2>2, <2>3 DEF IsCut
  <1> QED BY <1>5, <1>6, <1>7, <1>8

LEMMA CutIsUnique ==
  ASSUME NEW text \in Seq(Int), NEW c, NEW d, IsCut(text, c), IsCut(text, d)
  PROVE  c = d
  <1>1. Len(text) \in Nat /\ KeyWidth \in Nat
    BY IndexAssumption, LenProperties
  <1>2. ASSUME NEW a, NEW b, IsCut(text, a), IsCut(text, b), a < b PROVE FALSE
    <2>1. a \in 0 .. Len(text) /\ b \in 0 .. Len(text) /\ b <= KeyWidth
      BY <1>2 DEF IsCut
    <2>2. text[a + 1] = Space
      BY <1>1, <1>2, <2>1 DEF IsCut
    <2>3. a + 1 \in 1 .. b
      BY <1>1, <1>2, <2>1
    <2> QED BY <1>2, <2>2, <2>3 DEF IsCut
  <1>3. c \in Int /\ d \in Int
    BY <1>1 DEF IsCut
  <1>4. ~(c < d) /\ ~(d < c)
    BY <1>2
  <1> QED BY <1>3, <1>4

\* Without surrogates a text is its own UTF-16.
FlattenedFrom(F, seqs) ==
    F = [i \in 1 .. Len(seqs) |-> IF i = 1 THEN seqs[i] ELSE F[i - 1] \o seqs[i]]

LEMMA PlainUtf16 ==
  ASSUME NEW text \in Seq(Int), \A k \in DOMAIN text : text[k] # NonBmp
  PROVE  Utf16(text) = text
  <1> DEFINE n == Len(text)
             seqs == [i \in DOMAIN text |->
                        IF text[i] = NonBmp THEN <<Surrogate, Surrogate>> ELSE <<text[i]>>]
             F == CHOOSE G : FlattenedFrom(G, seqs)
             H == [i \in 1 .. n |-> SubSeq(text, 1, i)]
  <1>1. n \in Nat /\ DOMAIN text = 1 .. n
    BY LenProperties
  <1>2. Len(seqs) = n /\ \A i \in 1 .. n : seqs[i] = <<text[i]>>
    <2>1. seqs = [i \in 1 .. n |-> <<text[i]>>]
      BY <1>1
    <2> HIDE DEF seqs, n
    <2> QED BY <1>1, <2>1, LenProperties
  <1>3. Utf16(text) = IF n = 0 THEN seqs ELSE F[n]
    <2>1. Utf16(text) = FlattenSeq(seqs)
      BY DEF Utf16
    <2>2. FlattenSeq(seqs) = IF Len(seqs) = 0 THEN seqs ELSE F[Len(seqs)]
      <3> HIDE DEF seqs
      <3> QED BY DEF FlattenSeq, FlattenedFrom
    <2> HIDE DEF seqs, F
    <2> QED BY <1>2, <2>1, <2>2
  <1>4. CASE n = 0
    <2>1. DOMAIN text = {}
      BY <1>1, <1>4
    <2>2. seqs = <<>> /\ text = <<>>
      BY <1>1, <1>4, <2>1, EmptySeq
    <2> QED BY <1>3, <1>4, <2>2
  <1>5. CASE n # 0
    <2>1. ASSUME NEW i \in 2 .. n PROVE SubSeq(text, 1, i) = SubSeq(text, 1, i - 1) \o <<text[i]>>
      <3>1. 1 \in 1 .. n /\ i \in 1 .. n
        BY <1>1
      <3> QED BY <3>1, SubSeqRecursiveSecond
    <2>2. 1 \in 1 .. n /\ text[1] \in Int
      BY <1>1, <1>5, ElementOfSeq
    <2>3. SubSeq(text, 1, 1) = <<text[1]>>
      <3>1. SubSeq(text, 1, 1) = SubSeq(text, 1, 0) \o <<text[1]>>
        <4>1. 1 \in 1 .. 1 /\ 1 - 1 = 0
          OBVIOUS
        <4> QED BY <2>2, <4>1, SubSeqRecursiveSecond
      <3>2. SubSeq(text, 1, 0) = <<>>
        BY SubSeqEmpty
      <3>3. <<text[1]>> \in Seq(Int)
        BY <2>2
      <3> QED BY <3>1, <3>2, <3>3, ConcatEmptySeq
    <2>4. FlattenedFrom(H, seqs)
      <3>1. \A i \in 1 .. n : H[i] = IF i = 1 THEN seqs[i] ELSE H[i - 1] \o seqs[i]
        <4> SUFFICES ASSUME NEW i \in 1 .. n
                     PROVE  H[i] = IF i = 1 THEN seqs[i] ELSE H[i - 1] \o seqs[i]
          OBVIOUS
        <4>1. CASE i = 1
          <5>1. H[i] = SubSeq(text, 1, 1) /\ seqs[i] = <<text[1]>>
            BY <1>2, <4>1
          <5> HIDE DEF H, seqs
          <5> QED BY <2>3, <4>1, <5>1
        <4>2. CASE i # 1
          <5>1. i \in 2 .. n /\ i - 1 \in 1 .. n
            BY <1>1, <4>2
          <5>2. H[i] = SubSeq(text, 1, i) /\ H[i - 1] = SubSeq(text, 1, i - 1)
            BY <5>1
          <5>3. seqs[i] = <<text[i]>>
            BY <1>2
          <5> HIDE DEF H, seqs
          <5> QED BY <2>1, <4>2, <5>1, <5>2, <5>3
        <4> QED BY <4>1, <4>2
      <3>2. H = [i \in 1 .. n |-> H[i]]
        OBVIOUS
      <3> HIDE DEF H, seqs
      <3> QED BY <1>2, <3>1, <3>2 DEF FlattenedFrom
    <2>5. FlattenedFrom(F, seqs)
      <3> HIDE DEF H, seqs
      <3> QED BY <2>4
    <2> HIDE DEF F, seqs
    <2>6. \A i \in 1 .. n : F[i] = IF i = 1 THEN seqs[i] ELSE F[i - 1] \o seqs[i]
      BY <1>2, <2>5 DEF FlattenedFrom
    <2> DEFINE S == {i \in 0 .. n : i > 0 => F[i] = SubSeq(text, 1, i)}
    <2>7. 0 \in S
      BY <1>1
    <2>8. ASSUME NEW i \in 1 .. n, i - 1 \in S PROVE i \in S
      <3>1. i \in 0 .. n /\ i > 0
        BY <1>1
      <3>2. CASE i = 1
        <4>1. F[i] = <<text[1]>>
          BY <1>2, <2>6, <3>2
        <4> QED BY <2>3, <3>1, <3>2, <4>1
      <3>3. CASE i # 1
        <4>1. i \in 2 .. n /\ i - 1 > 0
          BY <1>1, <3>3
        <4>2. F[i - 1] = SubSeq(text, 1, i - 1)
          BY <2>8, <4>1
        <4>3. F[i] = F[i - 1] \o <<text[i]>>
          BY <1>2, <2>6, <3>3
        <4> QED BY <2>1, <3>1, <4>1, <4>2, <4>3
      <3> QED BY <3>2, <3>3
    <2>9. \A i \in 0 .. n : i \in S
      <3> HIDE DEF S, n
      <3>1. \A i \in 1 .. n : i - 1 \in S => i \in S
        BY <2>8
      <3> QED BY <1>1, <2>7, <3>1, Upwards
    <2>10. F[n] = SubSeq(text, 1, n)
      <3>1. n \in 0 .. n /\ n > 0
        BY <1>1, <1>5
      <3>2. n \in S
        <4> HIDE DEF S, n
        <4> QED BY <2>9, <3>1
      <3> QED BY <3>1, <3>2
    <2>11. SubSeq(text, 1, n) = text
      BY SubSeqFull
    <2> QED BY <1>3, <1>5, <2>10, <2>11
  <1> QED BY <1>4, <1>5

LEMMA KeyIsCut ==
  ASSUME NEW value, value.sort = "text", value.value \in Seq(Int),
         \A k \in DOMAIN value.value : value.value[k] # NonBmp
  PROVE  \E c : IsCut(value.value, c) /\ decode_value(KeyOf(value)) = SubSeq(value.value, 1, c)
  <1> DEFINE text == value.value
             key == [k \in 1 .. KeyWidth |-> IF k <= Len(text) THEN text[k] ELSE Space]
  <1>1. Len(text) \in Nat /\ KeyWidth \in Nat /\ DOMAIN text = 1 .. Len(text) /\ text \in Seq(Int)
    BY IndexAssumption, LenProperties
  <1>2. KeyOf(value) = key
    <2>1. Utf16(text) = text
      BY PlainUtf16
    <2> QED BY <2>1 DEF KeyOf
  <1> HIDE DEF text
  <1>3. \A i \in 1 .. Len(text) : text[i] \in Int
    BY <1>1, ElementOfSeq
  <1>4. key \in Seq(Int) /\ Len(key) = KeyWidth
    <2>1. \A k \in 1 .. KeyWidth : (IF k <= Len(text) THEN text[k] ELSE Space) \in Int
      BY <1>1, <1>3 DEF Space
    <2>2. key \in [1 .. KeyWidth -> Int]
      BY <2>1
    <2> HIDE DEF key
    <2> QED BY <1>1, <2>2, IsASeq, LenProperties
  <1>5. PICK c \in 0 .. KeyWidth : /\ decode_value(key) = SubSeq(key, 1, c)
                                   /\ \A i \in 1 .. c : key[i] # Space
                                   /\ c = KeyWidth \/ key[c + 1] = Space
    <2> HIDE DEF key
    <2> QED BY <1>4, DecodedIs
  <1>6. c <= Len(text)
    <2> SUFFICES ASSUME Len(text) < c PROVE FALSE
      BY <1>1
    <2>1. Len(text) + 1 \in 1 .. c /\ Len(text) + 1 \in 1 .. KeyWidth
          /\ ~(Len(text) + 1 <= Len(text))
      BY <1>1
    <2>2. key[Len(text) + 1] = Space
      BY <2>1
    <2> QED BY <1>5, <2>1, <2>2
  <1>7. \A i \in 1 .. c : key[i] = text[i] /\ key[i] \in Int
    <2>1. \A i \in 1 .. c : i \in 1 .. KeyWidth /\ i <= Len(text) /\ i \in 1 .. Len(text)
      BY <1>1, <1>6
    <2> QED BY <1>3, <2>1
  <1>8. SubSeq(key, 1, c) = SubSeq(text, 1, c)
    <2>1. c \in Nat
      BY <1>1
    <2> HIDE DEF key
    <2> QED BY <1>7, <2>1, SubSeqsAgree
  <1>9. IsCut(text, c)
    <2>1. c = KeyWidth \/ c = Len(text) \/ text[c + 1] = Space
      <3> SUFFICES ASSUME c # KeyWidth, c # Len(text) PROVE text[c + 1] = Space
        OBVIOUS
      <3>1. c + 1 \in 1 .. KeyWidth /\ c + 1 <= Len(text)
        <4>1. Len(text) \in Nat /\ KeyWidth \in Nat /\ c \in 0 .. KeyWidth
          BY <1>1
        <4> HIDE DEF key
        <4> QED BY <1>6, <4>1
      <3>2. key[c + 1] = text[c + 1]
        BY <3>1
      <3> QED BY <1>5, <3>2
    <2>2. \A i \in 1 .. c : text[i] # Space
      BY <1>5, <1>7
    <2>3. c \in 0 .. Len(text) /\ c <= KeyWidth
      <3>1. Len(text) \in Nat /\ KeyWidth \in Nat /\ c \in 0 .. KeyWidth
        BY <1>1
      <3> HIDE DEF key
      <3> QED BY <1>6, <3>1
    <2> QED BY <2>1, <2>2, <2>3 DEF IsCut
  <1> QED BY <1>2, <1>5, <1>8, <1>9 DEF text

\* A row that the clause accepts is found by its key.
LEMMA EqualTextsHaveEqualKeys ==
  ASSUME NEW value, value.sort = "text", value.value \in Seq(Int),
         \A k \in DOMAIN value.value : value.value[k] # NonBmp
  PROVE  CompareTexts(decode_value(KeyOf(value)), truncate_index_string(value.value)) = 0
  <1>1. PICK c : IsCut(value.value, c) /\ decode_value(KeyOf(value)) = SubSeq(value.value, 1, c)
    BY KeyIsCut
  <1>2. PICK d : IsCut(value.value, d) /\ truncate_index_string(value.value) = SubSeq(value.value, 1, d)
    BY TruncatedIs
  <1>3. c = d
    BY <1>1, <1>2, CutIsUnique
  <1>4. SubSeq(value.value, 1, c) \in Seq(Int)
    <2>1. c \in 0 .. Len(value.value) /\ Len(value.value) \in Nat
      BY <1>1, LenProperties DEF IsCut
    <2>2. c \in Nat /\ \A i \in 1 .. c : value.value[i] = value.value[i] /\ value.value[i] \in Int
      BY <2>1, ElementOfSeq
    <2> QED BY <2>2, SubSeqsAgree
  <1> QED BY <1>1, <1>2, <1>3, <1>4, ComparisonIs

LEMMA CutsKeepOrder ==
  ASSUME NEW v \in Seq(Int), NEW w \in Seq(Int), NEW c, NEW d, IsCut(v, c), IsCut(w, d),
         NotBefore(v, w), \A k \in 1 .. Len(w) : ~(w[k] < Space)
  PROVE  NotBefore(SubSeq(v, 1, c), SubSeq(w, 1, d))
  <1>1. Len(v) \in Nat /\ Len(w) \in Nat /\ KeyWidth \in Nat
    BY IndexAssumption, LenProperties
  <1>2. c \in 0 .. Len(v) /\ d \in 0 .. Len(w) /\ c <= KeyWidth /\ d <= KeyWidth
    BY DEF IsCut
  <1>3. c = KeyWidth \/ c = Len(v) \/ v[c + 1] = Space
    BY DEF IsCut
  <1>4. \A i \in 1 .. d : w[i] # Space
    BY DEF IsCut
  <1>5. /\ Len(SubSeq(v, 1, c)) = c /\ \A i \in 1 .. c : SubSeq(v, 1, c)[i] = v[i]
        /\ Len(SubSeq(w, 1, d)) = d /\ \A i \in 1 .. d : SubSeq(w, 1, d)[i] = w[i]
    <2>1. c \in Nat /\ \A i \in 1 .. c : v[i] = v[i] /\ v[i] \in Int
      BY <1>1, <1>2, ElementOfSeq
    <2>2. d \in Nat /\ \A i \in 1 .. d : w[i] = w[i] /\ w[i] \in Int
      BY <1>1, <1>2, ElementOfSeq
    <2> QED BY <2>1, <2>2, SubSeqsAgree
  <1>6. ASSUME d <= c, \A i \in 1 .. d : v[i] = w[i]
        PROVE  NotBefore(SubSeq(v, 1, c), SubSeq(w, 1, d))
    <2>1. \A i \in 1 .. d : i \in 1 .. c
      BY <1>1, <1>2, <1>6
    <2>2. \A i \in 1 .. d : SubSeq(v, 1, c)[i] = SubSeq(w, 1, d)[i]
      BY <1>5, <1>6, <2>1
    <2> QED BY <1>2, <1>5, <1>6, <2>2 DEF NotBefore
  <1>7. ASSUME NEW j \in 1 .. Len(v), j <= Len(w), v[j] > w[j],
               \A i \in 1 .. j - 1 : v[i] = w[i]
        PROVE  NotBefore(SubSeq(v, 1, c), SubSeq(w, 1, d))
    <2>1. CASE j <= c /\ j <= d
      <3>1. j \in 1 .. c /\ j \in 1 .. d
        BY <1>1, <1>2, <2>1
      <3>2. \A i \in 1 .. j - 1 : i \in 1 .. c /\ i \in 1 .. d
        BY <1>1, <1>2, <2>1
      <3>3. /\ SubSeq(v, 1, c)[j] > SubSeq(w, 1, d)[j]
            /\ \A i \in 1 .. j - 1 : SubSeq(v, 1, c)[i] = SubSeq(w, 1, d)[i]
        BY <1>5, <1>7, <3>1, <3>2
      <3> QED BY <1>5, <2>1, <3>1, <3>3 DEF NotBefore
    <2>2. CASE d < j /\ d <= c
      <3>1. \A i \in 1 .. d : i \in 1 .. j - 1
        BY <1>1, <1>2, <2>2
      <3> QED BY <1>6, <1>7, <2>2, <3>1
    <2>3. CASE c < j /\ c < d
      <3>1. v[c + 1] = Space
        BY <1>1, <1>2, <1>3, <2>3
      <3>2. c + 1 \in 1 .. d
        BY <1>1, <1>2, <2>3
      <3>3. CASE c + 1 < j
        <4>1. c + 1 \in 1 .. j - 1
          BY <1>1, <1>2, <3>3
        <4> QED BY <1>4, <1>7, <3>1, <3>2, <4>1
      <3>4. CASE ~(c + 1 < j)
        <4>1. c + 1 = j /\ j \in 1 .. Len(w)
          BY <1>1, <1>2, <1>7, <2>3, <3>4
        <4>2. w[j] \in Int /\ v[j] \in Int
          BY <4>1, ElementOfSeq
        <4>3. w[j] < Space
          BY <1>7, <3>1, <4>1, <4>2
        <4> QED BY <4>1, <4>3
      <3> QED BY <3>3, <3>4
    <2> QED BY <1>1, <1>2, <2>1, <2>2, <2>3
  <1>8. ASSUME Len(v) >= Len(w), \A i \in 1 .. Len(w) : v[i] = w[i]
        PROVE  NotBefore(SubSeq(v, 1, c), SubSeq(w, 1, d))
    <2>1. \A i \in 1 .. d : i \in 1 .. Len(w)
      BY <1>1, <1>2
    <2>2. CASE d <= c
      BY <1>6, <1>8, <2>1, <2>2
    <2>3. CASE c < d
      <3>1. v[c + 1] = Space
        BY <1>1, <1>2, <1>3, <1>8, <2>3
      <3>2. c + 1 \in 1 .. d
        BY <1>1, <1>2, <2>3
      <3> QED BY <1>4, <1>8, <2>1, <3>1, <3>2
    <2> QED BY <1>1, <1>2, <2>2, <2>3
  <1> QED BY <1>7, <1>8 DEF NotBefore

LEMMA LaterTextsHaveLaterKeys ==
  ASSUME NEW value, value.sort = "text", value.value \in Seq(Int),
         \A k \in DOMAIN value.value : value.value[k] # NonBmp,
         NEW w \in Seq(Int), \A k \in DOMAIN w : ~(w[k] < Space),
         CompareTexts(value.value, w) >= 0
  PROVE  CompareTexts(decode_value(KeyOf(value)), truncate_index_string(w)) >= 0
  <1> DEFINE v == value.value
  <1>1. PICK c : IsCut(v, c) /\ decode_value(KeyOf(value)) = SubSeq(v, 1, c)
    BY KeyIsCut
  <1>2. PICK d : IsCut(w, d) /\ truncate_index_string(w) = SubSeq(w, 1, d)
    BY TruncatedIs
  <1>3. v \in Seq(Int) /\ NotBefore(v, w)
    BY ComparisonIs
  <1> HIDE DEF v
  <1>4. \A k \in 1 .. Len(w) : ~(w[k] < Space)
    <2>1. DOMAIN w = 1 .. Len(w)
      BY LenProperties
    <2> QED BY <2>1
  <1>5. NotBefore(SubSeq(v, 1, c), SubSeq(w, 1, d))
    BY <1>1, <1>2, <1>3, <1>4, CutsKeepOrder
  <1>6. ASSUME NEW t \in Seq(Int), NEW e, IsCut(t, e) PROVE SubSeq(t, 1, e) \in Seq(Int)
    <2>1. e \in 0 .. Len(t) /\ Len(t) \in Nat
      BY <1>6, LenProperties DEF IsCut
    <2>2. e \in Nat /\ \A i \in 1 .. e : t[i] = t[i] /\ t[i] \in Int
      BY <2>1, ElementOfSeq
    <2> QED BY <2>2, SubSeqsAgree
  <1>7. SubSeq(v, 1, c) \in Seq(Int) /\ SubSeq(w, 1, d) \in Seq(Int)
    BY <1>1, <1>2, <1>3, <1>6
  <1> QED BY <1>1, <1>2, <1>5, <1>7, ComparisonIs

\* Of the comparisons that an index may answer, one that holds of a value holds
\* of its key.
LEMMA KeyIsFound ==
  ASSUME NEW value, NEW op, NEW literal, NEW type,
         op # "!=", IsLiteral(literal), HasType(value, type),
         IF literal.is_string
         THEN /\ type = "String" /\ op \in {"=", ">="}
              /\ string_index_key_supported(literal.value)
         ELSE numeric_atx_supported(type),
         CompareWith(value, op, literal),
         ~(op = ">=" /\ MissedByGe(literal, value))
  PROVE  value.sort # "null" /\ Holds(compare_value(KeyOf(value), literal), op)
  <1>1. value.sort # "null"
    BY DEF CompareWith
  <1>2. CASE literal.is_string
    <2>1. value.sort = "text" /\ value.value \in Seq(Int) /\ literal.value \in Seq(Int)
      BY <1>1, <1>2 DEF HasType, IsLiteral
    <2>2. Holds(CompareTexts(value.value, literal.value), op)
      BY <2>1 DEF CompareWith
    <2>3. compare_value(KeyOf(value), literal) =
            CompareTexts(decode_value(KeyOf(value)), truncate_index_string(literal.value))
      BY <1>2 DEF compare_value
    <2>4. CASE op = "="
      <3>1. value.value = literal.value
        BY <2>1, <2>2, <2>4, ComparisonIs DEF Holds
      <3>2. \A k \in DOMAIN value.value : value.value[k] # NonBmp
        BY <1>2, <3>1 DEF string_index_key_supported
      <3>3. CompareTexts(decode_value(KeyOf(value)), truncate_index_string(value.value)) = 0
        BY <2>1, <3>2, EqualTextsHaveEqualKeys
      <3> QED BY <1>1, <2>3, <2>4, <3>1, <3>3 DEF Holds
    <2>5. CASE op = ">="
      <3>1. /\ \A k \in DOMAIN value.value : value.value[k] # NonBmp
            /\ \A k \in DOMAIN literal.value : ~(literal.value[k] < Space)
        BY <1>2, <2>1, <2>5 DEF MissedByGe
      <3>2. CompareTexts(value.value, literal.value) >= 0
        BY <2>2, <2>5 DEF Holds
      <3>3. CompareTexts(decode_value(KeyOf(value)), truncate_index_string(literal.value)) >= 0
        BY <2>1, <3>1, <3>2, LaterTextsHaveLaterKeys
      <3> QED BY <1>1, <2>3, <2>5, <3>3 DEF Holds
    <2> QED BY <1>2, <2>4, <2>5
  <1>3. CASE ~literal.is_string
    <2>1. value.sort \in {"nan", "number"}
      BY <1>1, <1>3 DEF HasType
    <2>2. value.sort = "number" /\ Holds(value.value - literal.value, op)
      BY <1>3, <2>1 DEF CompareWith
    <2>3. KeyOf(value) = value
      BY <2>2 DEF KeyOf
    <2>4. compare_value(value, literal) = value.value - literal.value
      BY <1>3, <2>2 DEF compare_value
    <2> QED BY <1>1, <2>2, <2>3, <2>4
  <1> QED BY <1>2, <1>3 DEF IsLiteral

\* A text that a key has room for can be read back from it.
LEMMA PlainTextIsReadBack ==
  ASSUME NEW value, value.sort = "text", value.value \in Seq(Int),
         Len(value.value) <= KeyWidth,
         \A k \in DOMAIN value.value : value.value[k] \notin {Space, NonBmp}
  PROVE  decode_value(KeyOf(value)) = value.value
  <1>1. PICK c : IsCut(value.value, c) /\ decode_value(KeyOf(value)) = SubSeq(value.value, 1, c)
    BY KeyIsCut
  <1>2. Len(value.value) \in Nat /\ DOMAIN value.value = 1 .. Len(value.value) /\ KeyWidth \in Nat
    BY IndexAssumption, LenProperties
  <1>3. c \in 0 .. Len(value.value) /\ c <= KeyWidth
        /\ (c = KeyWidth \/ c = Len(value.value) \/ value.value[c + 1] = Space)
    BY <1>1 DEF IsCut
  <1>4. c = Len(value.value)
    <2> SUFFICES ASSUME c # Len(value.value) PROVE FALSE
      OBVIOUS
    <2>1. c + 1 \in DOMAIN value.value /\ c # KeyWidth
      BY <1>2, <1>3
    <2> QED BY <1>3, <2>1
  <1> QED BY <1>1, <1>4, SubSeqFull

\* The entry by the name of an index compares with the whole literal.
LEMMA PlainKeyIsFound ==
  ASSUME NEW value, NEW op, NEW literal, NEW type,
         op # "!=", IsLiteral(literal), HasType(value, type),
         numeric_atx_supported(type) \/ type = "String",
         value.sort = "text" =>
            /\ Len(value.value) <= KeyWidth
            /\ \A k \in DOMAIN value.value : value.value[k] \notin {Space, NonBmp},
         CompareWith(value, op, literal)
  PROVE  /\ value.sort # "null"
         /\ Holds(IF literal.is_string THEN CompareTexts(decode_value(KeyOf(value)), literal.value)
                  ELSE compare_value(KeyOf(value), literal), op)
  <1>1. value.sort \in {"nan", "number"} \/ (value.sort = "text" /\ value.value \in Seq(Int))
    BY DEF HasType, CompareWith
  <1>2. CASE value.sort = "text"
    <2>1. literal.is_string /\ Holds(CompareTexts(value.value, literal.value), op)
      BY <1>2 DEF CompareWith
    <2>2. decode_value(KeyOf(value)) = value.value
      BY <1>1, <1>2, PlainTextIsReadBack
    <2> QED BY <1>2, <2>1, <2>2
  <1>3. CASE value.sort # "text"
    <2>1. value.sort = "number" /\ ~literal.is_string /\ Holds(value.value - literal.value, op)
      BY <1>1, <1>3 DEF CompareWith
    <2>2. KeyOf(value) = value
      BY <2>1 DEF KeyOf
    <2>3. compare_value(value, literal) = value.value - literal.value
      BY <2>1 DEF compare_value
    <2> QED BY <2>1, <2>2, <2>3
  <1> QED BY <1>2, <1>3

-----------------------------------------------------------------------------
(***************************************************************************)
(* What an attribute index answers.                                        *)
(***************************************************************************)
\* The entries of a chain that is as long as the trailer says.
LEMMA ChainHasAllValues ==
  ASSUME NEW file, NEW values, FilesValues(file, values), Walkable(file),
         ChainIsWhole(file, Walk(file)), Len(Entries(file, Walk(file))) = file.total,
         \A q \in DOMAIN Entries(file, Walk(file)) :
            Entries(file, Walk(file))[q].fid \in Nat =>
                Entries(file, Walk(file))[q].fid \in DOMAIN values,
         NEW f \in DOMAIN values, values[f].sort # "null"
  PROVE  \E q \in DOMAIN Entries(file, Walk(file)) :
            /\ Entries(file, Walk(file))[q].fid = f
            /\ Entries(file, Walk(file))[q].key = KeyOf(values[f])
  <1> DEFINE entries == Entries(file, Walk(file))
  <1>1. /\ \A s \in Slots(file) : \E q \in DOMAIN entries : entries[q] = EntryAt(file, s)
    <2>1. Cardinality(Slots(file)) <= Len(entries)
      BY DEF FilesValues
    <2> QED BY <2>1, ChainHasAllEntries
  <1>2. \A s \in Slots(file) : EntryAt(file, s).fid \in DOMAIN values
    <2>1. \A s \in Slots(file) : EntryAt(file, s).fid \in Nat
      BY DEF FilesValues, IsFile
    <2> HIDE DEF entries
    <2> SUFFICES ASSUME NEW s \in Slots(file) PROVE EntryAt(file, s).fid \in DOMAIN values
      OBVIOUS
    <2>2. PICK q \in DOMAIN entries : entries[q] = EntryAt(file, s)
      BY <1>1
    <2>3. entries[q].fid \in Nat
      BY <2>1, <2>2
    <2>4. entries[q].fid \in DOMAIN values
      BY <2>3 DEF entries
    <2> QED BY <2>2, <2>4
  <1>3. PICK s \in Slots(file) : /\ EntryAt(file, s).fid = f
                                 /\ EntryAt(file, s).key = KeyOf(values[f])
    BY <1>2 DEF FilesValues
  <1>4. PICK q \in DOMAIN entries : entries[q] = EntryAt(file, s)
    BY <1>1
  <1> HIDE DEF entries
  <1>5. entries[q].fid = f /\ entries[q].key = KeyOf(values[f])
    BY <1>3, <1>4
  <1> QED BY <1>5 DEF entries

\* Whatever is wrong with the file: when it is taken for an answer, a value
\* whose key is found is in it.
LEMMA DirectAnswerHasAll ==
  ASSUME NEW file, NEW n \in Nat, NEW values, DOMAIN values = 1 .. n,
         FilesValues(file, values), NEW literal, NEW op,
         query_direct(file, literal, op, n).ok,
         NEW f \in 1 .. n, values[f].sort # "null",
         Holds(compare_value(KeyOf(values[f]), literal), op)
  PROVE  f - 1 \in query_direct(file, literal, op, n).fids
  <1> DEFINE entries == Entries(file, Walk(file))
             Rows == {entries[k] : k \in DOMAIN entries}
             answered == query_direct(file, literal, op, n)
             suspect == \/ file.depth > Len(file.pages)
                        \/ ~ChainIsWhole(file, Walk(file))
                        \/ Len(entries) # file.total
                        \/ \E e \in Rows : e.fid = 0 \/ (n # 0 /\ e.fid > n)
             Those == {e.fid - 1 : e \in {r \in Rows : Holds(compare_value(r.key, literal), op)}}
  <1>1. answered = IF ~file.whole \/ file.is_string # literal.is_string THEN NotAnswered
                   ELSE IF file.depth = 0 THEN [ok |-> file.total = 0, fids |-> {}]
                   ELSE IF suspect THEN NotAnswered
                   ELSE [ok |-> TRUE, fids |-> Those]
    BY DEF query_direct
  <1>2. IsFile(file) /\ file.depth \in Nat /\ file.total \in Nat
        /\ file.pages \in Seq(ToSet(file.pages))
    BY DEF FilesValues, IsFile
  <1>3. Len(file.pages) \in Nat
    BY <1>2, LenProperties
  <1> HIDE DEF entries, Rows, suspect, Those
  <1>4. answered.ok
    OBVIOUS
  <1> HIDE DEF answered
  <1>5. \/ file.depth = 0 /\ file.total = 0
        \/ file.depth # 0 /\ ~suspect /\ answered.fids = Those
    <2>1. ~NotAnswered.ok
      BY DEF NotAnswered
    <2>2. answered # NotAnswered
      BY <1>4, <2>1
    <2>3. CASE file.depth = 0
      <3>1. answered = [ok |-> file.total = 0, fids |-> {}]
        BY <1>1, <2>2, <2>3
      <3> QED BY <1>4, <2>3, <3>1
    <2>4. CASE file.depth # 0
      <3>1. ~suspect
        BY <1>1, <2>2, <2>4
      <3>2. answered = [ok |-> TRUE, fids |-> Those]
        BY <1>1, <2>2, <2>4, <3>1
      <3> QED BY <2>4, <3>1, <3>2
    <2> QED BY <2>3, <2>4
  <1>6. CASE file.depth = 0 /\ file.total = 0
    <2>1. Cardinality(Slots(file)) <= 0 /\ IsFiniteSet(Slots(file))
      BY <1>2, <1>6, SlotsAre DEF FilesValues
    <2>2. Slots(file) = {}
      BY <2>1, FS_EmptySet, FS_CardinalityType
    <2> QED BY <2>2 DEF FilesValues
  <1>7. CASE file.depth # 0 /\ ~suspect /\ answered.fids = Those
    <2>1. /\ ~(file.depth > Len(file.pages)) /\ ChainIsWhole(file, Walk(file))
          /\ Len(entries) = file.total
          /\ \A e \in Rows : ~(e.fid = 0 \/ (n # 0 /\ e.fid > n))
      BY <1>7 DEF suspect
    <2>2. Walkable(file)
      <3>1. file.depth \in 1 .. Len(file.pages)
        BY <1>2, <1>3, <1>7, <2>1
      <3> QED BY <1>2, <3>1 DEF Walkable
    <2>3. \A q \in DOMAIN entries : entries[q].fid \in Nat => entries[q].fid \in DOMAIN values
      <3> SUFFICES ASSUME NEW q \in DOMAIN entries, entries[q].fid \in Nat
                   PROVE  entries[q].fid \in 1 .. n
        OBVIOUS
      <3>1. entries[q] \in Rows
        BY DEF Rows
      <3>2. n # 0
        OBVIOUS
      <3> QED BY <2>1, <3>1, <3>2
    <2>4. PICK q \in DOMAIN entries : entries[q].fid = f /\ entries[q].key = KeyOf(values[f])
      <3>1. f \in DOMAIN values
        OBVIOUS
      <3> QED BY <2>1, <2>2, <2>3, <3>1, ChainHasAllValues DEF entries
    <2>5. entries[q] \in {r \in Rows : Holds(compare_value(r.key, literal), op)}
      BY <2>4 DEF Rows
    <2>6. entries[q].fid - 1 \in Those
      BY <2>5 DEF Those
    <2> QED BY <1>7, <2>4, <2>6 DEF answered
  <1> QED BY <1>5, <1>6, <1>7

\* A plain file always answers.
LEMMA NamedAnswerHasAll ==
  ASSUME NEW file, NEW values, FilesPlainly(file, values), NEW literal, NEW op,
         NEW f \in DOMAIN values, values[f].sort # "null",
         Holds(IF literal.is_string THEN CompareTexts(decode_value(KeyOf(values[f])), literal.value)
               ELSE compare_value(KeyOf(values[f]), literal), op)
  PROVE  f - 1 \in query_entries(file, literal, op)
  <1> DEFINE entries == Entries(file, Walk(file))
             Rows == {entries[k] : k \in DOMAIN entries}
             Compare(key) == IF literal.is_string
                             THEN CompareTexts(decode_value(key), literal.value)
                             ELSE compare_value(key, literal)
             parsed == /\ file.whole /\ file.depth \in 1 .. Len(file.pages)
                       /\ ChainIsWhole(file, Walk(file))
                       /\ Len(entries) = file.total
                       /\ \A e \in Rows : e.fid # 0
  <1>1. query_entries(file, literal, op) =
          IF ~parsed THEN {} ELSE {e.fid - 1 : e \in {r \in Rows : Holds(Compare(r.key), op)}}
    BY DEF query_entries
  <1>2. /\ FilesValues(file, values) /\ Walkable(file)
        /\ ChainIsWhole(file, Walk(file)) /\ Len(entries) = file.total
    BY DEF FilesPlainly, FilesValues, Walkable
  <1>3. \A q \in DOMAIN entries : entries[q].fid \in (DOMAIN values) \ {0}
    <2>1. Cardinality(Slots(file)) <= Len(entries)
      BY <1>2 DEF FilesValues
    <2>2. \A q \in DOMAIN entries : \E s \in Slots(file) : entries[q] = EntryAt(file, s)
      BY <1>2, <2>1, ChainHasAllEntries
    <2> HIDE DEF entries
    <2> QED BY <2>2 DEF FilesPlainly
  <1>4. PICK q \in DOMAIN entries : entries[q].fid = f /\ entries[q].key = KeyOf(values[f])
    BY <1>2, <1>3, ChainHasAllValues
  <1> HIDE DEF entries
  <1>5. parsed
    BY <1>2, <1>3 DEF FilesPlainly
  <1>6. entries[q] \in {r \in Rows : Holds(Compare(r.key), op)}
    BY <1>4
  <1>7. entries[q].fid - 1 \in {e.fid - 1 : e \in {r \in Rows : Holds(Compare(r.key), op)}}
    BY <1>6
  <1> HIDE DEF parsed, Rows, Compare
  <1> QED BY <1>1, <1>4, <1>5, <1>7

-----------------------------------------------------------------------------
(***************************************************************************)
(* What the parser has read when it comes back with one comparison.        *)
(***************************************************************************)
\* What a part of the tokens comes to, from what its own parts do.
PartOf(values, fields, tokens, parts, from, to) ==
    LET Cuts(kind) == OutsideBrackets(tokens, kind, from, to)
        Value(i) == values[FieldIndex(fields, tokens[i].name)]
    IN  IF Cuts("or") # {}
        THEN LET i == Max(Cuts("or")) IN parts[from][i - 1] \/ parts[i + 1][to]
        ELSE IF Cuts("and") # {}
        THEN LET i == Max(Cuts("and")) IN parts[from][i - 1] /\ parts[i + 1][to]
        ELSE IF tokens[from].kind = "(" THEN parts[from + 1][to - 1]
        ELSE IF tokens[from + 1].kind = "in"
        THEN \E i \in from .. to : /\ tokens[i].kind = "literal"
                                   /\ CompareWith(Value(from), "=", tokens[i])
        ELSE CompareWith(Value(from), tokens[from + 1].kind, tokens[from + 2])

PartRound(values, fields, tokens, parts) ==
    [from \in 1 .. Len(tokens) |->
        [to \in 0 .. Len(tokens) |-> PartOf(values, fields, tokens, parts, from, to)]]

\* The rounds of the parser, another operand or another depth of brackets, and
\* of Satisfies. `given` is what they all use.
Round(kind, tokens, found, given) ==
    IF kind = "and" THEN more_and(tokens, found, given)
    ELSE IF kind = "or" THEN more_or(tokens, found, given)
    ELSE IF kind = "deep" THEN [i \in 1 .. Len(tokens) |-> parse_or(tokens, i, found)]
    ELSE PartRound(given.values, given.fields, tokens, found)

Rounds(F, n, first, kind, tokens, given) ==
    F = [k \in 0 .. n |-> IF k = 0 THEN first ELSE Round(kind, tokens, F[k - 1], given)]

LEMMA RoundsExist ==
  ASSUME NEW n \in Nat, NEW first, NEW kind, NEW tokens, NEW given
  PROVE  \E F : Rounds(F, n, first, kind, tokens, given)
  <1> DEFINE R(found) == Round(kind, tokens, found, given)
             Upto(m, F) == F = [k \in 0 .. m |-> IF k = 0 THEN first ELSE R(F[k - 1])]
             S == {m \in 0 .. n : \E F : Upto(m, F)}
  <1> HIDE DEF R
  <1>1. 0 \in S
    <2> DEFINE F == [k \in 0 .. 0 |-> first]
    <2>1. Upto(0, F)
      OBVIOUS
    <2>2. \E G : Upto(0, G)
      <3> HIDE DEF F, Upto
      <3> QED BY <2>1
    <2> HIDE DEF Upto
    <2> QED BY <2>2
  <1>2. ASSUME NEW m \in 1 .. n, m - 1 \in S PROVE m \in S
    <2>1. PICK F : Upto(m - 1, F)
      BY <1>2
    <2>2. \A k \in 0 .. m - 1 : F[k] = IF k = 0 THEN first ELSE R(F[k - 1])
      BY <2>1
    <2> DEFINE G == [k \in 0 .. m |-> IF k = m THEN R(F[m - 1]) ELSE F[k]]
               H == [k \in 0 .. m |-> IF k = 0 THEN first ELSE R(G[k - 1])]
    <2>3. ASSUME NEW k \in 0 .. m PROVE G[k] = H[k]
      <3>1. CASE k = m
        <4>1. m - 1 \in 0 .. m /\ m - 1 # m /\ k # 0
          BY <3>1
        <4>2. G[m - 1] = F[m - 1] /\ G[k] = R(F[m - 1])
          BY <3>1, <4>1
        <4>3. H[k] = R(G[m - 1])
          BY <3>1, <4>1
        <4> HIDE DEF G, H
        <4> QED BY <4>2, <4>3
      <3>2. CASE k # m /\ k # 0
        <4>1. k \in 0 .. m - 1 /\ k - 1 \in 0 .. m /\ k - 1 # m
          BY <3>2
        <4>2. G[k] = F[k] /\ G[k - 1] = F[k - 1] /\ H[k] = R(G[k - 1])
          BY <3>2, <4>1
        <4>3. F[k] = R(F[k - 1])
          BY <2>2, <3>2, <4>1
        <4> HIDE DEF G, H
        <4> QED BY <4>2, <4>3
      <3>3. CASE k # m /\ k = 0
        <4>1. 0 \in 0 .. m - 1
          OBVIOUS
        <4>2. F[0] = first
          BY <2>2, <4>1
        <4> QED BY <3>3, <4>2
      <3> QED BY <3>1, <3>2, <3>3
    <2>4. G = H
      <3>1. DOMAIN G = 0 .. m /\ DOMAIN H = 0 .. m
        OBVIOUS
      <3>2. G = [k \in 0 .. m |-> G[k]] /\ H = [k \in 0 .. m |-> H[k]]
        OBVIOUS
      <3> HIDE DEF G, H
      <3> QED BY <2>3, <3>2
    <2>5. Upto(m, G)
      <3>1. G = [k \in 0 .. m |-> IF k = 0 THEN first ELSE R(G[k - 1])]
        BY <2>4
      <3> HIDE DEF G, H
      <3> QED BY <3>1
    <2>6. m \in 0 .. n
      OBVIOUS
    <2> HIDE DEF Upto, G
    <2> QED BY <2>5, <2>6
  <1>3. n \in S
    <2> HIDE DEF S
    <2>1. \A m \in 1 .. n : m - 1 \in S => m \in S
      BY <1>2
    <2>2. \A m \in 0 .. n : m \in S
      BY <1>1, <2>1, Upwards
    <2> QED BY <2>2
  <1> QED BY <1>3 DEF Rounds, R

\* d pairs of brackets around a comparison, from place i to before the place
\* next.
Wrapped(tokens, i, next, expr, d) ==
    /\ d \in Nat
    /\ next = i + 2 * d + 3
    /\ \A j \in i .. i + d - 1 : tokens[j].kind = "("
    /\ \A j \in i + d + 3 .. next - 1 : tokens[j].kind = ")"
    /\ tokens[i + d].kind = "identifier"
    /\ tokens[i + d + 1].kind \in Operators
    /\ tokens[i + d + 2].kind = "literal"
    /\ expr = Comparison(tokens[i + d].name, tokens[i + d + 1].kind, tokens[i + d + 2])

\* What the parser finds at place i.
IsFoundAt(r, tokens, i) ==
    /\ r = Parsed(r.expr, r.next)
    /\ r.next # 0 /\ r.expr.kind = "comparison" =>
         /\ r.next \in 1 .. Len(tokens)
         /\ \E d \in Nat : Wrapped(tokens, i, r.next, r.expr, d)

EndsOnce(tokens) ==
    /\ Len(tokens) \in Nat
    /\ \A k \in 1 .. Len(tokens) : tokens[k].kind = "end" <=> k = Len(tokens)

\* Nothing, or something else than a comparison.
LEMMA OtherIsFound ==
  ASSUME NEW tokens, NEW i
  PROVE  /\ IsFoundAt(NoParse, tokens, i)
         /\ \A expr, next : expr.kind # "comparison" => IsFoundAt(Parsed(expr, next), tokens, i)
  BY DEF IsFoundAt, NoParse, Parsed

LEMMA PredicateIsFound ==
  ASSUME NEW tokens, EndsOnce(tokens), NEW i \in 1 .. Len(tokens)
  PROVE  IsFoundAt(parse_predicate(tokens, i), tokens, i)
  <1>1. Len(tokens) \in Nat
    BY DEF EndsOnce
  <1>2. CASE tokens[i].kind # "identifier"
    <2>1. parse_predicate(tokens, i) = NoParse
      BY <1>2 DEF parse_predicate, Is
    <2> QED BY <2>1, OtherIsFound
  <1>3. CASE tokens[i].kind = "identifier" /\ tokens[i + 1].kind = "in"
    <2> DEFINE close == literal_list_end(tokens, i + 3)
    <2>1. parse_predicate(tokens, i) = in_list(tokens, i, close)
      BY <1>3 DEF parse_predicate, Is
    <2> HIDE DEF close
    <2> DEFINE expr == InList(tokens[i].name,
                         [k \in 1 .. (close - i - 2) \div 2 |-> tokens[i + 1 + 2 * k]])
    <2>2. in_list(tokens, i, close) = Parsed(expr, close + 1) \/ in_list(tokens, i, close) = NoParse
      BY DEF in_list
    <2>3. expr.kind # "comparison"
      BY DEF InList
    <2> HIDE DEF expr
    <2> QED BY <2>1, <2>2, <2>3, OtherIsFound
  <1>4. CASE tokens[i].kind = "identifier" /\ tokens[i + 1].kind # "in"
    <2>1. CASE tokens[i + 1].kind \in Operators /\ tokens[i + 2].kind = "literal"
      <3> DEFINE expr == Comparison(tokens[i].name, tokens[i + 1].kind, tokens[i + 2])
      <3>1. parse_predicate(tokens, i) = Parsed(expr, i + 3)
        BY <1>4, <2>1 DEF parse_predicate, Is
      <3> HIDE DEF expr
      <3>2. i + 3 \in 1 .. Len(tokens)
        <4>1. i # Len(tokens)
          BY <1>4 DEF EndsOnce
        <4>2. i + 1 \in 1 .. Len(tokens)
          BY <1>1, <4>1
        <4>3. i + 1 # Len(tokens)
          BY <2>1, <4>2 DEF EndsOnce, Operators
        <4>4. i + 2 \in 1 .. Len(tokens)
          BY <1>1, <4>2, <4>3
        <4>5. i + 2 # Len(tokens)
          BY <2>1, <4>4 DEF EndsOnce
        <4> QED BY <1>1, <4>4, <4>5
      <3>3. Wrapped(tokens, i, i + 3, expr, 0)
        <4>1. /\ i + 2 * 0 + 3 = i + 3 /\ i + 0 = i /\ i .. i + 0 - 1 = {}
              /\ i + 0 + 3 .. i + 3 - 1 = {}
          OBVIOUS
        <4> QED BY <1>4, <2>1, <4>1 DEF Wrapped, expr
      <3>4. Parsed(expr, i + 3).expr = expr /\ Parsed(expr, i + 3).next = i + 3
        BY DEF Parsed
      <3>5. IsFoundAt(Parsed(expr, i + 3), tokens, i)
        BY <3>2, <3>3, <3>4, <1>1 DEF IsFoundAt
      <3> QED BY <3>1, <3>5
    <2>2. CASE ~(tokens[i + 1].kind \in Operators /\ tokens[i + 2].kind = "literal")
      <3>1. parse_predicate(tokens, i) = NoParse
        BY <1>4, <2>2 DEF parse_predicate, Is
      <3> QED BY <3>1, OtherIsFound
    <2> QED BY <2>1, <2>2
  <1> QED BY <1>2, <1>3, <1>4

LEMMA PrimaryIsFound ==
  ASSUME NEW tokens, EndsOnce(tokens), NEW or,
         \A j \in 1 .. Len(tokens) : IsFoundAt(or[j], tokens, j),
         NEW i \in 1 .. Len(tokens)
  PROVE  IsFoundAt(parse_primary(tokens, i, or), tokens, i)
  <1>1. Len(tokens) \in Nat
    BY DEF EndsOnce
  <1>2. CASE tokens[i].kind # "("
    <2>1. parse_primary(tokens, i, or) = parse_predicate(tokens, i)
      BY <1>2 DEF parse_primary, Is
    <2> QED BY <2>1, PredicateIsFound
  <1>3. CASE tokens[i].kind = "("
    <2> DEFINE inner == or[i + 1]
    <2>1. parse_primary(tokens, i, or) = closed(tokens, inner)
      BY <1>3 DEF parse_primary, Is
    <2>2. i + 1 \in 1 .. Len(tokens)
      <3>1. i # Len(tokens)
        BY <1>3 DEF EndsOnce
      <3> QED BY <1>1, <3>1
    <2>3. IsFoundAt(inner, tokens, i + 1)
      BY <2>2
    <2> HIDE DEF inner
    <2>4. CASE ~(inner.next # 0 /\ tokens[inner.next].kind = ")")
      <3>1. closed(tokens, inner) = NoParse
        BY <2>4 DEF closed, Is
      <3> QED BY <2>1, <3>1, OtherIsFound
    <2>5. CASE inner.next # 0 /\ tokens[inner.next].kind = ")"
      <3>1. closed(tokens, inner) = [inner EXCEPT !.next = @ + 1]
        BY <2>5 DEF closed, Is
      <3>2. inner = [expr |-> inner.expr, next |-> inner.next]
        BY <2>3 DEF IsFoundAt, Parsed
      <3>3. [inner EXCEPT !.next = @ + 1] = Parsed(inner.expr, inner.next + 1)
        BY <3>2 DEF Parsed
      <3>4. CASE inner.expr.kind # "comparison"
        <4>1. IsFoundAt(Parsed(inner.expr, inner.next + 1), tokens, i)
          BY <3>4, OtherIsFound
        <4> QED BY <2>1, <3>1, <3>3, <4>1
      <3>5. CASE inner.expr.kind = "comparison"
        <4>1. inner.next \in 1 .. Len(tokens)
          BY <2>3, <2>5, <3>5 DEF IsFoundAt
        <4>2. PICK d \in Nat : Wrapped(tokens, i + 1, inner.next, inner.expr, d)
          BY <2>3, <2>5, <3>5 DEF IsFoundAt
        <4>3. inner.next + 1 \in 1 .. Len(tokens)
          <5>1. inner.next # Len(tokens)
            BY <2>5, <4>1 DEF EndsOnce
          <5> QED BY <1>1, <4>1, <5>1
        <4>4. Wrapped(tokens, i, inner.next + 1, inner.expr, d + 1)
          <5>1. /\ inner.next = (i + 1) + 2 * d + 3
                /\ \A j \in i + 1 .. (i + 1) + d - 1 : tokens[j].kind = "("
                /\ \A j \in (i + 1) + d + 3 .. inner.next - 1 : tokens[j].kind = ")"
            BY <4>2 DEF Wrapped
          <5>2. /\ (i + 1) + d = i + (d + 1) /\ (i + 1) + d + 1 = i + (d + 1) + 1
                /\ (i + 1) + d + 2 = i + (d + 1) + 2
            OBVIOUS
          <5>3. /\ tokens[i + (d + 1)].kind = "identifier"
                /\ tokens[i + (d + 1) + 1].kind \in Operators
                /\ tokens[i + (d + 1) + 2].kind = "literal"
                /\ inner.expr = Comparison(tokens[i + (d + 1)].name, tokens[i + (d + 1) + 1].kind,
                                           tokens[i + (d + 1) + 2])
            BY <4>2, <5>2 DEF Wrapped
          <5>4. d + 1 \in Nat /\ inner.next + 1 = i + 2 * (d + 1) + 3
            BY <5>1
          <5>5. \A j \in i .. i + (d + 1) - 1 : tokens[j].kind = "("
            <6>1. \A j \in i .. i + (d + 1) - 1 : j = i \/ j \in i + 1 .. (i + 1) + d - 1
              OBVIOUS
            <6> QED BY <1>3, <5>1, <6>1
          <5>6. \A j \in i + (d + 1) + 3 .. (inner.next + 1) - 1 : tokens[j].kind = ")"
            <6>1. \A j \in i + (d + 1) + 3 .. (inner.next + 1) - 1 :
                     j = inner.next \/ j \in (i + 1) + d + 3 .. inner.next - 1
              BY <4>1
            <6> QED BY <2>5, <5>1, <6>1
          <5> QED BY <5>3, <5>4, <5>5, <5>6 DEF Wrapped
        <4>5. IsFoundAt(Parsed(inner.expr, inner.next + 1), tokens, i)
          <5>1. /\ Parsed(inner.expr, inner.next + 1).expr = inner.expr
                /\ Parsed(inner.expr, inner.next + 1).next = inner.next + 1
            BY DEF Parsed
          <5>2. d + 1 \in Nat
            OBVIOUS
          <5> QED BY <4>3, <4>4, <5>1, <5>2 DEF IsFoundAt
        <4> QED BY <2>1, <3>1, <3>3, <4>5
      <3> QED BY <3>4, <3>5
    <2> QED BY <2>4, <2>5
  <1> QED BY <1>2, <1>3

\* Further operands take away what a comparison alone has given.
LEMMA RoundKeeps ==
  ASSUME NEW tokens, NEW or, NEW i, NEW left, IsFoundAt(left, tokens, i)
  PROVE  /\ IsFoundAt(more_and(tokens, left, or), tokens, i)
         /\ IsFoundAt(more_or(tokens, left, or), tokens, i)
  <1>1. ASSUME NEW kind \in {"and", "or"}, NEW right
        PROVE  IsFoundAt(join(kind, left, right), tokens, i)
    <2>1. join(kind, left, right) = NoParse
          \/ join(kind, left, right) = Parsed(Joined(kind, left.expr, right.expr), right.next)
      BY DEF join
    <2>2. Joined(kind, left.expr, right.expr).kind # "comparison"
      BY DEF Joined
    <2> QED BY <2>1, <2>2, OtherIsFound
  <1>2. IsFoundAt(more_and(tokens, left, or), tokens, i)
    BY <1>1 DEF more_and
  <1>3. IsFoundAt(more_or(tokens, left, or), tokens, i)
    BY <1>1 DEF more_or
  <1> QED BY <1>2, <1>3

LEMMA RoundsKeep ==
  ASSUME NEW n \in Nat, NEW tokens, NEW or, NEW i, NEW kind \in {"and", "or"},
         NEW first, IsFoundAt(first, tokens, i),
         NEW F, Rounds(F, n, first, kind, tokens, or)
  PROVE  IsFoundAt(F[n], tokens, i)
  <1> DEFINE S == {k \in 0 .. n : IsFoundAt(F[k], tokens, i)}
  <1>1. \A k \in 0 .. n :
           F[k] = IF k = 0 THEN first ELSE Round(kind, tokens, F[k - 1], or)
    BY DEF Rounds
  <1>2. 0 \in S
    BY <1>1
  <1>3. ASSUME NEW k \in 1 .. n, k - 1 \in S PROVE k \in S
    <2>1. F[k] = Round(kind, tokens, F[k - 1], or) /\ k \in 0 .. n
      BY <1>1
    <2>2. IsFoundAt(F[k - 1], tokens, i)
      BY <1>3
    <2>3. IsFoundAt(F[k], tokens, i)
      BY <2>1, <2>2, RoundKeeps DEF Round
    <2> QED BY <2>1, <2>3
  <1>4. n \in S
    <2> HIDE DEF S
    <2>1. \A k \in 1 .. n : k - 1 \in S => k \in S
      BY <1>3
    <2>2. \A k \in 0 .. n : k \in S
      BY <1>2, <2>1, Upwards
    <2> QED BY <2>2
  <1> QED BY <1>4

LEMMA OperandsAreFound ==
  ASSUME NEW tokens, EndsOnce(tokens), NEW or,
         \A j \in 1 .. Len(tokens) : IsFoundAt(or[j], tokens, j),
         NEW i \in 1 .. Len(tokens)
  PROVE  IsFoundAt(parse_or(tokens, i, or), tokens, i)
  <1> DEFINE n == Len(tokens)
             And == CHOOSE F : Rounds(F, n, parse_primary(tokens, i, or), "and", tokens, or)
             Or == CHOOSE F : Rounds(F, n, parse_and(tokens, i, or), "or", tokens, or)
  <1>1. n \in Nat
    BY DEF EndsOnce
  <1>2. parse_and(tokens, i, or) = And[n]
    BY DEF parse_and, Rounds, Round
  <1>3. parse_or(tokens, i, or) = Or[n]
    BY DEF parse_or, Rounds, Round
  <1>4. Rounds(And, n, parse_primary(tokens, i, or), "and", tokens, or)
    BY <1>1, RoundsExist
  <1>5. Rounds(Or, n, parse_and(tokens, i, or), "or", tokens, or)
    BY <1>1, RoundsExist
  <1> HIDE DEF And, Or, n
  <1>6. IsFoundAt(And[n], tokens, i)
    BY <1>1, <1>4, PrimaryIsFound, RoundsKeep
  <1>7. IsFoundAt(Or[n], tokens, i)
    BY <1>1, <1>2, <1>5, <1>6, RoundsKeep
  <1> QED BY <1>3, <1>7

\* A clause that is one comparison has nothing else than brackets around it.
LEMMA ComparisonStandsAlone ==
  ASSUME NEW tokens, EndsOnce(tokens), Len(tokens) # 0, parse_where(tokens).next # 0,
         parse_where(tokens).expr.kind = "comparison"
  PROVE  \E d \in Nat : Wrapped(tokens, 1, Len(tokens), parse_where(tokens).expr, d)
  <1> DEFINE n == Len(tokens)
             none == [i \in 1 .. n |-> NoParse]
             Deep == CHOOSE F : Rounds(F, n, none, "deep", tokens, none)
             S == {k \in 0 .. n : \A j \in 1 .. n : IsFoundAt(Deep[k][j], tokens, j)}
             all == Deep[n][1]
  <1>1. n \in Nat
    BY DEF EndsOnce
  <1>2. parse_where(tokens) = whole_text(tokens, all)
    <2> DEFINE E(F) == F = [k \in 0 .. n |->
                              [i \in 1 .. n |->
                                 IF k = 0 THEN NoParse ELSE parse_or(tokens, i, F[k - 1])]]
    <2>1. \A F : E(F) <=> Rounds(F, n, none, "deep", tokens, none)
      <3> SUFFICES ASSUME NEW F PROVE E(F) <=> Rounds(F, n, none, "deep", tokens, none)
        OBVIOUS
      <3>1. \A k \in 0 .. n :
              [i \in 1 .. n |-> IF k = 0 THEN NoParse ELSE parse_or(tokens, i, F[k - 1])]
                = IF k = 0 THEN none ELSE Round("deep", tokens, F[k - 1], none)
        BY DEF Round
      <3> QED BY <3>1 DEF Rounds
    <2>2. (CHOOSE F : E(F)) = Deep
      <3> HIDE DEF E, none
      <3> QED BY <2>1
    <2>3. parse_where(tokens) = whole_text(tokens, (CHOOSE F : E(F))[n][1])
      BY DEF parse_where
    <2> HIDE DEF E, Deep
    <2> QED BY <2>2, <2>3
  <1>3. Rounds(Deep, n, none, "deep", tokens, none)
    <2> HIDE DEF none, n
    <2> QED BY <1>1, RoundsExist
  <1> HIDE DEF Deep
  <1>4. \A k \in 0 .. n : Deep[k] = IF k = 0 THEN none
                                    ELSE [i \in 1 .. n |-> parse_or(tokens, i, Deep[k - 1])]
    BY <1>3 DEF Rounds, Round
  <1>5. 0 \in S
    <2>1. 0 \in 0 .. n /\ Deep[0] = none
      <3> HIDE DEF n, none, S, all
      <3>1. 0 \in 0 .. n
        BY <1>1
      <3> QED BY <1>4, <3>1
    <2>2. \A j \in 1 .. n : none[j] = NoParse
      <3> HIDE DEF n, S, all
      <3> QED OBVIOUS
    <2>3. \A j \in 1 .. n : IsFoundAt(NoParse, tokens, j)
      BY OtherIsFound
    <2> HIDE DEF none, n
    <2> QED BY <2>1, <2>2, <2>3
  <1>6. ASSUME NEW k \in 1 .. n, k - 1 \in S PROVE k \in S
    <2>1. Deep[k] = [i \in 1 .. n |-> parse_or(tokens, i, Deep[k - 1])] /\ k \in 0 .. n
      BY <1>4
    <2>2. \A j \in 1 .. n : IsFoundAt(Deep[k - 1][j], tokens, j)
      BY <1>6
    <2>3. \A j \in 1 .. n : IsFoundAt(Deep[k][j], tokens, j)
      BY <2>1, <2>2, OperandsAreFound
    <2> QED BY <2>1, <2>3
  <1>7. n \in S
    <2> HIDE DEF S
    <2>1. \A k \in 1 .. n : k - 1 \in S => k \in S
      BY <1>6
    <2>2. \A k \in 0 .. n : k \in S
      <3> HIDE DEF n
      <3> QED BY <1>1, <1>5, <2>1, Upwards
    <2> QED BY <1>1, <2>2
  <1>8. IsFoundAt(all, tokens, 1)
    <2>1. 1 \in 1 .. n
      BY <1>1
    <2> QED BY <1>7, <2>1
  <1> HIDE DEF all
  <1>9. parse_where(tokens) = all /\ all.next # 0 /\ tokens[all.next].kind = "end"
    <2>1. NoParse.next = 0
      BY DEF NoParse
    <2> QED BY <1>2, <2>1 DEF whole_text, Is
  <1>10. all.next \in 1 .. n /\ \E d \in Nat : Wrapped(tokens, 1, all.next, all.expr, d)
    BY <1>8, <1>9 DEF IsFoundAt
  <1>11. all.next = n
    BY <1>9, <1>10 DEF EndsOnce
  <1> QED BY <1>9, <1>10, <1>11

-----------------------------------------------------------------------------
(***************************************************************************)
(* The clause as its text is read, when it is one comparison.              *)
(***************************************************************************)
\* A part without "and" and "or" is a bracket or a comparison.
LEMMA SimplePartIs ==
  ASSUME NEW values, NEW fields, NEW tokens, NEW parts, NEW from, NEW to,
         \A j \in from .. to : tokens[j].kind \notin {"and", "or"}
  PROVE  /\ tokens[from].kind = "(" =>
              PartOf(values, fields, tokens, parts, from, to) = parts[from + 1][to - 1]
         /\ tokens[from].kind # "(" /\ tokens[from + 1].kind # "in" =>
              PartOf(values, fields, tokens, parts, from, to) =
                CompareWith(values[FieldIndex(fields, tokens[from].name)],
                            tokens[from + 1].kind, tokens[from + 2])
  <1>1. /\ OutsideBrackets(tokens, "or", from, to) = {}
        /\ OutsideBrackets(tokens, "and", from, to) = {}
    BY DEF OutsideBrackets
  <1> QED BY <1>1 DEF PartOf

LEMMA WrappedClauseIs ==
  ASSUME NEW values, NEW fields, NEW tokens, EndsOnce(tokens), NEW expr, NEW d,
         Wrapped(tokens, 1, Len(tokens), expr, d)
  PROVE  Satisfies(values, fields, tokens) =
           CompareWith(values[FieldIndex(fields, expr.name)], expr.op, expr.literal)
  <1> DEFINE N == Len(tokens)
             given == [values |-> values, fields |-> fields]
             none == [from \in 1 .. N |-> [to \in 0 .. N |-> FALSE]]
             Part == CHOOSE F : Rounds(F, N, none, "part", tokens, given)
             verdict == CompareWith(values[FieldIndex(fields, expr.name)], expr.op, expr.literal)
  <1>1. N \in Nat /\ d \in Nat /\ N = 2 * d + 4
    <2>1. N \in Nat /\ d \in Nat /\ N = 1 + 2 * d + 3
      BY DEF EndsOnce, Wrapped
    <2> QED BY <2>1
  <1>2. Satisfies(values, fields, tokens) = Part[N][1][N - 1]
    <2> DEFINE E(F) == F = [k \in 0 .. N |->
                              [from \in 1 .. N |-> [to \in 0 .. N |->
                                 IF k = 0 THEN FALSE
                                 ELSE PartOf(values, fields, tokens, F[k - 1], from, to)]]]
    <2>1. \A F : E(F) <=> Rounds(F, N, none, "part", tokens, given)
      <3> SUFFICES ASSUME NEW F PROVE E(F) <=> Rounds(F, N, none, "part", tokens, given)
        OBVIOUS
      <3>1. \A k \in 0 .. N :
              [from \in 1 .. N |-> [to \in 0 .. N |->
                  IF k = 0 THEN FALSE ELSE PartOf(values, fields, tokens, F[k - 1], from, to)]]
                = IF k = 0 THEN none ELSE Round("part", tokens, F[k - 1], given)
        BY DEF Round, PartRound
      <3> QED BY <3>1 DEF Rounds
    <2>2. (CHOOSE F : E(F)) = Part
      <3> HIDE DEF E, none, given
      <3> QED BY <2>1
    <2>3. Satisfies(values, fields, tokens) = (CHOOSE F : E(F))[N][1][N - 1]
      BY DEF Satisfies, PartOf
    <2> HIDE DEF E, Part
    <2> QED BY <2>2, <2>3
  <1>3. Rounds(Part, N, none, "part", tokens, given)
    <2> HIDE DEF none, N, given
    <2> QED BY <1>1, RoundsExist
  <1> HIDE DEF Part
  <1>4. \A k \in 1 .. N, from \in 1 .. N, to \in 0 .. N :
           Part[k][from][to] = PartOf(values, fields, tokens, Part[k - 1], from, to)
    <2>1. \A k \in 1 .. N : Part[k] = PartRound(values, fields, tokens, Part[k - 1])
      <3> SUFFICES ASSUME NEW k \in 1 .. N
                   PROVE  Part[k] = PartRound(values, fields, tokens, Part[k - 1])
        OBVIOUS
      <3>1. k \in 0 .. N /\ k # 0
        BY <1>1
      <3>2. Part[k] = Round("part", tokens, Part[k - 1], given)
        <4> HIDE DEF N, none, given
        <4> QED BY <1>3, <3>1 DEF Rounds
      <3>3. given.values = values /\ given.fields = fields
        OBVIOUS
      <3> HIDE DEF N, none, given
      <3> QED BY <3>2, <3>3 DEF Round
    <2> SUFFICES ASSUME NEW k \in 1 .. N, NEW from \in 1 .. N, NEW to \in 0 .. N
                 PROVE  Part[k][from][to] = PartOf(values, fields, tokens, Part[k - 1], from, to)
      OBVIOUS
    <2>2. Part[k] = PartRound(values, fields, tokens, Part[k - 1])
      BY <2>1
    <2> QED BY <2>2 DEF PartRound
  <1>5. /\ \A j \in 1 .. d : tokens[j].kind = "("
        /\ \A j \in d + 4 .. N - 1 : tokens[j].kind = ")"
        /\ tokens[d + 1].kind = "identifier" /\ tokens[d + 2].kind \in Operators
        /\ tokens[d + 3].kind = "literal"
        /\ expr = Comparison(tokens[d + 1].name, tokens[d + 2].kind, tokens[d + 3])
    <2>1. /\ 1 .. 1 + d - 1 = 1 .. d /\ 1 + d + 3 = d + 4 /\ 1 + d = d + 1
          /\ 1 + d + 1 = d + 2 /\ 1 + d + 2 = d + 3
      BY <1>1
    <2> QED BY <2>1 DEF Wrapped
  <1>6. \A j \in 1 .. N - 1 : tokens[j].kind \notin {"and", "or"}
    <2>1. \A j \in 1 .. N - 1 : j \in 1 .. d \/ j = d + 1 \/ j = d + 2 \/ j = d + 3
                                \/ j \in d + 4 .. N - 1
      BY <1>1
    <2> HIDE DEF N
    <2> QED BY <1>5, <2>1 DEF Operators
  <1>7. ASSUME NEW k \in 1 .. N PROVE Part[k][d + 1][N - 1 - d] = verdict
    <2>1. d + 1 \in 1 .. N /\ N - 1 - d \in 0 .. N
      BY <1>1
    <2>2. \A j \in d + 1 .. N - 1 - d : tokens[j].kind \notin {"and", "or"}
      <3>1. \A j \in d + 1 .. N - 1 - d : j \in 1 .. N - 1
        BY <1>1
      <3> HIDE DEF N
      <3> QED BY <1>6, <3>1
    <2>3. (d + 1) + 1 = d + 2 /\ (d + 1) + 2 = d + 3
      BY <1>1
    <2>4. tokens[d + 1].kind # "(" /\ tokens[(d + 1) + 1].kind # "in"
      BY <1>5, <2>3 DEF Operators
    <2> HIDE DEF N
    <2>5. PartOf(values, fields, tokens, Part[k - 1], d + 1, N - 1 - d)
            = CompareWith(values[FieldIndex(fields, tokens[d + 1].name)],
                          tokens[(d + 1) + 1].kind, tokens[(d + 1) + 2])
      BY <2>2, <2>4, SimplePartIs
    <2>6. Part[k][d + 1][N - 1 - d] = PartOf(values, fields, tokens, Part[k - 1], d + 1, N - 1 - d)
      BY <1>4, <2>1
    <2> QED BY <1>5, <2>3, <2>5, <2>6 DEF Comparison
  <1> DEFINE S == {m \in 0 .. d : \A k \in m + 1 .. N :
                                    Part[k][(d - m) + 1][N - 1 - (d - m)] = verdict}
  <1>8. 0 \in S
    <2>1. d - 0 = d /\ 0 \in 0 .. d /\ 0 + 1 = 1
      BY <1>1
    <2> HIDE DEF N, verdict
    <2> QED BY <1>7, <2>1
  <1>9. ASSUME NEW m \in 1 .. d, m - 1 \in S PROVE m \in S
    <2> SUFFICES ASSUME NEW k \in m + 1 .. N
                 PROVE  Part[k][(d - m) + 1][N - 1 - (d - m)] = verdict
      <3>1. m \in 0 .. d
        BY <1>1
      <3> HIDE DEF N, verdict
      <3> QED BY <3>1
    <2> DEFINE from == (d - m) + 1
               to == N - 1 - (d - m)
    <2>1. /\ from \in 1 .. N /\ to \in 0 .. N /\ k \in 1 .. N /\ from \in 1 .. d
          /\ k - 1 \in (m - 1) + 1 .. N
          /\ from + 1 = (d - (m - 1)) + 1 /\ to - 1 = N - 1 - (d - (m - 1))
      BY <1>1
    <2>2. \A j \in from .. to : tokens[j].kind \notin {"and", "or"}
      <3>1. \A j \in from .. to : j \in 1 .. N - 1
        BY <1>1
      <3> HIDE DEF N, from, to
      <3> QED BY <1>6, <3>1
    <2>3. Part[k - 1][from + 1][to - 1] = verdict
      <3>1. \A i \in (m - 1) + 1 .. N : Part[i][(d - (m - 1)) + 1][N - 1 - (d - (m - 1))] = verdict
        BY <1>9
      <3> HIDE DEF N, verdict, from, to, S
      <3> QED BY <2>1, <3>1
    <2> HIDE DEF N, verdict, from, to, S
    <2>4. tokens[from].kind = "("
      BY <1>5, <2>1
    <2>5. Part[k][from][to] = Part[k - 1][from + 1][to - 1]
      <3>1. PartOf(values, fields, tokens, Part[k - 1], from, to) = Part[k - 1][from + 1][to - 1]
        BY <2>2, <2>4, SimplePartIs
      <3> QED BY <1>4, <2>1, <3>1
    <2> QED BY <2>3, <2>5 DEF from, to
  <1>10. d \in S
    <2> HIDE DEF S
    <2>1. \A m \in 1 .. d : m - 1 \in S => m \in S
      BY <1>9
    <2>2. \A m \in 0 .. d : m \in S
      BY <1>1, <1>8, <2>1, Upwards
    <2> QED BY <1>1, <2>2
  <1>11. Part[N][1][N - 1] = verdict
    <2>1. d - d + 1 = 1 /\ N - 1 - (d - d) = N - 1 /\ N \in d + 1 .. N
      BY <1>1
    <2>2. \A k \in d + 1 .. N : Part[k][(d - d) + 1][N - 1 - (d - d)] = verdict
      BY <1>10
    <2> HIDE DEF N, verdict, S
    <2> QED BY <2>1, <2>2
  <1> QED BY <1>2, <1>11

-----------------------------------------------------------------------------
(***************************************************************************)
(* Any query of layers with sound attribute indexes.                       *)
(***************************************************************************)
LEMMA FieldIndexIs ==
  ASSUME NEW fields, fields \in Seq(ToSet(fields)), NEW name, FieldIndex(fields, name) # 0
  PROVE  FieldIndex(fields, name) \in DOMAIN fields
  <1> DEFINE named == {i \in DOMAIN fields : fields[i].name = name}
  <1>1. FieldIndex(fields, name) = IF named = {} THEN 0 ELSE Min(named)
    BY DEF FieldIndex
  <1>2. named \subseteq Nat /\ named \subseteq DOMAIN fields
    BY LenProperties
  <1> HIDE DEF named
  <1>3. named # {} /\ FieldIndex(fields, name) = Min(named)
    BY <1>1
  <1> QED BY <1>2, <1>3, MinIs

\* The index that is asked, and what makes it safe to ask.
LEMMA IndexIsSafe ==
  ASSUME NEW indexes, indexes \in Seq(ToSet(indexes)), NEW fields, NEW predicate,
         resolve_attribute_index(indexes, fields, predicate) # 0
  PROVE  LET i == resolve_attribute_index(indexes, fields, predicate)
             type == fields[FieldIndex(fields, predicate.name)].type
         IN  /\ i \in DOMAIN indexes /\ indexes[i].column = predicate.name /\ indexes[i].direct
             /\ predicate.op # "!="
             /\ IF predicate.literal.is_string
                THEN /\ type = "String" /\ predicate.op \in {"=", ">="}
                     /\ string_index_key_supported(predicate.literal.value)
                ELSE numeric_atx_supported(type)
  <1> DEFINE found == IndexesOf(indexes, predicate.name)
             type == fields[FieldIndex(fields, predicate.name)].type
             safe == IF predicate.literal.is_string
                     THEN /\ type = "String"
                          /\ predicate.op \in {"=", ">="}
                          /\ string_index_key_supported(predicate.literal.value)
                     ELSE numeric_atx_supported(type)
  <1>1. resolve_attribute_index(indexes, fields, predicate) =
          IF predicate.op = "!=" \/ ~safe \/ found = {} THEN 0 ELSE Min(found)
    BY DEF resolve_attribute_index
  <1>2. found \subseteq DOMAIN indexes /\ DOMAIN indexes \subseteq Nat
    BY LenProperties DEF IndexesOf
  <1>3. \A i \in found : indexes[i].column = predicate.name /\ indexes[i].direct
    BY DEF IndexesOf
  <1>4. safe => IF predicate.literal.is_string
                THEN /\ type = "String" /\ predicate.op \in {"=", ">="}
                     /\ string_index_key_supported(predicate.literal.value)
                ELSE numeric_atx_supported(type)
    OBVIOUS
  <1> HIDE DEF found, safe
  <1>5. /\ predicate.op # "!=" /\ safe /\ found # {}
        /\ resolve_attribute_index(indexes, fields, predicate) = Min(found)
    BY <1>1
  <1>6. Min(found) \in found
    BY <1>2, <1>5, MinIs
  <1> QED BY <1>2, <1>3, <1>4, <1>5, <1>6

\* A clause that an index may be asked about is one comparison.
LEMMA IndexableClauseIs ==
  ASSUME NEW tokens, AreTokens(tokens), NEW fields, NEW values,
         compile_where(tokens, fields).indexable
  PROVE  LET root == compile_where(tokens, fields).root
         IN  /\ FieldIndex(fields, root.name) # 0 /\ IsLiteral(root.literal)
             /\ Satisfies(values, fields, tokens) =
                  CompareWith(values[FieldIndex(fields, root.name)], root.op, root.literal)
  <1> DEFINE parsed == parse_where(tokens)
             expr == parsed.expr
             valid == tokens # <<>> /\ parsed.next # 0 /\ bind_fields(parsed.expr, fields)
  <1>1. compile_where(tokens, fields) =
          [valid |-> valid, root |-> IF valid THEN parsed.expr ELSE NoParse.expr,
           indexable |-> valid /\ indexable_predicate(parsed.expr, fields)]
    BY DEF compile_where, BoundClause
  <1> HIDE DEF parsed
  <1>2. valid /\ indexable_predicate(expr, fields) /\ compile_where(tokens, fields).root = expr
    <2> DEFINE fits == valid /\ indexable_predicate(expr, fields)
               root == IF valid THEN expr ELSE NoParse.expr
    <2>1. compile_where(tokens, fields) = [valid |-> valid, root |-> root, indexable |-> fits]
      BY <1>1
    <2> HIDE DEF valid, root, fits, expr
    <2>2. compile_where(tokens, fields).indexable = fits /\ compile_where(tokens, fields).root = root
      BY <2>1
    <2>3. fits
      BY <2>2
    <2>4. valid /\ indexable_predicate(expr, fields)
      BY <2>3 DEF fits
    <2> QED BY <2>2, <2>4 DEF root
  <1>3. expr.kind = "comparison"
    BY <1>2 DEF indexable_predicate
  <1>4. EndsOnce(tokens) /\ Len(tokens) # 0
        /\ \A k \in 1 .. Len(tokens) : tokens[k].kind = "literal" => IsLiteral(tokens[k])
    <2>1. tokens # <<>>
      BY <1>2
    <2>2. /\ tokens \in Seq(ToSet(tokens))
          /\ \A k \in DOMAIN tokens : tokens[k].kind = "end" <=> k = Len(tokens)
          /\ \A k \in DOMAIN tokens : tokens[k].kind = "literal" => IsLiteral(tokens[k])
      BY <2>1 DEF AreTokens
    <2>3. Len(tokens) \in Nat /\ DOMAIN tokens = 1 .. Len(tokens)
      BY <2>2, LenProperties
    <2>4. Len(tokens) # 0
      BY <2>1, <2>2, EmptySeq
    <2> QED BY <2>2, <2>3, <2>4 DEF EndsOnce
  <1>5. PICK d \in Nat : Wrapped(tokens, 1, Len(tokens), expr, d)
    BY <1>2, <1>3, <1>4, ComparisonStandsAlone DEF parsed
  <1>6. Satisfies(values, fields, tokens) =
          CompareWith(values[FieldIndex(fields, expr.name)], expr.op, expr.literal)
    BY <1>4, <1>5, WrappedClauseIs
  <1>7. FieldIndex(fields, expr.name) # 0
    <2>1. expr.name \in NamesOf(expr)
      <3>1. expr \in {e \in ExpressionsIn(expr) : e.kind \notin {"and", "or"}}
        BY <1>3 DEF ExpressionsIn
      <3> QED BY <3>1 DEF NamesOf
    <2> QED BY <1>2, <2>1 DEF bind_fields
  <1>8. IsLiteral(expr.literal)
    <2>1. /\ Len(tokens) = 1 + 2 * d + 3 /\ tokens[1 + d + 2].kind = "literal"
          /\ expr.literal = tokens[1 + d + 2]
      BY <1>5 DEF Wrapped, Comparison
    <2>2. 1 + d + 2 \in 1 .. Len(tokens)
      BY <2>1
    <2> QED BY <1>4, <2>1, <2>2
  <1> QED BY <1>2, <1>6, <1>7, <1>8

\* A value of a type that an index may be on is not a UUID.
LEMMA RecordIs ==
  ASSUME NEW value, NEW type, HasType(value, type), numeric_atx_supported(type) \/ type = "String"
  PROVE  AsRecord(value) = value
  BY DEF HasType, AsRecord

LEMMA IndexAnswerHasAll ==
  ASSUME NEW l, AttributeIndexIsSound(l), NEW q, q \in ToSet(l.requests),
         q.kind = "SpatialWhere", compile_where(q.tokens, l.fields).indexable,
         resolve_attribute_index(l.indexes, l.fields, compile_where(q.tokens, l.fields).root) # 0,
         query_attribute_candidates(l.indexes, l.fields, compile_where(q.tokens, l.fields).root,
                                    Len(l.rows)).ok,
         NEW fid \in 0 .. Len(l.rows) - 1,
         Satisfies(RecordOf(l.rows[fid + 1].values, l.fields), l.fields, q.tokens)
  PROVE  LET root == compile_where(q.tokens, l.fields).root
         IN  \/ fid \in query_attribute_candidates(l.indexes, l.fields, root, Len(l.rows)).fids
             \/ /\ root.op = ">="
                /\ MissedByGe(root.literal, l.rows[fid + 1].values[FieldIndex(l.fields, root.name)])
  <1> DEFINE root == compile_where(q.tokens, l.fields).root
             column == FieldIndex(l.fields, root.name)
             type == l.fields[column].type
             i == resolve_attribute_index(l.indexes, l.fields, root)
             file == l.indexes[i].file
             values == ColumnValues(l, column)
             n == Len(l.rows)
             f == fid + 1
             value == l.rows[f].values[column]
             record == RecordOf(l.rows[f].values, l.fields)
  <1>1. /\ l.rows \in Seq(ToSet(l.rows)) /\ l.fields \in Seq(ToSet(l.fields))
        /\ l.indexes \in Seq(ToSet(l.indexes))
    BY DEF AttributeIndexIsSound
  <1>2. /\ \A g \in DOMAIN l.rows, c \in DOMAIN l.fields :
             HasType(l.rows[g].values[c], l.fields[c].type)
        /\ \A index \in ToSet(l.indexes) :
             index.direct /\ FieldIndex(l.fields, index.column) # 0 =>
                FilesValues(index.file, ColumnValues(l, FieldIndex(l.fields, index.column)))
        /\ AreTokens(q.tokens)
    BY DEF AttributeIndexIsSound
  <1>3. n \in Nat /\ DOMAIN l.rows = 1 .. n
    BY <1>1, LenProperties
  <1>4. /\ column # 0 /\ IsLiteral(root.literal)
        /\ Satisfies(record, l.fields, q.tokens) = CompareWith(record[column], root.op, root.literal)
    BY <1>2, IndexableClauseIs
  <1>5. /\ i \in DOMAIN l.indexes /\ l.indexes[i].column = root.name /\ l.indexes[i].direct
        /\ root.op # "!="
        /\ IF root.literal.is_string
           THEN /\ type = "String" /\ root.op \in {"=", ">="}
                /\ string_index_key_supported(root.literal.value)
           ELSE numeric_atx_supported(type)
    BY <1>1, IndexIsSafe
  <1>6. query_attribute_candidates(l.indexes, l.fields, root, n)
          = query_direct(file, root.literal, root.op, n)
    BY DEF query_attribute_candidates
  <1> HIDE DEF root, i
  <1>7. column \in DOMAIN l.fields
    BY <1>1, <1>4, FieldIndexIs
  <1> HIDE DEF column
  <1>8. f \in 1 .. n /\ f - 1 = fid
    BY <1>3
  <1> HIDE DEF f
  <1>9. HasType(value, type)
    BY <1>2, <1>3, <1>7, <1>8
  <1>10. FilesValues(file, values) /\ DOMAIN values = 1 .. n /\ values[f] = value
    <2>1. l.indexes[i] \in ToSet(l.indexes)
      BY <1>5 DEF ToSet
    <2>2. FilesValues(file, values)
      BY <1>2, <1>4, <1>5, <2>1 DEF column
    <2>3. values = [g \in 1 .. n |-> l.rows[g].values[column]]
      BY <1>3 DEF ColumnValues
    <2> QED BY <1>8, <2>2, <2>3
  <1>11. record[column] = value
    <2>1. numeric_atx_supported(type) \/ type = "String"
      BY <1>4, <1>5 DEF IsLiteral
    <2>2. AsRecord(value) = value
      BY <1>9, <2>1, RecordIs
    <2>3. record[column] = AsRecord(value)
      BY <1>7 DEF RecordOf
    <2> QED BY <2>2, <2>3
  <1>12. Satisfies(record, l.fields, q.tokens)
    BY DEF f
  <1> HIDE DEF record
  <1>13. CompareWith(value, root.op, root.literal)
    BY <1>4, <1>11, <1>12
  <1> HIDE DEF value, values, file, type, n
  <1>14. CASE ~(root.op = ">=" /\ MissedByGe(root.literal, value))
    <2>1. value.sort # "null" /\ Holds(compare_value(KeyOf(value), root.literal), root.op)
      BY <1>4, <1>5, <1>9, <1>13, <1>14, KeyIsFound
    <2>2. query_direct(file, root.literal, root.op, n).ok
      BY <1>6 DEF root, n
    <2>3. f - 1 \in query_direct(file, root.literal, root.op, n).fids
      BY <1>3, <1>8, <1>10, <2>1, <2>2, DirectAnswerHasAll
    <2> QED BY <1>6, <1>8, <2>3 DEF root, n
  <1>15. CASE root.op = ">=" /\ MissedByGe(root.literal, value)
    BY <1>15 DEF root, value, column, f
  <1> QED BY <1>14, <1>15

LEMMA PlainAnswerHasAll ==
  ASSUME NEW l, AttributeIndexIsSound(l), NEW q, q \in ToSet(l.requests),
         q.kind = "Attribute", q.plain, NEW fid \in 0 .. Len(l.rows) - 1,
         CompareWith(l.rows[fid + 1].values[q.column], q.op, q.literal)
  PROVE  fid \in query_entries(l.indexes[q.index].file, q.literal, q.op)
  <1> DEFINE f == fid + 1
             value == l.rows[f].values[q.column]
             type == l.fields[q.column].type
             file == l.indexes[q.index].file
             values == ColumnValues(l, q.column)
  <1>1. /\ l.rows \in Seq(ToSet(l.rows))
        /\ \A g \in DOMAIN l.rows, c \in DOMAIN l.fields :
             HasType(l.rows[g].values[c], l.fields[c].type)
        /\ q.column \in DOMAIN l.fields
        /\ numeric_atx_supported(type) \/ type = "String"
        /\ FilesPlainly(file, values)
        /\ q.op # "!=" /\ IsLiteral(q.literal)
    BY DEF AttributeIndexIsSound
  <1>2. Len(l.rows) \in Nat /\ DOMAIN l.rows = 1 .. Len(l.rows)
    BY <1>1, LenProperties
  <1>3. f \in DOMAIN l.rows /\ f - 1 = fid
    BY <1>2
  <1>4. CompareWith(value, q.op, q.literal)
    OBVIOUS
  <1> HIDE DEF f
  <1>5. HasType(value, type)
    BY <1>1, <1>3
  <1>6. f \in DOMAIN values /\ values[f] = value
    BY <1>3 DEF ColumnValues
  <1>7. value.sort = "text" =>
            /\ Len(value.value) <= KeyWidth
            /\ \A k \in DOMAIN value.value : value.value[k] \notin {Space, NonBmp}
    <2> HIDE DEF values, value
    <2> QED BY <1>1, <1>6 DEF FilesPlainly
  <1> HIDE DEF value, values, file, type
  <1>8. /\ value.sort # "null"
        /\ Holds(IF q.literal.is_string
                 THEN CompareTexts(decode_value(KeyOf(value)), q.literal.value)
                 ELSE compare_value(KeyOf(value), q.literal), q.op)
    BY <1>1, <1>4, <1>5, <1>7, PlainKeyIsFound
  <1>9. f - 1 \in query_entries(file, q.literal, q.op)
    BY <1>1, <1>6, <1>8, NamedAnswerHasAll
  <1> QED BY <1>3, <1>9 DEF file

\* What an index has answered, it was asked for.
AnswersAreAsked ==
    /\ \/ attribute = NotAnswered
       \/ /\ Q.kind = "SpatialWhere" /\ Compiled.indexable /\ HasIndex(Compiled)
          /\ attribute = query_attribute_candidates(L.indexes, L.fields, Compiled.root,
                                                    Len(L.rows))
    /\ at \in {"checked", "thinned"} => Q.kind = "SpatialWhere"
    /\ at = "candidates" => Q.kind \in {"Bbox", "SpatialWhere"}
    /\ at = "done" /\ Q.kind = "Attribute" =>
         answer = query_entries(L.indexes[Q.index].file, Q.literal, Q.op)

LEMMA AnswersStayAsked == QuerySpec => []AnswersAreAsked
  <1> USE DEF L, Q
  <1>1. QueryInit => AnswersAreAsked
    BY DEF QueryInit, AnswersAreAsked
  <1>2. AnswersAreAsked /\ [QueryNext]_qvars => AnswersAreAsked'
    <2> SUFFICES ASSUME AnswersAreAsked, [QueryNext]_qvars PROVE AnswersAreAsked'
      OBVIOUS
    <2>1. CASE UNCHANGED qvars
      BY <2>1 DEF qvars, AnswersAreAsked, Compiled, HasIndex
    <2>2. CASE Refuse
      BY <2>2 DEF Refuse, AnswersAreAsked, Compiled, HasIndex
    <2>3. CASE ScanAllRows \/ LookUpSpx
      BY <2>3 DEF ScanAllRows, LookUpSpx, Accepted, Found, AnswersAreAsked, Compiled, HasIndex
    <2>4. CASE CheckGeometry
      BY <2>4 DEF CheckGeometry, Found, Done, AnswersAreAsked, Compiled, HasIndex
    <2>5. CASE FusedScan
      BY <2>5 DEF FusedScan, Accepted, Done, AnswersAreAsked, Compiled, HasIndex
    <2>6. CASE LookUpAtx
      <3>1. UNCHANGED <<layer, request, answer>> /\ at' = "thinned" /\ at = "checked"
        BY <2>6 DEF LookUpAtx
      <3>2. /\ Compiled.indexable /\ HasIndex(Compiled)
            /\ attribute' = query_attribute_candidates(L.indexes, L.fields, Compiled.root,
                                                       Len(L.rows))
        BY <2>6 DEF LookUpAtx
      <3>3. Q.kind = "SpatialWhere"
        BY <3>1 DEF AnswersAreAsked
      <3> QED BY <3>1, <3>2, <3>3 DEF AnswersAreAsked, Compiled, HasIndex
    <2>7. CASE CheckWhere \/ CheckWhereByRecord
      BY <2>7 DEF CheckWhere, CheckWhereByRecord, Done, AnswersAreAsked, Compiled, HasIndex
    <2>8. CASE query_attribute
      BY <2>8 DEF query_attribute, Done, AnswersAreAsked, Compiled, HasIndex
    <2>9. CASE query_where \/ feature_intersects \/ hybrid_query_bbox
      <3>1. Q.kind # "Attribute" /\ at' = "done" /\ UNCHANGED <<layer, request, attribute>>
        BY <2>9 DEF query_where, feature_intersects, hybrid_query_bbox, Done
      <3> QED BY <3>1 DEF AnswersAreAsked, Compiled, HasIndex
    <2>10. CASE Returned
      BY <2>10 DEF Returned, qvars, AnswersAreAsked, Compiled, HasIndex
    <2> QED BY <2>1, <2>2, <2>3, <2>4, <2>5, <2>6, <2>7, <2>8, <2>9, <2>10 DEF QueryNext
  <1> QED BY <1>1, <1>2, PTL DEF QuerySpec

LEMMA AllAnswersAreFound ==
  ASSUME AttributeIndexesAreSound, LayerIsGiven, AnswersAreAsked
  PROVE  AttributeCandidatesComplete
  <1>1. PICK i \in DOMAIN Layers : layer = Layers[i]
    BY DEF LayerIsGiven
  <1>2. PICK r \in DOMAIN layer.requests : request = layer.requests[r]
    BY DEF LayerIsGiven
  <1>3. AttributeIndexIsSound(layer)
    BY <1>1 DEF AttributeIndexesAreSound
  <1>4. request \in ToSet(layer.requests)
    BY <1>2 DEF ToSet
  <1>5. ASSUME attribute.ok, NEW fid \in AllFids, ShouldAccept(RowAt(fid))
        PROVE  \/ fid \in attribute.fids
               \/ /\ Compiled.root.op = ">="
                  /\ MissedByGe(Compiled.root.literal,
                       RowAt(fid).values[FieldIndex(L.fields, Compiled.root.name)])
    <2>1. /\ request.kind = "SpatialWhere" /\ Compiled.indexable /\ HasIndex(Compiled)
          /\ attribute = query_attribute_candidates(layer.indexes, layer.fields, Compiled.root,
                                                    Len(layer.rows))
      <3>1. ~NotAnswered.ok
        BY DEF NotAnswered
      <3> QED BY <1>5, <3>1 DEF AnswersAreAsked, Q, L
    <2>2. Compiled = compile_where(request.tokens, layer.fields)
      BY DEF Compiled, Q, L
    <2>3. fid \in 0 .. Len(layer.rows) - 1 /\ RowAt(fid) = layer.rows[fid + 1]
      BY DEF AllFids, RowAt, L
    <2>4. Satisfies(RecordOf(layer.rows[fid + 1].values, layer.fields), layer.fields,
                    request.tokens)
      BY <1>5, <2>3 DEF ShouldAccept, Q, L
    <2>5. resolve_attribute_index(layer.indexes, layer.fields, Compiled.root) # 0
      BY <2>1 DEF HasIndex, L
    <2> QED BY <1>3, <1>4, <1>5, <2>1, <2>2, <2>3, <2>4, <2>5, IndexAnswerHasAll DEF L
  <1>6. ASSUME at = "done", request.kind = "Attribute", request.plain, NEW fid \in AllFids,
               CompareWith(RowAt(fid).values[request.column], request.op, request.literal)
        PROVE  fid \in answer
    <2>1. answer = query_entries(layer.indexes[request.index].file, request.literal, request.op)
      BY <1>6 DEF AnswersAreAsked, Q, L
    <2>2. fid \in 0 .. Len(layer.rows) - 1 /\ RowAt(fid) = layer.rows[fid + 1]
      BY DEF AllFids, RowAt, L
    <2> QED BY <1>3, <1>4, <1>6, <2>1, <2>2, PlainAnswerHasAll
  <1> QED BY <1>5, <1>6 DEF AttributeCandidatesComplete, Q

\* When every .atx file files the values of its column, whatever else is wrong
\* with its pages and whatever clause is asked about: an index that answers has
\* every row in its answer that the clause accepts as its text reads, but for
\* the texts that MissedByGe names. (resolve_attribute_index, query_direct,
\* query_entries)
THEOREM AttributeSearchIsComplete ==
  AttributeIndexesAreSound => (QuerySpec => []AttributeCandidatesComplete)
  <1> SUFFICES ASSUME AttributeIndexesAreSound
               PROVE  QuerySpec => []AttributeCandidatesComplete
    OBVIOUS
  <1>1. LayerIsGiven /\ AnswersAreAsked => AttributeCandidatesComplete
    BY AllAnswersAreFound
  <1> QED BY <1>1, LayerStays, AnswersStayAsked, PTL
=============================================================================
