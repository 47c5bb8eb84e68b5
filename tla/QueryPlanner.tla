---------------------------- MODULE QueryPlanner ----------------------------
(***************************************************************************)
(* How SpatialBbox and SpatialWhere queries find their FIDs:               *)
(* query_engine_geometry.cpp, query_engine_combined.cpp, and the scans of  *)
(* the table parser that they drive.                                       *)
(*                                                                         *)
(* Five ways lead to an answer: a dense scan of every slot, a batch over   *)
(* the candidates of the spatial index, single reads of the candidates, a  *)
(* fused pass over candidates that evaluates the WHERE clause as well, and *)
(* an attribute index that thins out what the spatial part found.  Each    *)
(* may give up half way and hand over to the next.                         *)
(*                                                                         *)
(* The request has passed the checks of QueryEngine: a parser, a valid     *)
(* box, a valid clause, a geometry field.  A call has one box and one      *)
(* clause, so a row is described by what they find there.                  *)
(***************************************************************************)
EXTENDS Integers, FiniteSets

CONSTANTS
    MaxFid,               \* feature_count() - 1
    Sources,              \* the tables and indexes to look at
    Coverages,            \* estimated_coverage of the boxes, in percent
    MinimumAdaptive,      \* kMinimumAdaptiveFeatureCount
    DirectScanCoverage,   \* direct_scan_coverage_threshold(), in percent
    SequentialDensity,    \* sequential_density_threshold(), in percent
    FusedCoverage,        \* kFusedCoverageThreshold, in percent
    AtxBypassMax,         \* kAtxBypassMaxCandidates
    AtxBypassDenominator  \* kAtxBypassRatioDenominator

Fids == 0..MaxFid

\* What the parser finds in a slot: nothing; an offset past the end; a record
\* that the file ends in; a layout that does not add up; then records, whose
\* geometry is null, cannot be decoded, lies in or off the box by its bounds,
\* or takes the exact test, which it passes or not.
RowKinds == {"deleted", "beyond", "truncated", "unlocatable", "null",
             "undecodable", "contained", "disjoint", "hit", "miss"}

IndexStates == {"missing", "unparsable", "good"}

\* `where` are the FIDs the clause accepts; an index that can be read gives a
\* superset of what it is asked for; `mapped` tables cannot fail to be read.
SourceType ==
    [rows: [Fids -> RowKinds], where: SUBSET Fids,
     spx: IndexStates, spx_fids: SUBSET Fids,
     atx: IndexStates, atx_fids: SUBSET Fids, mapped: BOOLEAN]

IntersectingRows(s) == {f \in Fids : s.rows[f] \in {"contained", "hit"}}

ASSUME PlannerAssumption ==
    /\ MaxFid \in Nat
    /\ Sources \subseteq SourceType
    /\ \A s \in Sources :
         /\ s.spx = "good" => IntersectingRows(s) \subseteq s.spx_fids
         /\ s.atx = "good" => s.where \subseteq s.atx_fids
    /\ Coverages \subseteq 0..100
    /\ {MinimumAdaptive, DirectScanCoverage, SequentialDensity, FusedCoverage,
        AtxBypassMax, AtxBypassDenominator} \subseteq Nat
    /\ AtxBypassDenominator # 0

VARIABLES
    source,         \* the table and its two indexes
    spatial_index,  \* "unknown" until somebody opens it, then what it was
    call,           \* the query under way
    result          \* the last QueryResult

vars == <<source, spatial_index, call, result>>

Nothing == [f \in Fids |-> 0]
Idle == [at |-> "idle"]
NoResult == [status |-> "none"]

\* matched_fids as a bag: how often each FID is in it.
Once(S) == [f \in Fids |-> IF f \in S THEN 1 ELSE 0]
FidsOf(bag) == {f \in Fids : bag[f] > 0}

Active == {f \in Fids : source.rows[f] # "deleted"}      \* has_feature

\* Slots with a record in the file, and those whose geometry can be found.
HasRecord(f) == source.rows[f] \notin {"deleted", "beyond", "truncated"}
Locatable(f) ==
    HasRecord(f) /\ source.rows[f] \notin {"unlocatable", "null"}

Intersecting == IntersectingRows(source)
Answer(c) ==
    IF c.kind = "SpatialWhere" THEN Intersecting \cap source.where
    ELSE Intersecting
-----------------------------------------------------------------------------
(***************************************************************************)
(* One row.                                                                *)
(***************************************************************************)
\* evaluate_blob: a geometry that cannot be judged is counted, not matched.
Evaluate(c, f) ==
    [c EXCEPT !.todo = c.todo \ {f}, !.scanned = TRUE,
              !.matched[f] = IF f \in Intersecting THEN @ + 1 ELSE @,
              !.invalid = @ \/ source.rows[f] \in
                              {"null", "unlocatable", "undecodable"}]

\* A row that is only counted among the invalid geometries.
CountInvalid(c, f) == [c EXCEPT !.todo = @ \ {f}, !.invalid = TRUE]

\* evaluate_spatial_ref, then evaluate_where.
EvaluateFused(c, f) ==
    [c EXCEPT !.todo = @ \ {f},
              !.matched[f] = IF f \in Intersecting \cap source.where
                             THEN @ + 1 ELSE @,
              !.invalid = @ \/ source.rows[f] \in {"null", "undecodable"}]

EvaluateWhere(c, f) ==
    [c EXCEPT !.todo = @ \ {f},
              !.matched[f] = IF f \in source.where THEN @ + 1 ELSE @]

\* The row that a scan in FID order visits next.
IsNext(f) == f \in call.todo /\ \A g \in call.todo : f <= g

\* A scan of `fids` begins, with nothing found yet.
Begin(c, at, fids) ==
    [c EXCEPT !.at = at, !.candidates = fids, !.todo = fids,
              !.matched = Nothing, !.invalid = FALSE, !.scanned = FALSE]

Publish(c, matched) ==
    /\ result' = [status |-> "Ok", kind |-> c.kind, matched |-> matched,
                  damaged |-> c.invalid \/ c.spatial_invalid \/ c.canonical]
    /\ call' = Idle

Step(c) == call' = c /\ UNCHANGED result
-----------------------------------------------------------------------------
(***************************************************************************)
(* The plan.                                                               *)
(***************************************************************************)
\* The spatial index is looked for once, whoever needs it first.
Opened == IF spatial_index = "unknown" THEN source.spx ELSE spatial_index

should_bypass_attribute_index(n) ==
    /\ n # 0 /\ Active # {}
    /\ n <= AtxBypassMax
    /\ n <= Cardinality(Active) \div AtxBypassDenominator

Init ==
    /\ source \in Sources
    /\ spatial_index = "unknown"
    /\ call = Idle
    /\ result = NoResult

\* The selective case of SpatialWhere is tried in one pass.
Fusable(kind, coverage, predicate) ==
    /\ kind = "SpatialWhere" /\ predicate
    /\ Active # {} /\ coverage <= FusedCoverage
    /\ source.atx # "missing"

Query(kind, coverage, predicate) ==
    /\ call.at = "idle"
    /\ LET new == [at |-> "bbox", kind |-> kind, coverage |-> coverage,
                   predicate |-> predicate, candidates |-> {}, todo |-> {},
                   matched |-> Nothing, scanned |-> FALSE, invalid |-> FALSE,
                   spatial_invalid |-> FALSE, canonical |-> FALSE]
       IN  IF Fusable(kind, coverage, predicate)
           THEN /\ spatial_index' = Opened
                /\ call' = IF Opened = "good"
                              /\ should_bypass_attribute_index(
                                   Cardinality(source.spx_fids))
                           THEN Begin(new, "fused", source.spx_fids) ELSE new
           ELSE call' = new /\ UNCHANGED spatial_index
    /\ result' = NoResult
    /\ UNCHANGED source

\* query_bbox_unified: an empty table; a dense scan because the box covers
\* much, because there is no index, or because it gives many candidates; else
\* the candidates.
PlanBbox ==
    /\ call.at = "bbox"
    /\ LET active == Cardinality(Active)
           direct == /\ active >= MinimumAdaptive
                     /\ call.coverage >= DirectScanCoverage
           usable == ~direct /\ Opened = "good"
           dense  == /\ active >= MinimumAdaptive
                     /\ Cardinality(source.spx_fids) * 100
                          >= SequentialDensity * active
       IN  /\ spatial_index' = IF Active = {} \/ direct THEN spatial_index
                               ELSE Opened
           /\ Step(IF Active = {} THEN Begin(call, "spatial", {})
                   ELSE IF ~usable THEN
                     [Begin(call, "dense", {}) EXCEPT !.todo = Fids]
                   ELSE IF dense THEN
                     [Begin(call, "dense", source.spx_fids) EXCEPT !.todo = Fids]
                   ELSE Begin(call, "batch", source.spx_fids))
    /\ UNCHANGED source
-----------------------------------------------------------------------------
(***************************************************************************)
(* The fused pass: scan_field_candidates over the candidates of the index. *)
(***************************************************************************)
FusedRow(f) ==
    /\ call.at = "fused" /\ f \in call.todo
    /\ \A g \in call.candidates : source.rows[g] \notin {"deleted", "beyond"}
    /\ HasRecord(f) /\ source.rows[f] # "unlocatable"
    /\ Step(EvaluateFused(call, f))
    /\ UNCHANGED <<source, spatial_index>>

\* Fault: what a pass that gave up has found is published.
FusedFailsButPublishes ==
    /\ call.at = "fused" /\ call.todo # {}
    /\ \/ ~source.mapped
       \/ \E f \in call.candidates : ~HasRecord(f)
       \/ \E f \in call.todo : source.rows[f] = "unlocatable"
    /\ Publish(call, call.matched)
    /\ UNCHANGED <<source, spatial_index>>

\* It gives up at a row it cannot take apart: nothing of it is kept.
FusedFails ==
    /\ call.at = "fused" /\ call.todo # {}
    /\ \/ ~source.mapped
       \/ \E f \in call.candidates : ~HasRecord(f)
       \/ \E f \in call.todo : source.rows[f] = "unlocatable"
    /\ Step(Begin(call, "bbox", {}))
    /\ UNCHANGED <<source, spatial_index>>

FusedEnds ==
    /\ call.at = "fused" /\ call.todo = {}
    /\ Publish(call, call.matched)
    /\ UNCHANGED <<source, spatial_index>>
-----------------------------------------------------------------------------
(***************************************************************************)
(* The dense scan: scan_geometry_blobs.                                    *)
(***************************************************************************)
DenseRow(f) ==
    /\ call.at = "dense" /\ IsNext(f)
    /\ source.rows[f] # "truncated"
    /\ Step(IF source.rows[f] \in {"deleted", "beyond"}
            THEN [call EXCEPT !.todo = @ \ {f}]
            ELSE Evaluate(call, f))
    /\ UNCHANGED <<source, spatial_index>>

\* Fault: the matches of the scan that failed are kept.
DenseFailsKeepsMatches ==
    /\ call.at = "dense"
    /\ \/ call.todo = {} /\ ~call.scanned
       \/ call.todo # {} /\ ~source.mapped
       \/ \E f \in Fids : IsNext(f) /\ source.rows[f] = "truncated"
    /\ LET c == IF call.candidates = {} THEN Active ELSE call.candidates
       IN  Step([Begin(call, "batch", c) EXCEPT !.matched = call.matched])
    /\ UNCHANGED <<source, spatial_index>>

\* A record that the file ends in, a read that fails, or no row at all: the
\* scan says 0, and the query starts again with the candidates, or with every
\* feature.
DenseFails ==
    /\ call.at = "dense"
    /\ \/ call.todo = {} /\ ~call.scanned
       \/ call.todo # {} /\ ~source.mapped
       \/ \E f \in Fids : IsNext(f) /\ source.rows[f] = "truncated"
    /\ Step(Begin(call, "batch",
                  IF call.candidates = {} THEN Active ELSE call.candidates))
    /\ UNCHANGED <<source, spatial_index>>

DenseEnds ==
    /\ call.at = "dense" /\ call.todo = {} /\ call.scanned
    /\ Step([call EXCEPT !.at = "spatial"])
    /\ UNCHANGED <<source, spatial_index>>
-----------------------------------------------------------------------------
(***************************************************************************)
(* The candidates: scan_geometry_candidates in physical order, which only  *)
(* a table that is not mapped needs, then peek_geometry_blob one by one.   *)
(***************************************************************************)
BatchRow(f) ==
    /\ call.at = "batch" /\ f \in call.todo /\ ~source.mapped
    /\ \A g \in call.candidates : source.rows[g] \notin {"deleted", "beyond"}
    /\ HasRecord(f)
    /\ Step(Evaluate(call, f))
    /\ UNCHANGED <<source, spatial_index>>

\* The batch is not used or gives up: its matches and counts are taken back.
BatchFails ==
    /\ call.at = "batch" /\ call.todo # {}
    /\ Step(Begin(call, "per_fid", call.candidates))
    /\ UNCHANGED <<source, spatial_index>>

PerFidRow(f) ==
    /\ call.at = "per_fid" /\ IsNext(f)
    /\ \/ Locatable(f) /\ Step(Evaluate(call, f))
       \/ (~Locatable(f) \/ ~source.mapped) /\ Step(CountInvalid(call, f))
    /\ UNCHANGED <<source, spatial_index>>

CandidatesEnd ==
    /\ call.at \in {"batch", "per_fid"} /\ call.todo = {}
    /\ Step([call EXCEPT !.at = "spatial"])
    /\ UNCHANGED <<source, spatial_index>>
-----------------------------------------------------------------------------
(***************************************************************************)
(* The WHERE part of SpatialWhere.                                         *)
(***************************************************************************)
SpatialEnds ==
    /\ call.at = "spatial" /\ call.kind = "SpatialBbox"
    /\ Publish(call, call.matched)
    /\ UNCHANGED <<source, spatial_index>>

\* The attribute index thins out the matches, unless they are few; what is
\* left is evaluated in full.
UseAttributes ==
    /\ call.at = "spatial" /\ call.kind = "SpatialWhere"
    /\ LET found == FidsOf(call.matched)
           used  == /\ call.predicate /\ source.atx = "good"
                    /\ ~should_bypass_attribute_index(Cardinality(found))
           rest  == IF used THEN found \cap source.atx_fids ELSE found
       IN  IF rest = {} THEN Publish(call, Nothing)
           ELSE Step([Begin(call, "where", rest)
                        EXCEPT !.spatial_invalid = call.invalid])
    /\ UNCHANGED <<source, spatial_index>>

WhereRow(f) ==
    /\ call.at = "where" /\ f \in call.todo
    /\ Step(EvaluateWhere(call, f))
    /\ UNCHANGED <<source, spatial_index>>

\* The scan fails: the rows are read one by one, and that is said.
WhereFails ==
    /\ call.at = "where" /\ call.todo # {} /\ ~source.mapped
    /\ Step([Begin(call, "canonical", call.candidates)
               EXCEPT !.canonical = TRUE])
    /\ UNCHANGED <<source, spatial_index>>

CanonicalRow(f) ==
    /\ call.at = "canonical" /\ IsNext(f)
    /\ \/ Step(EvaluateWhere(call, f))
       \/ ~source.mapped /\ Step([call EXCEPT !.todo = @ \ {f}])
    /\ UNCHANGED <<source, spatial_index>>

\* Sorted and without repetitions.
WhereEnds ==
    /\ call.at \in {"where", "canonical"} /\ call.todo = {}
    /\ Publish(call, Once(FidsOf(call.matched)))
    /\ UNCHANGED <<source, spatial_index>>
-----------------------------------------------------------------------------
CallStep ==
    \/ PlanBbox
    \/ \E f \in Fids : \/ FusedRow(f) \/ DenseRow(f) \/ BatchRow(f)
                       \/ PerFidRow(f) \/ WhereRow(f) \/ CanonicalRow(f)
    \/ FusedFails \/ FusedEnds
    \/ DenseFails \/ DenseEnds
    \/ BatchFails \/ CandidatesEnd
    \/ SpatialEnds \/ UseAttributes
    \/ WhereFails \/ WhereEnds

Next ==
    \/ \E kind \in {"SpatialBbox", "SpatialWhere"}, coverage \in Coverages,
          predicate \in BOOLEAN : Query(kind, coverage, predicate)
    \/ CallStep

Spec == Init /\ [][Next]_vars
-----------------------------------------------------------------------------
CallType ==
    [at: {"bbox", "fused", "dense", "batch", "per_fid", "spatial", "where",
          "canonical"},
     kind: {"SpatialBbox", "SpatialWhere"}, coverage: Coverages,
     predicate: BOOLEAN, candidates: SUBSET Fids, todo: SUBSET Fids,
     matched: [Fids -> Nat], scanned: BOOLEAN, invalid: BOOLEAN,
     spatial_invalid: BOOLEAN, canonical: BOOLEAN]

ResultType ==
    [status: {"Ok"}, kind: {"SpatialBbox", "SpatialWhere"},
     matched: [Fids -> Nat], damaged: BOOLEAN]

\* Every variable in its range; the engine's opinion of the spatial index is
\* what its file gives.
PlannerTypeOK ==
    /\ source \in Sources
    /\ spatial_index \in {"unknown", source.spx}
    /\ call \in CallType \cup {Idle}
    /\ result \in ResultType \cup {NoResult}

\* Whichever way the query took, and however often it gave one up and went on
\* with another: it publishes no FID that does not match, and none twice.
PlannedResultIsSound ==
    result # NoResult =>
      \A f \in Fids : result.matched[f] <= Once(Answer(result))[f]

\* ... and every FID that matches, unless it says that rows could not be
\* judged.
PlannedResultIsComplete ==
    result # NoResult /\ ~result.damaged =>
      \A f \in Answer(result) : result.matched[f] > 0
=============================================================================
