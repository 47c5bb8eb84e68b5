---------------------- MODULE GdbCoordinatorRefinement ----------------------
(***************************************************************************)
(* The coordinator implements SourceExclusion.  The abstract readers are    *)
(* the leases really held, not the counter the code keeps of them: the      *)
(* refinement fails if the two ever part while a Writer is let in.          *)
(***************************************************************************)
EXTENDS GdbCoordinator

AbstractReaders == [p \in Paths |-> Cardinality(Holders(p)) + abandoned[p]]

AbstractPhase ==
  [p \in Paths |->
     IF sources[p].writer_pending THEN "draining"
     ELSE IF ~sources[p].writer_active THEN "open"
     ELSE IF sources[p].source_verified THEN "writing" ELSE "unclosed"]

AbstractVersion == [p \in Paths |-> sources[p].generation]

Abstract == INSTANCE SourceExclusion WITH
  readers <- AbstractReaders,
  phase <- AbstractPhase,
  version <- AbstractVersion

\* Every behaviour of the coordinator is one of SourceExclusion: condition
\* variable, tokens, moves and abandonments are steps the source does not see.
ImplementsSourceExclusion == Abstract!Spec

-----------------------------------------------------------------------------
(* The inductive invariant of the coordinator: GdbCoordinatorProofs.        *)

\* Whatever refers to a path or to a Writer lifecycle refers to a real one.
WellFormed ==
  /\ next_token_id > 0
  /\ \A l \in Leases : lease[l].counted => lease[l].path \in Paths
  /\ \A w \in Writers :
       /\ call[w].at # "idle" =>
            call[w].path \in Paths /\ call[w].token_id < next_token_id
       /\ token[w].phase # "Invalid" =>
            token[w].path \in Paths /\ token[w].token_id < next_token_id

\* A waiting prepare call still owns the pending mark it set, and its token
\* variable is free to take the result.
CallOwnsPending ==
  \A w \in Writers :
    call[w].at # "idle" =>
      /\ sources[call[w].path].writer_pending
      /\ sources[call[w].path].writer_token_id = call[w].token_id
      /\ token[w].phase \in {"Invalid", "Closed"}

\* What the entry itself says while a Writer is in it.
EntryExclusion ==
  \A p \in Paths :
    /\ sources[p].writer_pending => sources[p].writer_token_id # 0
    /\ sources[p].writer_active =>
         /\ ~sources[p].writer_pending
         /\ sources[p].fast_reader_count = 0
         /\ sources[p].writer_token_id # 0

IndInv ==
  /\ TypeOK
  /\ WellFormed
  /\ ReaderCountExact
  /\ EntryExclusion
  /\ LeaseGenerationCurrent
  /\ CallOwnsPending
  /\ GrantStaysDrained
  /\ PendingHasOneOwner
  /\ UnverifiedStaysClosed
  /\ NoLostWakeup
=============================================================================
