--------------------------- MODULE ExternalWriter ---------------------------
(***************************************************************************)
(* The source's files and the external Writers of one source, over the     *)
(* coordinator.                                                            *)
(*                                                                         *)
(* A Writer is the application's code: it follows the call sequence that   *)
(* ADR-008 documents for the token, and it loses tokens, fails to open its *)
(* update Dataset and fails to confirm its close.  The files are a version *)
(* number, and torn from the first write to the close of the Dataset.      *)
(***************************************************************************)
EXTENDS GdbCoordinator

CONSTANT gdb_path     \* the source

ASSUME SourceAssumption == gdb_path \in Paths

VARIABLES
  disk,             \* the contents of the source's files
  update_dataset,   \* the GDALDataset each Writer opened with GDAL_OF_UPDATE
  coordination_id   \* the id each Writer saved from its last token

world == <<disk, update_dataset, coordination_id>>

Contents == [version : Nat, torn : BOOLEAN]

WorldTypeOK ==
  /\ disk \in Contents
  /\ update_dataset \in [Writers -> {"none", "open", "reported", "written"}]
  /\ coordination_id \in [Writers -> Nat]

WorldInit ==
  /\ disk = [version |-> 0, torn |-> FALSE]
  /\ update_dataset = [w \in Writers |-> "none"]
  /\ coordination_id = [w \in Writers |-> 0]

-----------------------------------------------------------------------------
(* What a Writer does *)

WriterPrepares(w) ==
  /\ update_dataset[w] = "none"
  /\ \/ /\ PrepareImmediate(w, gdb_path)
        /\ coordination_id' = [coordination_id EXCEPT ![w] = next_token_id]
     \/ PrepareWait(w, gdb_path) /\ UNCHANGED coordination_id
  /\ UNCHANGED <<disk, update_dataset>>

\* prepare_external_update wakes up, returns a token or times out.
WriterWaits(w) ==
  /\ \/ /\ PrepareDrained(w) \/ TimeoutDrained(w)
        /\ coordination_id' =
             [coordination_id EXCEPT ![w] = call[w].token_id]
     \/ /\ WaitAgain(w) \/ SpuriousWake(w) \/ TimeoutReadersActive(w)
        /\ UNCHANGED coordination_id
  /\ UNCHANGED <<disk, update_dataset>>

\* GDALOpenEx(GDAL_OF_UPDATE), under a Pending token.
OpenUpdate(w) ==
  /\ token[w].phase = "Pending" /\ update_dataset[w] = "none"
  /\ update_dataset' = [update_dataset EXCEPT ![w] = "open"]
  /\ UNCHANGED <<vars, disk, coordination_id>>

OpenUpdateFails(w) ==
  /\ update_dataset[w] = "none"
  /\ CancelBeforeUpdate(w)
  /\ UNCHANGED world

ReportOpened(w) ==
  /\ update_dataset[w] = "open"
  /\ NotifyUpdateOpened(w)
  /\ update_dataset' = [update_dataset EXCEPT ![w] = "reported"]
  /\ UNCHANGED <<disk, coordination_id>>

WriteFeatures(w) ==
  /\ update_dataset[w] \in {"reported", "written"}
  /\ update_dataset' = [update_dataset EXCEPT ![w] = "written"]
  /\ disk' = [disk EXCEPT !.torn = TRUE]
  /\ UNCHANGED <<vars, coordination_id>>

\* GDALClose.
CloseUpdate(w) ==
  /\ update_dataset[w] \in {"reported", "written"}
  /\ update_dataset' = [update_dataset EXCEPT ![w] = "none"]
  /\ disk' = IF update_dataset[w] = "written"
               THEN [version |-> disk.version + 1, torn |-> FALSE] ELSE disk
  /\ UNCHANGED <<vars, coordination_id>>

\* The Writer says "closed" only of a Dataset that is, "not closed" whenever
\* it is not sure.
ReportClosed(w, close_succeeded) ==
  /\ close_succeeded => update_dataset[w] = "none"
  /\ \/ NotifyUpdateClosed(w, close_succeeded)
     \/ /\ token[w].phase # "Active"
        /\ NotifyExternalUpdateClosed(gdb_path, coordination_id[w],
                                      close_succeeded)
  /\ UNCHANGED world

\* The token goes out of scope; a Pending one only with no Dataset open.
LoseToken(w) ==
  /\ token[w].phase = "Pending" => update_dataset[w] = "none"
  /\ DestroyToken(w)
  /\ UNCHANGED world

WriterStep(w) ==
  \/ WriterPrepares(w) \/ WriterWaits(w)
  \/ OpenUpdate(w) \/ OpenUpdateFails(w) \/ ReportOpened(w)
  \/ WriteFeatures(w) \/ CloseUpdate(w)
  \/ \E ok \in BOOLEAN : ReportClosed(w, ok)
  \/ LoseToken(w)
=============================================================================
