---------------------------- MODULE UnifiedLayer ----------------------------
(***************************************************************************)
(* The unified facade (unified.cpp, routing.cpp): Dataset, Layer and       *)
(* FeatureCursor over a local source, read by fast-gdb or by GDAL, beside  *)
(* the Writers of that source.                                             *)
(*                                                                         *)
(* Each element of Leases is one strand of calls: it opens a Dataset, a    *)
(* Layer of it, and one cursor at a time.  read_all, read_by_fid and       *)
(* read_native_by_fid are cursors that the call itself opens, steps and    *)
(* destroys.  A call that fails and leaves nothing behind is no step.      *)
(*                                                                         *)
(* The layer's schema is a function of the source's contents: the Writers  *)
(* of some versions alter it, visibly from their first write.              *)
(***************************************************************************)
EXTENDS ExternalWriter

CONSTANTS
  gdal_available,   \* built with FAST_GDB_UNIFIED_WITH_GDAL
  Altering          \* the versions whose Writer alters the schema

ASSUME UnifiedAssumption ==
  /\ gdal_available \in BOOLEAN
  /\ Altering \subseteq Nat /\ IsFiniteSet(Altering)

VARIABLE handle     \* what each strand has open

uvars == <<vars, world, handle>>

-----------------------------------------------------------------------------
(* Values *)

Schema(c) ==
  Cardinality({v \in Altering : v <= IF c.torn THEN c.version + 1
                                               ELSE c.version})

Backend == {"None", "FastGdb", "GdalOpenFileGDB"}

Handle ==
  [at : {"closed", "dataset_opening", "dataset", "layer_opening", "layer",
         "fast_opening", "parity", "gdal_opening", "cursor",
         "releasing", "notifying"},
   next : {"closed", "dataset", "layer", "parity"},  \* once released
   preference : {"Auto", "FastOnly", "GdalOnly"},
   concurrent_read : {"SourceBusy", "GdalUnverified"},
   dataset_backend : Backend,     \* DatasetState::report.selected
   generation : Nat,              \* DatasetState::consistency.generation
   layer_backend : Backend,       \* LayerState::report.selected
   schema : Nat,                  \* LayerState::schema
   query : {"none", "plain", "gap", "unsupported", "native"},
   backend : Backend,             \* CursorState::report.selected
   consistency : {"LocalSnapshot", "UnverifiedConcurrentRead"},
   closed : BOOLEAN,              \* CursorState::closed
   mapped : BOOLEAN,              \* a Reader has the source mapped
   opened_schema : Nat,           \* ghost: the source's, at the cursor's open
   seen : SUBSET Contents]        \* what the cursor's rows were read from

NoCursor(h) ==
  [at |-> h.at, next |-> h.next, preference |-> h.preference,
   concurrent_read |-> h.concurrent_read,
   dataset_backend |-> h.dataset_backend, generation |-> h.generation,
   layer_backend |-> h.layer_backend, schema |-> h.schema,
   query |-> "none", backend |-> "None", consistency |-> "LocalSnapshot",
   closed |-> FALSE, mapped |-> h.mapped, opened_schema |-> 0, seen |-> {}]

ClosedHandle ==
  [at |-> "closed", next |-> "closed", preference |-> "Auto",
   concurrent_read |-> "SourceBusy", dataset_backend |-> "None",
   generation |-> 0, layer_backend |-> "None", schema |-> 0,
   query |-> "none", backend |-> "None", consistency |-> "LocalSnapshot",
   closed |-> FALSE, mapped |-> FALSE, opened_schema |-> 0, seen |-> {}]

UnifiedInit ==
  /\ Init
  /\ WorldInit
  /\ handle = [l \in Leases |-> ClosedHandle]

\* route() for a local source; "None" where the build has no such backend.
Route(preference) ==
  IF preference # "GdalOnly" THEN "FastGdb"
  ELSE IF gdal_available THEN "GdalOpenFileGDB" ELSE "None"

\* A whitelisted gap may be handed to GDAL.
MayFallBack(h) == gdal_available /\ h.preference = "Auto"

\* A step of strand l that leaves the coordinator alone.
Local(l, h) ==
  /\ handle' = [handle EXCEPT ![l] = h]
  /\ UNCHANGED <<vars, world>>

\* acquire_fast_reader_lease succeeds and a Reader is opened under it.
Leased(l, h) ==
  /\ TryAcquireFastReader(l, gdb_path)
  /\ handle' = [handle EXCEPT ![l] = [h EXCEPT !.mapped = TRUE]]
  /\ UNCHANGED world

\* The Reader is destroyed, then its lease; the strand goes on at pc.
DropReader(l, h, pc) ==
  Local(l, [h EXCEPT !.at = "releasing", !.next = pc, !.mapped = FALSE])

ReleaseLease(l) ==
  /\ handle[l].at = "releasing"
  /\ Release(l)
  /\ handle' = [handle EXCEPT ![l].at = "notifying"]
  /\ UNCHANGED world

NotifyReleased(l) ==
  /\ handle[l].at = "notifying"
  /\ NotifyAfterRelease(l)
  /\ handle' = [handle EXCEPT ![l].at = handle[l].next]
  /\ UNCHANGED world

-----------------------------------------------------------------------------
(* Dataset *)

DatasetOpen(l, preference, concurrent_read) ==
  /\ handle[l].at = "closed"
  /\ Route(preference) # "None"
  /\ LET h == [ClosedHandle EXCEPT
                 !.at = "dataset_opening", !.preference = preference,
                 !.concurrent_read = concurrent_read,
                 !.dataset_backend = Route(preference)]
     IN IF Route(preference) = "FastGdb" THEN Leased(l, h) ELSE Local(l, h)

\* The layer names and groups are read, or cannot be.
DatasetOpened(l, ok) ==
  /\ handle[l].at = "dataset_opening"
  /\ LET pc == IF ok THEN "dataset" ELSE "closed"
     IN IF handle[l].dataset_backend = "FastGdb"
          THEN DropReader(l, [handle[l] EXCEPT
                                !.generation = lease[l].generation], pc)
          ELSE Local(l, [handle[l] EXCEPT !.at = pc])

DatasetClose(l) ==
  /\ handle[l].at = "dataset"
  /\ Local(l, ClosedHandle)

-----------------------------------------------------------------------------
(* Layer *)

\* open_layer, and open_layer_by_path of a name that only one path has.
OpenLayer(l) ==
  /\ handle[l].at = "dataset"
  /\ LET h == [handle[l] EXCEPT !.at = "layer_opening",
                                !.layer_backend = handle[l].dataset_backend]
     IN IF handle[l].dataset_backend = "FastGdb" THEN Leased(l, h)
                                                 ELSE Local(l, h)

\* open_layer_by_path of a name that several paths have: GDAL resolves it.
OpenLayerByPath(l) ==
  /\ handle[l].at = "dataset"
  /\ handle[l].dataset_backend = "FastGdb" /\ MayFallBack(handle[l])
  /\ Local(l, [handle[l] EXCEPT !.at = "layer_opening",
                                !.layer_backend = "GdalOpenFileGDB"])

\* freeze_schema; where fast-gdb cannot, load_gdal_layer_schema.
FreezeSchema(l, fast_capable) ==
  /\ handle[l].at = "layer_opening"
  /\ LET h == [handle[l] EXCEPT !.schema = Schema(disk)]
     IN IF handle[l].layer_backend = "GdalOpenFileGDB"
          THEN Local(l, [h EXCEPT !.at = "layer"])
          ELSE /\ fast_capable \/ MayFallBack(handle[l])
               /\ DropReader(l, [h EXCEPT !.layer_backend =
                                   IF fast_capable THEN "FastGdb"
                                   ELSE "GdalOpenFileGDB"], "layer")

OpenLayerFails(l) ==
  /\ handle[l].at = "layer_opening"
  /\ LET h == [handle[l] EXCEPT !.layer_backend = "None"]
     IN IF handle[l].layer_backend = "FastGdb"
          THEN DropReader(l, h, "dataset")
          ELSE Local(l, [h EXCEPT !.at = "dataset"])

LayerClose(l) ==
  /\ handle[l].at = "layer"
  /\ Local(l, [handle[l] EXCEPT !.at = "dataset", !.layer_backend = "None"])

-----------------------------------------------------------------------------
(* Cursor: how open_cursor, read_by_fid and read_native_by_fid begin *)

\* open_fast_cursor or read_native_by_fid gets its lease.
OpenFast(l, query) ==
  /\ handle[l].at = "layer" /\ handle[l].layer_backend = "FastGdb"
  /\ query \in {"plain", "unsupported", "native"}
  /\ Leased(l, [handle[l] EXCEPT !.at = "fast_opening", !.query = query])

\* SourceBusy, and the caller allows an unverified read.
OpenBusy(l) ==
  /\ handle[l].at = "layer" /\ handle[l].layer_backend = "FastGdb"
  /\ ~Admits(gdb_path)
  /\ MayFallBack(handle[l])
  /\ handle[l].concurrent_read = "GdalUnverified"
  /\ Local(l, [handle[l] EXCEPT !.at = "parity", !.query = "plain",
                                !.consistency = "UnverifiedConcurrentRead"])

\* A known capability gap, or a FID beyond the fast row slots.
OpenGap(l) ==
  /\ handle[l].at = "layer" /\ handle[l].layer_backend = "FastGdb"
  /\ MayFallBack(handle[l])
  /\ Local(l, [handle[l] EXCEPT !.at = "parity", !.query = "gap"])

\* The Layer is GDAL's already.
OpenGdal(l) ==
  /\ handle[l].at = "layer" /\ handle[l].layer_backend = "GdalOpenFileGDB"
  /\ Local(l, [handle[l] EXCEPT !.at = "gdal_opening", !.query = "plain"])

\* Fault: the cursor's state does not keep the lease.
FastCursorOpenDropsLease(l) ==
  /\ handle[l].at = "fast_opening" /\ handle[l].query = "plain"
  /\ Release(l)
  /\ handle' = [handle EXCEPT ![l] =
       [@ EXCEPT !.at = "cursor", !.backend = "FastGdb",
                 !.opened_schema = Schema(disk), !.seen = {disk}]]
  /\ UNCHANGED world

\* The fast cursor is open and its first row prefetched.
FastCursorOpen(l) ==
  /\ handle[l].at = "fast_opening" /\ handle[l].query = "plain"
  /\ Local(l, [handle[l] EXCEPT
       !.at = "cursor", !.backend = "FastGdb",
       !.opened_schema = Schema(disk), !.seen = {disk}])

\* open_fast_cursor returns an error, or read_native_by_fid returns: Unsupported
\* goes on to GDAL when the lease is gone, anything else is the result.
FastOpeningEnds(l) ==
  /\ handle[l].at = "fast_opening"
  /\ IF handle[l].query = "unsupported" /\ MayFallBack(handle[l])
       THEN DropReader(l, handle[l], "parity")
       ELSE DropReader(l, NoCursor(handle[l]), "layer")

\* make_gdal_fallback_state opens a Dataset, compares schemas and closes it.
CheckParity(l) ==
  /\ handle[l].at = "parity"
  /\ Schema(disk) = handle[l].schema
  /\ Local(l, [handle[l] EXCEPT !.at = "gdal_opening"])

\* SchemaMismatch, or the Dataset or its layer cannot be opened.
ParityFails(l) ==
  /\ handle[l].at = "parity"
  /\ Local(l, [NoCursor(handle[l]) EXCEPT !.at = "layer"])

\* open_gdal_cursor opens a Dataset of its own and prefetches.
GdalCursorOpen(l) ==
  /\ handle[l].at = "gdal_opening"
  /\ Local(l, [handle[l] EXCEPT
       !.at = "cursor", !.backend = "GdalOpenFileGDB",
       !.opened_schema = Schema(disk), !.seen = {disk}])

GdalCursorFails(l) ==
  /\ handle[l].at = "gdal_opening"
  /\ Local(l, [NoCursor(handle[l]) EXCEPT !.at = "layer"])

-----------------------------------------------------------------------------
(* Cursor: next() and close() *)

CursorNext(l) ==
  /\ handle[l].at = "cursor" /\ ~handle[l].closed
  /\ Local(l, [handle[l] EXCEPT !.seen = handle[l].seen \cup {disk}])

\* next() at the end, cancelled or past its deadline: only a flag is set.
CursorEnd(l) ==
  /\ handle[l].at = "cursor" /\ ~handle[l].closed
  /\ Local(l, [handle[l] EXCEPT !.closed = TRUE])

\* Fault: the lease goes while the Reader is still mapped.
CursorCloseLeaseFirst(l) ==
  /\ handle[l].at = "cursor"
  /\ Local(l, [NoCursor(handle[l]) EXCEPT !.at = "releasing",
                                          !.next = "layer"])

\* Fault: close() destroys the Reader and keeps the lease.
CursorCloseKeepsLease(l) ==
  /\ handle[l].at = "cursor"
  /\ Local(l, [NoCursor(handle[l]) EXCEPT !.at = "layer", !.mapped = FALSE])

\* close() or the destructor: Reader before lease.
CursorClose(l) ==
  /\ handle[l].at = "cursor"
  /\ IF handle[l].backend = "FastGdb"
       THEN DropReader(l, NoCursor(handle[l]), "layer")
       ELSE Local(l, [NoCursor(handle[l]) EXCEPT !.at = "layer"])

-----------------------------------------------------------------------------
\* The strand finishes the call it is in.
CallStep(l) ==
  \/ ReleaseLease(l) \/ NotifyReleased(l)
  \/ \E ok \in BOOLEAN : DatasetOpened(l, ok)
  \/ \E fast_capable \in BOOLEAN : FreezeSchema(l, fast_capable)
  \/ OpenLayerFails(l)
  \/ FastCursorOpen(l) \/ FastOpeningEnds(l)
  \/ CheckParity(l) \/ ParityFails(l)
  \/ GdalCursorOpen(l) \/ GdalCursorFails(l)

\* The caller makes its next call.
CallerStep(l) ==
  \/ \E preference \in {"Auto", "FastOnly", "GdalOnly"},
        concurrent_read \in {"SourceBusy", "GdalUnverified"} :
       DatasetOpen(l, preference, concurrent_read)
  \/ DatasetClose(l)
  \/ OpenLayer(l) \/ OpenLayerByPath(l) \/ LayerClose(l)
  \/ \E query \in {"plain", "unsupported", "native"} : OpenFast(l, query)
  \/ OpenBusy(l) \/ OpenGap(l) \/ OpenGdal(l)
  \/ CursorNext(l) \/ CursorEnd(l) \/ CursorClose(l)

UnifiedNext ==
  \/ \E l \in Leases : CallStep(l) \/ CallerStep(l)
  \/ \E w \in Writers : WriterStep(w) /\ UNCHANGED handle

UnifiedSpec == UnifiedInit /\ [][UnifiedNext]_uvars

\* A call in progress ends, and callers destroy their cursors: nothing less
\* gives a lease back.
UnifiedLiveSpec ==
  /\ UnifiedSpec
  /\ \A l \in Leases : WF_uvars(CallStep(l)) /\ WF_uvars(CursorClose(l))
  /\ \A w \in Writers :
       WF_uvars(/\ PrepareDrained(w) \/ WaitAgain(w)
                /\ WriterWaits(w)
                /\ UNCHANGED handle)

-----------------------------------------------------------------------------
(* What the facade promises *)

UnifiedTypeOK ==
  /\ TypeOK
  /\ WorldTypeOK
  /\ handle \in [Leases -> Handle]

\* Whatever the strand does with its Dataset, Layer or cursor, no Reader has
\* the source mapped while an update Dataset is open.
ReaderExcludesUpdate ==
  (\E w \in Writers : update_dataset[w] # "none") =>
    \A l \in Leases : ~handle[l].mapped

\* The rows of a fast cursor, and its generation, are of one version, from
\* the prefetched row on and however long the cursor is kept.
FastCursorIsOneVersion ==
  \A l \in Leases :
    handle[l].at = "cursor" /\ handle[l].backend = "FastGdb" =>
      \A c \in handle[l].seen : c = disk /\ ~c.torn

\* Between calls only an open fast cursor holds a lease: not a Dataset, not a
\* Layer, not a call that failed half way or went over to GDAL.
OnlyFastCursorsHold ==
  \A l \in Leases :
    \/ handle[l].at \in {"closed", "dataset", "layer", "parity",
                         "gdal_opening"}
    \/ handle[l].at = "cursor" /\ handle[l].backend = "GdalOpenFileGDB"
    => ~lease[l].counted /\ ~handle[l].mapped

\* FastOnly never reads through GDAL, whatever gap the layer or the query
\* shows and however busy the source is.
FastOnlyStaysFast ==
  \A l \in Leases :
    handle[l].preference = "FastOnly" =>
      "GdalOpenFileGDB" \notin {handle[l].dataset_backend,
                                handle[l].layer_backend, handle[l].backend}

\* A waiting Writer gets its token once calls end and cursors are destroyed.
UnifiedWriterGetsIn ==
  \A w \in Writers : (call[w].at # "idle") ~> (call[w].at = "idle")

-----------------------------------------------------------------------------
(* What the documents promise and the code does not keep *)

\* A read that met a Writer is not reported as a local snapshot.
SnapshotIsOneVersion ==
  \A l \in Leases :
    handle[l].at = "cursor" /\ handle[l].consistency = "LocalSnapshot" =>
      \A c, d \in handle[l].seen : c = d /\ ~c.torn

\* The end of the rows releases the Reader, and lets Writers in.
ExhaustedCursorReleases ==
  \A l \in Leases :
    handle[l].at = "cursor" /\ handle[l].closed => ~handle[l].mapped

\* Rows are mapped with a schema of the generation they come from.
FastRowsMatchSchema ==
  \A l \in Leases :
    handle[l].at = "cursor" /\ handle[l].backend = "FastGdb" =>
      handle[l].opened_schema = handle[l].schema

\* A fallback cursor returns only if GDAL's schema is the frozen one.
FallbackRowsMatchSchema ==
  \A l \in Leases :
    /\ handle[l].at = "cursor"
    /\ handle[l].layer_backend = "FastGdb"
    /\ handle[l].backend = "GdalOpenFileGDB"
    => handle[l].opened_schema = handle[l].schema
=============================================================================
