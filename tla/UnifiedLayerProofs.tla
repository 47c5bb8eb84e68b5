------------------------- MODULE UnifiedLayerProofs -------------------------
(***************************************************************************)
(* Proofs about the unified facade, for any number of strands and Writers   *)
(* of the source, any build, and any versions that alter the schema.        *)
(***************************************************************************)
EXTENDS UnifiedLayer, GdbCoordinatorProofs

\* The stages at which a strand holds a lease.
HoldsLease(h) ==
  \/ h.at \in {"fast_opening", "releasing"}
  \/ h.at = "dataset_opening" /\ h.dataset_backend = "FastGdb"
  \/ h.at = "layer_opening" /\ h.layer_backend = "FastGdb"
  \/ h.at = "cursor" /\ h.backend = "FastGdb"

\* Lease and Reader of strand l follow the stage of its call.
LeaseFollowsHandle(l, h) ==
  /\ lease[l].counted <=> HoldsLease(h)
  /\ lease[l].counted => lease[l].path = gdb_path
  /\ h.mapped <=> HoldsLease(h) /\ h.at # "releasing"

\* What is open has a backend.
BackendKnown(h) ==
  /\ h.at # "closed" => h.dataset_backend # "None"
  /\ h.at = "layer_opening" => h.layer_backend # "None"
  /\ h.at = "cursor" => h.backend # "None"

FastReadsPresent(h) ==
  h.at = "cursor" /\ h.backend = "FastGdb" => h.seen \subseteq {disk}

\* A FastOnly strand has no way to GDAL, not even one it is about to take.
NoWayToGdal(h) ==
  h.preference = "FastOnly" =>
    /\ "GdalOpenFileGDB" \notin {h.dataset_backend, h.layer_backend, h.backend}
    /\ h.next # "parity"
    /\ h.at \notin {"parity", "gdal_opening"}

HandleOK(l, h) ==
  /\ LeaseFollowsHandle(l, h)
  /\ BackendKnown(h)
  /\ FastReadsPresent(h)
  /\ NoWayToGdal(h)

UnifiedInv ==
  /\ WriterInv
  /\ handle \in [Leases -> Handle]
  /\ \A l \in Leases : HandleOK(l, handle[l])

(* A strand that has nothing open. *)
LEMMA ClosedHandleType == ClosedHandle \in Handle
  BY DEF ClosedHandle, Handle, Backend

LEMMA InitUnifiedInv == UnifiedInit => UnifiedInv
<1> SUFFICES ASSUME UnifiedInit PROVE UnifiedInv
  OBVIOUS
<1>1. WriterInv
  BY InitWriterInv DEF UnifiedInit
<1>2. handle \in [Leases -> Handle]
  BY ClosedHandleType DEF UnifiedInit
<1>3. ASSUME NEW l \in Leases PROVE HandleOK(l, handle[l])
  BY DEF UnifiedInit, Init, EmptyLease, ClosedHandle, HandleOK, HoldsLease,
         LeaseFollowsHandle, BackendKnown, FastReadsPresent, NoWayToGdal
<1> QED BY <1>1, <1>2, <1>3 DEF UnifiedInv

-----------------------------------------------------------------------------
(* A local step keeps the invariant if the strand's new handle fits the
   coordinator's state. *)
LEMMA LocalKeeps ==
  ASSUME UnifiedInv, NEW l \in Leases, NEW h \in Handle,
         HandleOK(l, h), Local(l, h)
  PROVE  UnifiedInv'
<1>1. /\ handle' = [handle EXCEPT ![l] = h]
      /\ handle \in [Leases -> Handle]
      /\ UNCHANGED <<vars, world>>
  BY DEF Local, UnifiedInv
<1>2. UNCHANGED <<sources, lease, disk>>
  BY <1>1 DEF vars, world
<1>3. WriterInv'
  <2>1. IndInv'
    BY <1>1, Inductive DEF UnifiedInv, WriterInv
  <2> QED
    BY <1>1, <2>1
    DEF UnifiedInv, WriterInv, vars, world, WorldTypeOK, IdsOwned,
        DatasetHeld, TornWhileWritten
<1>4. handle' \in [Leases -> Handle]
  BY <1>1
<1>5. ASSUME NEW m \in Leases PROVE HandleOK(m, handle[m])'
  BY <1>1, <1>2
  DEF UnifiedInv, HandleOK, LeaseFollowsHandle, BackendKnown,
      FastReadsPresent, NoWayToGdal, HoldsLease
<1> QED BY <1>3, <1>4, <1>5 DEF UnifiedInv

(* So does a step of the strand on the coordinator. *)
LEMMA LeaseStepKeeps ==
  ASSUME UnifiedInv, NEW l \in Leases, NEW h \in Handle,
         ReaderStep(l), UNCHANGED world,
         handle' = [handle EXCEPT ![l] = h],
         \A m \in Leases \ {l} : lease'[m] = lease[m],
         HandleOK(l, h)'
  PROVE  UnifiedInv'
<1>1. WriterInv'
  BY ReaderKeepsInv DEF UnifiedInv
<1>2. handle \in [Leases -> Handle] /\ handle' \in [Leases -> Handle]
        /\ handle'[l] = h
  BY DEF UnifiedInv
<1>3. ASSUME NEW m \in Leases, m # l PROVE HandleOK(m, handle[m])'
  BY <1>2, <1>3
  DEF UnifiedInv, HandleOK, LeaseFollowsHandle, BackendKnown,
      FastReadsPresent, NoWayToGdal, HoldsLease, world
<1>4. HandleOK(l, handle[l])'
  BY <1>2
<1> QED BY <1>1, <1>2, <1>3, <1>4 DEF UnifiedInv

(* A step of a Writer: the files change only when no strand holds a lease. *)
LEMMA WriterStepKeeps ==
  ASSUME UnifiedInv, NEW w \in Writers, WriterStep(w), UNCHANGED handle
  PROVE  UnifiedInv'
<1>1. WriterInv /\ WriterInv'
  BY WriterKeepsInv DEF UnifiedInv
<1>2. SeenFromReaders(w)
  BY <1>1, WriterSeen
<1>3. ASSUME NEW l \in Leases PROVE HandleOK(l, handle[l])'
  <2>a. HandleOK(l, handle[l])
    BY DEF UnifiedInv
  <2>1. LeaseFollowsHandle(l, handle[l])' /\ BackendKnown(handle[l])'
          /\ NoWayToGdal(handle[l])'
    BY <1>2, <2>a
    DEF SeenFromReaders, HandleOK, LeaseFollowsHandle, BackendKnown,
        NoWayToGdal, HoldsLease
  <2>2. FastReadsPresent(handle[l])'
    <3> SUFFICES ASSUME handle[l].at = "cursor", handle[l].backend = "FastGdb"
                 PROVE  disk' = disk
      BY <2>a DEF HandleOK, FastReadsPresent
    <3>1. lease[l].counted /\ lease[l].path = gdb_path
      BY <2>a DEF HandleOK, LeaseFollowsHandle, HoldsLease
    <3> QED BY <1>1, <1>2, <3>1, LeasedSource DEF SeenFromReaders
  <2> QED BY <2>1, <2>2 DEF HandleOK
<1> QED BY <1>1, <1>3 DEF UnifiedInv

-----------------------------------------------------------------------------
(* The strand takes a lease, opens a Reader and goes on to a stage that has
   one. *)
LEMMA LeasedKeeps ==
  ASSUME UnifiedInv, NEW l \in Leases, NEW h \in Handle, Leased(l, h),
         HoldsLease(h), h.at # "releasing", h.at # "cursor",
         BackendKnown(h), NoWayToGdal(h)
  PROVE  UnifiedInv'
<1>1. PICK g \in Handle : g = [h EXCEPT !.mapped = TRUE]
  BY DEF Handle
<1>2. /\ g.at = h.at /\ g.mapped /\ g.next = h.next
      /\ g.preference = h.preference /\ g.dataset_backend = h.dataset_backend
      /\ g.layer_backend = h.layer_backend /\ g.backend = h.backend
  BY <1>1 DEF Handle
<1>3. /\ TryAcquireFastReader(l, gdb_path) /\ UNCHANGED world
      /\ handle' = [handle EXCEPT ![l] = g]
  BY <1>1 DEF Leased
<1>4. /\ lease'[l].counted /\ lease'[l].path = gdb_path
      /\ \A m \in Leases \ {l} : lease'[m] = lease[m]
  BY <1>3
  DEF TryAcquireFastReader, UnifiedInv, WriterInv, IndInv, TypeOK
<1>5. HandleOK(l, g)'
  BY <1>2, <1>4
  DEF HandleOK, LeaseFollowsHandle, HoldsLease, BackendKnown,
      FastReadsPresent, NoWayToGdal
<1> QED
  BY <1>3, <1>4, <1>5, LeaseStepKeeps, SourceAssumption DEF ReaderStep

(* The Reader of a strand goes, its lease stays for one step more. *)
LEMMA DropReaderKeeps ==
  ASSUME UnifiedInv, NEW l \in Leases, NEW h \in Handle,
         NEW pc \in {"closed", "dataset", "layer", "parity"},
         DropReader(l, h, pc), lease[l].counted,
         h.dataset_backend # "None", NoWayToGdal(h),
         pc = "parity" => h.preference # "FastOnly"
  PROVE  UnifiedInv'
<1> DEFINE g == [h EXCEPT !.at = "releasing", !.next = pc, !.mapped = FALSE]
<1>1. g \in Handle
  BY DEF Handle
<1>2. lease[l].path = gdb_path
  BY DEF UnifiedInv, HandleOK, LeaseFollowsHandle
<1>3. /\ g.at = "releasing" /\ ~g.mapped /\ g.next = pc
      /\ g.preference = h.preference /\ g.dataset_backend = h.dataset_backend
      /\ g.layer_backend = h.layer_backend /\ g.backend = h.backend
  BY DEF Handle
<1>4. HandleOK(l, g)
  <2> HIDE DEF g
  <2> QED
    BY <1>2, <1>3
    DEF HandleOK, LeaseFollowsHandle, HoldsLease, BackendKnown,
        FastReadsPresent, NoWayToGdal
<1> QED BY <1>1, <1>4, LocalKeeps DEF DropReader

(* What a schema depends on is counted. *)
LEMMA SchemaType == ASSUME NEW c PROVE Schema(c) \in Nat
  BY UnifiedAssumption, FS_Subset, FS_CardinalityType DEF Schema

(* A cursor that is gone leaves only Dataset and Layer behind. *)
LEMMA NoCursorEffect ==
  ASSUME NEW h \in Handle
  PROVE  /\ NoCursor(h) \in Handle
         /\ NoCursor(h).at = h.at /\ NoCursor(h).next = h.next
         /\ NoCursor(h).mapped = h.mapped
         /\ NoCursor(h).preference = h.preference
         /\ NoCursor(h).dataset_backend = h.dataset_backend
         /\ NoCursor(h).layer_backend = h.layer_backend
         /\ NoCursor(h).backend = "None"
<1>1. NoCursor(h) \in Handle
  <2>1. /\ h.at \in {"closed", "dataset_opening", "dataset", "layer_opening",
                   "layer", "fast_opening", "parity", "gdal_opening", "cursor",
                   "releasing", "notifying"}
        /\ h.next \in {"closed", "dataset", "layer", "parity"}
        /\ h.preference \in {"Auto", "FastOnly", "GdalOnly"}
        /\ h.concurrent_read \in {"SourceBusy", "GdalUnverified"}
        /\ h.dataset_backend \in Backend /\ h.layer_backend \in Backend
        /\ h.generation \in Nat /\ h.schema \in Nat /\ h.mapped \in BOOLEAN
    BY DEF Handle
  <2>2. "None" \in Backend
    BY DEF Backend
  <2> QED BY <2>1, <2>2 DEF Handle, NoCursor
<1> QED BY <1>1 DEF NoCursor

-----------------------------------------------------------------------------
(* The lease of a call is given back, and the release notifies. *)
LEMMA GiveBackKeeps ==
  ASSUME UnifiedInv, NEW l \in Leases, ReleaseLease(l) \/ NotifyReleased(l)
  PROVE  UnifiedInv'
<1>a. handle[l] \in Handle /\ HandleOK(l, handle[l])
  BY DEF UnifiedInv
<1>b. lease \in [Leases -> FastReaderLease]
  BY DEF UnifiedInv, WriterInv, IndInv, TypeOK
<1> USE DEF HandleOK, LeaseFollowsHandle, HoldsLease, BackendKnown,
            FastReadsPresent, NoWayToGdal
<1>1. CASE ReleaseLease(l)
  <2>1. PICK h \in Handle : h = [handle[l] EXCEPT !.at = "notifying"]
    BY <1>a DEF Handle
  <2>2. /\ handle[l].at = "releasing" /\ Release(l) /\ UNCHANGED world
        /\ handle' = [handle EXCEPT ![l] = h]
    BY <1>1, <2>1 DEF ReleaseLease
  <2>3. /\ ~lease'[l].counted
        /\ \A m \in Leases \ {l} : lease'[m] = lease[m]
    BY <1>b, <2>2 DEF Release, FastReaderLease
  <2>4. HandleOK(l, h)'
    BY <1>a, <2>1, <2>2, <2>3 DEF Handle
  <2> QED BY <2>2, <2>3, <2>4, LeaseStepKeeps DEF ReaderStep
<1>2. CASE NotifyReleased(l)
  <2>1. PICK h \in Handle : h = [handle[l] EXCEPT !.at = handle[l].next]
    BY <1>a DEF Handle
  <2>2. /\ handle[l].at = "notifying" /\ NotifyAfterRelease(l)
        /\ UNCHANGED world /\ handle' = [handle EXCEPT ![l] = h]
    BY <1>2, <2>1 DEF NotifyReleased
  <2>3. lease' = lease
    BY <2>2 DEF NotifyAfterRelease
  <2>4. h.at \in {"closed", "dataset", "layer", "parity"}
          /\ h.at = handle[l].next
    BY <1>a, <2>1 DEF Handle
  <2>5. HandleOK(l, h)'
    BY <1>a, <2>1, <2>2, <2>3, <2>4 DEF Handle
  <2> QED BY <2>2, <2>3, <2>5, LeaseStepKeeps DEF ReaderStep
<1> QED BY <1>1, <1>2

(* Dataset calls. *)
LEMMA DatasetKeeps ==
  ASSUME UnifiedInv, NEW l \in Leases,
         \/ \E preference \in {"Auto", "FastOnly", "GdalOnly"},
               concurrent_read \in {"SourceBusy", "GdalUnverified"} :
              DatasetOpen(l, preference, concurrent_read)
         \/ \E ok \in BOOLEAN : DatasetOpened(l, ok)
         \/ DatasetClose(l)
  PROVE  UnifiedInv'
<1>a. handle[l] \in Handle /\ HandleOK(l, handle[l])
  BY DEF UnifiedInv
<1>b. lease \in [Leases -> FastReaderLease]
  BY DEF UnifiedInv, WriterInv, IndInv, TypeOK
<1> USE DEF HandleOK, LeaseFollowsHandle, HoldsLease, BackendKnown,
            FastReadsPresent, NoWayToGdal
<1>1. ASSUME NEW preference \in {"Auto", "FastOnly", "GdalOnly"},
             NEW concurrent_read \in {"SourceBusy", "GdalUnverified"},
             DatasetOpen(l, preference, concurrent_read)
      PROVE  UnifiedInv'
  <2>1. PICK backend \in Backend : backend = Route(preference)
    BY DEF Route, Backend
  <2>2. PICK h \in Handle :
          h = [ClosedHandle EXCEPT
                 !.at = "dataset_opening", !.preference = preference,
                 !.concurrent_read = concurrent_read,
                 !.dataset_backend = backend]
    BY ZenonT(40), ClosedHandleType DEF Handle
  <2>3. /\ h.at = "dataset_opening" /\ h.next = "closed" /\ ~h.mapped
        /\ h.preference = preference /\ h.dataset_backend = backend
        /\ h.layer_backend = "None" /\ h.backend = "None"
    BY <2>2 DEF ClosedHandle
  <2>4. /\ handle[l].at = "closed" /\ backend # "None"
        /\ IF backend = "FastGdb" THEN Leased(l, h) ELSE Local(l, h)
    BY <1>1, <2>1, <2>2 DEF DatasetOpen
  <2>5. preference = "FastOnly" => backend = "FastGdb"
    BY <2>1 DEF Route
  <2>6. CASE backend = "FastGdb"
    BY <2>3, <2>4, <2>6, LeasedKeeps
  <2>7. CASE backend # "FastGdb"
    <3>1. HandleOK(l, h)
      BY <1>a, <2>3, <2>4, <2>5, <2>7
    <3> QED BY <2>4, <2>7, <3>1, LocalKeeps
  <2> QED BY <2>6, <2>7
<1>2. ASSUME NEW ok \in BOOLEAN, DatasetOpened(l, ok) PROVE UnifiedInv'
  <2>1. PICK pc \in {"dataset", "closed"} :
          pc = IF ok THEN "dataset" ELSE "closed"
    OBVIOUS
  <2>2. CASE handle[l].dataset_backend = "FastGdb"
    <3>1. PICK generation \in Nat : generation = lease[l].generation
      BY <1>b DEF FastReaderLease
    <3>2. PICK h \in Handle : h = [handle[l] EXCEPT !.generation = generation]
      BY <1>a DEF Handle
    <3>3. handle[l].at = "dataset_opening" /\ DropReader(l, h, pc)
      BY <1>2, <2>1, <2>2, <3>1, <3>2 DEF DatasetOpened
    <3>4. /\ h.at = handle[l].at /\ h.next = handle[l].next
          /\ h.preference = handle[l].preference
          /\ h.dataset_backend = handle[l].dataset_backend
          /\ h.layer_backend = handle[l].layer_backend
          /\ h.backend = handle[l].backend
      BY <1>a, <3>2 DEF Handle
    <3> QED BY <1>a, <2>2, <3>3, <3>4, DropReaderKeeps
  <2>3. CASE handle[l].dataset_backend # "FastGdb"
    <3>1. PICK h \in Handle : h = [handle[l] EXCEPT !.at = pc]
      BY <1>a DEF Handle
    <3>2. handle[l].at = "dataset_opening" /\ Local(l, h)
      BY <1>2, <2>1, <2>3, <3>1 DEF DatasetOpened
    <3>3. HandleOK(l, h)
      BY <1>a, <2>3, <3>1, <3>2 DEF Handle
    <3> QED BY <3>2, <3>3, LocalKeeps
  <2> QED BY <2>2, <2>3
<1>3. CASE DatasetClose(l)
  <2>1. handle[l].at = "dataset" /\ Local(l, ClosedHandle)
    BY <1>3 DEF DatasetClose
  <2>2. HandleOK(l, ClosedHandle)
    BY <1>a, <2>1 DEF ClosedHandle
  <2> QED BY <2>1, <2>2, ClosedHandleType, LocalKeeps
<1> QED BY <1>1, <1>2, <1>3

(* Layer calls. *)
LEMMA LayerKeeps ==
  ASSUME UnifiedInv, NEW l \in Leases,
         \/ OpenLayer(l) \/ OpenLayerByPath(l) \/ LayerClose(l)
         \/ \E fast_capable \in BOOLEAN : FreezeSchema(l, fast_capable)
         \/ OpenLayerFails(l)
  PROVE  UnifiedInv'
<1>a. handle[l] \in Handle /\ HandleOK(l, handle[l])
  BY DEF UnifiedInv
<1> USE DEF HandleOK, LeaseFollowsHandle, HoldsLease, BackendKnown,
            FastReadsPresent, NoWayToGdal
<1>1. CASE OpenLayer(l)
  <2>1. PICK h \in Handle :
          h = [handle[l] EXCEPT !.at = "layer_opening",
                                !.layer_backend = handle[l].dataset_backend]
    BY <1>a DEF Handle
  <2>2. /\ handle[l].at = "dataset"
        /\ IF handle[l].dataset_backend = "FastGdb" THEN Leased(l, h)
                                                    ELSE Local(l, h)
    BY <1>1, <2>1 DEF OpenLayer
  <2>3. /\ h.at = "layer_opening" /\ h.next = handle[l].next
        /\ h.mapped = handle[l].mapped /\ h.preference = handle[l].preference
        /\ h.dataset_backend = handle[l].dataset_backend
        /\ h.layer_backend = handle[l].dataset_backend
        /\ h.backend = handle[l].backend
    BY <1>a, <2>1 DEF Handle
  <2>4. CASE handle[l].dataset_backend = "FastGdb"
    BY <1>a, <2>2, <2>3, <2>4, LeasedKeeps
  <2>5. CASE handle[l].dataset_backend # "FastGdb"
    <3>1. HandleOK(l, h)
      BY <1>a, <2>2, <2>3, <2>5
    <3> QED BY <2>2, <2>5, <3>1, LocalKeeps
  <2> QED BY <2>4, <2>5
<1>2. CASE OpenLayerByPath(l)
  <2>1. PICK h \in Handle :
          h = [handle[l] EXCEPT !.at = "layer_opening",
                                !.layer_backend = "GdalOpenFileGDB"]
    BY ZenonT(120), <1>a DEF Handle, Backend
  <2>2. /\ handle[l].at = "dataset" /\ handle[l].preference = "Auto"
        /\ Local(l, h)
    BY <1>2, <2>1 DEF OpenLayerByPath, MayFallBack
  <2>3. HandleOK(l, h)
    BY <1>a, <2>1, <2>2 DEF Handle
  <2> QED BY <2>2, <2>3, LocalKeeps
<1>3. CASE LayerClose(l)
  <2>1. PICK h \in Handle :
          h = [handle[l] EXCEPT !.at = "dataset", !.layer_backend = "None"]
    BY ZenonT(40), <1>a DEF Handle, Backend
  <2>2. handle[l].at = "layer" /\ Local(l, h)
    BY <1>3, <2>1 DEF LayerClose
  <2>3. HandleOK(l, h)
    BY <1>a, <2>1, <2>2 DEF Handle
  <2> QED BY <2>2, <2>3, LocalKeeps
<1>4. ASSUME NEW fast_capable \in BOOLEAN, FreezeSchema(l, fast_capable)
      PROVE  UnifiedInv'
  <2>1. PICK schema \in Nat : schema = Schema(disk)
    BY SchemaType
  <2>2. CASE handle[l].layer_backend = "GdalOpenFileGDB"
    <3>1. PICK h \in Handle :
            h = [handle[l] EXCEPT !.schema = schema, !.at = "layer"]
      BY <1>a DEF Handle
    <3>2. handle[l].at = "layer_opening" /\ Local(l, h)
      BY <1>4, <2>1, <2>2, <3>1 DEF FreezeSchema
    <3>3. HandleOK(l, h)
      BY <1>a, <2>2, <3>1, <3>2 DEF Handle
    <3> QED BY <3>2, <3>3, LocalKeeps
  <2>3. CASE handle[l].layer_backend # "GdalOpenFileGDB"
    <3>1. PICK backend \in Backend :
            backend = IF fast_capable THEN "FastGdb" ELSE "GdalOpenFileGDB"
      BY DEF Backend
    <3>2. PICK h \in Handle :
            h = [handle[l] EXCEPT !.schema = schema, !.layer_backend = backend]
      BY <1>a DEF Handle
    <3>3. /\ handle[l].at = "layer_opening"
          /\ fast_capable \/ handle[l].preference = "Auto"
          /\ DropReader(l, h, "layer")
      BY <1>4, <2>1, <2>3, <3>1, <3>2 DEF FreezeSchema, MayFallBack
    <3>4. /\ h.at = handle[l].at /\ h.next = handle[l].next
          /\ h.preference = handle[l].preference
          /\ h.dataset_backend = handle[l].dataset_backend
          /\ h.layer_backend = backend /\ h.backend = handle[l].backend
      BY <1>a, <3>2 DEF Handle
    <3>5. lease[l].counted
      BY <1>a, <2>3, <3>3 DEF Handle, Backend
    <3>6. NoWayToGdal(h) /\ h.dataset_backend # "None"
      BY <1>a, <3>1, <3>3, <3>4
    <3> QED BY <3>3, <3>5, <3>6, DropReaderKeeps
  <2> QED BY <2>2, <2>3
<1>5. CASE OpenLayerFails(l)
  <2>1. CASE handle[l].layer_backend = "FastGdb"
    <3>1. PICK h \in Handle : h = [handle[l] EXCEPT !.layer_backend = "None"]
      BY ZenonT(40), <1>a DEF Handle, Backend
    <3>2. handle[l].at = "layer_opening" /\ DropReader(l, h, "dataset")
      BY <1>5, <2>1, <3>1 DEF OpenLayerFails
    <3>3. NoWayToGdal(h) /\ h.dataset_backend # "None"
      BY <1>a, <3>1, <3>2 DEF Handle
    <3> QED BY <1>a, <2>1, <3>2, <3>3, DropReaderKeeps
  <2>2. CASE handle[l].layer_backend # "FastGdb"
    <3>1. PICK h \in Handle :
            h = [handle[l] EXCEPT !.layer_backend = "None", !.at = "dataset"]
      BY ZenonT(40), <1>a DEF Handle, Backend
    <3>2. handle[l].at = "layer_opening" /\ Local(l, h)
      BY <1>5, <2>2, <3>1 DEF OpenLayerFails
    <3>3. HandleOK(l, h)
      BY <1>a, <2>2, <3>1, <3>2 DEF Handle
    <3> QED BY <3>2, <3>3, LocalKeeps
  <2> QED BY <2>1, <2>2
<1> QED BY <1>1, <1>2, <1>3, <1>4, <1>5

(* A handle stays a handle when its cursor opens, or is to be read unverified. *)
LEMMA CursorOpenedType ==
  ASSUME NEW h \in Handle, NEW backend \in Backend, NEW schema \in Nat,
         NEW seen \in SUBSET Contents
  PROVE  [h EXCEPT !.at = "cursor", !.backend = backend,
                   !.opened_schema = schema, !.seen = seen] \in Handle
<1>1. PICK a \in Handle : a = [h EXCEPT !.at = "cursor"]
  BY DEF Handle
<1>2. PICK b \in Handle : b = [a EXCEPT !.backend = backend]
  BY DEF Handle
<1>3. PICK c \in Handle : c = [b EXCEPT !.opened_schema = schema]
  BY DEF Handle
<1>4. PICK d \in Handle : d = [c EXCEPT !.seen = seen]
  BY DEF Handle
<1> QED BY <1>1, <1>2, <1>3, <1>4 DEF Handle

LEMMA UnverifiedType ==
  ASSUME NEW h \in Handle
  PROVE  [h EXCEPT !.at = "parity", !.query = "plain",
                   !.consistency = "UnverifiedConcurrentRead"] \in Handle
<1>1. PICK a \in Handle : a = [h EXCEPT !.at = "parity"]
  BY DEF Handle
<1>2. PICK b \in Handle : b = [a EXCEPT !.query = "plain"]
  BY ZenonT(40) DEF Handle
<1>3. [b EXCEPT !.consistency = "UnverifiedConcurrentRead"] \in Handle
  BY DEF Handle, Backend, Contents
<1> QED BY <1>1, <1>2, <1>3 DEF Handle

(* A cursor opens, over a Reader or over GDAL, or does not. *)
LEMMA CursorOpenKeeps ==
  ASSUME UnifiedInv, NEW l \in Leases,
         \/ \E query \in {"plain", "unsupported", "native"} : OpenFast(l, query)
         \/ OpenBusy(l) \/ OpenGap(l) \/ OpenGdal(l)
         \/ FastCursorOpen(l) \/ FastOpeningEnds(l)
         \/ CheckParity(l) \/ ParityFails(l)
         \/ GdalCursorOpen(l) \/ GdalCursorFails(l)
  PROVE  UnifiedInv'
<1>a. handle[l] \in Handle /\ HandleOK(l, handle[l])
  BY DEF UnifiedInv
<1>t. handle[l] \in Handle
  BY DEF UnifiedInv
<1>b. PICK schema \in Nat : schema = Schema(disk)
  BY SchemaType
<1>c. disk \in Contents
  BY DEF UnifiedInv, WriterInv, WorldTypeOK
<1> USE DEF HandleOK, LeaseFollowsHandle, HoldsLease, BackendKnown,
            FastReadsPresent, NoWayToGdal
<1>1. ASSUME NEW query \in {"plain", "unsupported", "native"},
             OpenFast(l, query)
      PROVE  UnifiedInv'
  <2>1. PICK h \in Handle :
          h = [handle[l] EXCEPT !.at = "fast_opening", !.query = query]
    BY ZenonT(40), <1>t DEF Handle
  <2>2. handle[l].at = "layer" /\ Leased(l, h)
    BY <1>1, <2>1 DEF OpenFast
  <2>3. h.at = "fast_opening" /\ BackendKnown(h) /\ NoWayToGdal(h)
    BY <1>a, <2>1, <2>2 DEF Handle
  <2> QED BY <2>2, <2>3, LeasedKeeps
<1>2. CASE OpenBusy(l)
  <2>1. PICK h \in Handle :
          h = [handle[l] EXCEPT !.at = "parity", !.query = "plain",
                                !.consistency = "UnverifiedConcurrentRead"]
    BY <1>t, UnverifiedType
  <2>2. /\ handle[l].at = "layer" /\ handle[l].preference = "Auto"
        /\ Local(l, h)
    BY <1>2, <2>1 DEF OpenBusy, MayFallBack
  <2>3. HandleOK(l, h)
    BY <1>a, <2>1, <2>2 DEF Handle
  <2> QED BY <2>2, <2>3, LocalKeeps
<1>3. CASE OpenGap(l)
  <2>1. PICK h \in Handle :
          h = [handle[l] EXCEPT !.at = "parity", !.query = "gap"]
    BY ZenonT(40), <1>t DEF Handle
  <2>2. /\ handle[l].at = "layer" /\ handle[l].preference = "Auto"
        /\ Local(l, h)
    BY <1>3, <2>1 DEF OpenGap, MayFallBack
  <2>3. HandleOK(l, h)
    BY <1>a, <2>1, <2>2 DEF Handle
  <2> QED BY <2>2, <2>3, LocalKeeps
<1>4. CASE OpenGdal(l)
  <2>1. PICK h \in Handle :
          h = [handle[l] EXCEPT !.at = "gdal_opening", !.query = "plain"]
    BY ZenonT(40), <1>t DEF Handle
  <2>2. /\ handle[l].at = "layer"
        /\ handle[l].layer_backend = "GdalOpenFileGDB" /\ Local(l, h)
    BY <1>4, <2>1 DEF OpenGdal
  <2>3. HandleOK(l, h)
    BY <1>a, <2>1, <2>2 DEF Handle
  <2> QED BY <2>2, <2>3, LocalKeeps
<1>5. CASE FastCursorOpen(l)
  <2>1. PICK h \in Handle :
          h = [handle[l] EXCEPT !.at = "cursor", !.backend = "FastGdb",
                                !.opened_schema = schema, !.seen = {disk}]
    BY <1>t, <1>c, CursorOpenedType DEF Backend
  <2>2. handle[l].at = "fast_opening" /\ Local(l, h)
    BY <1>5, <1>b, <2>1 DEF FastCursorOpen
  <2>3. HandleOK(l, h)
    BY <1>a, <2>1, <2>2 DEF Handle
  <2> QED BY <2>2, <2>3, LocalKeeps
<1>6. CASE FastOpeningEnds(l)
  <2>d. PICK n \in Handle :
          /\ n = NoCursor(handle[l])
          /\ n.at = handle[l].at /\ n.next = handle[l].next
          /\ n.mapped = handle[l].mapped
          /\ n.preference = handle[l].preference
          /\ n.dataset_backend = handle[l].dataset_backend
          /\ n.layer_backend = handle[l].layer_backend
          /\ n.backend = "None"
    BY <1>a, NoCursorEffect
  <2>1. handle[l].at = "fast_opening"
    BY <1>6 DEF FastOpeningEnds
  <2>2. CASE handle[l].query = "unsupported" /\ MayFallBack(handle[l])
    <3>1. handle[l].preference = "Auto" /\ DropReader(l, handle[l], "parity")
      BY <1>6, <2>2 DEF FastOpeningEnds, MayFallBack
    <3> QED BY <1>a, <2>1, <3>1, DropReaderKeeps
  <2>3. CASE ~(handle[l].query = "unsupported" /\ MayFallBack(handle[l]))
    <3>1. DropReader(l, n, "layer")
      BY <1>6, <2>d, <2>3 DEF FastOpeningEnds
    <3>2. NoWayToGdal(n) /\ n.dataset_backend # "None"
      BY <1>a, <2>d, <2>1
    <3> QED BY <1>a, <2>1, <3>1, <3>2, DropReaderKeeps
  <2> QED BY <2>2, <2>3
<1>7. CASE CheckParity(l)
  <2>1. PICK h \in Handle : h = [handle[l] EXCEPT !.at = "gdal_opening"]
    BY <1>t DEF Handle
  <2>2. handle[l].at = "parity" /\ Local(l, h)
    BY <1>7, <2>1 DEF CheckParity
  <2>3. HandleOK(l, h)
    BY <1>a, <2>1, <2>2 DEF Handle
  <2> QED BY <2>2, <2>3, LocalKeeps
<1>8. CASE ParityFails(l) \/ GdalCursorFails(l)
  <2>d. PICK n \in Handle :
          /\ n = NoCursor(handle[l])
          /\ n.at = handle[l].at /\ n.next = handle[l].next
          /\ n.mapped = handle[l].mapped
          /\ n.preference = handle[l].preference
          /\ n.dataset_backend = handle[l].dataset_backend
          /\ n.layer_backend = handle[l].layer_backend
          /\ n.backend = "None"
    BY <1>a, NoCursorEffect
  <2>1. PICK h \in Handle : h = [n EXCEPT !.at = "layer"]
    BY DEF Handle
  <2>2. handle[l].at \in {"parity", "gdal_opening"} /\ Local(l, h)
    BY <1>8, <2>d, <2>1 DEF ParityFails, GdalCursorFails
  <2>3. HandleOK(l, h)
    BY <1>a, <2>d, <2>1, <2>2 DEF Handle
  <2> QED BY <2>2, <2>3, LocalKeeps
<1>9. CASE GdalCursorOpen(l)
  <2>1. PICK h \in Handle :
          h = [handle[l] EXCEPT !.at = "cursor", !.backend = "GdalOpenFileGDB",
                                !.opened_schema = schema, !.seen = {disk}]
    BY <1>t, <1>c, CursorOpenedType DEF Backend
  <2>2. handle[l].at = "gdal_opening" /\ Local(l, h)
    BY <1>9, <1>b, <2>1 DEF GdalCursorOpen
  <2>3. HandleOK(l, h)
    BY <1>a, <2>1, <2>2 DEF Handle
  <2> QED BY <2>2, <2>3, LocalKeeps
<1> QED BY <1>1, <1>2, <1>3, <1>4, <1>5, <1>6, <1>7, <1>8, <1>9

(* A cursor is stepped and destroyed. *)
LEMMA CursorKeeps ==
  ASSUME UnifiedInv, NEW l \in Leases,
         CursorNext(l) \/ CursorEnd(l) \/ CursorClose(l)
  PROVE  UnifiedInv'
<1>a. handle[l] \in Handle /\ HandleOK(l, handle[l])
  BY DEF UnifiedInv
<1>t. handle[l] \in Handle
  BY DEF UnifiedInv
<1>c. disk \in Contents
  BY DEF UnifiedInv, WriterInv, WorldTypeOK
<1> USE DEF HandleOK, LeaseFollowsHandle, HoldsLease, BackendKnown,
            FastReadsPresent, NoWayToGdal
<1>1. CASE CursorNext(l)
  <2>1. PICK seen \in SUBSET Contents : seen = handle[l].seen \cup {disk}
    BY <1>a, <1>c DEF Handle
  <2>2. PICK h \in Handle : h = [handle[l] EXCEPT !.seen = seen]
    BY <1>t DEF Handle
  <2>3. handle[l].at = "cursor" /\ Local(l, h)
    BY <1>1, <2>1, <2>2 DEF CursorNext
  <2>4. /\ h.at = handle[l].at /\ h.next = handle[l].next
        /\ h.mapped = handle[l].mapped /\ h.preference = handle[l].preference
        /\ h.dataset_backend = handle[l].dataset_backend
        /\ h.layer_backend = handle[l].layer_backend
        /\ h.backend = handle[l].backend /\ h.seen = seen
    BY <1>a, <2>2 DEF Handle
  <2>5. HandleOK(l, h)
    BY <1>a, <2>1, <2>3, <2>4
  <2> QED BY <2>3, <2>5, LocalKeeps
<1>2. CASE CursorEnd(l)
  <2>1. PICK h \in Handle : h = [handle[l] EXCEPT !.closed = TRUE]
    BY <1>t DEF Handle
  <2>2. handle[l].at = "cursor" /\ Local(l, h)
    BY <1>2, <2>1 DEF CursorEnd
  <2>3. HandleOK(l, h)
    BY <1>a, <2>1, <2>2 DEF Handle
  <2> QED BY <2>2, <2>3, LocalKeeps
<1>3. CASE CursorClose(l)
  <2>d. PICK n \in Handle :
          /\ n = NoCursor(handle[l])
          /\ n.at = handle[l].at /\ n.next = handle[l].next
          /\ n.mapped = handle[l].mapped
          /\ n.preference = handle[l].preference
          /\ n.dataset_backend = handle[l].dataset_backend
          /\ n.layer_backend = handle[l].layer_backend
          /\ n.backend = "None"
    BY <1>a, NoCursorEffect
  <2>1. handle[l].at = "cursor"
    BY <1>3 DEF CursorClose
  <2>2. CASE handle[l].backend = "FastGdb"
    <3>1. DropReader(l, n, "layer")
      BY <1>3, <2>d, <2>2 DEF CursorClose
    <3>2. NoWayToGdal(n) /\ n.dataset_backend # "None"
      BY <1>a, <2>d, <2>1
    <3> QED BY <1>a, <2>1, <2>2, <3>1, <3>2, DropReaderKeeps
  <2>3. CASE handle[l].backend # "FastGdb"
    <3>1. PICK h \in Handle : h = [n EXCEPT !.at = "layer"]
      BY DEF Handle
    <3>2. Local(l, h)
      BY <1>3, <2>d, <2>3, <3>1 DEF CursorClose
    <3>3. HandleOK(l, h)
      BY <1>a, <2>d, <2>1, <2>3, <3>1 DEF Handle
    <3> QED BY <3>2, <3>3, LocalKeeps
  <2> QED BY <2>2, <2>3
<1> QED BY <1>1, <1>2, <1>3

-----------------------------------------------------------------------------
LEMMA UnifiedInductive == UnifiedInv /\ [UnifiedNext]_uvars => UnifiedInv'
<1> SUFFICES ASSUME UnifiedInv, [UnifiedNext]_uvars PROVE UnifiedInv'
  OBVIOUS
<1>1. ASSUME NEW l \in Leases, CallStep(l) PROVE UnifiedInv'
  BY <1>1, GiveBackKeeps, DatasetKeeps, LayerKeeps, CursorOpenKeeps
  DEF CallStep
<1>2. ASSUME NEW l \in Leases, CallerStep(l) PROVE UnifiedInv'
  BY <1>2, DatasetKeeps, LayerKeeps, CursorOpenKeeps, CursorKeeps
  DEF CallerStep
<1>3. ASSUME NEW w \in Writers, WriterStep(w), UNCHANGED handle
      PROVE  UnifiedInv'
  BY <1>3, WriterStepKeeps
<1>4. CASE UNCHANGED uvars
  <2>1. UNCHANGED <<vars, world, handle>>
    BY <1>4 DEF uvars
  <2>2. IndInv'
    BY <2>1, Inductive DEF UnifiedInv, WriterInv
  <2> QED
    BY <2>1, <2>2
    DEF vars, world, UnifiedInv, WriterInv, WorldTypeOK, IdsOwned, DatasetHeld,
        TornWhileWritten, HandleOK, LeaseFollowsHandle, HoldsLease,
        BackendKnown, FastReadsPresent, NoWayToGdal
<1> QED BY <1>1, <1>2, <1>3, <1>4 DEF UnifiedNext

(* The inductive invariant of the facade holds in every behaviour. *)
THEOREM UnifiedInvariance == UnifiedSpec => []UnifiedInv
<1>1. UnifiedInit => UnifiedInv
  BY InitUnifiedInv
<1>2. UnifiedInv /\ [UnifiedNext]_uvars => UnifiedInv'
  BY UnifiedInductive
<1> QED BY <1>1, <1>2, PTL DEF UnifiedSpec

(* Every variable of the facade, its coordinator and its source keeps its
   type. *)
THEOREM UnifiedTypeCorrect == UnifiedSpec => []UnifiedTypeOK
<1>1. UnifiedInv => UnifiedTypeOK
  BY DEF UnifiedInv, WriterInv, IndInv, UnifiedTypeOK
<1> QED BY <1>1, UnifiedInvariance, PTL

(* No Reader of a Dataset, a Layer or a cursor has the source mapped while an
   update Dataset is open. *)
THEOREM ReaderExclusion == UnifiedSpec => []ReaderExcludesUpdate
<1>1. UnifiedInv => ReaderExcludesUpdate
  <2> SUFFICES ASSUME UnifiedInv, NEW w \in Writers, update_dataset[w] # "none",
                      NEW l \in Leases
               PROVE  ~handle[l].mapped
    BY DEF ReaderExcludesUpdate
  <2>1. Holders(gdb_path) = {}
    BY UpdateHoldsSource DEF UnifiedInv
  <2>2. LeaseFollowsHandle(l, handle[l])
    BY DEF UnifiedInv, HandleOK
  <2> QED BY <2>1, <2>2 DEF LeaseFollowsHandle, Holders
<1> QED BY <1>1, UnifiedInvariance, PTL

(* All a fast cursor has read is the version that is there now, whole, however
   long the cursor is kept. *)
THEOREM FastCursorSnapshot == UnifiedSpec => []FastCursorIsOneVersion
<1>1. UnifiedInv => FastCursorIsOneVersion
  <2> SUFFICES ASSUME UnifiedInv, NEW l \in Leases, handle[l].at = "cursor",
                      handle[l].backend = "FastGdb", NEW c \in handle[l].seen
               PROVE  c = disk /\ ~c.torn
    BY DEF FastCursorIsOneVersion
  <2>1. LeaseFollowsHandle(l, handle[l]) /\ FastReadsPresent(handle[l])
    BY DEF UnifiedInv, HandleOK
  <2>2. c = disk
    BY <2>1 DEF FastReadsPresent
  <2>3. lease[l].counted /\ lease[l].path = gdb_path
    BY <2>1 DEF LeaseFollowsHandle, HoldsLease
  <2> QED BY <2>2, <2>3, LeasedSource DEF UnifiedInv
<1> QED BY <1>1, UnifiedInvariance, PTL

(* Between calls only an open fast cursor has a lease or a Reader. *)
THEOREM OnlyCursorsHold == UnifiedSpec => []OnlyFastCursorsHold
<1>1. UnifiedInv => OnlyFastCursorsHold
  BY DEF UnifiedInv, HandleOK, LeaseFollowsHandle, HoldsLease,
         OnlyFastCursorsHold
<1> QED BY <1>1, UnifiedInvariance, PTL

(* A FastOnly strand never comes to read through GDAL. *)
THEOREM FastOnlyKept == UnifiedSpec => []FastOnlyStaysFast
<1>1. UnifiedInv => FastOnlyStaysFast
  BY DEF UnifiedInv, HandleOK, NoWayToGdal, FastOnlyStaysFast
<1> QED BY <1>1, UnifiedInvariance, PTL

-----------------------------------------------------------------------------
(* A step of the facade is a step of the coordinator, or none of its. *)
LEMMA UnifiedStepCoordinates ==
  UnifiedInv /\ [UnifiedNext]_uvars => [Next]_vars
<1> SUFFICES ASSUME UnifiedInv, [UnifiedNext]_uvars PROVE [Next]_vars
  OBVIOUS
<1> USE DEF Next
<1>1. ASSUME NEW l \in Leases, CallStep(l) PROVE [Next]_vars
  BY <1>1
  DEF CallStep, ReleaseLease, NotifyReleased, DatasetOpened, FreezeSchema,
      OpenLayerFails, FastCursorOpen, FastOpeningEnds, CheckParity,
      ParityFails, GdalCursorOpen, GdalCursorFails, DropReader, Local,
      ReaderStep
<1>2. ASSUME NEW l \in Leases, CallerStep(l) PROVE [Next]_vars
  BY <1>2, SourceAssumption
  DEF CallerStep, DatasetOpen, DatasetClose, OpenLayer, OpenLayerByPath,
      LayerClose, OpenFast, OpenBusy, OpenGap, OpenGdal, CursorNext,
      CursorEnd, CursorClose, DropReader, Leased, Local, ReaderStep
<1>3. ASSUME NEW w \in Writers, WriterStep(w) PROVE [Next]_vars
  BY <1>3, WriterCoordinates DEF UnifiedInv
<1>4. CASE UNCHANGED uvars
  BY <1>4 DEF uvars
<1> QED BY <1>1, <1>2, <1>3, <1>4 DEF UnifiedNext

(* The facade with its Writers uses the coordinator as the coordinator allows:
   everything proved of it holds beside the facade. *)
THEOREM UnifiedCoordinates == UnifiedSpec => Spec
<1>1. UnifiedInit => Init
  BY DEF UnifiedInit
<1>2. UnifiedInv /\ [UnifiedNext]_uvars => [Next]_vars
  BY UnifiedStepCoordinates
<1>3. []UnifiedInv /\ [][UnifiedNext]_uvars => [][Next]_vars
  BY <1>2, PTL
<1> QED BY <1>1, <1>3, UnifiedInvariance, PTL DEF UnifiedSpec, Spec
=============================================================================
