----------------------------- MODULE TableReads -----------------------------
(***************************************************************************)
(* The scans of GdbTableParser over one table file: sequential_scan,       *)
(* scan_field_candidates, scan_geometry_blobs, scan_geometry_candidates    *)
(* and parse_records, with the three ways in which a file's bytes are      *)
(* reached: a mapping of the whole file, a window that slides over it, and *)
(* bounded batches that are read ahead by other threads.                   *)
(*                                                                         *)
(* A table has a slot for every FID, with the offset its .gdbtablx gives   *)
(* and what lies there. Nothing is assumed of the offsets: a slot may be   *)
(* free, may point at or past the end of the file, may leave no room for   *)
(* the size of its row, or may hold a size that leads past the end, and    *)
(* rows may lie in any order. Offsets count in bytes; the size in front of *)
(* a row takes PrefixBytes of them, and a batch reads BatchBytes.          *)
(***************************************************************************)
EXTENDS RowLayout, TLC

CONSTANTS
    Tables,        \* the tables to read
    PrefixBytes,   \* 4 in the code
    BatchBytes,    \* FAST_GDB_WINDOWS_BATCH_MB, FAST_GDB_WINDOWS_SPARSE_WINDOW_MB
    Depths         \* FAST_GDB_WINDOWS_ASYNC_DEPTH: how far to read ahead, 1 to 8

ASSUME ReadsAssumption ==
    /\ PrefixBytes \in Nat \ {0}
    /\ BatchBytes \in Nat /\ BatchBytes >= PrefixBytes
    /\ Depths \subseteq Nat \ {0} /\ Depths # {}
    /\ \A t \in Tables :
          /\ t.file_size \in Nat
          /\ Len(t.slots) \in Nat /\ DOMAIN t.slots = 1 .. Len(t.slots)
          /\ \A fid \in DOMAIN t.slots :
                t.slots[fid].offset \in Nat /\ t.slots[fid].size \in Nat

\* The bytes of a row may be anything. The format knows one geometry at most;
\* the parser takes the first field of that type and asks for no other.
ASSUME TablesAssumption ==
    \A t \in Tables :
        /\ Len(t.fields) \in Nat /\ DOMAIN t.fields = 1 .. Len(t.fields)
        /\ \A i, j \in DOMAIN t.fields :
              t.fields[i].type = "Geometry" /\ t.fields[j].type = "Geometry" => i = j
        /\ \A fid \in DOMAIN t.slots : t.slots[fid].bytes \in Seq(Byte)

\* Rows that were written and not damaged since lie in the file, as a Writer
\* leaves them.
ASSUME WrittenAssumption ==
    \A t \in Tables : \A fid \in DOMAIN t.slots :
        LET slot == t.slots[fid]
        IN  slot.values # <<>> =>
              /\ slot.offset # 0 /\ slot.offset + PrefixBytes + slot.size <= t.file_size
              /\ IsRowOf(t.fields, slot.values, slot.bytes)

VARIABLES
    table,     \* the open table: its fields, its slots and the size of its file
    access,    \* "mapped", "windowed" or "batched"
    op,        \* the scan that is running, or "none", or the one that ended
    asked,     \* the rows it was asked for
    depth,     \* requested_depth: batches read ahead, 1 for none
    todo,      \* those it has still to visit, in the order it visits them
    refs,      \* the array of references sequential_scan fills
    window,    \* the part of the file the sliding map shows
    current,   \* the batch being put together
    ready,     \* the batch being handed over
    pending,   \* the batches being read ahead
    unlaunched,\* a batch could not be handed to another thread
    emitted,   \* what the callback has been given and has accepted
    seen,      \* what the callback has been given
    outcome,   \* how the loop ended: "running", "complete", "stopped", "failed"
    result     \* what the scan returned

vars == <<table, access, op, asked, depth, todo, refs, window, current, ready, pending,
          unlaunched, emitted, seen, outcome, result>>

----------------------------------------------------------------------------
(* The file.                                                               *)

\* A slot: the offset of the row, 0 for none, the size in front of it, its
\* bytes, and the values that were written into it, none when it is damaged.
RowSlot(offset, size, bytes, values) ==
    [offset |-> offset, size |-> size, bytes |-> bytes, values |-> values]

Fids == DOMAIN table.slots
file_size == table.file_size
feature_offset(fid) == table.slots[fid].offset
row_size(fid) == table.slots[fid].size
Bytes(fid) == table.slots[fid].bytes
Implicit(fid) == fid       \* fid + 1 in the code, which counts from 0

has_record_prefix(offset) ==
    offset <= file_size /\ file_size - offset >= PrefixBytes
valid_record_size(offset, size) ==
    has_record_prefix(offset) /\ size <= file_size - offset - PrefixBytes

ValidRow(fid) == valid_record_size(feature_offset(fid), row_size(fid))
Skipped(fid) == feature_offset(fid) = 0 \/ feature_offset(fid) >= file_size

----------------------------------------------------------------------------
(* Batches.                                                                *)

NoBatch == [offset |-> 0, size |-> 0, rows |-> <<>>]

row_prefix_fits(batch, offset) ==
    /\ batch.rows # <<>>
    /\ offset >= batch.offset
    /\ offset - batch.offset <= batch.size
    /\ batch.size - (offset - batch.offset) >= PrefixBytes

start_batch(offset) ==
    [offset |-> offset, size |-> Min({BatchBytes, file_size - offset}),
     rows |-> <<>>]

AddRow(batch, fid) == [batch EXCEPT !.rows = Append(@, fid)]

\* The row lies in the bytes of the batch; if not it is read on its own.
InBatch(batch, fid) ==
    feature_offset(fid) - batch.offset + PrefixBytes + row_size(fid) <= batch.size

Batch == [offset : Nat, size : Nat, rows : Seq(Fids)]

\* What was delivered: rows of the table, each with a view of it.
Delivery(fids, rows) ==
    rows \in Seq(Range(rows)) /\ \A row \in Range(rows) : row.fid \in fids

Types ==
    /\ table \in Tables /\ unlaunched \in BOOLEAN /\ depth \in Nat
    /\ asked \subseteq Fids /\ todo \in Seq(Fids)
    /\ Delivery(Fids, emitted) /\ Delivery(Fids, seen)
    /\ current \in Batch /\ ready \in Batch /\ pending \in Seq(Batch)

Init ==
    /\ table \in Tables
    /\ access \in {"mapped", "windowed", "batched"}
    /\ op = "none" /\ outcome = "idle" /\ result = 0
    /\ depth = 1
    /\ todo = <<>> /\ current = NoBatch /\ ready = NoBatch /\ pending = <<>>
    /\ refs = [i \in DOMAIN table.fields |-> BlankRef(0)]
    /\ window = [offset |-> 0, size |-> 0]
    /\ emitted = <<>> /\ seen = <<>> /\ asked = {} /\ unlaunched = FALSE

AllFids == [i \in 1 .. Len(table.slots) |-> i]

\* Candidates in the order of their offsets, ties by FID.
Physical(fids) ==
    CHOOSE s \in [1 .. Cardinality(fids) -> fids] :
        \A i, j \in DOMAIN s : i < j =>
            \/ feature_offset(s[i]) < feature_offset(s[j])
            \/ feature_offset(s[i]) = feature_offset(s[j]) /\ s[i] < s[j]

\* Only a scan of geometries in batches reads ahead.
async_depth(name) ==
    IF name \in {"dense", "sparse"} /\ access = "batched" THEN Depths ELSE {1}

Start(name, rows) ==
    /\ outcome = "idle"
    /\ op' = name /\ todo' = rows /\ outcome' = "running"
    /\ asked' = {rows[i] : i \in DOMAIN rows}
    /\ depth' \in async_depth(name)
    /\ UNCHANGED <<table, access, refs, window, current, ready, pending,
                   unlaunched, emitted, seen, result>>

\* A scan that gives up before it visits a row.
Refuse(name) ==
    /\ outcome = "idle"
    /\ op' = name /\ outcome' = "failed" /\ result' = 0
    /\ UNCHANGED <<table, access, asked, depth, todo, refs, window, current, ready,
                   pending, unlaunched, emitted, seen>>

----------------------------------------------------------------------------
(* What a callback is given and what it answers.                           *)

Row(fid, view) == [fid |-> fid, view |-> view]

\* The callback gets the row and goes on, or gets it and stops the scan.
Accept(row) == seen' = Append(seen, row) /\ emitted' = Append(emitted, row)
Stop(row) == seen' = Append(seen, row) /\ UNCHANGED emitted

Ends(how, returned) == outcome' = how /\ result' = returned /\ todo' = <<>>

GeometryView(fid) == locate_geometry(table.fields, Bytes(fid))

----------------------------------------------------------------------------
(* sequential_scan.                                                        *)

Sequential == op = "sequential" /\ outcome = "running"
Unbatched == UNCHANGED <<table, access, op, asked, depth, window, current, ready,
                         pending, unlaunched>>

StartSequential == Start("sequential", AllFids)

SequentialSkip ==
    /\ Sequential /\ todo # <<>> /\ Skipped(Head(todo))
    /\ todo' = Tail(todo)
    /\ Unbatched /\ UNCHANGED <<refs, emitted, seen, outcome, result>>

\* A row that does not lie in the file ends the scan and what was delivered
\* before counts.
SequentialBreak ==
    /\ Sequential /\ todo # <<>> /\ ~Skipped(Head(todo)) /\ ~ValidRow(Head(todo))
    /\ Ends("complete", Len(emitted))
    /\ Unbatched /\ UNCHANGED <<refs, emitted, seen>>

SequentialRow ==
    /\ Sequential /\ todo # <<>> /\ ~Skipped(Head(todo)) /\ ValidRow(Head(todo))
    /\ LET fid == Head(todo)
           filled == SequentialRefs(table.fields, Bytes(fid), Implicit(fid), refs)
       IN  /\ refs' = filled
           /\ \/ /\ Accept(Row(fid, filled))
                 /\ todo' = Tail(todo) /\ UNCHANGED <<outcome, result>>
              \/ /\ Stop(Row(fid, filled)) /\ Ends("stopped", Len(emitted))
    /\ Unbatched

\* Without a mapping each row is read into a buffer, which may fail.
SequentialReadFails ==
    /\ Sequential /\ todo # <<>> /\ ~Skipped(Head(todo)) /\ access # "mapped"
    /\ Ends("complete", Len(emitted))
    /\ Unbatched /\ UNCHANGED <<refs, emitted, seen>>

SequentialEnds ==
    /\ Sequential /\ todo = <<>>
    /\ Ends("complete", Len(emitted))
    /\ Unbatched /\ UNCHANGED <<refs, emitted, seen>>

----------------------------------------------------------------------------
(* scan_field_candidates.                                                  *)

Candidates == {c \in SUBSET Fids : c # {}}
Fetchable(fid) == feature_offset(fid) # 0 /\ has_record_prefix(feature_offset(fid))

\* One bad offset among the candidates and nothing is visited.
StartFields ==
    \E candidates \in Candidates :
        IF \A fid \in candidates : Fetchable(fid)
        THEN Start("fields", Physical(candidates))
        ELSE Refuse("fields")

FieldScan == op = "fields" /\ outcome = "running"

\* A size that leads past the end returns 0, whatever was delivered before;
\* so does a read that fails.
FieldScanFails ==
    /\ FieldScan /\ todo # <<>>
    /\ ~ValidRow(Head(todo)) \/ access # "mapped"
    /\ Ends("failed", 0)
    /\ Unbatched /\ UNCHANGED <<refs, emitted, seen>>

FieldScanRow ==
    /\ FieldScan /\ todo # <<>> /\ ValidRow(Head(todo))
    /\ LET fid == Head(todo)
           parsed == parse_row_refs(table.fields, Bytes(fid), Implicit(fid))
       IN  \/ /\ parsed.ok /\ Accept(Row(fid, parsed.refs))
              /\ todo' = Tail(todo) /\ UNCHANGED <<outcome, result>>
           \/ /\ parsed.ok /\ Stop(Row(fid, parsed.refs))
              /\ Ends("stopped", Len(emitted))
           \/ /\ ~parsed.ok /\ Ends("complete", Len(emitted))
              /\ UNCHANGED <<emitted, seen>>
    /\ Unbatched /\ UNCHANGED refs

FieldScanEnds ==
    /\ FieldScan /\ todo = <<>>
    /\ Ends("complete", Len(emitted))
    /\ Unbatched /\ UNCHANGED <<refs, emitted, seen>>

----------------------------------------------------------------------------
(* scan_geometry_blobs and scan_geometry_candidates through a mapping or a *)
(* window.                                                                 *)

GeometryScan == op \in {"dense", "sparse"} /\ outcome = "running"

StartDense == GeometryField(table.fields) # 0 /\ Start("dense", AllFids)

\* The candidate scan is not used over a mapping: it returns 0 at once.
StartSparse ==
    /\ GeometryField(table.fields) # 0
    /\ \E candidates \in Candidates :
          IF access # "mapped" /\ \A fid \in candidates : Fetchable(fid)
          THEN Start("sparse", Physical(candidates))
          ELSE Refuse("sparse")

Viewed == GeometryScan /\ access # "batched" /\ todo # <<>>
Passed(fid) == op = "dense" /\ Skipped(fid)

ViewSkip ==
    /\ Viewed /\ Passed(Head(todo))
    /\ todo' = Tail(todo)
    /\ Unbatched /\ UNCHANGED <<refs, emitted, seen, outcome, result>>

\* FastGdbSlidingMap::map keeps its view when the range lies in it and moves
\* it to the range otherwise; the window is preferably BatchBytes long.
Shows(view, offset, size) ==
    view.offset <= offset /\ offset + size <= view.offset + view.size

Moved(view, offset, size) ==
    IF Shows(view, offset, size) THEN view
    ELSE [offset |-> offset,
          size |-> Min({file_size - offset, Max({size, BatchBytes})})]

ViewRow ==
    /\ Viewed /\ ~Passed(Head(todo)) /\ ValidRow(Head(todo))
    /\ LET fid == Head(todo)
           offset == feature_offset(fid)
           sized == Moved(window, offset, PrefixBytes)
           row == Row(fid, GeometryView(fid))
       IN  /\ window' = IF access = "mapped" THEN window
                        ELSE IF row_size(fid) = 0 THEN sized
                        ELSE Moved(sized, offset + PrefixBytes, row_size(fid))
           /\ \/ /\ Accept(row) /\ todo' = Tail(todo) /\ UNCHANGED <<outcome, result>>
              \/ /\ Stop(row) /\ Ends("stopped", Len(emitted))
    /\ UNCHANGED <<table, access, op, asked, depth, refs, current, ready, pending,
                   unlaunched>>

\* No room for the size, a size that leads past the end, or a view that the
\* system refuses: 0, whatever was delivered before.
ViewFails ==
    /\ Viewed /\ ~Passed(Head(todo))
    /\ ~ValidRow(Head(todo)) \/ access = "windowed"
    /\ Ends("failed", 0)
    /\ Unbatched /\ UNCHANGED <<refs, emitted, seen>>

ViewEnds ==
    /\ GeometryScan /\ access # "batched" /\ todo = <<>>
    /\ Ends("complete", Len(emitted))
    /\ Unbatched /\ UNCHANGED <<refs, emitted, seen>>

----------------------------------------------------------------------------
(* The same scans in batches. Rows are gathered until the size of the next *)
(* one no longer lies in the batch; a batch is then read at once, or read  *)
(* ahead by another thread and processed when it is its turn.              *)

Batched == GeometryScan /\ access = "batched"
Same == UNCHANGED <<table, access, op, asked, depth, refs, window>>

\* Fault: the row that did not fit the batch is not in the next one either.
GatherRowLosesOne ==
    /\ Batched /\ ready = NoBatch /\ Len(pending) < depth
    /\ todo # <<>> /\ ~Passed(Head(todo))
    /\ LET fid == Head(todo)
           offset == feature_offset(fid)
       IN  /\ has_record_prefix(offset)
           /\ IF row_prefix_fits(current, offset) \/ current = NoBatch
              THEN /\ current' = AddRow(IF current = NoBatch THEN start_batch(offset)
                                        ELSE current, fid)
                   /\ UNCHANGED ready
              ELSE ready' = current /\ current' = NoBatch
    /\ todo' = Tail(todo)
    /\ Same /\ UNCHANGED <<pending, unlaunched, emitted, seen, outcome, result>>

GatherRow ==
    /\ Batched /\ ready = NoBatch /\ Len(pending) < depth
    /\ todo # <<>> /\ ~Passed(Head(todo))
    /\ LET fid == Head(todo)
           offset == feature_offset(fid)
       IN  /\ has_record_prefix(offset)
           /\ IF row_prefix_fits(current, offset)
              THEN current' = AddRow(current, fid) /\ UNCHANGED ready
              ELSE /\ ready' = current
                   /\ current' = AddRow(start_batch(offset), fid)
    /\ todo' = Tail(todo)
    /\ Same /\ UNCHANGED <<pending, unlaunched, emitted, seen, outcome, result>>

GatherSkip ==
    /\ Batched /\ ready = NoBatch /\ Len(pending) < depth
    /\ todo # <<>> /\ Passed(Head(todo))
    /\ todo' = Tail(todo)
    /\ Same /\ UNCHANGED <<current, ready, pending, unlaunched, emitted, seen,
                           outcome, result>>

\* What was read ahead is waited for and dropped.
EndBatches(how, returned) ==
    /\ Ends(how, returned)
    /\ current' = NoBatch /\ ready' = NoBatch /\ pending' = <<>>

GatherFails ==
    /\ Batched /\ ready = NoBatch /\ Len(pending) < depth
    /\ todo # <<>> /\ ~Passed(Head(todo))
    /\ ~has_record_prefix(feature_offset(Head(todo)))
    /\ EndBatches("failed", 0)
    /\ Same /\ UNCHANGED <<unlaunched, emitted, seen>>

GatherEnds ==
    /\ Batched /\ ready = NoBatch /\ Len(pending) < depth
    /\ todo = <<>> /\ current # NoBatch
    /\ ready' = current /\ current' = NoBatch
    /\ Same /\ UNCHANGED <<todo, pending, unlaunched, emitted, seen, outcome, result>>

Draining == todo = <<>> /\ current = NoBatch

\* A callback that stops a scan of candidates makes it fail; one that stops a
\* dense scan does so only when the last batch is being processed.
ReturnedOnStop(count) == IF op = "sparse" \/ Draining THEN 0 ELSE count

\* process_batch goes through the rows of a batch that has been read. It ends
\* at a size that leads past the end, at a row that has to be read on its own
\* and cannot be, or where the callback says so.
ProcessBatch(batch, left) ==
    LET row(k) == Row(batch.rows[k], GeometryView(batch.rows[k]))
        First(n) == [k \in 1 .. n |-> row(k)]
        last == Len(batch.rows)
    IN  \E n \in 0 .. last :
          /\ \A k \in 1 .. n : ValidRow(batch.rows[k])
          /\ emitted' = emitted \o First(n)
          /\ \/ /\ n = last
                /\ seen' = seen \o First(n)
                /\ ready' = NoBatch /\ pending' = left
                /\ UNCHANGED <<todo, current, outcome, result>>
             \/ /\ n < last
                /\ \/ ~ValidRow(batch.rows[n + 1])
                   \/ ~InBatch(batch, batch.rows[n + 1])
                /\ seen' = seen \o First(n)
                /\ EndBatches("failed", 0)
             \/ /\ n < last /\ ValidRow(batch.rows[n + 1])
                /\ seen' = seen \o First(n + 1)
                /\ EndBatches("stopped", ReturnedOnStop(Len(emitted) + n))

\* The batch cannot be read, neither ahead nor at once.
BatchReadFails ==
    /\ EndBatches("failed", 0)
    /\ UNCHANGED <<emitted, seen>>

ReadNow ==
    /\ Batched /\ ready # NoBatch /\ depth = 1
    /\ ProcessBatch(ready, pending) \/ BatchReadFails
    /\ Same /\ UNCHANGED unlaunched

ReadAhead ==
    /\ Batched /\ ready # NoBatch /\ depth > 1
    /\ pending' = Append(pending, ready) /\ ready' = NoBatch
    /\ Same
    /\ UNCHANGED <<todo, current, unlaunched, emitted, seen, outcome, result>>

\* No thread for the read: it is read and processed here, before the batches
\* that other threads are still reading.
LaunchFails ==
    /\ Batched /\ ready # NoBatch /\ depth > 1
    /\ unlaunched' = TRUE
    /\ ProcessBatch(ready, pending) \/ BatchReadFails
    /\ Same

\* Fault: the batch read ahead last is processed first.
ConsumeBack ==
    /\ Batched /\ ready = NoBatch /\ pending # <<>>
    /\ Len(pending) >= depth \/ Draining
    /\ ProcessBatch(pending[Len(pending)], Front(pending)) \/ BatchReadFails
    /\ Same /\ UNCHANGED unlaunched

ConsumeFront ==
    /\ Batched /\ ready = NoBatch /\ pending # <<>>
    /\ Len(pending) >= depth \/ Draining
    /\ ProcessBatch(Head(pending), Tail(pending)) \/ BatchReadFails
    /\ Same /\ UNCHANGED unlaunched

BatchesEnd ==
    /\ Batched /\ Draining /\ ready = NoBatch /\ pending = <<>>
    /\ EndBatches("complete", Len(emitted))
    /\ Same /\ UNCHANGED <<unlaunched, emitted, seen>>

----------------------------------------------------------------------------
(* parse_records materialises every row that has an offset, or fails.      *)

StartRecords == Start("records", AllFids)

Records == op = "records" /\ outcome = "running"
Record(fid) ==
    IF Fetchable(fid) /\ ValidRow(fid)
    THEN parse_record_without_geometry(table.fields, Bytes(fid), Implicit(fid))
    ELSE NoRecord

RecordsRow ==
    /\ Records /\ todo # <<>>
    /\ LET fid == Head(todo)
       IN  \/ /\ feature_offset(fid) = 0
              /\ todo' = Tail(todo) /\ UNCHANGED <<emitted, seen, outcome, result>>
           \/ /\ feature_offset(fid) # 0 /\ Record(fid).ok
              /\ Accept(Row(fid, Record(fid).slots))
              /\ todo' = Tail(todo) /\ UNCHANGED <<outcome, result>>
           \/ /\ feature_offset(fid) # 0 /\ (~Record(fid).ok \/ access # "mapped")
              /\ Ends("failed", 0) /\ UNCHANGED <<emitted, seen>>
    /\ Unbatched /\ UNCHANGED refs

RecordsEnd ==
    /\ Records /\ todo = <<>>
    /\ Ends("complete", Len(emitted))
    /\ Unbatched /\ UNCHANGED <<refs, emitted, seen>>

Done == outcome \in {"complete", "stopped", "failed"} /\ UNCHANGED vars

Next ==
    \/ StartSequential \/ SequentialSkip \/ SequentialBreak \/ SequentialRow
    \/ SequentialReadFails \/ SequentialEnds
    \/ StartFields \/ FieldScanFails \/ FieldScanRow \/ FieldScanEnds
    \/ StartDense \/ StartSparse \/ ViewSkip \/ ViewRow \/ ViewFails \/ ViewEnds
    \/ GatherRow \/ GatherSkip \/ GatherFails \/ GatherEnds
    \/ ReadNow \/ ReadAhead \/ LaunchFails \/ ConsumeFront \/ BatchesEnd
    \/ StartRecords \/ RecordsRow \/ RecordsEnd \/ Done

Spec == Init /\ [][Next]_vars

----------------------------------------------------------------------------
(* Properties.                                                             *)

Content(type, ref) ==
    CASE ref.is_null -> NullSlot
      [] ~ref.is_null /\ type = "ObjectId" -> Slot(<<ref.implicit>>)
      [] OTHER -> Slot(ref.bytes)

Contents(view) ==
    [i \in DOMAIN table.fields |-> Content(table.fields[i].type, view[i])]

\* What a reader must find in a row that was written and not damaged since:
\* fields added later are null, and a raster is never read.
Written(fid) == table.slots[fid].values # <<>>

Expected(fid) ==
    [i \in DOMAIN table.fields |->
        CASE table.fields[i].type = "ObjectId" -> Slot(<<Implicit(fid)>>)
          [] table.fields[i].type = "Raster" -> NullSlot
          [] OTHER -> IF i > Len(table.slots[fid].values) THEN NullSlot
                      ELSE table.slots[fid].values[i]]

Geometry == GeometryField(table.fields)
GeometryOf(slot) == [is_null |-> slot.null, bytes |-> slot.value]
Feature(fid) ==
    IF Fetchable(fid) /\ ValidRow(fid)
    THEN read_feature_by_fid(table.fields, Bytes(fid), Implicit(fid),
                             DOMAIN table.fields)
    ELSE NoRecord

\* A row written under the table's schema, or under an earlier one that had
\* fewer fields and as long a bitmap, is read back as it was written by every
\* scan and every single read: no other layout is taken for its own.
WrittenRowsReadBack ==
    /\ seen # <<>> =>
          LET k == Len(seen)
              fid == seen[k].fid
          IN  (Written(fid) /\ Bytes(fid) # <<>>) =>
                CASE op \in {"sequential", "fields"} ->
                        Contents(seen[k].view) = Expected(fid)
                  [] op \in {"dense", "sparse"} ->
                        seen[k].view = GeometryOf(Expected(fid)[Geometry])
                  [] OTHER -> TRUE
    /\ outcome = "idle" => \A fid \in {f \in Fids : Written(f)} :
          /\ Record(fid).ok
          /\ \A i \in DOMAIN table.fields \ {Geometry} :
                Record(fid).slots[i] = Expected(fid)[i]

\* Every layout that fits the row best reads it in the same way.
Unambiguous(fid) ==
    LET layouts == Layouts(table.fields, Bytes(fid), 0)
        among == Accepted(Bytes(fid), layouts)
        furthest == Max({layouts[k].pos : k \in among})
        best == {layouts[k].refs : k \in {m \in among : layouts[m].pos = furthest}}
    IN  among # {} /\ Cardinality(best) = 1

\* Whatever the bytes of a row are: where a single read finds a record in
\* them, a scan delivers the same fields and the same geometry. A query that
\* peeks at a geometry which a scan finds is given the same one, unless two
\* readings of the row are as good.
ScansAgreeWithReads ==
    seen # <<>> =>
        LET k == Len(seen)
            fid == seen[k].fid
            peeked == peek_geometry_blob(table.fields, Bytes(fid))
        IN  /\ (/\ op \in {"dense", "sparse"} /\ ~seen[k].view.is_null
                /\ peeked.ok /\ Unambiguous(fid))
                  => peeked.bytes = seen[k].view.bytes
            /\ (Record(fid).ok /\ Bytes(fid) # <<>>) =>
                 CASE op \in {"sequential", "fields"} ->
                         \A i \in DOMAIN table.fields \ {Geometry} :
                             Contents(seen[k].view)[i] = Record(fid).slots[i]
                   [] op \in {"dense", "sparse"} /\ Feature(fid).ok ->
                         /\ seen[k].view.is_null = (Feature(fid).geometry = "Null")
                         /\ seen[k].view.bytes = Feature(fid).blob
                   [] OTHER -> TRUE

\* A scan that no callback stopped and that does not return 0 has delivered
\* each row it was asked for, once. The planner falls back to single reads on
\* a 0 only, so a row lost between two batches would be lost for good.
NonzeroMeansAll ==
    LET live == {f \in asked : ~Skipped(f)}
        Fid(k) == emitted[k].fid
    IN  (outcome = "complete" /\ result # 0 /\ op \in {"dense", "sparse", "records"})
          => /\ {Fid(k) : k \in DOMAIN emitted} = live
             /\ Len(emitted) = Cardinality(live)
             /\ result = Len(emitted)

\* Reading ahead does not reorder rows: dense rows come by FID, candidates in
\* physical order. It takes a thread that could not be started to break this.
RowsComeInOrder ==
    (op \in {"dense", "sparse"} /\ ~unlaunched) =>
        \A j, k \in DOMAIN seen : j < k =>
            IF op = "dense" THEN seen[j].fid < seen[k].fid
            ELSE feature_offset(seen[j].fid) <= feature_offset(seen[k].fid)

\* gdb_table.h:204 has sequential_scan expose the current row: no bytes it
\* hands out are those of another one.
RefsAreOfCurrentRow ==
    op = "sequential" =>
        \A k \in DOMAIN seen : \A i \in DOMAIN table.fields :
            (seen[k].view[i].data /\ ~seen[k].view[i].is_null) =>
                seen[k].view[i].implicit = Implicit(seen[k].fid)

=============================================================================
