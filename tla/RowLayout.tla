----------------------------- MODULE RowLayout -----------------------------
(***************************************************************************)
(* How the table parser splits the bytes of a row into its fields.         *)
(*                                                                         *)
(* A row starts with a bitmap that has a bit for every nullable field and  *)
(* goes on with the values of the fields that are not null.  Nothing in    *)
(* the row says how long the bitmap is, and a row that was written before  *)
(* a field was added has no bit for it.  So every reader tries layouts,    *)
(* from the longest bitmap and the most present fields down, and keeps the *)
(* one that leaves the fewest bytes over, all of them zero.                *)
(*                                                                         *)
(* A byte has BitsPerByte bits: 8 in the files, fewer in an instance, so   *)
(* that three nullable fields outgrow the first byte of the bitmap and a   *)
(* varuint outgrows its first byte.  A fixed width is one byte.            *)
(***************************************************************************)
EXTENDS Integers, FiniteSets, FiniteSetsExt, Sequences, SequencesExt

CONSTANT BitsPerByte

ASSUME BitsPerByteAssumption == BitsPerByte \in Nat /\ BitsPerByte > 1

\* A fact of arithmetic that is not among those the provers have.
ASSUME PowersAssumption == \A b \in 0 .. BitsPerByte : 2^b \in Nat \ {0}

Byte == 0 .. 2^BitsPerByte - 1

\* String, XML and Binary are "Text"; the types of a fixed width are "Fixed".
FieldTypes == {"ObjectId", "Fixed", "Text", "Geometry", "Raster"}

Field(type, nullable) == [type |-> type, nullable |-> nullable]

NullableCount(fields) ==
    Cardinality({i \in DOMAIN fields : fields[i].nullable})

GeometryField(fields) ==
    IF \E i \in DOMAIN fields : fields[i].type = "Geometry"
    THEN CHOOSE i \in DOMAIN fields : fields[i].type = "Geometry"
    ELSE 0

bitmap_bytes_for(nullable_count) ==
    (nullable_count + BitsPerByte - 1) \div BitsPerByte

BitIsSet(row, bit) ==
    (row[bit \div BitsPerByte + 1] \div 2^(bit % BitsPerByte)) % 2 = 1

----------------------------------------------------------------------------
(* Values. A reference says which row it was made for: implicit_value is   *)
(* set together with the pointer.                                          *)

FieldRef(is_null, data, bytes, implicit) ==
    [is_null |-> is_null, data |-> data, bytes |-> bytes, implicit |-> implicit]

NullRef(implicit) == FieldRef(TRUE, FALSE, <<>>, implicit)
BlankRef(implicit) == FieldRef(FALSE, FALSE, <<>>, implicit)
ValueRef(bytes, implicit) == FieldRef(FALSE, TRUE, bytes, implicit)

\* Seven bits per byte, least significant first, until a byte whose top bit
\* is clear. "cut": the row ends before that byte.
read_varuint(row, pos) ==
    LET Payload == 2^(BitsPerByte - 1)
        From[i \in pos + 1 .. Len(row) + 1] ==
            CASE i > Len(row) -> [cut |-> TRUE, next |-> Len(row), value |-> 0]
              [] i <= Len(row) /\ row[i] < Payload ->
                    [cut |-> FALSE, next |-> i, value |-> row[i]]
              [] OTHER -> [From[i + 1] EXCEPT
                             !.value = (row[i] % Payload) + Payload * @]
    IN  From[pos + 1]

Read(next, ref) == [ok |-> TRUE, cut |-> FALSE, next |-> next, ref |-> ref]
Unread(pos, cut, implicit) ==
    [ok |-> FALSE, cut |-> cut, next |-> pos, ref |-> BlankRef(implicit)]

\* The bytes that follow the size in front of them.
TakeSized(row, pos, type, implicit, size) ==
    IF size.cut \/ size.value > Len(row) - size.next THEN Unread(pos, size.cut, implicit)
    ELSE Read(size.next + size.value,
           IF type = "Raster" THEN NullRef(implicit)
           ELSE ValueRef(SubSeq(row, size.next + 1, size.next + size.value), implicit))

\* The value of a field of this type at pos, or that there is none.
ReadValue(row, pos, type, implicit) ==
    CASE type = "ObjectId" -> Read(pos, BlankRef(implicit))
      [] type = "Fixed" ->
            IF pos < Len(row)
            THEN Read(pos + 1, ValueRef(SubSeq(row, pos + 1, pos + 1), implicit))
            ELSE Unread(pos, FALSE, implicit)
      [] OTHER -> TakeSized(row, pos, type, implicit, read_varuint(row, pos))

----------------------------------------------------------------------------
(* Layouts.                                                                *)

After(a, bit, v) ==
    [ok |-> v.ok, cut |-> v.cut, pos |-> v.next, bit |-> bit,
     refs |-> Append(a.refs, v.ref)]

TakeField(row, present_bits, implicit, a, field) ==
    LET is_null == /\ field.nullable
                   /\ \/ a.bit >= present_bits
                      \/ BitIsSet(row, a.bit)
        bit == IF field.nullable THEN a.bit + 1 ELSE a.bit
    IN  CASE ~a.ok   -> a
          [] a.ok /\ is_null ->
                [a EXCEPT !.bit = bit, !.refs = Append(@, NullRef(implicit))]
          [] OTHER -> After(a, bit, ReadValue(row, a.pos, field.type, implicit))

\* What the row reads as when its bitmap has that many bytes and the first
\* present_bits nullable fields have a bit in it. A layout that does not fit
\* stops at the field that failed.
Layout(fields, row, bitmap_bytes, present_bits, implicit) ==
    LET Taken[i \in 0 .. Len(fields)] ==
            IF i = 0
            THEN [ok |-> TRUE, cut |-> FALSE, pos |-> bitmap_bytes, bit |-> 0,
                  refs |-> <<>>]
            ELSE TakeField(row, present_bits, implicit, Taken[i - 1], fields[i])
    IN  Taken[Len(fields)]

\* Fault: every layout is taken to have a bit for every field of the table.
CurrentSchemaOnly(fields, row, implicit) ==
    LET nullable == NullableCount(fields)
    IN  [k \in 1 .. bitmap_bytes_for(nullable) + 1 |->
            Layout(fields, row, Min({Len(row), bitmap_bytes_for(nullable) + 1 - k}),
                   nullable, implicit)]

\* The layouts in the order in which they are tried.
Layouts(fields, row, implicit) ==
    LET nullable == NullableCount(fields)
        Most(bytes) == Min({nullable, bytes * BitsPerByte})
        Of(bytes) == [i \in 1 .. Most(bytes) + 1 |->
                        Layout(fields, row, bytes, Most(bytes) + 1 - i, implicit)]
        Down[bytes \in 0 .. bitmap_bytes_for(nullable)] ==
            (IF bytes > Len(row) THEN <<>> ELSE Of(bytes))
              \o (IF bytes = 0 THEN <<>> ELSE Down[bytes - 1])
    IN  Down[bitmap_bytes_for(nullable)]

all_zero(row, pos) == \A i \in pos + 1 .. Len(row) : row[i] = 0

Accepted(row, layouts) ==
    {k \in DOMAIN layouts : layouts[k].ok /\ all_zero(row, layouts[k].pos)}

\* The first of those that leave the fewest bytes over. A layout that leaves
\* none ends the search in the code.
Winner(layouts, among) ==
    LET furthest == Max({layouts[k].pos : k \in among})
    IN  layouts[Min({k \in among : layouts[k].pos = furthest})]

----------------------------------------------------------------------------
(* The readers of one row.                                                 *)

\* Fault: of the layouts that leave as few bytes over, the last (<= for <).
LastOfTheBest(fields, row, implicit) ==
    LET layouts == Layouts(fields, row, implicit)
        among == Accepted(row, layouts)
        furthest == Max({layouts[k].pos : k \in among})
    IN  CASE row = <<>> ->
                [ok |-> TRUE, refs |-> [i \in DOMAIN fields |-> NullRef(implicit)]]
          [] row # <<>> /\ among = {} -> [ok |-> FALSE, refs |-> <<>>]
          [] OTHER -> [ok |-> TRUE, refs |->
                layouts[Max({k \in among : layouts[k].pos = furthest})].refs]

\* parse_row_refs of the candidate scan.
parse_row_refs(fields, row, implicit) ==
    LET layouts == Layouts(fields, row, implicit)
        among == Accepted(row, layouts)
    IN  CASE row = <<>> ->
                [ok |-> TRUE, refs |-> [i \in DOMAIN fields |-> NullRef(implicit)]]
          [] row # <<>> /\ among = {} -> [ok |-> FALSE, refs |-> <<>>]
          [] OTHER -> [ok |-> TRUE, refs |-> Winner(layouts, among).refs]

\* The loop body of sequential_scan. It fills one array for all rows: when no
\* layout is accepted, a field that none of them reached keeps what the
\* array held, and only a field without data is made null. (A slot of the
\* array never filled says it is an object id, and is not.)
SequentialRefs(fields, row, implicit, before) ==
    LET layouts == Layouts(fields, row, implicit)
        among == Accepted(row, layouts)
        Reached(i) == {k \in DOMAIN layouts : i <= Len(layouts[k].refs)}
        LastRef(i) == IF Reached(i) = {} THEN before[i]
                   ELSE layouts[Max(Reached(i))].refs[i]
        MadeNull(i, ref) ==
            /\ ~ref.is_null /\ ~ref.data
            /\ fields[i].type # "ObjectId" /\ ref.implicit # 0
    IN  CASE row = <<>> -> [i \in DOMAIN fields |-> NullRef(0)]
          [] row # <<>> /\ among = {} ->
                [i \in DOMAIN fields |->
                    [LastRef(i) EXCEPT !.is_null = @ \/ MadeNull(i, LastRef(i))]]
          [] OTHER -> Winner(layouts, among).refs

NoGeometry == [is_null |-> TRUE, bytes |-> <<>>]

\* locate_geometry of the geometry scans; a row that no layout fits is
\* delivered as one without geometry.
locate_geometry(fields, row) ==
    LET layouts == Layouts(fields, row, 0)
        among == Accepted(row, layouts)
        ref == Winner(layouts, among).refs[GeometryField(fields)]
    IN  IF row = <<>> \/ among = {} THEN NoGeometry
        ELSE [is_null |-> ref.is_null, bytes |-> ref.bytes]

\* peek_geometry_blob tries every layout, under one exception handler for all
\* of them, and of those that leave as little over it takes the one with the
\* largest geometry.
peek_geometry_blob(fields, row) ==
    LET layouts == Layouts(fields, row, 0)
        Blob(k) == layouts[k].refs[GeometryField(fields)]
        among == {k \in Accepted(row, layouts) : ~Blob(k).is_null}
        furthest == Max({layouts[k].pos : k \in among})
        closest == {k \in among : layouts[k].pos = furthest}
        largest == Max({Len(Blob(k).bytes) : k \in closest})
        chosen == Min({k \in closest : Len(Blob(k).bytes) = largest})
        failed == \/ row = <<>> \/ GeometryField(fields) = 0
                  \/ \E k \in DOMAIN layouts : layouts[k].cut
    IN  IF failed \/ among = {} THEN [ok |-> FALSE, bytes |-> <<>>]
        ELSE [ok |-> TRUE, bytes |-> Blob(chosen).bytes]

\* The slot of a field in a record: null, or its value. The slot of the
\* geometry is an empty string whatever the geometry is.
NullSlot == [null |-> TRUE, value |-> <<>>]
Slot(value) == [null |-> FALSE, value |-> value]

SlotOf(type, ref) ==
    CASE type = "Geometry" -> Slot(<<>>)
      [] type = "ObjectId" /\ ~ref.is_null -> Slot(<<ref.implicit>>)
      [] OTHER -> IF ref.is_null THEN NullSlot ELSE Slot(ref.bytes)

NoRecord == [ok |-> FALSE, slots |-> <<>>, geometry |-> "Failed", blob |-> <<>>]

ZeroLengthSlots(fields, implicit) ==
    [i \in DOMAIN fields |->
        CASE fields[i].type = "ObjectId" -> Slot(<<implicit>>)
          [] fields[i].type = "Geometry" -> Slot(<<>>)
          [] OTHER -> NullSlot]

\* A row without bytes has an object id and nulls: a field that may not be
\* null makes it unreadable. A single record does not ask that of the
\* geometry, which is read on its own.
materialize_zero_length_record(fields, implicit) ==
    IF \A i \in DOMAIN fields :
          fields[i].nullable \/ fields[i].type \in {"ObjectId", "Geometry"}
    THEN [NoRecord EXCEPT !.ok = TRUE, !.slots = ZeroLengthSlots(fields, implicit)]
    ELSE NoRecord

zero_length_feature(fields, implicit) ==
    IF \A i \in DOMAIN fields : fields[i].nullable \/ fields[i].type = "ObjectId"
    THEN [NoRecord EXCEPT !.ok = TRUE, !.slots = ZeroLengthSlots(fields, implicit),
             !.geometry = IF GeometryField(fields) = 0 THEN "UnsupportedType" ELSE "Null"]
    ELSE NoRecord

\* read_record_by_fid: a layout that throws is only one that does not fit.
parse_record_without_geometry(fields, row, implicit) ==
    LET layouts == Layouts(fields, row, implicit)
        among == Accepted(row, layouts)
        refs == Winner(layouts, among).refs
    IN  CASE row = <<>> -> materialize_zero_length_record(fields, implicit)
          [] row # <<>> /\ among = {} -> NoRecord
          [] OTHER -> [NoRecord EXCEPT !.ok = TRUE,
                !.slots = [i \in DOMAIN fields |-> SlotOf(fields[i].type, refs[i])]]

\* decode_model, as far as a row's reader sees it: the geometry's type must be
\* readable, and no bytes at all are an empty geometry.
Decodes(blob) == blob = <<>> \/ ~read_varuint(blob, 0).cut

\* What the winning layout's geometry becomes.
GeometryResult(fields, refs, record) ==
    LET g == GeometryField(fields)
    IN  CASE g = 0 -> [record EXCEPT !.geometry = "UnsupportedType"]
          [] g # 0 /\ refs[g].is_null -> [record EXCEPT !.geometry = "Null"]
          [] OTHER ->
                IF ~Decodes(refs[g].bytes) THEN NoRecord
                ELSE [record EXCEPT !.geometry = "Present", !.blob = refs[g].bytes]

\* read_feature_by_fid_wkb_internal: the fields and the geometry of one layout.
read_feature_internal(fields, row, implicit) ==
    LET layouts == Layouts(fields, row, implicit)
        among == Accepted(row, layouts)
        refs == Winner(layouts, among).refs
        slots == [i \in DOMAIN fields |-> SlotOf(fields[i].type, refs[i])]
    IN  CASE row = <<>> -> zero_length_feature(fields, implicit)
          [] row # <<>> /\ among = {} -> NoRecord
          [] OTHER -> GeometryResult(fields, refs,
                        [NoRecord EXCEPT !.ok = TRUE, !.slots = slots])

\* read_feature_by_fid: the fields outside the projection are null.
read_feature_by_fid(fields, row, implicit, projection) ==
    LET feature == read_feature_internal(fields, row, implicit)
    IN  IF feature.ok /\ projection \subseteq DOMAIN fields
        THEN [feature EXCEPT !.slots =
                 [i \in DOMAIN fields |->
                     IF i \in projection THEN @[i] ELSE NullSlot]]
        ELSE NoRecord

----------------------------------------------------------------------------
(* The rows a Writer leaves behind, as far as the tests of the parser and  *)
(* docs/gdb/08 describe them: the bitmap of the fields the table had then, *)
(* whose unused bits are all set or all clear, and the values that are not *)
(* null.                                                                   *)

Prefix(fields, n) == SubSeq(fields, 1, n)

WrittenRow(fields, values, unused) ==
    LET bits == SelectSeq([i \in DOMAIN fields |-> i],
                          LAMBDA i : fields[i].nullable)
        Bit(b) == CASE b >= Len(bits) -> unused
                    [] b < Len(bits) /\ values[bits[b + 1]].null -> 1
                    [] OTHER -> 0
        BitmapByte(j) ==
            MapThenSumSet(LAMBDA b : Bit((j - 1) * BitsPerByte + b) * 2^b,
                          0 .. BitsPerByte - 1)
        Bytes(i) ==
            CASE values[i].null \/ fields[i].type = "ObjectId" -> <<>>
              [] ~values[i].null /\ fields[i].type = "Fixed" -> values[i].value
              [] OTHER -> <<Len(values[i].value)>> \o values[i].value
    IN  [j \in 1 .. bitmap_bytes_for(Len(bits)) |-> BitmapByte(j)]
           \o FlattenSeq([i \in DOMAIN fields |-> Bytes(i)])

NullableAmong(fields, n) == Cardinality({j \in 1 .. n : fields[j].nullable})

\* The bytes a value takes, and where the values of a row begin and end.
Width(field, slot) ==
    CASE slot.null \/ field.type = "ObjectId" -> 0
      [] ~slot.null /\ field.type = "Fixed" -> 1
      [] OTHER -> 1 + Len(slot.value)

ValueEnds(fields, values) ==
    LET at[i \in 0 .. Len(values)] ==
            IF i = 0 THEN bitmap_bytes_for(NullableAmong(fields, Len(values)))
            ELSE at[i - 1] + Width(fields[i], values[i])
    IN  at

\* What lies at a place of a row is the value of a field; a size is so small
\* that it takes one byte.
HoldsValue(row, at, field, slot) ==
    \/ slot = NullSlot /\ field.nullable /\ field.type # "ObjectId"
    \/ /\ slot = Slot(slot.value) /\ slot.value \in Seq(Byte)
       /\ CASE field.type = "ObjectId" -> TRUE
            [] field.type = "Fixed" -> slot.value = SubSeq(row, at + 1, at + 1)
            [] OTHER ->
                 /\ row[at + 1] = Len(slot.value) /\ row[at + 1] < 2^(BitsPerByte - 1)
                 /\ slot.value = SubSeq(row, at + 2, at + 1 + Len(slot.value))

\* The row says of each nullable field it was written with whether it is null
\* and holds the values that are not, one behind the other. Fields added since
\* are nullable and have left the bitmap as long as it was.
IsRowOf(fields, values, row) ==
    LET n == Len(values)
        at == ValueEnds(fields, values)
    IN  /\ n \in 1 .. Len(fields) /\ at[n] = Len(row)
        /\ bitmap_bytes_for(NullableAmong(fields, n))
             = bitmap_bytes_for(NullableCount(fields))
        /\ \A i \in 1 .. n :
              /\ HoldsValue(row, at[i - 1], fields[i], values[i])
              /\ fields[i].nullable =>
                    (BitIsSet(row, NullableAmong(fields, i - 1)) <=> values[i].null)
        /\ \A i \in n + 1 .. Len(fields) : fields[i].nullable /\ fields[i].type # "ObjectId"
=============================================================================
