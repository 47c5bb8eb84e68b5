---------------------------- MODULE MCTableReads ----------------------------
(* Tables of two and three slots for TLC, with bytes of two bits.          *)
EXTENDS TableReads

OID == Field("ObjectId", FALSE)
Fixed(nullable) == Field("Fixed", nullable)
Text(nullable) == Field("Text", nullable)
Geom(nullable) == Field("Geometry", nullable)

\* The bitmap of the first has two bytes, that of the others one or none.
Schemas == {<<OID, Fixed(TRUE), Text(TRUE), Fixed(TRUE)>>,
            <<OID, Geom(TRUE), Fixed(FALSE), Fixed(TRUE)>>,
            <<OID, Geom(FALSE), Text(FALSE), Text(TRUE)>>,
            <<OID, Fixed(FALSE), Field("Raster", FALSE), Geom(TRUE)>>}

ValuesOf(field) ==
    CASE field.type = "ObjectId" -> {Slot(<<>>)}
      [] field.type = "Fixed" -> {Slot(<<0>>), Slot(<<3>>)}
      [] OTHER -> {Slot(<<>>), Slot(<<1>>)}

FieldChoices(field) ==
    ValuesOf(field) \union (IF field.nullable THEN {NullSlot} ELSE {})

Rows(schema) == {v \in [DOMAIN schema -> UNION {FieldChoices(schema[i]) : i \in DOMAIN schema}] :
                    \A i \in DOMAIN schema : v[i] \in FieldChoices(schema[i])}

\* Fields added last, nullable and without a byte more of the bitmap.
Earlier(schema) ==
    {n \in 1 .. Len(schema) :
        /\ \A i \in n + 1 .. Len(schema) : schema[i].nullable
        /\ bitmap_bytes_for(NullableCount(Prefix(schema, n)))
             = bitmap_bytes_for(NullableCount(schema))}

\* How a slot leads to its row: as it should, not at all, to the end of the
\* file, to where no size fits any more, or to a size that leads past the end.
Entry(kind, bytes, values) == [kind |-> kind, bytes |-> bytes, values |-> values]

WrittenRows(schema) ==
    UNION {{Entry("row", WrittenRow(Prefix(schema, n), v, unused), v) :
              v \in Rows(Prefix(schema, n)), unused \in {0, 1}} : n \in Earlier(schema)}

Damaged(schema, longest) ==
    {Entry("row", b, <<>>) : b \in UNION {[1 .. n -> Byte] : n \in 0 .. longest}}

\* Rows lie one behind the other, in FID order or in the opposite order.
Table(schema, rows, ascending) ==
    LET Extent(i) == IF rows[i].kind \in {"row", "oversize"}
                     THEN PrefixBytes + Len(rows[i].bytes) ELSE 0
        Before(i) == {j \in DOMAIN rows : IF ascending THEN j < i ELSE j > i}
        end == 1 + MapThenSumSet(Extent, DOMAIN rows)
        Offset(i) ==
            CASE rows[i].kind = "free" -> 0
              [] rows[i].kind = "past" -> end
              [] rows[i].kind = "stub" -> end - PrefixBytes + 1
              [] OTHER -> 1 + MapThenSumSet(Extent, Before(i))
    IN  [fields |-> schema, file_size |-> end,
         slots |-> [i \in DOMAIN rows |->
            RowSlot(Offset(i), IF rows[i].kind = "oversize" THEN end ELSE Len(rows[i].bytes),
                    rows[i].bytes, rows[i].values)]]

\* Any bytes behind an ordinary row.
Ordinary(rows) ==
    CHOOSE s \in rows :
        \A i \in DOMAIN s.values : ~s.values[i].null /\ (i > 1 => s.values[i].value # <<>>)

LayoutTables(schema) ==
    LET written == WrittenRows(schema)
        ordinary == Ordinary(written)
    IN  {Table(schema, <<ordinary, s>>, TRUE) : s \in written \union Damaged(schema, 3)}

\* Every mixture of rows, in both physical orders.
ScanSchema == <<OID, Geom(FALSE), Text(FALSE), Text(TRUE)>>
ScanRows ==
    {Ordinary(WrittenRows(ScanSchema)), Entry("row", <<>>, <<>>), Entry("row", <<3, 3>>, <<>>)}
      \union {Entry(kind, <<>>, <<>>) : kind \in {"free", "past", "stub", "oversize"}}

ScanTables ==
    LET some == ScanRows
    IN  {Table(ScanSchema, rows, ascending) :
            rows \in [1 .. 3 -> some], ascending \in BOOLEAN}

MCTables == UNION {LayoutTables(schema) : schema \in Schemas} \union ScanTables
=============================================================================
