---------------------------- MODULE IndexedQuery ----------------------------
(***************************************************************************)
(* What a query of the reader finds: the rows of a table, the geometry     *)
(* blobs and values in them, the two indexes over them, and the kinds of    *)
(* requests that look through them (query_engine.cpp,                      *)
(* query_engine_geometry.cpp, query_engine_combined.cpp,                   *)
(* hybrid_geometry_reader.cpp).                                            *)
(*                                                                         *)
(* QueryPlanner has the plans and their fall-backs and takes for granted   *)
(* that an index gives a superset of what it is asked for and that every   *)
(* way of checking a row comes to the same result. Here a plan is chosen   *)
(* freely, and the indexes and the checks are computed.                    *)
(***************************************************************************)
EXTENDS HybridGeometry, Shapes, AttributeIndex, SpatialIndex

CONSTANT Layers   \* the layers, each with the requests to make of it

\* A layer has its fields, its rows by FID from 1, the sizes of its grids,
\* the extent in its header, its index files and the requests.
\*   row:  geometry (a blob), values (by field), shape (what the blob was
\*         written from, for the properties only)
\*   spx:  "missing", "unparsable" or "sound", with the file in spx_file
VARIABLES
    layer,       \* the layer
    request,     \* the request made of it
    at,          \* how far the call has come
    spatial,     \* FIDs: candidates, then those whose geometry was accepted
    attribute,   \* the answer of the attribute index
    answer       \* matched_fids

qvars == <<layer, request, at, spatial, attribute, answer>>

L == layer
Q == request

AllFids == 0 .. Len(L.rows) - 1
RowAt(fid) == L.rows[fid + 1]

Compiled == compile_where(Q.tokens, L.fields)
HasIndex(expression) ==
    resolve_attribute_index(L.indexes, L.fields, expression.root) # 0

Ascending(S) ==
    [k \in 1 .. Cardinality(S) |->
        CHOOSE n \in S : Cardinality({m \in S : m < n}) = k - 1]

QueryInit ==
    /\ \E l \in DOMAIN Layers :
         /\ layer = Layers[l]
         /\ \E r \in DOMAIN layer.requests : request = layer.requests[r]
    /\ at = "idle"
    /\ spatial = {}
    /\ attribute = NotAnswered
    /\ answer = {}

Done(fids) ==
    /\ answer' = fids
    /\ at' = "done"
    /\ UNCHANGED <<layer, request, spatial, attribute>>

Found(place, fids) ==
    /\ at' = place
    /\ spatial' = fids
    /\ UNCHANGED <<layer, request, attribute, answer>>

----------------------------------------------------------------------------
(* The spatial part *)

\* A clause is compiled before anything is looked at.
Refuse ==
    /\ at = "idle"
    /\ Q.kind \in {"Where", "SpatialWhere"}
    /\ ~Compiled.valid
    /\ at' = "refused"
    /\ UNCHANGED <<layer, request, spatial, attribute, answer>>

Accepted ==
    /\ at = "idle"
    /\ Q.kind \in {"Bbox", "SpatialWhere"}
    /\ Q.kind = "SpatialWhere" => Compiled.valid

SpxCandidates(merge_x_ranges) ==
    query_bbox(L.spx_file, L.grids, Q.box, Len(L.rows) - 1, merge_x_ranges)

\* Without an index that can be read, and for a box that covers much of the
\* layer or a result that is dense, all rows are looked at.
ScanAllRows ==
    /\ Accepted
    /\ Found("candidates", AllFids)

LookUpSpx ==
    /\ Accepted
    /\ L.spx = "sound"
    /\ Found("candidates", SpxCandidates(FALSE))

Meeting(fids) ==
    {fid \in fids : evaluate_spatial_ref(RowAt(fid).geometry, Q.box) = "Match"}

CheckGeometry ==
    /\ at = "candidates"
    /\ LET meeting == Meeting(spatial)
       IN  IF Q.kind = "Bbox" THEN Done(meeting) ELSE Found("checked", meeting)

----------------------------------------------------------------------------
(* The WHERE part *)

AcceptsRefs(fid) ==
    evaluate_refs(Compiled.root, RefsOf(RowAt(fid).values, L.fields), L.fields)
AcceptsRecord(fid) ==
    evaluate_record(Compiled.root, RecordOf(RowAt(fid).values, L.fields), L.fields)

\* A selective query of an indexed field checks box and clause in one pass
\* over the candidates; here a box over the whole height merges the columns.
FusedScan ==
    /\ Accepted
    /\ Q.kind = "SpatialWhere"
    /\ Compiled.indexable
    /\ HasIndex(Compiled)
    /\ L.spx = "sound"
    /\ LET whole_height == Q.box.ymin <= L.extent.ymin /\ Q.box.ymax >= L.extent.ymax
           candidates == SpxCandidates(whole_height)
       IN  /\ candidates # {}
           /\ Done({fid \in Meeting(candidates) : AcceptsRefs(fid)})

\* The index is asked for its FIDs, or not for a small set of rows.
LookUpAtx ==
    /\ at = "checked"
    /\ spatial # {}
    /\ Compiled.indexable
    /\ HasIndex(Compiled)
    /\ LET found == query_attribute_candidates(L.indexes, L.fields, Compiled.root,
                                               Len(L.rows))
       IN  /\ attribute' = found
           /\ spatial' = IF found.ok
                         THEN ToSet(intersect_sorted_fids(Ascending(spatial),
                                                          Ascending(found.fids)))
                         ELSE spatial
    /\ at' = "thinned"
    /\ UNCHANGED <<layer, request, answer>>

\* Every row that is left is evaluated, whatever the index said.
CheckWhere ==
    /\ at \in {"checked", "thinned"}
    /\ Done({fid \in spatial : AcceptsRefs(fid)})

\* The scan of the candidates did not reach them all: each is read alone.
CheckWhereByRecord ==
    /\ at \in {"checked", "thinned"}
    /\ spatial # {}
    /\ Done({fid \in spatial : AcceptsRecord(fid)})

----------------------------------------------------------------------------
(* The other requests *)

query_where ==
    /\ at = "idle"
    /\ Q.kind = "Where"
    /\ Compiled.valid
    /\ Done({fid \in AllFids : AcceptsRefs(fid)})

\* By the name of the index; nothing is evaluated again.
query_attribute ==
    /\ at = "idle"
    /\ Q.kind = "Attribute"
    /\ Done(query_entries(L.indexes[Q.index].file, Q.literal, Q.op))

\* One feature at a time, here all of them.
feature_intersects ==
    /\ at = "idle"
    /\ Q.kind = "Feature"
    /\ Done({fid \in AllFids : intersects_with_peek(RowAt(fid).geometry, Q.box)})

\* GDAL reads the same rows, from the FID it gives to the first. It is exact
\* for a shape that could be written as one; of anything else it says what it
\* likes once the boxes meet.
gdal_intersects_bbox(gdal_fid, doubtful) ==
    LET shape == RowAt(gdal_fid - L.first_gdal_fid).shape
    IN  /\ shape.parts # <<>>
        /\ ~Disjoint(ShapeBounds(shape), Q.box)
        /\ IF shape.sound THEN Meets(shape, Q.box) ELSE doubtful

\* HybridQueryEngine: every candidate by its model, or by GDAL.
hybrid_query_bbox ==
    /\ at = "idle"
    /\ Q.kind = "Hybrid"
    /\ \E doubtful \in BOOLEAN :
         LET gdal_fids == {fid + L.first_gdal_fid : fid \in AllFids}
             gdal_matches == {gdal_fid \in gdal_fids :
                                  gdal_intersects_bbox(gdal_fid, doubtful)}
             candidates == IF L.spx = "sound" THEN SpxCandidates(FALSE) ELSE AllFids
         IN  Done({fid \in candidates :
                     hybrid_intersects_bbox(fid, decode_model(RowAt(fid).geometry),
                                            Q.box, Q.options, gdal_matches)})

Returned == at \in {"done", "refused"} /\ UNCHANGED qvars

QueryNext ==
    \/ Refuse
    \/ ScanAllRows \/ LookUpSpx \/ CheckGeometry
    \/ FusedScan \/ LookUpAtx \/ CheckWhere \/ CheckWhereByRecord
    \/ query_where \/ query_attribute \/ feature_intersects \/ hybrid_query_bbox
    \/ Returned

QuerySpec == QueryInit /\ [][QueryNext]_qvars
----------------------------------------------------------------------------
(* What a query should find, from the shapes and the values themselves.    *)

\* A geometry that cannot be decoded is still found by a box around all of
\* it, when the box in its header could be read and it has no curves.
ShouldMeet(row, box) ==
    IF row.shape.sound THEN Meets(row.shape, box)
    ELSE row.shape.header /\ Encloses(box, ShapeBounds(row.shape))

\* The clause read from its text: cut at an "or" outside brackets, and when
\* there is none at an "and". It is not cut more often than it has tokens.
CompareWith(value, op, literal) ==
    CASE value.sort = "null" -> op = "!="
      [] value.sort = "nan" -> ~literal.is_string /\ op = "!="
      [] value.sort = "number" ->
            ~literal.is_string /\ Holds(value.value - literal.value, op)
      [] OTHER ->
            literal.is_string /\ Holds(CompareTexts(value.value, literal.value), op)

OutsideBrackets(tokens, kind, from, to) ==
    {i \in from .. to :
        /\ tokens[i].kind = kind
        /\ Cardinality({k \in from .. i : tokens[k].kind = "("})
             = Cardinality({k \in from .. i : tokens[k].kind = ")"})}

Satisfies(values, fields, tokens) ==
    LET Cuts(kind, from, to) == OutsideBrackets(tokens, kind, from, to)
        Value(i) == values[FieldIndex(fields, tokens[i].name)]
        Part[n \in 0 .. Len(tokens)] ==
            [from \in 1 .. Len(tokens) |-> [to \in 0 .. Len(tokens) |->
                IF n = 0 THEN FALSE
                ELSE IF Cuts("or", from, to) # {}
                THEN LET i == Max(Cuts("or", from, to))
                     IN  Part[n - 1][from][i - 1] \/ Part[n - 1][i + 1][to]
                ELSE IF Cuts("and", from, to) # {}
                THEN LET i == Max(Cuts("and", from, to))
                     IN  Part[n - 1][from][i - 1] /\ Part[n - 1][i + 1][to]
                ELSE IF tokens[from].kind = "(" THEN Part[n - 1][from + 1][to - 1]
                ELSE IF tokens[from + 1].kind = "in"
                THEN \E i \in from .. to : /\ tokens[i].kind = "literal"
                                           /\ CompareWith(Value(from), "=", tokens[i])
                ELSE CompareWith(Value(from), tokens[from + 1].kind, tokens[from + 2])]]
    IN  Part[Len(tokens)][1][Len(tokens) - 1]

ShouldAccept(row) ==
    Satisfies(RecordOf(row.values, L.fields), L.fields, Q.tokens)

ShouldMatch(fid) ==
    LET row == RowAt(fid)
    IN  CASE Q.kind = "Bbox" -> ShouldMeet(row, Q.box)
          [] Q.kind = "Where" -> ShouldAccept(row)
          [] Q.kind = "SpatialWhere" -> ShouldMeet(row, Q.box) /\ ShouldAccept(row)
          [] Q.kind = "Feature" ->
                IF row.geometry.type = "multipatch"
                THEN ~Disjoint(ShapeBounds(row.shape), Q.box)
                ELSE row.shape.sound /\ Meets(row.shape, Q.box)
          [] OTHER -> FALSE

----------------------------------------------------------------------------
(* Texts an index cannot be asked about with ">=": a row with a character  *)
(* beyond the BMP stands in it below the last characters of the BMP, and a *)
(* literal with a control character sorts above the spaces of a shorter    *)
(* key.                                                                    *)
MissedByGe(literal, value) ==
    /\ literal.is_string
    /\ value.sort = "text"
    /\ \/ \E k \in DOMAIN value.value : value.value[k] = NonBmp
       \/ \E k \in DOMAIN literal.value : literal.value[k] < Space

----------------------------------------------------------------------------
(* What is taken for granted of the layers and requests of an instance.    *)

\* A geometry that meets a box has vertices, and a box of its own that does.
IsGeometry(row, box) ==
    LET bounds == ShapeBounds(row.shape)
    IN  ShouldMeet(row, box) =>
          /\ bounds \in [xmin : Int, ymin : Int, xmax : Int, ymax : Int]
          /\ bounds.xmin <= bounds.xmax /\ bounds.ymin <= bounds.ymax
          /\ row.shape.parts # <<>> /\ ~Disjoint(bounds, box)

IsQueryBox(box) ==
    /\ box \in [xmin : Int, ymin : Int, xmax : Int, ymax : Int]
    /\ box.xmin <= box.xmax /\ box.ymin <= box.ymax

\* A row is filed under every cell of one of the grids that it touches.
FilesRow(l, f) ==
    LET bounds == ShapeBounds(l.rows[f].shape)
        cells == 0 .. CellSpan - 1
    IN  \E level \in DOMAIN l.grids :
          /\ {CellAt(bounds.xmin, l.grids, level), CellAt(bounds.xmax, l.grids, level),
              CellAt(bounds.ymin, l.grids, level), CellAt(bounds.ymax, l.grids, level)}
                \subseteq cells
          /\ \A key \in KeysOf(bounds, l.grids, level) :
                [key |-> key, fid |-> f] \in EntriesBelow(l.spx_file)[l.spx_file.depth - 1][1]

\* Several grids are looked for in a tree of one level only.
SpatialIndexIsSound(l) ==
    l.spx = "sound" =>
        /\ l.rows \in Seq(ToSet(l.rows)) /\ l.grids \in Seq(Nat \ {0})
        /\ \A level \in DOMAIN l.grids : l.grids[level] >= l.grids[1]
        /\ IsSearchTree(l.spx_file) /\ SuitsColumns(l.spx_file)
        /\ Len(l.grids) = 1 \/ l.spx_file.depth = 1
        /\ \A f \in DOMAIN l.rows : l.rows[f].shape.parts # <<>> => FilesRow(l, f)
        /\ \A q \in ToSet(l.requests) :
             q.kind \in {"Bbox", "SpatialWhere"} =>
                IsQueryBox(q.box) /\ \A row \in ToSet(l.rows) : IsGeometry(row, q.box)

SpatialIndexesAreSound == \A l \in DOMAIN Layers : SpatialIndexIsSound(Layers[l])

\* Tokens end with "end", or there are none at all.
IsLiteral(token) ==
    /\ token.is_string \in BOOLEAN
    /\ IF token.is_string THEN token.value \in Seq(Int) ELSE token.value \in Int

AreTokens(tokens) ==
    \/ tokens = <<>>
    \/ /\ tokens \in Seq(ToSet(tokens))
       /\ \A k \in DOMAIN tokens : tokens[k].kind = "end" <=> k = Len(tokens)
       /\ \A k \in DOMAIN tokens : tokens[k].kind = "literal" => IsLiteral(tokens[k])

HasType(value, type) ==
    /\ numeric_atx_supported(type) =>
         value.sort \in {"null", "nan"} \/ (value.sort = "number" /\ value.value \in Int)
    /\ type = "String" =>
         value.sort = "null" \/ (value.sort = "text" /\ value.value \in Seq(Int))

\* The values of a column, by FID.
ColumnValues(l, column) == [f \in DOMAIN l.rows |-> l.rows[f].values[column]]

AttributeIndexIsSound(l) ==
    /\ l.rows \in Seq(ToSet(l.rows)) /\ l.fields \in Seq(ToSet(l.fields))
    /\ l.indexes \in Seq(ToSet(l.indexes))
    /\ \A f \in DOMAIN l.rows, c \in DOMAIN l.fields :
         HasType(l.rows[f].values[c], l.fields[c].type)
    /\ \A index \in ToSet(l.indexes) :
         LET column == FieldIndex(l.fields, index.column)
         IN  index.direct /\ column # 0 => FilesValues(index.file, ColumnValues(l, column))
    /\ \A q \in ToSet(l.requests) :
         /\ q.kind = "SpatialWhere" => AreTokens(q.tokens)
         /\ q.kind = "Attribute" /\ q.plain =>
              /\ q.column \in DOMAIN l.fields
              /\ \/ numeric_atx_supported(l.fields[q.column].type)
                 \/ l.fields[q.column].type = "String"
              /\ FilesPlainly(l.indexes[q.index].file, ColumnValues(l, q.column))
              /\ q.op \in Operators \ {"!="} /\ IsLiteral(q.literal)

AttributeIndexesAreSound == \A l \in DOMAIN Layers : AttributeIndexIsSound(Layers[l])

----------------------------------------------------------------------------
\* No row that meets the box is missing among the candidates of the spatial
\* index, by columns or with the columns merged. (collect_fids_btree,
\* query_bbox; the row checks that follow can only take candidates away.)
SpatialCandidatesComplete ==
    (at = "idle" /\ Q.kind \in {"Bbox", "SpatialWhere"} /\ L.spx = "sound") =>
        \A merge_x_ranges \in BOOLEAN :
            (merge_x_ranges =>
                Q.box.ymin <= L.extent.ymin /\ Q.box.ymax >= L.extent.ymax) =>
            {fid \in AllFids : ShouldMeet(RowAt(fid), Q.box)}
                \subseteq SpxCandidates(merge_x_ranges)

\* When an attribute index answers, whatever is wrong with its pages, every
\* row that the clause accepts is in the answer. (query_direct,
\* resolve_attribute_index; the same for the entry that takes the name of an
\* index, when the index is whole and the texts fit into a key.)
AttributeCandidatesComplete ==
    /\ attribute.ok =>
         \A fid \in AllFids :
             LET literal == Compiled.root.literal
                 value == RowAt(fid).values[FieldIndex(L.fields, Compiled.root.name)]
             IN  ShouldAccept(RowAt(fid)) =>
                    \/ fid \in attribute.fids
                    \/ Compiled.root.op = ">=" /\ MissedByGe(literal, value)
    /\ (at = "done" /\ Q.kind = "Attribute" /\ Q.plain) =>
         \A fid \in AllFids :
             CompareWith(RowAt(fid).values[Q.column], Q.op, Q.literal)
                => fid \in answer

\* The hybrid reader agrees with the shapes wherever the geometry is sound,
\* and curves need the FIDs of the two sides to correspond; it never takes a
\* feature whose box is away from the query.
HybridAnswerIsExact ==
    \A fid \in AllFids :
        LET row == RowAt(fid)
            corresponds == Q.options.gdal_fid_offset = L.first_gdal_fid
        IN  corresponds \/ ~(row.geometry.curve \/ ~row.shape.sound) =>
                IF row.shape.sound THEN fid \in answer <=> Meets(row.shape, Q.box)
                ELSE fid \in answer => ~Disjoint(ShapeBounds(row.shape), Q.box)

\* Whatever way a query takes, it returns the rows it should: those whose
\* shape meets the box and whose values satisfy the clause. (The five ways of
\* QueryEngine::execute and HybridQueryEngine::query_bbox; decode_model, build, intersects_bbox, compile_where.)
AnswerIsExact ==
    /\ at = "refused" => Q.malformed
    /\ (at = "done" /\ Q.kind = "Hybrid") => HybridAnswerIsExact
    /\ (at = "done" /\ Q.kind \notin {"Attribute", "Hybrid"}) =>
         /\ Q.kind \in {"Where", "SpatialWhere"} => ~Q.malformed
         /\ \A fid \in AllFids :
             LET tolerated == /\ attribute.ok
                              /\ Compiled.root.op = ">="
                              /\ MissedByGe(Compiled.root.literal,
                                   RowAt(fid).values[FieldIndex(L.fields, Compiled.root.name)])
             IN  /\ fid \in answer => ShouldMatch(fid)
                 /\ ShouldMatch(fid) => fid \in answer \/ tolerated
=============================================================================
