--------------------------- MODULE AttributeIndex ---------------------------
(***************************************************************************)
(* The .atx file of an index on one field, as gdb_attribute_index.cpp and  *)
(* gdb_attribute_index_query.cpp read it.                                  *)
(*                                                                         *)
(* The file is a tree of pages and a trailer.  Every query walks from the  *)
(* root along the first children to the leftmost leaf and then along the   *)
(* chain of leaves, so the order of the keys matters to nobody; only a     *)
(* file whose chain is whole may answer.  A leaf has FIDs from 1.          *)
(*                                                                         *)
(* The key of a text is its first KeyWidth UTF-16 units, filled up with    *)
(* spaces.  Units and code points are numbers in their order: below Space  *)
(* are the control characters, NonBmp is a code point of two units.        *)
(***************************************************************************)
EXTENDS WhereClause

CONSTANTS KeyWidth,     \* units in a key; value_size / 2
          PageEntries   \* entries a page has room for; max_per_page

ASSUME IndexAssumption == KeyWidth \in Nat \ {0} /\ PageEntries \in Nat \ {0}

Space == 2
Surrogate == 5
LastBmp == 6
NonBmp == 7

----------------------------------------------------------------------------
(* Keys *)

\* What the writer of the file makes of a text.
Utf16(text) ==
    FlattenSeq([i \in DOMAIN text |->
                  IF text[i] = NonBmp THEN <<Surrogate, Surrogate>> ELSE <<text[i]>>])

KeyOf(value) ==
    IF value.sort # "text" THEN value
    ELSE LET units == Utf16(value.value)
         IN  [k \in 1 .. KeyWidth |-> IF k <= Len(units) THEN units[k] ELSE Space]

\* Up to the first space; every unit on its own, so the halves of a pair
\* become two characters below the last ones of the BMP.
decode_value(key) ==
    LET spaces == {k \in DOMAIN key : key[k] = Space}
    IN  IF spaces = {} THEN key ELSE SubSeq(key, 1, Min(spaces) - 1)

\* Fault: the literal is cut to the width of a key, and keeps its spaces.
cut_to_width(text) == SubSeq(text, 1, Min({KeyWidth, Len(text)}))

truncate_index_string(text) ==
    decode_value(SubSeq(text, 1, Min({KeyWidth, Len(text)})))

\* A NaN in the file compares as equal to every number.
compare_value(key, literal) ==
    CASE literal.is_string ->
            CompareTexts(decode_value(key), truncate_index_string(literal.value))
      [] ~literal.is_string /\ key.sort = "nan" -> 0
      [] OTHER -> key.value - literal.value

----------------------------------------------------------------------------
(* The file. A leaf has `entries`; a page above the leaves has `first`.    *)
(* `count` is what the page says it holds.                                 *)

Leaf(next, entries) ==
    [next |-> next, count |-> Len(entries), entries |-> entries, first |-> 0]
Inner(first) == [next |-> 0, count |-> 1, entries |-> <<>>, first |-> first]

\* The file of entries in the order of their keys: a leaf takes PageEntries,
\* and a root is the first page when there are several leaves.
AtxFile(is_string, entries) ==
    LET leaves == (Len(entries) + PageEntries - 1) \div PageEntries
        root == IF leaves > 1 THEN <<Inner(2)>> ELSE <<>>
        Page(k) == Leaf(IF k < leaves THEN Len(root) + k + 1 ELSE 0,
                        SubSeq(entries, (k - 1) * PageEntries + 1,
                               Min({k * PageEntries, Len(entries)})))
    IN  [whole |-> TRUE, is_string |-> is_string, total |-> Len(entries),
         depth |-> Min({leaves, 2}),
         pages |-> root \o [k \in 1 .. leaves |-> Page(k)]]

\* The pages from the root to the leftmost leaf, and from there the chain.
\* Zero stands for the end, and for a page that the file does not have.
PageAt(file, id) == IF id \in DOMAIN file.pages THEN id ELSE 0

Walk(file) ==
    LET Step[k \in 1 .. Len(file.pages) + 1] ==
            IF k = 1 THEN 1
            ELSE IF Step[k - 1] = 0 THEN 0
            ELSE PageAt(file, IF k <= file.depth THEN file.pages[Step[k - 1]].first
                              ELSE file.pages[Step[k - 1]].next)
    IN  [k \in 1 .. Len(file.pages) + 1 |-> Step[k]]

\* Pages a walk really visits. A walk that is not over after every page has
\* come to a page for the second time.
Reached(walk) == {k \in DOMAIN walk : walk[k] # 0}

ChainIsWhole(file, walk) ==
    LET visited == Reached(walk)
        end == file.pages[walk[Max(visited)]]
    IN  /\ walk[Len(walk)] = 0
        /\ Cardinality({walk[k] : k \in visited}) = Cardinality(visited)
        /\ Cardinality(visited) >= file.depth
        /\ end.next = 0
        /\ \A k \in visited : file.pages[walk[k]].count <= PageEntries
        /\ \A k \in 1 .. file.depth - 1 : file.pages[walk[k]].count > 0

\* The entries of the leaves in the order of the chain.
Entries(file, walk) ==
    LET From[k \in file.depth .. Len(walk)] ==
            IF walk[k] = 0 THEN <<>>
            ELSE file.pages[walk[k]].entries
                   \o (IF k < Len(walk) THEN From[k + 1] ELSE <<>>)
    IN  From[file.depth]

NotAnswered == [ok |-> FALSE, fids |-> {}]

\* The trailer is read first; a tree of no depth is an empty one. A leaf is
\* trusted when all FIDs are of rows and all counts add up to the trailer's.
query_direct(file, literal, op, max_fid_count) ==
    LET walk == Walk(file)
        entries == Entries(file, walk)
        Rows == {entries[k] : k \in DOMAIN entries}
    IN  IF ~file.whole \/ file.is_string # literal.is_string THEN NotAnswered
        ELSE IF file.depth = 0
        THEN [ok |-> file.total = 0, fids |-> {}]
        ELSE IF \/ file.depth > Len(file.pages)
                \/ ~ChainIsWhole(file, walk)
                \/ Len(entries) # file.total
                \/ \E e \in Rows : e.fid = 0 \/ (max_fid_count # 0 /\ e.fid > max_fid_count)
        THEN NotAnswered
        ELSE [ok |-> TRUE,
              fids |-> {e.fid - 1 : e \in {r \in Rows :
                                             Holds(compare_value(r.key, literal), op)}}]

\* The older query, by the name of the index: it reads all entries first,
\* asks only that the FIDs are not zero, and compares with the whole literal.
query_entries(file, literal, op) ==
    LET walk == Walk(file)
        entries == Entries(file, walk)
        Rows == {entries[k] : k \in DOMAIN entries}
        Compare(key) == IF literal.is_string
                        THEN CompareTexts(decode_value(key), literal.value)
                        ELSE compare_value(key, literal)
        parsed == /\ file.whole /\ file.depth \in 1 .. Len(file.pages)
                  /\ ChainIsWhole(file, walk)
                  /\ Len(entries) = file.total
                  /\ \A e \in Rows : e.fid # 0
    IN  IF ~parsed THEN {}
        ELSE {e.fid - 1 : e \in {r \in Rows : Holds(Compare(r.key), op)}}

----------------------------------------------------------------------------
(* Which comparisons the index may answer *)

numeric_atx_supported(type) == type \in {"Int32", "Float64"}

string_index_key_supported(text) == \A k \in DOMAIN text : text[k] # NonBmp

\* An index is [column, direct, file]: the field it is on and whether it is
\* on the field itself or on a function of it, LOWER(...) say.
IndexesOf(indexes, name) ==
    {i \in DOMAIN indexes : indexes[i].column = name /\ indexes[i].direct}

\* The first such index, or 0; metadata that cannot be parsed has none.
resolve_attribute_index(indexes, fields, predicate) ==
    LET type == fields[FieldIndex(fields, predicate.name)].type
        safe == IF predicate.literal.is_string
                THEN /\ type = "String"
                     /\ predicate.op \in {"=", ">="}
                     /\ string_index_key_supported(predicate.literal.value)
                ELSE numeric_atx_supported(type)
        found == IndexesOf(indexes, predicate.name)
    IN  IF predicate.op = "!=" \/ ~safe \/ found = {} THEN 0 ELSE Min(found)

query_attribute_candidates(indexes, fields, predicate, max_fid_count) ==
    LET i == resolve_attribute_index(indexes, fields, predicate)
    IN  IF i = 0 THEN NotAnswered
        ELSE query_direct(indexes[i].file, predicate.literal, predicate.op,
                          max_fid_count)

----------------------------------------------------------------------------
(* What the file is taken to be. *)

\* The places of the entries, by page and by place in the page.
Slots(file) ==
    UNION {{<<k, i>> : i \in DOMAIN file.pages[k].entries} : k \in DOMAIN file.pages}
EntryAt(file, slot) == file.pages[slot[1]].entries[slot[2]]

IsFile(file) ==
    /\ file.depth \in Nat /\ file.total \in Nat
    /\ file.pages \in Seq(ToSet(file.pages))
    /\ \A k \in DOMAIN file.pages :
         LET page == file.pages[k]
         IN  /\ page.next \in Nat /\ page.first \in Nat /\ page.count \in Int
             /\ page.entries \in Seq(ToSet(page.entries))
    /\ \A s \in Slots(file) : EntryAt(file, s).fid \in Nat

\* Whatever is wrong with the file, its trailer does not count fewer entries
\* than there are, and an entry that was overwritten shows it by its FID.
\* values: what the rows have in the column, by FID.
FilesValues(file, values) ==
    /\ IsFile(file)
    /\ Cardinality(Slots(file)) <= file.total
    /\ \/ \E s \in Slots(file) : EntryAt(file, s).fid \notin DOMAIN values
       \/ \A f \in DOMAIN values :
            values[f].sort # "null" =>
                \E s \in Slots(file) : /\ EntryAt(file, s).fid = f
                                       /\ EntryAt(file, s).key = KeyOf(values[f])

\* The entry by the name of an index wants a file that can be read to its end,
\* with an entry for every value, and texts that a key has room for.
FilesPlainly(file, values) ==
    /\ FilesValues(file, values)
    /\ file.whole /\ file.depth \in 1 .. Len(file.pages)
    /\ ChainIsWhole(file, Walk(file))
    /\ Len(Entries(file, Walk(file))) = file.total
    /\ \A s \in Slots(file) : EntryAt(file, s).fid \in (DOMAIN values) \ {0}
    /\ \A f \in DOMAIN values :
         values[f].sort = "text" =>
            /\ Len(values[f].value) <= KeyWidth
            /\ \A k \in DOMAIN values[f].value : values[f].value[k] \notin {Space, NonBmp}
=============================================================================
