---------------------------- MODULE MCReaderFiles ----------------------------
(* Two threads, two Readers and one commit for TLC. *)
EXTENDS ReaderFiles, TLC

CONSTANTS t1, t2

MCThreads == {t1, t2}
Symmetry == Permutations(MCThreads)

\* Two Layers of one Reader, which read at once, one of them its metadata.
MCMaxCalls == "open" :> 1 @@ "open_layer" :> 3 @@ "read" :> 2 @@ "metadata" :> 1
\* One Layer of each of two Readers.
TwoReaders == "open" :> 2 @@ "open_layer" :> 2 @@ "read" :> 1 @@ "metadata" :> 0

\* The offsets that were read at a stamp, one more row after the commit.
MCBytesOf(stamp) == IF stamp = 0 THEN 1 ELSE 2

\* The commit adds a layer, moves the first one into another group, renames
\* it and gives its field another domain.
Domain(name, value) == [name |-> name, values |-> <<value>>]
Definition(group, domain) ==
    [catalog_path |-> <<group, "roads">>, dataset_type |-> "feature class",
     domains |-> <<>>, fields |-> <<[name |-> "kind", domain |-> domain]>>,
     subtypes |-> <<[code |-> 1, name |-> domain]>>]
Item(uuid, name, definition) ==
    [uuid |-> uuid, name |-> name, physical_name |-> "roads", path |-> <<name>>,
     definition |-> definition]
Workspace(value) ==
    [uuid |-> "w", name |-> "workspace", physical_name |-> "", path |-> <<>>,
     definition |-> [NoDefinition EXCEPT !.domains = <<Domain("d", value)>>]]

ItemRows == 0 :> <<Workspace("old"), Item("u", "roads", Definition("a", "d"))>>
         @@ 2 :> <<Workspace("new"), Item("u", "streets", Definition("b", "d")),
                   Item("v", "rivers", NoDefinition)>>

Attributes == [cardinality |-> "one to many", origin_primary_key |-> "",
               origin_class_keys |-> "id", destination_primary_key |-> "key",
               destination_class_keys |-> "old key"]
Relates(destination) ==
    [uuid |-> "r", type |-> "y", origin |-> "u", destination |-> destination,
     attributes |-> Attributes]
RelationshipRows == 0 :> <<Relates("u")>> @@ 1 :> <<>> @@ 2 :> <<Relates("v")>>

Type == [uuid |-> "y", name |-> "contains", origin |-> "i", destination |-> "i",
         containment |-> TRUE]

MCSystemRows ==
    Items :> ItemRows @@ Relationships :> RelationshipRows
      @@ Types :> (0 :> <<Type>>) @@ ItemTypes :> (0 :> <<[uuid |-> "i", name |-> "class"]>>)
      @@ "GDB_Datasets" :> (0 :> <<>>) @@ "GDB_DatasetRelationships" :> (0 :> <<>>)

MCLayer == "roads"

\* A catalog that is half rewritten, and one that no longer names the layer.
MCCatalog == 0 :> {MCLayer} \union (SystemTables \ {"GDB_DatasetRelationships"})
          @@ 1 :> SystemTables @@ 2 :> {MCLayer} \union SystemTables

MCCommits == {<<"table", "tablx">>, <<"catalog", "indexes">>, <<"GDB_Items", "GDB_ItemRelationships">>}
=============================================================================
