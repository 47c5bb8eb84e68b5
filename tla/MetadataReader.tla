--------------------------- MODULE MetadataReader ---------------------------
(***************************************************************************)
(* What MetadataReader makes of the rows of the system tables: the layer,  *)
(* its subtypes and the domains of its fields, the relationships, joined   *)
(* over four tables, the groups of datasets, and the audit.                *)
(*                                                                         *)
(* Names and UUIDs stand for their lower case forms, "" for none.  A path  *)
(* is the sequence of its components.  The XML of a definition stands for  *)
(* what extract_blocks and extract_tag_text find in it.                    *)
(***************************************************************************)
EXTENDS Integers, Sequences, SequencesExt

SystemTables == {"GDB_Items", "GDB_ItemRelationships", "GDB_ItemRelationshipTypes",
                 "GDB_ItemTypes", "GDB_Datasets", "GDB_DatasetRelationships"}

\* load_table_rows: the rows that can be read, or that the table cannot be.
Unreadable == [ok |-> FALSE, rows |-> <<>>]
Loaded(rows) == [ok |-> TRUE, rows |-> rows]

\* unordered_map::emplace keeps the first row of a UUID, and a row without
\* one is not found: the row, or the row given for none.
Lookup(rows, uuid, none) ==
    LET Same(row) == uuid # "" /\ row.uuid = uuid
        first == SelectInSeq(rows, Same)
    IN  IF first = 0 THEN none ELSE rows[first]

NoDefinition == [catalog_path |-> <<>>, dataset_type |-> "", domains |-> <<>>,
                 fields |-> <<>>, subtypes |-> <<>>]
NoItem == [uuid |-> "", name |-> "", physical_name |-> "", path |-> <<>>,
           definition |-> NoDefinition]

----------------------------------------------------------------------------
(* One layer, out of GDB_Items.                                            *)

\* decode_layer_metadata_row, for the first row of that name.
read_layer_metadata(items, layer_name) ==
    LET Named(row) == layer_name # "" /\ layer_name \in {row.name, row.physical_name}
        first == SelectInSeq(items.rows, Named)
    IN  IF first = 0 THEN NoItem ELSE items.rows[first]

\* The bounds of a range are values, too.
NoDomain == [name |-> "", values |-> <<>>]

decode_workspace_domains_xml(blocks) ==
    SelectSeq(blocks, LAMBDA domain : domain # NoDomain)

read_workspace_domains(items) ==
    FlattenSeq([i \in DOMAIN items.rows |->
                   decode_workspace_domains_xml(items.rows[i].definition.domains)])

decode_subtypes_xml(blocks) ==
    SelectSeq(blocks, LAMBDA subtype : subtype.code # 0 \/ subtype.name # "")

read_subtypes(items, layer_name) ==
    decode_subtypes_xml(read_layer_metadata(items, layer_name).definition.subtypes)

find_domain_by_name(domains, name) ==
    LET Named(domain) == domain.name = name
        first == SelectInSeq(domains, Named)
    IN  IF first = 0 THEN NoDomain ELSE domains[first]

decode_field_domain_bindings_xml(fields, domains) ==
    LET bound == SelectSeq(fields, LAMBDA f : f.name # "" /\ f.domain # "")
    IN  [i \in DOMAIN bound |->
            [name |-> bound[i].name, domain_name |-> bound[i].domain,
             domain |-> find_domain_by_name(domains, bound[i].domain)]]

\* GDB_Items is read twice: for the layer, and for the domains.
read_field_domain_bindings(items, items_again, layer_name) ==
    decode_field_domain_bindings_xml(
        read_layer_metadata(items, layer_name).definition.fields,
        read_workspace_domains(items_again))

----------------------------------------------------------------------------
(* Relationships.                                                          *)

ItemPath(item) ==
    IF item.definition.catalog_path = <<>> THEN item.path
    ELSE item.definition.catalog_path

NameAndPath(item) == [name |-> item.name, path |-> ItemPath(item)]

NoType == [uuid |-> "", name |-> "", origin |-> "", destination |-> "",
           containment |-> FALSE]
NoItemType == [uuid |-> "", name |-> ""]

read_relationship_summaries(items, relationships, types) ==
    LET Summary(row) ==
            LET type == Lookup(types.rows, row.type, NoType)
            IN  [uuid |-> row.uuid, type_name |-> type.name,
                 is_containment |-> type.containment,
                 origin |-> NameAndPath(Lookup(items.rows, row.origin, NoItem)),
                 destination |-> NameAndPath(Lookup(items.rows, row.destination, NoItem))]
    IN  IF items.ok /\ relationships.ok /\ types.ok
        THEN [i \in DOMAIN relationships.rows |-> Summary(relationships.rows[i])]
        ELSE <<>>

\* The keys of a relationship class, from the older tag when the newer one is
\* not there.
decode_relationship_class_attributes_xml(attributes) ==
    LET Key(new, old) == IF new = "" THEN old ELSE new
    IN  [cardinality |-> attributes.cardinality,
         origin_primary_key |->
            Key(attributes.origin_primary_key, attributes.origin_class_keys),
         destination_primary_key |->
            Key(attributes.destination_primary_key, attributes.destination_class_keys)]

read_relationship_class_definitions(items, item_types, relationships, types) ==
    LET Class(row) ==
            LET type == Lookup(types.rows, row.type, NoType)
                Of(uuid) == Lookup(item_types.rows, uuid, NoItemType).name
            IN  [uuid |-> row.uuid,
                 keys |-> decode_relationship_class_attributes_xml(row.attributes),
                 type_name |-> type.name, is_containment |-> type.containment,
                 origin_item_type |-> Of(type.origin),
                 destination_item_type |-> Of(type.destination),
                 origin |-> NameAndPath(Lookup(items.rows, row.origin, NoItem)),
                 destination |-> NameAndPath(Lookup(items.rows, row.destination, NoItem))]
    IN  IF items.ok /\ item_types.ok /\ relationships.ok /\ types.ok
        THEN [i \in DOMAIN relationships.rows |-> Class(relationships.rows[i])]
        ELSE <<>>

----------------------------------------------------------------------------
(* Groups and audit.                                                       *)

parent_catalog_path(path) == IF Len(path) < 2 THEN <<>> ELSE Front(path)

\* The members of each group, in the order of their rows.
summarize_dataset_groups(layers) ==
    LET Parent(r) == parent_catalog_path(ItemPath(r))
        Groups == {Parent(layers[i]) : i \in DOMAIN layers} \ {<<>>}
    IN  [g \in Groups |-> LET members == SelectSeq(layers, LAMBDA r : Parent(r) = g)
                          IN  [i \in DOMAIN members |-> NameAndPath(members[i])]]

read_dataset_group_summaries(items) ==
    summarize_dataset_groups(
        SelectSeq(items.rows, LAMBDA r : /\ r.definition.catalog_path # <<>>
                                         /\ r.definition.dataset_type # ""))

\* The digest stands for the rows it is made of.
audit(resolved, table) ==
    CASE ~resolved -> [status |-> "missing", rows |-> <<>>]
      [] resolved /\ ~table.ok -> [status |-> "unreadable", rows |-> <<>>]
      [] OTHER -> [status |-> IF table.rows = <<>> THEN "empty" ELSE "ok",
                   rows |-> table.rows]
=============================================================================
