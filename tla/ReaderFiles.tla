----------------------------- MODULE ReaderFiles -----------------------------
(***************************************************************************)
(* Readers, Layers and what they share, over the files of a source that a  *)
(* Writer which knows nothing of them may rewrite at any time.             *)
(*                                                                         *)
(* Reader::open lists the directory, reads the system catalog and then     *)
(* takes a fingerprint of every file. A Layer maps its table and loads the *)
(* table's offsets, through the cache of the process. Every call compares  *)
(* the fingerprint with the files before it reads; read_metadata does so   *)
(* again afterwards. The metadata of the indexes is parsed once for all    *)
(* Layers of a Reader.                                                     *)
(*                                                                         *)
(* A file's stamp is its size and time of modification. It counts the      *)
(* changes of the file: at an odd stamp a file is half rewritten, at an    *)
(* even one it holds what the Writer had in mind. A visit of all files is  *)
(* one step: a change behind the visit is seen by the next one.            *)
(***************************************************************************)
EXTENDS TablxCache, MetadataReader, FiniteSets

CONSTANTS
    Threads,
    Commits,        \* the sequences of files that a Writer may rewrite
    SystemRows,     \* system table -> stamp at which it is readable -> its rows
    Catalog,        \* stamp of the system catalog -> the tables it names
    Layer,          \* the layer that is opened
    Missing,        \* files that do not exist at first
    MaxCalls        \* kind of call -> how many there are in one behaviour

ASSUME FilesAssumption ==
    /\ Layer \notin SystemTables /\ Missing \subseteq {"indexes"}
    /\ 0 \notin Threads      \* the owner of a lock that is free
    /\ MaxCalls \in [{"open", "open_layer", "read", "metadata"} -> Nat]

\* The layer's own files; a system table's two files are one.
LayerFiles == {"table", "tablx", "indexes"}
Files == {"catalog"} \union LayerFiles \union SystemTables

ASSUME CommitsAssumption == Commits \subseteq Seq(Files)

VARIABLES
    disk,           \* file -> its stamp, none when it does not exist
    writing,        \* the files the Writer has still to rewrite
    readers,        \* the Readers that have been opened, or are being opened
    index_lock,     \* reader -> the thread that holds its cache exclusively
    pc,             \* what a thread is doing
    layer,          \* the Layer it has open
    opening,        \* the Reader or Layer it is opening
    loads,          \* the system tables read_metadata has loaded, in order
    answer,         \* what its last call returned
    calls           \* calls made so far, to bound them

fileVars == <<disk, writing>>
vars == <<cache, lru_list, cached_bytes, disk, writing, readers, index_lock, pc,
          layer, opening, loads, answer, calls>>

NoLayer == [reader |-> 0, table |-> -1, offsets |-> -1]
\* What read_metadata returned. A call that fails returns nothing, whatever
\* the ReaderStatus it gives for it.
NoAnswer == [ok |-> FALSE]
Answer(reader, snapshot) == [ok |-> TRUE, reader |-> reader, snapshot |-> snapshot]

Init ==
    /\ CacheInit
    /\ disk = [f \in Files \ Missing |-> 0]
    /\ writing = <<>>
    /\ readers = <<>> /\ index_lock = [r \in 1 .. MaxCalls["open"] |-> 0]
    /\ pc = [t \in Threads |-> "idle"]
    /\ layer = [t \in Threads |-> NoLayer]
    /\ opening = [t \in Threads |-> NoLayer]
    /\ loads = [t \in Threads |-> <<>>]
    /\ answer = [t \in Threads |-> NoAnswer]
    /\ calls = [kind \in DOMAIN MaxCalls |-> 0]

----------------------------------------------------------------------------
(* The Writer.                                                             *)

Rewritten(stamp) == stamp % 2 = 0

BeginCommit ==
    /\ writing = <<>> /\ \A f \in DOMAIN disk : disk[f] = 0
    /\ writing' \in Commits
    /\ UNCHANGED <<cacheVars, disk, readers, index_lock, pc, layer, opening,
                   loads, answer, calls>>

\* The next file gets its new bytes, at once or in two steps.
WriteFile ==
    /\ writing # <<>>
    /\ LET f == Head(writing)
           before == IF f \in DOMAIN disk THEN disk[f] ELSE 0
       IN  \E step \in {1, 2} :
             /\ step = 2 => Rewritten(before)
             /\ disk' = [g \in DOMAIN disk \union {f} |->
                            IF g = f THEN before + step ELSE disk[g]]
             /\ writing' = IF Rewritten(before + step) THEN Tail(writing) ELSE writing
    /\ UNCHANGED <<cacheVars, readers, index_lock, pc, layer, opening, loads,
                   answer, calls>>

----------------------------------------------------------------------------
(* Reader::open.                                                           *)

Goes(t, there) == pc' = [pc EXCEPT ![t] = there] /\ UNCHANGED answer
Starts(t, there) ==
    pc' = [pc EXCEPT ![t] = there] /\ answer' = [answer EXCEPT ![t] = NoAnswer]
Returns(t, what) ==
    pc' = [pc EXCEPT ![t] = "idle"] /\ answer' = [answer EXCEPT ![t] = what]
Fails(t, status) == Returns(t, NoAnswer)

\* The bound on calls.
Counts(kind) ==
    calls[kind] < MaxCalls[kind] /\ calls' = [calls EXCEPT ![kind] = @ + 1]

Opens(t, what) == opening' = [opening EXCEPT ![t] = what]

Same == UNCHANGED <<disk, writing, calls>>
NoCache == UNCHANGED <<cache, lru_list, cached_bytes>>
NoReader == UNCHANGED <<readers, index_lock>>
NoLayerStep == UNCHANGED <<layer, opening, loads>>

\* GdbCatalog::scan: the files there are, and an empty cache of metadata.
Scan(t) ==
    /\ pc[t] = "idle" /\ Counts("open")
    /\ readers' = Append(readers,
          [open |-> FALSE, files |-> DOMAIN disk, names |-> {}, stamps |-> << >>,
           indexes |-> "unread", parses |-> 0])
    /\ Opens(t, [NoLayer EXCEPT !.reader = Len(readers) + 1])
    /\ Starts(t, "load")
    /\ UNCHANGED <<index_lock, layer, loads>> /\ NoCache /\ UNCHANGED fileVars

\* CatalogResolver::load. A half rewritten catalog may be refused, or read as
\* something else.
LoadCatalog(t) ==
    /\ pc[t] = "load"
    /\ \/ /\ readers' = [readers EXCEPT ![opening[t].reader].names = Catalog[disk["catalog"]]]
          /\ Goes(t, "capture") /\ UNCHANGED opening
       \/ /\ ~Rewritten(disk["catalog"])
          /\ Fails(t, "CatalogResolveFailed") /\ Opens(t, NoLayer)
          /\ UNCHANGED readers
    /\ UNCHANGED <<index_lock, layer, loads>> /\ NoCache /\ Same

Capture(t) ==
    /\ pc[t] = "capture"
    /\ \/ /\ readers' = [readers EXCEPT ![opening[t].reader].stamps = disk,
                                        ![opening[t].reader].open = TRUE]
          /\ Returns(t, NoAnswer)
       \/ /\ Fails(t, "SourceSnapshotFailed")
          /\ UNCHANGED readers
    /\ Opens(t, NoLayer)
    /\ UNCHANGED <<index_lock, layer, loads>> /\ NoCache /\ Same

\* Fault: a file that is there is taken for the one that was.
same_names(r) == DOMAIN readers[r].stamps = DOMAIN disk

source_is_current(r) == readers[r].stamps = disk

----------------------------------------------------------------------------
(* Reader::open_layer.                                                     *)

resolve(r) ==
    /\ Layer \in readers[r].names /\ {"table", "tablx"} \subseteq readers[r].files

OpenLayer(t) ==
    /\ pc[t] = "idle" /\ Counts("open_layer")
    /\ \E r \in DOMAIN readers :
        /\ readers[r].open
        /\ \/ /\ source_is_current(r) /\ resolve(r)
              /\ Starts(t, "table") /\ Opens(t, [NoLayer EXCEPT !.reader = r])
           \/ /\ source_is_current(r) /\ ~resolve(r)
              /\ Fails(t, "LayerNotFound") /\ UNCHANGED opening
           \/ /\ ~source_is_current(r)
              /\ Fails(t, "SourceChanged") /\ UNCHANGED opening
    /\ UNCHANGED <<layer, loads>> /\ NoReader /\ NoCache /\ UNCHANGED fileVars

OpenFails(t) ==
    /\ Fails(t, "LayerOpenFailed") /\ Opens(t, NoLayer)
    /\ UNCHANGED <<layer, loads>>

\* GdbTableParser::open maps the table and reads its header and fields.
OpenTable(t) ==
    /\ pc[t] = "table"
    /\ \/ /\ Opens(t, [opening[t] EXCEPT !.table = disk["table"]])
          /\ Goes(t, "lookup") /\ UNCHANGED <<layer, loads>>
       \/ ~Rewritten(disk["table"]) /\ OpenFails(t)
    /\ NoReader /\ NoCache /\ Same

LayerOpened(t, offsets) ==
    /\ layer' = [layer EXCEPT ![t] = [opening[t] EXCEPT !.offsets = offsets]]
    /\ Returns(t, NoAnswer) /\ Opens(t, NoLayer)
    /\ UNCHANGED loads /\ NoReader /\ Same

\* load_tablx: the offsets of a file with this identity, if someone has
\* parsed them. When the file cannot be asked for it they are parsed again.
LookUp(t) ==
    /\ pc[t] = "lookup"
    /\ \/ /\ get(disk["tablx"])
          /\ LayerOpened(t, cache[disk["tablx"]])
       \/ /\ Goes(t, "parse")
          /\ NoReader /\ NoCache /\ NoLayerStep /\ Same

ParseTablx(t) ==
    /\ pc[t] = "parse"
    /\ \/ /\ Opens(t, [opening[t] EXCEPT !.offsets = disk["tablx"]])
          /\ Goes(t, "store") /\ UNCHANGED <<layer, loads>>
       \/ ~Rewritten(disk["tablx"]) /\ OpenFails(t)
    /\ NoReader /\ NoCache /\ Same

\* They are kept under the identity the file has by now, unless it cannot be
\* asked for.
StoreOffsets(t) ==
    /\ pc[t] = "store"
    /\ put(disk["tablx"], opening[t].offsets) \/ NoCache
    /\ LayerOpened(t, opening[t].offsets)

----------------------------------------------------------------------------
(* Layer::query, open_cursor, read_by_fid and read_raw_by_fid compare the  *)
(* fingerprint and then read. A condition on a field asks which index the  *)
(* field has.                                                              *)

StartRead(t) ==
    /\ pc[t] = "idle" /\ layer[t] # NoLayer /\ Counts("read")
    /\ \/ /\ source_is_current(layer[t].reader)
          /\ \E next \in {"read", "index"} : Starts(t, next)
       \/ /\ ~source_is_current(layer[t].reader)
          /\ Fails(t, "SourceChanged")
    /\ NoReader /\ NoCache /\ NoLayerStep /\ UNCHANGED fileVars

IndexesOf(t) == readers[layer[t].reader].indexes

\* read_index_metadata under the shared lock.
FindIndexes(t) ==
    /\ pc[t] = "index" /\ index_lock[layer[t].reader] = 0
    /\ Goes(t, IF "indexes" \notin readers[layer[t].reader].files
                  \/ IndexesOf(t) # "unread"
               THEN "read" ELSE "lock")
    /\ NoReader /\ NoCache /\ NoLayerStep /\ Same

\* Fault: the map is not looked at again under the exclusive lock.
LockWithoutSecondLook(t) ==
    /\ pc[t] = "lock" /\ index_lock[layer[t].reader] = 0
    /\ Goes(t, "parse_indexes")
    /\ index_lock' = [index_lock EXCEPT ![layer[t].reader] = t]
    /\ UNCHANGED readers /\ NoCache /\ NoLayerStep /\ Same

\* The exclusive lock: another thread may have parsed them in the meantime.
LockIndexes(t) ==
    /\ pc[t] = "lock" /\ index_lock[layer[t].reader] = 0
    /\ \/ /\ IndexesOf(t) # "unread"
          /\ Goes(t, "read") /\ UNCHANGED index_lock
       \/ /\ IndexesOf(t) = "unread"
          /\ Goes(t, "parse_indexes")
          /\ index_lock' = [index_lock EXCEPT ![layer[t].reader] = t]
    /\ UNCHANGED readers /\ NoCache /\ NoLayerStep /\ Same

\* What could not be parsed stays so for the Reader's life.
ParseIndexes(t) ==
    /\ pc[t] = "parse_indexes"
    /\ LET r == layer[t].reader
           published == IF readers[r].indexes = "unread" THEN {"parsed", "failed"}
                        ELSE {readers[r].indexes}
       IN  /\ \E how \in published :
                /\ how = "failed" => ~Rewritten(disk["indexes"])
                /\ readers' = [readers EXCEPT ![r].indexes = how,
                                              ![r].parses = readers[r].parses + 1]
           /\ index_lock' = [index_lock EXCEPT ![r] = 0]
    /\ Goes(t, "read")
    /\ NoCache /\ NoLayerStep /\ Same

Read(t) ==
    /\ pc[t] = "read"
    /\ Returns(t, NoAnswer)
    /\ NoReader /\ NoCache /\ NoLayerStep /\ Same

----------------------------------------------------------------------------
(* Layer::read_metadata.                                                   *)

Items == "GDB_Items"
Relationships == "GDB_ItemRelationships"
Types == "GDB_ItemRelationshipTypes"
ItemTypes == "GDB_ItemTypes"

\* The tables it loads, in order: for the layer, the domains, the bindings,
\* the summaries, the classes, the groups, the audit and the subtypes.
MetadataLoads ==
    <<Items>> \o <<Items>> \o <<Items, Items>> \o <<Items, Relationships, Types>>
      \o <<Items, ItemTypes, Relationships, Types>> \o <<Items>>
      \o <<Items, Relationships, Types, ItemTypes, "GDB_Datasets",
           "GDB_DatasetRelationships">>
      \o <<Items>>

StartMetadata(t) ==
    /\ pc[t] = "idle" /\ layer[t] # NoLayer /\ Counts("metadata")
    /\ \/ source_is_current(layer[t].reader) /\ Starts(t, "metadata")
       \/ /\ ~source_is_current(layer[t].reader)
          /\ Fails(t, "SourceChanged")
    /\ loads' = [loads EXCEPT ![t] = <<>>]
    /\ UNCHANGED <<layer, opening>> /\ NoReader /\ NoCache /\ UNCHANGED fileVars

\* load_table_rows: the table's two files and its rows, in one step; that the
\* cache may hold older offsets for it is the matter of LookUp. What was
\* loaded is told by the table's stamp.
Stamp(table, stamps) == IF table \in DOMAIN stamps THEN stamps[table] ELSE -1

RowsAt(table, stamp, names) ==
    IF table \in names /\ stamp \in DOMAIN SystemRows[table]
    THEN Loaded(SystemRows[table][stamp])
    ELSE Unreadable

\* The Layer's own part, and what is made of the loaded tables.
Metadata(fields, stamps, names) ==
    LET got == [i \in DOMAIN stamps |-> RowsAt(MetadataLoads[i], stamps[i], names)]
    IN
    [fields |-> fields,
     layer |-> read_layer_metadata(got[1], Layer),
     workspace_domains |-> read_workspace_domains(got[2]),
     field_domains |-> read_field_domain_bindings(got[3], got[4], Layer),
     relationships |-> read_relationship_summaries(got[5], got[6], got[7]),
     relationship_definitions |->
        read_relationship_class_definitions(got[8], got[9], got[10], got[11]),
     dataset_groups |-> read_dataset_group_summaries(got[12]),
     system_table_audit |->
        [i \in 13 .. 18 |-> audit(MetadataLoads[i] \in names, got[i])],
     subtypes |-> read_subtypes(got[19], Layer)]

LoadTable(t) ==
    /\ pc[t] = "metadata" /\ Len(loads[t]) < Len(MetadataLoads)
    /\ loads' = [loads EXCEPT ![t] =
                    Append(@, Stamp(MetadataLoads[Len(@) + 1], disk))]
    /\ UNCHANGED <<pc, answer, layer, opening>> /\ NoReader /\ NoCache /\ Same

\* Fault: the fingerprint is not compared a second time.
EndMetadataUnchecked(t) ==
    /\ pc[t] = "metadata" /\ Len(loads[t]) = Len(MetadataLoads)
    /\ LET r == layer[t].reader
       IN  Returns(t, Answer(r, Metadata(layer[t].table, loads[t], readers[r].names)))
    /\ loads' = [loads EXCEPT ![t] = <<>>]
    /\ UNCHANGED <<layer, opening>> /\ NoReader /\ NoCache /\ Same

EndMetadata(t) ==
    /\ pc[t] = "metadata" /\ Len(loads[t]) = Len(MetadataLoads)
    /\ LET r == layer[t].reader
           read == Metadata(layer[t].table, loads[t], readers[r].names)
       IN  \/ /\ read.layer = NoItem
              /\ Fails(t, "MetadataReadFailed")
           \/ /\ read.layer # NoItem /\ ~source_is_current(r)
              /\ Fails(t, "SourceChanged")
           \/ /\ read.layer # NoItem /\ source_is_current(r)
              /\ Returns(t, Answer(r, read))
    /\ loads' = [loads EXCEPT ![t] = <<>>]
    /\ UNCHANGED <<layer, opening>> /\ NoReader /\ NoCache /\ Same

----------------------------------------------------------------------------
Thread(t) ==
    \/ Scan(t) \/ LoadCatalog(t) \/ Capture(t)
    \/ OpenLayer(t) \/ OpenTable(t) \/ LookUp(t) \/ ParseTablx(t) \/ StoreOffsets(t)
    \/ StartRead(t) \/ FindIndexes(t) \/ LockIndexes(t) \/ ParseIndexes(t) \/ Read(t)
    \/ StartMetadata(t) \/ LoadTable(t) \/ EndMetadata(t)

\* Nothing more is called; a thread that waits for a lock is not idle.
Done == (\A t \in Threads : pc[t] = "idle") /\ UNCHANGED vars

Next == BeginCommit \/ WriteFile \/ Done \/ \E t \in Threads : Thread(t)

Spec == Init /\ [][Next]_vars

----------------------------------------------------------------------------
(* Properties.                                                             *)

\* A call that the fingerprint let through reads a table that was mapped, and
\* whose fields were read, as the fingerprint has it: one that was mapped half
\* rewritten, between the check of open_layer and its return, is never read.
QueriesReadSnapshot ==
    \A t \in Threads :
        pc[t] \in {"read", "index", "lock", "parse_indexes", "metadata"} =>
            layer[t].table = readers[layer[t].reader].stamps["table"]

\* Metadata that read_metadata returns is that of one moment, the one of the
\* fingerprint, although it comes from nineteen loads of six tables: no item
\* of one commit is joined with a relationship of another.
MetadataIsOneSnapshot ==
    \A t \in Threads : answer[t].ok =>
        LET r == answer[t].reader
            stamps == readers[r].stamps
        IN  answer[t].snapshot =
              Metadata(stamps["table"],
                       [i \in DOMAIN MetadataLoads |->
                           Stamp(MetadataLoads[i], stamps)],
                       readers[r].names)

\* The comment at gdb_catalog.cpp:160: threads do not parse the metadata of
\* the indexes twice and do not publish two outcomes.
IndexesParsedOnce ==
    \A r \in DOMAIN readers :
        /\ readers[r].parses <= 1
        /\ readers[r].parses = 1 <=> readers[r].indexes # "unread"

\* gdb_tablx_cache.h:9 has an entry fall out of use when its file changes: a
\* Layer that opens while nothing is written gets the offsets of the file.
OffsetsAreOfTheFile ==
    \A t \in Threads :
        (/\ pc[t] = "read" /\ writing = <<>>
         /\ source_is_current(layer[t].reader))
            => layer[t].offsets = disk["tablx"]
=============================================================================
