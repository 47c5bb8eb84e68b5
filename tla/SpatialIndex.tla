---------------------------- MODULE SpatialIndex ----------------------------
(***************************************************************************)
(* The .spx file of a layer, as gdb_spatial_index.cpp searches it.         *)
(*                                                                         *)
(* A feature is filed under every cell of a grid that its box touches.  A  *)
(* layer may have several grids, each coarser than the one before; a large *)
(* feature goes to a coarse one.  The key of a cell has its level, its     *)
(* column and its row, in this order, and the file is a tree of pages over *)
(* the sorted keys.  A query asks every level, column by column or, when   *)
(* it covers all rows of the layer, all columns at once.                   *)
(***************************************************************************)
EXTENDS Integers, Sequences, SequencesExt, FiniteSets, FiniteSetsExt

CONSTANTS CellSpan,     \* columns, and rows, of a grid; 2^31 in the code
          CellBias,     \* the column of coordinate 0; 2^29 in the code
          SpxEntries    \* entries a page has room for

ASSUME SpatialIndexAssumption ==
    /\ CellSpan \in Nat \ {0}
    /\ CellBias \in 0 .. CellSpan - 1
    /\ SpxEntries \in Nat \ {0, 1}

----------------------------------------------------------------------------
(* Keys *)

RawKey(level, cx, cy) == (level * CellSpan + cx) * CellSpan + cy

\* Only the column of a key; the level above it is cut off.
ColumnOf(key) == (key \div CellSpan) % CellSpan

clamp31(cell) == Max({0, Min({cell, CellSpan - 1})})

\* \div rounds down, as floor does. The sizes of the grids are multiples of
\* the first.
CellAt(coordinate, grids, level) ==
    ((coordinate \div grids[1]) \div (grids[level] \div grids[1])) + CellBias

cell_for_min(coordinate, grids, level) == clamp31(CellAt(coordinate, grids, level))
cell_for_max(coordinate, grids, level) == clamp31(CellAt(coordinate, grids, level) + 1)

----------------------------------------------------------------------------
(* The file. A page is its keys in order, with the FIDs of a leaf or the   *)
(* children of an inner page, one more than it has keys.                   *)

\* The cells that the writer files a box under.
KeysOf(box, grids, level) ==
    {RawKey(level - 1, cx, cy) :
        cx \in CellAt(box.xmin, grids, level) .. CellAt(box.xmax, grids, level),
        cy \in CellAt(box.ymin, grids, level) .. CellAt(box.ymax, grids, level)}

InKeyOrder(filed) ==
    LET First(rest) == CHOOSE e \in rest : \A d \in rest :
                         e.key < d.key \/ (e.key = d.key /\ e.fid <= d.fid)
        Order[rest \in SUBSET filed] ==
            IF rest = {} THEN <<>>
            ELSE <<First(rest)>> \o Order[rest \ {First(rest)}]
    IN  Order[filed]

\* features: the boxes with the level each is filed on, by FID from 1.
\* The key between two leaves is the last one of the left leaf.
SpxFile(features, grids) ==
    LET filed == UNION {{[key |-> k, fid |-> f] :
                            k \in KeysOf(features[f].box, grids, features[f].level)} :
                        f \in DOMAIN features}
        entries == InKeyOrder(filed)
        leaves == Max({1, (Len(entries) + SpxEntries - 1) \div SpxEntries})
        Slice(k) == SubSeq(entries, (k - 1) * SpxEntries + 1,
                           Min({k * SpxEntries, Len(entries)}))
        leaf == [k \in 1 .. leaves |->
                   [keys |-> [i \in DOMAIN Slice(k) |-> Slice(k)[i].key],
                    fids |-> [i \in DOMAIN Slice(k) |-> Slice(k)[i].fid],
                    children |-> <<>>]]
        root == [keys |-> [k \in 1 .. leaves - 1 |-> leaf[k].keys[SpxEntries]],
                 fids |-> <<>>,
                 children |-> [k \in 1 .. leaves |-> k + 1]]
    IN  IF leaves = 1 THEN [depth |-> 1, pages |-> leaf]
        ELSE [depth |-> 2, pages |-> <<root>> \o leaf]

----------------------------------------------------------------------------
(* The search *)

\* The two binary searches leave an interval of two, which is then walked
\* one by one: the last key not above `max`, and the first not below `min`.
\* A search of n keys has come to its end after n rounds.
Middle(left) == (left.lo + left.hi) \div 2

NarrowToLast(keys, max) ==
    LET Round(left) ==
            IF left.hi - left.lo < 2 THEN left
            ELSE IF keys[Middle(left)] <= max THEN [left EXCEPT !.lo = Middle(left)]
            ELSE [left EXCEPT !.hi = Middle(left)]
        Left[n \in 0 .. Len(keys)] ==
            IF n = 0 THEN [lo |-> 1, hi |-> Len(keys)] ELSE Round(Left[n - 1])
    IN  Left[Len(keys)].hi

NarrowToFirst(keys, min, last) ==
    LET Round(left) ==
            IF left.hi - left.lo < 2 THEN left
            ELSE IF keys[Middle(left)] >= min THEN [left EXCEPT !.hi = Middle(left)]
            ELSE [left EXCEPT !.lo = Middle(left)]
        Left[n \in 0 .. last] ==
            IF n = 0 THEN [lo |-> 1, hi |-> last] ELSE Round(Left[n - 1])
    IN  Left[last].lo

find_minmax_idx(keys, min, max) ==
    LET not_above == {i \in 1 .. NarrowToLast(keys, max) : keys[i] <= max}
        last == Max(not_above)
        not_below == {i \in NarrowToFirst(keys, min, last) .. Len(keys) :
                        keys[i] >= min}
    IN  IF not_above = {} \/ not_below = {} THEN {}
        ELSE Min(not_below) .. last

\* Fault: the child after the last key of the query is left out.
ChildrenUpToKeys(page, min, max) ==
    LET n == Len(page.keys)
        right == {i \in 1 .. n : ColumnOf(page.keys[i]) > ColumnOf(max)}
        reached == {i \in 1 .. n : ColumnOf(page.keys[i]) >= ColumnOf(min)}
        last == Min(right \union {n + 1}) - 1
        first == IF reached = {} THEN 1 ELSE Max({1, Min(reached) - 1})
    IN  {page.children[i] : i \in first .. last}

\* The children of an inner page that may have the keys: from the one before
\* the first column not left of the query to the first column right of it.
ChildrenInRange(page, min, max) ==
    LET n == Len(page.keys)
        right == {i \in 1 .. n : ColumnOf(page.keys[i]) > ColumnOf(max)}
        reached == {i \in 1 .. n : ColumnOf(page.keys[i]) >= ColumnOf(min)}
        last == Min(right \union {n + 1})
        first == IF reached = {} THEN 1 ELSE Max({1, Min(reached) - 1})
    IN  {page.children[i] : i \in first .. last}

\* The pages that the search comes to, `n` levels below the root. A page that
\* the file does not have, or that is empty, leads to nothing.
PagesBelow(file, n, min, max) ==
    LET Filled(ids) ==
            {id \in ids : id \in DOMAIN file.pages /\ file.pages[id].keys # <<>>}
        Below[k \in 0 .. n] ==
            Filled(IF k = 0 THEN {1}
                   ELSE UNION {ChildrenInRange(file.pages[id], min, max) :
                                 id \in Below[k - 1]})
    IN  Below[n]

collect_fids_btree(file, min, max) ==
    IF file.depth = 0 THEN {} ELSE
    UNION {LET page == file.pages[id]
           IN  {page.fids[i] - 1 :
                  i \in {k \in find_minmax_idx(page.keys, min, max) :
                           min <= page.keys[k] /\ page.keys[k] <= max
                           /\ page.fids[k] # 0}} :
           id \in PagesBelow(file, file.depth - 1, min, max)}

query_bbox(file, grids, box, max_fid, merge_x_ranges) ==
    LET Found(level, from, to) ==
            LET row_min == cell_for_min(box.ymin, grids, level)
                row_max == cell_for_max(box.ymax, grids, level)
            IN  collect_fids_btree(file, RawKey(level - 1, from, row_min),
                                   RawKey(level - 1, to, row_max))
        Level(level) ==
            LET from == cell_for_min(box.xmin, grids, level)
                to == cell_for_max(box.xmax, grids, level)
            IN  IF merge_x_ranges THEN Found(level, from, to)
                ELSE UNION {Found(level, cx, cx) : cx \in from .. to}
    IN  {fid \in UNION {Level(level) : level \in DOMAIN grids} :
            max_fid > 0 => fid <= max_fid}

----------------------------------------------------------------------------
(* What the file is taken to be. *)

\* The entries of the leaves that are n levels below a page.
EntriesBelow(file) ==
    LET Found[n \in 0 .. file.depth - 1] ==
            [id \in DOMAIN file.pages |->
               LET page == file.pages[id]
               IN  IF n = 0
                   THEN {[key |-> page.keys[i], fid |-> page.fids[i]] : i \in DOMAIN page.fids}
                   ELSE UNION {Found[n - 1][page.children[i]] : i \in DOMAIN page.children}]
    IN  Found

\* A page's keys ascend and lie between the keys below its children.
IsSearchTree(file) ==
    LET Page(id) == file.pages[id]
    IN  /\ file.depth \in Nat \ {0}
        /\ file.pages # <<>>
        /\ file.pages \in Seq([keys : Seq(Nat), fids : Seq(Nat), children : Seq(Nat)])
        /\ \A id \in DOMAIN file.pages :
             /\ \A i, j \in DOMAIN Page(id).keys : i <= j => Page(id).keys[i] <= Page(id).keys[j]
             /\ Len(Page(id).fids) <= Len(Page(id).keys)
             /\ Page(id).children # <<>> =>
                  Page(id).keys # <<>> /\ Len(Page(id).children) = Len(Page(id).keys) + 1
             /\ \A i \in DOMAIN Page(id).children : Page(id).children[i] \in DOMAIN file.pages
        /\ \A n \in 1 .. file.depth - 1, id \in DOMAIN file.pages :
             \A i \in DOMAIN Page(id).children :
               \A e \in EntriesBelow(file)[n - 1][Page(id).children[i]] :
                 /\ i <= Len(Page(id).keys) => e.key <= Page(id).keys[i]
                 /\ i > 1 => Page(id).keys[i - 1] <= e.key

\* The search by columns cuts the level off a key: it wants a tree of one
\* level, or else the keys of one grid.
SuitsColumns(file) ==
    \/ file.depth = 1
    \/ \A id \in DOMAIN file.pages :
         \A i \in DOMAIN file.pages[id].keys : file.pages[id].keys[i] < CellSpan * CellSpan
=============================================================================
