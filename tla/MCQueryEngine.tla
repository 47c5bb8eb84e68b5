--------------------------- MODULE MCQueryEngine ---------------------------
(***************************************************************************)
(* Small instances of QueryEngine: three slots, and the requests whose     *)
(* windows lie at, below and past what three slots can hold.               *)
(***************************************************************************)
EXTENDS QueryEngine, TLC

CONSTANTS c1, c2

MCCursors == {c1, c2}
MCSymmetry == Permutations(MCCursors)

Slots(s0, s1, s2) == 0 :> s0 @@ 1 :> s1 @@ 2 :> s2

\* Full, with a hole, empty, and with damage.
MCTables ==
    {Slots("live", "live", "live"), Slots("live", "deleted", "live"),
     Slots("deleted", "deleted", "deleted"), Slots("live", "truncated", "live"),
     Slots("bad_geometry", "live", "beyond")}

Request(kind, input, offset, limit, budget, cancellable) ==
    [kind |-> kind, fid |-> 1, input |-> input, offset |-> offset,
     limit |-> limit, max_result_features |-> budget, sort_fids |-> FALSE,
     cancellable |-> cancellable]

\* A walk over the table, one over the window of a query that can be
\* cancelled, and two requests that fail.
MCCursorRequests ==
    {Request("SequentialScan", "good", 0, 0, 0, FALSE),
     Request("WhereClause", "good", 1, 2, 0, TRUE),
     Request("SpatialBbox", "unavailable", 0, 0, 0, FALSE),
     Request("SequentialScan", "bad_projection", 0, 0, 0, FALSE)}

\* Windows of scans at zero, at one and where size_t ends; the other paths;
\* and every wrong input.
MCRequests ==
    {Request("SequentialScan", "good", 0, 1, 0, TRUE),
     Request("SequentialScan", "good", 1, 1, 0, FALSE),
     Request("SequentialScan", "good", 0, 0, 1, FALSE),
     Request("SequentialScan", "good", 1, 2, 1, FALSE),
     Request("SequentialScan", "good", 2, MaxSize, 0, FALSE),
     Request("SequentialScan", "good", 2, 0, MaxSize, FALSE),
     Request("WhereClause", "good", 0, 2, 1, TRUE),
     Request("WhereClause", "malformed", 0, 0, 0, TRUE),
     Request("SpatialBbox", "good", 1, 0, 1, TRUE),
     Request("Attribute", "unavailable", 0, 0, 0, FALSE),
     Request("ReadByFid", "good", 0, 1, 0, FALSE)}
=============================================================================
