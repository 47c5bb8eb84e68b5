--------------------------- MODULE MCQueryPlanner ---------------------------
(***************************************************************************)
(* A small instance of QueryPlanner: tables of three slots, with every     *)
(* kind of row, whose indexes give too much, just enough, or nothing.      *)
(***************************************************************************)
EXTENDS QueryPlanner, TLC

Slots(s0, s1, s2) == 0 :> s0 @@ 1 :> s1 @@ 2 :> s2

Tables ==
    {Slots("contained", "hit", "miss"), Slots("hit", "deleted", "contained"),
     Slots("hit", "truncated", "contained"), Slots("beyond", "hit", "disjoint"),
     Slots("contained", "unlocatable", "hit"), Slots("null", "hit", "undecodable"),
     Slots("beyond", "deleted", "beyond"),
     Slots("deleted", "deleted", "deleted")}

MCSources ==
    {s \in [rows: Tables, where: {{0, 1}, {1, 2}},
            spx: IndexStates, spx_fids: SUBSET Fids,
            atx: IndexStates, atx_fids: {{}, {0, 1}, {1, 2}, Fids},
            mapped: BOOLEAN] :
        /\ IF s.spx = "good" THEN IntersectingRows(s) \subseteq s.spx_fids
           ELSE s.spx_fids = {}
        /\ IF s.atx = "good" THEN s.where \subseteq s.atx_fids
           ELSE s.atx_fids = {}}

MCCoverages == {5, 20, 60}
=============================================================================
