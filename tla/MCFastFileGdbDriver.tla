-------------------------- MODULE MCFastFileGdbDriver --------------------------
(* A small source in three versions for TLC. *)
EXTENDS FastFileGdbDriver

\* In the envelope "box" lies the area "disc". The geometry of row 2 becomes
\* one that OGR cannot read, that of row 3 one that GDAL cannot write.
Row1 == Row(1, {"a", "like a"}, {"box"}, "good")
Row2(wkb) == Row(2, {"a", "b", "b()"}, {"box", "disc"}, wkb)
Row3(wkb) == Row(3, {"a", "like a", "b()"}, {}, wkb)
Row5 == Row(5, {"a", "b", "like a"}, {"box", "disc"}, "good")

MCVersions == << <<Row1, Row2("good"), Row3("good"), Row5>>,
                 <<Row1, Row3("none"), Row5>>,
                 <<Row2("bad"), Row3("good")>> >>

MCQueries ==
    {Query("a", "", 1, 2, "FidAscending", 4, FALSE),
     Query("like a", "", 0, 2, "FidAscending", 3, FALSE),
     Query("b()", "", 1, 0, "Native", 0, TRUE),
     Query("", "box", 0, 0, "Native", 0, TRUE),
     Query("b", "box", 0, 1, "FidAscending", 2, FALSE)}

MCEnvelopeOf == [g \in {"disc"} |-> "box"]
=============================================================================
