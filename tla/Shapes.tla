------------------------------- MODULE Shapes -------------------------------
(***************************************************************************)
(* What it means that a geometry meets a box, from its points, lines or    *)
(* rings alone, without the parser's way of looking at it.                 *)
(*                                                                         *)
(* A shape is [kind, parts, sound, header]: the points or the corners of   *)
(* lines or rings, whether a blob can be made into a geometry again, and   *)
(* whether the box in front of it can be read.  A corner of the box is in  *)
(* a polygon when it is on a ring or inside an odd number of rings.        *)
(***************************************************************************)
EXTENDS GridGeometry

EdgesOf(shape) ==
    UNION {{<<p[i], p[i + 1]>> : i \in 1 .. Len(p) - 1} : p \in ToSet(shape.parts)}

SidesOf(box) ==
    LET at_left == Point(box.xmin, box.ymin)
        below == Point(box.xmax, box.ymin)
        above == Point(box.xmin, box.ymax)
        at_right == Point(box.xmax, box.ymax)
    IN  {<<at_left, below>>, <<at_left, above>>, <<at_right, below>>, <<at_right, above>>}

\* Closed segments share a point: the ends of neither are strictly on one
\* side of the other, and the boxes around them meet.
SegmentsMeet(s, t) ==
    /\ ~Disjoint(BoundsOf(s), BoundsOf(t))
    /\ orientation(s[1], s[2], t[1]) * orientation(s[1], s[2], t[2]) <= 0
    /\ orientation(t[1], t[2], s[1]) * orientation(t[1], t[2], s[2]) <= 0

\* By the halfplane test: left of the edges that it passes in height.
InOddlyMany(shape, p) ==
    Cardinality({e \in EdgesOf(shape) :
        \/ e[1].y <= p.y /\ p.y < e[2].y /\ orientation(e[1], e[2], p) > 0
        \/ e[2].y <= p.y /\ p.y < e[1].y /\ orientation(e[1], e[2], p) < 0}) % 2 = 1

Meets(shape, box) ==
    \/ \E part \in ToSet(shape.parts) : \E p \in ToSet(part) : point_in_bbox(p, box)
    \/ /\ shape.kind \in {"line", "polygon"}
       /\ \E e \in EdgesOf(shape) : \E side \in SidesOf(box) : SegmentsMeet(e, side)
    \/ /\ shape.kind = "polygon"
       /\ InOddlyMany(shape, Point(box.xmin, box.ymin))

ShapeBounds(shape) == BoundsOf(FlattenSeq(shape.parts))
=============================================================================
