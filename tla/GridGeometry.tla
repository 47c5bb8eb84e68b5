---------------------------- MODULE GridGeometry ----------------------------
(***************************************************************************)
(* Polygons on the integer grid of a FileGDB layer: how the rings of a     *)
(* stored polygon become polygons with holes (polygon_topology.cpp) and    *)
(* whether a geometry meets the box of a query (spatial_predicate.cpp).    *)
(*                                                                         *)
(* The code computes with 128-bit products and long doubles; here numbers  *)
(* are exact, so what is modelled is the algorithm and not its rounding.   *)
(* A query box has corners anywhere between grid points: an instance gives *)
(* the geometries even coordinates and the boxes any integer.              *)
(***************************************************************************)
EXTENDS Integers, Sequences, SequencesExt, FiniteSets, FiniteSetsExt

Point(x, y) == [x |-> x, y |-> y]

Box(xmin, ymin, xmax, ymax) ==
    [xmin |-> xmin, ymin |-> ymin, xmax |-> xmax, ymax |-> ymax]

Sign(n) == CASE n > 0 -> 1 [] n = 0 -> 0 [] OTHER -> -1

AbsoluteValue(n) == IF n < 0 THEN -n ELSE n

Between(n, a, b) == (a <= n /\ n <= b) \/ (b <= n /\ n <= a)

\* The vertex after the i-th of an open ring, and the one before it.
NextVertex(points, i) == points[(i % Len(points)) + 1]
VertexBefore(points, i) == points[IF i = 1 THEN Len(points) ELSE i - 1]

----------------------------------------------------------------------------
(* Points and segments *)

orientation(a, b, c) ==
    Sign((b.x - a.x) * (c.y - a.y) - (b.y - a.y) * (c.x - a.x))

point_on_segment(p, a, b) ==
    /\ orientation(a, b, p) = 0
    /\ Between(p.x, a.x, b.x)
    /\ Between(p.y, a.y, b.y)

\* On a common line: do the segments share more than a point?
Overlapping(a, b, c, d) ==
    LET Shared(i, j, k, l) ==
            Max({Min({i, j}), Min({k, l})}) < Min({Max({i, j}), Max({k, l})})
    IN  Shared(a.x, b.x, c.x, d.x) \/ Shared(a.y, b.y, c.y, d.y)

\* By the sides on which each segment has the ends of the other.
RelationOf(sides, touching, overlapping) ==
    CASE sides[1] * sides[2] < 0 /\ sides[3] * sides[4] < 0 -> "Cross"
      [] sides[1] * sides[2] >= 0 /\ ~touching -> "Disjoint"
      [] sides[3] * sides[4] >= 0 /\ ~touching -> "Disjoint"
      [] OTHER ->
            IF touching /\ overlapping /\ Range(sides) = {0} THEN "Overlap" ELSE "Touch"

segment_relation(a, b, c, d) ==
    RelationOf(<<orientation(a, b, c), orientation(a, b, d),
                 orientation(c, d, a), orientation(c, d, b)>>,
               \/ \E p \in {c, d} : point_on_segment(p, a, b)
               \/ \E p \in {a, b} : point_on_segment(p, c, d),
               Overlapping(a, b, c, d))

----------------------------------------------------------------------------
(* Rings. A ring is open: its last vertex is joined to its first. *)

BoundsOf(points) ==
    LET xs == {points[i].x : i \in DOMAIN points}
        ys == {points[i].y : i \in DOMAIN points}
    IN  Box(Min(xs), Min(ys), Max(xs), Max(ys))

Disjoint(a, b) ==
    \/ a.xmax < b.xmin \/ b.xmax < a.xmin
    \/ a.ymax < b.ymin \/ b.ymax < a.ymin

Encloses(a, b) ==
    /\ a.xmin <= b.xmin /\ b.xmax <= a.xmax
    /\ a.ymin <= b.ymin /\ b.ymax <= a.ymax

\* Twice the signed area, positive when the ring runs counter-clockwise.
signed_area2(points) ==
    LET o == points[1]
        Triangle(i) ==
            (points[i].x - o.x) * (points[i + 1].y - o.y)
            - (points[i].y - o.y) * (points[i + 1].x - o.x)
        Upto[i \in 1 .. Len(points)] ==
            IF i = 1 THEN 0
            ELSE Upto[i - 1] + (IF i < Len(points) THEN Triangle(i) ELSE 0)
    IN  Upto[Len(points)]

WithoutClosing(points) ==
    IF Len(points) > 1 /\ points[1] = points[Len(points)]
    THEN SubSeq(points, 1, Len(points) - 1) ELSE points

\* Repeated vertices are dropped, the closing one among them.
normalize_points(points) ==
    LET Upto[i \in 0 .. Len(points)] ==
            IF i = 0 THEN <<>>
            ELSE IF i > 1 /\ points[i] = points[i - 1] THEN Upto[i - 1]
            ELSE Append(Upto[i - 1], points[i])
    IN  WithoutClosing(Upto[Len(points)])

same_ring(lhs, rhs) ==
    LET n == Len(lhs)
        Turned(start, direction) ==
            \A i \in 0 .. n - 1 :
                lhs[i + 1] = rhs[((start + n + direction * i) % n) + 1]
    IN  /\ Len(lhs) = Len(rhs)
        /\ \E start \in 0 .. n - 1 : Turned(start, 1) \/ Turned(start, -1)

\* The relation of the first pair of edges, in the order of the loops, that
\* meet; "Disjoint" when none do.
FirstMeeting(relations) ==
    LET meeting == {r \in relations : r.how # "Disjoint"}
        Before(r, s) == \/ r.edge < s.edge
                        \/ r.edge = s.edge /\ r.other <= s.other
    IN  IF meeting = {} THEN "Disjoint"
        ELSE (CHOOSE r \in meeting : \A s \in meeting : Before(r, s)).how

RelationsOf(lhs, rhs, pairs) ==
    {[edge |-> p[1], other |-> p[2],
      how |-> segment_relation(lhs[p[1]], NextVertex(lhs, p[1]),
                               rhs[p[2]], NextVertex(rhs, p[2]))] : p \in pairs}

StatusOf(relation, crossing) ==
    CASE relation = "Disjoint" -> "Valid"
      [] relation \in crossing -> "SelfIntersection"
      [] OTHER -> "TouchingRings"

\* Neighbouring edges are not compared.
validate_self(points) ==
    LET n == Len(points)
        pairs == {p \in (1 .. n) \X (1 .. n) :
                    /\ p[1] < p[2]
                    /\ p[2] # (p[1] % n) + 1
                    /\ p[1] # (p[2] % n) + 1}
    IN  StatusOf(FirstMeeting(RelationsOf(points, points, pairs)), {"Cross", "Overlap"})

validate_pair(lhs, rhs) ==
    IF Disjoint(BoundsOf(lhs), BoundsOf(rhs)) THEN "Valid"
    ELSE IF same_ring(lhs, rhs) THEN "DuplicateRing"
    ELSE StatusOf(FirstMeeting(RelationsOf(lhs, rhs, (DOMAIN lhs) \X (DOMAIN rhs))),
                  {"Cross"})

\* A ray to the right: inside after an odd number of edges. The edge from a
\* to b is met left of the point where it has the height of p.
CrossesRay(p, a, b) ==
    /\ (a.y > p.y) # (b.y > p.y)
    /\ (p.x - a.x) * AbsoluteValue(b.y - a.y)
         < (b.x - a.x) * (p.y - a.y) * Sign(b.y - a.y)

point_in_ring(p, points) ==
    LET edges == DOMAIN points
        box == BoundsOf(points)
    IN  CASE ~Encloses(box, Box(p.x, p.y, p.x, p.y)) -> "Outside"
          [] \E i \in edges :
               point_on_segment(p, VertexBefore(points, i), points[i]) ->
                "Boundary"
          [] OTHER ->
                IF Quantify(edges, LAMBDA i :
                     CrossesRay(p, VertexBefore(points, i), points[i])) % 2 = 1
                THEN "Inside" ELSE "Outside"

----------------------------------------------------------------------------
(* The polygons of a sequence of rings *)

ring_status(points) ==
    LET edges == validate_self(points)
    IN  CASE Len(points) < 3 -> "DegenerateRing"
          [] Len(points) >= 3 /\ edges # "Valid" -> edges
          [] OTHER ->
                IF signed_area2(points) = 0 THEN "DegenerateRing" ELSE "Valid"

Unbuilt(status) == [status |-> status, rings |-> <<>>, polygons |-> {}]

\* Fault: the largest ring around it.
outermost_ring(rings, i) ==
    LET area == [j \in DOMAIN rings |-> AbsoluteValue(signed_area2(rings[j]))]
        around == {j \in (DOMAIN rings) \ {i} :
                     /\ Encloses(BoundsOf(rings[j]), BoundsOf(rings[i]))
                     /\ area[j] > area[i]
                     /\ point_in_ring(rings[i][1], rings[j]) = "Inside"}
    IN  IF around = {} THEN 0
        ELSE CHOOSE j \in around :
               \A k \in around : area[j] > area[k] \/ (area[j] = area[k] /\ j <= k)

\* The smallest ring that has this one inside, the first of the smallest;
\* zero when there is none.
parent_ring(rings, i) ==
    LET area == [j \in DOMAIN rings |-> AbsoluteValue(signed_area2(rings[j]))]
        around == {j \in (DOMAIN rings) \ {i} :
                     /\ Encloses(BoundsOf(rings[j]), BoundsOf(rings[i]))
                     /\ area[j] > area[i]
                     /\ point_in_ring(rings[i][1], rings[j]) = "Inside"}
    IN  IF around = {} THEN 0
        ELSE CHOOSE j \in around :
               \A k \in around : area[j] < area[k] \/ (area[j] = area[k] /\ j <= k)

\* A polygon around every ring of even depth, with the rings of odd depth
\* right below it as holes; exteriors run counter-clockwise, holes clockwise.
assemble(rings, parent) ==
    LET Depth[i \in 0 .. Len(rings)] ==
            IF i = 0 \/ parent[i] = 0 THEN 0 ELSE Depth[parent[i]] + 1
        exteriors == {i \in DOMAIN rings : Depth[i] % 2 = 0}
        Holes(i) == {j \in DOMAIN rings : parent[j] = i /\ Depth[j] % 2 = 1}
        Oriented(i) ==
            IF (i \in exteriors) = (signed_area2(rings[i]) < 0)
            THEN Reverse(rings[i]) ELSE rings[i]
    IN  [status   |-> "Valid",
         rings    |-> [i \in DOMAIN rings |-> Oriented(i)],
         polygons |-> {[exterior |-> i, interior |-> Holes(i)] : i \in exteriors}]

FirstFault(statuses) ==
    LET bad == {i \in DOMAIN statuses : statuses[i] # "Valid"}
    IN  IF bad = {} THEN "Valid" ELSE statuses[Min(bad)]

\* The statuses of the later rings against this one.
PairsOf(rings, i) == [j \in i + 1 .. Len(rings) |-> validate_pair(rings[i], rings[j])]

CheckedRings(rings, of_rings, of_pairs) ==
    IF rings = <<>> THEN Unbuilt("Empty")
    ELSE IF of_rings # "Valid" THEN Unbuilt(of_rings)
    ELSE IF of_pairs # "Valid" THEN Unbuilt(of_pairs)
    ELSE assemble(rings, [i \in DOMAIN rings |-> parent_ring(rings, i)])

NormalizedRings(rings) ==
    CheckedRings(rings,
                 FirstFault([i \in DOMAIN rings |-> ring_status(rings[i])]),
                 FirstFault([i \in DOMAIN rings |-> FirstFault(PairsOf(rings, i))]))

build(input) == NormalizedRings([i \in DOMAIN input |-> normalize_points(input[i])])

----------------------------------------------------------------------------
(* Does a geometry meet the box of a query? *)

point_in_bbox(p, box) == Encloses(box, Box(p.x, p.y, p.x, p.y))

\* Liang and Barsky: the part of the segment, from 0 to 1 along it, that is
\* left after each side of the box has clipped it. The parameters are kept
\* whole by the factor `whole`.
Clip(part, side, whole) ==
    LET direction == side[1]
        parameter == side[2] * (whole \div AbsoluteValue(direction)) * Sign(direction)
    IN  CASE ~part.some -> part
          [] part.some /\ direction = 0 ->
                [part EXCEPT !.some = side[2] >= 0]
          [] part.some /\ direction < 0 ->
                [part EXCEPT !.some = parameter <= part.last,
                             !.first = Max({@, parameter})]
          [] OTHER ->
                [part EXCEPT !.some = parameter >= part.first,
                             !.last = Min({@, parameter})]

ClippedBy(part, sides, whole) ==
    Clip(Clip(Clip(Clip(part, sides[1], whole), sides[2], whole), sides[3], whole),
         sides[4], whole)

segment_intersects_bbox(a, b, box) ==
    LET dx == b.x - a.x
        dy == b.y - a.y
        whole == Max({1, AbsoluteValue(dx)}) * Max({1, AbsoluteValue(dy)})
        sides == << <<-dx, a.x - box.xmin>>, <<dx, box.xmax - a.x>>,
                    <<-dy, a.y - box.ymin>>, <<dy, box.ymax - a.y>> >>
        uncut == [some |-> TRUE, first |-> 0, last |-> whole]
        left == ClippedBy(uncut, sides, whole)
    IN  \/ point_in_bbox(a, box)
        \/ point_in_bbox(b, box)
        \/ left.some /\ left.first <= left.last

line_intersects_bbox(line, box, closed) ==
    \/ \E i \in DOMAIN line : point_in_bbox(line[i], box)
    \/ \E i \in DOMAIN line :
         /\ closed \/ i < Len(line)
         /\ segment_intersects_bbox(line[i], NextVertex(line, i), box)

\* Where the point is: in a polygon and in none of its holes.
locate_xy(model, p) ==
    LET Outer(poly) == point_in_ring(p, model.rings[poly.exterior])
        InHole(poly, where) ==
            \E h \in poly.interior : point_in_ring(p, model.rings[h]) = where
        inside == {poly \in model.polygons : Outer(poly) = "Inside"}
    IN  CASE \E poly \in model.polygons : Outer(poly) = "Boundary" -> "Boundary"
          [] \E poly \in inside : InHole(poly, "Boundary") -> "Boundary"
          [] \E poly \in inside :
               ~InHole(poly, "Boundary") /\ ~InHole(poly, "Inside") -> "Inside"
          [] OTHER -> "Outside"

polygons_intersect_bbox(model, box) ==
    \/ \E poly \in model.polygons :
         /\ ~Disjoint(BoundsOf(model.rings[poly.exterior]), box)
         /\ \E r \in {poly.exterior} \union poly.interior :
              line_intersects_bbox(model.rings[r], box, TRUE)
    \/ locate_xy(model, Point(box.xmin, box.ymin)) # "Outside"
=============================================================================
