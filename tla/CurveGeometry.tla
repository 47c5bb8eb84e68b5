---------------------------- MODULE CurveGeometry ----------------------------
(***************************************************************************)
(* Lines and rings with curves, and how they are made straight             *)
(* (curve_geometry.cpp).                                                   *)
(*                                                                         *)
(* A curve stands at the vertex it starts from and takes the place of the  *)
(* edge to the next one.  The code samples arcs, ellipses and Beziers in   *)
(* floating point, as finely as its options ask; here a curve is sampled   *)
(* once, at a vertex it carries with it.  What is modelled is which edges  *)
(* are replaced, which curves are refused and how the samples are joined.  *)
(***************************************************************************)
EXTENDS GridGeometry

CONSTANTS
    CoordinateLimit,   \* the greatest coordinate; 2^63 - 1 in the code
    CurveBackend       \* what a decoder was built to do with curves

ASSUME CurveAssumption ==
    /\ CoordinateLimit \in Nat
    /\ CurveBackend \in {"Builtin", "Gdal", "Reject"}

\* Circular arc, cubic Bezier, elliptic arc.
CurveKinds == {1, 4, 5}
Bezier == 4

\* What becomes of a curve: it is bent, its flags say that it is a line, or it
\* cannot be sampled (an arc that is a point or through points on a line, an
\* ellipse without axes, a Bezier that takes too many segments).
CurveForms == [bent |-> 0, line |-> 1, degenerate |-> 2]

Curve(start, kind, form, via) ==
    [start |-> start, kind |-> kind, form |-> form, via |-> via]

InRange(p) ==
    AbsoluteValue(p.x) <= CoordinateLimit /\ AbsoluteValue(p.y) <= CoordinateLimit

\* The samples between the ends of the curve.
Unsampled == [ok |-> FALSE, between |-> <<>>]
Samples(points) == [ok |-> TRUE, between |-> points]

sample_circular(curve) ==
    CASE curve.form = CurveForms.bent -> Samples(<<curve.via>>)
      [] curve.form = CurveForms.line -> Samples(<<>>)
      [] OTHER -> Unsampled

sample_bezier(curve) ==
    IF curve.form = CurveForms.bent THEN Samples(<<curve.via>>) ELSE Unsampled

\* It comes to the same three outcomes as an arc.
sample_ellipse(curve) == sample_circular(curve)

SamplesOf(curve) ==
    CASE curve.kind = 1 -> sample_circular(curve)
      [] curve.kind = Bezier -> sample_bezier(curve)
      [] OTHER -> sample_ellipse(curve)

\* Samples must be on the grid.
CanBeSampled(curve) ==
    SamplesOf(curve).ok /\ \A p \in ToSet(SamplesOf(curve).between) : InRange(p)

append_unique(points, p) ==
    IF points # <<>> /\ points[Len(points)] = p THEN points ELSE Append(points, p)

append_samples(points, samples, end) ==
    append_unique(IF samples = <<>> THEN points ELSE append_unique(points, samples[1]),
                  end)

\* The part whose first vertex is the one after `offset`, with the samples of
\* its curves between its vertices.
linear_part(part, offset, curves) ==
    LET From(i) == {c \in ToSet(curves) : c.start = offset + i - 1}
        After(i) == IF From(i) = {} THEN <<>>
                    ELSE SamplesOf(CHOOSE c \in From(i) : TRUE).between
        Along[i \in DOMAIN part] ==
            IF i = 1 THEN <<part[1]>>
            ELSE append_samples(Along[i - 1], After(i - 1), part[i])
    IN  Along[Len(part)]

linearize_curves(parts, curves) ==
    LET Offset[k \in 1 .. Len(parts) + 1] ==
            IF k = 1 THEN 0 ELSE Offset[k - 1] + Len(parts[k - 1])
        crosses == \E c \in ToSet(curves) : \E k \in DOMAIN parts :
                       c.start = Offset[k + 1] - 1
    IN  IF crosses \/ \E c \in ToSet(curves) : ~CanBeSampled(c)
        THEN [status |-> "InvalidEncoding", parts |-> <<>>]
        ELSE [status |-> "Valid",
              parts  |-> [k \in DOMAIN parts |->
                            linear_part(parts[k], Offset[k], curves)]]
=============================================================================
