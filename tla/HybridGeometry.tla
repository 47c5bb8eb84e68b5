---------------------------- MODULE HybridGeometry ----------------------------
(***************************************************************************)
(* Which features the hybrid reader answers for itself and which it hands  *)
(* to GDAL, by which FID (hybrid_geometry_reader.cpp).                     *)
(***************************************************************************)
EXTENDS GeometryBlob

\* HybridGeometryOptions
HybridOptions(gdal_fid_offset, prefer_gdal_for_curves, fallback_on_topology_error) ==
    [gdal_fid_offset |-> gdal_fid_offset,
     prefer_gdal_for_curves |-> prefer_gdal_for_curves,
     fallback_on_topology_error |-> fallback_on_topology_error]

TopologyErrors ==
    {"UnsupportedType", "InvalidTopology", "DegenerateRing", "SelfIntersection",
     "TouchingRings", "DuplicateRing"}

should_fallback(model, options) ==
    IF IsValidModel(model)
    THEN options.prefer_gdal_for_curves /\ model.source_was_curve
    ELSE \/ model.source_was_curve
         \/ model.status = "UnsupportedCurve"
         \/ options.fallback_on_topology_error /\ model.status \in TopologyErrors

\* A FID that would be negative cannot be asked for.
MapsToGdal(fid, options) == fid + options.gdal_fid_offset >= 0
map_gdal_fid(fid, options) == fid + options.gdal_fid_offset

\* By GDAL, by the model, or not at all: then the geometry counts as invalid.
\* `gdal_matches` is the set of FIDs for which GDAL would say yes.
hybrid_intersects_bbox(fid, model, box, options, gdal_matches) ==
    IF should_fallback(model, options)
    THEN MapsToGdal(fid, options) /\ map_gdal_fid(fid, options) \in gdal_matches
    ELSE IsValidModel(model) /\ intersects_bbox(model, box)
=============================================================================
