--------------------------- MODULE CotreeMessages ---------------------------
(***************************************************************************)
(* The messages of the data server and what it does with each request:     *)
(* which request object is created for an id, which worker serves it,      *)
(* which stored procedure the worker calls and what it answers.  A query   *)
(* is the procedure's name, the level it asks for and the form of the area *)
(* text: "real" keeps the fraction, "whole" is truncated to a DWORD.       *)
(***************************************************************************)
EXTENDS Naturals

NONE == "None"

RequestIds == {"Welcome", "Polylines_Area", "Polylines_Mapid",
    "Polygons_Area", "Polygons_Mapid", "Links_Area", "Links_Mapid",
    "Nodes_Area", "Nodes_Mapid", "PassInfos_Area", "PassInfos_Mapid",
    "Polygon3DInfos", "Height3DInfos"}

ResponseIds == {"Res_Welcome", "Res_Error", "Res_Polylines", "Res_Polygons",
    "Res_Links", "Res_Nodes", "Res_Passinfos", "Res_Polygon3DInfos",
    "Res_Height3DInfos"}

\* The response that goes with a request.
ResponseOf(id) ==
    CASE id = "Welcome" -> "Res_Welcome"
      [] id \in {"Polylines_Area", "Polylines_Mapid"} -> "Res_Polylines"
      [] id \in {"Polygons_Area", "Polygons_Mapid"} -> "Res_Polygons"
      [] id \in {"Links_Area", "Links_Mapid"} -> "Res_Links"
      [] id \in {"Nodes_Area", "Nodes_Mapid"} -> "Res_Nodes"
      [] id \in {"PassInfos_Area", "PassInfos_Mapid"} -> "Res_Passinfos"
      [] id = "Polygon3DInfos" -> "Res_Polygon3DInfos"
      [] id = "Height3DInfos" -> "Res_Height3DInfos"

\* The parameters of a request that choose its query.
RequestShape == [id : RequestIds, load : Nat, grs80 : BOOLEAN]

\* RequestCreator knows every request of net_messages.h, and some it lacks.
CreateRequest(id) ==
    IF id \in RequestIds
        \cup {"ModelingInfos_Area", "ModelingInfos_Mapid", "ModelingInfo",
              "GEMs_GemKeys", "GEM_GemKey"}
    THEN id ELSE NONE

\* No worker serves nodes and pass infos: those cases are commented out.
CreateWorker(id) ==
    IF id \in {"Welcome", "Polylines_Area", "Polylines_Mapid",
               "Polygons_Area", "Polygons_Mapid", "Links_Area",
               "Links_Mapid", "Polygon3DInfos", "Height3DInfos"}
    THEN id ELSE NONE

AreaText(r) == IF r.grs80 THEN "real" ELSE "whole"
Query(proc, level, text) == [proc |-> proc, level |-> level, text |-> text]
NoQuery == Query(NONE, 0, NONE)

PolylineAreaQuery(r) ==
    IF r.load \in 1..5
    THEN Query("GP_BTM_POLYLINE_SEL_LEVEL", r.load, AreaText(r))
    ELSE Query("GP_BTM_POLYLINE_SEL_INTERSECTS", 0, AreaText(r))

PolylineMapidQuery(r) == Query("GP_BTM_POLYLINE_SEL_REGION", 0, "mapid")

\* UP_6LEVEL (217) is asked for as level 6; levels 6 to 8 intersect instead.
PolygonAreaQuery(r) ==
    CASE r.load \in 1..5 ->
            Query("GP_BTM_POLYGON_SEL_LEVEL", r.load, AreaText(r))
      [] r.load = 217 -> Query("GP_BTM_POLYGON_SEL_LEVEL", 6, AreaText(r))
      [] OTHER -> Query("GP_BTM_POLYGON_SEL_INTERSECTS", 0, AreaText(r))

\* An unknown load type asks nothing and has no answer.
PolygonMapidQuery(r) ==
    CASE r.load = 211 -> Query("GP_BTM_POLYGON_SEL_REGION", 0, "mapid")
      [] r.load = 214 -> Query("GP_BTM_POLYGON_SEL_REGION_HOUSE", 0, "mapid")
      [] r.load = 232 -> Query("UP_BTM_POLYGON_AUTO_SEL", 0, "mapid")
      [] OTHER -> NoQuery

LinkAreaQuery(r) ==
    IF r.load \in 3..5
    THEN Query("GP_RTM_LINK_SEL_LEVEL_CTT_REALLINK", r.load, AreaText(r))
    ELSE Query("GP_RTM_LINK_SEL_INTERSECTS_CTT_REALLINK", 0, AreaText(r))

LinkMapidQuery(r) ==
    Query("GP_RTM_LINK_SEL_REGION_CTT_REALLINK", 0, "mapid")

PGInfoFor3DQuery(r) ==
    Query("GP_BTD_B3D_PG_LANE_SEL_INTERSECTS", 0, AreaText(r))

HeightInfoFor3DQuery(r) ==
    Query("GP_HIGH_SEL_INTERSECTS", r.load, AreaText(r))

\* processing(): the query of each worker and the response it makes of the
\* rows; NULL when nothing was asked or the database failed.  The welcome is
\* answered without a query.
WorkerQuery(r) ==
    CASE r.id = "Polylines_Area" -> PolylineAreaQuery(r)
      [] r.id = "Polylines_Mapid" -> PolylineMapidQuery(r)
      [] r.id = "Polygons_Area" -> PolygonAreaQuery(r)
      [] r.id = "Polygons_Mapid" -> PolygonMapidQuery(r)
      [] r.id = "Links_Area" -> LinkAreaQuery(r)
      [] r.id = "Links_Mapid" -> LinkMapidQuery(r)
      [] r.id = "Polygon3DInfos" -> PGInfoFor3DQuery(r)
      [] r.id = "Height3DInfos" -> HeightInfoFor3DQuery(r)
      [] OTHER -> NoQuery

WorkerResponse(id) ==
    CASE id = "Welcome" -> "Res_Welcome"
      [] id \in {"Polylines_Area", "Polylines_Mapid"} -> "Res_Polylines"
      [] id \in {"Polygons_Area", "Polygons_Mapid"} -> "Res_Polygons"
      [] id \in {"Links_Area", "Links_Mapid"} -> "Res_Links"
      [] id = "Polygon3DInfos" -> "Res_Polygon3DInfos"
      [] id = "Height3DInfos" -> "Res_Height3DInfos"

Processing(r, dbOk) ==
    IF r.id = "Welcome" \/ (dbOk /\ WorkerQuery(r) # NoQuery)
    THEN WorkerResponse(r.id) ELSE NONE
=============================================================================
