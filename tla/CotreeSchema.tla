---------------------------- MODULE CotreeSchema ----------------------------
(***************************************************************************)
(* What each message of the data server writes into an archive and what it *)
(* reads back, field by field.  A field has a width in bytes (a long has   *)
(* 4); a counted one is preceded by the number of its elements.  Nothing   *)
(* in an archive says where a field begins: the two lists have to agree.   *)
(***************************************************************************)
EXTENDS Naturals, Sequences, SequencesExt

Field(name, size, counted) == [name |-> name, size |-> size, counted |-> counted]

\* write, write_struct and write_buf; write_iteratable_dump and the strings.
Fixed(size, names) == [i \in 1..Len(names) |-> Field(names[i], size, FALSE)]
Dump(size, names) == [i \in 1..Len(names) |-> Field(names[i], size, TRUE)]

Byte == 1
Short == 2
Long == 4
AreaSize == 32          \* CMapDoubleArea: four doubles
GeoHeightSize == 16

-----------------------------------------------------------------------------
(* The rows of the responses.                                              *)

PolylineSave ==
    Fixed(Long, <<"id", "mapid", "kind">>)
    \o Fixed(12, <<"bdgid_bes", "bdgid_grs">>)
    \o Dump(Byte, <<"xy_bes", "xy_grs">>) \o Fixed(Long, <<"syncflag">>)

\* A bug for comparison: the two coordinate lists are read the other way round.
PolylineLoadSwapped ==
    Fixed(Long, <<"id", "mapid", "kind">>)
    \o Fixed(12, <<"bdgid_bes", "bdgid_grs">>)
    \o Dump(Byte, <<"xy_grs", "xy_bes">>) \o Fixed(Long, <<"syncflag">>)

PolylineLoad ==
    Fixed(Long, <<"id", "mapid", "kind">>)
    \o Fixed(12, <<"bdgid_bes", "bdgid_grs">>)
    \o Dump(Byte, <<"xy_bes", "xy_grs">>) \o Fixed(Long, <<"syncflag">>)

PolygonSave ==
    Fixed(Long, <<"id", "mapid", "kind", "upper_level">>)
    \o Fixed(20, <<"lane_code", "arrow_code">>) \o Fixed(Long, <<"bd_floor">>)
    \o Dump(Byte, <<"xy_bes", "xy_grs">>) \o Fixed(Long, <<"syncflag">>)

PolygonLoad ==
    Fixed(Long, <<"id", "mapid", "kind", "upper_level">>)
    \o Fixed(20, <<"lane_code", "arrow_code">>) \o Fixed(Long, <<"bd_floor">>)
    \o Dump(Byte, <<"xy_bes", "xy_grs">>) \o Fixed(Long, <<"syncflag">>)

LinkSave ==
    Fixed(Long, <<"id", "mapid", "st_node_id", "ed_node_id">>)
    \o Fixed(Byte, <<"st_dir_bes", "ed_dir_bes", "st_dir_grs", "ed_dir_grs", "road_kind">>)
    \o Fixed(Short, <<"link_kind_code">>) \o Fixed(Byte, <<"oneway">>)
    \o Fixed(Long, <<"road_no">>) \o Fixed(Byte, <<"lane_num">>)
    \o Fixed(30, <<"road_name">>)
    \o Fixed(Byte, <<"level1", "level2", "max_speed_limit", "level3",
                     "facility_code_p", "facility_code_n">>)
    \o Dump(Byte, <<"link_xy_bes", "link_xy_grs">>)
    \o Fixed(Byte, <<"is_ctt", "line_p_yn">>) \o Fixed(30, <<"line_p_id">>)
    \o Dump(Byte, <<"line_p_xy_bes", "line_p_xy_grs">>)
    \o Fixed(Byte, <<"line_n_yn">>) \o Fixed(30, <<"line_n_id">>)
    \o Dump(Byte, <<"line_n_xy_bes", "line_n_xy_grs">>)
    \o Fixed(Byte, <<"is_reallink", "reallink_p_yn">>)
    \o Dump(Byte, <<"reallink_p_xy_grs">>) \o Fixed(Byte, <<"reallink_n_yn">>)
    \o Dump(Byte, <<"reallink_n_xy_grs">>) \o Fixed(Byte, <<"sync_flag">>)

LinkLoad ==
    Fixed(Long, <<"id", "mapid", "st_node_id", "ed_node_id">>)
    \o Fixed(Byte, <<"st_dir_bes", "ed_dir_bes", "st_dir_grs", "ed_dir_grs", "road_kind">>)
    \o Fixed(Short, <<"link_kind_code">>) \o Fixed(Byte, <<"oneway">>)
    \o Fixed(Long, <<"road_no">>) \o Fixed(Byte, <<"lane_num">>)
    \o Fixed(30, <<"road_name">>)
    \o Fixed(Byte, <<"level1", "level2", "max_speed_limit", "level3",
                     "facility_code_p", "facility_code_n">>)
    \o Dump(Byte, <<"link_xy_bes", "link_xy_grs">>)
    \o Fixed(Byte, <<"is_ctt", "line_p_yn">>) \o Fixed(30, <<"line_p_id">>)
    \o Dump(Byte, <<"line_p_xy_bes", "line_p_xy_grs">>)
    \o Fixed(Byte, <<"line_n_yn">>) \o Fixed(30, <<"line_n_id">>)
    \o Dump(Byte, <<"line_n_xy_bes", "line_n_xy_grs">>)
    \o Fixed(Byte, <<"is_reallink", "reallink_p_yn">>)
    \o Dump(Byte, <<"reallink_p_xy_grs">>) \o Fixed(Byte, <<"reallink_n_yn">>)
    \o Dump(Byte, <<"reallink_n_xy_grs">>) \o Fixed(Byte, <<"sync_flag">>)

NodeSave ==
    Fixed(Long, <<"id", "mapid", "rep_node_id">>) \o Fixed(30, <<"name">>)
    \o Fixed(Byte, <<"kind">>) \o Dump(Byte, <<"xy_bes", "xy_grs">>)
    \o Fixed(8 * Long, <<"linkids">>) \o Fixed(Byte, <<"syncflag">>)

NodeLoad ==
    Fixed(Long, <<"id", "mapid", "rep_node_id">>) \o Fixed(30, <<"name">>)
    \o Fixed(Byte, <<"kind">>) \o Dump(Byte, <<"xy_bes", "xy_grs">>)
    \o Fixed(8 * Long, <<"linkids">>) \o Fixed(Byte, <<"syncflag">>)

PassInfoSave ==
    Fixed(Long, <<"id", "mapid", "dt_in_link_id", "dt_out_link_id">>)
    \o Fixed(Byte, <<"dt_d_kind", "dt_t_kind">>) \o Fixed(Short, <<"dt_ttti_id">>)

PassInfoLoad ==
    Fixed(Long, <<"id", "mapid", "dt_in_link_id", "dt_out_link_id">>)
    \o Fixed(Byte, <<"dt_d_kind", "dt_t_kind">>) \o Fixed(Short, <<"dt_ttti_id">>)

\* A wchar_t has two bytes.
Polygon3DInfoSave ==
    Fixed(Long, <<"dwPGId", "dwMapId">>) \o Fixed(20, <<"sz3DBdgID">>)
    \o Fixed(60, <<"szPatternCode", "szArrowCode">>)

Polygon3DInfoLoad ==
    Fixed(Long, <<"dwPGId", "dwMapId">>) \o Fixed(20, <<"sz3DBdgID">>)
    \o Fixed(60, <<"szPatternCode", "szArrowCode">>)

Height3DInfoSave ==
    Fixed(Long, <<"dwObjId", "dwMapId">>) \o Fixed(15, <<"szB3DId">>)
    \o Dump(GeoHeightSize, <<"vecHeight">>)

Height3DInfoLoad ==
    Fixed(Long, <<"dwObjId", "dwMapId">>) \o Fixed(15, <<"szB3DId">>)
    \o Dump(GeoHeightSize, <<"vecHeight">>)

-----------------------------------------------------------------------------
(* The requests, and the responses that are one text.                      *)

ReqIntSave == Fixed(4, <<"number">>)
ReqIntLoad == Fixed(4, <<"number">>)

\* An enumeration is written, and read, as an int.
ReqEllipseAreaSave == Fixed(4, <<"ellipsoid">>) \o Fixed(AreaSize, <<"area">>)
ReqEllipseAreaLoad == Fixed(4, <<"ellipsoid">>) \o Fixed(AreaSize, <<"area">>)

ReqEllipseLoadtypeAreaSave ==
    Fixed(4, <<"ellipsoid", "load_type">>) \o Fixed(AreaSize, <<"area">>)
ReqEllipseLoadtypeAreaLoad ==
    Fixed(4, <<"ellipsoid", "load_type">>) \o Fixed(AreaSize, <<"area">>)

ReqMapidSave == Dump(Short, <<"mapid">>)
ReqMapidLoad == Dump(Short, <<"mapid">>)

ReqLoadtypeMapidSave == Fixed(4, <<"load_type">>) \o Dump(Short, <<"mapid">>)
ReqLoadtypeMapidLoad == Fixed(4, <<"load_type">>) \o Dump(Short, <<"mapid">>)

ResTextSave == Dump(Short, <<"text">>)
ResTextLoad == Dump(Short, <<"text">>)
=============================================================================
