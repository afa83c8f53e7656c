---------------------------- MODULE CotreeArchive ----------------------------
(***************************************************************************)
(* A message of the data server from one end to the other: its fields are  *)
(* written into an archive, the archive is wrapped as plain ('N'), zlib    *)
(* ('Z') or LZMA ('L') bytes, and the other end makes a message for the id *)
(* of the header and reads it back.  A cell stands for a byte: the field   *)
(* it belongs to, the row, and its place there; of a count, its value.     *)
(***************************************************************************)
EXTENDS CotreeSchema, CotreeMessages

CONSTANTS
    MaxRows,        \* bound: rows of a response
    Lengths         \* bound: the elements of a counted field

\* A count is written as an int.
IntMax == 2147483647

ASSUME ArchiveAssumption == MaxRows \in 0..IntMax /\ Lengths \subseteq 0..IntMax

VARIABLES
    id, rows,       \* the message: its id and its objects
    phase,          \* "made", "sent", "loading" or "loaded"
    tag,            \* how the archive is packed
    stream,         \* what the archive still holds
    expected,       \* the number of rows to read
    loadedRows      \* those read

archiveVars == <<id, rows, phase, tag, stream, expected, loadedRows>>

\* The class of each id, by what it writes and reads; a response other than a
\* text is a vector of rows.
Vectors == ResponseIds \ {"Res_Welcome", "Res_Error"}

SaveSchema(m) ==
    CASE m = "Welcome" -> ReqIntSave
      [] m \in {"Polylines_Area", "Polygons_Area", "Links_Area", "Nodes_Area",
                "PassInfos_Area", "Height3DInfos"} -> ReqEllipseLoadtypeAreaSave
      [] m = "Polygon3DInfos" -> ReqEllipseAreaSave
      [] m \in {"Polylines_Mapid", "Links_Mapid"} -> ReqMapidSave
      [] m \in {"Polygons_Mapid", "Nodes_Mapid", "PassInfos_Mapid"} -> ReqLoadtypeMapidSave
      [] m \in {"Res_Welcome", "Res_Error"} -> ResTextSave
      [] m = "Res_Polylines" -> PolylineSave
      [] m = "Res_Polygons" -> PolygonSave
      [] m = "Res_Links" -> LinkSave
      [] m = "Res_Nodes" -> NodeSave
      [] m = "Res_Passinfos" -> PassInfoSave
      [] m = "Res_Polygon3DInfos" -> Polygon3DInfoSave
      [] m = "Res_Height3DInfos" -> Height3DInfoSave

LoadSchema(m) ==
    CASE m = "Welcome" -> ReqIntLoad
      [] m \in {"Polylines_Area", "Polygons_Area", "Links_Area", "Nodes_Area",
                "PassInfos_Area", "Height3DInfos"} -> ReqEllipseLoadtypeAreaLoad
      [] m = "Polygon3DInfos" -> ReqEllipseAreaLoad
      [] m \in {"Polylines_Mapid", "Links_Mapid"} -> ReqMapidLoad
      [] m \in {"Polygons_Mapid", "Nodes_Mapid", "PassInfos_Mapid"} -> ReqLoadtypeMapidLoad
      [] m \in {"Res_Welcome", "Res_Error"} -> ResTextLoad
      [] m = "Res_Polylines" -> PolylineLoad
      [] m = "Res_Polygons" -> PolygonLoad
      [] m = "Res_Links" -> LinkLoad
      [] m = "Res_Nodes" -> NodeLoad
      [] m = "Res_Passinfos" -> PassInfoLoad
      [] m = "Res_Polygon3DInfos" -> Polygon3DInfoLoad
      [] m = "Res_Height3DInfos" -> Height3DInfoLoad

-----------------------------------------------------------------------------
(* The archive.                                                            *)

Cell(of, row, n) == [of |-> of, row |-> row, n |-> n]
CountCells(n) == [i \in 1..4 |-> Cell("count", 0, IF i = 1 THEN n ELSE 0)]
IsCount(cells) == Len(cells) = 4 /\ \A i \in 1..4 : cells[i].of = "count"

\* The bytes of a field of a row with len elements.
Bytes(field, row, len) ==
    [i \in 1..field.size * (IF field.counted THEN len ELSE 1) |->
        Cell(field.name, row, i)]

WriteField(field, row, len) ==
    IF field.counted THEN CountCells(len) \o Bytes(field, row, len)
    ELSE Bytes(field, row, len)

WriteRow(schema, row, lens) ==
    FlattenSeq([i \in 1..Len(schema) |->
        WriteField(schema[i], row, lens[schema[i].name])])

\* A read past the end fails, and nobody tests the stream: the variable keeps
\* what it had, and a count is 0.
Take(s, n) == IF n <= Len(s) THEN SubSeq(s, 1, n) ELSE <<>>
Rest(s, n) == SubSeq(s, n + 1, Len(s))

\* A count that was not written as one is arbitrary; it is taken to be 0.
ReadCount(s) == IF IsCount(Take(s, 4)) THEN s[1].n ELSE 0

ReadField(field, s) ==
    LET from == IF field.counted THEN Rest(s, 4) ELSE s
        n == field.size * (IF field.counted THEN ReadCount(s) ELSE 1)
    IN [value |-> Take(from, n), rest |-> Rest(from, n)]

\* The object that was read, as a set of fields and their bytes: the first i
\* fields of the class are read from what the archive holds.
ReadFields(acc, field) ==
    LET f == ReadField(field, acc.rest) IN
    [fields |-> acc.fields \cup {<<field.name, f.value>>}, rest |-> f.rest]

ReadRow(schema, s) ==
    LET read[i \in 0..Len(schema)] ==
        IF i = 0 THEN [fields |-> {}, rest |-> s] ELSE ReadFields(read[i - 1], schema[i])
    IN read[Len(schema)]

-----------------------------------------------------------------------------
Counted(schema) == {f.name : f \in {g \in ToSet(schema) : g.counted}}
Names(schema) == {f.name : f \in ToSet(schema)}

\* An object is given by the number of elements of its counted fields.
Objects(schema) ==
    {[f \in Names(schema) |-> IF f \in Counted(schema) THEN lens[f] ELSE 1] :
        lens \in [Counted(schema) -> Lengths]}

ArchiveInit ==
    /\ id \in RequestIds \cup ResponseIds
    /\ \E object \in Objects(SaveSchema(id)), n \in 0..MaxRows :
        /\ id \notin Vectors => n = 1
        /\ rows = [i \in 1..n |-> object]
    /\ phase = "made" /\ tag = NONE /\ stream = <<>>
    /\ expected = 0 /\ loadedRows = <<>>

\* on_save_to, and the packing that the other programs of the system do (the
\* copy of it here is commented out).
Save ==
    /\ phase = "made" /\ phase' = "sent"
    /\ tag' \in {"N", "Z", "L"}
    /\ stream' = (IF id \in Vectors THEN CountCells(Len(rows)) ELSE <<>>)
                 \o FlattenSeq([i \in 1..Len(rows) |->
                        WriteRow(SaveSchema(id), i, rows[i])])
    /\ UNCHANGED <<id, rows, expected, loadedRows>>

\* load_from unpacks and starts on_load_from.
LoadFrom ==
    /\ phase = "sent" /\ phase' = "loading"
    /\ tag \in {"N", "Z", "L"}
    /\ expected' = IF id \in Vectors THEN ReadCount(stream) ELSE 1
    /\ stream' = IF id \in Vectors THEN Rest(stream, 4) ELSE stream
    /\ UNCHANGED <<id, rows, tag, loadedRows>>

LoadRow ==
    /\ phase = "loading" /\ Len(loadedRows) < expected
    /\ \E row \in {ReadRow(LoadSchema(id), stream)} :
        loadedRows' = Append(loadedRows, row.fields) /\ stream' = row.rest
    /\ UNCHANGED <<id, rows, phase, tag, expected>>

EndLoad ==
    /\ phase = "loading" /\ Len(loadedRows) = expected
    /\ phase' = "loaded"
    /\ UNCHANGED <<id, rows, tag, stream, expected, loadedRows>>

ArchiveNext == Save \/ LoadFrom \/ LoadRow \/ EndLoad

ArchiveSpec == ArchiveInit /\ [][ArchiveNext]_archiveVars

-----------------------------------------------------------------------------
ArchiveTypeOK ==
    /\ id \in RequestIds \cup ResponseIds
    /\ phase \in {"made", "sent", "loading", "loaded"}
    /\ tag \in {NONE, "N", "Z", "L"}
    /\ Len(loadedRows) <= expected

\* The other end reads the object that was written: every member gets the
\* bytes it had, however many elements its neighbours have, and the last
\* member is read when the archive ends.  The archive holds no names and no
\* widths, and reading it reports no error (ae_binary_iarchive.h:66).
LoadsWhatWasSaved ==
    /\ \A i \in 1..Len(loadedRows) :
        loadedRows[i] = {<<f.name, Bytes(f, i, rows[i][f.name])>> : f \in ToSet(SaveSchema(id))}
    /\ phase = "loaded" => Len(loadedRows) = Len(rows) /\ stream = <<>>

ArchiveInv == ArchiveTypeOK /\ LoadsWhatWasSaved
=============================================================================
