------------------------------ MODULE FileParsers ------------------------------
(***************************************************************************)
(* Catalog: what the CSV and the GeoJSON parser make of a file.            *)
(*                                                                         *)
(* A text is a sequence of characters, a line of a CSV file such a text.   *)
(* A CSV file comes as the table its author meant, with the kinds of its   *)
(* columns, and reaches the parser as the lines that table is written in.  *)
(* A GeoJSON document comes as its root and the items of its "features".   *)
(*                                                                         *)
(* A parsed value is its trimmed text, the empty text being null; numbers  *)
(* and booleans keep their text.  Coordinates are left out of features,    *)
(* messages out of errors (an error is the row it names), and so is text   *)
(* that is not UTF-8.  A quoted cell cannot hold a line break: the parser  *)
(* splits lines first.                                                     *)
(***************************************************************************)
EXTENDS Naturals, Sequences, FiniteSets, SequencesExt, FiniteSetsExt, TLC

Quote == "\""
Comma == ","
Space == " "
Digits == {"0", "1"}

Null == <<>>

(* trim *)
Trim(text) ==
  LET solid == {i \in DOMAIN text : text[i] # Space}
  IN IF solid = {} THEN <<>> ELSE SubSeq(text, Min(solid), Max(solid))

(* What a loop that skips some positions goes through: the others, in order. *)
InOrder(positions) ==
  [k \in 1..Cardinality(positions) |->
     CHOOSE i \in positions : Cardinality({j \in positions : j < i}) = k - 1]

------------------------------------------------------------------------------
(* CSV: how a table is written. *)

Written(cell) ==
  IF \E i \in DOMAIN cell : cell[i] \in {Quote, Comma}
  THEN <<Quote>>
       \o FlattenSeq([i \in DOMAIN cell |->
            IF cell[i] = Quote THEN <<Quote, Quote>> ELSE <<cell[i]>>])
       \o <<Quote>>
  ELSE cell

Line(cells) ==
  FlattenSeq([i \in DOMAIN cells |->
    IF i = 1 THEN Written(cells[i]) ELSE <<Comma>> \o Written(cells[i])])

(* CSV: how a line is read. *)

(* parseCsvRow after some characters; paired: the next one was taken already. *)
Scanned(cells, current, inQuotes, paired) ==
  [cells |-> cells, current |-> current, inQuotes |-> inQuotes, paired |-> paired]

NextChar_QuoteEnds(s, char, following) ==
  CASE s.paired -> [s EXCEPT !.paired = FALSE]
    [] ~s.paired /\ char = Quote -> [s EXCEPT !.inQuotes = ~@]
    [] ~s.paired /\ char = Comma /\ ~s.inQuotes ->
         Scanned(Append(s.cells, s.current), <<>>, FALSE, FALSE)
    [] OTHER -> [s EXCEPT !.current = Append(@, char)]

NextChar(s, char, following) ==
  CASE s.paired -> [s EXCEPT !.paired = FALSE]
    [] ~s.paired /\ char = Quote /\ s.inQuotes /\ following = Quote ->
         [s EXCEPT !.current = Append(@, Quote), !.paired = TRUE]
    [] ~s.paired /\ char = Quote /\ ~(s.inQuotes /\ following = Quote) ->
         [s EXCEPT !.inQuotes = ~@]
    [] ~s.paired /\ char = Comma /\ ~s.inQuotes ->
         Scanned(Append(s.cells, s.current), <<>>, FALSE, FALSE)
    [] OTHER -> [s EXCEPT !.current = Append(@, char)]

ParseCsvRow(line) ==
  LET after[i \in 0..Len(line)] ==
        IF i = 0 THEN Scanned(<<>>, <<>>, FALSE, FALSE)
        ELSE NextChar(after[i - 1], line[i], IF i < Len(line) THEN line[i + 1] ELSE "")
  IN Append(after[Len(line)].cells, after[Len(line)].current)

ParseValue(cell) == Trim(cell)

(* parseFloat skips blanks, reads the longest number it finds at the front and *)
(* ignores the rest: it is NaN only when there is none.                        *)
IsNaN(cell) == Trim(cell) = <<>> \/ Head(Trim(cell)) \notin Digits

(* findIndex: the first column of the kind, 0 when there is none. *)
Column(headers, kind) ==
  LET found == {i \in DOMAIN headers : headers[i] = kind}
  IN IF found = {} THEN 0 ELSE Min(found)

Spatial == {"lat", "lng", "wkt"}

(* The properties of a row: the last of several columns of one name stays. *)
Properties(headers, values) ==
  LET others == {i \in DOMAIN headers : i \notin {Column(headers, k) : k \in Spatial}}
  IN [h \in {headers[i] : i \in others} |->
        ParseValue(values[Max({i \in others : headers[i] = h})])]

NameOf(properties, generated) ==
  IF "name" \in DOMAIN properties /\ properties.name # Null THEN properties.name ELSE generated

Parsed(features, errors) == [features |-> features, errors |-> errors]

(* What the loop body does with row i: a feature, an error, or neither. *)
RowFate(headers, values) ==
  CASE Len(values) # Len(headers) -> "error"
    [] Len(values) = Len(headers) /\ Column(headers, "lat") * Column(headers, "lng") = 0 -> "neither"
    [] OTHER ->
         IF IsNaN(values[Column(headers, "lat")]) \/ IsNaN(values[Column(headers, "lng")])
         THEN "error" ELSE "feature"

ParseCsv(headers, lines) ==
  LET rows == [i \in DOMAIN lines |-> ParseCsvRow(lines[i])]
      Fated(fate) == InOrder({i \in DOMAIN rows : RowFate(headers, rows[i]) = fate})
      good == Fated("feature")
      bad == Fated("error")
      Feature(i) ==
        LET properties == Properties(headers, rows[i])
        IN [type |-> "Point", properties |-> properties,
            name |-> NameOf(properties, <<"Point ", ToString(i)>>)]
  IN IF Len(lines) = 0 \/ Column(headers, "lat") + Column(headers, "wkt") = 0
     THEN Parsed(<<>>, <<0>>)
     ELSE Parsed([k \in DOMAIN good |-> Feature(good[k])], [k \in DOMAIN bad |-> bad[k] + 1])

------------------------------------------------------------------------------
(* GeoJSON. *)

(* An item of "features", or the root itself. *)
Item(type, geometry, properties) ==
  [type |-> type, geometry |-> geometry, properties |-> properties]

ImportedItem(item, generated) ==
  [type |-> item.geometry, properties |-> item.properties,
   name |-> NameOf(item.properties, generated)]

ParseCollection(items) ==
  LET valid == {i \in DOMAIN items : items[i].type = "Feature" /\ items[i].geometry # "none"}
      good == InOrder(valid)
  IN Parsed([k \in DOMAIN good |->
               ImportedItem(items[good[k]], <<"Imported ", ToString(good[k])>>)],
            InOrder(DOMAIN items \ valid))

ParseFeature(item, title) ==
  IF item.geometry = "none" THEN Parsed(<<>>, <<0>>)
  ELSE Parsed(<<ImportedItem(item, title)>>, <<>>)

ParseGeoJson(root, items, title) ==
  CASE root = "FeatureCollection" -> ParseCollection(items)
    [] root = "Feature" -> ParseFeature(items[1], title)
    [] OTHER -> Parsed(<<>>, <<0>>)

------------------------------------------------------------------------------
(* Files.  A blank line is not a row. *)

CsvLines(rows) ==
  LET kept == InOrder({k \in DOMAIN rows : Trim(Line(rows[k])) # <<>>})
  IN [k \in DOMAIN kept |-> Line(rows[kept[k]])]

Csv(headers, rows) == [format |-> "csv", headers |-> headers, rows |-> rows]
GeoJson(root, items) == [format |-> "geojson", root |-> root, items |-> items]
Unsupported == [format |-> "other"]

Parse(file) ==
  IF file.format = "csv" THEN ParseCsv(file.headers, CsvLines(file.rows))
  ELSE ParseGeoJson(file.root, file.items, <<"title">>)

(* metadata.geometryTypes: the types of the features, each once. *)
GeometryTypes(result) == {result.features[k].type : k \in DOMAIN result.features}
================================================================================
