---------------------------- MODULE MCCatalogImport ----------------------------
(* Instances of CatalogImport for TLC. *)
EXTENDS CatalogImport, FiniteSetsExt, Functions

ImportSymmetry == Permutations(Callers)

(* Cells that need quoting, and some that do not. *)
Names == {<<>>, <<Space, "a">>, <<Quote>>, <<Quote, Comma, Quote>>}
Coordinates == {<<"1">>, <<"1", "a">>, <<"a">>}

(* Every row of three columns, a ragged one and a blank line. *)
Rows == {<<n, lat, lng>> : n \in Names, lat \in Coordinates, lng \in {<<"0">>, <<>>}}
Ragged == <<<<"1">>, <<"1">>>>
Blank == <<<<Space>>>>
Plain == <<<<"a">>, <<"1">>, <<"0">>>>

CsvFiles ==
  {Csv(<<"name", "lat", "lng">>, rows) :
     rows \in {<<>>} \cup {<<r>> : r \in Rows}
              \cup {<<a, b>> : a \in {Plain, Ragged, Blank}, b \in {Plain, Ragged}}}
  \cup {Csv(headers, <<Plain>>) :
     headers \in {<<"lng", "other", "lat">>, <<"wkt", "name", "other">>,
                  <<"lat", "name", "other">>, <<"name", "name", "other">>}}

Named(name) == [n \in {"name"} |-> name]
Nameless == [n \in {} |-> <<>>]
Items ==
  {Item("Feature", "Point", Named(<<"b">>)), Item("Feature", "LineString", Nameless),
   Item("Feature", "none", Nameless), Item("Geometry", "none", Nameless)}

(* Three types together are longer than file_format. *)
Mixed ==
  <<Item("Feature", "Point", Nameless), Item("Feature", "LineString", Nameless),
    Item("Feature", "Polygon", Nameless)>>

GeoJsonFiles ==
  {GeoJson("FeatureCollection", items) :
     items \in {<<>>, Mixed} \cup {<<a>> : a \in Items} \cup {<<a, b>> : a, b \in Items}}
  \cup {GeoJson("Feature", <<a>>) : a \in {i \in Items : i.type = "Feature"}}
  \cup {GeoJson("other", <<>>)}

MCFiles == CsvFiles \cup GeoJsonFiles \cup {Unsupported}

TypeLength == [Point |-> 5, LineString |-> 10, Polygon |-> 7]

(* geometryTypes.join(',') *)
JoinedWidth(types) ==
  IF types = {} THEN 0
  ELSE FoldSet(LAMBDA t, sum : sum + TypeLength[t] + 1, 0, types) - 1

Renamed == <<"c">>
==============================================================================
