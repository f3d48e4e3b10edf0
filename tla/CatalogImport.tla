----------------------------- MODULE CatalogImport -----------------------------
(***************************************************************************)
(* Catalog: importing a file into a folder, and exporting the folder.      *)
(*                                                                         *)
(* An import reads the folder, parses the file and stores the features,    *)
(* the folder's count and a job row in one transaction.  Each statement of *)
(* it is a step: its rows are its own until it commits, the folder's row   *)
(* is locked by its UPDATE, and the foreign keys keep the folder while     *)
(* there are rows that refer to it.  An exported document can be imported  *)
(* again.                                                                  *)
(*                                                                         *)
(* The repository makes three databases (Databases), and the statements of *)
(* an import agree with none of them: where the features have the columns  *)
(* it writes, the CHECK on file_format refuses its job.  A fourth, which   *)
(* has those columns and not the CHECK, is assumed: the properties speak   *)
(* of stored features there, and of refused imports in the other three.    *)
(* Owners, tags, coordinates and times are left out, and so is the count   *)
(* when features are assigned and removed (CatalogFolders).                *)
(***************************************************************************)
EXTENDS Naturals, Sequences, FiniteSets, FileParsers

CONSTANTS
  Callers,      (* requests in flight                                          *)
  Files,        (* files that clients upload                                   *)
  Width(_),     (* characters of file_format for a set of geometry types       *)
  NewName,      (* what an editor of the geometry module renames a feature to  *)
  MaxUploads,   (* bound: imports ever started                                 *)
  MaxChanges    (* bound: exports, renamings, unfilings and deletions          *)

NoCaller == "nobody"

IsList(s) == s \in Seq({s[i] : i \in DOMAIN s})

(* A table is a list of rows, a row a list of cells, a cell a text. *)
IsTable(rows) ==
  /\ IsList(rows)
  /\ \A k \in DOMAIN rows : IsList(rows[k]) /\ \A i \in DOMAIN rows[k] : IsList(rows[k][i])

IsFile(file) ==
  /\ file.format \in {"csv", "geojson", "other"}
  /\ file.format = "csv" => IsList(file.headers) /\ IsTable(file.rows)
  /\ file.format = "geojson" => IsList(file.items)

(* The name of a feature is NOT NULL.  (It may be the empty text, which is not  *)
(* told from null here.)                                                        *)
ASSUME ImportAssumption ==
  /\ NoCaller \notin Callers
  /\ MaxUploads \in Nat /\ MaxChanges \in Nat
  /\ \A file \in Files : IsFile(file)
  /\ NewName # Null

VARIABLES
  database,     (* what was made of the schema                                 *)
  folder,       (* the row of the folder: its count, who has it locked         *)
  row,          (* geometry.features, committed, in the order of their commits *)
  job,          (* catalog.import_jobs, committed                              *)
  call,         (* each request: where it is and what it holds                 *)
  download      (* exported documents, each with the rows it was made of       *)

(* History, not read by any action of the code. *)
VARIABLES
  answers,      (* what imports answered                                       *)
  uploads,      (* imports started, which numbers them                         *)
  changes       (* exports, renamings, unfilings, deletions so far             *)

vars == <<database, folder, row, job, call, download, answers, uploads, changes>>

(* Whether geometry.features has the columns geometry and folder_id, whether    *)
(* import_jobs_format_check is there, and whether a folder's import jobs go     *)
(* with it (or else keep it from being deleted).                                *)
HandWritten == [columns |-> TRUE,  checked |-> TRUE,  cascades |-> TRUE]
Regenerated == [columns |-> FALSE, checked |-> TRUE,  cascades |-> FALSE]
FromSchema  == [columns |-> FALSE, checked |-> FALSE, cascades |-> FALSE]
Assumed     == [columns |-> TRUE,  checked |-> FALSE, cascades |-> FALSE]

Databases == {HandWritten, Regenerated, FromSchema, Assumed}

NoCall == [pc |-> "idle"]
At(c, pc) == call[c].pc = pc
Goto(c, pc) == call' = [call EXCEPT ![c].pc = pc]
Done(c) == call' = [call EXCEPT ![c] = NoCall]

Stages == {"inserting", "recording", "committing"}
InTransaction(c) == call[c].pc \in Stages

(* Rows in a transaction refer to the folder. *)
Referred(c) == InTransaction(c) /\ call[c].own # <<>>

Features(c) == call[c].result.features
Errors(c) == call[c].result.errors

Status(c) == IF Errors(c) = <<>> THEN "completed" ELSE "partial"

(* The answer of import n; doubtful: the client cannot know what became of it. *)
Answer(n, status, created, failed, doubtful) ==
  [import |-> n, status |-> status, created |-> created, failed |-> failed,
   doubtful |-> doubtful]

Answers(c, status, created, failed, doubtful) ==
  answers' = answers \cup {Answer(call[c].import, status, created, failed, doubtful)}

------------------------------------------------------------------------------
(* Import. *)

Upload(c, file) ==
  /\ At(c, "idle")
  /\ uploads < MaxUploads
  /\ uploads' = uploads + 1
  /\ call' = [call EXCEPT ![c] = [pc |-> "uploaded", import |-> uploads + 1, file |-> file]]
  /\ UNCHANGED <<database, folder, row, job, download, answers, changes>>

(* findById, supports, parse: the import is refused, fails at once, or starts  *)
(* its transaction.                                                            *)
ImportReads(c) ==
  /\ At(c, "uploaded")
  /\ IF ~folder.exists \/ call[c].file.format = "other"
     THEN Done(c) /\ UNCHANGED answers
     ELSE LET result == Parse(call[c].file)
          IN IF result.features = <<>> /\ result.errors # <<>>
             THEN /\ Answers(c, "failed", 0, Len(result.errors), FALSE)
                  /\ Done(c)
             ELSE /\ call' = [call EXCEPT ![c] =
                       [pc |-> "inserting", import |-> @.import, result |-> result, own |-> <<>>]]
                  /\ UNCHANGED answers
  /\ UNCHANGED <<database, folder, row, job, download, uploads, changes>>

StoredFeature(c, feature) ==
  [import |-> call[c].import, filed |-> TRUE, deleted |-> FALSE,
   type |-> feature.type, name |-> feature.name, properties |-> feature.properties]

NextFeature(c) == StoredFeature(c, Features(c)[Len(call[c].own) + 1])

(* INSERT INTO geometry.features *)
InsertFeature_Autocommit(c) ==
  /\ At(c, "inserting") /\ database.columns /\ folder.exists
  /\ Len(call[c].own) < Len(Features(c))
  /\ call' = [call EXCEPT ![c].own = Append(@, NextFeature(c))]
  /\ row' = Append(row, NextFeature(c))
  /\ UNCHANGED <<database, folder, job, download, answers, uploads, changes>>
InsertFeature(c) ==
  /\ At(c, "inserting") /\ database.columns /\ folder.exists
  /\ Len(call[c].own) < Len(Features(c))
  /\ call' = [call EXCEPT ![c].own = Append(@, NextFeature(c))]
  /\ UNCHANGED <<database, folder, row, job, download, answers, uploads, changes>>

(* UPDATE catalog.folders waits for the lock; a deleted folder matches no row. *)
CountFeatures(c) ==
  /\ At(c, "inserting")
  /\ Len(call[c].own) = Len(Features(c))
  /\ folder.exists => folder.lockedBy = NoCaller
  /\ folder' = IF folder.exists THEN [folder EXCEPT !.lockedBy = c] ELSE folder
  /\ Goto(c, "recording")
  /\ UNCHANGED <<database, row, job, download, answers, uploads, changes>>

(* The constraints of import_jobs: the folder, VARCHAR(20), and the CHECK that *)
(* no list of geometry types meets.                                            *)
JobAllowed(c) ==
  /\ folder.exists
  /\ Width(GeometryTypes(call[c].result)) <= 20
  /\ ~database.checked

RecordJob(c) ==
  /\ At(c, "recording")
  /\ JobAllowed(c)
  /\ Goto(c, "committing")
  /\ UNCHANGED <<database, folder, row, job, download, answers, uploads, changes>>

JobRow(c) ==
  [import |-> call[c].import, status |-> Status(c),
   created |-> Len(Features(c)), failed |-> Len(Errors(c))]

(* feature_count + $1, on the row as it is when the lock is granted. *)
Counted_Overwritten(n) == n
Counted(n) == folder.count + n

(* The end of $transaction. *)
Stored(c) ==
  /\ row' = row \o call[c].own
  /\ job' = job \cup {JobRow(c)}
  /\ folder' = [folder EXCEPT !.count = Counted(Len(Features(c))), !.lockedBy = NoCaller]

Commit(c) ==
  /\ At(c, "committing")
  /\ Stored(c)
  /\ Answers(c, Status(c), Len(call[c].own), Len(Errors(c)), FALSE)
  /\ Done(c)
  /\ UNCHANGED <<database, download, uploads, changes>>

Unlocked(c) == IF folder.lockedBy = c THEN [folder EXCEPT !.lockedBy = NoCaller] ELSE folder

(* A statement throws (a constraint, a geometry PostGIS refuses, the connection, *)
(* the timeout of the transaction): it is rolled back and execute answers.      *)
ImportFails(c) ==
  /\ InTransaction(c)
  /\ folder' = Unlocked(c)
  /\ Answers(c, "failed", 0, Len(Features(c)), FALSE)
  /\ Done(c)
  /\ UNCHANGED <<database, row, job, download, uploads, changes>>

(* The COMMIT is done, its acknowledgement lost. *)
AcknowledgementLost(c) ==
  /\ At(c, "committing")
  /\ Stored(c)
  /\ Answers(c, "failed", 0, Len(Features(c)), TRUE)
  /\ Done(c)
  /\ UNCHANGED <<database, download, uploads, changes>>

------------------------------------------------------------------------------
(* Export. *)

Exportable(r) == r.filed /\ ~r.deleted

(* { ...row.properties, name: row.name }: the name of the row wins. *)
ExportedProperties_RowFirst(r) ==
  [p \in DOMAIN r.properties \cup {"name"} |->
     IF p \in DOMAIN r.properties THEN r.properties[p] ELSE r.name]
ExportedProperties(r) ==
  [p \in DOMAIN r.properties \cup {"name"} |-> IF p = "name" THEN r.name ELSE r.properties[p]]

ExportedItem(r) == Item("Feature", r.type, ExportedProperties(r))

Change == changes < MaxChanges /\ changes' = changes + 1

(* findById.  Without the column folder_id its SELECT ends the call (Dies).     *)
ExportReads(c) ==
  /\ At(c, "idle")
  /\ Change
  /\ folder.exists
  /\ call' = [call EXCEPT ![c] = [pc |-> "exporting"]]
  /\ UNCHANGED <<database, folder, row, job, download, answers, uploads>>

(* SELECT ... WHERE folder_id = $1 AND is_deleted = false; the answer. *)
ExportSelects(c) ==
  /\ At(c, "exporting") /\ database.columns
  /\ LET kept == InOrder({i \in DOMAIN row : Exportable(row[i])})
         rows == [k \in DOMAIN kept |-> row[kept[k]]]
         items == [k \in DOMAIN rows |-> ExportedItem(rows[k])]
     IN download' = download \cup {[file |-> GeoJson("FeatureCollection", items), rows |-> rows]}
  /\ Done(c)
  /\ UNCHANGED <<database, folder, row, job, answers, uploads, changes>>

------------------------------------------------------------------------------
(* What else happens. *)

(* The process dies, or its connection, or a query throws outside the try:     *)
(* what is not committed is rolled back.                                       *)
Dies(c) ==
  /\ ~At(c, "idle")
  /\ folder' = Unlocked(c)
  /\ Done(c)
  /\ UNCHANGED <<database, row, job, download, answers, uploads, changes>>

(* The geometry module renames a feature, whose properties it keeps, or marks  *)
(* it deleted, which leaves it filed.                                          *)
RenameFeature(i) ==
  /\ Change
  /\ ~row[i].deleted /\ row[i].name # NewName
  /\ row' = [row EXCEPT ![i].name = NewName]
  /\ UNCHANGED <<database, folder, job, call, download, answers, uploads>>

DeleteFeature(i) ==
  /\ Change
  /\ ~row[i].deleted
  /\ row' = [row EXCEPT ![i].deleted = TRUE]
  /\ UNCHANGED <<database, folder, job, call, download, answers, uploads>>

(* A deletion of the folder first unfiles its features, and may end there.      *)
UnfileFeatures ==
  /\ Change
  /\ database.columns /\ folder.exists
  /\ \E i \in DOMAIN row : row[i].filed
  /\ row' = [i \in DOMAIN row |-> [row[i] EXCEPT !.filed = FALSE]]
  /\ UNCHANGED <<database, folder, job, call, download, answers, uploads>>

(* Its last statement waits for rows that refer to the folder: features that    *)
(* were filed since are unfiled, its jobs go with it or keep it.                *)
DeleteFolder ==
  /\ Change
  /\ database.columns /\ folder.exists
  /\ database.cascades \/ job = {}
  /\ folder.lockedBy = NoCaller
  /\ \A c \in Callers : ~Referred(c)
  /\ folder' = [folder EXCEPT !.exists = FALSE]
  /\ row' = [i \in DOMAIN row |-> [row[i] EXCEPT !.filed = FALSE]]
  /\ job' = {}
  /\ UNCHANGED <<database, call, download, answers, uploads>>

------------------------------------------------------------------------------
Init ==
  /\ database \in Databases
  /\ folder = [exists |-> TRUE, count |-> 0, lockedBy |-> NoCaller]
  /\ row = <<>> /\ job = {}
  /\ call = [c \in Callers |-> NoCall]
  /\ download = {} /\ answers = {} /\ uploads = 0 /\ changes = 0

Next ==
  \/ \E c \in Callers :
       \/ \E file \in Files \cup {d.file : d \in download} : Upload(c, file)
       \/ ImportReads(c) \/ InsertFeature(c) \/ CountFeatures(c) \/ RecordJob(c)
       \/ Commit(c) \/ ImportFails(c) \/ AcknowledgementLost(c)
       \/ ExportReads(c) \/ ExportSelects(c)
       \/ Dies(c)
  \/ \E i \in DOMAIN row : RenameFeature(i) \/ DeleteFeature(i)
  \/ UnfileFeatures \/ DeleteFolder

Spec == Init /\ [][Next]_vars

------------------------------------------------------------------------------
(* The rows of a CSV file that are not blank lines. *)
Meant(cells) == Len(cells) > 1 \/ \E i \in DOMAIN cells : Trim(cells[i]) # <<>>

MeantRows(file) ==
  LET meant == InOrder({k \in DOMAIN file.rows : Meant(file.rows[k])})
  IN [k \in DOMAIN meant |-> file.rows[meant[k]]]

Usable(file, cells) ==
  /\ Len(cells) = Len(file.headers)
  /\ \A kind \in {"lat", "lng"} : ~IsNaN(cells[Column(file.headers, kind)])

(* "should handle quoted CSV fields", "should skip rows with invalid           *)
(* coordinates": of a file with latitude and longitude columns every row is    *)
(* accounted for once, as a feature with the very cells that were written,     *)
(* whatever commas and quotes they hold, or as an error that names the row.    *)
CsvRowsAccounted ==
  \A c \in Callers :
    At(c, "uploaded") /\ call[c].file.format = "csv"
      /\ {"lat", "lng"} \subseteq {call[c].file.headers[i] : i \in DOMAIN call[c].file.headers}
    => LET file == call[c].file
           meant == MeantRows(file)
           result == Parse(file)
           Before(k) == Cardinality({i \in 1..k : Usable(file, meant[i])})
       IN meant # <<>> =>
          /\ Len(result.features) + Len(result.errors) = Len(meant)
          /\ \A k \in DOMAIN meant :
               IF Usable(file, meant[k])
               THEN result.features[Before(k)].properties = Properties(file.headers, meant[k])
               ELSE \E e \in DOMAIN result.errors : result.errors[e] = k + 1

RowsOf(n) == {i \in DOMAIN row : row[i].import = n}

(* An import stores all of its features or none, and says so: as many as it     *)
(* answers it created, none when it answers that it failed, unless the answer   *)
(* to its COMMIT was lost; the job row tells the same.                          *)
AnswersTrue ==
  /\ \A a \in answers :
       \/ a.doubtful
       \/ a.status = "failed" /\ RowsOf(a.import) = {}
       \/ a.status # "failed" /\ Cardinality(RowsOf(a.import)) = a.created
  /\ \A j \in job : Cardinality(RowsOf(j.import)) = j.created
  /\ folder.exists =>
       \A i \in DOMAIN row : \E j \in job : j.import = row[i].import

(* The folder's count is the number of features that imports have stored in it, *)
(* whatever imports overlap and fail.  (Unfiling takes nothing off the count: a *)
(* deletion that its jobs refuse leaves the folder with none of them.)          *)
CountMatchesRows == folder.exists => folder.count = Len(row)

(* An exported document parses without an error, one feature for each row that  *)
(* was exported, in order and with its name and type.  (Storing them is another *)
(* matter: the types of all of them may be too long for file_format.)           *)
ExportParsesBack ==
  \A d \in download :
    LET result == Parse(d.file)
    IN /\ result.errors = <<>>
       /\ Len(result.features) = Len(d.rows)
       /\ \A k \in DOMAIN d.rows :
            /\ result.features[k].name = d.rows[k].name
            /\ result.features[k].type = d.rows[k].type

(***************************************************************************)
(* What makes AnswersTrue and CountMatchesRows inductive.  Every import    *)
(* has a number of its own, and none of one still in flight is in a row,   *)
(* an answer or a job; the rows of a transaction bear its number; an import *)
(* that has updated the folder holds its lock, and holds as many rows as it *)
(* parsed.                                                                 *)
(***************************************************************************)
FolderOK ==
  folder \in [exists : BOOLEAN, count : Nat, lockedBy : Callers \cup {NoCaller}]

IsRow(r) ==
  r = [import |-> r.import, filed |-> r.filed, deleted |-> r.deleted,
       type |-> r.type, name |-> r.name, properties |-> r.properties]

(* A sequence of rows, all of which a predicate of their import allows. *)
RowsBy(rows, numbers) ==
  /\ IsList(rows)
  /\ \A i \in DOMAIN rows : IsRow(rows[i]) /\ rows[i].import \in numbers

Numbered(c) == At(c, "uploaded") \/ InTransaction(c)

(* The numbers of imports no longer in flight. *)
Finished == (1..uploads) \ {call[c].import : c \in {d \in Callers : Numbered(d)}}

CallOK(c) ==
  /\ Numbered(c) => call[c].import \in 1..uploads
  /\ InTransaction(c) =>
       /\ call[c] = [pc |-> call[c].pc, import |-> call[c].import,
                     result |-> call[c].result, own |-> call[c].own]
       /\ RowsBy(call[c].own, {call[c].import})
  /\ At(c, "recording") \/ At(c, "committing") => Len(call[c].own) = Len(Features(c))
  /\ At(c, "recording") /\ folder.exists => folder.lockedBy = c
  /\ At(c, "committing") => folder.exists /\ folder.lockedBy = c

CallsOK ==
  /\ DOMAIN call = Callers
  /\ \A c \in Callers : CallOK(c)
  /\ \A c, d \in Callers : Numbered(c) /\ Numbered(d) /\ call[c].import = call[d].import => c = d

RowsOK ==
  /\ RowsBy(row, Finished)
  /\ folder.exists => folder.count = Len(row)

ImportInv ==
  /\ FolderOK /\ uploads \in Nat
  /\ CallsOK
  /\ RowsOK
  /\ \A x \in answers \cup job : x.import \in Finished
  /\ AnswersTrue

(***************************************************************************)
(* What makes an export parse back: whatever came out of a parser has a    *)
(* name and a geometry, and keeps them on its way through the transaction, *)
(* the table and the export.                                               *)
(***************************************************************************)
Complete(f) == f.name # Null /\ f.type # "none"

CompleteList(s) == IsList(s) /\ \A i \in DOMAIN s : Complete(s[i])

CompleteCall(c) ==
  /\ At(c, "uploaded") => IsFile(call[c].file)
  /\ InTransaction(c) =>
       /\ CompleteList(Features(c))
       /\ \A k \in DOMAIN call[c].own : Complete(call[c].own[k])

CompleteDownload(d) ==
  /\ CompleteList(d.rows)
  /\ d.file = GeoJson("FeatureCollection", [k \in DOMAIN d.rows |-> ExportedItem(d.rows[k])])

ExportInv ==
  /\ \A c \in Callers : CompleteCall(c)
  /\ \A i \in DOMAIN row : Complete(row[i])
  /\ \A d \in download : CompleteDownload(d)
==============================================================================
