---------------------------- MODULE CatalogFolders ----------------------------
(***************************************************************************)
(* Catalog: the tree of folders (parent_id beside a materialized path and  *)
(* a level) and the features filed in them, under the create, update,      *)
(* delete, assign and remove calls of the API.                             *)
(*                                                                         *)
(* Interleaving: no call opens a transaction, so every writing statement   *)
(* commits by itself and the calls of other users run in between.  Reads   *)
(* that follow each other without a write are one step.  The database's    *)
(* constraints are checked with each statement; a statement that breaks    *)
(* one fails, and its call ends there.                                     *)
(*                                                                         *)
(* A path is the sequence of the ids after "root".  Left out: descriptions *)
(* and sort orders (written along with the other columns), other owners,   *)
(* deletion of features, and imports, whose transaction always rolls back  *)
(* (its file_format is a list of geometry types, which the table refuses). *)
(***************************************************************************)
EXTENDS Integers, Sequences, FiniteSets

CONSTANTS
  Folders,      (* folder ids                                                *)
  NoFolder,     (* null                                                      *)
  Names,        (* names of folders                                          *)
  Features,     (* features that can be filed                                *)
  Callers,      (* calls in flight                                           *)
  MaxDepth,     (* the deepest level: 10 in the code                         *)
  MaxCalls,     (* bound: calls that begin                                   *)
  MaxFailures   (* bound: failures of the database or the process            *)

ASSUME CatalogAssumption ==
  /\ NoFolder \notin Folders
  /\ IsFiniteSet(Features)
  /\ MaxDepth \in Nat
  /\ MaxCalls \in Nat
  /\ MaxFailures \in Nat

VARIABLES
  folders,      (* catalog.folders                                           *)
  filed,        (* folder_id of geometry.features                            *)
  call          (* each call: where it is, and what it holds in memory       *)

(* History, not read by any action of the code. *)
VARIABLES
  begun,        (* calls that have begun                                     *)
  failures,     (* calls that ended half-way                                 *)
  overlapped,   (* whether two calls have ever been in flight together       *)
  selfMoved     (* whether a folder was ever let be its own new parent       *)

vars == <<folders, filed, call, begun, failures, overlapped, selfMoved>>
history == <<begun, failures, overlapped, selfMoved>>

NewRow == [state |-> "new", name |-> NoFolder, parent |-> NoFolder, path |-> <<>>,
           level |-> 0, version |-> 0, count |-> 0]

NoCall == [pc |-> "idle"]
At(c, pc) == call[c].pc = pc
Goto(c, next) == call' = [call EXCEPT ![c] = next]

Begin(c, next) ==
  /\ begun < MaxCalls
  /\ begun' = begun + 1
  /\ Goto(c, next)
  /\ overlapped' = (overlapped \/ \E d \in Callers \ {c} : ~At(d, "idle"))
  /\ UNCHANGED <<failures, selfMoved>>

Live(f) == folders[f].state = "live"
Children(f) == {g \in Folders : Live(g) /\ folders[g].parent = f}
FiledIn(f) == {x \in Features : filed[x] = f}

(* path LIKE prefix || '/%' *)
Below(path, prefix) ==
  Len(path) > Len(prefix) /\ SubSeq(path, 1, Len(prefix)) = prefix

(* findDescendantIds: by the path, not by parent_id. *)
Descendants_Children(f) == Children(f)
Descendants(f) == {g \in Folders : Live(g) /\ Below(folders[g].path, folders[f].path)}

NameTaken(f, name, parent) ==
  \E g \in Folders \ {f} :
    Live(g) /\ folders[g].name = name /\ folders[g].parent = parent

------------------------------------------------------------------------------
(* The foreign key, the CHECK on level and the unique names of siblings. *)
Allowed(table) ==
  \A f \in Folders : table[f].state = "live" =>
    /\ table[f].level <= MaxDepth
    /\ table[f].parent # NoFolder => table[table[f].parent].state = "live"
    /\ \A g \in Folders \ {f} :
         table[g].state = "live" /\ table[g].parent = table[f].parent
           => table[g].name # table[f].name

(* INSERT *)
Inserted(f, row) == [folders EXCEPT ![f] = row]

(* updateSubtreePaths: replace(path, old, new), level + delta, for path LIKE *)
(* old || '/%'.                                                              *)
Rebased_LevelKept(old, new, delta) ==
  [f \in Folders |->
    IF Live(f) /\ Below(folders[f].path, old)
      THEN [folders[f] EXCEPT !.path = new \o SubSeq(@, Len(old) + 1, Len(@))]
      ELSE folders[f]]
Rebased_ChildrenOnly(old, new, delta) ==
  [f \in Folders |->
    IF Live(f) /\ Below(folders[f].path, old) /\ Len(folders[f].path) = Len(old) + 1
      THEN [folders[f] EXCEPT !.path = new \o SubSeq(@, Len(old) + 1, Len(@)),
                              !.level = @ + delta]
      ELSE folders[f]]
Rebased(old, new, delta) ==
  [f \in Folders |->
    IF Live(f) /\ Below(folders[f].path, old)
      THEN [folders[f] EXCEPT !.path = new \o SubSeq(@, Len(old) + 1, Len(@)),
                              !.level = @ + delta]
      ELSE folders[f]]

(* UPDATE ... WHERE id: every column but feature_count, from memory. *)
Saved(f, row) ==
  IF Live(f) THEN [folders EXCEPT ![f] = [row EXCEPT !.count = folders[f].count]]
             ELSE folders

(* DELETE: ON DELETE SET NULL leaves the children at the root. *)
Deleted(f) ==
  [g \in Folders |->
    CASE g = f -> [NewRow EXCEPT !.state = "deleted"]
      [] g # f /\ Live(g) /\ folders[g].parent = f -> [folders[g] EXCEPT !.parent = NoFolder]
      [] OTHER -> folders[g]]

(* The features of a deleted folder are unfiled the same way. *)
Unfiled(f) == [x \in Features |-> IF filed[x] = f THEN NoFolder ELSE filed[x]]

------------------------------------------------------------------------------
(* CreateFolderUseCase: the parent, its level and the name are checked ...   *)
Path_OfParent(f, parent) == IF parent = NoFolder THEN <<f>> ELSE folders[parent].path
Path(f, parent) == IF parent = NoFolder THEN <<f>> ELSE Append(folders[parent].path, f)
Level(parent)   == IF parent = NoFolder THEN 0 ELSE folders[parent].level + 1

CreateReads(c) ==
  /\ At(c, "idle")
  /\ \E f \in Folders, parent \in Folders \cup {NoFolder}, name \in Names :
       /\ folders[f].state = "new"
       /\ \A d \in Callers : At(d, "creating") => call[d].folder # f
       /\ parent # NoFolder => Live(parent) /\ folders[parent].level < MaxDepth
       /\ ~NameTaken(f, name, parent)
       /\ Begin(c, [pc |-> "creating", folder |-> f,
                    row |-> [state |-> "live", name |-> name, parent |-> parent,
                             path |-> Path(f, parent), level |-> Level(parent),
                             version |-> 1, count |-> 0]])
  /\ UNCHANGED <<folders, filed>>

(* ... and the row is inserted. *)
CreateInserts(c) ==
  /\ At(c, "creating")
  /\ LET table == Inserted(call[c].folder, call[c].row) IN
       Allowed(table) /\ folders' = table
  /\ Goto(c, NoCall)
  /\ UNCHANGED <<filed, history>>

------------------------------------------------------------------------------
(* UpdateFolderUseCase: the version a caller expects is the row's, the new   *)
(* name is free under the old parent; a move goes on to its own checks.      *)
UpdateReads(c) ==
  /\ At(c, "idle")
  /\ \E f \in Folders, parent \in Folders \cup {NoFolder}, name \in Names :
       /\ Live(f)
       /\ name # folders[f].name => ~NameTaken(f, name, folders[f].parent)
       /\ LET row == [folders[f] EXCEPT !.version = @ + 1, !.name = name] IN
          Begin(c, IF parent = row.parent THEN [pc |-> "saving", folder |-> f, row |-> row]
                   ELSE [pc |-> "checking", folder |-> f, row |-> row, parent |-> parent])
  /\ UNCHANGED <<folders, filed>>

MayMove(f, parent) ==
  parent # NoFolder =>
    /\ Live(f) => parent \notin Descendants(f)
    /\ Live(parent)
    /\ folders[parent].level < MaxDepth

(* Cycle detection, the new parent, and withParent on the row in memory.  The *)
(* folder is not among its descendants, so it may be its own new parent.      *)
MoveReads(c) ==
  /\ At(c, "checking")
  /\ LET f == call[c].folder  row == call[c].row  parent == call[c].parent IN
       /\ MayMove(f, parent)
       /\ Goto(c, [pc |-> "moving", folder |-> f, old |-> row.path,
                   by |-> Level(parent) - row.level,
                   row |-> [row EXCEPT !.parent = parent, !.path = Path(f, parent),
                                       !.level = Level(parent)]])
       /\ selfMoved' = (selfMoved \/ parent = f)
  /\ UNCHANGED <<folders, filed, begun, failures, overlapped>>

MoveRefused(c) ==
  /\ At(c, "checking")
  /\ ~MayMove(call[c].folder, call[c].parent)
  /\ Goto(c, NoCall)
  /\ UNCHANGED <<folders, filed, history>>

MoveSubtree(c) ==
  /\ At(c, "moving")
  /\ LET table == Rebased(call[c].old, call[c].row.path, call[c].by) IN
       Allowed(table) /\ folders' = table
  /\ Goto(c, [pc |-> "saving", folder |-> call[c].folder, row |-> call[c].row])
  /\ UNCHANGED <<filed, history>>

UpdateSaves(c) ==
  /\ At(c, "saving")
  /\ LET table == Saved(call[c].folder, call[c].row) IN
       Allowed(table) /\ folders' = table
  /\ Goto(c, NoCall)
  /\ UNCHANGED <<filed, history>>

------------------------------------------------------------------------------
(* DeleteFolderUseCase: refused with children unless recursive.  The call    *)
(* unfiles the features of the folder one by one, then does the same for     *)
(* each descendant it lists and deletes it, and deletes the folder last.     *)
DeleteReads(c) ==
  /\ At(c, "idle")
  /\ \E f \in Folders, recursive \in BOOLEAN :
       /\ Live(f)
       /\ Children(f) # {} => recursive
       /\ Begin(c, [pc |-> "emptying", folder |-> f, recursive |-> recursive,
                    target |-> f, left |-> {}, features |-> FiledIn(f)])
  /\ UNCHANGED <<folders, filed>>

DeleteUnfiles(c) ==
  /\ At(c, "emptying")
  /\ \E x \in call[c].features :
       /\ filed' = [filed EXCEPT ![x] = NoFolder]
       /\ call' = [call EXCEPT ![c].features = @ \ {x}]
  /\ UNCHANGED <<folders, history>>

Emptied(c) == At(c, "emptying") /\ call[c].features = {}

DeleteLists(c) ==
  /\ Emptied(c)
  /\ call[c].target = call[c].folder
  /\ Goto(c, [pc |-> "deleting", folder |-> call[c].folder,
              left |-> IF call[c].recursive /\ Live(call[c].folder)
                         THEN Descendants(call[c].folder) ELSE {}])
  /\ UNCHANGED <<folders, filed, history>>

DeleteNext(c) ==
  /\ At(c, "deleting")
  /\ \E d \in call[c].left :
       Goto(c, [pc |-> "emptying", folder |-> call[c].folder, recursive |-> TRUE,
                target |-> d, left |-> call[c].left \ {d}, features |-> FiledIn(d)])
  /\ UNCHANGED <<folders, filed, history>>

DeleteRow(f) ==
  /\ Allowed(Deleted(f))
  /\ folders' = Deleted(f)
  /\ filed' = Unfiled(f)

DeleteDescendant(c) ==
  /\ Emptied(c)
  /\ call[c].target # call[c].folder
  /\ DeleteRow(call[c].target)
  /\ Goto(c, [pc |-> "deleting", folder |-> call[c].folder, left |-> call[c].left])
  /\ UNCHANGED history

DeleteSelf(c) ==
  /\ At(c, "deleting")
  /\ call[c].left = {}
  /\ DeleteRow(call[c].folder)
  /\ Goto(c, NoCall)
  /\ UNCHANGED history

------------------------------------------------------------------------------
(* AssignFeaturesUseCase: the folder's count as it was read, the UPDATE of   *)
(* the features, a new count, and the difference added to the column.        *)
AssignReads(c) ==
  /\ At(c, "idle")
  /\ \E f \in Folders, xs \in SUBSET Features :
       /\ Live(f)
       /\ xs # {}
       /\ Begin(c, [pc |-> "assigning", folder |-> f, features |-> xs,
                    count |-> folders[f].count])
  /\ UNCHANGED <<folders, filed>>

AssignFiles(c) ==
  /\ At(c, "assigning")
  /\ Live(call[c].folder)
  /\ filed' = [x \in Features |->
                 IF x \in call[c].features THEN call[c].folder ELSE filed[x]]
  /\ Goto(c, [pc |-> "counting", folder |-> call[c].folder, count |-> call[c].count])
  /\ UNCHANGED <<folders, history>>

Difference_CountAnew(c) == Cardinality(FiledIn(call[c].folder))
Difference(c) == Cardinality(FiledIn(call[c].folder)) - call[c].count

AssignCounts(c) ==
  /\ At(c, "counting")
  /\ Goto(c, [pc |-> "adding", folder |-> call[c].folder, delta |-> Difference(c)])
  /\ UNCHANGED <<folders, filed, history>>

(* GREATEST(0, feature_count + delta) *)
Added(f, delta) ==
  LET sum == folders[f].count + delta
  IN  IF Live(f) THEN [folders EXCEPT ![f].count = IF sum > 0 THEN sum ELSE 0] ELSE folders

AssignAdds(c) ==
  /\ At(c, "adding")
  /\ folders' = Added(call[c].folder, call[c].delta)
  /\ Goto(c, NoCall)
  /\ UNCHANGED <<filed, history>>

(* The controller's removeFeature: the feature may be in another folder than *)
(* the one the caller names, and the difference is always 1.                 *)
RemoveFeature(c) ==
  /\ At(c, "idle")
  /\ \E f \in Folders, x \in Features :
       /\ filed' = [filed EXCEPT ![x] = NoFolder]
       /\ Begin(c, [pc |-> "removing", folder |-> f])
  /\ UNCHANGED folders

RemoveCounts(c) ==
  /\ At(c, "removing")
  /\ folders' = Added(call[c].folder, 1)
  /\ Goto(c, NoCall)
  /\ UNCHANGED <<filed, history>>

------------------------------------------------------------------------------
(* A statement breaks a constraint: it changes nothing and the call ends.    *)
StatementRefused(c) ==
  /\ \/ At(c, "creating") /\ ~Allowed(Inserted(call[c].folder, call[c].row))
     \/ At(c, "moving") /\ ~Allowed(Rebased(call[c].old, call[c].row.path, call[c].by))
     \/ At(c, "saving") /\ ~Allowed(Saved(call[c].folder, call[c].row))
     \/ /\ Emptied(c)
        /\ call[c].target # call[c].folder
        /\ ~Allowed(Deleted(call[c].target))
     \/ At(c, "deleting") /\ call[c].left = {} /\ ~Allowed(Deleted(call[c].folder))
     \/ At(c, "assigning") /\ ~Live(call[c].folder)
  /\ failures' = failures + 1
  /\ Goto(c, NoCall)
  /\ UNCHANGED <<folders, filed, begun, overlapped, selfMoved>>

(* The database or the process fails: the rest of the call is gone. *)
CallFails(c) ==
  /\ ~At(c, "idle")
  /\ failures < MaxFailures
  /\ failures' = failures + 1
  /\ Goto(c, NoCall)
  /\ UNCHANGED <<folders, filed, begun, overlapped, selfMoved>>

------------------------------------------------------------------------------
Init ==
  /\ folders = [f \in Folders |-> NewRow]
  /\ filed = [x \in Features |-> NoFolder]
  /\ call = [c \in Callers |-> NoCall]
  /\ begun = 0
  /\ failures = 0
  /\ overlapped = FALSE
  /\ selfMoved = FALSE

Next ==
  \E c \in Callers :
    \/ CreateReads(c) \/ CreateInserts(c)
    \/ UpdateReads(c) \/ MoveReads(c) \/ MoveRefused(c) \/ MoveSubtree(c) \/ UpdateSaves(c)
    \/ DeleteReads(c) \/ DeleteUnfiles(c) \/ DeleteLists(c) \/ DeleteNext(c)
    \/ DeleteDescendant(c) \/ DeleteSelf(c)
    \/ AssignReads(c) \/ AssignFiles(c) \/ AssignCounts(c) \/ AssignAdds(c)
    \/ RemoveFeature(c) \/ RemoveCounts(c)
    \/ StatementRefused(c) \/ CallFails(c)

Spec == Init /\ [][Next]_vars

------------------------------------------------------------------------------
Parents == Folders \cup {NoFolder}

Rows == [state : {"live"}, name : Names, parent : Parents, path : Seq(Folders),
         level : 0..MaxDepth, version : Nat, count : Nat]

CallStates ==
  {NoCall}
    \cup [pc : {"creating", "saving"}, folder : Folders, row : Rows]
    \cup [pc : {"checking"}, folder : Folders, row : Rows, parent : Parents]
    \cup [pc : {"moving"}, folder : Folders, row : Rows, old : Seq(Folders), by : Int]
    \cup [pc : {"emptying"}, folder : Folders, recursive : BOOLEAN, target : Folders,
          left : SUBSET Folders, features : SUBSET Features]
    \cup [pc : {"deleting"}, folder : Folders, left : SUBSET Folders]
    \cup [pc : {"assigning"}, folder : Folders, features : SUBSET Features, count : Nat]
    \cup [pc : {"counting"}, folder : Folders, count : Nat]
    \cup [pc : {"adding"}, folder : Folders, delta : Int]
    \cup [pc : {"removing"}, folder : Folders]

(* Every variable has its type. *)
TypeOK ==
  /\ folders \in [Folders -> Rows \cup {NewRow, [NewRow EXCEPT !.state = "deleted"]}]
  /\ filed \in [Features -> Parents]
  /\ call \in [Callers -> CallStates]
  /\ begun \in Nat
  /\ failures \in Nat
  /\ overlapped \in BOOLEAN
  /\ selfMoved \in BOOLEAN

(* level and path are two accounts of the depth, written by three different  *)
(* statements from values of different ages.  They never disagree, and the   *)
(* last id of a path is the folder's own.                                    *)
LevelCountsPath ==
  \A f \in Folders : Live(f) =>
    /\ Len(folders[f].path) = folders[f].level + 1
    /\ folders[f].path[Len(folders[f].path)] = f

(* "Need to maintain path consistency": the path repeats the parents. *)
PathsMatchParents ==
  \A f \in Folders : Live(f) => folders[f].path = Path(f, folders[f].parent)

AtRest == \A c \in Callers : At(c, "idle")

(* What the calls were written for: one after the other, none ended half-way, *)
(* and no folder moved into itself.  The last is about what callers did, for   *)
(* no check of the code keeps them from it: once a folder is its own parent,   *)
(* its own path and, with later moves, those around it are wrong for good.     *)
InOrder == ~overlapped /\ failures = 0 /\ ~selfMoved

(* Calls in order leave the paths right, at every rest between two of them. *)
PathsInTurn == AtRest /\ InOrder => PathsMatchParents

(* Deleting a folder in order leaves nothing that was below it. *)
DeletionTakesSubtree ==
  [][\A c \in Callers : DeleteSelf(c) /\ InOrder =>
       \A g \in Folders : folders'[g].state = "live" =>
         ~Below(folders'[g].path, folders[call[c].folder].path)]_vars

(* "Update denormalized feature count": an assign call that no other call    *)
(* interrupts leaves the exact count, whatever was wrong with it before.     *)
AssignedCountExact ==
  [][\A c \in Callers : AssignAdds(c) /\ ~overlapped =>
       folders'[call[c].folder].count = Cardinality(FiledIn(call[c].folder))]_vars

(* "Cycle detection on moves": following parents from a folder ends at the   *)
(* root.                                                                     *)
NoCycles ==
  \A fs \in SUBSET {f \in Folders : Live(f)} :
    fs # {} => \E f \in fs : folders[f].parent \notin fs

(***************************************************************************)
(* What makes these inductive.  Of calls that never overlapped one at most *)
(* is in flight: what it read of its folder's count still holds, and if    *)
(* none has failed, the paths match the parents but for what the call is   *)
(* about to save or to delete.                                             *)
(***************************************************************************)
Alone == \A c, d \in Callers : ~At(c, "idle") /\ ~At(d, "idle") => c = d

CountTrue(c) ==
  /\ At(c, "assigning") \/ At(c, "counting") =>
       Live(call[c].folder) /\ call[c].count = folders[call[c].folder].count
  /\ At(c, "adding") =>
       /\ Live(call[c].folder)
       /\ call[c].delta = Cardinality(FiledIn(call[c].folder)) - folders[call[c].folder].count

InTurn == ~overlapped => Alone /\ \A c \in Callers : CountTrue(c)

Consistent(table) ==
  \A f \in Folders : table[f].state = "live" =>
    table[f].path = IF table[f].parent = NoFolder THEN <<f>>
                    ELSE Append(table[table[f].parent].path, f)

WriteTrue(c) ==
  /\ At(c, "creating") => Consistent(Inserted(call[c].folder, call[c].row))
  /\ At(c, "checking") =>
       Live(call[c].folder) /\ call[c].row.path = folders[call[c].folder].path
  /\ At(c, "moving") =>
       /\ Live(call[c].folder) /\ call[c].old = folders[call[c].folder].path
       /\ call[c].row.path = Path(call[c].folder, call[c].row.parent)
       /\ call[c].row.parent # NoFolder => Live(call[c].row.parent)
       /\ call[c].row.parent \notin {call[c].folder} \cup Descendants(call[c].folder)
  /\ At(c, "saving") =>
       Live(call[c].folder) /\ Consistent(Saved(call[c].folder, call[c].row))

(* The descendants are listed, and those not deleted yet; all others stay. *)
Listed(c) == At(c, "deleting") \/ (At(c, "emptying") /\ call[c].target # call[c].folder)

Doomed(c) ==
  {call[c].folder} \cup call[c].left \cup (IF At(c, "emptying") THEN {call[c].target} ELSE {})

Stays(g, c) ==
  /\ folders[g].path = Path(g, folders[g].parent)
  /\ folders[g].parent \notin Doomed(c)
  /\ ~Below(folders[g].path, folders[call[c].folder].path)

DeleteTrue(c) ==
  /\ At(c, "emptying") /\ ~Listed(c) =>
       Live(call[c].folder) /\ (call[c].recursive \/ Children(call[c].folder) = {})
  /\ Listed(c) =>
       /\ Live(call[c].folder) /\ call[c].folder \notin call[c].left
       /\ \A g \in Folders : Live(g) /\ g \notin Doomed(c) => Stays(g, c)

PathsTrue ==
  /\ \A c \in Callers : WriteTrue(c) /\ DeleteTrue(c)
  /\ (\A c \in Callers : ~At(c, "saving") /\ ~Listed(c)) => PathsMatchParents

FoldersInTurn ==
  /\ Allowed(folders)
  /\ InTurn
  /\ InOrder => PathsTrue
==============================================================================
