------------------------- MODULE CatalogFoldersProofs -------------------------
(***************************************************************************)
(* What no interleaving of the folder calls can break, for every set of    *)
(* folders, callers and features and every depth: the types, and the       *)
(* agreement of level and path.  And what calls in turn keep right: the    *)
(* paths, the tree, what a recursive deletion takes, and the count of an   *)
(* assignment.                                                             *)
(***************************************************************************)
EXTENDS CatalogFolders, SequenceTheorems, FiniteSetTheorems, TLAPS

Blank == {NewRow, [NewRow EXCEPT !.state = "deleted"]}

(* A row of folder f whose level and path agree. *)
Sound(f, row) ==
  /\ row \in Rows
  /\ Len(row.path) = row.level + 1
  /\ row.path[Len(row.path)] = f

SoundTable(table) ==
  /\ table \in [Folders -> Rows \cup Blank]
  /\ \A f \in Folders : table[f].state = "live" => Sound(f, table[f])

(* A row in memory is sound, and a move shifts levels by as much as it       *)
(* lengthens paths.                                                          *)
SoundCall(m) ==
  /\ m \in CallStates
  /\ m.pc \in {"creating", "checking", "moving", "saving"} => Sound(m.folder, m.row)
  /\ m.pc = "moving" => Len(m.old) > 0 /\ Len(m.row.path) = Len(m.old) + m.by

SoundCalls == call \in [Callers -> CallStates] /\ \A c \in Callers : SoundCall(call[c])

Counters ==
  begun \in Nat /\ failures \in Nat /\ overlapped \in BOOLEAN /\ selfMoved \in BOOLEAN

IInv ==
  /\ SoundTable(folders)
  /\ filed \in [Features -> Parents]
  /\ SoundCalls
  /\ Counters

------------------------------------------------------------------------------
LEMMA BlankRows == \A row \in Blank : row.state # "live"
BY DEF Blank, NewRow

LEMMA LiveRows ==
  ASSUME NEW table, SoundTable(table), NEW f \in Folders
  PROVE  /\ table[f] \in Rows \cup Blank
         /\ table[f].state = "live" <=> table[f] \in Rows
         /\ table[f] \in Rows => Sound(f, table[f])
BY BlankRows DEF SoundTable, Rows

(* A table in which one row is replaced, or every live row. *)
LEMMA OneRow ==
  ASSUME SoundTable(folders), NEW f \in Folders, NEW row, Sound(f, row)
  PROVE  SoundTable([folders EXCEPT ![f] = row])
BY DEF SoundTable, Sound

(* What a call in memory holds. *)
LEMMA RowInMemory ==
  ASSUME SoundCalls, NEW c \in Callers,
         \/ At(c, "creating") \/ At(c, "checking") \/ At(c, "moving") \/ At(c, "saving")
  PROVE  /\ call[c].folder \in Folders /\ Sound(call[c].folder, call[c].row)
         /\ At(c, "checking") => call[c].parent \in Parents
<1>1. SoundCall(call[c]) /\ call[c] \in CallStates
  BY DEF SoundCalls
<1>2. call[c].pc \in {"creating", "checking", "moving", "saving"}
  BY DEF At
<1> QED
  BY <1>1, <1>2 DEF SoundCall, CallStates, NoCall, At

LEMMA MoveInMemory ==
  ASSUME SoundCalls, NEW c \in Callers, At(c, "moving")
  PROVE  /\ call[c].old \in Seq(Folders) /\ call[c].by \in Int
         /\ Len(call[c].old) > 0
         /\ Len(call[c].row.path) = Len(call[c].old) + call[c].by
<1>1. SoundCall(call[c]) /\ call[c] \in CallStates /\ call[c].pc = "moving"
  BY DEF SoundCalls, At
<1> QED
  BY <1>1 DEF SoundCall, CallStates, NoCall

LEMMA OthersInMemory ==
  ASSUME SoundCalls, NEW c \in Callers
  PROVE  /\ At(c, "emptying") =>
              /\ call[c].folder \in Folders /\ call[c].recursive \in BOOLEAN
              /\ call[c].target \in Folders /\ call[c].left \in SUBSET Folders
              /\ call[c].features \in SUBSET Features
         /\ At(c, "deleting") =>
              call[c].folder \in Folders /\ call[c].left \in SUBSET Folders
         /\ At(c, "assigning") =>
              /\ call[c].folder \in Folders /\ call[c].features \in SUBSET Features
              /\ call[c].count \in Nat
         /\ At(c, "counting") => call[c].folder \in Folders /\ call[c].count \in Nat
         /\ At(c, "adding") => call[c].folder \in Folders /\ call[c].delta \in Int
         /\ At(c, "removing") => call[c].folder \in Folders
<1>1. call[c] \in CallStates
  BY DEF SoundCalls
<1> QED
  BY <1>1 DEF CallStates, NoCall, At

(* A call that goes on to something sound. *)
LEMMA GotoStep ==
  ASSUME SoundCalls, NEW c \in Callers, NEW next, SoundCall(next), Goto(c, next)
  PROVE  SoundCalls'
<1>1. next \in CallStates
  BY DEF SoundCall
<1>2. call' \in [Callers -> CallStates]
  BY <1>1 DEF SoundCalls, Goto
<1>3. ASSUME NEW d \in Callers PROVE SoundCall(call'[d])
  <2>1. call'[d] = next \/ call'[d] = call[d]
    BY DEF SoundCalls, Goto
  <2> QED
    BY <2>1 DEF SoundCalls
<1> QED
  BY <1>2, <1>3 DEF SoundCalls, SoundCall, Sound

LEMMA IdleStep ==
  ASSUME SoundCalls, NEW c \in Callers, Goto(c, NoCall)
  PROVE  SoundCalls'
<1>1. SoundCall(NoCall)
  BY DEF SoundCall, NoCall, CallStates
<1> QED
  BY <1>1, GotoStep

LEMMA BeginStep ==
  ASSUME NEW c \in Callers, NEW next, Begin(c, next), Counters
  PROVE  Goto(c, next) /\ Counters'
<1>1. Goto(c, next) /\ begun' \in Nat /\ failures' \in Nat /\ selfMoved' \in BOOLEAN
  BY DEF Begin, Counters
<1>2. overlapped' = (overlapped \/ \E d \in Callers \ {c} : ~At(d, "idle"))
  BY DEF Begin
<1>3. overlapped' \in BOOLEAN
  BY <1>2, Zenon DEF Counters
<1> QED
  BY <1>1, <1>3 DEF Counters

(* createRoot, createChild, withParent: the row of f under a parent. *)
LEMMA PathAndLevel ==
  ASSUME SoundTable(folders), NEW f \in Folders, NEW parent \in Parents,
         parent # NoFolder => Live(parent) /\ folders[parent].level < MaxDepth
  PROVE  /\ Path(f, parent) \in Seq(Folders)
         /\ Level(parent) \in 0..MaxDepth
         /\ Len(Path(f, parent)) = Level(parent) + 1
         /\ Path(f, parent)[Len(Path(f, parent))] = f
<1>1. CASE parent = NoFolder
  BY <1>1, CatalogAssumption DEF Path, Level
<1>2. CASE parent # NoFolder
  <2>1. parent \in Folders /\ folders[parent] \in Rows /\ Sound(parent, folders[parent])
    BY <1>2, LiveRows DEF Parents, Live
  <2>2. /\ folders[parent].path \in Seq(Folders) /\ folders[parent].level \in 0..MaxDepth
        /\ Len(folders[parent].path) = folders[parent].level + 1
        /\ folders[parent].level < MaxDepth
    BY <1>2, <2>1 DEF Sound, Rows
  <2>3. Path(f, parent) = Append(folders[parent].path, f) /\ Level(parent) = folders[parent].level + 1
    BY <1>2 DEF Path, Level
  <2>4. /\ Path(f, parent) \in Seq(Folders)
        /\ Len(Path(f, parent)) = Len(folders[parent].path) + 1
        /\ Path(f, parent)[Len(folders[parent].path) + 1] = f
    BY <2>2, <2>3, AppendProperties
  <2>5. Level(parent) \in 0..MaxDepth
    BY <2>2, <2>3, CatalogAssumption
  <2> QED
    BY <2>2, <2>3, <2>4, <2>5
<1> QED
  BY <1>1, <1>2

(* updateSubtreePaths: a path that begins with the old one begins with the   *)
(* new one afterwards, and ends as it did.                                   *)
LEMMA RebasedPath ==
  ASSUME NEW path \in Seq(Folders), NEW old \in Seq(Folders), NEW new \in Seq(Folders),
         Below(path, old)
  PROVE  LET moved == new \o SubSeq(path, Len(old) + 1, Len(path))
         IN  /\ moved \in Seq(Folders)
             /\ Len(moved) = Len(new) + Len(path) - Len(old)
             /\ moved[Len(moved)] = path[Len(path)]
<1> DEFINE rest == SubSeq(path, Len(old) + 1, Len(path))
<1>1. Len(path) \in Nat /\ Len(old) \in Nat /\ Len(new) \in Nat /\ Len(path) > Len(old)
  BY LenProperties DEF Below
<1>2. \A i \in Len(old) + 1 .. Len(path) : path[i] \in Folders
  BY <1>1, ElementOfSeq
<1>3. /\ rest \in Seq(Folders) /\ Len(rest) = Len(path) - Len(old)
      /\ rest[Len(path) - Len(old)] = path[Len(path)]
  BY <1>1, <1>2, SubSeqProperties
<1> HIDE DEF rest
<1>4. /\ new \o rest \in Seq(Folders)
      /\ Len(new \o rest) = Len(new) + Len(rest)
      /\ \A i \in 1 .. Len(new) + Len(rest) :
           (new \o rest)[i] = IF i <= Len(new) THEN new[i] ELSE rest[i - Len(new)]
  BY <1>3, ConcatProperties
<1>5. (new \o rest)[Len(new) + Len(rest)] = rest[Len(rest)]
  <2>1. /\ Len(new) + Len(rest) \in 1 .. Len(new) + Len(rest)
        /\ ~(Len(new) + Len(rest) <= Len(new))
        /\ Len(new) + Len(rest) - Len(new) = Len(rest)
    BY <1>1, <1>3
  <2> QED
    BY <1>4, <2>1
<1>6. Len(new) + Len(rest) = Len(new) + Len(path) - Len(old)
  BY <1>1, <1>3
<1> QED
  BY <1>3, <1>4, <1>5, <1>6 DEF rest

LEMMA RebasedTable ==
  ASSUME SoundTable(folders), NEW old \in Seq(Folders), NEW new \in Seq(Folders), NEW by \in Int,
         Len(new) > 0, Len(new) = Len(old) + by, Allowed(Rebased(old, new, by))
  PROVE  SoundTable(Rebased(old, new, by))
<1> DEFINE table == Rebased(old, new, by)
           Moves(f) == Live(f) /\ Below(folders[f].path, old)
<1>1. ASSUME NEW f \in Folders, ~Moves(f) PROVE table[f] = folders[f]
  BY <1>1 DEF Rebased
<1>2. ASSUME NEW f \in Folders, Moves(f) PROVE Sound(f, table[f])
  <2> DEFINE row == folders[f]
             path == new \o SubSeq(row.path, Len(old) + 1, Len(row.path))
  <2>1. /\ row \in Rows /\ Sound(f, row)
        /\ row.path \in Seq(Folders) /\ row.level \in 0..MaxDepth
    BY <1>2, LiveRows DEF Live, Rows
  <2>2. /\ path \in Seq(Folders)
        /\ Len(path) = Len(new) + Len(row.path) - Len(old)
        /\ path[Len(path)] = row.path[Len(row.path)]
    BY <1>2, <2>1, RebasedPath
  <2>3. table[f] = [row EXCEPT !.path = path, !.level = row.level + by]
    BY <1>2 DEF Rebased
  <2> HIDE DEF path, table
  <2>4. /\ table[f].state = "live" /\ table[f].path = path
        /\ table[f].level = row.level + by
    BY <2>1, <2>3 DEF Rows
  <2>5. row.level + by <= MaxDepth
    BY <2>4 DEF table, Allowed
  <2>6. Len(path) = row.level + by + 1 /\ path[Len(path)] = f
    BY <2>1, <2>2, LenProperties DEF Sound
  <2>7. row.level + by >= 0
    <3>1. Len(row.path) > Len(old) /\ Len(row.path) \in Nat /\ Len(old) \in Nat /\ Len(new) \in Nat
      BY <1>2, <2>1, LenProperties DEF Below
    <3> QED
      BY <2>1, <3>1 DEF Sound
  <2>8. row.level + by \in 0..MaxDepth
    BY <2>1, <2>5, <2>7, CatalogAssumption
  <2>9. table[f] \in Rows
    BY <2>1, <2>2, <2>3, <2>8 DEF Rows
  <2> QED
    BY <2>4, <2>6, <2>9 DEF Sound
<1>3. \A f \in Folders : table[f] \in Rows \cup Blank
  BY <1>1, <1>2 DEF Sound, SoundTable
<1>4. \A f \in Folders : table[f].state = "live" => Sound(f, table[f])
  BY <1>1, <1>2 DEF SoundTable
<1>5. table = [f \in Folders |-> table[f]]
  BY DEF Rebased
<1> HIDE DEF table
<1>6. SoundTable(table)
  BY <1>3, <1>4, <1>5 DEF SoundTable
<1> QED
  BY <1>6 DEF table

LEMMA SavedTable ==
  ASSUME SoundTable(folders), NEW f \in Folders, NEW row, Sound(f, row)
  PROVE  SoundTable(Saved(f, row))
<1>1. CASE Live(f)
  <2>1. folders[f].count \in Nat
    BY <1>1, LiveRows DEF Live, Rows
  <2>2. Sound(f, [row EXCEPT !.count = folders[f].count])
    BY <2>1 DEF Sound, Rows
  <2> QED
    BY <1>1, <2>2, OneRow DEF Saved
<1>2. CASE ~Live(f)
  BY <1>2 DEF Saved
<1> QED
  BY <1>1, <1>2

LEMMA DeletedTable ==
  ASSUME SoundTable(folders), NEW f \in Folders
  PROVE  SoundTable(Deleted(f))
<1> DEFINE table == Deleted(f)
<1>1. ASSUME NEW g \in Folders
      PROVE  table[g] \in Rows \cup Blank /\ (table[g].state = "live" => Sound(g, table[g]))
  <2>1. CASE g = f
    <3>1. table[g] = [NewRow EXCEPT !.state = "deleted"]
      BY <2>1 DEF Deleted
    <3> QED
      BY <3>1, BlankRows DEF Blank
  <2>2. CASE g # f /\ Live(g) /\ folders[g].parent = f
    <3>1. table[g] = [folders[g] EXCEPT !.parent = NoFolder]
      BY <2>2 DEF Deleted
    <3>2. folders[g] \in Rows /\ Sound(g, folders[g])
      BY <2>2, LiveRows DEF Live
    <3>3. Sound(g, [folders[g] EXCEPT !.parent = NoFolder])
      BY <3>2 DEF Sound, Rows, Parents
    <3> QED
      BY <3>1, <3>3 DEF Sound
  <2>3. CASE g # f /\ ~(Live(g) /\ folders[g].parent = f)
    <3>1. table[g] = folders[g]
      BY <2>3 DEF Deleted
    <3> QED
      BY <3>1 DEF SoundTable
  <2> QED
    BY <2>1, <2>2, <2>3
<1>2. table = [g \in Folders |-> table[g]]
  BY DEF Deleted
<1> HIDE DEF table
<1>3. SoundTable(table)
  BY <1>1, <1>2 DEF SoundTable
<1> QED
  BY <1>3 DEF table

LEMMA AddedTable ==
  ASSUME SoundTable(folders), NEW f \in Folders, NEW delta \in Int
  PROVE  SoundTable(Added(f, delta))
<1>1. CASE Live(f)
  <2> DEFINE sum == folders[f].count + delta
             count == IF sum > 0 THEN sum ELSE 0
  <2>1. folders[f] \in Rows /\ Sound(f, folders[f]) /\ folders[f].count \in Nat
    BY <1>1, LiveRows DEF Live, Rows
  <2>2. count \in Nat
    BY <2>1
  <2>3. Added(f, delta) = [folders EXCEPT ![f] = [folders[f] EXCEPT !.count = count]]
    BY <1>1 DEF Added, SoundTable
  <2> HIDE DEF count
  <2>4. Sound(f, [folders[f] EXCEPT !.count = count])
    BY <2>1, <2>2 DEF Sound, Rows
  <2> QED
    BY <2>3, <2>4, OneRow
<1>2. CASE ~Live(f)
  BY <1>2 DEF Added
<1> QED
  BY <1>1, <1>2

------------------------------------------------------------------------------
(* The same after a step, for what a step assigned. *)
LEMMA TableStep ==
  ASSUME NEW table, SoundTable(table), folders' = table
  PROVE  SoundTable(folders)'
BY DEF SoundTable, Sound

LEMMA CountersStep ==
  ASSUME Counters, UNCHANGED history
  PROVE  Counters'
BY DEF Counters, history

LEMMA InitHolds == Init => IInv
<1> SUFFICES ASSUME Init PROVE IInv
  OBVIOUS
<1>1. SoundTable(folders)
  BY BlankRows DEF Init, SoundTable, Blank
<1>2. filed \in [Features -> Parents]
  BY DEF Init, Parents
<1>3. SoundCalls
  <2>1. SoundCall(NoCall)
    BY DEF SoundCall, NoCall, CallStates
  <2>2. call \in [Callers -> CallStates]
    BY DEF Init, CallStates
  <2> QED
    BY <2>1, <2>2 DEF Init, SoundCalls
<1>4. Counters
  <2>1. overlapped \in BOOLEAN /\ selfMoved \in BOOLEAN
    BY Zenon DEF Init
  <2> QED
    BY <2>1 DEF Init, Counters
<1> QED
  BY <1>1, <1>2, <1>3, <1>4 DEF IInv

(* A created row is built from a sound parent, and inserted as it is. *)
LEMMA CreateHolds ==
  ASSUME IInv, NEW c \in Callers, CreateReads(c) \/ CreateInserts(c)
  PROVE  IInv'
<1>1. CASE CreateReads(c)
  <2>1. PICK f \in Folders, parent \in Parents, name \in Names :
          /\ parent # NoFolder => Live(parent) /\ folders[parent].level < MaxDepth
          /\ Begin(c, [pc |-> "creating", folder |-> f,
                       row |-> [state |-> "live", name |-> name, parent |-> parent,
                                path |-> Path(f, parent), level |-> Level(parent),
                                version |-> 1, count |-> 0]])
    BY <1>1 DEF CreateReads, Parents
  <2> DEFINE row == [state |-> "live", name |-> name, parent |-> parent,
                     path |-> Path(f, parent), level |-> Level(parent),
                     version |-> 1, count |-> 0]
             next == [pc |-> "creating", folder |-> f, row |-> row]
  <2>2. Sound(f, row)
    BY <2>1, PathAndLevel DEF IInv, Sound, Rows
  <2> HIDE DEF row
  <2>3. SoundCall(next)
    BY <2>2 DEF SoundCall, CallStates, Sound
  <2>4. Goto(c, next) /\ Counters'
    BY <2>1, BeginStep DEF IInv, row
  <2>5. SoundCalls'
    BY <2>3, <2>4, GotoStep DEF IInv
  <2> QED
    BY <1>1, <2>4, <2>5, TableStep DEF IInv, CreateReads
<1>2. CASE CreateInserts(c)
  <2>1. SoundTable(Inserted(call[c].folder, call[c].row))
    BY <1>2, RowInMemory, OneRow DEF IInv, CreateInserts, Inserted
  <2>2. SoundTable(folders)'
    BY <1>2, <2>1, TableStep DEF CreateInserts
  <2> QED
    BY <1>2, <2>2, IdleStep, CountersStep DEF IInv, CreateInserts
<1> QED
  BY <1>1, <1>2

(* An update reads a sound row and changes its version and name; a move      *)
(* rebuilds path and level from a sound parent, rebases the subtree by the   *)
(* same difference, and saves the row.                                       *)
LEMMA UpdateHolds ==
  ASSUME IInv, NEW c \in Callers,
         UpdateReads(c) \/ MoveReads(c) \/ MoveRefused(c) \/ MoveSubtree(c) \/ UpdateSaves(c)
  PROVE  IInv'
<1>1. CASE UpdateReads(c)
  <2>1. PICK f \in Folders, parent \in Parents, name \in Names :
          /\ Live(f)
          /\ LET row == [folders[f] EXCEPT !.version = @ + 1, !.name = name] IN
             Begin(c, IF parent = row.parent THEN [pc |-> "saving", folder |-> f, row |-> row]
                      ELSE [pc |-> "checking", folder |-> f, row |-> row, parent |-> parent])
    BY <1>1 DEF UpdateReads, Parents
  <2> DEFINE row == [folders[f] EXCEPT !.version = @ + 1, !.name = name]
             next == IF parent = row.parent THEN [pc |-> "saving", folder |-> f, row |-> row]
                     ELSE [pc |-> "checking", folder |-> f, row |-> row, parent |-> parent]
  <2>2. Sound(f, row)
    <3>1. folders[f] \in Rows /\ Sound(f, folders[f])
      BY <2>1, LiveRows DEF IInv, Live
    <3> DEFINE version == folders[f].version + 1
    <3>2. version \in Nat
      BY <3>1 DEF Rows
    <3> HIDE DEF version
    <3>3. [folders[f] EXCEPT !.version = version, !.name = name] \in Rows
      BY <3>1, <3>2 DEF Rows
    <3>4. row \in Rows
      BY <3>3 DEF version
    <3>5. row.path = folders[f].path /\ row.level = folders[f].level
      BY <3>1 DEF Rows
    <3> HIDE DEF row
    <3> QED
      BY <3>1, <3>4, <3>5 DEF Sound
  <2>3. Begin(c, next)
    BY <2>1
  <2> HIDE DEF row
  <2>4. SoundCall(next)
    BY <2>2 DEF SoundCall, CallStates, Sound
  <2> HIDE DEF next
  <2>5. Goto(c, next) /\ Counters'
    BY <2>3, BeginStep DEF IInv
  <2>6. SoundCalls'
    BY <2>4, <2>5, GotoStep DEF IInv
  <2> QED
    BY <1>1, <2>5, <2>6, TableStep DEF IInv, UpdateReads
<1>2. CASE MoveReads(c)
  <2> DEFINE f == call[c].folder
             parent == call[c].parent
             row == [call[c].row EXCEPT !.parent = parent, !.path = Path(f, parent),
                                        !.level = Level(parent)]
             by == Level(parent) - call[c].row.level
             next == [pc |-> "moving", folder |-> f, old |-> call[c].row.path, by |-> by,
                      row |-> row]
  <2>1. f \in Folders /\ Sound(f, call[c].row) /\ parent \in Parents
    BY <1>2, RowInMemory DEF IInv, MoveReads
  <2>2. parent # NoFolder => Live(parent) /\ folders[parent].level < MaxDepth
    BY <1>2 DEF MoveReads, MayMove
  <2>3. /\ Path(f, parent) \in Seq(Folders) /\ Level(parent) \in 0..MaxDepth
        /\ Len(Path(f, parent)) = Level(parent) + 1
        /\ Path(f, parent)[Len(Path(f, parent))] = f
    BY <2>1, <2>2, PathAndLevel DEF IInv
  <2>4. Goto(c, next)
    BY <1>2 DEF MoveReads
  <2> HIDE DEF f, parent
  <2>5. Sound(f, row) /\ row.path = Path(f, parent)
    BY <2>1, <2>3 DEF Sound, Rows
  <2>6. /\ call[c].row.path \in Seq(Folders) /\ call[c].row.level \in 0..MaxDepth
        /\ Len(call[c].row.path) = call[c].row.level + 1
    BY <2>1 DEF Sound, Rows
  <2> HIDE DEF row
  <2>7. /\ by \in Int /\ Len(call[c].row.path) > 0
        /\ Len(row.path) = Len(call[c].row.path) + by
    <3>1. Level(parent) \in Nat /\ call[c].row.level \in Nat
      BY <2>3, <2>6, CatalogAssumption
    <3>2. Len(row.path) = Level(parent) + 1
      BY <2>3, <2>5
    <3> QED
      BY <2>6, <3>1, <3>2, SMTT(30)
  <2> HIDE DEF by
  <2>8. next \in CallStates
    BY <2>1, <2>5, <2>6, <2>7 DEF CallStates, Sound
  <2>9. SoundCall(next)
    BY <2>5, <2>7, <2>8 DEF SoundCall
  <2>10. Counters'
    <3>1. selfMoved' \in BOOLEAN
      BY <1>2, Zenon DEF MoveReads
    <3> QED
      BY <1>2, <3>1 DEF MoveReads, IInv, Counters
  <2> QED
    BY <1>2, <2>4, <2>9, <2>10, GotoStep, TableStep DEF IInv, MoveReads
<1>3. CASE MoveRefused(c)
  BY <1>3, IdleStep, TableStep, CountersStep DEF IInv, MoveRefused
<1>4. CASE MoveSubtree(c)
  <2> DEFINE next == [pc |-> "saving", folder |-> call[c].folder, row |-> call[c].row]
  <2>1. call[c].folder \in Folders /\ Sound(call[c].folder, call[c].row)
    BY <1>4, RowInMemory DEF IInv, MoveSubtree
  <2>2. SoundTable(Rebased(call[c].old, call[c].row.path, call[c].by))
    <3>1. call[c].row.path \in Seq(Folders) /\ Len(call[c].row.path) > 0
      BY <2>1, CatalogAssumption DEF Sound, Rows
    <3>2. /\ call[c].old \in Seq(Folders) /\ call[c].by \in Int
          /\ Len(call[c].row.path) = Len(call[c].old) + call[c].by
      BY <1>4, MoveInMemory DEF IInv, MoveSubtree
    <3>3. Allowed(Rebased(call[c].old, call[c].row.path, call[c].by))
      BY <1>4 DEF MoveSubtree
    <3> QED
      BY <3>1, <3>2, <3>3, RebasedTable DEF IInv
  <2>3. SoundTable(folders)'
    BY <1>4, <2>2, TableStep DEF MoveSubtree
  <2>4. SoundCall(next)
    BY <2>1 DEF SoundCall, CallStates, Sound
  <2>5. Goto(c, next)
    BY <1>4 DEF MoveSubtree
  <2> QED
    BY <1>4, <2>3, <2>4, <2>5, GotoStep, CountersStep DEF IInv, MoveSubtree
<1>5. CASE UpdateSaves(c)
  <2>1. SoundTable(Saved(call[c].folder, call[c].row))
    BY <1>5, RowInMemory, SavedTable DEF IInv, UpdateSaves
  <2>2. SoundTable(folders)'
    BY <1>5, <2>1, TableStep DEF UpdateSaves
  <2> QED
    BY <1>5, <2>2, IdleStep, CountersStep DEF IInv, UpdateSaves
<1> QED
  BY <1>1, <1>2, <1>3, <1>4, <1>5

(* A deletion holds ids only; a row whose parent is deleted keeps its path. *)
LEMMA DeleteHolds ==
  ASSUME IInv, NEW c \in Callers,
         \/ DeleteReads(c) \/ DeleteUnfiles(c) \/ DeleteLists(c)
         \/ DeleteNext(c) \/ DeleteDescendant(c) \/ DeleteSelf(c)
  PROVE  IInv'
<1>0. \A f \in Folders : FiledIn(f) \in SUBSET Features /\ Descendants(f) \in SUBSET Folders
  BY DEF FiledIn, Descendants
<1>1. ASSUME NEW f \in Folders, DeleteRow(f)
      PROVE  SoundTable(folders)' /\ filed' \in [Features -> Parents]
  <2>1. SoundTable(folders)'
    BY <1>1, DeletedTable, TableStep DEF IInv, DeleteRow
  <2>2. Unfiled(f) \in [Features -> Parents]
    BY DEF IInv, Unfiled, Parents
  <2> QED
    BY <1>1, <2>1, <2>2 DEF DeleteRow
<1>2. CASE DeleteReads(c)
  <2>1. PICK f \in Folders, recursive \in BOOLEAN :
          Begin(c, [pc |-> "emptying", folder |-> f, recursive |-> recursive,
                    target |-> f, left |-> {}, features |-> FiledIn(f)])
    BY <1>2 DEF DeleteReads
  <2> DEFINE next == [pc |-> "emptying", folder |-> f, recursive |-> recursive,
                      target |-> f, left |-> {}, features |-> FiledIn(f)]
  <2>2. SoundCall(next)
    BY <1>0 DEF SoundCall, CallStates
  <2> HIDE DEF next
  <2>3. Goto(c, next) /\ Counters'
    BY <2>1, BeginStep DEF IInv, next
  <2> QED
    BY <1>2, <2>2, <2>3, GotoStep, TableStep DEF IInv, DeleteReads
<1>3. CASE DeleteUnfiles(c)
  <2>1. PICK x \in call[c].features :
          /\ filed' = [filed EXCEPT ![x] = NoFolder]
          /\ call' = [call EXCEPT ![c].features = @ \ {x}]
    BY <1>3 DEF DeleteUnfiles
  <2> DEFINE next == [pc |-> "emptying", folder |-> call[c].folder,
                      recursive |-> call[c].recursive, target |-> call[c].target,
                      left |-> call[c].left, features |-> call[c].features \ {x}]
  <2>2. /\ call[c].folder \in Folders /\ call[c].recursive \in BOOLEAN
        /\ call[c].target \in Folders /\ call[c].left \in SUBSET Folders
        /\ call[c].features \in SUBSET Features
    BY <1>3, OthersInMemory DEF IInv, DeleteUnfiles
  <2>3. call[c] \in [pc : {"emptying"}, folder : Folders, recursive : BOOLEAN, target : Folders,
                     left : SUBSET Folders, features : SUBSET Features]
    BY <1>3 DEF IInv, SoundCalls, CallStates, NoCall, At, DeleteUnfiles
  <2>4. [call[c] EXCEPT !.features = @ \ {x}] = next
    BY <2>3
  <2>5. Goto(c, next)
    BY <2>1, <2>4 DEF Goto, IInv, SoundCalls
  <2>6. SoundCall(next)
    BY <2>2 DEF SoundCall, CallStates
  <2>7. filed' \in [Features -> Parents]
    BY <2>1 DEF IInv, Parents
  <2> HIDE DEF next
  <2> QED
    BY <1>3, <2>5, <2>6, <2>7, GotoStep, TableStep, CountersStep DEF IInv, DeleteUnfiles
<1>4. CASE DeleteLists(c)
  <2> DEFINE left == IF call[c].recursive /\ Live(call[c].folder)
                       THEN Descendants(call[c].folder) ELSE {}
             next == [pc |-> "deleting", folder |-> call[c].folder, left |-> left]
  <2>1. call[c].folder \in Folders
    BY <1>4, OthersInMemory DEF IInv, DeleteLists, Emptied
  <2>2. left \in SUBSET Folders
    BY <1>0, <2>1
  <2>3. Goto(c, next)
    BY <1>4 DEF DeleteLists
  <2> HIDE DEF left
  <2>4. SoundCall(next)
    BY <2>1, <2>2 DEF SoundCall, CallStates
  <2> QED
    BY <1>4, <2>3, <2>4, GotoStep, TableStep, CountersStep DEF IInv, DeleteLists
<1>5. CASE DeleteNext(c)
  <2>1. PICK d \in call[c].left :
          Goto(c, [pc |-> "emptying", folder |-> call[c].folder, recursive |-> TRUE,
                   target |-> d, left |-> call[c].left \ {d}, features |-> FiledIn(d)])
    BY <1>5 DEF DeleteNext
  <2> DEFINE next == [pc |-> "emptying", folder |-> call[c].folder, recursive |-> TRUE,
                      target |-> d, left |-> call[c].left \ {d}, features |-> FiledIn(d)]
  <2>2. call[c].folder \in Folders /\ call[c].left \in SUBSET Folders /\ d \in Folders
    BY <1>5, <2>1, OthersInMemory DEF IInv, DeleteNext
  <2>3. SoundCall(next)
    BY <1>0, <2>2 DEF SoundCall, CallStates
  <2>4. Goto(c, next)
    BY <2>1
  <2> HIDE DEF next
  <2> QED
    BY <1>5, <2>3, <2>4, GotoStep, TableStep, CountersStep DEF IInv, DeleteNext
<1>6. CASE DeleteDescendant(c)
  <2> DEFINE next == [pc |-> "deleting", folder |-> call[c].folder, left |-> call[c].left]
  <2>1. /\ call[c].folder \in Folders /\ call[c].left \in SUBSET Folders
        /\ call[c].target \in Folders
    BY <1>6, OthersInMemory DEF IInv, DeleteDescendant, Emptied
  <2>2. SoundCall(next)
    BY <2>1 DEF SoundCall, CallStates
  <2>3. Goto(c, next) /\ DeleteRow(call[c].target)
    BY <1>6 DEF DeleteDescendant
  <2> HIDE DEF next
  <2> QED
    BY <1>1, <1>6, <2>1, <2>2, <2>3, GotoStep, CountersStep DEF IInv, DeleteDescendant
<1>7. CASE DeleteSelf(c)
  <2>1. call[c].folder \in Folders
    BY <1>7, OthersInMemory DEF IInv, DeleteSelf
  <2> QED
    BY <1>1, <1>7, <2>1, IdleStep, CountersStep DEF IInv, DeleteSelf
<1> QED
  BY <1>2, <1>3, <1>4, <1>5, <1>6, <1>7

(* Counting features touches the count column alone. *)
LEMMA AssignHolds ==
  ASSUME IInv, NEW c \in Callers,
         \/ AssignReads(c) \/ AssignFiles(c) \/ AssignCounts(c) \/ AssignAdds(c)
         \/ RemoveFeature(c) \/ RemoveCounts(c)
  PROVE  IInv'
<1>1. CASE AssignReads(c)
  <2>1. PICK f \in Folders, xs \in SUBSET Features :
          /\ Live(f)
          /\ Begin(c, [pc |-> "assigning", folder |-> f, features |-> xs,
                       count |-> folders[f].count])
    BY <1>1 DEF AssignReads
  <2> DEFINE next == [pc |-> "assigning", folder |-> f, features |-> xs,
                      count |-> folders[f].count]
  <2>2. folders[f].count \in Nat
    BY <2>1, LiveRows DEF IInv, Live, Rows
  <2>3. SoundCall(next)
    BY <2>2 DEF SoundCall, CallStates
  <2> HIDE DEF next
  <2>4. Goto(c, next) /\ Counters'
    BY <2>1, BeginStep DEF IInv, next
  <2> QED
    BY <1>1, <2>3, <2>4, GotoStep, TableStep DEF IInv, AssignReads
<1>2. CASE AssignFiles(c)
  <2> DEFINE next == [pc |-> "counting", folder |-> call[c].folder, count |-> call[c].count]
  <2>1. call[c].folder \in Folders /\ call[c].count \in Nat
    BY <1>2, OthersInMemory DEF IInv, AssignFiles
  <2>2. SoundCall(next)
    BY <2>1 DEF SoundCall, CallStates
  <2>3. Goto(c, next)
    BY <1>2 DEF AssignFiles
  <2>4. filed' \in [Features -> Parents]
    BY <1>2, <2>1 DEF IInv, AssignFiles, Parents
  <2> HIDE DEF next
  <2> QED
    BY <1>2, <2>2, <2>3, <2>4, GotoStep, TableStep, CountersStep DEF IInv, AssignFiles
<1>3. CASE AssignCounts(c)
  <2> DEFINE next == [pc |-> "adding", folder |-> call[c].folder, delta |-> Difference(c)]
  <2>1. call[c].folder \in Folders /\ call[c].count \in Nat
    BY <1>3, OthersInMemory DEF IInv, AssignCounts
  <2>2. Cardinality(FiledIn(call[c].folder)) \in Nat
    BY CatalogAssumption, FS_Subset, FS_CardinalityType DEF FiledIn
  <2>3. Difference(c) \in Int
    BY <2>1, <2>2 DEF Difference
  <2>4. SoundCall(next)
    BY <2>1, <2>3 DEF SoundCall, CallStates
  <2>5. Goto(c, next)
    BY <1>3 DEF AssignCounts
  <2> HIDE DEF next
  <2> QED
    BY <1>3, <2>4, <2>5, GotoStep, TableStep, CountersStep DEF IInv, AssignCounts
<1>4. CASE AssignAdds(c)
  <2>1. SoundTable(Added(call[c].folder, call[c].delta))
    BY <1>4, OthersInMemory, AddedTable DEF IInv, AssignAdds
  <2>2. SoundTable(folders)'
    BY <1>4, <2>1, TableStep DEF AssignAdds
  <2> QED
    BY <1>4, <2>2, IdleStep, CountersStep DEF IInv, AssignAdds
<1>5. CASE RemoveFeature(c)
  <2>1. PICK f \in Folders, x \in Features :
          /\ filed' = [filed EXCEPT ![x] = NoFolder]
          /\ Begin(c, [pc |-> "removing", folder |-> f])
    BY <1>5 DEF RemoveFeature
  <2> DEFINE next == [pc |-> "removing", folder |-> f]
  <2>2. SoundCall(next)
    BY DEF SoundCall, CallStates
  <2> HIDE DEF next
  <2>3. Goto(c, next) /\ Counters'
    BY <2>1, BeginStep DEF IInv, next
  <2>4. filed' \in [Features -> Parents]
    BY <2>1 DEF IInv, Parents
  <2> QED
    BY <1>5, <2>2, <2>3, <2>4, GotoStep, TableStep DEF IInv, RemoveFeature
<1>6. CASE RemoveCounts(c)
  <2>1. SoundTable(Added(call[c].folder, 1))
    BY <1>6, OthersInMemory, AddedTable DEF IInv, RemoveCounts
  <2>2. SoundTable(folders)'
    BY <1>6, <2>1, TableStep DEF RemoveCounts
  <2> QED
    BY <1>6, <2>2, IdleStep, CountersStep DEF IInv, RemoveCounts
<1> QED
  BY <1>1, <1>2, <1>3, <1>4, <1>5, <1>6

LEMMA EndHolds ==
  ASSUME IInv, NEW c \in Callers, StatementRefused(c) \/ CallFails(c)
  PROVE  IInv'
<1>1. /\ Goto(c, NoCall) /\ failures' = failures + 1
      /\ UNCHANGED <<folders, filed, begun, overlapped, selfMoved>>
  BY DEF StatementRefused, CallFails
<1>2. Counters'
  BY <1>1 DEF IInv, Counters
<1> QED
  BY <1>1, <1>2, IdleStep, TableStep DEF IInv

(* The invariant holds in every state. *)
LEMMA Holds == Spec => []IInv
<1>1. ASSUME IInv, [Next]_vars PROVE IInv'
  <2>1. ASSUME UNCHANGED vars PROVE IInv'
    <3>1. /\ folders' = folders /\ filed' = filed /\ call' = call
          /\ begun' = begun /\ failures' = failures
          /\ overlapped' = overlapped /\ selfMoved' = selfMoved
      BY <2>1 DEF vars
    <3>2. SoundTable(folders)'
      BY <1>1, <3>1, TableStep DEF IInv
    <3>3. Counters'
      BY <1>1, <3>1, CountersStep DEF IInv, history
    <3>4. call' \in [Callers -> CallStates]
      BY <1>1, <3>1 DEF IInv, SoundCalls
    <3>5. \A c \in Callers : SoundCall(call'[c])
      BY <1>1, <3>1 DEF IInv, SoundCalls
    <3>6. SoundCalls'
      BY <3>4, <3>5 DEF SoundCalls, SoundCall, Sound
    <3> QED
      BY <1>1, <3>1, <3>2, <3>3, <3>6 DEF IInv
  <2>2. ASSUME NEW c \in Callers,
               \/ CreateReads(c) \/ CreateInserts(c)
               \/ UpdateReads(c) \/ MoveReads(c) \/ MoveRefused(c)
               \/ MoveSubtree(c) \/ UpdateSaves(c)
               \/ DeleteReads(c) \/ DeleteUnfiles(c) \/ DeleteLists(c) \/ DeleteNext(c)
               \/ DeleteDescendant(c) \/ DeleteSelf(c)
               \/ AssignReads(c) \/ AssignFiles(c) \/ AssignCounts(c) \/ AssignAdds(c)
               \/ RemoveFeature(c) \/ RemoveCounts(c)
               \/ StatementRefused(c) \/ CallFails(c)
        PROVE  IInv'
    BY <1>1, <2>2, CreateHolds, UpdateHolds, DeleteHolds, AssignHolds, EndHolds
  <2> QED
    BY <1>1, <2>1, <2>2 DEF Next
<1> QED
  BY <1>1, InitHolds, PTL DEF Spec

------------------------------------------------------------------------------
(* Every variable keeps its type: in particular no interleaving of creations *)
(* and moves takes a level below 0, and none goes deeper than MaxDepth.      *)
THEOREM TypeCorrect == Spec => []TypeOK
<1>1. IInv => TypeOK
  BY DEF IInv, TypeOK, SoundTable, Blank, SoundCalls, Counters
<1> QED
  BY <1>1, Holds, PTL

(* A folder's level is the length of its path, however creations, moves and  *)
(* subtree updates of many callers interleave.                               *)
THEOREM LevelsCountPaths == Spec => []LevelCountsPath
<1>1. IInv => LevelCountsPath
  BY DEF IInv, LevelCountsPath, SoundTable, Sound, Live
<1> QED
  BY <1>1, Holds, PTL

------------------------------------------------------------------------------
(* Calls in turn. *)

(* Every statement that writes a folder is checked, but for those that write *)
(* counts, which no constraint mentions.                                     *)
LEMMA CountsAllowed ==
  ASSUME SoundTable(folders), Allowed(folders), NEW f \in Folders, NEW delta,
         folders' = Added(f, delta)
  PROVE  /\ Allowed(folders)'
         /\ \A g \in Folders : /\ folders'[g].state = folders[g].state
                               /\ folders'[g].path = folders[g].path
                               /\ folders'[g].parent = folders[g].parent
<1>1. CASE Live(f)
  <2>1. PICK count : folders' = [folders EXCEPT ![f].count = count]
    BY <1>1 DEF Added
  <2>2. folders[f] \in Rows /\ DOMAIN folders = Folders
    BY <1>1, LiveRows DEF Live, SoundTable
  <2>3. folders'[f] = [folders[f] EXCEPT !.count = count] /\ \A g \in Folders \ {f} : folders'[g] = folders[g]
    BY <2>1, <2>2
  <2>4. /\ folders'[f].state = folders[f].state /\ folders'[f].path = folders[f].path
        /\ folders'[f].parent = folders[f].parent /\ folders'[f].level = folders[f].level
        /\ folders'[f].name = folders[f].name
    BY <2>2, <2>3 DEF Rows
  <2>5. \A g \in Folders :
          /\ folders'[g].state = folders[g].state /\ folders'[g].path = folders[g].path
          /\ folders'[g].parent = folders[g].parent /\ folders'[g].level = folders[g].level
          /\ folders'[g].name = folders[g].name
    BY <2>3, <2>4
  <2>6. \A g \in Folders : Live(g) /\ folders[g].parent # NoFolder => folders[g].parent \in Folders
    BY LiveRows DEF Live, Rows, Parents
  <2> QED
    BY <2>5, <2>6 DEF Allowed, Live
<1>2. CASE ~Live(f)
  BY <1>2 DEF Added, Allowed
<1> QED
  BY <1>1, <1>2

LEMMA AllowedStep ==
  ASSUME IInv, Allowed(folders), [Next]_vars
  PROVE  Allowed(folders)'
<1>1. ASSUME UNCHANGED folders PROVE Allowed(folders)'
  BY <1>1 DEF Allowed
<1>2. ASSUME NEW table, Allowed(table), folders' = table PROVE Allowed(folders)'
  BY <1>2 DEF Allowed
<1>3. ASSUME NEW c \in Callers, AssignAdds(c) PROVE Allowed(folders)'
  BY <1>3, OthersInMemory, CountsAllowed DEF AssignAdds, IInv
<1>4. ASSUME NEW c \in Callers, RemoveCounts(c) PROVE Allowed(folders)'
  BY <1>4, OthersInMemory, CountsAllowed DEF RemoveCounts, IInv
<1>5. ASSUME NEW c \in Callers,
             \/ CreateInserts(c) \/ MoveSubtree(c) \/ UpdateSaves(c)
             \/ DeleteDescendant(c) \/ DeleteSelf(c)
      PROVE  Allowed(folders)'
  BY <1>2, <1>5 DEF CreateInserts, MoveSubtree, UpdateSaves, DeleteDescendant, DeleteSelf, DeleteRow
<1> QED
  BY <1>1, <1>3, <1>4, <1>5
  DEF Next, vars, CreateReads, UpdateReads, MoveReads, MoveRefused, DeleteReads, DeleteUnfiles,
      DeleteLists, DeleteNext, AssignReads, AssignFiles, AssignCounts, RemoveFeature,
      StatementRefused, CallFails

(* The call that steps is alone. *)
LEMMA Turn ==
  ASSUME IInv, InTurn, ~overlapped', NEW c \in Callers,
         \/ ~At(c, "idle") /\ overlapped' = overlapped
         \/ \E next : Begin(c, next)
  PROVE  ~overlapped /\ \A d \in Callers \ {c} : At(d, "idle")
<1>1. CASE ~At(c, "idle") /\ overlapped' = overlapped
  <2>1. ~overlapped
    BY <1>1
  <2> QED
    BY <1>1, <2>1, Zenon DEF InTurn, Alone
<1>2. CASE \E next : Begin(c, next)
  <2>1. overlapped' = (overlapped \/ \E d \in Callers \ {c} : ~At(d, "idle"))
    BY <1>2 DEF Begin
  <2>2. overlapped \in BOOLEAN
    BY DEF IInv, Counters
  <2> QED
    BY <2>1, <2>2, Zenon
<1> QED
  BY <1>1, <1>2

(* Of the step of a call that is alone only its own state is of interest.    *)
LEMMA OthersIdle ==
  ASSUME SoundCalls, NEW c \in Callers, \A d \in Callers \ {c} : At(d, "idle"),
         \A d \in Callers \ {c} : call'[d] = call[d]
  PROVE  /\ Alone' /\ \A d \in Callers \ {c} : At(d, "idle")' /\ CountTrue(d)'
         /\ call'[c].pc \notin {"assigning", "counting", "adding"} => CountTrue(c)'
<1>1. \A d \in Callers \ {c} : call'[d].pc = "idle"
  BY DEF At
<1> QED
  BY <1>1 DEF Alone, At, CountTrue

(* What a step does to its call. *)
LEMMA Goes ==
  ASSUME SoundCalls, NEW c \in Callers, NEW next, Goto(c, next)
  PROVE  call'[c] = next /\ \A d \in Callers \ {c} : call'[d] = call[d]
BY DEF SoundCalls, Goto

LEMMA FiledCounted ==
  ASSUME NEW f
  PROVE  Cardinality(FiledIn(f)) \in Nat
BY CatalogAssumption, FS_Subset, FS_CardinalityType DEF FiledIn

(* The count an assign call has read is still there when it is used.         *)
LEMMA InTurnStep ==
  ASSUME IInv, InTurn, [Next]_vars
  PROVE  InTurn'
<1> SUFFICES ASSUME ~overlapped' PROVE Alone' /\ \A c \in Callers : CountTrue(c)'
  BY DEF InTurn
<1>0. SoundCalls
  BY DEF IInv
<1>1. ASSUME NEW c \in Callers, NEW next, Goto(c, next), \A d \in Callers \ {c} : At(d, "idle"),
             next.pc \in {"assigning", "counting", "adding"} => CountTrue(c)'
      PROVE  Alone' /\ \A d \in Callers : CountTrue(d)'
  BY <1>0, <1>1, OthersIdle, Goes
<1>2. ASSUME NEW c \in Callers, NEW next, Begin(c, next), next.pc \notin {"assigning", "counting", "adding"}
      PROVE  Alone' /\ \A d \in Callers : CountTrue(d)'
  BY <1>1, <1>2, Turn DEF Begin
<1>3. ASSUME NEW c \in Callers, NEW next, Goto(c, next), UNCHANGED overlapped, ~At(c, "idle"),
             next.pc \notin {"assigning", "counting", "adding"}
      PROVE  Alone' /\ \A d \in Callers : CountTrue(d)'
  BY <1>1, <1>3, Turn
<1>4. NoCall.pc \notin {"assigning", "counting", "adding"}
  BY DEF NoCall
<1>5. ASSUME NEW c \in Callers, CreateReads(c) \/ UpdateReads(c) \/ DeleteReads(c) \/ RemoveFeature(c)
      PROVE  Alone' /\ \A d \in Callers : CountTrue(d)'
  <2>1. CASE CreateReads(c)
    <3>1. PICK next : Begin(c, next) /\ next.pc = "creating"
      BY <2>1 DEF CreateReads
    <3> QED
      BY <1>2, <3>1
  <2>2. CASE UpdateReads(c)
    <3>1. PICK next : Begin(c, next) /\ next.pc \in {"saving", "checking"}
      BY <2>2 DEF UpdateReads
    <3> QED
      BY <1>2, <3>1
  <2>3. CASE DeleteReads(c)
    <3>1. PICK next : Begin(c, next) /\ next.pc = "emptying"
      BY <2>3 DEF DeleteReads
    <3> QED
      BY <1>2, <3>1
  <2>4. CASE RemoveFeature(c)
    <3>1. PICK next : Begin(c, next) /\ next.pc = "removing"
      BY <2>4 DEF RemoveFeature
    <3> QED
      BY <1>2, <3>1
  <2> QED
    BY <1>5, <2>1, <2>2, <2>3, <2>4
<1>6. ASSUME NEW c \in Callers,
             \/ CreateInserts(c) \/ MoveRefused(c) \/ UpdateSaves(c) \/ DeleteSelf(c)
             \/ AssignAdds(c) \/ RemoveCounts(c) \/ StatementRefused(c) \/ CallFails(c)
      PROVE  Alone' /\ \A d \in Callers : CountTrue(d)'
  <2>1. Goto(c, NoCall) /\ UNCHANGED overlapped
    BY <1>6 DEF CreateInserts, MoveRefused, UpdateSaves, DeleteSelf, AssignAdds, RemoveCounts,
                StatementRefused, CallFails, history
  <2>2. ~At(c, "idle")
    BY <1>6 DEF CreateInserts, MoveRefused, UpdateSaves, DeleteSelf, AssignAdds, RemoveCounts,
                StatementRefused, CallFails, Emptied, At
  <2> QED
    BY <1>3, <1>4, <2>1, <2>2
<1>7. ASSUME NEW c \in Callers,
             MoveReads(c) \/ MoveSubtree(c) \/ DeleteLists(c) \/ DeleteNext(c) \/ DeleteDescendant(c)
      PROVE  Alone' /\ \A d \in Callers : CountTrue(d)'
  <2>1. UNCHANGED overlapped /\ ~At(c, "idle")
    BY <1>7 DEF MoveReads, MoveSubtree, DeleteLists, DeleteNext, DeleteDescendant, Emptied, At, history
  <2>2. PICK next : Goto(c, next) /\ next.pc \in {"moving", "saving", "deleting", "emptying"}
    <3>1. CASE MoveReads(c)
      BY <3>1 DEF MoveReads
    <3>2. CASE MoveSubtree(c)
      BY <3>2 DEF MoveSubtree
    <3>3. CASE DeleteLists(c)
      BY <3>3 DEF DeleteLists
    <3>4. CASE DeleteNext(c)
      BY <3>4 DEF DeleteNext
    <3>5. CASE DeleteDescendant(c)
      BY <3>5 DEF DeleteDescendant
    <3> QED
      BY <1>7, <3>1, <3>2, <3>3, <3>4, <3>5
  <2> QED
    BY <1>3, <2>1, <2>2
<1>8. ASSUME NEW c \in Callers, DeleteUnfiles(c)
      PROVE  Alone' /\ \A d \in Callers : CountTrue(d)'
  <2>1. PICK x : call' = [call EXCEPT ![c].features = @ \ {x}]
    BY <1>8 DEF DeleteUnfiles
  <2>2. /\ \A d \in Callers \ {c} : call'[d] = call[d]
        /\ call'[c] = [call[c] EXCEPT !.features = @ \ {x}]
    BY <1>0, <2>1 DEF SoundCalls
  <2>3. call[c] \in [pc : {"emptying"}, folder : Folders, recursive : BOOLEAN, target : Folders,
                     left : SUBSET Folders, features : SUBSET Features]
    BY <1>0, <1>8 DEF SoundCalls, CallStates, NoCall, At, DeleteUnfiles
  <2>4. call'[c].pc = "emptying"
    BY <2>2, <2>3
  <2>5. \A d \in Callers \ {c} : At(d, "idle")
    BY <1>8, Turn DEF DeleteUnfiles, history, At
  <2> QED
    BY <1>0, <2>2, <2>4, <2>5, OthersIdle
<1>9. ASSUME NEW c \in Callers, AssignReads(c)
      PROVE  Alone' /\ \A d \in Callers : CountTrue(d)'
  <2>1. PICK f \in Folders, xs \in SUBSET Features :
          /\ Live(f)
          /\ Begin(c, [pc |-> "assigning", folder |-> f, features |-> xs, count |-> folders[f].count])
    BY <1>9 DEF AssignReads
  <2>2. PICK next : /\ next = [pc |-> "assigning", folder |-> f, features |-> xs, count |-> folders[f].count]
                    /\ Begin(c, next)
    BY <2>1
  <2>3. call'[c] = next /\ Goto(c, next) /\ \A d \in Callers \ {c} : At(d, "idle")
    BY <1>0, <2>2, Turn, Goes DEF Begin
  <2>4. CountTrue(c)'
    BY <1>9, <2>1, <2>2, <2>3 DEF CountTrue, AssignReads, Live, At
  <2> QED
    BY <1>1, <2>3, <2>4
<1>10. ASSUME NEW c \in Callers, AssignFiles(c) \/ AssignCounts(c)
       PROVE  Alone' /\ \A d \in Callers : CountTrue(d)'
  <2>1. /\ UNCHANGED <<overlapped, folders>> /\ ~At(c, "idle")
        /\ At(c, "assigning") \/ At(c, "counting")
    BY <1>10 DEF AssignFiles, AssignCounts, history, At
  <2>2. ~overlapped /\ \A d \in Callers \ {c} : At(d, "idle")
    BY <2>1, Turn
  <2>3. PICK f : f = call[c].folder /\ Live(f) /\ call[c].count = folders[f].count
    BY <2>1, <2>2 DEF InTurn, CountTrue
  <2>4. CASE AssignFiles(c)
    <3>1. PICK next : /\ next = [pc |-> "counting", folder |-> f, count |-> folders[f].count]
                      /\ Goto(c, next)
      BY <2>3, <2>4 DEF AssignFiles
    <3>2. call'[c] = next
      BY <1>0, <3>1, Goes
    <3>3. CountTrue(c)'
      BY <2>1, <2>3, <3>1, <3>2 DEF CountTrue, Live, At
    <3> QED
      BY <1>1, <2>2, <3>1, <3>3
  <2>5. CASE AssignCounts(c)
    <3>1. PICK next : /\ next = [pc |-> "adding", folder |-> f,
                                 delta |-> Cardinality(FiledIn(f)) - folders[f].count]
                      /\ Goto(c, next)
      BY <2>3, <2>5 DEF AssignCounts, Difference
    <3>2. call'[c] = next /\ FiledIn(f)' = FiledIn(f)
      BY <1>0, <2>5, <3>1, Goes DEF AssignCounts, FiledIn
    <3>3. CountTrue(c)'
      BY <2>1, <2>3, <3>1, <3>2, SMTT(30) DEF CountTrue, Live, At, FiledIn
    <3> QED
      BY <1>1, <2>2, <3>1, <3>3
  <2> QED
    BY <1>10, <2>4, <2>5
<1>11. CASE UNCHANGED vars
  BY <1>11 DEF vars, InTurn, Alone, CountTrue, Live, At, FiledIn
<1> QED
  BY <1>5, <1>6, <1>7, <1>8, <1>9, <1>10, <1>11 DEF Next

LEMMA InTurnAlways == Spec => []InTurn
<1>1. Init => InTurn
  BY DEF Init, InTurn, Alone, CountTrue, At, NoCall
<1> QED
  BY <1>1, InTurnStep, Holds, PTL DEF Spec

(* An assign call that no other overlaps leaves the folder's feature_count   *)
(* at the number of its features, whatever it was before.                    *)
THEOREM AssignsExactly == Spec => AssignedCountExact
<1>1. ASSUME IInv, InTurn, NEW c \in Callers, AssignAdds(c), ~overlapped
      PROVE  folders'[call[c].folder].count = Cardinality(FiledIn(call[c].folder))
  <2>1. PICK f \in Folders : f = call[c].folder
    BY <1>1, OthersInMemory DEF IInv, AssignAdds
  <2>2. Live(f) /\ call[c].delta = Cardinality(FiledIn(f)) - folders[f].count
    BY <1>1, <2>1 DEF InTurn, CountTrue, AssignAdds
  <2>3. folders[f] \in Rows /\ folders[f].count \in Nat /\ DOMAIN folders = Folders
    BY <1>1, <2>2, LiveRows DEF IInv, Live, Rows, SoundTable
  <2>4. PICK n \in Nat : n = Cardinality(FiledIn(f))
    BY FiledCounted
  <2>5. folders[f].count + call[c].delta = n
    BY <2>2, <2>3, <2>4
  <2>6. folders' = [folders EXCEPT ![f].count = n]
    <3>1. (IF n > 0 THEN n ELSE 0) = n
      BY <2>4
    <3>2. folders' = Added(f, call[c].delta)
      BY <1>1, <2>1 DEF AssignAdds
    <3> QED
      BY <2>2, <2>5, <3>1, <3>2 DEF Added
  <2>7. folders'[f] = [folders[f] EXCEPT !.count = n]
    BY <2>3, <2>6
  <2>8. folders'[f].count = n
    BY <2>3, <2>7 DEF Rows
  <2> QED
    BY <2>1, <2>4, <2>8
<1>2. IInv /\ InTurn /\ [Next]_vars =>
        [\A c \in Callers : AssignAdds(c) /\ ~overlapped =>
           folders'[call[c].folder].count = Cardinality(FiledIn(call[c].folder))]_vars
  BY <1>1
<1> QED
  BY <1>2, InTurnAlways, Holds, PTL DEF Spec, AssignedCountExact

------------------------------------------------------------------------------
(* Paths in turn: first what is true of the paths themselves. *)

(* What lies below f: its children, and what lies below them. *)
LEMMA BelowAppended ==
  ASSUME NEW q \in Seq(Folders), NEW g \in Folders, NEW prefix \in Seq(Folders), Len(prefix) > 0
  PROVE  Below(Append(q, g), prefix) <=> q = prefix \/ Below(q, prefix)
<1> DEFINE path == Append(q, g)
           k == Len(prefix)
<1>1. Len(q) \in Nat /\ k \in Nat /\ k > 0 /\ Len(path) = Len(q) + 1
  BY LenProperties, AppendProperties
<1>2. ASSUME k <= Len(q) PROVE SubSeq(path, 1, k) = SubSeq(q, 1, k)
  <2>1. path = q \o <<g>> /\ <<g>> \in Seq(Folders)
    BY AppendIsConcat
  <2>2. 1 \in 1 .. Len(q) /\ k \in 1 .. Len(q)
    BY <1>1, <1>2
  <2> HIDE DEF path, k
  <2> QED
    BY <2>1, <2>2, SubSeqOfConcat1
<1>3. SubSeq(q, 1, Len(q)) = q
  BY SubSeqFull
<1> HIDE DEF path, k
<1>4. CASE k > Len(q)
  BY <1>1, <1>4 DEF Below, path, k
<1>5. CASE k = Len(q)
  BY <1>1, <1>2, <1>3, <1>5 DEF Below, path, k
<1>6. CASE k < Len(q)
  BY <1>1, <1>2, <1>6 DEF Below, path, k
<1> QED
  BY <1>1, <1>4, <1>5, <1>6

(* Rebasing a child's path is appending to the parent's, rebased or new.     *)
LEMMA RebasedAppended ==
  ASSUME NEW q \in Seq(Folders), NEW g \in Folders,
         NEW old \in Seq(Folders), NEW new \in Seq(Folders), Len(old) > 0
  PROVE  LET rest(path) == SubSeq(path, Len(old) + 1, Len(path))
         IN  /\ q = old => new \o rest(Append(q, g)) = Append(new, g)
             /\ Below(q, old) => new \o rest(Append(q, g)) = Append(new \o rest(q), g)
<1> DEFINE path == Append(q, g)
           m == Len(old) + 1
           n == Len(q) + 1
<1>1. /\ Len(q) \in Nat /\ Len(old) \in Nat /\ m \in Nat /\ n \in Nat
      /\ path \in Seq(Folders) /\ Len(path) = n /\ path[n] = g
  BY LenProperties, AppendProperties
<1>2. path = q \o <<g>> /\ <<g>> \in Seq(Folders) /\ Append(new, g) = new \o <<g>>
  BY AppendIsConcat
<1> HIDE DEF path
<1>3. ASSUME m <= n PROVE SubSeq(path, m, n) = SubSeq(path, m, n - 1) \o <<g>>
  <2>1. m \in 1 .. Len(path) /\ n \in m .. Len(path)
    BY <1>1, <1>3
  <2> QED
    BY <1>1, <2>1, SubSeqRecursiveSecond
<1>4. ASSUME q = old PROVE new \o SubSeq(path, m, n) = Append(new, g)
  <2>1. n - 1 < m /\ m <= n
    BY <1>1, <1>4
  <2>2. SubSeq(path, m, n - 1) = << >>
    BY <1>1, <2>1, SubSeqEmpty
  <2>3. << >> \o <<g>> = <<g>>
    BY <1>2, ConcatEmptySeq
  <2> QED
    BY <1>2, <1>3, <2>1, <2>2, <2>3
<1>5. ASSUME Below(q, old) PROVE new \o SubSeq(path, m, n) = Append(new \o SubSeq(q, m, Len(q)), g)
  <2>1. m <= n /\ m \in 1 .. Len(q) /\ Len(q) \in 1 .. Len(q) /\ n - 1 = Len(q)
    BY <1>1, <1>5 DEF Below
  <2>2. SubSeq(path, m, Len(q)) = SubSeq(q, m, Len(q))
    BY <1>2, <2>1, SubSeqOfConcat1
  <2> DEFINE rest == SubSeq(q, m, Len(q))
  <2>3. rest \in Seq(Folders)
    <3>1. \A i \in m .. Len(q) : q[i] \in Folders
      BY <1>1, ElementOfSeq
    <3> QED
      BY <1>1, <3>1, SubSeqProperties
  <2>4. SubSeq(path, m, n) = rest \o <<g>>
    BY <1>3, <2>1, <2>2
  <2> HIDE DEF rest
  <2>5. new \o (rest \o <<g>>) = (new \o rest) \o <<g>>
    BY <1>2, <2>3, ConcatAssociative
  <2>6. new \o rest \in Seq(Folders)
    BY <2>3, ConcatProperties
  <2>7. Append(new \o rest, g) = (new \o rest) \o <<g>>
    BY <2>6, AppendIsConcat
  <2> QED
    BY <2>4, <2>5, <2>7 DEF rest
<1> QED
  BY <1>1, <1>4, <1>5 DEF path

LEMMA PathOfLive ==
  ASSUME SoundTable(folders), NEW f \in Folders, Live(f)
  PROVE  /\ folders[f] \in Rows /\ folders[f].path \in Seq(Folders) /\ folders[f].parent \in Parents
         /\ Len(folders[f].path) \in Nat /\ Len(folders[f].path) > 0
         /\ folders[f].path[Len(folders[f].path)] = f
         /\ ~Below(folders[f].path, folders[f].path)
<1>1. folders[f] \in Rows /\ Sound(f, folders[f])
  BY LiveRows DEF Live
<1>2. /\ folders[f].path \in Seq(Folders) /\ folders[f].level \in 0..MaxDepth
      /\ folders[f].parent \in Parents /\ Len(folders[f].path) = folders[f].level + 1
      /\ folders[f].path[Len(folders[f].path)] = f
  BY <1>1 DEF Sound, Rows
<1> QED
  BY <1>1, <1>2, CatalogAssumption DEF Below

(* The parent of a live folder is live, or there is none. *)
LEMMA ParentOfLive ==
  ASSUME SoundTable(folders), Allowed(folders), NEW f \in Folders, Live(f),
         folders[f].parent # NoFolder
  PROVE  folders[f].parent \in Folders /\ Live(folders[f].parent)
BY PathOfLive DEF Allowed, Live, Parents

(* By its path a folder is below f if by its parent it is below f or in f.   *)
LEMMA BelowParent ==
  ASSUME SoundTable(folders), Allowed(folders), NEW f \in Folders, Live(f), NEW g \in Folders, Live(g),
         folders[g].path = Path(g, folders[g].parent)
  PROVE  Below(folders[g].path, folders[f].path) <=> folders[g].parent \in {f} \cup Descendants(f)
<1> DEFINE p == folders[g].parent
           prefix == folders[f].path
<1>1. prefix \in Seq(Folders) /\ Len(prefix) \in Nat /\ Len(prefix) > 0
      /\ prefix[Len(prefix)] = f
  BY PathOfLive
<1>2. CASE p = NoFolder
  <2>1. folders[g].path = <<g>>
    BY <1>2 DEF Path
  <2>2. Len(<<g>>) = 1
    OBVIOUS
  <2>3. p \notin {f} \cup Descendants(f)
    BY <1>2, CatalogAssumption DEF Descendants
  <2> QED
    BY <1>1, <2>1, <2>2, <2>3 DEF Below
<1>3. CASE p # NoFolder
  <2>1. p \in Folders /\ Live(p)
    BY <1>3, ParentOfLive
  <2>2. /\ folders[p].path \in Seq(Folders) /\ folders[p].path[Len(folders[p].path)] = p
        /\ folders[g].path = Append(folders[p].path, g)
    BY <1>3, <2>1, PathOfLive DEF Path
  <2>3. Below(folders[g].path, prefix) <=> folders[p].path = prefix \/ Below(folders[p].path, prefix)
    BY <1>1, <2>2, BelowAppended
  <2>4. folders[p].path = prefix <=> p = f
    BY <1>1, <2>2
  <2>5. Below(folders[p].path, prefix) <=> p \in Descendants(f)
    BY <2>1 DEF Descendants
  <2> QED
    BY <2>3, <2>4, <2>5
<1> QED
  BY <1>2, <1>3

(* A set of numbers has a least one. *)
LEMMA Least ==
  ASSUME NEW S \in SUBSET Nat, S # {}
  PROVE  \E n \in S : \A m \in S : n <= m
<1>1. \A m, n \in Nat : m < n => <<m, n>> \in OpToRel(<, Nat)
  BY DEF OpToRel
<1>2. PICK n \in S : \A m \in S : <<m, n>> \notin OpToRel(<, Nat)
  BY NatLessThanWellFounded, WFMin
<1>3. \A m \in S : ~(m < n)
  BY <1>1, <1>2, Zenon
<1> QED
  BY <1>3

(* Without children there are no descendants: the highest of them would be   *)
(* a child.                                                                  *)
LEMMA NoDescendants ==
  ASSUME SoundTable(folders), Allowed(folders), PathsMatchParents,
         NEW f \in Folders, Live(f), Children(f) = {}
  PROVE  Descendants(f) = {}
<1> SUFFICES ASSUME Descendants(f) # {} PROVE FALSE
  OBVIOUS
<1> DEFINE depth(g) == Len(folders[g].path)
           depths == {depth(g) : g \in Descendants(f)}
<1>1. \A g \in Descendants(f) : g \in Folders /\ Live(g) /\ Below(folders[g].path, folders[f].path)
  BY DEF Descendants
<1>2. \A g \in Folders : Live(g) => depth(g) \in Nat /\ folders[g].path \in Seq(Folders)
  BY PathOfLive
<1>3. depths \in SUBSET Nat /\ depths # {}
  BY <1>1, <1>2
<1>4. PICK n \in depths : \A m \in depths : n <= m
  BY <1>3, Least
<1>5. PICK g \in Descendants(f) : n = depth(g)
  BY <1>4
<1>6. PICK p : p = folders[g].parent
  OBVIOUS
<1>7. g \in Folders /\ Live(g) /\ folders[g].path = Path(g, p)
  BY <1>1, <1>6 DEF PathsMatchParents
<1>8. p \in Descendants(f)
  BY <1>1, <1>6, <1>7, BelowParent DEF Children
<1>9. p \in Folders /\ Live(p) /\ p # NoFolder
  BY <1>1, <1>8, CatalogAssumption
<1>10. depth(g) = depth(p) + 1
  BY <1>2, <1>7, <1>9, AppendProperties DEF Path
<1>11. depth(g) <= depth(p) /\ depth(p) \in Nat
  BY <1>2, <1>4, <1>5, <1>8, <1>9
<1> QED
  BY <1>10, <1>11

(* Where paths follow parents there is no cycle: the parent of the highest   *)
(* folder of a set is above it, hence not in the set.                        *)
LEMMA PathsForbidCycles ==
  ASSUME SoundTable(folders), Allowed(folders), PathsMatchParents
  PROVE  NoCycles
<1> SUFFICES ASSUME NEW fs \in SUBSET {f \in Folders : Live(f)}, fs # {}
             PROVE  \E f \in fs : folders[f].parent \notin fs
  BY DEF NoCycles
<1> DEFINE depth(g) == Len(folders[g].path)
           depths == {depth(g) : g \in fs}
<1>1. \A g \in Folders : Live(g) => depth(g) \in Nat /\ folders[g].path \in Seq(Folders)
  BY PathOfLive
<1>2. depths \in SUBSET Nat /\ depths # {}
  BY <1>1
<1>3. PICK n \in depths : \A m \in depths : n <= m
  BY <1>2, Least
<1>4. PICK f \in fs : n = depth(f)
  BY <1>3
<1>5. SUFFICES ASSUME folders[f].parent \in fs PROVE FALSE
  OBVIOUS
<1>6. PICK p : p = folders[f].parent
  OBVIOUS
<1>7. f \in Folders /\ Live(f) /\ p \in fs /\ p \in Folders /\ Live(p) /\ p # NoFolder
  BY <1>5, <1>6, CatalogAssumption
<1>8. folders[f].path = Append(folders[p].path, f)
  BY <1>6, <1>7 DEF PathsMatchParents, Path
<1>9. depth(f) = depth(p) + 1
  BY <1>1, <1>7, <1>8, AppendProperties
<1>10. depth(f) <= depth(p) /\ depth(f) \in Nat /\ depth(p) \in Nat
  BY <1>1, <1>3, <1>4, <1>7
<1> QED
  BY <1>9, <1>10

(* A table with one row, of a folder that has no children or keeps its path. *)
LEMMA OneRowConsistent ==
  ASSUME SoundTable(folders), Allowed(folders), PathsMatchParents, NEW f \in Folders,
         NEW row \in Rows, row.path = Path(f, row.parent),
         row.parent # NoFolder => Live(row.parent), row.parent # f,
         Children(f) = {} \/ row.path = folders[f].path
  PROVE  Consistent([folders EXCEPT ![f] = row])
<1> DEFINE table == [folders EXCEPT ![f] = row]
<1>1. table[f] = row /\ \A g \in Folders \ {f} : table[g] = folders[g]
  BY DEF SoundTable
<1>2. \A g \in Folders : Live(g) =>
        /\ folders[g].path = Path(g, folders[g].parent)
        /\ folders[g].parent # NoFolder => folders[g].parent \in Folders /\ Live(folders[g].parent)
  BY ParentOfLive DEF PathsMatchParents
<1>3. row.parent # NoFolder => row.parent \in Folders \ {f}
  BY DEF Rows, Parents
<1> HIDE DEF table
<1>4. table[f].path = IF table[f].parent = NoFolder THEN <<f>>
                      ELSE Append(table[table[f].parent].path, f)
  BY <1>1, <1>3 DEF Path
<1>5. ASSUME NEW g \in Folders \ {f}, table[g].state = "live"
      PROVE  table[g].path = IF table[g].parent = NoFolder THEN <<g>>
                             ELSE Append(table[table[g].parent].path, g)
  <2>1. Live(g) /\ table[g] = folders[g]
    BY <1>1, <1>5 DEF Live
  <2>2. folders[g].parent = f => row.path = folders[f].path
    BY <2>1 DEF Children
  <2>3. folders[g].parent # NoFolder => table[folders[g].parent].path = folders[folders[g].parent].path
    BY <1>1, <1>2, <2>1, <2>2
  <2> QED
    BY <1>2, <2>1, <2>3 DEF Path
<1> QED
  BY <1>4, <1>5 DEF Consistent, table

(* Between the two statements of a move only the folder's own row is behind. *)
LEMMA MovedConsistent ==
  ASSUME SoundTable(folders), Allowed(folders), PathsMatchParents, NEW f \in Folders, Live(f),
         NEW row \in Rows, row.path = Path(f, row.parent),
         row.parent # NoFolder => Live(row.parent),
         row.parent \notin {f} \cup Descendants(f),
         NEW old, old = folders[f].path, NEW by, NEW moved, moved = Rebased(old, row.path, by)
  PROVE  moved[f] = folders[f] /\ Consistent([moved EXCEPT ![f] = row])
<1> DEFINE new == row.path
           rest(path) == SubSeq(path, Len(old) + 1, Len(path))
           table == [moved EXCEPT ![f] = row]
           Moves(g) == Live(g) /\ Below(folders[g].path, old)
<1>0. /\ new \in Seq(Folders) /\ row.parent \in Parents
      /\ old \in Seq(Folders) /\ Len(old) > 0 /\ ~Moves(f)
  BY PathOfLive DEF Rows
<1>1. \A g \in Folders : ~Moves(g) => moved[g] = folders[g]
  BY DEF Rebased
<1>2. ASSUME NEW g \in Folders, Moves(g)
      PROVE  /\ moved[g].state = folders[g].state /\ moved[g].parent = folders[g].parent
             /\ moved[g].path = new \o rest(folders[g].path)
  <2> DEFINE path == new \o rest(folders[g].path)
             level == folders[g].level + by
  <2>1. moved[g] = [folders[g] EXCEPT !.path = path, !.level = level]
    BY <1>2 DEF Rebased
  <2>2. folders[g] \in Rows
    BY <1>2, PathOfLive
  <2> HIDE DEF path, level
  <2>3. /\ moved[g].state = folders[g].state /\ moved[g].parent = folders[g].parent
        /\ moved[g].path = path
    BY <2>1, <2>2, SMTT(30) DEF Rows
  <2> QED
    BY <2>3 DEF path
<1>3. table[f] = row /\ \A g \in Folders \ {f} : table[g] = moved[g]
  BY DEF Rebased
<1> HIDE DEF table
<1>4. table[f].path = IF table[f].parent = NoFolder THEN <<f>>
                      ELSE Append(table[table[f].parent].path, f)
  <2>1. CASE row.parent = NoFolder
    BY <1>3, <2>1 DEF Path
  <2>2. CASE row.parent # NoFolder
    <3>1. row.parent \in Folders \ {f} /\ Live(row.parent) /\ ~Moves(row.parent)
      BY <1>0, <2>2 DEF Descendants, Parents
    <3>2. table[row.parent] = folders[row.parent]
      BY <1>1, <1>3, <3>1
    <3> QED
      BY <1>3, <2>2, <3>2 DEF Path
  <2> QED
    BY <2>1, <2>2
<1>5. ASSUME NEW g \in Folders \ {f}, table[g].state = "live"
      PROVE  table[g].path = IF table[g].parent = NoFolder THEN <<g>>
                             ELSE Append(table[table[g].parent].path, g)
  <2>1. Live(g)
    BY <1>1, <1>2, <1>3, <1>5 DEF Live
  <2>2. PICK p : p = folders[g].parent
    OBVIOUS
  <2>3. folders[g].path = Path(g, p) /\ table[g].parent = p
    BY <1>1, <1>2, <1>3, <2>1, <2>2, ZenonT(60) DEF PathsMatchParents
  <2>4. Moves(g) <=> p \in {f} \cup Descendants(f)
    BY <2>1, <2>2, <2>3, BelowParent
  <2>5. CASE p = NoFolder
    <3>1. ~Moves(g)
      BY <2>4, <2>5, CatalogAssumption DEF Descendants
    <3> QED
      BY <1>1, <1>3, <2>3, <2>5, <3>1 DEF Path
  <2>6. CASE p # NoFolder
    <3>1. p \in Folders /\ Live(p) /\ folders[p].path \in Seq(Folders)
      BY <2>1, <2>2, <2>6, ParentOfLive, PathOfLive
    <3>2. folders[g].path = Append(folders[p].path, g)
      BY <2>3, <2>6 DEF Path
    <3>3. CASE p = f
      <4>1. table[g].path = new \o rest(Append(old, g))
        BY <1>2, <1>3, <2>4, <3>2, <3>3, ZenonT(60)
      <4>2. new \o rest(Append(old, g)) = Append(new, g)
        BY <1>0, RebasedAppended
      <4> QED
        BY <1>3, <2>3, <2>6, <3>3, <4>1, <4>2
    <3>4. CASE p # f /\ Moves(p)
      <4>1. p \in Descendants(f)
        BY <3>1, <3>4 DEF Descendants
      <4>2. table[g].path = new \o rest(Append(folders[p].path, g))
        BY <1>2, <1>3, <2>4, <3>2, <4>1, ZenonT(60)
      <4>3. new \o rest(Append(folders[p].path, g)) = Append(new \o rest(folders[p].path), g)
        <5>1. PICK q \in Seq(Folders) : q = folders[p].path
          BY <3>1
        <5>2. Below(q, old)
          BY <3>4, <5>1
        <5>3. new \o rest(Append(q, g)) = Append(new \o rest(q), g)
          BY <1>0, <5>2, RebasedAppended, ZenonT(60)
        <5> QED
          BY <5>1, <5>3
      <4>4. table[p].path = new \o rest(folders[p].path)
        BY <1>2, <1>3, <3>1, <3>4
      <4> QED
        BY <2>3, <2>6, <4>2, <4>3, <4>4
    <3>5. CASE p # f /\ ~Moves(p)
      <4>1. ~Moves(g)
        BY <2>4, <3>5 DEF Descendants
      <4>2. table[g] = folders[g] /\ table[p] = folders[p]
        BY <1>1, <1>3, <3>1, <3>5, <4>1
      <4> QED
        BY <2>3, <2>6, <3>2, <4>2
    <3> QED
      BY <3>3, <3>4, <3>5
  <2> QED
    BY <2>5, <2>6
<1> QED
  <2>1. Consistent(table)
    BY <1>4, <1>5, Zenon DEF Consistent
  <2> QED
    BY <1>0, <1>1, <2>1 DEF table

------------------------------------------------------------------------------
(* A call that is alone, in a tree as calls in turn leave it. *)
Sole(c) ==
  /\ IInv /\ Allowed(folders) /\ PathsTrue
  /\ \A d \in Callers \ {c} : At(d, "idle")

LEMMA SolePaths ==
  ASSUME NEW c \in Callers, Sole(c)
  PROVE  /\ WriteTrue(c) /\ DeleteTrue(c)
         /\ ~At(c, "saving") /\ ~Listed(c) => PathsMatchParents
BY DEF Sole, PathsTrue, Listed, At

(* Of its step, too, only its own state is of interest; ... *)
LEMMA SoleStep ==
  ASSUME NEW c \in Callers, Sole(c), NEW next, Goto(c, next),
         WriteTrue(c)', DeleteTrue(c)',
         (~At(c, "saving") /\ ~Listed(c) => PathsMatchParents)'
  PROVE  PathsTrue'
<1>1. \A d \in Callers \ {c} : call'[d].pc = "idle"
  BY Goes DEF Sole, IInv, At
<1>2. \A d \in Callers \ {c} : WriteTrue(d)' /\ DeleteTrue(d)'
  BY <1>1 DEF WriteTrue, DeleteTrue, Listed, At
<1> QED
  BY <1>2 DEF PathsTrue

(* ... and the paths alone, when it is writing no path and deleting nothing. *)
LEMMA SolePasses ==
  ASSUME NEW c \in Callers, Sole(c), NEW next, Goto(c, next), PathsMatchParents',
         next.pc \notin {"creating", "checking", "moving", "saving", "emptying", "deleting"}
  PROVE  PathsTrue'
<1>1. call'[c] = next
  BY Goes DEF Sole, IInv
<1>2. WriteTrue(c)' /\ DeleteTrue(c)'
  BY <1>1 DEF WriteTrue, DeleteTrue, Listed, At
<1> QED
  BY <1>2, SoleStep

LEMMA UnwrittenPaths ==
  ASSUME PathsMatchParents, UNCHANGED folders
  PROVE  PathsMatchParents'
BY DEF PathsMatchParents, Live, Path

LEMMA ConsistentPaths ==
  ASSUME NEW table, Consistent(table), folders' = table
  PROVE  PathsMatchParents'
BY DEF Consistent, PathsMatchParents, Live, Path

(* A new folder has no children; its parent is live when it is read.         *)
LEMMA CreatePaths ==
  ASSUME NEW c \in Callers, Sole(c), CreateReads(c) \/ CreateInserts(c)
  PROVE  PathsTrue'
<1>1. CASE CreateReads(c)
  <2>1. PICK f \in Folders, parent \in Parents, name \in Names :
          /\ folders[f].state = "new"
          /\ parent # NoFolder => Live(parent) /\ folders[parent].level < MaxDepth
          /\ Begin(c, [pc |-> "creating", folder |-> f,
                       row |-> [state |-> "live", name |-> name, parent |-> parent,
                                path |-> Path(f, parent), level |-> Level(parent),
                                version |-> 1, count |-> 0]])
    BY <1>1 DEF CreateReads, Parents
  <2>2. PICK row : row = [state |-> "live", name |-> name, parent |-> parent,
                          path |-> Path(f, parent), level |-> Level(parent),
                          version |-> 1, count |-> 0]
    OBVIOUS
  <2>3. row \in Rows /\ row.path = Path(f, row.parent) /\ row.parent = parent
    BY <2>1, <2>2, PathAndLevel DEF Sole, IInv, Rows
  <2>4. PICK next : next = [pc |-> "creating", folder |-> f, row |-> row] /\ Begin(c, next)
    BY <2>1, <2>2
  <2>5. Goto(c, next) /\ call'[c] = next /\ UNCHANGED folders
    BY <1>1, <2>4, Goes DEF Sole, IInv, Begin, CreateReads
  <2>6. ~Live(f) /\ Children(f) = {}
    <3>1. ~Live(f) /\ f # NoFolder
      BY <2>1, CatalogAssumption DEF Live
    <3> QED
      BY <3>1, ParentOfLive DEF Sole, IInv, Children
  <2>7. PathsMatchParents
    BY <1>1, SolePaths DEF CreateReads, At, Listed
  <2>8. Consistent([folders EXCEPT ![f] = row])
    <3>1. SoundTable(folders) /\ Allowed(folders)
      BY DEF Sole, IInv
    <3>2. (row.parent # NoFolder => Live(row.parent)) /\ row.parent # f
      BY <2>1, <2>3, <2>6, CatalogAssumption
    <3> QED
      BY <2>3, <2>6, <2>7, <3>1, <3>2, OneRowConsistent
  <2>9. WriteTrue(c)' /\ DeleteTrue(c)'
    BY <2>4, <2>5, <2>8 DEF WriteTrue, DeleteTrue, Listed, At, Inserted
  <2> QED
    BY <2>5, <2>7, <2>9, UnwrittenPaths, SoleStep
<1>2. CASE CreateInserts(c)
  <2>1. Consistent(Inserted(call[c].folder, call[c].row))
    BY <1>2, SolePaths DEF CreateInserts, WriteTrue
  <2>2. PathsMatchParents'
    BY <1>2, <2>1, ConsistentPaths DEF CreateInserts
  <2> QED
    BY <1>2, <2>2, SolePasses DEF CreateInserts, NoCall
<1> QED
  BY <1>1, <1>2

(* A rename leaves the path; a move is to a folder that is not below.        *)
LEMMA UpdateReadsPaths ==
  ASSUME NEW c \in Callers, Sole(c), UpdateReads(c)
  PROVE  PathsTrue'
<1>1. PICK f \in Folders, parent \in Parents, name \in Names :
        /\ Live(f)
        /\ LET row == [folders[f] EXCEPT !.version = @ + 1, !.name = name] IN
           Begin(c, IF parent = row.parent THEN [pc |-> "saving", folder |-> f, row |-> row]
                    ELSE [pc |-> "checking", folder |-> f, row |-> row, parent |-> parent])
  BY DEF UpdateReads, Parents, Sole
<1>2. PICK version : version = folders[f].version + 1
  OBVIOUS
<1>3. PICK row : row = [folders[f] EXCEPT !.version = version, !.name = name]
  OBVIOUS
<1>4. PICK next :
        /\ next = IF parent = row.parent THEN [pc |-> "saving", folder |-> f, row |-> row]
                  ELSE [pc |-> "checking", folder |-> f, row |-> row, parent |-> parent]
        /\ Begin(c, next)
  BY <1>1, <1>2, <1>3
<1>5. Goto(c, next) /\ call'[c] = next /\ UNCHANGED folders
  BY <1>4, Goes DEF Sole, IInv, Begin, UpdateReads
<1>6. PathsMatchParents
  BY SolePaths DEF UpdateReads, At, Listed
<1>7. /\ SoundTable(folders) /\ Allowed(folders)
      /\ folders[f] \in Rows /\ folders[f].path = Path(f, folders[f].parent)
  BY <1>1, <1>6, PathOfLive DEF Sole, IInv, PathsMatchParents
<1>8. row.path = folders[f].path /\ row.parent = folders[f].parent
  BY <1>3, <1>7 DEF Rows
<1>9. PICK kept : kept = [row EXCEPT !.count = folders[f].count]
  OBVIOUS
<1>10. kept \in Rows /\ kept.path = folders[f].path /\ kept.parent = folders[f].parent
  <2>1. version \in Nat /\ folders[f].count \in Nat
    BY <1>2, <1>7 DEF Rows
  <2>2. row \in Rows
    BY <1>1, <1>3, <1>7, <2>1 DEF Rows
  <2> QED
    BY <1>8, <1>9, <2>1, <2>2 DEF Rows
<1>11. Consistent([folders EXCEPT ![f] = kept])
  <2>1. (kept.parent # NoFolder => Live(kept.parent)) /\ kept.parent # f
    <3>1. kept.parent # NoFolder => kept.parent \in Folders /\ Live(kept.parent)
      BY <1>1, <1>7, <1>10, ParentOfLive
    <3>2. kept.parent # f
      <4>1. ASSUME kept.parent = f PROVE FALSE
        <5>1. folders[f].path = Append(folders[f].path, f)
          BY <1>7, <1>10, <4>1, CatalogAssumption DEF Path
        <5>2. folders[f].path \in Seq(Folders) /\ Len(folders[f].path) \in Nat
          BY <1>1, <1>7, PathOfLive
        <5>3. Len(Append(folders[f].path, f)) = Len(folders[f].path) + 1
          BY <5>2, AppendProperties
        <5> QED
          BY <5>1, <5>2, <5>3
      <4> QED
        BY <4>1
    <3> QED
      BY <3>1, <3>2
  <2> QED
    BY <1>7, <1>6, <1>10, <2>1, OneRowConsistent
<1>12. WriteTrue(c)' /\ DeleteTrue(c)'
  <2>1. CASE parent = row.parent
    <3>1. next = [pc |-> "saving", folder |-> f, row |-> row]
      BY <1>4, <2>1
    <3>2. PICK table : table = [folders EXCEPT ![f] = kept] /\ Consistent(table)
      BY <1>11
    <3>3. Saved(call[c].folder, call[c].row)' = table
      BY <1>1, <1>5, <1>9, <3>1, <3>2 DEF Saved, Live
    <3>4. Consistent(Saved(call[c].folder, call[c].row))'
      BY <3>2, <3>3 DEF Consistent
    <3> QED
      BY <1>1, <1>5, <3>1, <3>4 DEF WriteTrue, DeleteTrue, Listed, At, Live
  <2>2. CASE parent # row.parent
    <3>1. next = [pc |-> "checking", folder |-> f, row |-> row, parent |-> parent]
      BY <1>4, <2>2
    <3> QED
      BY <1>1, <1>5, <1>8, <3>1 DEF WriteTrue, DeleteTrue, Listed, At, Live
  <2> QED
    BY <2>1, <2>2
<1> QED
  BY <1>5, <1>6, <1>12, UnwrittenPaths, SoleStep

(* A folder that is no descendant of itself may be moved into itself; but    *)
(* for that, the new parent is outside the subtree.                          *)
LEMMA MoveReadsPaths ==
  ASSUME NEW c \in Callers, Sole(c), MoveReads(c), ~selfMoved'
  PROVE  PathsTrue'
<1>1. PICK f, parent, held : f = call[c].folder /\ parent = call[c].parent /\ held = call[c].row
  OBVIOUS
<1>2. /\ f \in Folders /\ parent \in Parents /\ Sound(f, held)
      /\ Live(f) /\ held.path = folders[f].path /\ parent # f
  <2>1. /\ f \in Folders /\ parent \in Parents /\ Sound(f, held)
        /\ Live(f) /\ held.path = folders[f].path
    BY <1>1, RowInMemory, SolePaths DEF Sole, IInv, MoveReads, WriteTrue
  <2>2. parent # f
    BY <1>1, Zenon DEF MoveReads
  <2> QED
    BY <2>1, <2>2
<1>3. parent # NoFolder => Live(parent) /\ parent \notin Descendants(f)
  BY <1>1, <1>2 DEF MoveReads, MayMove
<1>4. parent \notin {f} \cup Descendants(f)
  BY <1>2, <1>3, CatalogAssumption DEF Descendants
<1>5. PICK path, level, by :
        path = Path(f, parent) /\ level = Level(parent) /\ by = Level(parent) - held.level
  OBVIOUS
<1>6. PICK row : row = [held EXCEPT !.parent = parent, !.path = path, !.level = level]
  OBVIOUS
<1>7. row.parent = parent /\ row.path = path
  BY <1>2, <1>6 DEF Sound, Rows
<1>8. PICK next : /\ next = [pc |-> "moving", folder |-> f, old |-> held.path, by |-> by, row |-> row]
                  /\ Goto(c, next)
  BY <1>1, <1>5, <1>6 DEF MoveReads
<1>9. call'[c] = next /\ UNCHANGED folders
  BY <1>8, Goes DEF Sole, IInv, MoveReads
<1>10. PathsMatchParents
  BY SolePaths DEF MoveReads, At, Listed
<1>11. WriteTrue(c)' /\ DeleteTrue(c)'
  <2>1. UNCHANGED <<Path(f, parent), Descendants(f)>> /\ (Live(f) /\ (parent # NoFolder => Live(parent)))'
    BY <1>2, <1>3, <1>9 DEF Path, Descendants, Live
  <2> QED
    BY <1>2, <1>3, <1>4, <1>5, <1>7, <1>8, <1>9, <2>1 DEF WriteTrue, DeleteTrue, Listed, At
<1> QED
  BY <1>8, <1>9, <1>10, <1>11, UnwrittenPaths, SoleStep

(* The subtree is rebased first, the folder's own row is saved next.         *)
LEMMA MoveSubtreePaths ==
  ASSUME NEW c \in Callers, Sole(c), MoveSubtree(c)
  PROVE  PathsTrue'
<1>1. PICK f, row, old, by : f = call[c].folder /\ row = call[c].row /\ old = call[c].old /\ by = call[c].by
  OBVIOUS
<1>2. /\ f \in Folders /\ row \in Rows /\ Live(f) /\ old = folders[f].path
      /\ row.path = Path(f, row.parent) /\ (row.parent # NoFolder => Live(row.parent))
      /\ row.parent \notin {f} \cup Descendants(f)
  BY <1>1, RowInMemory, SolePaths DEF Sole, IInv, MoveSubtree, WriteTrue, Sound
<1>3. PICK moved : moved = Rebased(old, row.path, by) /\ folders' = moved
  BY <1>1 DEF MoveSubtree
<1>4. PICK next : next = [pc |-> "saving", folder |-> f, row |-> row] /\ Goto(c, next)
  BY <1>1 DEF MoveSubtree
<1>5. call'[c] = next
  BY <1>4, Goes DEF Sole, IInv
<1>6. PICK kept : kept = [row EXCEPT !.count = folders[f].count]
  OBVIOUS
<1>7. SoundTable(folders) /\ Allowed(folders) /\ PathsMatchParents
  BY SolePaths DEF Sole, IInv, MoveSubtree, At, Listed
<1>8. kept \in Rows /\ kept.path = row.path /\ kept.parent = row.parent
  <2>1. folders[f].count \in Nat
    BY <1>2, <1>7, PathOfLive DEF Rows
  <2> QED
    BY <1>2, <1>6, <2>1 DEF Rows
<1>9. moved[f] = folders[f] /\ Consistent([moved EXCEPT ![f] = kept])
  BY <1>2, <1>3, <1>7, <1>8, MovedConsistent
<1>10. PICK table : table = [moved EXCEPT ![f] = kept] /\ Consistent(table)
  BY <1>9
<1>11. Live(f)' /\ Saved(call[c].folder, call[c].row)' = table
  BY <1>2, <1>3, <1>4, <1>5, <1>6, <1>9, <1>10 DEF Saved, Live
<1>12. Consistent(Saved(call[c].folder, call[c].row))'
  BY <1>10, <1>11 DEF Consistent
<1>13. WriteTrue(c)' /\ DeleteTrue(c)' /\ At(c, "saving")'
  BY <1>4, <1>5, <1>11, <1>12 DEF WriteTrue, DeleteTrue, Listed, At
<1> QED
  BY <1>4, <1>13, SoleStep

LEMMA UpdatePaths ==
  ASSUME NEW c \in Callers, Sole(c), ~selfMoved',
         UpdateReads(c) \/ MoveReads(c) \/ MoveRefused(c) \/ MoveSubtree(c) \/ UpdateSaves(c)
  PROVE  PathsTrue'
<1>1. CASE MoveRefused(c)
  <2>1. PathsMatchParents /\ UNCHANGED folders
    BY <1>1, SolePaths DEF MoveRefused, At, Listed
  <2> QED
    BY <1>1, <2>1, UnwrittenPaths, SolePasses DEF MoveRefused, NoCall
<1>2. CASE UpdateSaves(c)
  <2>1. Consistent(Saved(call[c].folder, call[c].row))
    BY <1>2, SolePaths DEF UpdateSaves, WriteTrue
  <2>2. PathsMatchParents'
    BY <1>2, <2>1, ConsistentPaths DEF UpdateSaves
  <2> QED
    BY <1>2, <2>2, SolePasses DEF UpdateSaves, NoCall
<1> QED
  BY <1>1, <1>2, UpdateReadsPaths, MoveReadsPaths, MoveSubtreePaths

------------------------------------------------------------------------------
(* A row that is not deleted, and whose parent is not, stays as it is. *)
LEMMA DeletedRows ==
  ASSUME SoundTable(folders), NEW f \in Folders, NEW g \in Folders
  PROVE  /\ Deleted(f)[g].state = "live" <=> g # f /\ Live(g)
         /\ g # f /\ Live(g) => Deleted(f)[g].path = folders[g].path
         /\ g # f /\ Live(g) /\ folders[g].parent # f => Deleted(f)[g] = folders[g]
<1>1. CASE g = f
  BY <1>1, BlankRows DEF Deleted, Blank
<1>2. CASE g # f /\ Live(g) /\ folders[g].parent = f
  <2>1. Deleted(f)[g] = [folders[g] EXCEPT !.parent = NoFolder]
    BY <1>2 DEF Deleted
  <2>2. folders[g] \in Rows
    BY <1>2, PathOfLive
  <2>3. Deleted(f)[g].state = "live" /\ Deleted(f)[g].path = folders[g].path
    BY <2>1, <2>2 DEF Rows, Parents
  <2> QED
    BY <1>2, <2>3
<1>3. CASE g # f /\ ~(Live(g) /\ folders[g].parent = f)
  <2>1. Deleted(f)[g] = folders[g]
    BY <1>3 DEF Deleted
  <2> QED
    BY <1>3, <2>1 DEF Live
<1> QED
  BY <1>1, <1>2, <1>3

(* A deletion that goes on to the next folder, or the next feature of it.    *)
LEMMA StillDoomed ==
  ASSUME NEW c \in Callers, Sole(c), Listed(c), UNCHANGED folders, NEW next, Goto(c, next),
         next.pc = "emptying", next.target # next.folder,
         next.folder = call[c].folder, next.folder \notin next.left,
         {next.folder} \cup next.left \cup {next.target} = Doomed(c)
  PROVE  PathsTrue'
<1>1. call'[c] = next
  BY Goes DEF Sole, IInv
<1>2. PICK f, doomed : f = call[c].folder /\ doomed = Doomed(c)
  OBVIOUS
<1>3. Live(f) /\ \A g \in Folders : Live(g) /\ g \notin doomed => Stays(g, c)
  BY <1>2, SolePaths DEF DeleteTrue
<1>4. Listed(c)' /\ Doomed(c)' = doomed /\ call'[c].folder = f
  BY <1>1, <1>2 DEF Listed, At, Doomed
<1>5. Live(f)' /\ \A g \in Folders : Live(g)' /\ g \notin doomed => Stays(g, c)'
  BY <1>2, <1>3, <1>4 DEF Live, Stays, Path
<1>6. WriteTrue(c)' /\ DeleteTrue(c)'
  BY <1>1, <1>4, <1>5 DEF WriteTrue, DeleteTrue, At
<1> QED
  BY <1>4, <1>6, SoleStep

LEMMA DeleteReadsPaths ==
  ASSUME NEW c \in Callers, Sole(c), DeleteReads(c)
  PROVE  PathsTrue'
<1>1. PICK f \in Folders, recursive \in BOOLEAN :
        /\ Live(f)
        /\ Children(f) # {} => recursive
        /\ Begin(c, [pc |-> "emptying", folder |-> f, recursive |-> recursive,
                     target |-> f, left |-> {}, features |-> FiledIn(f)])
  BY DEF DeleteReads
<1>2. PICK next : /\ next = [pc |-> "emptying", folder |-> f, recursive |-> recursive,
                             target |-> f, left |-> {}, features |-> FiledIn(f)]
                  /\ Begin(c, next)
  BY <1>1
<1>3. Goto(c, next) /\ call'[c] = next /\ UNCHANGED folders
  BY <1>2, Goes DEF Sole, IInv, Begin, DeleteReads
<1>4. PathsMatchParents
  BY SolePaths DEF DeleteReads, At, Listed
<1>5. Live(f)' /\ (recursive \/ Children(f)' = {})
  BY <1>1, <1>3 DEF Live, Children
<1>6. call'[c].folder = f /\ call'[c].recursive = recursive /\ ~Listed(c)' /\ call'[c].pc = "emptying"
  BY <1>2, <1>3 DEF Listed, At
<1>7. WriteTrue(c)' /\ DeleteTrue(c)'
  BY <1>5, <1>6 DEF WriteTrue, DeleteTrue, At, Children, Live
<1> QED
  BY <1>3, <1>4, <1>7, UnwrittenPaths, SoleStep

LEMMA DeleteUnfilesPaths ==
  ASSUME NEW c \in Callers, Sole(c), DeleteUnfiles(c)
  PROVE  PathsTrue'
<1>1. PICK x : call' = [call EXCEPT ![c].features = @ \ {x}]
  BY DEF DeleteUnfiles
<1>2. call[c] \in [pc : {"emptying"}, folder : Folders, recursive : BOOLEAN, target : Folders,
                   left : SUBSET Folders, features : SUBSET Features]
  BY DEF Sole, IInv, SoundCalls, CallStates, NoCall, At, DeleteUnfiles
<1>3. PICK next : next = [call[c] EXCEPT !.features = @ \ {x}]
  OBVIOUS
<1>4. Goto(c, next) /\ UNCHANGED folders
  BY <1>1, <1>3 DEF Goto, Sole, IInv, SoundCalls, DeleteUnfiles
<1>5. /\ next.pc = "emptying" /\ next.folder = call[c].folder /\ next.target = call[c].target
      /\ next.left = call[c].left /\ next.recursive = call[c].recursive
  BY <1>2, <1>3
<1>6. call'[c] = next
  BY <1>4, Goes DEF Sole, IInv
<1>7. At(c, "emptying")
  BY DEF DeleteUnfiles
<1>8. CASE Listed(c)
  <2>1. next.target # next.folder /\ next.folder \notin next.left
    BY <1>5, <1>7, <1>8, SolePaths DEF Listed, At, DeleteTrue
  <2>2. {next.folder} \cup next.left \cup {next.target} = Doomed(c)
    BY <1>5, <1>7 DEF Doomed
  <2> QED
    BY <1>4, <1>5, <1>8, <2>1, <2>2, StillDoomed
<1>9. CASE ~Listed(c)
  <2>1. next.target = next.folder
    BY <1>5, <1>7, <1>9 DEF Listed
  <2>2. PathsMatchParents
    BY <1>7, <1>9, SolePaths DEF At
  <2>3. Live(call[c].folder) /\ (call[c].recursive \/ Children(call[c].folder) = {})
    BY <1>7, <1>9, SolePaths DEF DeleteTrue
  <2>4. Live(call[c].folder)' /\ (call[c].recursive \/ Children(call[c].folder) = {})'
    BY <1>4, <1>5, <1>6, <2>3 DEF Live, Children
  <2>5. WriteTrue(c)' /\ DeleteTrue(c)'
    BY <1>5, <1>6, <2>1, <2>4 DEF WriteTrue, DeleteTrue, Listed, At
  <2> QED
    BY <1>4, <2>2, <2>5, UnwrittenPaths, SoleStep
<1> QED
  BY <1>8, <1>9

(* The list is the whole subtree: nothing that is not in it hangs from it.   *)
LEMMA DeleteListsPaths ==
  ASSUME NEW c \in Callers, Sole(c), DeleteLists(c)
  PROVE  PathsTrue'
<1>1. PICK f : f = call[c].folder
  OBVIOUS
<1>2. At(c, "emptying") /\ ~Listed(c) /\ f \in Folders
  BY <1>1, OthersInMemory DEF DeleteLists, Emptied, Listed, At, Sole, IInv
<1>3. Live(f) /\ (call[c].recursive \/ Children(f) = {})
  BY <1>1, <1>2, SolePaths DEF DeleteTrue
<1>4. SoundTable(folders) /\ Allowed(folders) /\ PathsMatchParents
  BY <1>2, SolePaths DEF Sole, IInv, At
<1>5. PICK next : /\ next = [pc |-> "deleting", folder |-> f, left |-> Descendants(f)]
                  /\ Goto(c, next)
  <2>1. call[c].recursive \/ Descendants(f) = {}
    BY <1>2, <1>3, <1>4, NoDescendants
  <2> QED
    BY <1>1, <1>3, <2>1 DEF DeleteLists
<1>6. call'[c] = next /\ UNCHANGED folders
  BY <1>5, Goes DEF Sole, IInv, DeleteLists
<1>7. f \notin Descendants(f)
  BY <1>2, <1>3, <1>4, PathOfLive DEF Descendants
<1>8. PICK doomed : doomed = {f} \cup Descendants(f)
  OBVIOUS
<1>9. ASSUME NEW g \in Folders, Live(g), g \notin doomed
      PROVE  /\ folders[g].path = Path(g, folders[g].parent) /\ folders[g].parent \notin doomed
             /\ ~Below(folders[g].path, folders[f].path)
  <2>1. ~Below(folders[g].path, folders[f].path)
    BY <1>8, <1>9 DEF Descendants
  <2>2. folders[g].path = Path(g, folders[g].parent)
    BY <1>4, <1>9 DEF PathsMatchParents
  <2> QED
    BY <1>2, <1>3, <1>4, <1>8, <1>9, <2>1, <2>2, BelowParent
<1>10. Listed(c)' /\ Doomed(c)' = doomed /\ call'[c].folder = f /\ call'[c].left = Descendants(f)
  BY <1>5, <1>6, <1>8 DEF Listed, At, Doomed
<1>11. Live(f)' /\ \A g \in Folders : Live(g)' /\ g \notin doomed => Stays(g, c)'
  BY <1>3, <1>6, <1>9, <1>10 DEF Live, Stays, Path
<1>12. WriteTrue(c)' /\ DeleteTrue(c)'
  BY <1>5, <1>6, <1>7, <1>10, <1>11 DEF WriteTrue, DeleteTrue, At
<1> QED
  BY <1>5, <1>10, <1>12, SoleStep

LEMMA DeleteNextPaths ==
  ASSUME NEW c \in Callers, Sole(c), DeleteNext(c)
  PROVE  PathsTrue'
<1>1. PICK d \in call[c].left :
        Goto(c, [pc |-> "emptying", folder |-> call[c].folder, recursive |-> TRUE,
                 target |-> d, left |-> call[c].left \ {d}, features |-> FiledIn(d)])
  BY DEF DeleteNext
<1>2. PICK next : /\ next = [pc |-> "emptying", folder |-> call[c].folder, recursive |-> TRUE,
                             target |-> d, left |-> call[c].left \ {d}, features |-> FiledIn(d)]
                  /\ Goto(c, next)
  BY <1>1
<1>3. Listed(c) /\ call[c].folder \notin call[c].left
  BY SolePaths DEF DeleteNext, Listed, DeleteTrue
<1>4. /\ next.pc = "emptying" /\ next.folder = call[c].folder /\ next.target = d
      /\ next.left = call[c].left \ {d}
  BY <1>2
<1>5. {next.folder} \cup next.left \cup {next.target} = Doomed(c)
  BY <1>4 DEF DeleteNext, Doomed, At
<1>6. UNCHANGED folders
  BY DEF DeleteNext
<1> QED
  BY <1>2, <1>3, <1>4, <1>5, <1>6, StillDoomed

(* What hung from the deleted folder is itself on the list. *)
LEMMA DeleteDescendantPaths ==
  ASSUME NEW c \in Callers, Sole(c), DeleteDescendant(c)
  PROVE  PathsTrue'
<1>1. PICK f, t, left : f = call[c].folder /\ t = call[c].target /\ left = call[c].left
  OBVIOUS
<1>2. At(c, "emptying") /\ Listed(c) /\ f \in Folders /\ t \in Folders /\ t # f
  BY <1>1, OthersInMemory DEF DeleteDescendant, Emptied, Listed, Sole, IInv
<1>3. Doomed(c) = {f} \cup left \cup {t}
  BY <1>1, <1>2 DEF Doomed
<1>4. /\ Live(f) /\ f \notin left
      /\ \A g \in Folders : Live(g) /\ g \notin {f} \cup left \cup {t} => Stays(g, c)
  BY <1>1, <1>2, <1>3, SolePaths DEF DeleteTrue
<1>5. SoundTable(folders) /\ Allowed(folders)
  BY DEF Sole, IInv
<1>6. PICK table : table = Deleted(t) /\ folders' = table
  BY <1>1 DEF DeleteDescendant, DeleteRow
<1>7. \A g \in Folders :
        /\ table[g].state = "live" <=> g # t /\ Live(g)
        /\ g # t /\ Live(g) => table[g].path = folders[g].path
        /\ g # t /\ Live(g) /\ folders[g].parent # t => table[g] = folders[g]
  BY <1>2, <1>5, <1>6, DeletedRows
<1>8. PICK next : next = [pc |-> "deleting", folder |-> f, left |-> left] /\ Goto(c, next)
  BY <1>1 DEF DeleteDescendant
<1>9. call'[c] = next
  BY <1>8, Goes DEF Sole, IInv
<1>10. ASSUME NEW g \in Folders, table[g].state = "live", g \notin {f} \cup left
       PROVE  /\ table[g].path = IF table[g].parent = NoFolder THEN <<g>>
                                 ELSE Append(table[table[g].parent].path, g)
              /\ table[g].parent \notin {f} \cup left
              /\ ~Below(table[g].path, table[f].path)
  <2>1. Live(g) /\ g # t /\ Stays(g, c)
    BY <1>4, <1>7, <1>10
  <2>2. PICK p : p = folders[g].parent
    OBVIOUS
  <2>3. /\ folders[g].path = Path(g, p) /\ p \notin {f} \cup left \cup {t}
        /\ ~Below(folders[g].path, folders[f].path)
    BY <1>1, <1>3, <2>1, <2>2 DEF Stays
  <2>4. table[g] = folders[g] /\ table[f].path = folders[f].path
    BY <1>2, <1>4, <1>7, <2>1, <2>2, <2>3
  <2>5. p # NoFolder => table[p].path = folders[p].path
    <3>1. p # NoFolder => p \in Folders /\ Live(p)
      BY <1>5, <2>1, <2>2, ParentOfLive
    <3> QED
      BY <1>7, <2>3, <3>1
  <2> QED
    BY <2>2, <2>3, <2>4, <2>5 DEF Path
<1>11. Listed(c)' /\ Doomed(c)' = {f} \cup left /\ call'[c].folder = f /\ call'[c].left = left
  BY <1>8, <1>9 DEF Listed, At, Doomed
<1>12. Live(f)' /\ \A g \in Folders : Live(g)' /\ g \notin {f} \cup left => Stays(g, c)'
  BY <1>2, <1>4, <1>6, <1>7, <1>10, <1>11 DEF Live, Stays, Path
<1>13. WriteTrue(c)' /\ DeleteTrue(c)'
  BY <1>4, <1>8, <1>9, <1>11, <1>12 DEF WriteTrue, DeleteTrue, At
<1> QED
  BY <1>8, <1>11, <1>13, SoleStep

(* The folder goes last: all that is left was never below it.                *)
LEMMA DeleteSelfPaths ==
  ASSUME NEW c \in Callers, Sole(c), DeleteSelf(c)
  PROVE  /\ PathsTrue'
         /\ \A g \in Folders : folders'[g].state = "live" =>
              ~Below(folders'[g].path, folders[call[c].folder].path)
<1>1. PICK f : f = call[c].folder
  OBVIOUS
<1>2. At(c, "deleting") /\ Listed(c) /\ f \in Folders /\ Doomed(c) = {f}
  BY <1>1, OthersInMemory DEF DeleteSelf, Listed, Sole, IInv, At, Doomed
<1>3. \A g \in Folders : Live(g) /\ g # f => Stays(g, c)
  BY <1>2, SolePaths DEF DeleteTrue
<1>4. SoundTable(folders) /\ Allowed(folders)
  BY DEF Sole, IInv
<1>5. PICK table : table = Deleted(f) /\ folders' = table
  BY <1>1 DEF DeleteSelf, DeleteRow
<1>6. ASSUME NEW g \in Folders, table[g].state = "live"
      PROVE  /\ table[g].path = IF table[g].parent = NoFolder THEN <<g>>
                                ELSE Append(table[table[g].parent].path, g)
             /\ ~Below(table[g].path, folders[f].path)
  <2>1. g # f /\ Live(g)
    BY <1>2, <1>4, <1>5, <1>6, DeletedRows
  <2>2. PICK p : p = folders[g].parent
    OBVIOUS
  <2>3. folders[g].path = Path(g, p) /\ p # f /\ ~Below(folders[g].path, folders[f].path)
    BY <1>1, <1>2, <1>3, <2>1, <2>2 DEF Stays
  <2>4. table[g] = folders[g]
    BY <1>2, <1>4, <1>5, <2>1, <2>2, <2>3, DeletedRows
  <2>5. p # NoFolder => table[p].path = folders[p].path
    <3>1. p # NoFolder => p \in Folders /\ Live(p)
      BY <1>4, <2>1, <2>2, ParentOfLive
    <3> QED
      BY <1>2, <1>4, <1>5, <2>3, <3>1, DeletedRows
  <2> QED
    BY <2>2, <2>3, <2>4, <2>5 DEF Path
<1>7. Consistent(table)
  BY <1>6 DEF Consistent
<1>8. PathsMatchParents'
  BY <1>5, <1>7, ConsistentPaths
<1>9. PathsTrue'
  BY <1>8, SolePasses DEF DeleteSelf, NoCall
<1> QED
  BY <1>1, <1>5, <1>6, <1>9

(* Counting touches no path. *)
LEMMA CountsPaths ==
  ASSUME NEW c \in Callers, Sole(c),
         \/ AssignReads(c) \/ AssignFiles(c) \/ AssignCounts(c) \/ AssignAdds(c)
         \/ RemoveFeature(c) \/ RemoveCounts(c)
  PROVE  PathsTrue'
<1>1. PathsMatchParents
  BY SolePaths DEF AssignReads, AssignFiles, AssignCounts, AssignAdds, RemoveFeature, RemoveCounts,
                   At, Listed
<1>2. PathsMatchParents'
  <2>1. CASE UNCHANGED folders
    BY <1>1, <2>1, UnwrittenPaths
  <2>2. ASSUME NEW f \in Folders, NEW delta, folders' = Added(f, delta) PROVE PathsMatchParents'
    <3>1. \A g \in Folders : /\ folders'[g].state = folders[g].state
                             /\ folders'[g].path = folders[g].path
                             /\ folders'[g].parent = folders[g].parent
      BY <2>2, CountsAllowed DEF Sole, IInv
    <3>2. \A g \in Folders : Live(g) /\ folders[g].parent # NoFolder => folders[g].parent \in Folders
      BY ParentOfLive DEF Sole, IInv
    <3> QED
      BY <1>1, <3>1, <3>2 DEF PathsMatchParents, Live, Path
  <2>3. CASE AssignAdds(c)
    BY <2>2, <2>3, OthersInMemory DEF AssignAdds, Sole, IInv
  <2>4. CASE RemoveCounts(c)
    BY <2>2, <2>4, OthersInMemory DEF RemoveCounts, Sole, IInv
  <2> QED
    BY <2>1, <2>3, <2>4 DEF AssignReads, AssignFiles, AssignCounts, RemoveFeature
<1>3. PICK next : Goto(c, next) /\ next.pc \in {"assigning", "counting", "adding", "removing", "idle"}
  <2> DEFINE Passes(next) ==
               Goto(c, next) /\ next.pc \in {"assigning", "counting", "adding", "removing", "idle"}
  <2>1. ASSUME AssignReads(c) PROVE \E next : Passes(next)
    <3>1. PICK f \in Folders, xs \in SUBSET Features :
            Begin(c, [pc |-> "assigning", folder |-> f, features |-> xs, count |-> folders[f].count])
      BY <2>1 DEF AssignReads
    <3> QED
      BY <3>1 DEF Begin
  <2>2. ASSUME RemoveFeature(c) PROVE \E next : Passes(next)
    <3>1. PICK f \in Folders : Begin(c, [pc |-> "removing", folder |-> f])
      BY <2>2 DEF RemoveFeature
    <3> QED
      BY <3>1 DEF Begin
  <2>3. ASSUME AssignFiles(c) PROVE \E next : Passes(next)
    BY <2>3 DEF AssignFiles
  <2>4. ASSUME AssignCounts(c) PROVE \E next : Passes(next)
    BY <2>4 DEF AssignCounts
  <2>5. ASSUME AssignAdds(c) \/ RemoveCounts(c) PROVE \E next : Passes(next)
    BY <2>5 DEF AssignAdds, RemoveCounts, NoCall
  <2> QED
    BY <2>1, <2>2, <2>3, <2>4, <2>5
<1> QED
  BY <1>2, <1>3, SolePasses

------------------------------------------------------------------------------
(* A step of calls in turn, none of them failing, is the step of a call that *)
(* is alone.                                                                 *)
LEMMA StepsAlone ==
  ASSUME IInv, FoldersInTurn, InOrder', NEW c \in Callers,
         \/ CreateReads(c) \/ CreateInserts(c)
         \/ UpdateReads(c) \/ MoveReads(c) \/ MoveRefused(c) \/ MoveSubtree(c) \/ UpdateSaves(c)
         \/ DeleteReads(c) \/ DeleteUnfiles(c) \/ DeleteLists(c) \/ DeleteNext(c)
         \/ DeleteDescendant(c) \/ DeleteSelf(c)
         \/ AssignReads(c) \/ AssignFiles(c) \/ AssignCounts(c) \/ AssignAdds(c)
         \/ RemoveFeature(c) \/ RemoveCounts(c)
  PROVE  Sole(c)
<1>1. /\ failures' = failures /\ (selfMoved => selfMoved')
      /\ \/ ~At(c, "idle") /\ overlapped' = overlapped
         \/ \E next : Begin(c, next)
  <2>1. ASSUME \E next : Begin(c, next)
        PROVE  failures' = failures /\ selfMoved' = selfMoved
    BY <2>1 DEF Begin
  <2>2. ASSUME CreateReads(c) \/ UpdateReads(c) \/ DeleteReads(c) \/ AssignReads(c) \/ RemoveFeature(c)
        PROVE  \E next : Begin(c, next)
    BY <2>2, Zenon DEF CreateReads, UpdateReads, DeleteReads, AssignReads, RemoveFeature
  <2>3. ASSUME \/ CreateInserts(c) \/ MoveReads(c) \/ MoveRefused(c) \/ MoveSubtree(c) \/ UpdateSaves(c)
               \/ DeleteUnfiles(c) \/ DeleteLists(c) \/ DeleteNext(c)
               \/ DeleteDescendant(c) \/ DeleteSelf(c)
               \/ AssignFiles(c) \/ AssignCounts(c) \/ AssignAdds(c) \/ RemoveCounts(c)
        PROVE  /\ failures' = failures /\ (selfMoved => selfMoved')
               /\ ~At(c, "idle") /\ overlapped' = overlapped
    <3>1. CASE MoveReads(c)
      <4>1. selfMoved => selfMoved'
        BY <3>1, Zenon DEF MoveReads
      <4> QED
        BY <3>1, <4>1 DEF MoveReads, At
    <3>2. CASE ~MoveReads(c)
      <4>1. UNCHANGED history /\ ~At(c, "idle")
        BY <2>3, <3>2 DEF CreateInserts, MoveRefused, MoveSubtree, UpdateSaves,
                DeleteUnfiles, DeleteLists, DeleteNext, DeleteDescendant, DeleteSelf, Emptied,
                AssignFiles, AssignCounts, AssignAdds, RemoveCounts, At
      <4> QED
        BY <4>1 DEF history
    <3> QED
      BY <3>1, <3>2
  <2> QED
    BY <2>1, <2>2, <2>3
<1>2. ~overlapped /\ \A d \in Callers \ {c} : At(d, "idle")
  BY <1>1, Turn DEF FoldersInTurn, InOrder
<1>3. InOrder
  BY <1>1, <1>2 DEF InOrder
<1> QED
  BY <1>2, <1>3 DEF FoldersInTurn, Sole

LEMMA FoldersInTurnStep ==
  ASSUME IInv, FoldersInTurn, [Next]_vars
  PROVE  FoldersInTurn'
<1>1. Allowed(folders)' /\ InTurn'
  BY AllowedStep, InTurnStep DEF FoldersInTurn
<1>2. ASSUME InOrder' PROVE PathsTrue'
  <2>1. ASSUME NEW c \in Callers,
               \/ CreateReads(c) \/ CreateInserts(c)
               \/ UpdateReads(c) \/ MoveReads(c) \/ MoveRefused(c) \/ MoveSubtree(c) \/ UpdateSaves(c)
               \/ DeleteReads(c) \/ DeleteUnfiles(c) \/ DeleteLists(c) \/ DeleteNext(c)
               \/ DeleteDescendant(c) \/ DeleteSelf(c)
               \/ AssignReads(c) \/ AssignFiles(c) \/ AssignCounts(c) \/ AssignAdds(c)
               \/ RemoveFeature(c) \/ RemoveCounts(c)
        PROVE  PathsTrue'
    <3>1. Sole(c) /\ ~selfMoved'
      BY <1>2, <2>1, StepsAlone DEF InOrder
    <3> QED
      BY <2>1, <3>1, CreatePaths, UpdatePaths, DeleteReadsPaths, DeleteUnfilesPaths,
         DeleteListsPaths, DeleteNextPaths, DeleteDescendantPaths, DeleteSelfPaths, CountsPaths
  <2>2. ASSUME NEW c \in Callers, StatementRefused(c) \/ CallFails(c) PROVE FALSE
    <3>1. failures' = failures + 1 /\ failures \in Nat
      BY <1>2, <2>2, SMTT(30) DEF StatementRefused, CallFails, IInv, Counters
    <3> QED
      BY <1>2, <3>1 DEF InOrder
  <2>3. CASE UNCHANGED vars
    <3>1. PathsTrue
      BY <1>2, <2>3 DEF vars, FoldersInTurn, InOrder
    <3> QED
      BY <2>3, <3>1 DEF vars, PathsTrue, WriteTrue, DeleteTrue, Listed, Doomed, Stays, At, Live, Path,
                        Children, Descendants, PathsMatchParents, Consistent, Inserted, Saved
  <2> QED
    BY <2>1, <2>2, <2>3 DEF Next
<1> QED
  BY <1>1, <1>2 DEF FoldersInTurn

LEMMA FoldersInTurnAlways == Spec => []FoldersInTurn
<1>1. Init => FoldersInTurn
  <2> SUFFICES ASSUME Init PROVE FoldersInTurn
    OBVIOUS
  <2>1. \A f \in Folders : folders[f].state # "live"
    BY DEF Init, NewRow
  <2>2. \A c \in Callers : call[c].pc = "idle"
    BY DEF Init, NoCall
  <2>3. Allowed(folders) /\ PathsMatchParents
    BY <2>1 DEF Allowed, PathsMatchParents, Live
  <2>4. InTurn
    BY <2>2 DEF InTurn, Alone, CountTrue, At
  <2>5. PathsTrue
    BY <2>2, <2>3 DEF PathsTrue, WriteTrue, DeleteTrue, Listed, At
  <2> QED
    BY <2>3, <2>4, <2>5 DEF FoldersInTurn
<1> QED
  BY <1>1, FoldersInTurnStep, Holds, PTL DEF Spec

(* Calls that came one after the other and did not end half-way leave every  *)
(* path the path of the folder's parents, as long as no call has moved a     *)
(* folder into itself.                                                       *)
THEOREM PathsAreParents == Spec => []PathsInTurn
<1>1. FoldersInTurn => PathsInTurn
  BY DEF FoldersInTurn, PathsTrue, PathsInTurn, AtRest, Listed, At
<1> QED
  BY <1>1, FoldersInTurnAlways, PTL

(* "Cycle detection on moves": whatever moves callers ask for, it takes an   *)
(* overlap, a call that ended half-way or a folder that was let into itself  *)
(* to close a cycle.                                                         *)
THEOREM TreeInTurn == Spec => [](AtRest /\ InOrder => NoCycles)
<1>1. IInv /\ FoldersInTurn /\ PathsInTurn => (AtRest /\ InOrder => NoCycles)
  BY PathsForbidCycles DEF IInv, FoldersInTurn, PathsInTurn
<1> QED
  BY <1>1, Holds, FoldersInTurnAlways, PathsAreParents, PTL

(* A deletion in order leaves nothing below the deleted folder.              *)
THEOREM SubtreeIsDeleted == Spec => DeletionTakesSubtree
<1>1. ASSUME IInv, FoldersInTurn, NEW c \in Callers, DeleteSelf(c), InOrder
      PROVE  \A g \in Folders : folders'[g].state = "live" =>
               ~Below(folders'[g].path, folders[call[c].folder].path)
  <2>1. InOrder'
    BY <1>1 DEF DeleteSelf, history, InOrder
  <2> QED
    BY <1>1, <2>1, StepsAlone, DeleteSelfPaths
<1>2. IInv /\ FoldersInTurn /\ [Next]_vars =>
        [\A c \in Callers : DeleteSelf(c) /\ InOrder =>
           \A g \in Folders : folders'[g].state = "live" =>
             ~Below(folders'[g].path, folders[call[c].folder].path)]_vars
  BY <1>1
<1> QED
  BY <1>2, FoldersInTurnAlways, Holds, PTL DEF Spec, DeletionTakesSubtree
==============================================================================
