-------------------------- MODULE CatalogImportProofs --------------------------
(***************************************************************************)
(* Importing into a folder, for every set of callers and files: imports    *)
(* store all or nothing and say so, the folder counts what they stored, an *)
(* exported document parses back, and no row of a CSV file is lost.  What  *)
(* the parsers make of a file does not matter to the first two; the third  *)
(* rests on every feature of theirs having a name and a geometry, and the  *)
(* last on a line reading back as the cells it was written from.           *)
(***************************************************************************)
EXTENDS SequenceTheorems, FiniteSetTheorems, NaturalsInduction, TLAPS, CatalogImport

------------------------------------------------------------------------------
(* Sequences of rows. *)

LEMMA SeqOfElements ==
  ASSUME NEW S, NEW s \in Seq(S)
  PROVE  s \in Seq({s[i] : i \in DOMAIN s})
<1>1. DOMAIN s = 1..Len(s)
  BY LenProperties
<1> QED
  BY <1>1, RangeEquality, SeqOfRange

LEMMA RowsLength ==
  ASSUME NEW s, NEW N, RowsBy(s, N)
  PROVE  Len(s) \in Nat /\ DOMAIN s = 1..Len(s)
<1>1. PICK S : S = {s[i] : i \in DOMAIN s} /\ s \in Seq(S)
  BY DEF RowsBy, IsList
<1> QED
  BY <1>1, LenProperties

LEMMA RowsWiden ==
  ASSUME NEW s, NEW M, NEW N, RowsBy(s, M), \A i \in DOMAIN s : s[i].import \in N
  PROVE  RowsBy(s, N)
BY DEF RowsBy, IsList

LEMMA RowsEmpty == \A N : RowsBy(<<>>, N)
BY EmptySeq DEF RowsBy, IsList

LEMMA RowsAppend ==
  ASSUME NEW s, NEW N, RowsBy(s, N), NEW r, IsRow(r), r.import \in N
  PROVE  /\ RowsBy(Append(s, r), N)
         /\ Len(Append(s, r)) = Len(s) + 1
         /\ \A i \in DOMAIN Append(s, r) : Append(s, r)[i] = r \/ \E k \in DOMAIN s : Append(s, r)[i] = s[k]
<1>1. PICK S : S = {s[i] : i \in DOMAIN s} \cup {r}
  OBVIOUS
<1>2. s \in Seq(S) /\ r \in S
  BY <1>1, SeqMonotonic DEF RowsBy, IsList
<1>3. PICK t : t = Append(s, r)
  OBVIOUS
<1>4. /\ t \in Seq(S) /\ Len(t) = Len(s) + 1
      /\ \A i \in 1..Len(s) : t[i] = s[i]
      /\ t[Len(s) + 1] = r
  BY <1>2, <1>3, AppendProperties
<1>5. DOMAIN t = 1..Len(s) + 1 /\ DOMAIN s = 1..Len(s) /\ Len(s) \in Nat
  BY <1>2, <1>4, LenProperties
<1>6. \A i \in DOMAIN t : t[i] = r \/ \E k \in DOMAIN s : t[i] = s[k]
  BY <1>4, <1>5
<1>7. \A i \in DOMAIN t : IsRow(t[i]) /\ t[i].import \in N
  BY <1>6 DEF RowsBy, IsList
<1>8. RowsBy(t, N)
  BY <1>4, <1>7, SeqOfElements DEF RowsBy, IsList
<1> QED
  BY <1>3, <1>4, <1>6, <1>8

LEMMA RowsConcat ==
  ASSUME NEW s, NEW t, NEW N, RowsBy(s, N), RowsBy(t, N)
  PROVE  /\ RowsBy(s \o t, N)
         /\ Len(s \o t) = Len(s) + Len(t)
         /\ \A i \in 1..Len(s) : (s \o t)[i] = s[i]
         /\ \A i \in Len(s) + 1..Len(s) + Len(t) : \E k \in DOMAIN t : (s \o t)[i] = t[k]
<1>1. PICK S : S = {s[i] : i \in DOMAIN s} \cup {t[i] : i \in DOMAIN t}
  OBVIOUS
<1>2. s \in Seq(S) /\ t \in Seq(S)
  BY <1>1, SeqMonotonic DEF RowsBy, IsList
<1>3. PICK u : u = s \o t
  OBVIOUS
<1>4. /\ u \in Seq(S) /\ Len(u) = Len(s) + Len(t)
      /\ \A i \in 1..Len(s) + Len(t) : u[i] = IF i <= Len(s) THEN s[i] ELSE t[i - Len(s)]
  BY <1>2, <1>3, ConcatProperties
<1>5. /\ DOMAIN u = 1..Len(s) + Len(t)
      /\ DOMAIN s = 1..Len(s) /\ Len(s) \in Nat /\ DOMAIN t = 1..Len(t) /\ Len(t) \in Nat
  BY <1>2, <1>4, LenProperties
<1>6. /\ \A i \in 1..Len(s) : u[i] = s[i]
      /\ \A i \in Len(s) + 1..Len(s) + Len(t) : i - Len(s) \in DOMAIN t /\ u[i] = t[i - Len(s)]
  BY <1>4, <1>5
<1>7. \A i \in DOMAIN u : i \in 1..Len(s) \/ i \in Len(s) + 1..Len(s) + Len(t)
  BY <1>5
<1>8. \A i \in DOMAIN u : IsRow(u[i]) /\ u[i].import \in N
  BY <1>5, <1>6, <1>7 DEF RowsBy, IsList
<1>9. IsList(u)
  BY <1>4, SeqOfElements DEF IsList
<1>10. RowsBy(u, N)
  BY <1>8, <1>9 DEF RowsBy
<1> QED
  BY <1>3, <1>4, <1>6, <1>10

LEMMA RowsChanged ==
  ASSUME NEW s, NEW N, RowsBy(s, N), NEW t, t = [i \in DOMAIN s |-> t[i]],
         \A i \in DOMAIN s : IsRow(t[i]) /\ t[i].import = s[i].import
  PROVE  RowsBy(t, N) /\ Len(t) = Len(s) /\ DOMAIN t = DOMAIN s
<1>1. PICK n \in Nat : n = Len(s) /\ DOMAIN s = 1..n
  BY RowsLength
<1>2. PICK S : S = {t[i] : i \in DOMAIN t}
  OBVIOUS
<1>3. DOMAIN t = 1..n /\ t \in [1..n -> S]
  BY <1>1, <1>2
<1>4. t \in Seq(S)
  BY <1>3, SeqDef
<1>5. Len(t) = n
  BY <1>3, <1>4, LenProperties
<1>6. \A i \in DOMAIN t : IsRow(t[i]) /\ t[i].import \in N
  BY <1>1, <1>3 DEF RowsBy, IsList
<1> QED
  BY <1>1, <1>2, <1>3, <1>4, <1>5, <1>6 DEF RowsBy, IsList

------------------------------------------------------------------------------
(* Calls and the numbers of imports. *)

Distinct ==
  \A c, d \in Callers : Numbered(c) /\ Numbered(d) /\ call[c].import = call[d].import => c = d

(* A call that goes on keeps its number. *)
LEMMA Continues ==
  ASSUME CallsOK, NEW c \in Callers, UNCHANGED uploads,
         \A d \in Callers \ {c} : call'[d] = call[d],
         Numbered(c) <=> Numbered(c)', Numbered(c) => call'[c].import = call[c].import
  PROVE  Finished' = Finished /\ Distinct'
<1>1. \A d \in Callers : /\ Numbered(d)' <=> Numbered(d)
                         /\ Numbered(d) => call'[d].import = call[d].import
  BY DEF Numbered, InTransaction, At
<1>2. {call'[d].import : d \in {e \in Callers : Numbered(e)'}}
        = {call[d].import : d \in {e \in Callers : Numbered(e)}}
  BY <1>1
<1>3. Distinct'
  BY <1>1 DEF CallsOK, Distinct
<1> QED
  BY <1>2, <1>3 DEF Finished

(* The number of a call that ends is that of a finished import from now on. *)
LEMMA Ends ==
  ASSUME CallsOK, NEW c \in Callers, UNCHANGED uploads, Done(c)
  PROVE  /\ DOMAIN call' = Callers /\ \A d \in Callers \ {c} : call'[d] = call[d]
         /\ CallOK(c)' /\ Distinct'
         /\ Finished \subseteq Finished'
         /\ Numbered(c) => call[c].import \in Finished' /\ call[c].import \notin Finished
<1>1. DOMAIN call' = Callers /\ call'[c] = NoCall /\ \A d \in Callers \ {c} : call'[d] = call[d]
  BY DEF CallsOK, Done
<1>2. ~Numbered(c)' /\ call'[c].pc = "idle"
  BY <1>1 DEF NoCall, Numbered, InTransaction, At, Stages
<1>3. \A d \in Callers \ {c} : Numbered(d)' <=> Numbered(d)
  BY <1>1 DEF Numbered, InTransaction, At
<1>4. Finished \subseteq Finished'
  BY <1>1, <1>2, <1>3 DEF Finished
<1>5. ASSUME Numbered(c) PROVE call[c].import \in Finished' /\ call[c].import \notin Finished
  <2>1. call[c].import \in 1..uploads
    BY <1>5 DEF CallsOK, CallOK
  <2>2. \A d \in Callers : Numbered(d)' => call'[d].import # call[c].import
    BY <1>1, <1>2, <1>3, <1>5 DEF CallsOK
  <2> QED
    BY <1>5, <2>1, <2>2 DEF Finished
<1>6. CallOK(c)'
  BY <1>2 DEF CallOK, InTransaction, Numbered, At, Stages
<1>7. Distinct'
  BY <1>1, <1>2, <1>3 DEF CallsOK, Distinct
<1> QED
  BY <1>1, <1>4, <1>5, <1>6, <1>7

(* The other calls stay sound, whoever takes or leaves the folder's lock. *)
LEMMA OthersOK ==
  ASSUME CallsOK, NEW c \in Callers, NEW d \in Callers \ {c}, call'[d] = call[d],
         uploads \in Nat, uploads' \in Nat, uploads <= uploads',
         \/ folder' = folder
         \/ folder'.exists = folder.exists /\ folder.lockedBy \in {c, NoCaller}
  PROVE  CallOK(d)'
<1>1. CallOK(d) /\ d # NoCaller
  BY ImportAssumption DEF CallsOK
<1>2. Numbered(d)' => call'[d].import \in 1..uploads'
  BY <1>1 DEF CallOK, Numbered, InTransaction, At
<1>3. /\ At(d, "recording")' /\ folder'.exists => folder'.lockedBy = d
      /\ At(d, "committing")' => folder'.exists /\ folder'.lockedBy = d
  BY <1>1 DEF CallOK, At
<1> QED
  BY <1>1, <1>2, <1>3 DEF CallOK, Numbered, InTransaction, At, Features

(* Rows may be renamed or marked deleted, imports may answer that they       *)
(* stored nothing: the answers stay true.                                    *)
LEMMA AnswersKept ==
  ASSUME AnswersTrue, DOMAIN row' = DOMAIN row,
         \A i \in DOMAIN row : row'[i].import = row[i].import,
         NEW new, answers' \subseteq answers \cup new,
         \A a \in new : a.status = "failed" /\ RowsOf(a.import) = {},
         \/ job' = job /\ folder'.exists = folder.exists
         \/ job' = {} /\ ~folder'.exists
  PROVE  AnswersTrue'
<1>1. \A n : RowsOf(n)' = RowsOf(n)
  BY DEF RowsOf
<1>2. \A x \in answers' : x \in answers \/ (x.status = "failed" /\ RowsOf(x.import) = {})
  OBVIOUS
<1>3. \A x \in answers' :
        \/ x.doubtful
        \/ x.status = "failed" /\ RowsOf(x.import)' = {}
        \/ x.status # "failed" /\ Cardinality(RowsOf(x.import)') = x.created
  BY <1>1, <1>2 DEF AnswersTrue
<1>4. \A j \in job' : Cardinality(RowsOf(j.import)') = j.created
  BY <1>1 DEF AnswersTrue
<1>5. folder'.exists => \A i \in DOMAIN row' : \E j \in job' : j.import = row'[i].import
  BY DEF AnswersTrue
<1> QED
  BY <1>3, <1>4, <1>5 DEF AnswersTrue

(* Every row is that of a finished import, so one in flight has none yet.    *)
LEMMA NoRowsYet ==
  ASSUME RowsOK, NEW n, n \notin Finished
  PROVE  RowsOf(n) = {}
BY DEF RowsOK, RowsBy, RowsOf

LEMMA CallsKept ==
  ASSUME ImportInv, NEW c \in Callers, DOMAIN call' = Callers,
         \A d \in Callers \ {c} : call'[d] = call[d],
         CallOK(c)', Distinct', uploads' \in Nat, uploads <= uploads',
         \/ folder' = folder
         \/ folder'.exists = folder.exists /\ folder.lockedBy \in {c, NoCaller}
  PROVE  CallsOK'
<1>1. \A d \in Callers \ {c} : CallOK(d)'
  BY OthersOK DEF ImportInv
<1> QED
  BY <1>1 DEF CallsOK, Distinct

(* A step that leaves the rows alone. *)
LEMMA RowsKept ==
  ASSUME ImportInv, FolderOK', CallsOK', uploads' \in Nat, Finished \subseteq Finished',
         UNCHANGED <<row, job>>, folder'.exists = folder.exists, folder'.count = folder.count,
         NEW new, answers' \subseteq answers \cup new,
         \A a \in new : /\ a.status = "failed" /\ RowsOf(a.import) = {}
                        /\ a.import \in Finished'
  PROVE  ImportInv'
<1>1. AnswersTrue'
  BY AnswersKept DEF ImportInv
<1>2. RowsBy(row, Finished')
  <2>1. RowsBy(row, Finished) /\ \A i \in DOMAIN row : row[i].import \in Finished'
    BY DEF ImportInv, RowsOK, RowsBy
  <2> QED
    BY <2>1, RowsWiden
<1>3. RowsOK'
  BY <1>2 DEF ImportInv, RowsOK, RowsBy
<1>4. \A x \in answers' \cup job' : x.import \in Finished'
  BY DEF ImportInv
<1> QED
  BY <1>1, <1>3, <1>4 DEF ImportInv

(* A call that goes on, and changes at most the folder's lock. *)
LEMMA GoesOn ==
  ASSUME ImportInv, NEW c \in Callers, DOMAIN call' = Callers, UNCHANGED <<row, job, answers, uploads>>,
         \A d \in Callers \ {c} : call'[d] = call[d],
         Numbered(c) <=> Numbered(c)', Numbered(c) => call'[c].import = call[c].import,
         CallOK(c)', FolderOK',
         \/ folder' = folder
         \/ /\ folder'.exists = folder.exists /\ folder'.count = folder.count
            /\ folder.lockedBy \in {c, NoCaller}
  PROVE  ImportInv'
<1>1. CallsOK /\ uploads' \in Nat /\ uploads <= uploads'
  BY DEF ImportInv
<1>2. Finished' = Finished /\ Distinct'
  BY <1>1, Continues
<1>3. CallsOK'
  BY <1>1, <1>2, CallsKept
<1>4. PICK new : new = {}
  OBVIOUS
<1> QED
  BY <1>1, <1>2, <1>3, <1>4, RowsKept

(* A call that ends without storing anything. *)
LEMMA EndsInVain ==
  ASSUME ImportInv, NEW c \in Callers, Done(c), UNCHANGED <<row, job, uploads>>,
         folder' = folder \/ folder' = Unlocked(c),
         \/ answers' = answers
         \/ \E m, doubtful : Numbered(c) /\ Answers(c, "failed", 0, m, doubtful)
  PROVE  ImportInv'
<1>1. /\ CallsOK /\ uploads' \in Nat /\ uploads <= uploads' /\ RowsOK /\ FolderOK
  BY DEF ImportInv
<1>2. /\ DOMAIN call' = Callers /\ \A d \in Callers \ {c} : call'[d] = call[d]
      /\ CallOK(c)' /\ Distinct' /\ Finished \subseteq Finished'
      /\ Numbered(c) => call[c].import \in Finished' /\ call[c].import \notin Finished
  BY <1>1, Ends
<1>3. /\ FolderOK' /\ folder'.exists = folder.exists /\ folder'.count = folder.count
      /\ folder' = folder \/ folder.lockedBy = c
  BY <1>1 DEF FolderOK, Unlocked
<1>4. CallsOK'
  BY <1>1, <1>2, <1>3, CallsKept
<1>5. CASE answers' = answers
  <2>1. PICK new : new = {}
    OBVIOUS
  <2> QED
    BY <1>1, <1>2, <1>3, <1>4, <1>5, <2>1, RowsKept
<1>6. CASE \E m, doubtful : Numbered(c) /\ Answers(c, "failed", 0, m, doubtful)
  <2>0. PICK m, doubtful : Numbered(c) /\ Answers(c, "failed", 0, m, doubtful)
    BY <1>6
  <2>1. PICK a : /\ Numbered(c) /\ answers' = answers \cup {a}
                 /\ a.status = "failed" /\ a.import = call[c].import
    <3>1. PICK a : a = Answer(call[c].import, "failed", 0, m, doubtful)
      OBVIOUS
    <3>2. a.status = "failed" /\ a.import = call[c].import
      BY <3>1 DEF Answer
    <3>3. answers' = answers \cup {a}
      BY <2>0, <3>1 DEF Answers
    <3> QED
      BY <2>0, <3>2, <3>3
  <2>2. RowsOf(a.import) = {}
    BY <1>1, <1>2, <2>1, NoRowsYet
  <2>3. PICK new : new = {a}
    OBVIOUS
  <2> QED
    BY <1>1, <1>2, <1>3, <1>4, <2>1, <2>2, <2>3, RowsKept
<1> QED
  BY <1>5, <1>6

------------------------------------------------------------------------------
(* The steps. *)

LEMMA UploadKeeps ==
  ASSUME ImportInv, NEW c \in Callers, NEW file, Upload(c, file)
  PROVE  ImportInv'
<1>0. /\ CallsOK /\ uploads \in Nat /\ uploads' = uploads + 1 /\ FolderOK
      /\ UNCHANGED <<row, job, folder, answers>> /\ At(c, "idle")
  BY DEF ImportInv, Upload
<1>1. /\ DOMAIN call' = Callers /\ \A d \in Callers \ {c} : call'[d] = call[d]
      /\ call'[c] = [pc |-> "uploaded", import |-> uploads + 1, file |-> file]
  BY <1>0 DEF Upload, CallsOK
<1>2. /\ call'[c].pc = "uploaded" /\ call'[c].import = uploads + 1 /\ ~Numbered(c)
  BY <1>0, <1>1 DEF Numbered, InTransaction, Stages, At
<1>3. CallOK(c)'
  BY <1>0, <1>2 DEF CallOK, Numbered, InTransaction, Stages, At
<1>4. ASSUME NEW d \in Callers \ {c}
      PROVE  /\ Numbered(d)' <=> Numbered(d)
             /\ Numbered(d) => call[d].import \in 1..uploads /\ call'[d].import # uploads + 1
  <2>1. Numbered(d)' <=> Numbered(d)
    BY <1>1 DEF Numbered, InTransaction, At
  <2>2. Numbered(d) => call[d].import \in 1..uploads
    BY <1>0 DEF CallsOK, CallOK
  <2>3. \A n \in 1..uploads : n # uploads + 1
    BY <1>0
  <2> QED
    BY <1>1, <2>1, <2>2, <2>3
<1>5. Distinct'
  BY <1>0, <1>1, <1>2, <1>4 DEF Distinct, CallsOK
<1>6. Finished \subseteq Finished'
  <2> SUFFICES ASSUME NEW n \in Finished PROVE n \in Finished'
    OBVIOUS
  <2>1. n \in 1..uploads' /\ n # uploads + 1
    BY <1>0 DEF Finished
  <2>2. \A d \in Callers : Numbered(d)' => call'[d].import # n
    BY <1>1, <1>2, <1>4, <2>1 DEF Finished
  <2> QED
    BY <2>1, <2>2 DEF Finished
<1>7. CallsOK'
  BY <1>0, <1>1, <1>3, <1>5, CallsKept
<1>8. PICK new : new = {}
  OBVIOUS
<1> QED
  BY <1>0, <1>6, <1>7, <1>8, RowsKept DEF FolderOK

LEMMA ReadsKeeps ==
  ASSUME ImportInv, NEW c \in Callers, ImportReads(c)
  PROVE  ImportInv'
<1>0. /\ CallsOK /\ UNCHANGED <<row, job, folder, uploads>> /\ At(c, "uploaded")
      /\ Numbered(c) /\ CallOK(c)
  BY DEF ImportInv, ImportReads, Numbered, CallsOK
<1>1. CASE Done(c) /\ UNCHANGED answers
  BY <1>0, <1>1, EndsInVain
<1>2. CASE Done(c) /\ \E m : Answers(c, "failed", 0, m, FALSE)
  BY <1>0, <1>2, EndsInVain
<1>3. CASE \E result :
        /\ call' = [call EXCEPT ![c] = [pc |-> "inserting", import |-> call[c].import,
                                        result |-> result, own |-> <<>>]]
        /\ UNCHANGED answers
  <2>1. PICK result :
          call' = [call EXCEPT ![c] = [pc |-> "inserting", import |-> call[c].import,
                                       result |-> result, own |-> <<>>]]
    BY <1>3
  <2>2. PICK n : n = call[c].import
    OBVIOUS
  <2>3. /\ DOMAIN call' = Callers /\ \A d \in Callers \ {c} : call'[d] = call[d]
        /\ call'[c] = [pc |-> "inserting", import |-> n, result |-> result, own |-> <<>>]
    BY <1>0, <2>1, <2>2 DEF CallsOK
  <2>4. /\ call'[c].pc = "inserting" /\ call'[c].import = n /\ call'[c].own = <<>>
        /\ call'[c].result = result
    BY <2>3
  <2>5. RowsBy(call'[c].own, {n}) /\ DOMAIN call'[c].own = {}
    BY <2>4, RowsEmpty
  <2>6. Numbered(c)' /\ n \in 1..uploads'
    BY <1>0, <2>2, <2>4 DEF Numbered, InTransaction, Stages, At, CallOK
  <2>7. CallOK(c)'
    BY <2>3, <2>4, <2>5, <2>6 DEF CallOK, InTransaction, At
  <2>8. FolderOK' /\ UNCHANGED answers
    BY <1>0, <1>3 DEF FolderOK, ImportInv
  <2> QED
    BY <1>0, <2>2, <2>3, <2>4, <2>6, <2>7, <2>8, GoesOn
<1> QED
  BY <1>1, <1>2, <1>3 DEF ImportReads

LEMMA InsertKeeps ==
  ASSUME ImportInv, NEW c \in Callers, InsertFeature(c)
  PROVE  ImportInv'
<1>0. /\ CallsOK /\ CallOK(c) /\ UNCHANGED <<row, job, folder, answers, uploads>>
      /\ call[c].pc = "inserting" /\ InTransaction(c) /\ Numbered(c)
  BY DEF ImportInv, InsertFeature, InTransaction, Stages, Numbered, CallsOK, At
<1>1. PICK n, result, own :
        /\ call[c] = [pc |-> "inserting", import |-> n, result |-> result, own |-> own]
        /\ RowsBy(own, {n})
        /\ n \in 1..uploads
  BY <1>0 DEF CallOK
<1>2. PICK r : r = NextFeature(c)
  OBVIOUS
<1>3. IsRow(r) /\ r.import = n
  BY <1>1, <1>2 DEF NextFeature, StoredFeature, IsRow
<1>4. PICK more : more = Append(own, r)
  OBVIOUS
<1>5. RowsBy(more, {n})
  BY <1>1, <1>3, <1>4, RowsAppend
<1>6. /\ DOMAIN call' = Callers /\ \A d \in Callers \ {c} : call'[d] = call[d]
      /\ call'[c] = [call[c] EXCEPT !.own = more]
  <2>1. call[c].own = own
    BY <1>1
  <2>2. call' = [call EXCEPT ![c].own = more]
    BY <1>2, <1>4, <2>1 DEF InsertFeature
  <2> QED
    BY <1>0, <2>2 DEF CallsOK
<1>7. call'[c] = [pc |-> "inserting", import |-> n, result |-> result, own |-> more]
  BY <1>1, <1>6
<1>8. /\ call'[c].pc = "inserting" /\ call'[c].import = n /\ call'[c].own = more
      /\ call'[c].result = result /\ call[c].import = n
  BY <1>1, <1>7
<1>9. Numbered(c)' /\ CallOK(c)'
  BY <1>0, <1>1, <1>5, <1>7, <1>8 DEF CallOK, Numbered, InTransaction, Stages, At
<1> QED
  BY <1>0, <1>6, <1>8, <1>9, GoesOn DEF FolderOK, ImportInv

(* An import in its transaction, as the record that it is. *)
LEMMA Held ==
  ASSUME CallsOK, NEW c \in Callers, InTransaction(c)
  PROVE  \E n, result, own :
           /\ call[c] = [pc |-> call[c].pc, import |-> n, result |-> result, own |-> own]
           /\ n = call[c].import /\ own = call[c].own /\ result = call[c].result
           /\ RowsBy(own, {n})
           /\ n \in 1..uploads /\ Numbered(c)
<1>1. Numbered(c) /\ CallOK(c)
  BY DEF CallsOK, Numbered
<1>2. PICK n, result, own : n = call[c].import /\ own = call[c].own /\ result = call[c].result
  OBVIOUS
<1>3. /\ call[c] = [pc |-> call[c].pc, import |-> n, result |-> result, own |-> own]
      /\ RowsBy(own, {n})
      /\ n \in 1..uploads
  BY <1>1, <1>2 DEF CallOK
<1> QED
  BY <1>1, <1>2, <1>3

(* The import goes to its next stage. *)
LEMMA NextStage ==
  ASSUME ImportInv, NEW c \in Callers, InTransaction(c), NEW pc \in {"recording", "committing"},
         Goto(c, pc), UNCHANGED <<row, job, answers, uploads>>, FolderOK',
         Len(call[c].own) = Len(Features(c)),
         \/ folder' = folder
         \/ folder' = [folder EXCEPT !.lockedBy = c] /\ folder.lockedBy = NoCaller,
         (pc = "recording" /\ folder'.exists) \/ pc = "committing" => folder'.lockedBy = c,
         pc = "committing" => folder'.exists
  PROVE  ImportInv'
<1>0. CallsOK /\ FolderOK
  BY DEF ImportInv
<1>1. PICK n, result, own :
        /\ call[c] = [pc |-> call[c].pc, import |-> n, result |-> result, own |-> own]
        /\ n = call[c].import /\ own = call[c].own /\ result = call[c].result
        /\ RowsBy(own, {n})
        /\ n \in 1..uploads /\ Numbered(c)
  BY <1>0, Held
<1>2. /\ DOMAIN call' = Callers /\ \A d \in Callers \ {c} : call'[d] = call[d]
      /\ call'[c] = [call[c] EXCEPT !.pc = pc]
  BY <1>0 DEF Goto, CallsOK
<1>3. call'[c] = [pc |-> pc, import |-> n, result |-> result, own |-> own]
  BY <1>1, <1>2
<1>4. /\ call'[c].pc = pc /\ call'[c].import = n /\ call'[c].own = own
      /\ call'[c].result = result
  BY <1>3
<1>5. Len(own) = Len(result.features)
  BY <1>1 DEF Features
<1>6. Numbered(c)' /\ CallOK(c)'
  BY <1>1, <1>3, <1>4, <1>5 DEF CallOK, Numbered, InTransaction, Stages, At, Features
<1>7. folder'.exists = folder.exists /\ folder'.count = folder.count
  BY <1>0 DEF FolderOK
<1> QED
  BY <1>1, <1>2, <1>4, <1>6, <1>7, GoesOn

LEMMA CountKeeps ==
  ASSUME ImportInv, NEW c \in Callers, CountFeatures(c)
  PROVE  ImportInv'
<1>1. FolderOK /\ InTransaction(c)
  BY DEF ImportInv, CountFeatures, InTransaction, Stages, At
<1>2. FolderOK' /\ (folder'.exists => folder'.lockedBy = c)
  BY <1>1 DEF FolderOK, CountFeatures
<1>3. \/ folder' = folder
      \/ folder' = [folder EXCEPT !.lockedBy = c] /\ folder.lockedBy = NoCaller
  BY DEF CountFeatures
<1>4. /\ Goto(c, "recording") /\ UNCHANGED <<row, job, answers, uploads>>
      /\ Len(call[c].own) = Len(Features(c))
  BY DEF CountFeatures
<1>5. PICK pc \in {"recording", "committing"} : pc = "recording"
  OBVIOUS
<1> QED
  BY <1>1, <1>2, <1>3, <1>4, <1>5, NextStage

LEMMA RecordKeeps ==
  ASSUME ImportInv, NEW c \in Callers, RecordJob(c)
  PROVE  ImportInv'
<1>1. /\ FolderOK /\ InTransaction(c) /\ CallOK(c) /\ folder' = folder /\ folder.exists
  BY DEF ImportInv, RecordJob, JobAllowed, InTransaction, Stages, At, CallsOK
<1>2. folder.lockedBy = c /\ Len(call[c].own) = Len(Features(c))
  BY <1>1 DEF CallOK, RecordJob
<1>3. FolderOK'
  BY <1>1 DEF FolderOK
<1> QED
  BY <1>1, <1>2, <1>3, NextStage DEF RecordJob

LEMMA ExportReadsKeeps ==
  ASSUME ImportInv, NEW c \in Callers, ExportReads(c)
  PROVE  ImportInv'
<1>1. /\ DOMAIN call' = Callers /\ \A d \in Callers \ {c} : call'[d] = call[d]
      /\ call'[c] = [pc |-> "exporting"] /\ call[c].pc = "idle"
  BY DEF ImportInv, CallsOK, ExportReads, At
<1>2. call'[c].pc = "exporting"
  BY <1>1
<1>3. ~Numbered(c) /\ ~Numbered(c)' /\ CallOK(c)'
  BY <1>1, <1>2 DEF CallOK, Numbered, InTransaction, Stages, At
<1>4. FolderOK' /\ folder' = folder
  BY DEF FolderOK, ImportInv, ExportReads
<1> QED
  BY <1>1, <1>3, <1>4, GoesOn DEF ExportReads

LEMMA TailCounted == \A m, n \in Nat : Cardinality(m + 1..m + n) = n
<1> SUFFICES ASSUME NEW m \in Nat, NEW n \in Nat PROVE Cardinality(m + 1..m + n) = n
  OBVIOUS
<1>1. PICK lo \in Int : lo = m + 1
  OBVIOUS
<1>2. PICK hi \in Int : hi = m + n
  OBVIOUS
<1>3. Cardinality(lo..hi) = IF lo > hi THEN 0 ELSE hi - lo + 1
  BY FS_Interval, Zenon
<1> QED
  BY <1>1, <1>2, <1>3

LEMMA FolderStored ==
  ASSUME NEW f \in [exists : BOOLEAN, count : Nat, lockedBy : Callers \cup {NoCaller}],
         NEW n \in Nat, NEW g, g = [f EXCEPT !.count = n, !.lockedBy = NoCaller]
  PROVE  /\ g \in [exists : BOOLEAN, count : Nat, lockedBy : Callers \cup {NoCaller}]
         /\ g.exists = f.exists /\ g.count = n
OBVIOUS

(* The import leaves its rows in the table, all of them, counts them in the  *)
(* folder and has its job recorded.                                          *)
LEMMA StoredKeeps ==
  ASSUME ImportInv, NEW c \in Callers, At(c, "committing"), Stored(c), Done(c), UNCHANGED uploads,
         NEW a, answers' = answers \cup {a}, a.import = call[c].import,
         a.doubtful \/ (a.status # "failed" /\ a.created = Len(call[c].own))
  PROVE  ImportInv'
<1>0. /\ CallsOK /\ FolderOK /\ RowsOK /\ InTransaction(c) /\ uploads \in Nat
  BY DEF ImportInv, InTransaction, Stages, At
<1>1. PICK n, result, own :
        /\ n = call[c].import /\ own = call[c].own
        /\ RowsBy(own, {n})
        /\ Numbered(c)
  BY <1>0, Held
<1>2. /\ DOMAIN call' = Callers /\ \A d \in Callers \ {c} : call'[d] = call[d]
      /\ CallOK(c)' /\ Distinct' /\ Finished \subseteq Finished'
      /\ n \in Finished' /\ n \notin Finished
  BY <1>0, <1>1, Ends
<1>3. folder.exists /\ folder.lockedBy = c /\ Len(Features(c)) = Len(own)
  BY <1>0, <1>1 DEF CallsOK, CallOK
<1>4. /\ Len(row) \in Nat /\ DOMAIN row = 1..Len(row) /\ Len(own) \in Nat /\ DOMAIN own = 1..Len(own)
  BY <1>0, <1>1, RowsLength DEF RowsOK
<1>5. /\ RowsBy(row', Finished') /\ Len(row') = Len(row) + Len(own)
      /\ DOMAIN row' = 1..Len(row) + Len(own)
      /\ \A i \in 1..Len(row) : row'[i] = row[i]
      /\ \A i \in Len(row) + 1..Len(row) + Len(own) : row'[i].import = n
  <2>1. \A i \in DOMAIN row : row[i].import \in Finished'
    BY <1>0, <1>2 DEF RowsOK, RowsBy
  <2>2. RowsBy(row, Finished')
    BY <1>0, <2>1, RowsWiden DEF RowsOK
  <2>3. \A k \in DOMAIN own : own[k].import = n
    BY <1>1 DEF RowsBy, IsList
  <2>4. RowsBy(own, Finished')
    BY <1>1, <1>2, <2>3, RowsWiden
  <2>5. row' = row \o own
    BY <1>1 DEF Stored
  <2>6. /\ RowsBy(row', Finished') /\ Len(row') = Len(row) + Len(own)
        /\ \A i \in 1..Len(row) : row'[i] = row[i]
        /\ \A i \in Len(row) + 1..Len(row) + Len(own) : \E k \in DOMAIN own : row'[i] = own[k]
    BY <2>2, <2>4, <2>5, RowsConcat
  <2>7. DOMAIN row' = 1..Len(row')
    BY <2>6, RowsLength
  <2> QED
    BY <1>1, <2>3, <2>6, <2>7
<1>6. /\ folder' = [folder EXCEPT !.count = folder.count + Len(own), !.lockedBy = NoCaller]
      /\ folder.count = Len(row)
  BY <1>0, <1>3 DEF Stored, Counted, RowsOK
<1>7. FolderOK' /\ folder'.exists /\ folder'.count = Len(row) + Len(own)
  <2>1. PICK n1 \in Nat : n1 = Len(row) + Len(own)
    BY <1>4
  <2>2. folder' = [folder EXCEPT !.count = n1, !.lockedBy = NoCaller]
    BY <1>6, <2>1
  <2> QED
    BY <1>0, <1>3, <2>1, <2>2, FolderStored DEF FolderOK
<1>8. CallsOK'
  BY <1>0, <1>2, <1>3, <1>7, CallsKept
<1>9. RowsOK'
  BY <1>5, <1>7 DEF RowsOK
<1>10. PICK j : j = JobRow(c)
  OBVIOUS
<1>11. job' = job \cup {j} /\ j.import = n /\ j.created = Len(own)
  BY <1>1, <1>3, <1>10 DEF Stored, JobRow
<1>12. \A x \in answers' \cup job' : x.import \in Finished'
  BY <1>1, <1>2, <1>11 DEF ImportInv
<1>13. Cardinality(RowsOf(n)') = Len(own)
  <2>1. \A i \in DOMAIN row : row[i].import # n
    BY <1>0, <1>2 DEF RowsOK, RowsBy
  <2>2. RowsOf(n)' = Len(row) + 1..Len(row) + Len(own)
    BY <1>4, <1>5, <2>1 DEF RowsOf
  <2>3. Cardinality(Len(row) + 1..Len(row) + Len(own)) = Len(own)
    BY <1>4, TailCounted
  <2> QED
    BY <2>2, <2>3
<1>14. \A m : m # n => RowsOf(m)' = RowsOf(m)
  BY <1>4, <1>5 DEF RowsOf
<1>15. AnswersTrue'
  <2>1. \A x \in answers \cup job : x.import # n
    BY <1>2 DEF ImportInv
  <2>2. ASSUME NEW x \in answers'
        PROVE  \/ x.doubtful
               \/ x.status = "failed" /\ RowsOf(x.import)' = {}
               \/ x.status # "failed" /\ Cardinality(RowsOf(x.import)') = x.created
    <3>1. CASE x = a
      <4>1. a.import = n /\ (a.doubtful \/ (a.status # "failed" /\ a.created = Len(own)))
        BY <1>1
      <4>2. RowsOf(a.import)' = RowsOf(n)'
        BY <4>1 DEF RowsOf
      <4> QED
        BY <1>13, <3>1, <4>1, <4>2
    <3>2. CASE x \in answers
      <4>1. RowsOf(x.import)' = RowsOf(x.import)
        BY <1>14, <2>1, <3>2
      <4> QED
        BY <3>2, <4>1 DEF ImportInv, AnswersTrue
    <3> QED
      BY <3>1, <3>2
  <2>3. \A x \in job' : Cardinality(RowsOf(x.import)') = x.created
    BY <1>11, <1>13, <1>14, <2>1 DEF ImportInv, AnswersTrue
  <2>4. \A i \in DOMAIN row' : \E x \in job' : x.import = row'[i].import
    BY <1>3, <1>4, <1>5, <1>11 DEF ImportInv, AnswersTrue
  <2> QED
    BY <2>2, <2>3, <2>4 DEF AnswersTrue
<1> QED
  BY <1>0, <1>7, <1>8, <1>9, <1>12, <1>15 DEF ImportInv

LEMMA CommitKeeps ==
  ASSUME ImportInv, NEW c \in Callers, Commit(c)
  PROVE  ImportInv'
<1>1. PICK a : a = Answer(call[c].import, Status(c), Len(call[c].own), Len(Errors(c)), FALSE)
  OBVIOUS
<1>2. a.import = call[c].import /\ a.status = Status(c) /\ a.created = Len(call[c].own)
  BY <1>1 DEF Answer
<1>3. a.status # "failed"
  BY <1>2 DEF Status
<1>4. answers' = answers \cup {a}
  BY <1>1 DEF Commit, Answers
<1> QED
  BY <1>2, <1>3, <1>4, StoredKeeps DEF Commit

LEMMA LostKeeps ==
  ASSUME ImportInv, NEW c \in Callers, AcknowledgementLost(c)
  PROVE  ImportInv'
<1>1. PICK a : a = Answer(call[c].import, "failed", 0, Len(Features(c)), TRUE)
  OBVIOUS
<1>2. a.import = call[c].import /\ a.doubtful
  BY <1>1 DEF Answer
<1>3. answers' = answers \cup {a}
  BY <1>1 DEF AcknowledgementLost, Answers
<1> QED
  BY <1>2, <1>3, StoredKeeps DEF AcknowledgementLost

(* The geometry module changes rows that are there, DELETE unfiles them.     *)
LEMMA RowsRewritten ==
  ASSUME ImportInv, UNCHANGED <<call, uploads, answers>>, row' = [i \in DOMAIN row |-> row'[i]],
         \A i \in DOMAIN row : IsRow(row'[i]) /\ row'[i].import = row[i].import,
         FolderOK',
         \/ folder' = folder /\ job' = job
         \/ ~folder'.exists /\ folder.lockedBy = NoCaller /\ job' = {}
  PROVE  ImportInv'
<1>1. Finished' = Finished /\ \A c \in Callers : (Numbered(c)' <=> Numbered(c))
  BY DEF Finished, Numbered, InTransaction, At
<1>2. RowsBy(row', Finished') /\ Len(row') = Len(row) /\ DOMAIN row' = DOMAIN row
  BY <1>1, RowsChanged DEF ImportInv, RowsOK
<1>3. RowsOK'
  BY <1>2 DEF ImportInv, RowsOK
<1>4. ASSUME NEW c \in Callers PROVE CallOK(c)'
  <2>1. CallOK(c) /\ c # NoCaller
    BY ImportAssumption DEF ImportInv, CallsOK
  <2>2. /\ At(c, "recording")' /\ folder'.exists => folder'.lockedBy = c
        /\ At(c, "committing")' => folder'.exists /\ folder'.lockedBy = c
    BY <2>1 DEF CallOK, At
  <2> QED
    BY <2>1, <2>2 DEF CallOK, Numbered, InTransaction, At, Features
<1>5. CallsOK'
  BY <1>1, <1>4 DEF ImportInv, CallsOK
<1>6. PICK new : new = {}
  OBVIOUS
<1>7. /\ AnswersTrue /\ answers' \subseteq answers \cup new
      /\ \A a \in new : a.status = "failed" /\ RowsOf(a.import) = {}
      /\ \/ job' = job /\ folder'.exists = folder.exists
         \/ job' = {} /\ ~folder'.exists
  BY <1>6 DEF ImportInv
<1>8. AnswersTrue'
  BY <1>2, <1>7, AnswersKept
<1> QED
  BY <1>1, <1>3, <1>5, <1>8 DEF ImportInv

LEMMA RowAltered ==
  ASSUME NEW r, IsRow(r)
  PROVE  /\ \A v : IsRow([r EXCEPT !.name = v]) /\ [r EXCEPT !.name = v].import = r.import
         /\ \A v : IsRow([r EXCEPT !.deleted = v]) /\ [r EXCEPT !.deleted = v].import = r.import
         /\ \A v : IsRow([r EXCEPT !.filed = v]) /\ [r EXCEPT !.filed = v].import = r.import
<1>1. PICK n, filed, deleted, type, name, properties :
        r = [import |-> n, filed |-> filed, deleted |-> deleted,
             type |-> type, name |-> name, properties |-> properties]
  BY DEF IsRow
<1>2. ASSUME NEW v, NEW q, q = [r EXCEPT !.name = v]
      PROVE  IsRow(q) /\ q.import = r.import
  BY <1>1, <1>2 DEF IsRow
<1>3. ASSUME NEW v, NEW q, q = [r EXCEPT !.deleted = v]
      PROVE  IsRow(q) /\ q.import = r.import
  BY <1>1, <1>3 DEF IsRow
<1>4. ASSUME NEW v, NEW q, q = [r EXCEPT !.filed = v]
      PROVE  IsRow(q) /\ q.import = r.import
  BY <1>1, <1>4 DEF IsRow
<1> QED
  BY <1>2, <1>3, <1>4

LEMMA ChangesKeep ==
  ASSUME ImportInv, NEW i \in DOMAIN row, RenameFeature(i) \/ DeleteFeature(i)
  PROVE  ImportInv'
<1>0. /\ \A k \in DOMAIN row : IsRow(row[k])
      /\ UNCHANGED <<call, uploads, answers, folder, job>> /\ FolderOK
  BY DEF ImportInv, RowsOK, RowsBy, RenameFeature, DeleteFeature
<1>1. CASE RenameFeature(i)
  <2>1. row' = [row EXCEPT ![i] = [row[i] EXCEPT !.name = NewName]]
    BY <1>1 DEF RenameFeature
  <2>2. \A k \in DOMAIN row :
          IsRow(row'[k]) /\ row'[k].import = row[k].import
    BY <1>0, <2>1, RowAltered
  <2>3. row' = [k \in DOMAIN row |-> row'[k]] /\ FolderOK'
    BY <1>0, <2>1 DEF FolderOK
  <2> QED
    BY <1>0, <2>2, <2>3, RowsRewritten
<1>2. CASE DeleteFeature(i)
  <2>1. row' = [row EXCEPT ![i] = [row[i] EXCEPT !.deleted = TRUE]]
    BY <1>2 DEF DeleteFeature
  <2>2. \A k \in DOMAIN row :
          IsRow(row'[k]) /\ row'[k].import = row[k].import
    BY <1>0, <2>1, RowAltered
  <2>3. row' = [k \in DOMAIN row |-> row'[k]] /\ FolderOK'
    BY <1>0, <2>1 DEF FolderOK
  <2> QED
    BY <1>0, <2>2, <2>3, RowsRewritten
<1> QED
  BY <1>1, <1>2

LEMMA UnfilingKeeps ==
  ASSUME ImportInv, UnfileFeatures \/ DeleteFolder
  PROVE  ImportInv'
<1>0. /\ \A k \in DOMAIN row : IsRow(row[k])
      /\ UNCHANGED <<call, uploads, answers>> /\ FolderOK
  BY DEF ImportInv, RowsOK, RowsBy, UnfileFeatures, DeleteFolder
<1>1. row' = [k \in DOMAIN row |-> [row[k] EXCEPT !.filed = FALSE]]
  BY DEF UnfileFeatures, DeleteFolder
<1>2. \A k \in DOMAIN row : IsRow(row'[k]) /\ row'[k].import = row[k].import
  BY <1>0, <1>1, RowAltered
<1>3. row' = [k \in DOMAIN row |-> row'[k]]
  BY <1>1
<1>4. \/ folder' = folder /\ job' = job
      \/ ~folder'.exists /\ folder.lockedBy = NoCaller /\ job' = {}
  BY <1>0 DEF FolderOK, UnfileFeatures, DeleteFolder
<1>5. FolderOK'
  BY <1>0 DEF FolderOK, UnfileFeatures, DeleteFolder
<1> QED
  BY <1>0, <1>2, <1>3, <1>4, <1>5, RowsRewritten

(* An import is all or nothing and the folder counts what is stored, at every *)
(* moment: the conjuncts of the inductive invariant.                         *)
THEOREM ImportInvariant == Spec => []ImportInv
<1>1. Init => ImportInv
  <2> SUFFICES ASSUME Init PROVE ImportInv
    OBVIOUS
  <2>1. FolderOK /\ uploads \in Nat
    BY DEF Init, FolderOK
  <2>2. \A c \in Callers : call[c].pc = "idle"
    BY DEF Init, NoCall
  <2>3. CallsOK
    <3>1. DOMAIN call = Callers
      BY DEF Init
    <3> QED
      BY <2>2, <3>1 DEF CallsOK, CallOK, Numbered, InTransaction, Stages, At
  <2>4. DOMAIN row = {} /\ Len(row) = 0 /\ folder.count = 0
    BY EmptySeq DEF Init
  <2>5. RowsOK
    BY <2>4, RowsEmpty DEF Init, RowsOK
  <2>6. AnswersTrue
    BY <2>4 DEF Init, AnswersTrue
  <2> QED
    BY <2>1, <2>3, <2>5, <2>6 DEF Init, ImportInv
<1>2. ImportInv /\ [Next]_vars => ImportInv'
  <2> SUFFICES ASSUME ImportInv, [Next]_vars PROVE ImportInv'
    OBVIOUS
  <2>1. ASSUME NEW c \in Callers, NEW file, Upload(c, file) PROVE ImportInv'
    BY <2>1, UploadKeeps
  <2>2. ASSUME NEW c \in Callers, ImportReads(c) PROVE ImportInv'
    BY <2>2, ReadsKeeps
  <2>3. ASSUME NEW c \in Callers, InsertFeature(c) PROVE ImportInv'
    BY <2>3, InsertKeeps
  <2>4. ASSUME NEW c \in Callers, CountFeatures(c) PROVE ImportInv'
    BY <2>4, CountKeeps
  <2>5. ASSUME NEW c \in Callers, RecordJob(c) PROVE ImportInv'
    BY <2>5, RecordKeeps
  <2>6. ASSUME NEW c \in Callers, Commit(c) PROVE ImportInv'
    BY <2>6, CommitKeeps
  <2>7. ASSUME NEW c \in Callers, ImportFails(c) PROVE ImportInv'
    BY <2>7, EndsInVain DEF ImportFails, Numbered
  <2>8. ASSUME NEW c \in Callers, AcknowledgementLost(c) PROVE ImportInv'
    BY <2>8, LostKeeps
  <2>9. ASSUME NEW c \in Callers, ExportReads(c) PROVE ImportInv'
    BY <2>9, ExportReadsKeeps
  <2>10. ASSUME NEW c \in Callers, ExportSelects(c) PROVE ImportInv'
    BY <2>10, EndsInVain DEF ExportSelects
  <2>11. ASSUME NEW c \in Callers, Dies(c) PROVE ImportInv'
    BY <2>11, EndsInVain DEF Dies
  <2>12. ASSUME NEW i \in DOMAIN row, RenameFeature(i) \/ DeleteFeature(i) PROVE ImportInv'
    BY <2>12, ChangesKeep
  <2>13. CASE UnfileFeatures \/ DeleteFolder
    BY <2>13, UnfilingKeeps
  <2>14. CASE UNCHANGED vars
    <3>1. \A n : RowsOf(n)' = RowsOf(n)
      BY <2>14 DEF vars, RowsOf
    <3>2. AnswersTrue'
      BY <2>14, <3>1 DEF vars, AnswersTrue, ImportInv
    <3>3. CallsOK'
      BY <2>14 DEF vars, ImportInv, CallsOK, CallOK, Numbered, InTransaction, At, Features
    <3>4. RowsOK' /\ Finished' = Finished
      BY <2>14 DEF vars, ImportInv, RowsOK, Finished, Numbered, InTransaction, At
    <3> QED
      BY <2>14, <3>2, <3>3, <3>4 DEF vars, ImportInv, FolderOK
  <2> QED
    BY <2>1, <2>2, <2>3, <2>4, <2>5, <2>6, <2>7, <2>8, <2>9, <2>10, <2>11, <2>12, <2>13, <2>14
    DEF Next
<1> QED
  BY <1>1, <1>2, PTL DEF Spec

(* Whatever imports overlap, fail, or lose the answer to their COMMIT, what  *)
(* execute answers and what the job rows say is what is in the table.        *)
THEOREM AnswersAreTrue == Spec => []AnswersTrue
<1>1. ImportInv => AnswersTrue
  BY DEF ImportInv
<1> QED
  BY <1>1, ImportInvariant, PTL

(* The folder's feature_count is the number of features that imports stored  *)
(* in it, however they overlap and fail.                                     *)
THEOREM CountIsRows == Spec => []CountMatchesRows
<1>1. ImportInv => CountMatchesRows
  BY DEF ImportInv, RowsOK, CountMatchesRows
<1> QED
  BY <1>1, ImportInvariant, PTL

------------------------------------------------------------------------------
(* The positions that a loop does not skip, in order. *)

(* A set of numbers has a least one. *)
LEMMA Least ==
  ASSUME NEW S \in SUBSET Nat, S # {}
  PROVE  \E n \in S : \A m \in S : n <= m
<1>1. \A m, n \in Nat : m < n => <<m, n>> \in OpToRel(<, Nat)
  BY DEF OpToRel
<1>2. PICK n \in S : \A m \in S : <<m, n>> \notin OpToRel(<, Nat)
  BY NatLessThanWellFounded, WFMin
<1>3. \A m \in S : ~(m < n)
  BY <1>1, <1>2, Zenon
<1> QED
  BY <1>3

(* A bounded one that is not empty has a greatest: its least upper bound. *)
LEMMA Greatest ==
  ASSUME NEW n \in Nat, NEW S \in SUBSET (1..n), S # {}
  PROVE  \E g \in S : \A m \in S : m <= g
<1>1. PICK U : U = {u \in Nat : \A m \in S : m <= u}
  OBVIOUS
<1>2. n \in U /\ U \in SUBSET Nat
  BY <1>1
<1>3. PICK g \in U : \A u \in U : g <= u
  BY <1>2, Least
<1>4. g \in S
  <2>1. SUFFICES ASSUME g \notin S PROVE FALSE
    OBVIOUS
  <2>2. \A m \in S : m < g
    BY <1>1, <1>3, <2>1
  <2>3. \A m \in S : m <= g - 1
    BY <1>1, <1>3, <2>2
  <2>4. PICK m \in S : m \in 1..n
    OBVIOUS
  <2>5. g - 1 \in U
    BY <1>1, <1>3, <2>2, <2>3, <2>4
  <2> QED
    BY <1>1, <1>3, <2>5
<1> QED
  BY <1>1, <1>3, <1>4

LEMMA BoundedFinite ==
  ASSUME NEW n \in Nat, NEW S \in SUBSET (1..n)
  PROVE  IsFiniteSet(S)
<1>1. IsFiniteSet(1..n)
  BY FS_Interval
<1> QED
  BY <1>1, FS_Subset

Below(S, i) == {j \in S : j < i}

(* Who has as many elements below it as are asked for: the least that has no *)
(* fewer, since the one before it has one less.                              *)
LEMMA RankTaken ==
  ASSUME NEW n \in Nat, NEW S \in SUBSET (1..n), NEW k \in 1..Cardinality(S)
  PROVE  \E i \in S : Cardinality(Below(S, i)) = k - 1
<1>1. IsFiniteSet(S)
  BY BoundedFinite
<1>2. ASSUME NEW i PROVE IsFiniteSet(Below(S, i)) /\ Cardinality(Below(S, i)) \in Nat
  BY <1>1, FS_Subset, FS_CardinalityType DEF Below
<1>3. PICK T : T = {i \in S : Cardinality(Below(S, i)) >= k - 1}
  OBVIOUS
<1>4. T # {}
  <2>1. S # {}
    BY FS_EmptySet
  <2>2. PICK g \in S : \A m \in S : m <= g
    BY <2>1, Greatest
  <2>3. Below(S, g) = S \ {g}
    <3>1. \A m \in S : m < g <=> m # g
      BY <2>2
    <3> QED
      BY <3>1, Zenon DEF Below
  <2>4. Cardinality(Below(S, g)) = Cardinality(S) - 1
    BY <1>1, <2>2, <2>3, FS_RemoveElement
  <2>5. Cardinality(S) \in Nat
    BY <1>1, FS_CardinalityType
  <2> QED
    BY <1>3, <2>2, <2>4, <2>5
<1>5. PICK i \in T : \A m \in T : i <= m
  BY <1>3, <1>4, Least
<1>6. Cardinality(Below(S, i)) = k - 1
  <2>1. SUFFICES ASSUME Cardinality(Below(S, i)) > k - 1 PROVE FALSE
    BY <1>2, <1>3
  <2>2. Below(S, i) # {} /\ Below(S, i) \in SUBSET (1..n)
    <3>1. Cardinality(Below(S, i)) # 0
      BY <1>2, <2>1
    <3>2. Below(S, i) # {}
      BY <3>1, FS_EmptySet, Zenon
    <3> QED
      BY <3>2, Zenon DEF Below
  <2>3. PICK p \in Below(S, i) : \A m \in Below(S, i) : m <= p
    BY <2>2, Greatest
  <2>4. p \in S /\ p < i /\ Below(S, p) = Below(S, i) \ {p}
    <3>1. p \in S /\ p < i /\ i \in S
      BY <1>3, <2>3, Zenon DEF Below
    <3>2. \A m \in S : m < i => m <= p
      BY <2>3, Zenon DEF Below
    <3>3. \A m \in S : m < p <=> m < i /\ m # p
      BY <3>1, <3>2
    <3> QED
      BY <3>1, <3>3, Zenon DEF Below
  <2>5. Cardinality(Below(S, p)) = Cardinality(Below(S, i)) - 1
    BY <1>2, <2>3, <2>4, FS_RemoveElement
  <2>6. p \in T
    BY <1>2, <1>3, <2>1, <2>4, <2>5
  <2> QED
    BY <1>3, <1>5, <2>4, <2>6
<1> QED
  BY <1>3, <1>5, <1>6

(* Of positions in a list InOrder gives some, as many as there are. *)
LEMMA InOrderTaken ==
  ASSUME NEW n \in Nat, NEW S \in SUBSET (1..n)
  PROVE  /\ Cardinality(S) \in Nat
         /\ DOMAIN InOrder(S) = 1..Cardinality(S)
         /\ \A k \in 1..Cardinality(S) : InOrder(S)[k] \in S
<1>0. IsFiniteSet(S)
  BY BoundedFinite
<1>1. Cardinality(S) \in Nat
  BY <1>0, FS_CardinalityType
<1>2. DOMAIN InOrder(S) = 1..Cardinality(S)
  BY DEF InOrder
<1>3. ASSUME NEW k \in 1..Cardinality(S) PROVE InOrder(S)[k] \in S
  <2>1. \E i \in S : Cardinality({j \in S : j < i}) = k - 1
    BY RankTaken DEF Below
  <2> QED
    BY <2>1 DEF InOrder
<1> QED
  BY <1>1, <1>2, <1>3

(* Of all the positions it gives every one at its place. *)
LEMMA InOrderAll ==
  ASSUME NEW n \in Nat
  PROVE  InOrder(1..n) = [k \in 1..n |-> k]
<1>1. Cardinality(1..n) = n
  BY FS_Interval
<1>2. ASSUME NEW i \in 1..n PROVE Cardinality({j \in 1..n : j < i}) = i - 1
  <2>1. PICK m \in Nat : m = i - 1 /\ {j \in 1..n : j < i} = 1..m
    OBVIOUS
  <2>2. Cardinality(1..m) = m
    BY FS_Interval
  <2> QED
    BY <2>1, <2>2
<1>3. ASSUME NEW k \in 1..n
      PROVE  (CHOOSE i \in 1..n : Cardinality({j \in 1..n : j < i}) = k - 1) = k
  <2>1. \A i \in 1..n : (Cardinality({j \in 1..n : j < i}) = k - 1) <=> (i = k)
    BY <1>2
  <2> QED
    BY <2>1
<1> QED
  BY <1>1, <1>3 DEF InOrder

LEMMA InOrderNone == InOrder({}) = <<>>
<1>1. Cardinality({}) = 0
  BY FS_EmptySet
<1>2. PICK s : s = InOrder({})
  OBVIOUS
<1>3. s = [k \in {} |-> s[k]]
  BY <1>1, <1>2 DEF InOrder
<1>4. s \in Seq({})
  BY <1>3, SeqDef
<1>5. Len(s) = 0
  BY <1>3, <1>4, LenProperties
<1> QED
  BY <1>2, <1>4, <1>5, EmptySeq

------------------------------------------------------------------------------
(* What comes out of the parsers. *)

LEMMA ListOf ==
  ASSUME NEW s, NEW n \in Nat, s = [i \in 1..n |-> s[i]]
  PROVE  IsList(s) /\ DOMAIN s = 1..n /\ Len(s) = n
<1>1. PICK S : S = {s[i] : i \in DOMAIN s}
  OBVIOUS
<1>2. DOMAIN s = 1..n /\ s \in [1..n -> S]
  BY <1>1
<1>3. s \in Seq(S)
  BY <1>2, SeqDef
<1>4. Len(s) = n
  BY <1>2, <1>3, LenProperties
<1> QED
  BY <1>1, <1>2, <1>3, <1>4 DEF IsList

LEMMA ListLength ==
  ASSUME NEW s, IsList(s)
  PROVE  Len(s) \in Nat /\ DOMAIN s = 1..Len(s)
<1>1. PICK S : S = {s[i] : i \in DOMAIN s} /\ s \in Seq(S)
  BY DEF IsList
<1> QED
  BY <1>1, LenProperties

LEMMA PairsAreTexts == \A a, b : <<a, b>> # Null
<1>1. \A a, b : Len(<<a, b>>) = 2 /\ Len(<<>>) = 0
  OBVIOUS
<1> QED
  BY <1>1 DEF Null

LEMMA Named ==
  ASSUME NEW properties, NEW generated, generated # Null
  PROVE  NameOf(properties, generated) # Null
BY DEF NameOf

(* Every feature of a file has a name and a geometry. *)
LEMMA CollectionComplete ==
  ASSUME NEW items, IsList(items)
  PROVE  CompleteList(ParseCollection(items).features)
<1>1. PICK n \in Nat : n = Len(items) /\ DOMAIN items = 1..n
  BY ListLength
<1>2. PICK valid :
        valid = {i \in DOMAIN items : items[i].type = "Feature" /\ items[i].geometry # "none"}
  OBVIOUS
<1>3. PICK good : good = InOrder(valid)
  OBVIOUS
<1>4. PICK m \in Nat : m = Cardinality(valid)
  <2>1. valid \in SUBSET (1..n)
    BY <1>1, <1>2
  <2> QED
    BY <2>1, InOrderTaken
<1>5. DOMAIN good = 1..m /\ \A k \in 1..m : good[k] \in valid
  <2>1. valid \in SUBSET (1..n)
    BY <1>1, <1>2
  <2> QED
    BY <1>3, <1>4, <2>1, InOrderTaken
<1>6. PICK features :
        features = [k \in 1..m |->
                      ImportedItem(items[good[k]], <<"Imported ", ToString(good[k])>>)]
  OBVIOUS
<1>7. ParseCollection(items).features = features
  BY <1>2, <1>3, <1>5, <1>6 DEF ParseCollection, Parsed
<1>8. ASSUME NEW k \in 1..m PROVE Complete(features[k])
  <2>1. PICK item, generated :
          item = items[good[k]] /\ generated = <<"Imported ", ToString(good[k])>>
    OBVIOUS
  <2>2. features[k] = ImportedItem(item, generated)
    BY <1>6, <2>1
  <2>3. features[k].type # "none"
    <3>1. features[k].type = item.geometry
      BY <2>2 DEF ImportedItem
    <3> QED
      BY <1>2, <1>5, <2>1, <3>1
  <2>4. features[k].name # Null
    <3>1. features[k].name = NameOf(item.properties, generated)
      BY <2>2 DEF ImportedItem
    <3>2. generated # Null
      BY <2>1, PairsAreTexts
    <3> QED
      BY <3>1, <3>2, Named
  <2> QED
    BY <2>3, <2>4 DEF Complete
<1>9. IsList(features) /\ DOMAIN features = 1..m
  BY <1>6, ListOf
<1> QED
  BY <1>7, <1>8, <1>9 DEF CompleteList

LEMMA EmptyComplete == CompleteList(<<>>)
<1>1. <<>> \in Seq({<<>>[i] : i \in DOMAIN <<>>}) /\ DOMAIN <<>> = {}
  BY EmptySeq
<1> QED
  BY <1>1 DEF CompleteList, IsList

LEMMA FeatureComplete ==
  ASSUME NEW item, NEW title, title # Null
  PROVE  CompleteList(ParseFeature(item, title).features)
<1>1. CASE item.geometry = "none"
  <2>1. ParseFeature(item, title).features = <<>>
    BY <1>1 DEF ParseFeature, Parsed
  <2> QED
    BY <2>1, EmptyComplete
<1>2. CASE item.geometry # "none"
  <2>1. PICK f : f = ImportedItem(item, title)
    OBVIOUS
  <2>2. Complete(f)
    <3>1. f.type = item.geometry /\ f.name = NameOf(item.properties, title)
      BY <2>1 DEF ImportedItem
    <3> QED
      BY <1>2, <3>1, Named DEF Complete
  <2>3. ParseFeature(item, title).features = <<f>>
    BY <1>2, <2>1 DEF ParseFeature, Parsed
  <2>4. PICK s : s = <<f>>
    OBVIOUS
  <2>5. s = [i \in 1..1 |-> s[i]] /\ s[1] = f
    BY <2>4
  <2>6. IsList(s) /\ DOMAIN s = 1..1
    BY <2>5, ListOf
  <2> QED
    BY <2>2, <2>3, <2>4, <2>5, <2>6 DEF CompleteList
<1> QED
  BY <1>1, <1>2

LEMMA LinesList ==
  ASSUME NEW rows, IsList(rows)
  PROVE  \E n \in Nat : DOMAIN CsvLines(rows) = 1..n
<1>1. PICK n \in Nat : DOMAIN rows = 1..n
  BY ListLength
<1>2. PICK S : S = {k \in DOMAIN rows : Trim(Line(rows[k])) # <<>>}
  OBVIOUS
<1>3. Cardinality(S) \in Nat /\ DOMAIN InOrder(S) = 1..Cardinality(S)
  <2>1. S \in SUBSET (1..n)
    BY <1>1, <1>2
  <2> QED
    BY <2>1, InOrderTaken
<1>4. DOMAIN CsvLines(rows) = DOMAIN InOrder(S)
  BY <1>2 DEF CsvLines
<1> QED
  BY <1>3, <1>4

LEMMA CsvComplete ==
  ASSUME NEW headers, NEW lines, NEW n \in Nat, DOMAIN lines = 1..n
  PROVE  CompleteList(ParseCsv(headers, lines).features)
<1>1. CASE Len(lines) = 0 \/ Column(headers, "lat") + Column(headers, "wkt") = 0
  <2>1. ParseCsv(headers, lines).features = <<>>
    BY <1>1 DEF ParseCsv, Parsed
  <2> QED
    BY <2>1, EmptyComplete
<1>2. CASE ~(Len(lines) = 0 \/ Column(headers, "lat") + Column(headers, "wkt") = 0)
  <2>1. PICK rows : rows = [i \in DOMAIN lines |-> ParseCsvRow(lines[i])]
    OBVIOUS
  <2>2. PICK S : S = {i \in DOMAIN rows : RowFate(headers, rows[i]) = "feature"}
    OBVIOUS
  <2>3. PICK good : good = InOrder(S)
    OBVIOUS
  <2>4. PICK m \in Nat : m = Cardinality(S) /\ DOMAIN good = 1..m
    <3>1. S \in SUBSET (1..n)
      BY <2>1, <2>2
    <3> QED
      BY <2>3, <3>1, InOrderTaken
  <2>5. PICK features :
          features = [k \in 1..m |->
            [type |-> "Point", properties |-> Properties(headers, rows[good[k]]),
             name |-> NameOf(Properties(headers, rows[good[k]]), <<"Point ", ToString(good[k])>>)]]
    OBVIOUS
  <2>6. ParseCsv(headers, lines).features = features
    BY <1>2, <2>1, <2>2, <2>3, <2>4, <2>5 DEF ParseCsv, Parsed
  <2>7. ASSUME NEW k \in 1..m PROVE Complete(features[k])
    <3>1. /\ features[k].type = "Point"
          /\ features[k].name =
               NameOf(Properties(headers, rows[good[k]]), <<"Point ", ToString(good[k])>>)
      BY <2>5
    <3>2. features[k].name # Null
      BY <3>1, PairsAreTexts, Named
    <3> QED
      BY <3>1, <3>2 DEF Complete
  <2>8. IsList(features) /\ DOMAIN features = 1..m
    BY <2>5, ListOf
  <2> QED
    BY <2>6, <2>7, <2>8 DEF CompleteList
<1> QED
  BY <1>1, <1>2

LEMMA ParsedComplete ==
  ASSUME NEW file, IsFile(file), file.format # "other"
  PROVE  CompleteList(Parse(file).features)
<1>1. CASE file.format = "csv"
  <2>1. PICK n \in Nat : DOMAIN CsvLines(file.rows) = 1..n
    BY <1>1, LinesList DEF IsFile, IsTable
  <2>2. CompleteList(ParseCsv(file.headers, CsvLines(file.rows)).features)
    BY <2>1, CsvComplete
  <2> QED
    BY <1>1, <2>2 DEF Parse
<1>2. CASE file.format = "geojson"
  <2>1. PICK title : title = <<"title">>
    OBVIOUS
  <2>2. title # Null
    <3>1. Len(title) = 1 /\ Len(<<>>) = 0
      BY <2>1
    <3> QED
      BY <3>1 DEF Null
  <2>3. Parse(file) = ParseGeoJson(file.root, file.items, title)
    BY <1>2, <2>1 DEF Parse
  <2>4. CASE file.root = "FeatureCollection"
    <3>1. Parse(file) = ParseCollection(file.items)
      BY <2>3, <2>4 DEF ParseGeoJson
    <3> QED
      BY <1>2, <3>1, CollectionComplete DEF IsFile
  <2>5. CASE file.root = "Feature"
    <3>1. Parse(file) = ParseFeature(file.items[1], title)
      BY <2>3, <2>5 DEF ParseGeoJson
    <3> QED
      BY <2>2, <3>1, FeatureComplete
  <2>6. CASE file.root # "FeatureCollection" /\ file.root # "Feature"
    <3>1. Parse(file) = Parsed(<<>>, <<0>>)
      BY <2>3, <2>6 DEF ParseGeoJson
    <3>2. Parse(file).features = <<>>
      BY <3>1 DEF Parsed
    <3> QED
      BY <3>2, EmptyComplete
  <2> QED
    BY <2>4, <2>5, <2>6
<1> QED
  BY <1>1, <1>2 DEF IsFile

------------------------------------------------------------------------------
(* What is complete stays so. *)

CallsComplete == \A c \in Callers : CompleteCall(c)
RowsComplete == \A i \in DOMAIN row : Complete(row[i])
DownloadsComplete == \A d \in download : CompleteDownload(d)

LEMMA OthersComplete ==
  ASSUME CallsComplete, NEW c \in Callers, \A d \in Callers \ {c} : call'[d] = call[d],
         CompleteCall(c)'
  PROVE  CallsComplete'
<1>1. ASSUME NEW d \in Callers \ {c} PROVE CompleteCall(d)'
  BY <1>1 DEF CallsComplete, CompleteCall, At, InTransaction, Features
<1> QED
  BY <1>1 DEF CallsComplete

LEMMA DoneComplete ==
  ASSUME ImportInv, CallsComplete, NEW c \in Callers, Done(c)
  PROVE  CallsComplete'
<1>1. call'[c].pc = "idle" /\ \A d \in Callers \ {c} : call'[d] = call[d]
  BY DEF ImportInv, CallsOK, Done, NoCall
<1>2. CompleteCall(c)'
  BY <1>1 DEF CompleteCall, At, InTransaction, Stages
<1> QED
  BY <1>1, <1>2, OthersComplete

LEMMA GotoComplete ==
  ASSUME ImportInv, CallsComplete, NEW c \in Callers, InTransaction(c), NEW pc \in Stages, Goto(c, pc)
  PROVE  CallsComplete'
<1>1. call'[c] = [call[c] EXCEPT !.pc = pc] /\ \A d \in Callers \ {c} : call'[d] = call[d]
  BY DEF ImportInv, CallsOK, Goto
<1>2. PICK n, result, own :
        call[c] = [pc |-> call[c].pc, import |-> n, result |-> result, own |-> own]
  BY Held DEF ImportInv
<1>3. call'[c].pc = pc /\ call'[c].result = call[c].result /\ call'[c].own = call[c].own
  BY <1>1, <1>2
<1>4. CompleteCall(c)'
  BY <1>3 DEF CallsComplete, CompleteCall, At, InTransaction, Features, Stages
<1> QED
  BY <1>1, <1>4, OthersComplete

LEMMA UploadComplete ==
  ASSUME ImportInv, ExportInv, NEW c \in Callers, NEW file \in Files \cup {d.file : d \in download},
         Upload(c, file)
  PROVE  ExportInv'
<1>1. IsFile(file)
  <2>1. CASE file \in Files
    BY <2>1, ImportAssumption
  <2>2. CASE file \in {d.file : d \in download}
    <3>1. PICK d \in download : file = d.file
      BY <2>2
    <3>2. PICK rows : rows = d.rows /\ IsList(rows)
      BY DEF ExportInv, CompleteDownload, CompleteList
    <3>3. PICK n \in Nat : DOMAIN rows = 1..n
      BY <3>2, ListLength
    <3>4. PICK items : items = [k \in DOMAIN rows |-> ExportedItem(rows[k])]
      OBVIOUS
    <3>5. IsList(items)
      BY <3>3, <3>4, ListOf
    <3>6. file = GeoJson("FeatureCollection", items)
      BY <3>1, <3>2, <3>4 DEF ExportInv, CompleteDownload
    <3> QED
      BY <3>5, <3>6 DEF GeoJson, IsFile
  <2> QED
    BY <2>1, <2>2
<1>2. /\ call'[c] = [pc |-> "uploaded", import |-> uploads + 1, file |-> file]
      /\ \A d \in Callers \ {c} : call'[d] = call[d]
  BY DEF ImportInv, CallsOK, Upload
<1>3. call'[c].pc = "uploaded" /\ call'[c].file = file
  BY <1>2
<1>4. CompleteCall(c)'
  BY <1>1, <1>3 DEF CompleteCall, At, InTransaction, Stages
<1>5. CallsComplete'
  BY <1>2, <1>4, OthersComplete DEF ExportInv, CallsComplete
<1> QED
  BY <1>5 DEF ExportInv, CallsComplete, Upload

LEMMA ReadsComplete ==
  ASSUME ImportInv, ExportInv, NEW c \in Callers, ImportReads(c)
  PROVE  ExportInv'
<1>1. UNCHANGED <<row, download>> /\ CallsComplete /\ At(c, "uploaded")
  BY DEF ImportReads, ExportInv, CallsComplete
<1>2. CASE Done(c)
  <2>1. CallsComplete'
    BY <1>1, <1>2, DoneComplete
  <2> QED
    BY <1>1, <2>1 DEF ExportInv, CallsComplete
<1>3. CASE /\ call[c].file.format # "other"
           /\ call' = [call EXCEPT ![c] =
                [pc |-> "inserting", import |-> @.import, result |-> Parse(call[c].file), own |-> <<>>]]
  <2>1. PICK n, result : n = call[c].import /\ result = Parse(call[c].file)
    OBVIOUS
  <2>2. /\ call'[c] = [pc |-> "inserting", import |-> n, result |-> result, own |-> <<>>]
        /\ \A d \in Callers \ {c} : call'[d] = call[d]
    BY <1>3, <2>1 DEF ImportInv, CallsOK
  <2>3. call'[c].pc = "inserting" /\ call'[c].result = result /\ call'[c].own = <<>>
    BY <2>2
  <2>4. CompleteList(result.features)
    BY <1>1, <1>3, <2>1, ParsedComplete DEF CallsComplete, CompleteCall
  <2>5. DOMAIN call'[c].own = {}
    BY <2>3, EmptySeq
  <2>6. CompleteCall(c)'
    BY <2>3, <2>4, <2>5 DEF CompleteCall, At, Features
  <2>7. CallsComplete'
    BY <1>1, <2>2, <2>6, OthersComplete
  <2> QED
    BY <1>1, <2>7 DEF ExportInv, CallsComplete
<1> QED
  BY <1>2, <1>3 DEF ImportReads

LEMMA InsertComplete ==
  ASSUME ImportInv, ExportInv, NEW c \in Callers, InsertFeature(c)
  PROVE  ExportInv'
<1>1. UNCHANGED <<row, download>> /\ CallsComplete /\ At(c, "inserting") /\ InTransaction(c)
  BY DEF InsertFeature, ExportInv, CallsComplete, InTransaction, At, Stages
<1>2. PICK n, result, own :
        /\ call[c] = [pc |-> "inserting", import |-> n, result |-> result, own |-> own]
        /\ RowsBy(own, {n})
  BY <1>1 DEF ImportInv, CallsOK, CallOK, At
<1>3. /\ result = call[c].result /\ own = call[c].own
      /\ CompleteList(result.features) /\ \A k \in DOMAIN own : Complete(own[k])
  <2>1. result = call[c].result /\ own = call[c].own
    BY <1>2
  <2> QED
    BY <1>1, <2>1 DEF CallsComplete, CompleteCall, Features
<1>4. PICK f : f = result.features[Len(own) + 1]
  OBVIOUS
<1>5. Complete(f)
  <2>1. Len(own) \in Nat /\ Len(own) < Len(result.features)
    BY <1>2, <1>3, RowsLength DEF InsertFeature, Features
  <2>2. Len(result.features) \in Nat /\ DOMAIN result.features = 1..Len(result.features)
    BY <1>3, ListLength DEF CompleteList
  <2>3. Len(own) + 1 \in DOMAIN result.features
    BY <2>1, <2>2
  <2> QED
    BY <1>3, <1>4, <2>3 DEF CompleteList
<1>6. PICK r : r = StoredFeature(c, f)
  OBVIOUS
<1>7. Complete(r) /\ IsRow(r) /\ r.import = n
  <2>1. r.name = f.name /\ r.type = f.type
    BY <1>6 DEF StoredFeature
  <2>2. IsRow(r) /\ r.import = n
    BY <1>2, <1>6 DEF StoredFeature, IsRow
  <2> QED
    BY <1>5, <2>1, <2>2 DEF Complete
<1>8. PICK more : more = Append(own, r)
  OBVIOUS
<1>9. \A k \in DOMAIN more : Complete(more[k])
  <2>1. \A k \in DOMAIN more : more[k] = r \/ \E i \in DOMAIN own : more[k] = own[i]
    BY <1>2, <1>7, <1>8, RowsAppend
  <2> QED
    BY <1>3, <1>7, <2>1
<1>10. call' = [call EXCEPT ![c].own = more]
  BY <1>3, <1>4, <1>6, <1>8 DEF InsertFeature, NextFeature, Features
<1>11. /\ call'[c] = [call[c] EXCEPT !.own = more]
       /\ \A d \in Callers \ {c} : call'[d] = call[d]
  BY <1>10 DEF ImportInv, CallsOK
<1>12. call'[c].pc = "inserting" /\ call'[c].result = result /\ call'[c].own = more
  BY <1>2, <1>11
<1>13. CompleteCall(c)'
  BY <1>3, <1>9, <1>12 DEF CompleteCall, At, Features
<1>14. CallsComplete'
  BY <1>1, <1>11, <1>13, OthersComplete
<1> QED
  BY <1>1, <1>14 DEF ExportInv, CallsComplete

LEMMA StoredComplete ==
  ASSUME ImportInv, ExportInv, NEW c \in Callers, At(c, "committing"), Stored(c), Done(c),
         UNCHANGED download
  PROVE  ExportInv'
<1>1. CallsComplete'
  BY DoneComplete DEF ExportInv, CallsComplete
<1>2. PICK own, n : own = call[c].own /\ RowsBy(own, {n}) /\ RowsBy(row, Finished)
                    /\ \A k \in DOMAIN own : Complete(own[k])
  <2>1. InTransaction(c)
    BY DEF InTransaction, Stages, At
  <2>2. CallsOK /\ RowsBy(row, Finished) /\ CompleteCall(c)
    BY DEF ImportInv, RowsOK, ExportInv
  <2>3. RowsBy(call[c].own, {call[c].import})
    BY <2>1, <2>2, Held
  <2> QED
    BY <2>1, <2>2, <2>3 DEF CompleteCall
<1>3. PICK N : N = Finished \cup {n}
  OBVIOUS
<1>4. RowsBy(own, N) /\ RowsBy(row, N)
  <2>1. \A k \in DOMAIN own : own[k].import \in N
    BY <1>2, <1>3 DEF RowsBy
  <2>2. \A k \in DOMAIN row : row[k].import \in N
    BY <1>2, <1>3 DEF RowsBy
  <2> QED
    BY <1>2, <2>1, <2>2, RowsWiden
<1>5. row' = row \o own
  BY <1>2 DEF Stored
<1>6. /\ Len(row') = Len(row) + Len(own) /\ RowsBy(row', N)
      /\ \A i \in 1..Len(row) : row'[i] = row[i]
      /\ \A i \in Len(row) + 1..Len(row) + Len(own) : \E k \in DOMAIN own : row'[i] = own[k]
  BY <1>4, <1>5, RowsConcat
<1>7. /\ DOMAIN row' = 1..Len(row) + Len(own) /\ DOMAIN row = 1..Len(row)
      /\ Len(row) \in Nat /\ Len(own) \in Nat
  BY <1>4, <1>6, RowsLength
<1>8. RowsComplete'
  <2>1. ASSUME NEW i \in DOMAIN row' PROVE Complete(row'[i])
    <3>1. CASE i \in 1..Len(row)
      BY <1>6, <1>7, <3>1 DEF ExportInv
    <3>2. CASE i \in Len(row) + 1..Len(row) + Len(own)
      BY <1>2, <1>6, <3>2
    <3> QED
      BY <1>7, <3>1, <3>2
  <2> QED
    BY <2>1 DEF RowsComplete, Complete
<1> QED
  BY <1>1, <1>8 DEF ExportInv, CallsComplete, RowsComplete, CompleteDownload

LEMMA SelectsComplete ==
  ASSUME ImportInv, ExportInv, NEW c \in Callers, ExportSelects(c)
  PROVE  ExportInv'
<1>1. CallsComplete' /\ UNCHANGED row
  BY DoneComplete DEF ExportInv, CallsComplete, ExportSelects
<1>2. PICK n \in Nat : DOMAIN row = 1..n
  BY RowsLength DEF ImportInv, RowsOK
<1>3. PICK S : S = {i \in DOMAIN row : Exportable(row[i])}
  OBVIOUS
<1>4. PICK kept : kept = InOrder(S)
  OBVIOUS
<1>5. PICK m \in Nat : DOMAIN kept = 1..m /\ \A k \in 1..m : kept[k] \in S
  <2>1. S \in SUBSET (1..n)
    BY <1>2, <1>3
  <2> QED
    BY <1>4, <2>1, InOrderTaken
<1>6. PICK rows : rows = [k \in 1..m |-> row[kept[k]]]
  OBVIOUS
<1>7. CompleteList(rows)
  <2>1. IsList(rows) /\ DOMAIN rows = 1..m
    BY <1>6, ListOf
  <2>2. \A k \in 1..m : Complete(rows[k])
    BY <1>3, <1>5, <1>6 DEF ExportInv
  <2> QED
    BY <2>1, <2>2 DEF CompleteList
<1>8. PICK d : d = [file |-> GeoJson("FeatureCollection", [k \in DOMAIN rows |-> ExportedItem(rows[k])]),
                    rows |-> rows]
  OBVIOUS
<1>9. download' = download \cup {d}
  BY <1>3, <1>4, <1>5, <1>6, <1>8 DEF ExportSelects
<1>10. CompleteDownload(d)
  <2>1. d.rows = rows
        /\ d.file = GeoJson("FeatureCollection", [k \in DOMAIN rows |-> ExportedItem(rows[k])])
    BY <1>8
  <2> QED
    BY <1>7, <2>1 DEF CompleteDownload
<1> QED
  BY <1>1, <1>9, <1>10 DEF ExportInv, CallsComplete, CompleteDownload

LEMMA RowComplete ==
  ASSUME NEW r, IsRow(r), Complete(r)
  PROVE  /\ \A v : v # Null => Complete([r EXCEPT !.name = v])
         /\ \A v : Complete([r EXCEPT !.deleted = v])
         /\ \A v : Complete([r EXCEPT !.filed = v])
<1>1. PICK n, filed, deleted, type, name, properties :
        r = [import |-> n, filed |-> filed, deleted |-> deleted,
             type |-> type, name |-> name, properties |-> properties]
  BY DEF IsRow
<1>2. name # Null /\ type # "none"
  BY <1>1 DEF Complete
<1>3. ASSUME NEW v, v # Null, NEW q, q = [r EXCEPT !.name = v] PROVE Complete(q)
  BY <1>1, <1>2, <1>3 DEF Complete
<1>4. ASSUME NEW v, NEW q, q = [r EXCEPT !.deleted = v] PROVE Complete(q)
  BY <1>1, <1>2, <1>4 DEF Complete
<1>5. ASSUME NEW v, NEW q, q = [r EXCEPT !.filed = v] PROVE Complete(q)
  BY <1>1, <1>2, <1>5 DEF Complete
<1> QED
  BY <1>3, <1>4, <1>5

LEMMA ChangeComplete ==
  ASSUME ImportInv, ExportInv,
         UnfileFeatures \/ DeleteFolder \/ \E i \in DOMAIN row : RenameFeature(i) \/ DeleteFeature(i)
  PROVE  ExportInv'
<1>1. UNCHANGED <<call, download>>
  BY DEF UnfileFeatures, DeleteFolder, RenameFeature, DeleteFeature
<1>2. \A i \in DOMAIN row : IsRow(row[i]) /\ Complete(row[i])
  BY DEF ImportInv, RowsOK, RowsBy, ExportInv
<1>3. RowsComplete'
  <2>1. CASE UnfileFeatures \/ DeleteFolder
    <3>1. row' = [i \in DOMAIN row |-> [row[i] EXCEPT !.filed = FALSE]]
      BY <2>1 DEF UnfileFeatures, DeleteFolder
    <3>2. \A i \in DOMAIN row' : Complete(row'[i])
      BY <1>2, <3>1, RowComplete
    <3> QED
      BY <3>2 DEF RowsComplete, Complete
  <2>2. ASSUME NEW i \in DOMAIN row, RenameFeature(i) PROVE RowsComplete'
    <3>1. row' = [row EXCEPT ![i] = [row[i] EXCEPT !.name = NewName]]
      BY <2>2 DEF RenameFeature
    <3>2. Complete([row[i] EXCEPT !.name = NewName])
      BY <1>2, RowComplete, ImportAssumption
    <3>3. \A k \in DOMAIN row' : Complete(row'[k])
      BY <1>2, <3>1, <3>2
    <3> QED
      BY <3>3 DEF RowsComplete, Complete
  <2>3. ASSUME NEW i \in DOMAIN row, DeleteFeature(i) PROVE RowsComplete'
    <3>1. row' = [row EXCEPT ![i] = [row[i] EXCEPT !.deleted = TRUE]]
      BY <2>3 DEF DeleteFeature
    <3>2. Complete([row[i] EXCEPT !.deleted = TRUE])
      BY <1>2, RowComplete
    <3>3. \A k \in DOMAIN row' : Complete(row'[k])
      BY <1>2, <3>1, <3>2
    <3> QED
      BY <3>3 DEF RowsComplete, Complete
  <2> QED
    BY <2>1, <2>2, <2>3
<1>4. CallsComplete'
  BY <1>1 DEF ExportInv, CallsComplete, CompleteCall, At, InTransaction, Features
<1> QED
  BY <1>1, <1>3, <1>4 DEF ExportInv, CallsComplete, RowsComplete, CompleteDownload

(* A call that ends or goes on in the transaction, and stores nothing yet. *)
LEMMA CallComplete ==
  ASSUME ImportInv, ExportInv, UNCHANGED <<row, download>>, CallsComplete'
  PROVE  ExportInv'
BY DEF ExportInv, CallsComplete, CompleteDownload

LEMMA ExportStep == ImportInv /\ ExportInv /\ [Next]_vars => ExportInv'
<1> SUFFICES ASSUME ImportInv, ExportInv, [Next]_vars PROVE ExportInv'
  OBVIOUS
<1>0. CallsComplete
  BY DEF ExportInv, CallsComplete
<1>1. ASSUME NEW c \in Callers, NEW file \in Files \cup {d.file : d \in download}, Upload(c, file)
      PROVE  ExportInv'
  BY <1>1, UploadComplete
<1>2. ASSUME NEW c \in Callers, ImportReads(c) PROVE ExportInv'
  BY <1>2, ReadsComplete
<1>3. ASSUME NEW c \in Callers, InsertFeature(c) PROVE ExportInv'
  BY <1>3, InsertComplete
<1>4. ASSUME NEW c \in Callers, CountFeatures(c) PROVE ExportInv'
  <2>1. InTransaction(c) /\ Goto(c, "recording") /\ "recording" \in Stages /\ UNCHANGED <<row, download>>
    BY <1>4 DEF CountFeatures, InTransaction, Stages, At
  <2>2. CallsComplete'
    BY <1>0, <2>1, GotoComplete
  <2> QED
    BY <2>1, <2>2, CallComplete
<1>5. ASSUME NEW c \in Callers, RecordJob(c) PROVE ExportInv'
  <2>1. InTransaction(c) /\ Goto(c, "committing") /\ "committing" \in Stages /\ UNCHANGED <<row, download>>
    BY <1>5 DEF RecordJob, InTransaction, Stages, At
  <2>2. CallsComplete'
    BY <1>0, <2>1, GotoComplete
  <2> QED
    BY <2>1, <2>2, CallComplete
<1>6. ASSUME NEW c \in Callers, Commit(c) \/ AcknowledgementLost(c) PROVE ExportInv'
  BY <1>6, StoredComplete DEF Commit, AcknowledgementLost
<1>7. ASSUME NEW c \in Callers, ImportFails(c) \/ Dies(c) PROVE ExportInv'
  <2>1. Done(c) /\ UNCHANGED <<row, download>>
    BY <1>7 DEF ImportFails, Dies
  <2>2. CallsComplete'
    BY <1>0, <2>1, DoneComplete
  <2> QED
    BY <2>1, <2>2, CallComplete
<1>8. ASSUME NEW c \in Callers, ExportReads(c) PROVE ExportInv'
  <2>1. UNCHANGED <<row, download>>
    BY <1>8 DEF ExportReads
  <2>2. call'[c] = [pc |-> "exporting"] /\ \A d \in Callers \ {c} : call'[d] = call[d]
    BY <1>8 DEF ExportReads, ImportInv, CallsOK
  <2>3. CompleteCall(c)'
    BY <2>2 DEF CompleteCall, At, InTransaction, Stages
  <2>4. CallsComplete'
    BY <1>0, <2>2, <2>3, OthersComplete
  <2> QED
    BY <2>1, <2>4, CallComplete
<1>9. ASSUME NEW c \in Callers, ExportSelects(c) PROVE ExportInv'
  BY <1>9, SelectsComplete
<1>10. CASE UnfileFeatures \/ DeleteFolder \/ \E i \in DOMAIN row : RenameFeature(i) \/ DeleteFeature(i)
  BY <1>10, ChangeComplete
<1>11. CASE UNCHANGED vars
  <2>1. UNCHANGED <<call, row, download>>
    BY <1>11 DEF vars
  <2>2. CallsComplete'
    BY <1>0, <2>1 DEF CallsComplete, CompleteCall, At, InTransaction, Features
  <2> QED
    BY <2>1, <2>2, CallComplete
<1> QED
  BY <1>1, <1>2, <1>3, <1>4, <1>5, <1>6, <1>7, <1>8, <1>9, <1>10, <1>11 DEF Next

(* Of features that all have a geometry none is left out. *)
LEMMA AllImported ==
  ASSUME NEW items, NEW n \in Nat, DOMAIN items = 1..n,
         \A k \in 1..n : items[k].type = "Feature" /\ items[k].geometry # "none"
  PROVE  /\ ParseCollection(items).errors = <<>>
         /\ Len(ParseCollection(items).features) = n
         /\ \A k \in 1..n : \E generated :
              ParseCollection(items).features[k] = ImportedItem(items[k], generated)
<1>1. PICK valid :
        valid = {i \in DOMAIN items : items[i].type = "Feature" /\ items[i].geometry # "none"}
  OBVIOUS
<1>2. valid = 1..n /\ DOMAIN items \ valid = {}
  BY <1>1
<1>3. PICK good : good = InOrder(valid)
  OBVIOUS
<1>4. DOMAIN good = 1..n /\ \A k \in 1..n : good[k] = k
  BY <1>2, <1>3, InOrderAll
<1>5. PICK features :
        features = [k \in 1..n |->
                      ImportedItem(items[good[k]], <<"Imported ", ToString(good[k])>>)]
  OBVIOUS
<1>6. ParseCollection(items).features = features
  BY <1>1, <1>3, <1>4, <1>5 DEF ParseCollection, Parsed
<1>7. ParseCollection(items).errors = InOrder(DOMAIN items \ valid)
  BY <1>1 DEF ParseCollection, Parsed
<1>8. Len(features) = n
  <2>1. DOMAIN features = 1..n /\ IsList(features)
    BY <1>5, ListOf
  <2>2. Len(features) \in Nat /\ 1..Len(features) = 1..n
    BY <2>1, ListLength
  <2> QED
    BY <2>2
<1>9. ASSUME NEW k \in 1..n PROVE \E generated : features[k] = ImportedItem(items[k], generated)
  <2>1. PICK generated : generated = <<"Imported ", ToString(good[k])>>
    OBVIOUS
  <2>2. features[k] = ImportedItem(items[good[k]], generated)
    BY <1>5, <2>1
  <2> QED
    BY <1>4, <2>2
<1> QED
  BY <1>2, <1>6, <1>7, <1>8, <1>9, InOrderNone

(* parse of the document that execute made of these rows. *)
LEMMA ParsesBack ==
  ASSUME NEW rows, CompleteList(rows),
         NEW items, items = [k \in DOMAIN rows |-> ExportedItem(rows[k])]
  PROVE  LET result == Parse(GeoJson("FeatureCollection", items))
         IN /\ result.errors = <<>>
            /\ Len(result.features) = Len(rows)
            /\ \A k \in DOMAIN rows :
                 /\ result.features[k].name = rows[k].name
                 /\ result.features[k].type = rows[k].type
<1>1. PICK n \in Nat : n = Len(rows) /\ DOMAIN rows = 1..n
  BY ListLength DEF CompleteList
<1>2. ASSUME NEW k \in 1..n
      PROVE  /\ items[k].type = "Feature" /\ items[k].geometry = rows[k].type
             /\ rows[k].type # "none" /\ rows[k].name # Null
             /\ "name" \in DOMAIN items[k].properties
             /\ items[k].properties.name = rows[k].name
  <2>1. PICK row1 : row1 = rows[k] /\ Complete(row1)
    BY <1>1 DEF CompleteList
  <2>2. PICK properties : properties = ExportedProperties(row1)
    OBVIOUS
  <2>3. "name" \in DOMAIN properties /\ properties["name"] = row1.name
    BY <2>2 DEF ExportedProperties
  <2>4. items[k] = Item("Feature", row1.type, properties)
    BY <1>1, <2>1, <2>2 DEF ExportedItem
  <2> QED
    BY <2>1, <2>3, <2>4 DEF Item, Complete
<1>3. PICK result : result = Parse(GeoJson("FeatureCollection", items))
  OBVIOUS
<1>4. result = ParseCollection(items)
  BY <1>3 DEF Parse, GeoJson, ParseGeoJson
<1>5. /\ result.errors = <<>> /\ Len(result.features) = n
      /\ \A k \in 1..n : \E generated : result.features[k] = ImportedItem(items[k], generated)
  <2>1. DOMAIN items = 1..n
    BY <1>1
  <2>2. \A k \in 1..n : items[k].type = "Feature" /\ items[k].geometry # "none"
    BY <1>2
  <2> QED
    BY <1>4, <2>1, <2>2, AllImported
<1>6. ASSUME NEW k \in 1..n
      PROVE  result.features[k].name = rows[k].name /\ result.features[k].type = rows[k].type
  <2>1. PICK item, generated : item = items[k] /\ result.features[k] = ImportedItem(item, generated)
    BY <1>5
  <2>2. /\ result.features[k].type = item.geometry
        /\ result.features[k].name = NameOf(item.properties, generated)
    BY <2>1 DEF ImportedItem
  <2> QED
    BY <1>2, <2>1, <2>2 DEF NameOf
<1> QED
  BY <1>1, <1>3, <1>5, <1>6

(* What is uploaded is a file, and whatever is stored or exported is complete. *)
LEMMA ExportInvariant == Spec => []ExportInv
<1>1. Init => ExportInv
  <2> SUFFICES ASSUME Init PROVE ExportInv
    OBVIOUS
  <2>1. \A c \in Callers : call[c].pc = "idle"
    BY DEF Init, NoCall
  <2>2. DOMAIN row = {} /\ download = {}
    BY EmptySeq DEF Init
  <2> QED
    BY <2>1, <2>2 DEF ExportInv, CompleteCall, At, InTransaction, Stages
<1> QED
  BY <1>1, ExportStep, ImportInvariant, PTL DEF Spec

(* An exported document parses without an error into the names and types of   *)
(* the rows that were exported, whatever was imported, renamed and deleted     *)
(* before: no feature comes into the table without a name or a geometry, and   *)
(* the export writes both.                                                     *)
THEOREM ExportsParseBack == Spec => []ExportParsesBack
<1>1. ExportInv => ExportParsesBack
  <2> SUFFICES ASSUME ExportInv, NEW d \in download
               PROVE  LET result == Parse(d.file)
                      IN /\ result.errors = <<>>
                         /\ Len(result.features) = Len(d.rows)
                         /\ \A k \in DOMAIN d.rows :
                              /\ result.features[k].name = d.rows[k].name
                              /\ result.features[k].type = d.rows[k].type
    BY DEF ExportParsesBack
  <2>1. PICK rows, items :
          /\ rows = d.rows /\ CompleteList(rows)
          /\ items = [k \in DOMAIN rows |-> ExportedItem(rows[k])]
          /\ d.file = GeoJson("FeatureCollection", items)
    BY DEF ExportInv, CompleteDownload
  <2> QED
    BY <2>1, ParsesBack
<1> QED
  BY <1>1, ExportInvariant, PTL

------------------------------------------------------------------------------
(***************************************************************************)
(* A line of a CSV file reads back as the cells it was written from.       *)
(***************************************************************************)

(* Induction over the numbers up to n, with a set for the predicate. *)
LEMMA UpTo ==
  ASSUME NEW n \in Nat, NEW S, 0 \in S, \A k \in 1..n : k - 1 \in S => k \in S
  PROVE  \A k \in 0..n : k \in S
<1> SUFFICES ASSUME NEW j \in 0..n, j \notin S PROVE FALSE
  OBVIOUS
<1>1. PICK T : T = {k \in 0..n : k \notin S}
  OBVIOUS
<1>2. T \in SUBSET Nat /\ T # {}
  BY <1>1
<1>3. PICK k \in T : \A m \in T : k <= m
  BY <1>2, Least
<1>4. k \in 1..n /\ k - 1 \in 0..n /\ k - 1 \notin T
  BY <1>1, <1>3
<1> QED
  BY <1>1, <1>3, <1>4

LEMMA FlattenSteps ==
  ASSUME NEW C, NEW seqs \in Seq(Seq(C)), Len(seqs) > 0
  PROVE  \E f : /\ f[1] = seqs[1]
                /\ \A k \in 1..Len(seqs) : k # 1 => f[k] = f[k - 1] \o seqs[k]
                /\ FlattenSeq(seqs) = f[Len(seqs)]
<1> DEFINE Grows(f, m) ==
      f = [i \in 1..m |-> IF i = 1 THEN seqs[i] ELSE f[i - 1] \o seqs[i]]
<1>0. PICK n \in Nat : n = Len(seqs) /\ n > 0
  BY LenProperties
<1>1. PICK S : S = {m \in 0..n : \E f : Grows(f, m)}
  OBVIOUS
<1>2. 0 \in S
  <2>1. PICK f : f = [i \in 1..0 |-> seqs[i]]
    OBVIOUS
  <2>2. Grows(f, 0)
    BY <2>1
  <2> HIDE DEF Grows
  <2> QED
    BY <1>1, <2>2
<1>3. ASSUME NEW k \in 1..n, k - 1 \in S PROVE k \in S
  <2>1. PICK f : Grows(f, k - 1)
    BY <1>1, <1>3
  <2>2. PICK g : g = [i \in 1..k |-> IF i = k THEN IF k = 1 THEN seqs[k] ELSE f[k - 1] \o seqs[k] ELSE f[i]]
    OBVIOUS
  <2>3. ASSUME NEW i \in 1..k PROVE g[i] = IF i = 1 THEN seqs[i] ELSE g[i - 1] \o seqs[i]
    <3>1. CASE i = k
      <4>1. k # 1 => k - 1 \in 1..k /\ k - 1 # k
        OBVIOUS
      <4>2. k # 1 => g[k - 1] = f[k - 1]
        BY <2>2, <4>1
      <4> QED
        BY <2>2, <3>1, <4>2
    <3>2. CASE i # k
      <4>1. i \in 1..k - 1
        BY <3>2
      <4>2. f[i] = IF i = 1 THEN seqs[i] ELSE f[i - 1] \o seqs[i]
        BY <2>1, <4>1
      <4>3. g[i] = f[i]
        BY <2>2, <3>2
      <4>4. i # 1 => i - 1 \in 1..k /\ i - 1 # k
        BY <4>1
      <4>5. i # 1 => g[i - 1] = f[i - 1]
        BY <2>2, <4>4
      <4> QED
        BY <4>2, <4>3, <4>5
    <3> QED
      BY <3>1, <3>2
  <2>4. g = [i \in 1..k |-> g[i]]
    BY <2>2
  <2>5. Grows(g, k)
    BY <2>3, <2>4, Zenon
  <2> HIDE DEF Grows
  <2>6. k \in 0..n
    OBVIOUS
  <2> QED
    BY <1>1, <2>5, <2>6
<1>4. n \in S
  <2>1. \A k \in 1..n : k - 1 \in S => k \in S
    BY <1>3
  <2>2. \A k \in 0..n : k \in S
    BY <1>2, <2>1, UpTo, Zenon
  <2> QED
    BY <2>2
<1>5. PICK f : f = CHOOSE g : Grows(g, Len(seqs))
  OBVIOUS
<1>6. Grows(f, Len(seqs))
  BY <1>0, <1>1, <1>4, <1>5
<1>7. FlattenSeq(seqs) = f[Len(seqs)]
  BY <1>0, <1>5 DEF FlattenSeq
<1>8. f[1] = seqs[1]
  BY <1>0, <1>6
<1>9. \A k \in 1..Len(seqs) : k # 1 => f[k] = f[k - 1] \o seqs[k]
  BY <1>6
<1> QED
  BY <1>7, <1>8, <1>9

(* Each of the pieces of a text begins after at[k - 1] characters. *)
Layout(at, pieces, text) ==
  /\ at \in [0..Len(pieces) -> Nat] /\ at[0] = 0 /\ at[Len(pieces)] = Len(text)
  /\ \A k \in 1..Len(pieces) :
       /\ at[k] = at[k - 1] + Len(pieces[k]) /\ at[k] <= Len(text)
       /\ \A i \in 1..Len(pieces[k]) : text[at[k - 1] + i] = pieces[k][i]

LEMMA FlattenLayout ==
  ASSUME NEW C, NEW seqs \in Seq(Seq(C))
  PROVE  FlattenSeq(seqs) \in Seq(C) /\ \E at : Layout(at, seqs, FlattenSeq(seqs))
<1>0. PICK n \in Nat : n = Len(seqs)
  BY LenProperties
<1>1. CASE n = 0
  <2>1. FlattenSeq(seqs) = seqs
    BY <1>0, <1>1 DEF FlattenSeq
  <2>2. seqs = <<>>
    BY <1>0, <1>1, EmptySeq
  <2>3. FlattenSeq(seqs) \in Seq(C) /\ Len(FlattenSeq(seqs)) = 0
    BY <2>1, <2>2, EmptySeq
  <2>4. PICK at : at = [k \in 0..n |-> 0]
    OBVIOUS
  <2>5. at \in [0..Len(seqs) -> Nat] /\ at[0] = 0 /\ at[Len(seqs)] = Len(FlattenSeq(seqs))
    BY <1>0, <1>1, <2>3, <2>4
  <2>6. \A k \in 1..Len(seqs) : FALSE
    BY <1>0, <1>1
  <2>7. \A k \in 1..Len(seqs) :
          /\ at[k] = at[k - 1] + Len(seqs[k]) /\ at[k] <= Len(FlattenSeq(seqs))
          /\ \A i \in 1..Len(seqs[k]) : FlattenSeq(seqs)[at[k - 1] + i] = seqs[k][i]
    BY <2>6
  <2>8. Layout(at, seqs, FlattenSeq(seqs))
    BY <2>5, <2>7 DEF Layout
  <2> QED
    BY <2>3, <2>8
<1>2. CASE n > 0
  <2>1. PICK f : /\ f[1] = seqs[1]
                 /\ \A k \in 1..n : k # 1 => f[k] = f[k - 1] \o seqs[k]
                 /\ FlattenSeq(seqs) = f[n]
    BY <1>0, <1>2, FlattenSteps
  <2>2. \A k \in 1..n : seqs[k] \in Seq(C) /\ Len(seqs[k]) \in Nat
    BY <1>0, ElementOfSeq, LenProperties
  <2>3. \A k \in 1..n : f[k] \in Seq(C)
    <3>1. PICK S : S = {k \in 0..n : k = 0 \/ f[k] \in Seq(C)}
      OBVIOUS
    <3>2. ASSUME NEW k \in 1..n, k - 1 \in S PROVE k \in S
      <4>1. CASE k = 1
        BY <2>1, <2>2, <3>1, <4>1
      <4>2. CASE k # 1
        <5>1. f[k] = f[k - 1] \o seqs[k] /\ seqs[k] \in Seq(C)
          BY <2>1, <2>2, <4>2
        <5>2. f[k - 1] \in Seq(C)
          BY <3>1, <3>2, <4>2
        <5>3. f[k] \in Seq(C)
          BY <5>1, <5>2, ConcatProperties
        <5> QED
          BY <3>1, <5>3
      <4> QED
        BY <4>1, <4>2
    <3>3. 0 \in S
      BY <3>1
    <3>4. \A k \in 0..n : k \in S
      BY <3>2, <3>3, UpTo, Zenon
    <3> QED
      BY <3>1, <3>4
  <2>4. PICK at : at = [k \in 0..n |-> IF k = 0 THEN 0 ELSE Len(f[k])]
    OBVIOUS
  <2>5. at \in [0..n -> Nat] /\ at[0] = 0 /\ at[n] = Len(FlattenSeq(seqs))
    BY <1>0, <1>2, <2>1, <2>3, <2>4, LenProperties
  <2>6. \A k \in 1..n : at[k] = at[k - 1] + Len(seqs[k])
    <3> SUFFICES ASSUME NEW k \in 1..n PROVE at[k] = at[k - 1] + Len(seqs[k])
      OBVIOUS
    <3>1. CASE k = 1
      BY <2>1, <2>2, <2>4, <3>1
    <3>2. CASE k # 1
      <4>1. k - 1 \in 1..n /\ k \in 0..n /\ k - 1 \in 0..n /\ k # 0 /\ k - 1 # 0
        BY <3>2
      <4>2. f[k] = f[k - 1] \o seqs[k]
        BY <2>1, <3>2
      <4>3. at[k] = Len(f[k]) /\ at[k - 1] = Len(f[k - 1])
        BY <2>4, <4>1
      <4>4. Len(f[k]) = Len(f[k - 1]) + Len(seqs[k])
        BY <2>2, <2>3, <4>1, <4>2, ConcatProperties
      <4> QED
        BY <4>3, <4>4
    <3> QED
      BY <3>1, <3>2
  <2>7. \A m \in 1..n : \A k \in 1..m : \A i \in 1..Len(seqs[k]) :
          at[k - 1] + i \in 1..at[m] /\ f[m][at[k - 1] + i] = seqs[k][i]
    <3>1. PICK S : S = {m \in 0..n : \A k \in 1..m : \A i \in 1..Len(seqs[k]) :
                          at[k - 1] + i \in 1..at[m] /\ f[m][at[k - 1] + i] = seqs[k][i]}
      OBVIOUS
    <3>2. ASSUME NEW m \in 1..n, m - 1 \in S PROVE m \in S
      <4> SUFFICES ASSUME NEW k \in 1..m, NEW i \in 1..Len(seqs[k])
                   PROVE  at[k - 1] + i \in 1..at[m] /\ f[m][at[k - 1] + i] = seqs[k][i]
        BY <3>1
      <4>1. k \in 1..n /\ k - 1 \in 0..n /\ m - 1 \in 0..n
        OBVIOUS
      <4>2. PICK p \in Nat : p = at[k - 1] + i /\ p > at[k - 1]
        <5>1. at[k - 1] \in Nat /\ Len(seqs[k]) \in Nat
          BY <2>2, <2>5, <4>1
        <5> QED
          BY <5>1, SMTT(30)
      <4>3. PICK a \in Nat, l \in Nat : a = at[m - 1] /\ l = Len(seqs[m]) /\ at[m] = a + l
        BY <2>2, <2>5, <2>6, <4>1
      <4>4. CASE m = 1
        <5>1. k = 1 /\ p = i /\ at[m] = l /\ at[0] = 0 /\ a = 0
          BY <2>5, <4>2, <4>3, <4>4
        <5>2. i \in 1..l /\ f[m] = seqs[k]
          BY <2>1, <4>3, <4>4, <5>1
        <5> QED
          BY <4>2, <5>1, <5>2
      <4>5. CASE m # 1
        <5>1. f[m - 1] \in Seq(C) /\ seqs[m] \in Seq(C) /\ f[m] = f[m - 1] \o seqs[m] /\ Len(f[m - 1]) = a
          <6>1. m - 1 \in 1..n /\ m - 1 # 0
            BY <4>5
          <6>2. Len(f[m - 1]) = a
            BY <2>4, <4>1, <4>3, <6>1
          <6> QED
            BY <2>1, <2>2, <2>3, <4>5, <6>1, <6>2
        <5>2. \A j \in 1..a + l : f[m][j] = IF j <= a THEN f[m - 1][j] ELSE seqs[m][j - a]
          <6>1. PICK u, v, w : u = f[m] /\ v = f[m - 1] /\ w = seqs[m]
            OBVIOUS
          <6>2. v \in Seq(C) /\ w \in Seq(C) /\ u = v \o w /\ Len(v) = a /\ Len(w) = l
            BY <4>3, <5>1, <6>1
          <6>3. \A j \in 1..a + l : u[j] = IF j <= a THEN v[j] ELSE w[j - a]
            BY <6>2, ConcatProperties
          <6> QED
            BY <6>1, <6>3
        <5>3. CASE k = m
          <6>1. p = a + i /\ i \in 1..l
            BY <4>2, <4>3, <5>3
          <6>2. p \in 1..a + l /\ ~(p <= a) /\ p - a = i
            BY <6>1
          <6> QED
            BY <4>2, <4>3, <5>2, <5>3, <6>2
        <5>4. CASE k # m
          <6>1. k \in 1..m - 1
            BY <5>4
          <6>2. p \in 1..a /\ f[m - 1][p] = seqs[k][i]
            BY <3>1, <3>2, <4>2, <4>3, <6>1
          <6>3. p \in 1..a + l /\ p <= a
            BY <6>2
          <6> QED
            BY <4>2, <4>3, <5>2, <6>2, <6>3
        <5> QED
          BY <5>3, <5>4
      <4> QED
        BY <4>4, <4>5
    <3>3. 0 \in S
      BY <3>1
    <3>4. \A m \in 1..n : m - 1 \in S => m \in S
      BY <3>2
    <3>5. \A m \in 0..n : m \in S
      BY <3>3, <3>4, UpTo, Zenon
    <3> QED
      BY <3>1, <3>5
  <2>8. \A k \in 1..n : \A i \in 1..Len(seqs[k]) : FlattenSeq(seqs)[at[k - 1] + i] = seqs[k][i]
    <3>1. n \in 1..n /\ FlattenSeq(seqs) = f[n]
      BY <1>0, <1>2, <2>1
    <3> QED
      BY <2>7, <3>1
  <2>9. FlattenSeq(seqs) \in Seq(C)
    BY <1>0, <1>2, <2>1, <2>3
  <2>10. \A k \in 0..n : at[k] <= at[n]
    <3>1. PICK S : S = {m \in 0..n : \A k \in 0..m : at[k] <= at[m]}
      OBVIOUS
    <3>2. ASSUME NEW m \in 1..n, m - 1 \in S PROVE m \in S
      <4>1. PICK b \in Nat, l \in Nat : b = at[m - 1] /\ l = Len(seqs[m]) /\ at[m] = b + l
        <5>1. m - 1 \in 0..n
          OBVIOUS
        <5> QED
          BY <2>2, <2>5, <2>6, <5>1
      <4>2. ASSUME NEW k \in 0..m PROVE at[k] <= at[m]
        <5>1. CASE k = m
          BY <4>1, <5>1
        <5>2. CASE k # m
          <6>1. k \in 0..m - 1 /\ k \in 0..n
            BY <5>2
          <6>2. at[k] <= b /\ at[k] \in Nat
            BY <2>5, <3>1, <3>2, <4>1, <6>1
          <6> QED
            BY <4>1, <6>2
        <5> QED
          BY <5>1, <5>2
      <4> QED
        BY <3>1, <4>2
    <3>3. 0 \in S
      <4>1. at[0] <= at[0] /\ \A k \in 0..0 : k = 0
        BY <2>5
      <4> QED
        BY <3>1, <4>1
    <3>4. \A m \in 1..n : m - 1 \in S => m \in S
      BY <3>2
    <3>5. \A m \in 0..n : m \in S
      BY <3>3, <3>4, UpTo, Zenon
    <3> QED
      BY <3>1, <3>5
  <2>11. \A k \in 1..Len(seqs) :
           /\ at[k] = at[k - 1] + Len(seqs[k]) /\ at[k] <= Len(FlattenSeq(seqs))
           /\ \A i \in 1..Len(seqs[k]) : FlattenSeq(seqs)[at[k - 1] + i] = seqs[k][i]
    <3>1. \A k \in 1..n : k \in 0..n
      OBVIOUS
    <3> QED
      BY <1>0, <2>5, <2>6, <2>8, <2>10, <3>1
  <2> QED
    BY <1>0, <2>5, <2>9, <2>11, ZenonT(60) DEF Layout
<1>3. n = 0 \/ n > 0
  OBVIOUS
<1> QED
  BY <1>1, <1>2, <1>3, Zenon

Start(cs, cur) == Scanned(cs, cur, FALSE, FALSE)
Within(cs, cur) == Scanned(cs, cur, TRUE, FALSE)
Paired(cs, cur) == Scanned(cs, cur, TRUE, TRUE)

(* What follows position i of a line. *)
Following(line, i) == IF i < Len(line) THEN line[i + 1] ELSE ""

(* The states that parseCsvRow goes through. *)
Scans(a, line) ==
  /\ a[0] = Scanned(<<>>, <<>>, FALSE, FALSE)
  /\ \A i \in 1..Len(line) : a[i] = NextChar(a[i - 1], line[i], Following(line, i))

LEMMA ScanSteps ==
  ASSUME NEW C, NEW line \in Seq(C)
  PROVE  \E a : Scans(a, line) /\ ParseCsvRow(line) = Append(a[Len(line)].cells, a[Len(line)].current)
<1> DEFINE Grows(f, m) ==
      f = [i \in 0..m |->
             IF i = 0 THEN Scanned(<<>>, <<>>, FALSE, FALSE)
             ELSE NextChar(f[i - 1], line[i], IF i < Len(line) THEN line[i + 1] ELSE "")]
<1>0. PICK n \in Nat : n = Len(line)
  BY LenProperties
<1>1. PICK S : S = {m \in 0..n : \E f : Grows(f, m)}
  OBVIOUS
<1>2. 0 \in S
  <2>1. PICK f : f = [i \in 0..0 |-> Scanned(<<>>, <<>>, FALSE, FALSE)]
    OBVIOUS
  <2>2. \A i \in 0..0 : i = 0
    OBVIOUS
  <2>3. Grows(f, 0)
    BY <2>1, <2>2
  <2> HIDE DEF Grows
  <2> QED
    BY <1>1, <2>3
<1>3. ASSUME NEW k \in 1..n, k - 1 \in S PROVE k \in S
  <2>1. PICK f : Grows(f, k - 1)
    BY <1>1, <1>3
  <2> DEFINE Stepped(h, i) ==
        IF i = 0 THEN Scanned(<<>>, <<>>, FALSE, FALSE)
        ELSE NextChar(h[i - 1], line[i], IF i < Len(line) THEN line[i + 1] ELSE "")
  <2>2. PICK g : g = [i \in 0..k |-> IF i = k THEN Stepped(f, k) ELSE f[i]]
    OBVIOUS
  <2>3. ASSUME NEW i \in 0..k PROVE g[i] = Stepped(g, i)
    <3>1. k - 1 \in 0..k /\ k - 1 # k /\ k # 0
      OBVIOUS
    <3>2. CASE i = k
      <4>1. g[k - 1] = f[k - 1] /\ g[k] = Stepped(f, k)
        <5> HIDE DEF Stepped
        <5> QED
          BY <2>2, <3>1
      <4> QED
        BY <3>1, <3>2, <4>1
    <3>3. CASE i # k
      <4>1. i \in 0..k - 1
        BY <3>3
      <4>2. f[i] = Stepped(f, i)
        BY <2>1, <4>1
      <4>3. g[i] = f[i]
        <5> HIDE DEF Stepped
        <5> QED
          BY <2>2, <3>3
      <4>4. i # 0 => i - 1 \in 0..k /\ i - 1 # k
        BY <4>1
      <4>5. i # 0 => g[i - 1] = f[i - 1]
        <5> HIDE DEF Stepped
        <5> QED
          BY <2>2, <4>4
      <4> QED
        BY <4>2, <4>3, <4>5
    <3> QED
      BY <3>2, <3>3
  <2>4. g = [i \in 0..k |-> g[i]]
    <3> HIDE DEF Stepped
    <3> QED
      BY <2>2
  <2>5. Grows(g, k)
    <3>1. g = [i \in 0..k |-> Stepped(g, i)]
      <4> HIDE DEF Stepped
      <4> QED
        BY <2>3, <2>4, Zenon
    <3> QED
      BY <3>1
  <2> HIDE DEF Grows
  <2>6. k \in 0..n
    OBVIOUS
  <2> QED
    BY <1>1, <2>5, <2>6
<1>4. n \in S
  <2>1. \A k \in 1..n : k - 1 \in S => k \in S
    BY <1>3
  <2>2. \A k \in 0..n : k \in S
    BY <1>2, <2>1, UpTo, Zenon
  <2> QED
    BY <2>2
<1>5. PICK a : a = CHOOSE g : Grows(g, Len(line))
  OBVIOUS
<1>6. Grows(a, Len(line))
  BY <1>0, <1>1, <1>4, <1>5
<1>7. ParseCsvRow(line) = Append(a[Len(line)].cells, a[Len(line)].current)
  BY <1>5 DEF ParseCsvRow
<1>8. Scans(a, line)
  <2>1. a[0] = Scanned(<<>>, <<>>, FALSE, FALSE)
    <3>1. 0 \in 0..Len(line)
      BY <1>0
    <3> QED
      BY <1>6, <3>1
  <2>2. ASSUME NEW i \in 1..Len(line) PROVE a[i] = NextChar(a[i - 1], line[i], Following(line, i))
    <3>1. i \in 0..Len(line) /\ i # 0
      BY <1>0
    <3> QED
      BY <1>6, <3>1 DEF Following
  <2> QED
    BY <2>1, <2>2 DEF Scans
<1> QED
  BY <1>7, <1>8

(* The cases of NextChar. *)
LEMMA Takes ==
  ASSUME NEW s, NEW char, NEW following
  PROVE  /\ s.paired => NextChar(s, char, following) = [s EXCEPT !.paired = FALSE]
         /\ ~s.paired /\ char = Quote /\ s.inQuotes /\ following = Quote =>
              NextChar(s, char, following) = [s EXCEPT !.current = Append(@, Quote), !.paired = TRUE]
         /\ ~s.paired /\ char = Comma /\ ~s.inQuotes =>
              NextChar(s, char, following) = Start(Append(s.cells, s.current), <<>>)
         /\ ~s.paired /\ char # Quote /\ (char = Comma => s.inQuotes) =>
              NextChar(s, char, following) = [s EXCEPT !.current = Append(@, char)]
<1>1. Comma # Quote
  BY DEF Comma, Quote
<1> QED
  BY <1>1, Zenon DEF NextChar, Start

LEMMA TakesPair ==
  ASSUME NEW cs, NEW cur, NEW char, NEW following
  PROVE  NextChar(Paired(cs, cur), char, following) = Within(cs, cur)
<1>1. PICK s : s = Paired(cs, cur)
  OBVIOUS
<1>2. NextChar(s, char, following) = [s EXCEPT !.paired = FALSE]
  <2>1. s.paired
    BY <1>1 DEF Scanned, Paired
  <2> QED
    BY <2>1, Takes, Zenon
<1> QED
  BY <1>1, <1>2 DEF Scanned, Paired, Within

LEMMA TakesOpening ==
  ASSUME NEW cs, NEW cur, NEW following
  PROVE  NextChar(Start(cs, cur), Quote, following) = Within(cs, cur)
<1>0. PICK char : char = Quote
  OBVIOUS
<1>1. PICK s : s = Start(cs, cur)
  OBVIOUS
<1>2. NextChar(s, char, following) = [s EXCEPT !.inQuotes = ~@]
  <2>1. ~s.paired /\ ~s.inQuotes
    BY <1>1 DEF Scanned, Start
  <2>2. Comma # Quote
    BY DEF Comma, Quote
  <2> QED
    BY <1>0, <2>1, <2>2, Zenon DEF NextChar
<1> QED
  BY <1>0, <1>1, <1>2 DEF Scanned, Start, Within

LEMMA TakesDoubled ==
  ASSUME NEW cs, NEW cur
  PROVE  NextChar(Within(cs, cur), Quote, Quote) = Paired(cs, Append(cur, Quote))
<1>1. PICK s : s = Within(cs, cur)
  OBVIOUS
<1>2. NextChar(s, Quote, Quote) = [s EXCEPT !.current = Append(@, Quote), !.paired = TRUE]
  <2>1. ~s.paired /\ s.inQuotes
    BY <1>1 DEF Scanned, Within, Paired
  <2> QED
    BY <2>1, Takes, Zenon
<1> QED
  BY <1>1, <1>2 DEF Scanned, Within, Paired

LEMMA TakesClosing ==
  ASSUME NEW cs, NEW cur, NEW following, following # Quote
  PROVE  NextChar(Within(cs, cur), Quote, following) = Start(cs, cur)
<1>0. PICK char : char = Quote
  OBVIOUS
<1>1. PICK s : s = Within(cs, cur)
  OBVIOUS
<1>2. NextChar(s, char, following) = [s EXCEPT !.inQuotes = ~@]
  <2>1. ~s.paired
    BY <1>1 DEF Scanned, Within
  <2>2. Comma # Quote
    BY DEF Comma, Quote
  <2> QED
    BY <1>0, <2>1, <2>2, Zenon DEF NextChar
<1> QED
  BY <1>0, <1>1, <1>2 DEF Scanned, Start, Within

LEMMA TakesComma ==
  ASSUME NEW cs, NEW cur, NEW following
  PROVE  NextChar(Start(cs, cur), Comma, following) = Start(Append(cs, cur), <<>>)
<1>1. PICK s : s = Start(cs, cur)
  OBVIOUS
<1>2. ~s.paired /\ ~s.inQuotes /\ s.cells = cs /\ s.current = cur
  BY <1>1 DEF Scanned, Start
<1>3. NextChar(s, Comma, following) = Start(Append(s.cells, s.current), <<>>)
  <2>1. ~s.paired /\ ~s.inQuotes
    BY <1>2
  <2> QED
    BY <2>1, Takes, Zenon
<1> QED
  BY <1>1, <1>2, <1>3

LEMMA TakesOther ==
  ASSUME NEW cs, NEW cur, NEW char, char # Quote, NEW following
  PROVE  /\ NextChar(Within(cs, cur), char, following) = Within(cs, Append(cur, char))
         /\ char # Comma => NextChar(Start(cs, cur), char, following) = Start(cs, Append(cur, char))
<1>1. NextChar(Within(cs, cur), char, following) = Within(cs, Append(cur, char))
  <2>1. PICK s : s = Within(cs, cur)
    OBVIOUS
  <2>2. ~s.paired /\ s.inQuotes
    BY <2>1 DEF Scanned, Within
  <2>3. NextChar(s, char, following) = [s EXCEPT !.current = Append(@, char)]
    BY <2>2, Takes, Zenon
  <2> QED
    BY <2>1, <2>3 DEF Scanned, Within
<1>2. ASSUME char # Comma PROVE NextChar(Start(cs, cur), char, following) = Start(cs, Append(cur, char))
  <2>1. PICK s : s = Start(cs, cur)
    OBVIOUS
  <2>2. ~s.paired
    BY <2>1 DEF Scanned, Start
  <2>3. NextChar(s, char, following) = [s EXCEPT !.current = Append(@, char)]
    BY <1>2, <2>2, Takes, Zenon
  <2> QED
    BY <2>1, <2>3 DEF Scanned, Start
<1> QED
  BY <1>1, <1>2

LEMMA Longer ==
  ASSUME NEW C, NEW w \in Seq(C), NEW k \in 1..Len(w)
  PROVE  Append(SubSeq(w, 1, k - 1), w[k]) = SubSeq(w, 1, k)
<1>0. PICK n \in Nat : n = Len(w) /\ k \in 1..n
  BY LenProperties
<1>1. \A i \in 1..k - 1 : w[i] \in C
  <2>1. \A i \in 1..n : w[i] \in C
    BY <1>0, ElementOfSeq
  <2> QED
    BY <1>0, <2>1
<1>2. SubSeq(w, 1, k - 1) \in Seq(C) /\ w[k] \in C
  BY <1>0, <1>1, SubSeqProperties, ElementOfSeq
<1>3. Append(SubSeq(w, 1, k - 1), w[k]) = SubSeq(w, 1, k - 1) \o <<w[k]>>
  BY <1>2, AppendIsConcat
<1>4. SubSeq(w, 1, k) = SubSeq(w, 1, k - 1) \o <<w[k]>>
  <2>1. 1 \in 1..Len(w) /\ k \in 1..Len(w)
    BY <1>0
  <2> QED
    BY <2>1, SubSeqRecursiveSecond
<1> QED
  BY <1>3, <1>4

(* A character is read as NextChar says. *)
LEMMA Scanning ==
  ASSUME NEW line, Len(line) \in Nat, NEW a, Scans(a, line), NEW p \in Nat, p < Len(line)
  PROVE  a[p + 1] = NextChar(a[p], line[p + 1], Following(line, p + 1))
<1>1. p + 1 \in 1..Len(line) /\ (p + 1) - 1 = p
  OBVIOUS
<1> QED
  BY <1>1 DEF Scans

LEMMA ReadsPair ==
  ASSUME NEW line, Len(line) \in Nat, NEW a, Scans(a, line), NEW p \in Nat, p < Len(line),
         NEW cs, NEW cur, a[p] = Paired(cs, cur)
  PROVE  a[p + 1] = Within(cs, cur)
BY Scanning, TakesPair

LEMMA ReadsOpening ==
  ASSUME NEW line, Len(line) \in Nat, NEW a, Scans(a, line), NEW p \in Nat, p < Len(line),
         NEW cs, NEW cur, a[p] = Start(cs, cur), line[p + 1] = Quote
  PROVE  a[p + 1] = Within(cs, cur)
BY Scanning, TakesOpening

LEMMA ReadsDoubled ==
  ASSUME NEW line, Len(line) \in Nat, NEW a, Scans(a, line), NEW p \in Nat, p < Len(line),
         NEW cs, NEW cur, a[p] = Within(cs, cur),
         line[p + 1] = Quote, Following(line, p + 1) = Quote
  PROVE  a[p + 1] = Paired(cs, Append(cur, Quote))
BY Scanning, TakesDoubled

LEMMA ReadsClosing ==
  ASSUME NEW line, Len(line) \in Nat, NEW a, Scans(a, line), NEW p \in Nat, p < Len(line),
         NEW cs, NEW cur, a[p] = Within(cs, cur),
         line[p + 1] = Quote, Following(line, p + 1) # Quote
  PROVE  a[p + 1] = Start(cs, cur)
BY Scanning, TakesClosing

LEMMA ReadsComma ==
  ASSUME NEW line, Len(line) \in Nat, NEW a, Scans(a, line), NEW p \in Nat, p < Len(line),
         NEW cs, NEW cur, a[p] = Start(cs, cur), line[p + 1] = Comma
  PROVE  a[p + 1] = Start(Append(cs, cur), <<>>)
BY Scanning, TakesComma

LEMMA ReadsOther ==
  ASSUME NEW line, Len(line) \in Nat, NEW a, Scans(a, line), NEW p \in Nat, p < Len(line),
         NEW cs, NEW cur, a[p] = Within(cs, cur), NEW char, line[p + 1] = char, char # Quote
  PROVE  a[p + 1] = Within(cs, Append(cur, char))
BY Scanning, TakesOther

LEMMA ReadsUnquoted ==
  ASSUME NEW line, Len(line) \in Nat, NEW a, Scans(a, line), NEW p \in Nat, p < Len(line),
         NEW cs, NEW cur, a[p] = Start(cs, cur),
         NEW char, line[p + 1] = char, char # Quote, char # Comma
  PROVE  a[p + 1] = Start(cs, Append(cur, char))
BY Scanning, TakesOther

(* The text w stands in the line, between two positions. *)
Stands(w, line, p, e) ==
  /\ p \in Nat /\ e = p + Len(w) /\ p + Len(w) <= Len(line)
  /\ \A i \in 1..Len(w) : line[p + i] = w[i]

Unquoted(w) == \A i \in 1..Len(w) : w[i] # Quote /\ w[i] # Comma

LEMMA ReadsPlain ==
  ASSUME NEW C, NEW line, Len(line) \in Nat, NEW a, Scans(a, line), NEW cs, NEW w \in Seq(C),
         Unquoted(w), NEW p, NEW e, Stands(w, line, p, e),
         a[p] = Start(cs, <<>>)
  PROVE  a[e] = Start(cs, w)
<1> p \in Nat /\ e = p + Len(w) /\ p + Len(w) <= Len(line) /\ \A i \in 1..Len(w) : line[p + i] = w[i]
  BY DEF Stands
<1>0. PICK n \in Nat, m \in Nat : n = Len(w) /\ m = Len(line) /\ p + n <= m
  BY LenProperties
<1>1. PICK S : S = {k \in 0..n : a[p + k] = Start(cs, SubSeq(w, 1, k))}
  OBVIOUS
<1>2. 0 \in S
  <2>1. SubSeq(w, 1, 0) = <<>> /\ p + 0 = p /\ 0 \in 0..n
    BY SubSeqEmpty
  <2> QED
    BY <1>1, <2>1
<1>3. ASSUME NEW k \in 1..n, k - 1 \in S PROVE k \in S
  <2>1. PICK i \in Nat : i = p + (k - 1) /\ i + 1 = p + k /\ i < m
    BY <1>0
  <2>2. a[i] = Start(cs, SubSeq(w, 1, k - 1))
    BY <1>1, <1>3, <2>1
  <2>3. line[i + 1] = w[k] /\ w[k] # Quote /\ w[k] # Comma
    BY <1>0, <2>1 DEF Unquoted
  <2>4. i < Len(line)
    BY <1>0, <2>1
  <2>5. a[i + 1] = Start(cs, Append(SubSeq(w, 1, k - 1), w[k]))
    <3>1. PICK cur, char : cur = SubSeq(w, 1, k - 1) /\ char = w[k]
      OBVIOUS
    <3>2. a[i + 1] = Start(cs, Append(cur, char))
      BY <2>2, <2>3, <2>4, <3>1, ReadsUnquoted
    <3> QED
      BY <3>1, <3>2
  <2>6. Append(SubSeq(w, 1, k - 1), w[k]) = SubSeq(w, 1, k)
    BY <1>0, Longer
  <2>7. a[p + k] = Start(cs, SubSeq(w, 1, k))
    BY <2>1, <2>5, <2>6
  <2>8. k \in 0..n
    OBVIOUS
  <2> QED
    BY <1>1, <2>7, <2>8
<1>4. \A k \in 1..n : k - 1 \in S => k \in S
  BY <1>3
<1>5. \A k \in 0..n : k \in S
  BY <1>2, <1>4, UpTo, Zenon
<1>6. n \in S
  BY <1>5
<1>7. SubSeq(w, 1, n) = w
  BY <1>0, SubSeqFull
<1> QED
  BY <1>0, <1>1, <1>6, <1>7

(* The body of a quoted cell: its quotes doubled. *)
Doubled(cell) ==
  [i \in DOMAIN cell |-> IF cell[i] = Quote THEN <<Quote, Quote>> ELSE <<cell[i]>>]

LEMMA DoubledType ==
  ASSUME NEW C, Quote \in C, NEW cell \in Seq(C)
  PROVE  /\ Doubled(cell) \in Seq(Seq(C)) /\ Len(Doubled(cell)) = Len(cell)
         /\ \A k \in 1..Len(cell) : Len(Doubled(cell)[k]) = IF cell[k] = Quote THEN 2 ELSE 1
<1>0. PICK n \in Nat : n = Len(cell) /\ DOMAIN cell = 1..n
  BY LenProperties
<1>1. \A k \in 1..n : Doubled(cell)[k] \in Seq(C)
  <2>1. \A k \in 1..n : cell[k] \in C
    BY <1>0, ElementOfSeq
  <2> QED
    BY <1>0, <2>1 DEF Doubled
<1>2. Doubled(cell) \in [1..n -> Seq(C)]
  BY <1>0, <1>1 DEF Doubled
<1>3. Doubled(cell) \in Seq(Seq(C)) /\ Len(Doubled(cell)) = n
  BY <1>2
<1>4. \A k \in 1..n : Len(Doubled(cell)[k]) = IF cell[k] = Quote THEN 2 ELSE 1
  BY <1>0 DEF Doubled
<1> QED
  BY <1>0, <1>3, <1>4

LEMMA ReadsBody ==
  ASSUME NEW C, Quote \in C, NEW line, Len(line) \in Nat, NEW a, Scans(a, line),
         NEW cs, NEW cell \in Seq(C), NEW w, w = FlattenSeq(Doubled(cell)),
         NEW p, NEW e, Stands(w, line, p, e),
         a[p] = Within(cs, <<>>)
  PROVE  a[e] = Within(cs, cell)
<1> p \in Nat /\ e = p + Len(w) /\ p + Len(w) <= Len(line) /\ \A i \in 1..Len(w) : line[p + i] = w[i]
  BY DEF Stands
<1>1. PICK n \in Nat, m \in Nat, l \in Nat : n = Len(cell) /\ m = Len(line) /\ l = Len(w) /\ p + l <= m
  BY LenProperties, DoubledType, FlattenLayout
<1>2. PICK at : Layout(at, Doubled(cell), w)
  BY DoubledType, FlattenLayout
<1> DEFINE piece(k) == Doubled(cell)[k]
<1>3. /\ at \in [0..n -> Nat] /\ at[0] = 0 /\ at[n] = l
      /\ \A k \in 1..n : /\ at[k] = at[k - 1] + Len(piece(k)) /\ at[k] <= l
                         /\ \A i \in 1..Len(piece(k)) : w[at[k - 1] + i] = piece(k)[i]
  <2>1. Len(Doubled(cell)) = n
    BY <1>1, DoubledType
  <2> QED
    BY <1>1, <1>2, <2>1 DEF Layout
<1>4. PICK S : S = {k \in 0..n : a[p + at[k]] = Within(cs, SubSeq(cell, 1, k))}
  OBVIOUS
<1>5. 0 \in S
  <2>1. SubSeq(cell, 1, 0) = <<>> /\ p + at[0] = p /\ 0 \in 0..n
    BY <1>3, SubSeqEmpty
  <2> QED
    BY <1>4, <2>1
<1>6. ASSUME NEW k \in 1..n, k - 1 \in S PROVE k \in S
  <2>1. PICK b \in Nat : b = at[k - 1]
    BY <1>3
  <2>2. PICK cur : cur = SubSeq(cell, 1, k - 1) /\ a[p + b] = Within(cs, cur)
    BY <1>4, <1>6, <2>1
  <2>3. PICK char : char = cell[k] /\ Append(cur, char) = SubSeq(cell, 1, k)
    BY <1>1, <2>2, Longer
  <2>4. at[k] <= l /\ at[k] = b + Len(piece(k))
        /\ \A i \in 1..Len(piece(k)) : w[b + i] = piece(k)[i]
    BY <1>3, <2>1
  <2>5. CASE char = Quote
    <3>1. piece(k) = <<Quote, Quote>>
      BY <1>1, <2>3, <2>5, LenProperties DEF Doubled
    <3>2. at[k] = b + 2 /\ w[b + 1] = Quote /\ w[b + 2] = Quote
      BY <2>4, <3>1
    <3>3. b + 2 <= l
      BY <2>4, <3>2
    <3>4. PICK q \in Nat : q = p + b /\ q < m /\ q + 1 < m /\ q + 1 \in Nat /\ (q + 1) + 1 = p + at[k]
      BY <1>1, <3>2, <3>3
    <3>5. line[q + 1] = Quote /\ line[(q + 1) + 1] = Quote
      <4>1. q + 1 = p + (b + 1) /\ (q + 1) + 1 = p + (b + 2) /\ b + 1 \in 1..l /\ b + 2 \in 1..l
        BY <3>3, <3>4
      <4> QED
        BY <1>1, <3>2, <4>1
    <3>6. a[q + 1] = Paired(cs, Append(cur, Quote))
      <4>1. Following(line, q + 1) = Quote /\ q < Len(line) /\ a[q] = Within(cs, cur)
        BY <1>1, <2>2, <3>4, <3>5 DEF Following
      <4> QED
        BY <3>5, <4>1, ReadsDoubled
    <3>7. a[(q + 1) + 1] = Within(cs, Append(cur, Quote))
      <4>1. q + 1 < Len(line)
        BY <1>1, <3>4
      <4> QED
        BY <3>4, <3>6, <4>1, ReadsPair
    <3>8. a[p + at[k]] = Within(cs, SubSeq(cell, 1, k))
      BY <2>3, <2>5, <3>4, <3>7
    <3>9. k \in 0..n
      OBVIOUS
    <3> QED
      BY <1>4, <3>8, <3>9
  <2>6. CASE char # Quote
    <3>1. piece(k) = <<char>>
      BY <1>1, <2>3, <2>6, LenProperties DEF Doubled
    <3>2. at[k] = b + 1 /\ w[b + 1] = char
      BY <2>4, <3>1
    <3>3. PICK q \in Nat : q = p + b /\ q < m /\ q + 1 = p + at[k]
      <4>1. b + 1 <= l
        BY <2>4, <3>2
      <4> QED
        BY <1>1, <3>2, <4>1
    <3>4. line[q + 1] = char
      <4>1. q + 1 = p + (b + 1) /\ b + 1 \in 1..l
        BY <2>4, <3>2, <3>3
      <4> QED
        BY <1>1, <3>2, <4>1
    <3>5. a[q + 1] = Within(cs, Append(cur, char))
      <4>1. q < Len(line) /\ a[q] = Within(cs, cur)
        BY <1>1, <2>2, <3>3
      <4> QED
        BY <2>6, <3>4, <4>1, ReadsOther
    <3>6. a[p + at[k]] = Within(cs, SubSeq(cell, 1, k))
      BY <2>3, <3>3, <3>5
    <3>7. k \in 0..n
      OBVIOUS
    <3> QED
      BY <1>4, <3>6, <3>7
  <2> QED
    BY <2>5, <2>6
<1>7. \A k \in 1..n : k - 1 \in S => k \in S
  BY <1>6
<1>8. \A k \in 0..n : k \in S
  BY <1>5, <1>7, UpTo, Zenon
<1>9. n \in S
  BY <1>8
<1>10. SubSeq(cell, 1, n) = cell
  BY <1>1, SubSeqFull
<1> QED
  BY <1>1, <1>3, <1>4, <1>9, <1>10

LEMMA WrittenType ==
  ASSUME NEW C, Quote \in C, NEW cell \in Seq(C)
  PROVE  Written(cell) \in Seq(C)
<1>1. FlattenSeq(Doubled(cell)) \in Seq(C)
  BY DoubledType, FlattenLayout
<1>2. <<Quote>> \in Seq(C)
  OBVIOUS
<1>3. <<Quote>> \o FlattenSeq(Doubled(cell)) \o <<Quote>> \in Seq(C)
  BY <1>1, <1>2, ConcatProperties
<1> QED
  BY <1>3 DEF Written, Doubled

(* What Written makes of a cell that needs quotes. *)
LEMMA Enclosed ==
  ASSUME NEW C, Quote \in C, NEW body \in Seq(C), NEW w, w = <<Quote>> \o body \o <<Quote>>
  PROVE  /\ w \in Seq(C) /\ Len(w) = Len(body) + 2
         /\ w[1] = Quote /\ w[Len(body) + 2] = Quote
         /\ \A i \in 1..Len(body) : w[1 + i] = body[i]
<1>1. PICK l \in Nat : l = Len(body)
  BY LenProperties
<1>2. PICK q \in Seq(C) : q = <<Quote>> /\ Len(q) = 1 /\ q[1] = Quote
  <2>1. <<Quote>> \in Seq(C)
    OBVIOUS
  <2>2. Len(<<Quote>>) = 1 /\ <<Quote>>[1] = Quote
    OBVIOUS
  <2> QED
    BY <2>1, <2>2
<1>3. PICK v \in Seq(C) : v = q \o body
  BY ConcatProperties
<1>4. Len(v) = l + 1 /\ \A i \in 1..l + 1 : v[i] = IF i <= 1 THEN q[i] ELSE body[i - 1]
  BY <1>1, <1>2, <1>3, ConcatProperties
<1>5. w = v \o q
  BY <1>2, <1>3
<1>6. w \in Seq(C) /\ Len(w) = l + 2
  BY <1>2, <1>4, <1>5, ConcatProperties
<1>7. \A i \in 1..l + 2 : w[i] = IF i <= l + 1 THEN v[i] ELSE q[i - (l + 1)]
  BY <1>2, <1>4, <1>5, ConcatProperties
<1>8. w[1] = Quote
  <2>1. 1 \in 1..l + 2 /\ 1 <= l + 1 /\ 1 \in 1..l + 1
    OBVIOUS
  <2> QED
    BY <1>2, <1>4, <1>7, <2>1
<1>9. w[l + 2] = Quote
  <2>1. l + 2 \in 1..l + 2 /\ ~(l + 2 <= l + 1) /\ (l + 2) - (l + 1) = 1
    OBVIOUS
  <2> QED
    BY <1>2, <1>7, <2>1
<1>10. ASSUME NEW i \in 1..l PROVE w[1 + i] = body[i]
  <2>1. 1 + i \in 1..l + 2 /\ 1 + i <= l + 1 /\ 1 + i \in 1..l + 1 /\ ~(1 + i <= 1) /\ (1 + i) - 1 = i
    OBVIOUS
  <2> QED
    BY <1>4, <1>7, <2>1
<1> QED
  BY <1>1, <1>6, <1>8, <1>9, <1>10

LEMMA ReadsCell ==
  ASSUME NEW C, Quote \in C, NEW line, Len(line) \in Nat, NEW a, Scans(a, line),
         NEW cs, NEW cell \in Seq(C), NEW w, w = Written(cell),
         NEW p, NEW e, Stands(w, line, p, e),
         Following(line, e) # Quote,
         a[p] = Start(cs, <<>>)
  PROVE  a[e] = Start(cs, cell)
<1> p \in Nat /\ e = p + Len(w) /\ p + Len(w) <= Len(line) /\ \A i \in 1..Len(w) : line[p + i] = w[i]
  BY DEF Stands
<1>1. CASE \E i \in DOMAIN cell : cell[i] \in {Quote, Comma}
  <2>1. PICK body \in Seq(C) : body = FlattenSeq(Doubled(cell))
    BY DoubledType, FlattenLayout
  <2>2. w = <<Quote>> \o body \o <<Quote>>
    BY <1>1, <2>1 DEF Written, Doubled
  <2>3. PICK l \in Nat, m \in Nat : l = Len(body) /\ m = Len(line)
    BY LenProperties
  <2>4. /\ Len(w) = l + 2 /\ w[1] = Quote /\ w[l + 2] = Quote
        /\ \A i \in 1..l : w[1 + i] = body[i]
    BY <2>2, <2>3, Enclosed
  <2>5. p + (l + 2) <= m /\ \A i \in 1..l + 2 : line[p + i] = w[i]
    BY <2>3, <2>4
  <2>6. a[p + 1] = Within(cs, <<>>)
    <3>1. line[p + 1] = Quote /\ p < Len(line)
      BY <2>3, <2>4, <2>5
    <3> QED
      BY <3>1, ReadsOpening
  <2>7. PICK q \in Nat, d \in Nat : q = p + 1 /\ d = q + l /\ d + 1 = e /\ d + 1 = p + (l + 2) /\ d < m
    <3>1. PICK q \in Nat, d \in Nat : q = p + 1 /\ d = q + l
      OBVIOUS
    <3>2. d + 1 = p + (l + 2) /\ d < m
      BY <2>5, <3>1
    <3>3. e = p + (l + 2)
      BY <2>4
    <3> QED
      BY <3>1, <3>2, <3>3
  <2>8. a[d] = Within(cs, cell)
    <3>1. q + Len(body) <= Len(line)
      BY <2>3, <2>5, <2>7, SMTT(30)
    <3>2. ASSUME NEW i \in 1..Len(body) PROVE line[q + i] = body[i]
      <4>1. q + i = p + (1 + i) /\ 1 + i \in 1..l + 2 /\ i \in 1..l
        BY <2>3, <2>7
      <4> QED
        BY <2>4, <2>5, <4>1
    <3>3. a[q] = Within(cs, <<>>)
      BY <2>6, <2>7
    <3>4. Stands(body, line, q, d)
      BY <2>3, <2>7, <3>1, <3>2 DEF Stands
    <3> QED
      BY <2>1, <3>3, <3>4, ReadsBody
  <2>10. a[d] = Within(cs, cell) /\ line[d + 1] = Quote /\ Following(line, d + 1) # Quote
    BY <2>3, <2>4, <2>5, <2>7, <2>8
  <2>11. a[d + 1] = Start(cs, cell)
    BY <2>3, <2>7, <2>10, ReadsClosing
  <2> QED
    BY <2>7, <2>11
<1>2. CASE \A i \in DOMAIN cell : cell[i] \notin {Quote, Comma}
  <2>1. w = cell
    BY <1>2 DEF Written
  <2>2. Unquoted(w)
    BY <1>2, <2>1, LenProperties DEF Unquoted
  <2>3. w \in Seq(C)
    BY <2>1
  <2>4. a[e] = Start(cs, w)
    BY <2>2, <2>3, ReadsPlain
  <2> QED
    BY <2>1, <2>4
<1> QED
  BY <1>1, <1>2

(* The pieces of a line: its cells, each but the first after a comma. *)
Pieces(cells) ==
  [i \in DOMAIN cells |-> IF i = 1 THEN Written(cells[i]) ELSE <<Comma>> \o Written(cells[i])]

LEMMA PiecesType ==
  ASSUME NEW C, Quote \in C, Comma \in C, NEW cells \in Seq(Seq(C))
  PROVE  /\ Pieces(cells) \in Seq(Seq(C)) /\ Len(Pieces(cells)) = Len(cells)
         /\ \A k \in 1..Len(cells) : cells[k] \in Seq(C) /\ Written(cells[k]) \in Seq(C)
         /\ Line(cells) = FlattenSeq(Pieces(cells)) /\ Line(cells) \in Seq(C)
<1>1. PICK n \in Nat : n = Len(cells) /\ DOMAIN cells = 1..n
  BY LenProperties
<1>2. \A k \in 1..n : cells[k] \in Seq(C)
  BY <1>1, ElementOfSeq
<1>3. \A k \in 1..n : Written(cells[k]) \in Seq(C)
  BY <1>2, WrittenType
<1>4. \A k \in 1..n : <<Comma>> \o Written(cells[k]) \in Seq(C)
  <2>1. <<Comma>> \in Seq(C)
    OBVIOUS
  <2> QED
    BY <1>3, <2>1, ConcatProperties
<1>5. Pieces(cells) \in [1..n -> Seq(C)]
  BY <1>1, <1>3, <1>4 DEF Pieces
<1>6. Pieces(cells) \in Seq(Seq(C)) /\ Len(Pieces(cells)) = n
  BY <1>5
<1>7. Line(cells) = FlattenSeq(Pieces(cells))
  BY DEF Line, Pieces
<1> QED
  BY <1>1, <1>2, <1>3, <1>6, <1>7, FlattenLayout

(* A comma before a cell. *)
LEMMA Separated ==
  ASSUME NEW C, Comma \in C, NEW w \in Seq(C), NEW v, v = <<Comma>> \o w
  PROVE  Len(v) = Len(w) + 1 /\ v[1] = Comma /\ \A i \in 1..Len(w) : v[1 + i] = w[i]
<1>1. PICK l \in Nat : l = Len(w)
  BY LenProperties
<1>2. PICK q \in Seq(C) : q = <<Comma>> /\ Len(q) = 1 /\ q[1] = Comma
  <2>1. <<Comma>> \in Seq(C)
    OBVIOUS
  <2>2. Len(<<Comma>>) = 1 /\ <<Comma>>[1] = Comma
    OBVIOUS
  <2> QED
    BY <2>1, <2>2
<1>3. Len(v) = 1 + l /\ \A i \in 1..1 + l : v[i] = IF i <= 1 THEN q[i] ELSE w[i - 1]
  BY <1>1, <1>2, ConcatProperties
<1>4. v[1] = Comma
  BY <1>2, <1>3
<1>5. ASSUME NEW i \in 1..l PROVE v[1 + i] = w[i]
  <2>1. 1 + i \in 1..1 + l /\ ~(1 + i <= 1) /\ (1 + i) - 1 = i
    OBVIOUS
  <2> QED
    BY <1>3, <2>1
<1> QED
  BY <1>1, <1>3, <1>4, <1>5

(***************************************************************************)
(* A line reads back as the cells it was written from.                     *)
(***************************************************************************)
LEMMA CommaIsNotQuote == Comma # Quote /\ "" # Quote
BY DEF Comma, Quote

(* parseCsvRow finds in a line the very cells it was written from, in their    *)
(* order, whatever commas, quotes and blanks they hold: a cell with a comma    *)
(* or a quote is written in quotes with its own quotes doubled.                *)
THEOREM LineReadsBack ==
  ASSUME NEW C, Quote \in C, Comma \in C, NEW cells \in Seq(Seq(C)), Len(cells) > 0
  PROVE  ParseCsvRow(Line(cells)) = cells
<1>1. PICK line \in Seq(C) : line = Line(cells)
  BY PiecesType
<1>2. PICK n \in Nat, m \in Nat : n = Len(cells) /\ n > 0 /\ m = Len(line) /\ DOMAIN cells = 1..n
  BY LenProperties
<1>3. PICK a : Scans(a, line) /\ ParseCsvRow(line) = Append(a[m].cells, a[m].current)
  BY <1>2, ScanSteps
<1> DEFINE piece(k) == Pieces(cells)[k]
           w(k) == Written(cells[k])
<1>4. PICK at : Layout(at, Pieces(cells), line)
  BY <1>1, PiecesType, FlattenLayout
<1>5. /\ at \in [0..n -> Nat] /\ at[0] = 0 /\ at[n] = m
      /\ \A k \in 1..n : /\ at[k] = at[k - 1] + Len(piece(k)) /\ at[k] <= m
                         /\ \A i \in 1..Len(piece(k)) : line[at[k - 1] + i] = piece(k)[i]
  <2>1. Len(Pieces(cells)) = n
    BY <1>2, PiecesType
  <2> QED
    BY <1>2, <1>4, <2>1 DEF Layout
<1>6. \A k \in 1..n : cells[k] \in Seq(C) /\ w(k) \in Seq(C) /\ Len(w(k)) \in Nat
  BY <1>2, PiecesType, LenProperties
<1>7. piece(1) = w(1)
  BY <1>2 DEF Pieces
<1>8. \A k \in 1..n : k # 1 =>
        /\ Len(piece(k)) = Len(w(k)) + 1 /\ piece(k)[1] = Comma
        /\ \A i \in 1..Len(w(k)) : piece(k)[1 + i] = w(k)[i]
  <2> SUFFICES ASSUME NEW k \in 1..n, k # 1
               PROVE  /\ Len(piece(k)) = Len(w(k)) + 1 /\ piece(k)[1] = Comma
                      /\ \A i \in 1..Len(w(k)) : piece(k)[1 + i] = w(k)[i]
    OBVIOUS
  <2>1. piece(k) = <<Comma>> \o w(k)
    BY <1>2 DEF Pieces
  <2> HIDE DEF piece, w
  <2> QED
    BY <1>6, <2>1, Separated
(* What follows a cell is a comma or nothing. *)
<1>9. \A k \in 1..n : Following(line, at[k]) # Quote
  <2> SUFFICES ASSUME NEW k \in 1..n PROVE Following(line, at[k]) # Quote
    OBVIOUS
  <2>1. CASE k = n
    <3>1. ~(at[k] < Len(line))
      BY <1>2, <1>5, <2>1
    <3> QED
      BY <3>1, CommaIsNotQuote DEF Following
  <2>2. CASE k # n
    <3>1. k + 1 \in 1..n /\ k + 1 # 1 /\ (k + 1) - 1 = k
      BY <2>2
    <3>2. Len(piece(k + 1)) > 0 /\ piece(k + 1)[1] = Comma
      BY <1>6, <1>8, <3>1
    <3>3. line[at[k] + 1] = Comma
      <4>1. \A i \in 1..Len(piece(k + 1)) : line[at[k] + i] = piece(k + 1)[i]
        BY <1>5, <3>1
      <4>2. 1 \in 1..Len(piece(k + 1))
        BY <1>6, <1>8, <3>1, <3>2
      <4> HIDE DEF piece
      <4> QED
        BY <3>2, <4>1, <4>2
    <3> QED
      BY <3>3, CommaIsNotQuote DEF Following
  <2> QED
    BY <2>1, <2>2
<1>10. PICK S : S = {k \in 0..n : k = 0 \/ a[at[k]] = Start(SubSeq(cells, 1, k - 1), cells[k])}
  OBVIOUS
<1>11. ASSUME NEW k \in 1..n, k - 1 \in S PROVE k \in S
  <2>1. PICK cell \in Seq(C), v \in Seq(C) : cell = cells[k] /\ v = Written(cell) /\ v = w(k)
    BY <1>6
  <2>2. PICK cs : cs = SubSeq(cells, 1, k - 1)
    OBVIOUS
  <2>3. PICK e \in Nat, l \in Nat : e = at[k] /\ l = Len(v) /\ e <= m
    <3>1. at[k] \in Nat /\ at[k] <= m /\ Len(v) \in Nat
      BY <1>5, <1>6, <2>1
    <3> QED
      BY <3>1
  <2>4. \E p \in Nat : p + l = e /\ a[p] = Start(cs, <<>>) /\ \A i \in 1..l : line[p + i] = v[i]
    <3>1. CASE k = 1
      <4>1. e = l /\ at[0] = 0 /\ \A i \in 1..l : line[0 + i] = v[i]
        BY <1>5, <1>7, <2>1, <2>3, <3>1
      <4>2. a[0] = Start(cs, <<>>)
        <5>1. cs = <<>>
          BY <2>2, <3>1, SubSeqEmpty
        <5> QED
          BY <1>3, <5>1 DEF Scans, Start
      <4>3. PICK p \in Nat : p = 0
        OBVIOUS
      <4>4. p + l = e /\ a[p] = Start(cs, <<>>)
        BY <4>1, <4>2, <4>3
      <4>5. \A i \in 1..l : line[p + i] = v[i]
        BY <4>1, <4>3
      <4> QED
        BY <4>4, <4>5
    <3>2. CASE k # 1
      <4>1. PICK b \in Nat : b = at[k - 1] /\ k - 1 # 0 /\ k - 1 \in 1..n
        BY <1>5, <3>2
      <4>2. /\ e = b + (l + 1) /\ line[b + 1] = Comma
            /\ \A i \in 1..l : line[b + (1 + i)] = v[i]
        <5>1. /\ Len(piece(k)) = l + 1 /\ piece(k)[1] = Comma
              /\ \A i \in 1..l : piece(k)[1 + i] = v[i]
          BY <1>8, <2>1, <2>3, <3>2
        <5>2. e = b + Len(piece(k)) /\ \A i \in 1..Len(piece(k)) : line[b + i] = piece(k)[i]
          BY <1>5, <2>3, <4>1
        <5>3. 1 \in 1..l + 1 /\ \A i \in 1..l : 1 + i \in 1..l + 1
          OBVIOUS
        <5> HIDE DEF piece
        <5> QED
          BY <5>1, <5>2, <5>3
      <4>3. a[b] = Start(SubSeq(cells, 1, (k - 1) - 1), cells[k - 1])
        BY <1>10, <1>11, <4>1
      <4>4. Append(SubSeq(cells, 1, (k - 1) - 1), cells[k - 1]) = cs
        BY <1>2, <2>2, <4>1, Longer
      <4>5. a[b + 1] = Start(cs, <<>>)
        <5>1. PICK before, last : before = SubSeq(cells, 1, (k - 1) - 1) /\ last = cells[k - 1]
          OBVIOUS
        <5>2. b < Len(line) /\ a[b] = Start(before, last) /\ Len(line) \in Nat
          BY <1>2, <2>3, <4>2, <4>3, <5>1
        <5>3. a[b + 1] = Start(Append(before, last), <<>>)
          BY <1>3, <4>2, <5>2, ReadsComma
        <5> QED
          BY <4>4, <5>1, <5>3
      <4>6. PICK p \in Nat : p = b + 1
        OBVIOUS
      <4>7. p + l = e /\ \A i \in 1..l : line[p + i] = v[i]
        BY <4>2, <4>6
      <4> QED
        BY <4>5, <4>6, <4>7
    <3> QED
      BY <3>1, <3>2
  <2>5. PICK p \in Nat : p + l = e /\ a[p] = Start(cs, <<>>) /\ \A i \in 1..l : line[p + i] = v[i]
    BY <2>4
  <2>6. a[e] = Start(cs, cell)
    <3>1. Stands(v, line, p, e) /\ Len(line) \in Nat
      BY <1>2, <2>3, <2>5 DEF Stands
    <3>2. Following(line, e) # Quote
      BY <1>9, <2>3, <2>5
    <3>3. Scans(a, line) /\ v = Written(cell) /\ a[p] = Start(cs, <<>>)
      BY <1>3, <2>1, <2>5
    <3> HIDE DEF piece, w
    <3> QED
      BY <3>1, <3>2, <3>3, ReadsCell
  <2>7. a[at[k]] = Start(SubSeq(cells, 1, k - 1), cells[k]) /\ k \in 0..n
    BY <2>1, <2>2, <2>3, <2>5, <2>6
  <2> QED
    BY <1>10, <2>7
<1>12. n \in S
  <2>1. \A k \in 1..n : k - 1 \in S => k \in S
    BY <1>11
  <2>2. 0 \in S
    BY <1>10
  <2>3. \A k \in 0..n : k \in S
    BY <2>1, <2>2, UpTo, Zenon
  <2> QED
    BY <2>3
<1>13. a[m] = Start(SubSeq(cells, 1, n - 1), cells[n])
  BY <1>2, <1>5, <1>10, <1>12
<1>14. a[m].cells = SubSeq(cells, 1, n - 1) /\ a[m].current = cells[n]
  BY <1>13 DEF Start, Scanned
<1>15. Append(SubSeq(cells, 1, n - 1), cells[n]) = SubSeq(cells, 1, n) /\ SubSeq(cells, 1, n) = cells
  BY <1>2, Longer, SubSeqFull
<1> QED
  BY <1>1, <1>3, <1>14, <1>15

------------------------------------------------------------------------------
(***************************************************************************)
(* Every row of a CSV file is accounted for.                               *)
(***************************************************************************)
(* Trim leaves nothing of a blank text alone. *)
LEMMA Blank ==
  ASSUME NEW C, NEW text \in Seq(C)
  PROVE  Trim(text) # <<>> <=> \E i \in 1..Len(text) : text[i] # Space
<1>1. PICK n \in Nat : n = Len(text) /\ DOMAIN text = 1..n
  BY LenProperties
<1>2. PICK S : S = {i \in DOMAIN text : text[i] # Space}
  OBVIOUS
<1>3. S \in SUBSET (1..n) /\ S \in SUBSET Nat
  BY <1>1, <1>2
<1>4. CASE S = {}
  BY <1>1, <1>2, <1>4 DEF Trim
<1>5. CASE S # {}
  <2>1. \E x \in S : \A y \in S : x <= y
    BY <1>3, <1>5, Least
  <2>2. Min(S) \in S /\ \A y \in S : Min(S) <= y
    BY <2>1 DEF Min
  <2>3. \E x \in S : \A y \in S : x >= y
    <3>1. PICK g \in S : \A y \in S : y <= g
      BY <1>3, <1>5, Greatest
    <3> QED
      BY <1>3, <3>1
  <2>4. Max(S) \in S
    BY <2>3 DEF Max
  <2>5. PICK a \in 1..n, b \in 1..n : a = Min(S) /\ b = Max(S) /\ a <= b
    BY <1>3, <2>2, <2>4
  <2>6. Trim(text) = SubSeq(text, a, b)
    BY <1>2, <1>5, <2>5 DEF Trim
  <2>7. \A i \in a..b : text[i] \in C
    <3>1. \A i \in 1..n : text[i] \in C
      BY <1>1, ElementOfSeq
    <3> QED
      BY <2>5, <3>1
  <2>8. Len(SubSeq(text, a, b)) = b - a + 1
    BY <2>5, <2>7, SubSeqProperties
  <2>9. Trim(text) # <<>>
    <3>1. Len(Trim(text)) > 0
      BY <2>5, <2>6, <2>8
    <3>2. Len(<<>>) = 0
      BY EmptySeq
    <3> QED
      BY <3>1, <3>2
  <2> QED
    BY <1>1, <1>2, <1>5, <2>9
<1> QED
  BY <1>4, <1>5

Solid(text) == \E i \in 1..Len(text) : text[i] # Space

LEMMA SpaceIsPlain == Space # Quote /\ Space # Comma
BY DEF Space, Quote, Comma

LEMMA WrittenSolid ==
  ASSUME NEW C, Quote \in C, NEW cell \in Seq(C)
  PROVE  Solid(Written(cell)) <=> Solid(cell)
<1>0. DOMAIN cell = 1..Len(cell)
  BY LenProperties
<1>1. CASE \E i \in DOMAIN cell : cell[i] \in {Quote, Comma}
  <2>1. Solid(cell)
    BY <1>0, <1>1, SpaceIsPlain DEF Solid
  <2>2. PICK body \in Seq(C) : body = FlattenSeq(Doubled(cell))
    BY DoubledType, FlattenLayout
  <2>3. PICK w : w = Written(cell) /\ w = <<Quote>> \o body \o <<Quote>>
    BY <1>1, <2>2 DEF Written, Doubled
  <2>4. Len(w) = Len(body) + 2 /\ w[1] = Quote /\ Len(body) \in Nat
    BY <2>3, Enclosed, LenProperties
  <2>5. 1 \in 1..Len(w)
    BY <2>4
  <2>6. Solid(w)
    BY <2>4, <2>5, SpaceIsPlain DEF Solid
  <2> QED
    BY <2>1, <2>3, <2>6
<1>2. CASE \A i \in DOMAIN cell : cell[i] \notin {Quote, Comma}
  BY <1>2 DEF Written
<1> QED
  BY <1>1, <1>2

(* A line is blank when it is not a row that was meant. *)
LEMMA LineBlank ==
  ASSUME NEW C, Quote \in C, Comma \in C, NEW cells \in Seq(Seq(C))
  PROVE  Trim(Line(cells)) # <<>> <=> Meant(cells)
<1>1. PICK n \in Nat : n = Len(cells) /\ DOMAIN cells = 1..n
  BY LenProperties
<1>2. PICK line \in Seq(C) : line = Line(cells)
  BY PiecesType
<1>3. Trim(line) # <<>> <=> Solid(line)
  BY Blank DEF Solid
<1>4. \A k \in 1..n : cells[k] \in Seq(C)
  BY <1>1, PiecesType
<1>5. Meant(cells) <=> n > 1 \/ \E k \in 1..n : Solid(cells[k])
  <2>1. \A k \in 1..n : Trim(cells[k]) # <<>> <=> Solid(cells[k])
    BY <1>4, Blank DEF Solid
  <2> QED
    BY <1>1, <2>1 DEF Meant
<1>6. PICK at : Layout(at, Pieces(cells), line)
  BY <1>2, PiecesType, FlattenLayout
<1> DEFINE piece(k) == Pieces(cells)[k]
<1>7. /\ at \in [0..n -> Nat] /\ at[0] = 0 /\ at[n] = Len(line)
      /\ \A k \in 1..n : /\ at[k] = at[k - 1] + Len(piece(k)) /\ at[k] <= Len(line)
                         /\ \A i \in 1..Len(piece(k)) : line[at[k - 1] + i] = piece(k)[i]
  <2>1. Len(Pieces(cells)) = n
    BY <1>1, PiecesType
  <2> QED
    BY <1>1, <1>6, <2>1 DEF Layout
<1>8. CASE n = 0
  <2>1. ~Solid(line)
    BY <1>7, <1>8 DEF Solid
  <2>2. ~Meant(cells)
    BY <1>5, <1>8
  <2> QED
    BY <1>2, <1>3, <2>1, <2>2
<1>9. CASE n = 1
  <2>1. PICK w : w = piece(1) /\ w = Written(cells[1])
    BY <1>1, <1>9 DEF Pieces
  <2>2. Len(w) \in Nat /\ cells[1] \in Seq(C)
    BY <1>4, <1>9, <2>1, WrittenType, LenProperties
  <2>3. Len(line) = Len(w) /\ \A i \in 1..Len(w) : line[i] = w[i]
    <3>1. 1 \in 1..n /\ 1 - 1 = 0 /\ at[1] = Len(line)
      BY <1>7, <1>9
    <3>2. at[1] = 0 + Len(w) /\ \A i \in 1..Len(w) : line[0 + i] = w[i]
      <4> HIDE DEF piece
      <4> QED
        BY <1>7, <2>1, <3>1
    <3> QED
      BY <2>2, <3>1, <3>2
  <2>4. Solid(line) <=> Solid(w)
    BY <2>3 DEF Solid
  <2>5. Solid(w) <=> Solid(cells[1])
    BY <2>1, <2>2, WrittenSolid
  <2>6. Meant(cells) <=> Solid(cells[1])
    <3>1. \A k \in 1..n : k = 1
      BY <1>9
    <3>2. 1 \in 1..n /\ ~(n > 1)
      BY <1>9
    <3> QED
      BY <1>5, <3>1, <3>2
  <2> QED
    BY <1>2, <1>3, <2>4, <2>5, <2>6
<1>10. CASE n > 1
  <2>1. PICK w \in Seq(C) : w = Written(cells[2])
    <3>1. 2 \in 1..n
      BY <1>10
    <3>2. cells[2] \in Seq(C)
      BY <1>4, <3>1
    <3> QED
      BY <3>2, WrittenType
  <2>2. piece(2) = <<Comma>> \o w
    BY <1>1, <1>10, <2>1 DEF Pieces
  <2>3. PICK l \in Nat : l = Len(w) /\ Len(piece(2)) = l + 1 /\ piece(2)[1] = Comma
    <3>1. Len(w) \in Nat
      BY LenProperties
    <3> HIDE DEF piece
    <3> QED
      BY <2>2, <3>1, Separated
  <2>4. PICK b \in Nat : b = at[1] /\ at[2] = b + (l + 1) /\ at[2] <= Len(line) /\ line[b + 1] = Comma
    <3>1. 2 \in 1..n /\ 2 - 1 = 1 /\ 1 \in 0..n /\ 1 \in 1..l + 1
      BY <1>10
    <3>2. at[1] \in Nat
      BY <1>7, <3>1
    <3>3. at[2] = at[1] + Len(piece(2)) /\ at[2] <= Len(line)
          /\ \A i \in 1..Len(piece(2)) : line[at[1] + i] = piece(2)[i]
      <4> HIDE DEF piece
      <4> QED
        BY <1>7, <3>1
    <3> HIDE DEF piece
    <3> QED
      BY <2>3, <3>1, <3>2, <3>3
  <2>5. b + 1 \in 1..Len(line)
    <3>1. Len(line) \in Nat
      BY LenProperties
    <3> QED
      BY <2>4, <3>1
  <2>6. Solid(line)
    BY <2>4, <2>5, SpaceIsPlain DEF Solid
  <2> QED
    BY <1>2, <1>3, <1>5, <1>10, <2>6
<1> QED
  BY <1>8, <1>9, <1>10

(* The cells of a table are texts, over some characters. *)
LEMMA TableRow ==
  ASSUME NEW rows, IsTable(rows), NEW k \in DOMAIN rows
  PROVE  \E C : Quote \in C /\ Comma \in C /\ rows[k] \in Seq(Seq(C))
<1>1. PICK cells : cells = rows[k] /\ IsList(cells) /\ \A i \in DOMAIN cells : IsList(cells[i])
  BY DEF IsTable
<1>2. PICK n \in Nat : n = Len(cells) /\ DOMAIN cells = 1..n /\ cells = [i \in 1..n |-> cells[i]]
  BY <1>1, LenProperties DEF IsList
<1>3. PICK C : C = {Quote, Comma} \cup UNION {{cells[i][j] : j \in DOMAIN cells[i]} : i \in 1..n}
  OBVIOUS
<1>4. \A i \in 1..n : cells[i] \in Seq(C)
  <2> SUFFICES ASSUME NEW i \in 1..n PROVE cells[i] \in Seq(C)
    OBVIOUS
  <2>1. PICK D : D = {cells[i][j] : j \in DOMAIN cells[i]} /\ cells[i] \in Seq(D)
    BY <1>1, <1>2 DEF IsList
  <2>2. D \subseteq C
    BY <1>3, <2>1
  <2> QED
    BY <2>1, <2>2, SeqMonotonic
<1>5. cells \in Seq(Seq(C))
  <2>1. cells \in [1..n -> Seq(C)]
    BY <1>2, <1>4
  <2> QED
    BY <2>1, SeqDef
<1>6. Quote \in C /\ Comma \in C
  BY <1>3
<1> QED
  BY <1>1, <1>5, <1>6

(* The lines that are not blank read back as the rows that were meant. *)
LEMMA LinesReadBack ==
  ASSUME NEW file, IsTable(file.rows)
  PROVE  \E n \in Nat :
           /\ n = Cardinality({k \in DOMAIN file.rows : Meant(file.rows[k])})
           /\ DOMAIN MeantRows(file) = 1..n /\ DOMAIN CsvLines(file.rows) = 1..n
           /\ MeantRows(file) = [k \in 1..n |-> MeantRows(file)[k]]
           /\ CsvLines(file.rows) = [k \in 1..n |-> CsvLines(file.rows)[k]]
           /\ \A k \in 1..n : ParseCsvRow(CsvLines(file.rows)[k]) = MeantRows(file)[k]
<1>1. PICK rows : rows = file.rows /\ IsTable(rows)
  OBVIOUS
<1>2. PICK m \in Nat : DOMAIN rows = 1..m
  BY <1>1, LenProperties DEF IsTable, IsList
<1>3. PICK S : S = {k \in DOMAIN rows : Meant(rows[k])}
  OBVIOUS
<1>4. S = {k \in DOMAIN rows : Trim(Line(rows[k])) # <<>>}
  <2>1. \A k \in DOMAIN rows : Meant(rows[k]) <=> Trim(Line(rows[k])) # <<>>
    BY <1>1, TableRow, LineBlank
  <2> QED
    BY <1>3, <2>1
<1>5. PICK kept : kept = InOrder(S)
  OBVIOUS
<1>6. PICK n \in Nat : n = Cardinality(S) /\ DOMAIN kept = 1..n /\ \A k \in 1..n : kept[k] \in S
  BY <1>2, <1>3, <1>5, InOrderTaken
<1>7. MeantRows(file) = [k \in 1..n |-> rows[kept[k]]]
  BY <1>1, <1>3, <1>5, <1>6 DEF MeantRows
<1>8. CsvLines(rows) = [k \in 1..n |-> Line(rows[kept[k]])]
  BY <1>4, <1>5, <1>6 DEF CsvLines
<1>9. ASSUME NEW k \in 1..n PROVE ParseCsvRow(Line(rows[kept[k]])) = rows[kept[k]]
  <2>1. PICK cells : cells = rows[kept[k]] /\ Meant(cells)
    BY <1>3, <1>6
  <2>2. PICK C : Quote \in C /\ Comma \in C /\ cells \in Seq(Seq(C))
    BY <1>1, <1>3, <1>6, <2>1, TableRow
  <2>3. Len(cells) > 0
    BY <2>1, <2>2, LenProperties DEF Meant
  <2> QED
    BY <2>1, <2>2, <2>3, LineReadsBack
<1>10. /\ DOMAIN MeantRows(file) = 1..n /\ DOMAIN CsvLines(rows) = 1..n
       /\ \A k \in 1..n : MeantRows(file)[k] = rows[kept[k]] /\ CsvLines(rows)[k] = Line(rows[kept[k]])
  BY <1>7, <1>8
<1>11. \A k \in 1..n : ParseCsvRow(CsvLines(rows)[k]) = MeantRows(file)[k]
  BY <1>9, <1>10
<1>12. /\ MeantRows(file) = [k \in 1..n |-> MeantRows(file)[k]]
       /\ CsvLines(rows) = [k \in 1..n |-> CsvLines(rows)[k]]
  BY <1>7, <1>8
<1>13. n = Cardinality({k \in DOMAIN file.rows : Meant(file.rows[k])})
  BY <1>1, <1>3, <1>6
<1> QED
  BY <1>1, <1>10, <1>11, <1>12, <1>13

(* A kind that is among the headers has a column. *)
LEMMA ColumnFound ==
  ASSUME NEW headers, IsList(headers), NEW kind
  PROVE  /\ Column(headers, kind) \in Nat
         /\ kind \in {headers[i] : i \in DOMAIN headers} => Column(headers, kind) # 0
<1>1. PICK n \in Nat : DOMAIN headers = 1..n
  BY LenProperties DEF IsList
<1>2. PICK S : S = {i \in DOMAIN headers : headers[i] = kind}
  OBVIOUS
<1>3. CASE S = {}
  <2>1. Column(headers, kind) = 0
    BY <1>2, <1>3 DEF Column
  <2> QED
    BY <1>2, <1>3, <2>1
<1>4. CASE S # {}
  <2>1. S \in SUBSET Nat
    BY <1>1, <1>2
  <2>2. \E x \in S : \A y \in S : x <= y
    BY <1>4, <2>1, Least
  <2>3. Min(S) \in S
    BY <2>2 DEF Min
  <2>4. Column(headers, kind) = Min(S)
    BY <1>2, <1>4 DEF Column
  <2> QED
    BY <1>1, <1>2, <2>3, <2>4
<1> QED
  BY <1>3, <1>4

LEMMA Product == \A a, b \in Nat \ {0} : a * b # 0
OBVIOUS

(* With both columns, a row is a feature or an error. *)
LEMMA FateOf ==
  ASSUME NEW file, IsList(file.headers), NEW cells,
         {"lat", "lng"} \subseteq {file.headers[i] : i \in DOMAIN file.headers}
  PROVE  RowFate(file.headers, cells) = IF Usable(file, cells) THEN "feature" ELSE "error"
<1>1. PICK headers : headers = file.headers
  OBVIOUS
<1>2. PICK a \in Nat \ {0}, b \in Nat \ {0} : a = Column(headers, "lat") /\ b = Column(headers, "lng")
  BY <1>1, ColumnFound
<1>3. a * b # 0
  BY Product
<1>4. Usable(file, cells) <=>
        Len(cells) = Len(headers) /\ ~IsNaN(cells[a]) /\ ~IsNaN(cells[b])
  BY <1>1, <1>2 DEF Usable
<1>5. CASE Len(cells) # Len(headers)
  BY <1>1, <1>4, <1>5 DEF RowFate
<1>6. CASE Len(cells) = Len(headers)
  <2>1. RowFate(headers, cells) = IF IsNaN(cells[a]) \/ IsNaN(cells[b]) THEN "error" ELSE "feature"
    BY <1>2, <1>3, <1>6, Zenon DEF RowFate
  <2> QED
    BY <1>1, <1>4, <1>6, <2>1
<1> QED
  BY <1>5, <1>6

(* Counting the positions up to one of them finds it again. *)
LEMMA InOrderAt ==
  ASSUME NEW n \in Nat, NEW S \in SUBSET (1..n), NEW k \in S
  PROVE  /\ Cardinality({i \in S : i <= k}) \in 1..Cardinality(S)
         /\ InOrder(S)[Cardinality({i \in S : i <= k})] = k
<1>1. IsFiniteSet(S)
  BY BoundedFinite
<1>2. ASSUME NEW i PROVE IsFiniteSet(Below(S, i)) /\ Cardinality(Below(S, i)) \in Nat
  BY <1>1, FS_Subset, FS_CardinalityType DEF Below
<1>3. PICK T : T = {i \in S : i <= k}
  OBVIOUS
<1>4. Below(S, k) = T \ {k} /\ k \in T /\ T \subseteq S
  <2>1. \A j \in S : j < k <=> j <= k /\ j # k
    OBVIOUS
  <2>2. k <= k
    OBVIOUS
  <2> QED
    BY <1>3, <2>1, <2>2, Zenon DEF Below
<1>5. IsFiniteSet(T) /\ Cardinality(T) \in Nat /\ Cardinality(T) <= Cardinality(S)
  BY <1>1, <1>4, FS_Subset, FS_CardinalityType
<1>6. Cardinality(Below(S, k)) = Cardinality(T) - 1
  BY <1>4, <1>5, FS_RemoveElement
<1>7. PICK r \in 1..Cardinality(S) : r = Cardinality(T) /\ Cardinality(Below(S, k)) = r - 1
  <2>1. Cardinality(S) \in Nat /\ Cardinality(Below(S, k)) \in Nat
    BY <1>1, <1>2, FS_CardinalityType
  <2> QED
    BY <1>5, <1>6, <2>1
<1>8. ASSUME NEW i \in S, Cardinality(Below(S, i)) = r - 1 PROVE i = k
  <2>1. \A p, q \in S : p < q => Cardinality(Below(S, p)) < Cardinality(Below(S, q))
    <3> SUFFICES ASSUME NEW p \in S, NEW q \in S, p < q
                 PROVE  Cardinality(Below(S, p)) < Cardinality(Below(S, q))
      OBVIOUS
    <3>1. Below(S, p) \subseteq Below(S, q) \ {p} /\ p \in Below(S, q)
      <4>1. \A j \in S : j < p => j < q /\ j # p
        OBVIOUS
      <4> QED
        BY <4>1, Zenon DEF Below
    <3>2. Cardinality(Below(S, q) \ {p}) = Cardinality(Below(S, q)) - 1
      BY <1>2, <3>1, FS_RemoveElement
    <3>3. Cardinality(Below(S, p)) <= Cardinality(Below(S, q) \ {p})
      BY <1>2, <3>1, FS_Subset, FS_RemoveElement
    <3> QED
      BY <1>2, <3>2, <3>3
  <2>2. ~(i < k) /\ ~(k < i)
    BY <1>2, <1>7, <1>8, <2>1
  <2> QED
    BY <2>2
<1>9. (CHOOSE i \in S : Cardinality(Below(S, i)) = r - 1) = k
  BY <1>7, <1>8
<1>10. InOrder(S)[r] = k
  BY <1>9 DEF InOrder, Below
<1> QED
  BY <1>3, <1>7, <1>10

(* The rows the parser reads, those that meet a fate, and the feature of one. *)
RowsOfLines(lines) == [i \in DOMAIN lines |-> ParseCsvRow(lines[i])]

Fated(headers, rows, fate) == {i \in DOMAIN rows : RowFate(headers, rows[i]) = fate}

FeatureOfRow(headers, rows, i) ==
  [type |-> "Point", properties |-> Properties(headers, rows[i]),
   name |-> NameOf(Properties(headers, rows[i]), <<"Point ", ToString(i)>>)]

FeaturesAt(headers, rows, good) == [k \in DOMAIN good |-> FeatureOfRow(headers, rows, good[k])]

ErrorsAt(bad) == [k \in DOMAIN bad |-> bad[k] + 1]

(* What the parser makes of its lines, in those terms. *)
LEMMA RowsAnswered ==
  ASSUME NEW headers, NEW lines,
         ~(Len(lines) = 0 \/ Column(headers, "lat") + Column(headers, "wkt") = 0)
  PROVE  /\ ParseCsv(headers, lines).features =
              FeaturesAt(headers, RowsOfLines(lines),
                         InOrder(Fated(headers, RowsOfLines(lines), "feature")))
         /\ ParseCsv(headers, lines).errors =
              ErrorsAt(InOrder(Fated(headers, RowsOfLines(lines), "error")))
<1>1. PICK rows : rows = RowsOfLines(lines) /\ rows = [i \in DOMAIN lines |-> ParseCsvRow(lines[i])]
  BY DEF RowsOfLines
<1>2. PICK S, R : /\ S = {i \in DOMAIN rows : RowFate(headers, rows[i]) = "feature"}
                  /\ R = {i \in DOMAIN rows : RowFate(headers, rows[i]) = "error"}
  OBVIOUS
<1>3. S = Fated(headers, rows, "feature") /\ R = Fated(headers, rows, "error")
  BY <1>2 DEF Fated
<1>4. PICK good, bad : good = InOrder(S) /\ bad = InOrder(R)
  OBVIOUS
<1>5. ParseCsv(headers, lines).features = FeaturesAt(headers, rows, good)
  BY <1>1, <1>2, <1>4 DEF ParseCsv, Parsed, FeaturesAt, FeatureOfRow
<1>6. ParseCsv(headers, lines).errors = ErrorsAt(bad)
  BY <1>1, <1>2, <1>4 DEF ParseCsv, Parsed, ErrorsAt
<1> QED
  BY <1>1, <1>3, <1>4, <1>5, <1>6

(* What the parser answers for a file whose rows have both coordinates. *)
(* The result names the rows in G as features and the others as errors. *)
SplitsBy(G, file, m, n) ==
  LET good == InOrder(G)
      bad == InOrder((1..n) \ G)
      result == Parse(file)
  IN /\ \A k \in 1..n : k \in G <=> Usable(file, m[k])
     /\ Len(result.features) = Cardinality(G)
     /\ Len(result.errors) = Cardinality((1..n) \ G)
     /\ DOMAIN result.errors = DOMAIN bad
     /\ \A k \in DOMAIN bad : result.errors[k] = bad[k] + 1
     /\ \A k \in DOMAIN good :
          result.features[k].properties = Properties(file.headers, m[good[k]])

LEMMA Answered ==
  ASSUME NEW file, file.format = "csv", IsFile(file), MeantRows(file) # <<>>,
         {"lat", "lng"} \subseteq {file.headers[i] : i \in DOMAIN file.headers},
         NEW m, m = MeantRows(file)
  PROVE  \E n \in Nat : /\ DOMAIN m = 1..n /\ Len(m) = n
                       /\ \E G \in SUBSET (1..n) : SplitsBy(G, file, m, n)
<1>1. PICK headers, lines : headers = file.headers /\ lines = CsvLines(file.rows)
  OBVIOUS
<1>2. IsList(headers) /\ IsTable(file.rows)
  BY <1>1 DEF IsFile
<1>3. PICK n \in Nat : /\ DOMAIN m = 1..n /\ DOMAIN lines = 1..n
                       /\ m = [k \in 1..n |-> m[k]] /\ lines = [k \in 1..n |-> lines[k]]
                       /\ \A k \in 1..n : ParseCsvRow(lines[k]) = m[k]
  BY <1>1, <1>2, LinesReadBack
<1>4. Len(m) = n /\ Len(lines) = n /\ n # 0
  <2>1. Len(m) = n /\ Len(lines) = n /\ IsList(m)
    BY <1>3, ListOf
  <2>2. n # 0
    BY <2>1, EmptySeq DEF IsList
  <2> QED
    BY <2>1, <2>2
<1>5. Column(headers, "lat") + Column(headers, "wkt") # 0
  <2>1. Column(headers, "lat") \in Nat \ {0} /\ Column(headers, "wkt") \in Nat
    BY <1>1, <1>2, ColumnFound
  <2> QED
    BY <2>1
<1>6. [i \in DOMAIN lines |-> ParseCsvRow(lines[i])] = m
  BY <1>3
<1>7. PICK G : G = {i \in DOMAIN m : RowFate(headers, m[i]) = "feature"}
  OBVIOUS
<1>8. \A i \in DOMAIN m : RowFate(headers, m[i]) = IF Usable(file, m[i]) THEN "feature" ELSE "error"
  BY <1>1, <1>2, FateOf
<1>9. G \in SUBSET (1..n) /\ \A k \in 1..n : k \in G <=> Usable(file, m[k])
  BY <1>3, <1>7, <1>8
<1>10. (1..n) \ G = {i \in DOMAIN m : RowFate(headers, m[i]) = "error"}
  BY <1>3, <1>7, <1>8
<1>11. PICK good, bad : good = InOrder(G) /\ bad = InOrder((1..n) \ G)
  OBVIOUS
<1>12. PICK g \in Nat, b \in Nat :
         /\ g = Cardinality(G) /\ DOMAIN good = 1..g
         /\ b = Cardinality((1..n) \ G) /\ DOMAIN bad = 1..b
  BY <1>9, <1>11, InOrderTaken
<1>13. PICK features, errors : features = FeaturesAt(headers, m, good) /\ errors = ErrorsAt(bad)
  OBVIOUS
<1>14. Parse(file).features = features /\ Parse(file).errors = errors
  <2>1. ~(Len(lines) = 0 \/ Column(headers, "lat") + Column(headers, "wkt") = 0)
    BY <1>4, <1>5
  <2>2. RowsOfLines(lines) = m
    BY <1>6 DEF RowsOfLines
  <2>3. Fated(headers, m, "feature") = G /\ Fated(headers, m, "error") = (1..n) \ G
    BY <1>7, <1>10 DEF Fated
  <2>4. ParseCsv(headers, lines).features = features /\ ParseCsv(headers, lines).errors = errors
    BY <1>11, <1>13, <2>1, <2>2, <2>3, RowsAnswered
  <2>5. Parse(file) = ParseCsv(headers, lines)
    BY <1>1 DEF Parse
  <2> QED
    BY <2>4, <2>5
<1>15. Len(features) = g /\ Len(errors) = b
  <2>1. features = [k \in 1..g |-> features[k]] /\ errors = [k \in 1..b |-> errors[k]]
    BY <1>12, <1>13 DEF FeaturesAt, ErrorsAt
  <2> QED
    BY <2>1, ListOf
<1>16. ASSUME NEW k \in 1..g PROVE features[k].properties = Properties(headers, m[good[k]])
  <2>1. features[k] = FeatureOfRow(headers, m, good[k])
    BY <1>12, <1>13 DEF FeaturesAt
  <2>2. FeatureOfRow(headers, m, good[k]).properties = Properties(headers, m[good[k]])
    BY DEF FeatureOfRow
  <2> QED
    BY <2>1, <2>2
<1>17. DOMAIN errors = DOMAIN bad /\ \A k \in DOMAIN bad : errors[k] = bad[k] + 1
  BY <1>12, <1>13 DEF ErrorsAt
<1>18. SplitsBy(G, file, m, n)
  BY <1>1, <1>9, <1>11, <1>12, <1>14, <1>15, <1>16, <1>17 DEF SplitsBy
<1> QED
  BY <1>3, <1>4, <1>9, <1>18

(* Every row that was meant is accounted for once. *)
AccountedFor(file, m) ==
  /\ Len(Parse(file).features) + Len(Parse(file).errors) = Len(m)
  /\ \A k \in DOMAIN m :
       IF Usable(file, m[k])
       THEN Parse(file).features[Cardinality({i \in 1..k : Usable(file, m[i])})].properties =
              Properties(file.headers, m[k])
       ELSE \E e \in DOMAIN Parse(file).errors : Parse(file).errors[e] = k + 1

LEMMA FileAccounted ==
  ASSUME NEW file, file.format = "csv", IsFile(file),
         {"lat", "lng"} \subseteq {file.headers[i] : i \in DOMAIN file.headers},
         NEW m, m = MeantRows(file), m # <<>>
  PROVE  AccountedFor(file, m)
<1>1. PICK n \in Nat : /\ DOMAIN m = 1..n /\ Len(m) = n
                       /\ \E G \in SUBSET (1..n) : SplitsBy(G, file, m, n)
  BY Answered
<1>2. PICK G \in SUBSET (1..n) : SplitsBy(G, file, m, n)
  BY <1>1
<1>3. PICK good, bad :
        /\ good = InOrder(G) /\ bad = InOrder((1..n) \ G)
        /\ \A k \in 1..n : k \in G <=> Usable(file, m[k])
        /\ Len(Parse(file).features) = Cardinality(G)
        /\ Len(Parse(file).errors) = Cardinality((1..n) \ G)
        /\ DOMAIN Parse(file).errors = DOMAIN bad
        /\ \A k \in DOMAIN bad : Parse(file).errors[k] = bad[k] + 1
        /\ \A k \in DOMAIN good :
             Parse(file).features[k].properties = Properties(file.headers, m[good[k]])
  BY <1>2 DEF SplitsBy
<1>4. Cardinality(G) + Cardinality((1..n) \ G) = n
  <2>1. IsFiniteSet(1..n) /\ Cardinality(1..n) = n
    BY FS_Interval
  <2>2. PICK g \in Nat : g = Cardinality(G) /\ (1..n) \cap G = G
    BY InOrderTaken
  <2>3. Cardinality((1..n) \ G) = n - g
    BY <2>1, <2>2, FS_Difference
  <2> QED
    BY <2>2, <2>3
<1>5. ASSUME NEW k \in 1..n, k \in G
      PROVE  Parse(file).features[Cardinality({i \in 1..k : Usable(file, m[i])})].properties =
               Properties(file.headers, m[k])
  <2>1. {i \in 1..k : Usable(file, m[i])} = {i \in G : i <= k}
    <3>1. \A i : i \in 1..k <=> i \in 1..n /\ i <= k
      OBVIOUS
    <3>2. \A i \in 1..n : i \in G <=> Usable(file, m[i])
      BY <1>3
    <3> QED
      BY <3>1, <3>2, Zenon
  <2>2. PICK r : r = Cardinality({i \in G : i <= k}) /\ r \in DOMAIN good /\ good[r] = k
    <3>1. DOMAIN good = 1..Cardinality(G)
      BY <1>3, InOrderTaken
    <3> QED
      BY <1>3, <1>5, <3>1, InOrderAt
  <2> QED
    BY <1>3, <2>1, <2>2
<1>6. ASSUME NEW k \in 1..n, k \notin G
      PROVE  \E e \in DOMAIN Parse(file).errors : Parse(file).errors[e] = k + 1
  <2>1. PICK B \in SUBSET (1..n) : B = (1..n) \ G /\ k \in B
    BY <1>6
  <2>3. bad = InOrder(B)
    BY <1>3, <2>1
  <2>2. PICK r : r = Cardinality({i \in B : i <= k}) /\ r \in DOMAIN bad /\ bad[r] = k
    <3>1. DOMAIN bad = 1..Cardinality(B)
      BY <2>3, InOrderTaken
    <3>2. PICK r : r = Cardinality({i \in B : i <= k}) /\ r \in 1..Cardinality(B) /\ InOrder(B)[r] = k
      BY <2>1, InOrderAt
    <3> QED
      BY <2>3, <3>1, <3>2
  <2> QED
    BY <1>3, <2>2
<1> QED
  BY <1>1, <1>3, <1>4, <1>5, <1>6 DEF AccountedFor

(* Of a CSV file with latitude and longitude columns the parser drops no row,  *)
(* reads none twice and mixes none up: in the order of the rows, each is a     *)
(* feature with the very cells that were written or an error with its number,  *)
(* for every set of files a caller may upload.                                 *)
THEOREM RowsAreAccounted == Spec => []CsvRowsAccounted
<1>1. ExportInv => CsvRowsAccounted
  <2> SUFFICES ASSUME ExportInv, NEW c \in Callers,
                      At(c, "uploaded"), call[c].file.format = "csv",
                      {"lat", "lng"} \subseteq
                        {call[c].file.headers[i] : i \in DOMAIN call[c].file.headers},
                      NEW file, file = call[c].file, NEW m, m = MeantRows(file), m # <<>>
               PROVE  AccountedFor(file, m)
    BY Zenon DEF CsvRowsAccounted, AccountedFor
  <2>1. IsFile(file)
    BY DEF ExportInv, CompleteCall
  <2> QED
    BY <2>1, FileAccounted
<1> QED
  BY <1>1, ExportInvariant, PTL

==============================================================================
