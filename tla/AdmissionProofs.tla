---------------------------- MODULE AdmissionProofs ----------------------------
(***************************************************************************)
(* Theorems about Admission for any number of documents, requests and      *)
(* contents.  What a holder of the admission lock found when it took it is *)
(* still so when it commits: that is what the invariant adds.              *)
(***************************************************************************)
EXTENDS Admission, FiniteSetTheorems, TLAPS

(* The admission lock has one holder.                                      *)
ExclusiveInv ==
  \A r \in Requests : request[r] # Idle =>
    removal = NoRemoval /\ \A q \in Requests \ {r} : request[q] = Idle

(* An upload's content has no row yet, and once it is stored, its object.  *)
UploadInv ==
  \A r \in Requests : request[r] # Idle =>
    /\ \A d \in Taken : rows[d].content # request[r].content
    /\ request[r].at = "creating" => request[r].content \in objects \cup struck

(* A removal's document is marked, and its object is gone unless another   *)
(* document has it or it was stored for nobody.                            *)
RemovalInv ==
  removal # NoRemoval =>
    /\ removal.at # "idle" /\ removal.document \in Taken /\ rows[removal.document].deleting
    /\ removal.at = "cleared" =>
         \/ \E e \in Taken \ {removal.document} :
              rows[e].content = rows[removal.document].content
         \/ rows[removal.document].content \notin objects
         \/ rows[removal.document].content \in stray

IInv ==
  /\ TypeOK /\ ExclusiveInv /\ UploadInv /\ RemovalInv
  /\ OneRowPerContent /\ SourceKept /\ NothingLeftBehind /\ CoursesMatch

-----------------------------------------------------------------------------
(* What is reserved for a document with pages is a number, and not 0.      *)
LEMMA ReservationType ==
  ASSUME NEW pages \in Nat
  PROVE  chunk_reservation(pages) \in Nat /\ (pages # 0 => chunk_reservation(pages) # 0)
<1> DEFINE a == MaxChunksPerDocument
           b == pages * ChunkReservationPerPage
<1>1. a \in Nat \ {0} /\ ChunkReservationPerPage \in Nat \ {0}
  BY LimitsAssumption
<1>2. b \in Nat /\ (pages # 0 => b # 0)
  BY <1>1
<1>3. \E x \in {a, b} : \A y \in {a, b} : x <= y
  BY <1>1, <1>2
<1>4. Min({a, b}) \in {a, b}
  BY <1>3 DEF Min
<1>5. QED
  BY <1>1, <1>2, <1>4 DEF chunk_reservation

(* The invariant holds of an installation, with or without legacy rows.    *)
LEMMA InitIInv == Init => IInv
<1> SUFFICES ASSUME Init PROVE IInv
  OBVIOUS
<1>1. PICK present \in SUBSET Legacy, content \in Contents :
        /\ rows = [d \in Documents |->
                     IF d \in present
                     THEN [NoRow EXCEPT !.status = "ready", !.content = content, !.again = TRUE]
                     ELSE NoRow]
        /\ courses = IF present = {} THEN {} ELSE {CourseOf[content]}
        /\ objects = IF present = {} THEN {} ELSE {content}
  BY DEF Init
<1>2. Taken = present /\ \A d \in Taken : rows[d].content = content /\ ~rows[d].deleting
  BY <1>1, DocumentsAssumption DEF Taken, NoRow
<1>3. TypeOK
  <2>1. rows \in [Documents -> Rows] /\ \A d \in Documents : RowOK(d)
    BY <1>1, DocumentsAssumption DEF NoRow, Rows, Statuses, RowOK, Deletable
  <2>2. courses \subseteq Courses
    BY <1>1, ContentsAssumption
  <2>3. QED
    BY <2>1, <2>2, <1>1 DEF Init, TypeOK, Sessions, Idle, NoRemoval
<1>4. ExclusiveInv /\ UploadInv /\ RemovalInv
  BY DEF Init, ExclusiveInv, UploadInv, RemovalInv
<1>5. OneRowPerContent
  BY <1>2 DEF OneRowPerContent
<1>6. CASE present = {}
  BY <1>1, <1>2, <1>3, <1>4, <1>5, <1>6
     DEF IInv, SourceKept, NothingLeftBehind, CoursesMatch
<1>7. CASE present # {}
  <2>1. courses = {CourseOf[content]} /\ objects = {content} /\ Taken # {}
    BY <1>1, <1>2, <1>7
  <2>2. {rows[d].content : d \in Taken} = {content}
    BY <1>2, <2>1
  <2>3. {CourseOf[rows[d].content] : d \in Taken} = {CourseOf[content]}
    BY <1>2, <2>1
  <2>4. QED
    BY <1>2, <1>3, <1>4, <1>5, <2>1, <2>2, <2>3
       DEF IInv, SourceKept, NothingLeftBehind, CoursesMatch
<1>8. QED
  BY <1>6, <1>7

(* A document's own work neither adds nor removes rows.                    *)
LEMMA RowSteps ==
  ASSUME IInv, NEW d \in Documents, NEW row \in Rows, Row(d, row), UNCHANGED Others,
         d \in Taken, row.status # "none", row.content = rows[d].content,
         rows[d].deleting => row.deleting,
         row.deleting => row.status \in {"ready", "failed"}
  PROVE  IInv'
<1>1. rows' \in [Documents -> Rows] /\ rows'[d] = row
      /\ \A e \in Documents \ {d} : rows'[e] = rows[e]
  BY DEF IInv, TypeOK, Row
<1>2. Taken' = Taken /\ \A e \in Taken : /\ rows'[e].content = rows[e].content
                                         /\ rows[e].deleting => rows'[e].deleting
  BY <1>1 DEF Taken
<1>3. \A e \in Documents : RowOK(e)'
  <2> SUFFICES ASSUME NEW e \in Documents PROVE RowOK(e)'
    OBVIOUS
  <2>1. CASE e = d
    BY <1>1, <2>1 DEF RowOK, Deletable, IInv, TypeOK, Taken, NoRow
  <2>2. CASE e # d
    BY <1>1, <2>2 DEF RowOK, Deletable, IInv, TypeOK
  <2>3. QED
    BY <2>1, <2>2
<1>4. TypeOK'
  BY <1>1, <1>3 DEF IInv, TypeOK, Others
<1>5. ExclusiveInv' /\ UploadInv' /\ RemovalInv'
  BY <1>2 DEF IInv, ExclusiveInv, UploadInv, RemovalInv, Others
<1>6. OneRowPerContent' /\ SourceKept' /\ NothingLeftBehind' /\ CoursesMatch'
  BY <1>2 DEF IInv, OneRowPerContent, SourceKept, NothingLeftBehind, CoursesMatch, Others
<1>7. QED
  BY <1>4, <1>5, <1>6 DEF IInv

(* Reservations, outcomes, recoveries, retries and the removal flag.       *)
LEMMA WorkSteps ==
  ASSUME IInv, NEW d \in Documents,
         Reserve(d) \/ Complete(d) \/ Fail(d) \/ Recover(d) \/ Retry(d) \/ RequestRemoval(d)
  PROVE  IInv'
<1>1. rows[d] \in Rows /\ (rows[d].deleting => rows[d].status \in {"ready", "failed"})
  BY DEF IInv, TypeOK, RowOK, Deletable
<1>2. CASE Reserve(d)
  <2>1. PICK chunks \in 1..MaxChunksPerDocument :
          Row(d, [rows[d] EXCEPT !.status = "indexing", !.chunks = chunks,
                                 !.pages = PagesOf[rows[d].content]])
    BY <1>2 DEF Reserve
  <2>2. d \in Taken /\ rows[d].content \in Contents /\ ~rows[d].deleting
    BY <1>1, <1>2 DEF Reserve, Taken, IInv, TypeOK, RowOK
  <2>3. chunks \in Nat /\ PagesOf[rows[d].content] \in Nat
    BY <2>2, LimitsAssumption, ContentsAssumption
  <2> DEFINE row == [rows[d] EXCEPT !.status = "indexing", !.chunks = chunks,
                                    !.pages = PagesOf[rows[d].content]]
  <2>4. /\ row \in Rows /\ row.status = "indexing" /\ row.content = rows[d].content
        /\ row.deleting = rows[d].deleting
    BY <1>1, <2>3 DEF Rows, Statuses
  <2>5. QED
    BY <1>2, <2>1, <2>2, <2>4, RowSteps DEF Reserve
<1>3. CASE Complete(d)
  <2>1. PICK again \in BOOLEAN : Row(d, [rows[d] EXCEPT !.status = "ready", !.again = again])
    BY <1>3 DEF Complete
  <2> DEFINE row == [rows[d] EXCEPT !.status = "ready", !.again = again]
  <2>2. /\ row \in Rows /\ row.status = "ready" /\ row.content = rows[d].content
        /\ row.deleting = rows[d].deleting
    BY <1>1 DEF Rows, Statuses
  <2>3. QED
    BY <1>3, <2>1, <2>2, RowSteps DEF Complete, Taken
<1>4. CASE Fail(d)
  <2>1. PICK again \in BOOLEAN : Row(d, [rows[d] EXCEPT !.status = "failed", !.again = again])
    BY <1>4 DEF Fail
  <2> DEFINE row == [rows[d] EXCEPT !.status = "failed", !.again = again]
  <2>2. /\ row \in Rows /\ row.status = "failed" /\ row.content = rows[d].content
        /\ row.deleting = rows[d].deleting
    BY <1>1 DEF Rows, Statuses
  <2>3. QED
    BY <1>4, <2>1, <2>2, RowSteps DEF Fail, Active, Taken
<1>5. CASE Recover(d)
  <2> DEFINE row == [rows[d] EXCEPT !.status = "queued"]
  <2>1. /\ row \in Rows /\ row.status = "queued" /\ row.content = rows[d].content
        /\ ~rows[d].deleting /\ ~row.deleting
    BY <1>1, <1>5 DEF Rows, Statuses, Recover
  <2>2. QED
    BY <1>5, <2>1, RowSteps DEF Recover, Taken
<1>6. CASE Retry(d)
  <2> DEFINE row == [rows[d] EXCEPT !.status = "queued", !.again = FALSE]
  <2>1. /\ row \in Rows /\ row.status = "queued" /\ row.content = rows[d].content
        /\ ~rows[d].deleting /\ ~row.deleting
    BY <1>1, <1>6 DEF Rows, Statuses, Retry
  <2>2. QED
    BY <1>6, <2>1, RowSteps DEF Retry, Taken
<1>7. CASE RequestRemoval(d)
  <2> DEFINE row == [rows[d] EXCEPT !.deleting = TRUE]
  <2>1. /\ row \in Rows /\ row.status = rows[d].status /\ row.content = rows[d].content
        /\ row.deleting /\ rows[d].status \in {"ready", "failed"}
    BY <1>1, <1>7 DEF Rows, RequestRemoval, Deletable
  <2>2. QED
    BY <1>7, <2>1, RowSteps DEF RequestRemoval, Taken
<1>8. QED
  BY <1>2, <1>3, <1>4, <1>5, <1>6, <1>7

(* An upload is given the lock while the content has no row.               *)
LEMMA UploadBegins ==
  ASSUME IInv, NEW r \in Requests, NEW content \in Contents, Upload(r, content)
  PROVE  IInv'
<1>1. /\ request' = [request EXCEPT ![r] = [at |-> "storing", content |-> content,
                                           new |-> CourseOf[content] \notin courses]]
      /\ UNCHANGED <<rows, courses, objects, late, removal, struck, stray>>
      /\ removal = NoRemoval /\ \A q \in Requests : request[q] = Idle
      /\ \A d \in Taken : rows[d].content # content
  BY DEF Upload, Unlocked, Holding
<1>2. Taken' = Taken
  BY <1>1 DEF Taken
<1>3. request' \in [Requests -> Sessions]
  BY <1>1 DEF IInv, TypeOK, Sessions
<1>4. TypeOK'
  BY <1>1, <1>3 DEF IInv, TypeOK, RowOK, Deletable, Idle
<1>5. ExclusiveInv' /\ RemovalInv'
  BY <1>1 DEF IInv, TypeOK, ExclusiveInv, RemovalInv
<1>6. UploadInv'
  BY <1>1, <1>2 DEF IInv, TypeOK, UploadInv
<1>7. OneRowPerContent' /\ SourceKept' /\ CoursesMatch'
  BY <1>1, <1>2 DEF IInv, OneRowPerContent, SourceKept, CoursesMatch
<1>8. NothingLeftBehind'
  <2>1. \A q \in Requests : request[q].content \notin Contents
    BY <1>1, ContentsAssumption DEF Idle
  <2>2. QED
    BY <1>1, <1>2, <2>1 DEF IInv, TypeOK, NothingLeftBehind
<1>9. QED
  BY <1>4, <1>5, <1>6, <1>7, <1>8 DEF IInv

(* The object is written before the row is.                                *)
LEMMA StoreStep ==
  ASSUME IInv, NEW r \in Requests, Store(r)
  PROVE  IInv'
<1> DEFINE content == request[r].content
<1>1. /\ request[r].at = "storing" /\ content \in Contents
      /\ request' = [request EXCEPT ![r].at = "creating"]
      /\ objects' = objects \cup {content} /\ struck' = struck \ {content}
      /\ UNCHANGED <<rows, courses, late, removal, stray>>
  BY DEF Store, IInv, TypeOK, Idle
<1>2. Taken' = Taken
  BY <1>1 DEF Taken
<1>3. /\ request' \in [Requests -> Sessions]
      /\ request'[r].at = "creating" /\ request'[r].content = content
      /\ \A q \in Requests \ {r} : request'[q] = request[q]
  BY <1>1 DEF IInv, TypeOK, Sessions
<1>4. TypeOK'
  BY <1>1, <1>3 DEF IInv, TypeOK, RowOK, Deletable
<1>5. request[r] # Idle /\ \A q \in Requests \ {r} : request'[q] = Idle
  BY <1>1, <1>3 DEF IInv, ExclusiveInv, Idle
<1>6. removal = NoRemoval
  BY <1>5 DEF IInv, ExclusiveInv
<1>7. ExclusiveInv' /\ RemovalInv'
  BY <1>1, <1>5, <1>6 DEF ExclusiveInv, RemovalInv
<1>8. UploadInv'
  BY <1>1, <1>2, <1>3, <1>5 DEF IInv, UploadInv
<1>9. OneRowPerContent' /\ SourceKept' /\ CoursesMatch'
  BY <1>1, <1>2 DEF IInv, OneRowPerContent, SourceKept, CoursesMatch
<1>10. NothingLeftBehind'
  BY <1>1, <1>2, <1>3 DEF IInv, NothingLeftBehind
<1>11. QED
  BY <1>4, <1>7, <1>8, <1>9, <1>10 DEF IInv

(* The row is the first of its content, and its course is there.           *)
LEMMA CreateStep ==
  ASSUME IInv, NEW r \in Requests, NEW d \in Documents, Create(r, d)
  PROVE  IInv'
<1> DEFINE content == request[r].content
           row == [status |-> "queued", content |-> content, pages |-> PagesOf[content],
                   chunks |-> chunk_reservation(PagesOf[content]),
                   again |-> FALSE, deleting |-> FALSE]
<1>1. /\ request[r].at = "creating" /\ content \in Contents
      /\ d \notin Legacy /\ rows[d] = NoRow
      /\ rows' = [rows EXCEPT ![d] = row]
      /\ courses' = courses \cup {CourseOf[content]}
      /\ request' = [request EXCEPT ![r] = Idle]
      /\ stray' = stray \ {content}
      /\ UNCHANGED <<objects, late, removal, struck>>
  BY DEF Create, IInv, TypeOK, Idle
<1>2. PagesOf[content] \in Nat /\ CourseOf[content] \in Courses
  BY <1>1, ContentsAssumption
<1>3. row \in Rows
  BY <1>1, <1>2, ReservationType DEF Rows, Statuses
<1>4. /\ rows' \in [Documents -> Rows] /\ rows'[d] = row
      /\ \A e \in Documents \ {d} : rows'[e] = rows[e]
  BY <1>1, <1>3 DEF IInv, TypeOK
<1>5. d \notin Taken /\ Taken' = Taken \cup {d}
  BY <1>1, <1>4 DEF Taken, NoRow
<1>6. request[r] # Idle /\ removal = NoRemoval /\ \A q \in Requests : request'[q] = Idle
  <2>1. request[r] # Idle
    BY <1>1 DEF Idle
  <2>2. removal = NoRemoval /\ \A q \in Requests \ {r} : request[q] = Idle
    BY <2>1 DEF IInv, ExclusiveInv
  <2>3. QED
    BY <1>1, <2>1, <2>2 DEF IInv, TypeOK
<1>7. TypeOK'
  <2>1. \A e \in Documents : RowOK(e)'
    BY <1>1, <1>4 DEF IInv, TypeOK, RowOK, Deletable, NoRow
  <2>2. request' \in [Requests -> Sessions]
    BY <1>1, <1>6 DEF IInv, TypeOK, Sessions, Idle
  <2>3. QED
    BY <1>1, <1>2, <1>4, <1>6, <2>1, <2>2 DEF IInv, TypeOK, Idle
<1>8. ExclusiveInv' /\ UploadInv' /\ RemovalInv'
  BY <1>1, <1>6 DEF ExclusiveInv, UploadInv, RemovalInv
<1>9. /\ \A e \in Taken : rows[e].content # content /\ rows'[e] = rows[e]
      /\ content \in objects \cup struck
  BY <1>1, <1>4, <1>5, <1>6 DEF IInv, UploadInv, Taken
<1>10. OneRowPerContent' /\ SourceKept'
  BY <1>1, <1>4, <1>5, <1>9 DEF IInv, OneRowPerContent, SourceKept
<1>11. CoursesMatch'
  BY <1>1, <1>4, <1>5, <1>9 DEF IInv, CoursesMatch
<1>12. NothingLeftBehind'
  <2> SUFFICES ASSUME NEW c \in objects, c \notin stray'
               PROVE  \E e \in Taken' : rows'[e].content = c
    BY <1>1 DEF NothingLeftBehind
  <2>1. CASE c = content
    BY <1>4, <1>5, <2>1
  <2>2. CASE c # content
    <3>1. c \notin stray /\ c \in Contents
      BY <1>1, <2>2 DEF IInv, TypeOK
    <3>2. \A q \in Requests : request[q].content # c
      BY <1>6, <2>2, <3>1, ContentsAssumption DEF IInv, ExclusiveInv, Idle
    <3>3. \E e \in Taken : rows[e].content = c
      BY <3>1, <3>2 DEF IInv, NothingLeftBehind
    <3>4. QED
      BY <1>5, <1>9, <3>3
  <2>3. QED
    BY <2>1, <2>2
<1>13. QED
  BY <1>7, <1>8, <1>10, <1>11, <1>12 DEF IInv

(* What an interrupted upload leaves is known to be stray.                 *)
LEMMA UploadStopsStep ==
  ASSUME IInv, NEW r \in Requests, UploadStops(r)
  PROVE  IInv'
<1> DEFINE content == request[r].content
<1>1. /\ request[r] # Idle /\ content \in Contents
      /\ objects \subseteq objects' /\ objects' \subseteq objects \cup {content}
      /\ late' \subseteq late \cup {[op |-> "put", content |-> content]}
      /\ request' = [request EXCEPT ![r] = Idle]
      /\ stray' = stray \cup {content}
      /\ UNCHANGED <<rows, courses, removal, struck>>
  BY DEF UploadStops, IInv, TypeOK
<1>2. Taken' = Taken
  BY <1>1 DEF Taken
<1>3. removal = NoRemoval /\ \A q \in Requests \ {r} : request[q] = Idle
  BY <1>1 DEF IInv, ExclusiveInv
<1>4. \A q \in Requests : request'[q] = Idle
  BY <1>1, <1>3 DEF IInv, TypeOK
<1>5. request' \in [Requests -> Sessions]
  BY <1>1, <1>4 DEF IInv, TypeOK, Sessions, Idle
<1>6. TypeOK'
  <2>1. rows' \in [Documents -> Rows] /\ \A d \in Documents : RowOK(d)'
    BY <1>1 DEF IInv, TypeOK, RowOK, Deletable
  <2>2. late' \subseteq [op : {"put", "delete"}, content : Contents]
    BY <1>1 DEF IInv, TypeOK
  <2>3. \A q \in Requests : request'[q].at = "idle"
    BY <1>4 DEF Idle
  <2>4. QED
    BY <1>1, <1>4, <1>5, <2>1, <2>2, <2>3 DEF IInv, TypeOK
<1>7. ExclusiveInv' /\ UploadInv' /\ RemovalInv'
  BY <1>1, <1>3, <1>4 DEF ExclusiveInv, UploadInv, RemovalInv
<1>8. OneRowPerContent' /\ SourceKept' /\ CoursesMatch'
  BY <1>1, <1>2 DEF IInv, OneRowPerContent, SourceKept, CoursesMatch
<1>9. NothingLeftBehind'
  <2> SUFFICES ASSUME NEW c \in objects', c \notin stray'
               PROVE  \E e \in Taken' : rows'[e].content = c
    BY DEF NothingLeftBehind
  <2>1. c \in objects /\ c \notin stray /\ c # content /\ c \in Contents
    BY <1>1 DEF IInv, TypeOK
  <2>2. \A q \in Requests : request[q].content # c
    BY <1>3, <2>1, ContentsAssumption DEF Idle
  <2>3. QED
    BY <1>1, <1>2, <2>1, <2>2 DEF IInv, NothingLeftBehind
<1>10. QED
  BY <1>6, <1>7, <1>8, <1>9 DEF IInv

(* Steps that neither touch rows nor requests.                             *)
LEMMA StorageOnly ==
  ASSUME IInv, UNCHANGED <<rows, courses, request>>, TypeOK', ExclusiveInv', RemovalInv',
         \A c \in objects : c \in objects' \/ c \in struck' \/ \A d \in Taken :
           rows[d].content = c => rows[d].deleting,
         objects' \subseteq objects \cup stray', struck \subseteq struck',
         \A c \in stray : c \in stray' \/ c \notin objects',
         \A r \in Requests : request[r].at = "creating" =>
           request[r].content \in objects' \cup struck'
  PROVE  IInv'
<1>1. Taken' = Taken
  BY DEF Taken
<1>2. UploadInv' /\ OneRowPerContent' /\ CoursesMatch'
  BY <1>1 DEF IInv, UploadInv, OneRowPerContent, CoursesMatch
<1>3. SourceKept'
  BY <1>1 DEF IInv, SourceKept
<1>4. NothingLeftBehind'
  BY <1>1 DEF IInv, NothingLeftBehind
<1>5. QED
  BY <1>2, <1>3, <1>4 DEF IInv

(* A removal takes the lock of a marked document.                          *)
LEMMA BeginRemovalStep ==
  ASSUME IInv, NEW d \in Documents, BeginRemoval(d)
  PROVE  IInv'
<1>1. /\ removal' = [at |-> "cleaning", document |-> d]
      /\ UNCHANGED <<rows, courses, objects, late, request, struck, stray>>
      /\ \A q \in Requests : request[q] = Idle
      /\ d \in Taken /\ rows[d].deleting
  BY DEF BeginRemoval, Unlocked, Deletable, Taken
<1>2. TypeOK' /\ ExclusiveInv'
  BY <1>1 DEF IInv, TypeOK, RowOK, Deletable, ExclusiveInv
<1>3. Taken' = Taken
  BY <1>1 DEF Taken
<1>4. RemovalInv'
  BY <1>1, <1>3 DEF RemovalInv
<1>5. \A r \in Requests : request[r].at # "creating"
  BY <1>1 DEF Idle
<1>6. QED
  BY <1>1, <1>2, <1>4, <1>5, StorageOnly

(* The object goes if no other row has it, and then only marked ones did.  *)
LEMMA DeleteSourceStep ==
  ASSUME IInv, NEW d \in Documents, DeleteSource(d)
  PROVE  IInv'
<1> DEFINE content == rows[d].content
<1>1. /\ removal = [at |-> "cleaning", document |-> d]
      /\ removal' = [at |-> "cleared", document |-> d]
      /\ UNCHANGED <<rows, courses, late, request, struck>>
      /\ IF Shared(d) THEN UNCHANGED <<objects, stray>>
         ELSE objects' = objects \ {content} /\ stray' = stray \ {content}
  BY DEF DeleteSource
<1>2. removal # NoRemoval /\ d \in Taken /\ rows[d].deleting
  BY <1>1 DEF IInv, RemovalInv, NoRemoval
<1>3. \A r \in Requests : request[r] = Idle
  BY <1>2 DEF IInv, ExclusiveInv
<1>4. TypeOK' /\ ExclusiveInv'
  BY <1>1, <1>3 DEF IInv, TypeOK, RowOK, Deletable, ExclusiveInv
<1>5. Taken' = Taken
  BY <1>1 DEF Taken
<1>6. Shared(d) => \E e \in Taken \ {d} : rows[e].content = content
  BY DEF Shared, Holding
<1>7. ~Shared(d) => \A e \in Taken : rows[e].content = content => e = d
  BY DEF Shared, Holding
<1>8. RemovalInv'
  BY <1>1, <1>2, <1>5, <1>6 DEF RemovalInv
<1>9. \A r \in Requests : request[r].at # "creating"
  BY <1>3 DEF Idle
<1>10. QED
  BY <1>1, <1>2, <1>4, <1>7, <1>8, <1>9, StorageOnly

(* An interrupted removal may have deleted the object, or may still.       *)
LEMMA RemovalStopsStep ==
  ASSUME IInv, RemovalStops
  PROVE  IInv'
<1> DEFINE d == removal.document
           content == rows[d].content
<1>1. /\ removal # NoRemoval /\ removal' = NoRemoval
      /\ UNCHANGED <<rows, courses, request, struck, stray>>
      /\ late' \subseteq late \cup {[op |-> "delete", content |-> content]}
      /\ objects' \subseteq objects
      /\ \A c \in objects : c \in objects' \/ (c = content /\ ~Shared(d))
  BY DEF RemovalStops
<1>2. d \in Taken /\ rows[d].deleting
  BY <1>1 DEF IInv, RemovalInv
<1>3. \A r \in Requests : request[r] = Idle
  BY <1>1 DEF IInv, ExclusiveInv
<1>4. content \in Contents
  BY <1>2 DEF IInv, TypeOK, RowOK, Taken
<1>5. TypeOK' /\ ExclusiveInv' /\ RemovalInv'
  BY <1>1, <1>3, <1>4
     DEF IInv, TypeOK, RowOK, Deletable, ExclusiveInv, RemovalInv, NoRemoval
<1>6. ~Shared(d) => \A e \in Taken : rows[e].content = content => e = d
  BY DEF Shared, Holding
<1>7. \A r \in Requests : request[r].at # "creating"
  BY <1>3 DEF Idle
<1>8. QED
  BY <1>1, <1>2, <1>5, <1>6, <1>7, StorageOnly

(* A late request is one the history tells of.                             *)
LEMMA LateStep ==
  ASSUME IInv, LateLands
  PROVE  IInv'
<1>1. PICK op \in late :
        /\ late' = late \ {op}
        /\ IF op.op = "put"
           THEN objects' = objects \cup {op.content} /\ stray' = stray \cup {op.content}
                /\ UNCHANGED struck
           ELSE objects' = objects \ {op.content} /\ struck' = struck \cup {op.content}
                /\ UNCHANGED stray
        /\ UNCHANGED <<rows, courses, request, removal>>
  BY DEF LateLands
<1>2. op.content \in Contents
  BY DEF IInv, TypeOK
<1>3. TypeOK' /\ ExclusiveInv'
  BY <1>1, <1>2 DEF IInv, TypeOK, RowOK, Deletable, ExclusiveInv
<1>4. Taken' = Taken
  BY <1>1 DEF Taken
<1>5. RemovalInv'
  BY <1>1, <1>4 DEF IInv, RemovalInv
<1>6. \A r \in Requests : request[r].at = "creating" =>
        request[r].content \in objects' \cup struck'
  BY <1>1 DEF IInv, UploadInv, Idle
<1>7. QED
  BY <1>1, <1>3, <1>5, <1>6, StorageOnly

(* The row goes last, and its course with the course's last document.      *)
LEMMA RemoveRowStep ==
  ASSUME IInv, NEW d \in Documents, RemoveRow(d)
  PROVE  IInv'
<1> DEFINE content == rows[d].content
<1>1. /\ removal = [at |-> "cleared", document |-> d] /\ removal' = NoRemoval
      /\ rows' = [rows EXCEPT ![d] = NoRow]
      /\ courses' = IF \E e \in Taken \ {d} : CourseOf[rows[e].content] = CourseOf[content]
                    THEN courses ELSE courses \ {CourseOf[content]}
      /\ UNCHANGED <<objects, late, request, struck, stray>>
  BY DEF RemoveRow
<1>2. removal # NoRemoval /\ d \in Taken
  BY <1>1 DEF IInv, RemovalInv, NoRemoval
<1>3. \A r \in Requests : request[r] = Idle
  BY <1>2 DEF IInv, ExclusiveInv
<1>4. /\ rows' \in [Documents -> Rows] /\ rows'[d] = NoRow
      /\ \A e \in Documents \ {d} : rows'[e] = rows[e]
  BY <1>1 DEF IInv, TypeOK, Rows, Statuses, NoRow
<1>5. Taken' = Taken \ {d}
  BY <1>4 DEF Taken, NoRow
<1>6. TypeOK'
  <2>1. \A e \in Documents : RowOK(e)'
    BY <1>4 DEF IInv, TypeOK, RowOK, Deletable, NoRow
  <2>2. QED
    BY <1>1, <1>4, <2>1 DEF IInv, TypeOK, NoRemoval
<1>7. ExclusiveInv' /\ UploadInv' /\ RemovalInv'
  BY <1>1, <1>3 DEF ExclusiveInv, UploadInv, RemovalInv
<1>8. \A e \in Taken \ {d} : rows'[e] = rows[e]
  BY <1>4 DEF Taken
<1>9. OneRowPerContent' /\ SourceKept' /\ CoursesMatch'
  BY <1>1, <1>2, <1>5, <1>8 DEF IInv, OneRowPerContent, SourceKept, CoursesMatch
<1>10. NothingLeftBehind'
  <2> SUFFICES ASSUME NEW c \in objects, c \notin stray
               PROVE  \E e \in Taken \ {d} : rows[e].content = c
    BY <1>1, <1>5, <1>8 DEF NothingLeftBehind
  <2>1. \A q \in Requests : request[q].content # c
    BY <1>3, ContentsAssumption DEF IInv, TypeOK, Idle
  <2>2. PICK e \in Taken : rows[e].content = c
    BY <2>1 DEF IInv, NothingLeftBehind
  <2>3. CASE e = d
    BY <1>1, <1>2, <2>2, <2>3 DEF IInv, RemovalInv
  <2>4. QED
    BY <2>2, <2>3
<1>11. QED
  BY <1>6, <1>7, <1>9, <1>10 DEF IInv

(* Every step keeps the invariant.                                         *)
LEMMA NextIInv == IInv /\ [Next]_vars => IInv'
<1> SUFFICES ASSUME IInv, [Next]_vars PROVE IInv'
  OBVIOUS
<1>1. CASE UNCHANGED vars
  BY <1>1 DEF vars, IInv, TypeOK, RowOK, Deletable, ExclusiveInv, UploadInv, RemovalInv,
     OneRowPerContent, SourceKept, NothingLeftBehind, CoursesMatch, Taken
<1>2. ASSUME NEW r \in Requests, UploadStep(r) PROVE IInv'
  BY <1>2, UploadBegins, StoreStep, CreateStep, UploadStopsStep DEF UploadStep
<1>3. ASSUME NEW d \in Documents, DocumentStep(d) PROVE IInv'
  BY <1>3, WorkSteps, BeginRemovalStep, DeleteSourceStep, RemoveRowStep DEF DocumentStep
<1>4. QED
  BY <1>1, <1>2, <1>3, RemovalStopsStep, LateStep DEF Next

-----------------------------------------------------------------------------
(* The inductive invariant holds in every reachable state.                 *)
THEOREM Invariance == Spec => []IInv
BY InitIInv, NextIInv, PTL DEF Spec

(* Rows, requests and removals are well typed, and a document that is      *)
(* being removed is never put to work again.                               *)
THEOREM TypeCorrect == Spec => []TypeOK
BY Invariance, PTL DEF IInv

(* A PDF is admitted to a course once.                                     *)
THEOREM AdmittedOnce == Spec => []OneRowPerContent
BY Invariance, PTL DEF IInv

(* A document keeps its PDF while others that share it are removed.        *)
THEOREM SourcesAreKept == Spec => []SourceKept
BY Invariance, PTL DEF IInv

(* Removals leave no object behind.                                        *)
THEOREM RemovalsAreComplete == Spec => []NothingLeftBehind
BY Invariance, PTL DEF IInv

(* A course is there exactly as long as one of its documents.              *)
THEOREM CoursesAreInUse == Spec => []CoursesMatch
BY Invariance, PTL DEF IInv

-----------------------------------------------------------------------------
(* Totals.                                                                 *)

LEMMA UnitsType ==
  ASSUME NEW size
  PROVE  \A u : u \in Units(size) <=> \E d \in DOMAIN size : \E n \in 1 .. size[d] : u = <<d, n>>
BY DEF Units

(* A total over finitely many is a number.                                 *)
LEMMA TotalType ==
  ASSUME NEW D, IsFiniteSet(D), NEW size \in [D -> Nat]
  PROVE  IsFiniteSet(Units(size)) /\ Total(size) \in Nat
<1> DEFINE f == [d \in D |-> {d} \X (1 .. size[d])]
           T == {f[d] : d \in D}
<1>1. Units(size) = UNION T
  BY DEF Units
<1>2. f \in Surjection(D, T)
  BY DEF Surjection
<1>3. IsFiniteSet(T)
  BY <1>2, FS_Surjection
<1>4. ASSUME NEW d \in D PROVE IsFiniteSet(f[d])
  <2> DEFINE last == size[d]
  <2>0. last \in Int /\ 1 \in Int
    OBVIOUS
  <2> HIDE DEF last
  <2>1. IsFiniteSet({d}) /\ IsFiniteSet(1 .. last)
    BY <2>0, FS_Singleton, FS_Interval
  <2>2. IsFiniteSet({d} \X (1 .. last))
    BY <2>1, FS_Product
  <2>3. QED
    BY <2>2 DEF last
<1>5. IsFiniteSet(UNION T)
  <2>1. \A t \in T : IsFiniteSet(t)
    BY <1>4
  <2> HIDE DEF T
  <2>2. QED
    BY <1>3, <2>1, FS_UNION
<1>6. QED
  BY <1>1, <1>5, FS_CardinalityType DEF Total

(* It is no more than another that counts as much for each.                *)
LEMMA TotalMonotone ==
  ASSUME NEW D, NEW E, IsFiniteSet(E), D \subseteq E,
         NEW less \in [D -> Nat], NEW more \in [E -> Nat], \A d \in D : less[d] <= more[d]
  PROVE  Total(less) <= Total(more)
<1>1. Units(less) \subseteq Units(more)
  <2> SUFFICES ASSUME NEW d \in D, NEW n \in 1 .. less[d]
               PROVE  <<d, n>> \in Units(more)
    BY UnitsType
  <2>1. n \in 1 .. more[d]
    OBVIOUS
  <2>2. QED
    BY <2>1, UnitsType
<1>2. QED
  BY <1>1, TotalType, FS_Subset DEF Total

(* One document counts for as much as its own size.                        *)
LEMMA TotalOfOne ==
  ASSUME NEW D, IsFiniteSet(D), NEW d \in D, NEW all \in [D -> Nat], NEW rest \in [D \ {d} -> Nat],
         \A e \in D \ {d} : rest[e] = all[e]
  PROVE  Total(all) = Total(rest) + all[d]
<1> DEFINE own == {d} \X (1 .. all[d])
<1>1. IsFiniteSet(own) /\ Cardinality(own) = all[d]
  <2>1. IsFiniteSet({d}) /\ Cardinality({d}) = 1
    BY FS_Singleton
  <2>2. IsFiniteSet(1 .. all[d]) /\ Cardinality(1 .. all[d]) = all[d]
    BY FS_Interval
  <2>3. IsFiniteSet(own) /\ Cardinality(own) = Cardinality({d}) * Cardinality(1 .. all[d])
    BY <2>1, <2>2, FS_Product
  <2>4. QED
    BY <2>1, <2>2, <2>3
<1>2. IsFiniteSet(Units(rest)) /\ Cardinality(Units(rest)) \in Nat
  BY FS_Subset, TotalType DEF Total
<1>3. Units(all) = Units(rest) \cup own
  <2>1. ASSUME NEW u \in Units(all) PROVE u \in Units(rest) \cup own
    BY UnitsType
  <2>2. ASSUME NEW u \in Units(rest) \cup own PROVE u \in Units(all)
    BY UnitsType
  <2>3. QED
    BY <2>1, <2>2
<1>4. Units(rest) \cap own = {}
  BY UnitsType
<1>5. Cardinality(Units(all)) = Cardinality(Units(rest)) + Cardinality(own)
  <2> DEFINE others == Units(rest)
  <2>1. /\ IsFiniteSet(own) /\ IsFiniteSet(others) /\ others \cap own = {}
        /\ Cardinality(own) \in Nat /\ Cardinality(others) \in Nat
    BY <1>1, <1>2, <1>4
  <2> HIDE DEF own, others
  <2>2. Cardinality(others \cup own)
          = Cardinality(others) + Cardinality(own) - Cardinality(others \cap own)
    BY <2>1, FS_Union
  <2>3. Cardinality(others \cap own) = 0
    BY <2>1, FS_EmptySet
  <2>4. QED
    BY <1>3, <2>1, <2>2, <2>3 DEF own, others
<1>6. QED
  BY <1>1, <1>5 DEF Total
-----------------------------------------------------------------------------
(* Budgets.                                                                *)

(* What was found to fit when an upload took the lock still fits: nothing  *)
(* that goes on without the lock takes up more.                            *)
BudgetInv ==
  /\ IsFiniteSet(Taken)
  /\ \A r \in Requests : request[r] # Idle => NewFits(request[r].content)

(* The sizes that a row is counted with.                                   *)
LEMMA SizeType ==
  ASSUME NEW row \in Rows
  PROVE  Pages(row) \in Nat /\ Chunks(row) \in Nat
BY LimitsAssumption DEF Pages, Chunks, Rows

(* What is used is a number, of all documents and of the active ones.      *)
LEMMA UsedType ==
  ASSUME TypeOK, NEW D \in SUBSET Documents, IsFiniteSet(D)
  PROVE  PagesUsed(D) \in Nat /\ ChunksUsed(D) \in Nat /\ Cardinality(D) \in Nat
<1>1. \A d \in D : rows[d] \in Rows
  BY DEF TypeOK
<1>2. /\ [d \in D |-> Pages(rows[d])] \in [D -> Nat]
      /\ [d \in D |-> Chunks(rows[d])] \in [D -> Nat]
  BY <1>1, SizeType
<1>3. QED
  BY <1>2, TotalType, FS_CardinalityType DEF PagesUsed, ChunksUsed

LEMMA ActiveTaken == Active \subseteq Taken /\ Taken \subseteq Documents
BY DEF Active, Taken

(* Steps after which no document counts for more and no more are active.   *)
LEMMA NothingMore ==
  ASSUME TypeOK, TypeOK', BudgetInv, Taken' \subseteq Taken, Active' \subseteq Active,
         \A d \in Taken' : rows'[d].pages = rows[d].pages /\ rows'[d].chunks = rows[d].chunks,
         \A r \in Requests : request'[r] # Idle => NewFits(request'[r].content)
  PROVE  BudgetInv' /\ GrowsWithinBudgets
<1>1. IsFiniteSet(Taken) /\ IsFiniteSet(Taken') /\ IsFiniteSet(Active) /\ IsFiniteSet(Active')
  BY ActiveTaken, FS_Subset DEF BudgetInv
<1>2. /\ Cardinality(Taken)' \in Nat /\ Cardinality(Taken) \in Nat
      /\ Cardinality(Active)' \in Nat /\ Cardinality(Active) \in Nat
      /\ Cardinality(Taken)' <= Cardinality(Taken)
      /\ Cardinality(Active)' <= Cardinality(Active)
  BY <1>1, FS_Subset, FS_CardinalityType
<1>3. /\ \A d \in Taken : Pages(rows[d]) \in Nat /\ Chunks(rows[d]) \in Nat
      /\ \A d \in Taken' : Pages(rows'[d]) \in Nat /\ Chunks(rows'[d]) \in Nat
  BY SizeType DEF TypeOK, Taken
<1>4. \A d \in Taken' : Pages(rows'[d]) = Pages(rows[d]) /\ Chunks(rows'[d]) = Chunks(rows[d])
  BY DEF Pages, Chunks
<1>5. PagesUsed(Taken)' <= PagesUsed(Taken)
  <2> DEFINE more == [d \in Taken |-> Pages(rows[d])]
             less == [d \in Taken' |-> Pages(rows'[d])]
  <2>1. more \in [Taken -> Nat] /\ less \in [Taken' -> Nat]
    BY <1>3
  <2>2. \A d \in Taken' : less[d] <= more[d]
    BY <1>3, <1>4
  <2> HIDE DEF more, less
  <2>3. Total(less) <= Total(more)
    BY <1>1, <2>1, <2>2, TotalMonotone
  <2>4. QED
    BY <2>3 DEF PagesUsed, more, less
<1>6. ChunksUsed(Taken)' <= ChunksUsed(Taken)
  <2> DEFINE more == [d \in Taken |-> Chunks(rows[d])]
             less == [d \in Taken' |-> Chunks(rows'[d])]
  <2>1. more \in [Taken -> Nat] /\ less \in [Taken' -> Nat]
    BY <1>3
  <2>2. \A d \in Taken' : less[d] <= more[d]
    BY <1>3, <1>4
  <2> HIDE DEF more, less
  <2>3. Total(less) <= Total(more)
    BY <1>1, <2>1, <2>2, TotalMonotone
  <2>4. QED
    BY <2>3 DEF ChunksUsed, more, less
<1>7. /\ PagesUsed(Taken) \in Nat /\ ChunksUsed(Taken) \in Nat
      /\ PagesUsed(Taken)' \in Nat /\ ChunksUsed(Taken)' \in Nat
  <2>1. PagesUsed(Taken) \in Nat /\ ChunksUsed(Taken) \in Nat
    BY <1>1, UsedType, ActiveTaken
  <2>2. PagesUsed(Taken)' \in Nat /\ ChunksUsed(Taken)' \in Nat
    <3>1. \A d \in Taken' : rows'[d] \in Rows
      BY DEF TypeOK, Taken
    <3>2. /\ [d \in Taken' |-> Pages(rows'[d])] \in [Taken' -> Nat]
          /\ [d \in Taken' |-> Chunks(rows'[d])] \in [Taken' -> Nat]
      BY <1>3
    <3>3. QED
      BY <1>1, <3>2, TotalType DEF PagesUsed, ChunksUsed
  <2>3. QED
    BY <2>1, <2>2
<1>8. GrowsWithinBudgets
  BY <1>2, <1>5, <1>6, <1>7 DEF GrowsWithinBudgets
<1>9. ASSUME NEW r \in Requests, request'[r] # Idle PROVE NewFits(request[r].content)'
  <2> DEFINE content == request'[r].content
  <2>1. NewFits(content)
    BY <1>9
  <2>2. PagesOf[content] \in Nat /\ chunk_reservation(PagesOf[content]) \in Nat
    <3>1. content \in Contents
      BY <1>9 DEF TypeOK
    <3>2. PagesOf[content] \in Nat
      BY <3>1, ContentsAssumption
    <3>3. QED
      BY <3>2, ReservationType
  <2> HIDE DEF content
  <2>3. NewFits(request[r].content)' <=>
          /\ /\ PagesOf[content] <= MaxPagesPerDocument
             /\ chunk_reservation(PagesOf[content]) <= MaxChunksPerDocument
             /\ PagesUsed(Taken)' + PagesOf[content] <= MaxPages
             /\ ChunksUsed(Taken)' + chunk_reservation(PagesOf[content]) <= MaxChunks
          /\ Cardinality(Active)' < MaxPending
          /\ MaxDocuments # 0 => Cardinality(Taken)' < MaxDocuments
    BY DEF NewFits, Fits, HasRoom, content, chunk_reservation
  <2>4. QED
    BY <1>2, <1>5, <1>6, <1>7, <2>1, <2>2, <2>3, LimitsAssumption DEF NewFits, Fits, HasRoom
<1>10. QED
  BY <1>1, <1>8, <1>9 DEF BudgetInv
(* What is used when one document has been added or measured anew.         *)
LEMMA OneRow ==
  ASSUME TypeOK, TypeOK', IsFiniteSet(Taken), NEW d \in Documents, Taken' = Taken \cup {d},
         \A e \in Documents \ {d} : rows'[e] = rows[e]
  PROVE  /\ IsFiniteSet(Taken')
         /\ PagesUsed(Taken)' = PagesUsed(Taken \ {d}) + Pages(rows'[d])
         /\ ChunksUsed(Taken)' = ChunksUsed(Taken \ {d}) + Chunks(rows'[d])
<1>1. IsFiniteSet(Taken')
  BY FS_AddElement
<1>2. /\ \A e \in Taken' : rows'[e] \in Rows /\ Pages(rows'[e]) \in Nat /\ Chunks(rows'[e]) \in Nat
      /\ Taken' \ {d} = Taken \ {d} /\ d \in Taken'
      /\ \A e \in Taken \ {d} : rows'[e] = rows[e]
  BY SizeType DEF TypeOK, Taken
<1>3. PagesUsed(Taken)' = PagesUsed(Taken \ {d}) + Pages(rows'[d])
  <2> DEFINE all == [e \in Taken' |-> Pages(rows'[e])]
             rest == [e \in Taken \ {d} |-> Pages(rows[e])]
  <2>1. /\ all \in [Taken' -> Nat] /\ rest \in [Taken' \ {d} -> Nat]
        /\ \A e \in Taken' \ {d} : rest[e] = all[e] /\ all[d] = Pages(rows'[d])
    BY <1>2
  <2>2. all[d] = Pages(rows'[d])
    BY <1>2
  <2> HIDE DEF all, rest
  <2>3. Total(all) = Total(rest) + all[d]
    BY <1>1, <1>2, <2>1, TotalOfOne
  <2>4. QED
    BY <2>2, <2>3 DEF PagesUsed, all, rest
<1>4. ChunksUsed(Taken)' = ChunksUsed(Taken \ {d}) + Chunks(rows'[d])
  <2> DEFINE all == [e \in Taken' |-> Chunks(rows'[e])]
             rest == [e \in Taken \ {d} |-> Chunks(rows[e])]
  <2>1. /\ all \in [Taken' -> Nat] /\ rest \in [Taken' \ {d} -> Nat]
        /\ \A e \in Taken' \ {d} : rest[e] = all[e]
    BY <1>2
  <2>2. all[d] = Chunks(rows'[d])
    BY <1>2
  <2> HIDE DEF all, rest
  <2>3. Total(all) = Total(rest) + all[d]
    BY <1>1, <1>2, <2>1, TotalOfOne
  <2>4. QED
    BY <2>2, <2>3 DEF ChunksUsed, all, rest
<1>5. QED
  BY <1>1, <1>3, <1>4

(* The document is the one that was found to fit.                          *)
LEMMA CreateBudget ==
  ASSUME IInv, IInv', BudgetInv, NEW r \in Requests, NEW d \in Documents, Create(r, d)
  PROVE  BudgetInv' /\ GrowsWithinBudgets
<1> DEFINE content == request[r].content
           pages == PagesOf[content]
           chunks == chunk_reservation(pages)
           row == [status |-> "queued", content |-> content, pages |-> pages,
                   chunks |-> chunks, again |-> FALSE, deleting |-> FALSE]
<1>1. /\ request[r] # Idle /\ content \in Contents /\ rows[d] = NoRow
      /\ rows' = [rows EXCEPT ![d] = row] /\ request' = [request EXCEPT ![r] = Idle]
  BY DEF Create, IInv, TypeOK, Idle
<1>2. pages \in Nat \ {0} /\ chunks \in Nat \ {0}
  BY <1>1, ContentsAssumption, ReservationType
<1>3. /\ rows'[d] = row /\ \A e \in Documents \ {d} : rows'[e] = rows[e]
      /\ d \notin Taken /\ Taken' = Taken \cup {d} /\ Active' = Active \cup {d}
  BY <1>1 DEF IInv, TypeOK, Taken, Active, NoRow
<1>4. \A q \in Requests : request'[q] = Idle
  BY <1>1 DEF IInv, TypeOK, ExclusiveInv
<1>5. Pages(row) = pages /\ Chunks(row) = chunks
  BY <1>2 DEF Pages, Chunks
<1>6. /\ IsFiniteSet(Taken) /\ IsFiniteSet(Taken') /\ Taken \ {d} = Taken
      /\ PagesUsed(Taken)' = PagesUsed(Taken) + pages
      /\ ChunksUsed(Taken)' = ChunksUsed(Taken) + chunks
  <2>1. Taken \ {d} = Taken
    BY <1>3
  <2>2. QED
    BY <1>3, <1>5, <2>1, OneRow DEF IInv, BudgetInv
<1>7. NewFits(content)
  BY <1>1 DEF BudgetInv
<1>8. /\ Cardinality(Taken)' = Cardinality(Taken) + 1 /\ Cardinality(Taken) \in Nat
      /\ Cardinality(Active)' <= Cardinality(Active) + 1 /\ Cardinality(Active) \in Nat
      /\ Cardinality(Active)' \in Nat
  <2>1. IsFiniteSet(Active)
    BY <1>6, ActiveTaken, FS_Subset
  <2>2. Cardinality(Taken) \in Nat /\ Cardinality(Active) \in Nat
    BY <1>6, <2>1, FS_CardinalityType
  <2>3. Cardinality(Taken \cup {d}) = Cardinality(Taken) + 1
    BY <1>3, <1>6, FS_AddElement
  <2>4. Cardinality(Active \cup {d}) \in {Cardinality(Active), Cardinality(Active) + 1}
    BY <2>1, FS_AddElement
  <2>5. QED
    BY <1>3, <2>2, <2>3, <2>4
<1>9. GrowsWithinBudgets
  <2>1. PagesUsed(Taken) \in Nat /\ ChunksUsed(Taken) \in Nat
    BY <1>6, UsedType, ActiveTaken DEF IInv
  <2>2. QED
    BY <1>2, <1>6, <1>7, <1>8, <2>1, LimitsAssumption
       DEF GrowsWithinBudgets, NewFits, Fits, HasRoom
<1>10. QED
  BY <1>4, <1>6, <1>9 DEF BudgetInv

(* Chunks are reserved for a document beside the others.                   *)
LEMMA ReserveBudget ==
  ASSUME IInv, IInv', BudgetInv, NEW d \in Documents, Reserve(d)
  PROVE  BudgetInv' /\ GrowsWithinBudgets
<1>1. PICK chunks \in 1 .. MaxChunksPerDocument :
        /\ Fits(Taken \ {d}, PagesOf[rows[d].content], chunks)
        /\ rows' = [rows EXCEPT ![d] = [rows[d] EXCEPT !.status = "indexing", !.chunks = chunks,
                                                      !.pages = PagesOf[rows[d].content]]]
  BY DEF Reserve, Row
<1> DEFINE pages == PagesOf[rows[d].content]
<1>2. rows[d].status = "queued" /\ request' = request /\ \A r \in Requests : request[r] = Idle
  BY DEF Reserve, Unlocked, Others
<1>3. rows[d] \in Rows /\ rows[d].content \in Contents
  BY <1>2 DEF IInv, TypeOK, RowOK
<1>4. pages \in Nat \ {0} /\ chunks \in Nat \ {0}
  BY <1>3, ContentsAssumption, LimitsAssumption
<1>5. /\ rows'[d].pages = pages /\ rows'[d].chunks = chunks /\ rows'[d].status = "indexing"
      /\ \A e \in Documents \ {d} : rows'[e] = rows[e]
  BY <1>1, <1>3 DEF IInv, TypeOK, Rows
<1>6. d \in Taken /\ Taken' = Taken /\ Active' = Active
  BY <1>2, <1>5 DEF Taken, Active
<1>7. Pages(rows'[d]) = pages /\ Chunks(rows'[d]) = chunks
  BY <1>4, <1>5 DEF Pages, Chunks
<1>8. /\ IsFiniteSet(Taken') /\ PagesUsed(Taken)' = PagesUsed(Taken \ {d}) + pages
      /\ ChunksUsed(Taken)' = ChunksUsed(Taken \ {d}) + chunks
  <2>1. Taken' = Taken \cup {d}
    BY <1>6
  <2>2. QED
    BY <1>5, <1>7, <2>1, OneRow DEF IInv, BudgetInv
<1>9. /\ Cardinality(Taken)' = Cardinality(Taken) /\ Cardinality(Taken) \in Nat
      /\ Cardinality(Active)' = Cardinality(Active) /\ Cardinality(Active) \in Nat
  BY <1>6, ActiveTaken, FS_Subset, FS_CardinalityType DEF BudgetInv
<1>10. GrowsWithinBudgets
  BY <1>1, <1>8, <1>9 DEF GrowsWithinBudgets, Fits
<1>11. QED
  BY <1>2, <1>8, <1>10 DEF BudgetInv

(* A retry is one more active document, for which there was room.          *)
LEMMA RetryBudget ==
  ASSUME IInv, IInv', BudgetInv, NEW d \in Documents, Retry(d)
  PROVE  BudgetInv' /\ GrowsWithinBudgets
<1>1. /\ rows' = [rows EXCEPT ![d] = [rows[d] EXCEPT !.status = "queued", !.again = FALSE]]
      /\ rows[d].status \in {"ready", "failed"} /\ HasRoom
      /\ request' = request /\ \A r \in Requests : request[r] = Idle
  BY DEF Retry, Row, Unlocked, Others
<1>2. /\ rows[d] \in Rows /\ rows' \in [Documents -> Rows] /\ rows'[d].status = "queued"
      /\ \A e \in Documents : rows'[e].pages = rows[e].pages /\ rows'[e].chunks = rows[e].chunks
      /\ \A e \in Documents \ {d} : rows'[e] = rows[e]
  BY <1>1 DEF IInv, TypeOK, Rows
<1>3. Taken' = Taken /\ Active' = Active \cup {d}
  BY <1>1, <1>2 DEF Taken, Active
<1>4. PagesUsed(Taken)' = PagesUsed(Taken) /\ ChunksUsed(Taken)' = ChunksUsed(Taken)
  <2>1. \A e \in Taken : Pages(rows'[e]) = Pages(rows[e]) /\ Chunks(rows'[e]) = Chunks(rows[e])
    BY <1>2 DEF Pages, Chunks, Taken
  <2>2. /\ [e \in Taken' |-> Pages(rows'[e])] = [e \in Taken |-> Pages(rows[e])]
        /\ [e \in Taken' |-> Chunks(rows'[e])] = [e \in Taken |-> Chunks(rows[e])]
    BY <1>3, <2>1
  <2>3. QED
    BY <2>2 DEF PagesUsed, ChunksUsed
<1>5. /\ PagesUsed(Taken) \in Nat /\ ChunksUsed(Taken) \in Nat /\ Cardinality(Taken) \in Nat
      /\ IsFiniteSet(Active) /\ Cardinality(Active) \in Nat
  BY UsedType, ActiveTaken, FS_Subset, FS_CardinalityType DEF IInv, BudgetInv
<1>6. Cardinality(Active \cup {d}) \in {Cardinality(Active), Cardinality(Active) + 1}
  BY <1>5, FS_AddElement
<1>7. Cardinality(Active)' <= MaxPending
  BY <1>1, <1>3, <1>5, <1>6, LimitsAssumption DEF HasRoom
<1>8. GrowsWithinBudgets
  BY <1>3, <1>4, <1>5, <1>7 DEF GrowsWithinBudgets
<1>9. QED
  BY <1>1, <1>3, <1>8 DEF BudgetInv

(* Work that ends or goes on counts for no more, nor does a mark.          *)
LEMMA OwnWorkBudget ==
  ASSUME IInv, IInv', BudgetInv, NEW d \in Documents,
         Complete(d) \/ Fail(d) \/ Recover(d) \/ RequestRemoval(d)
  PROVE  BudgetInv' /\ GrowsWithinBudgets
<1>1. PICK status \in Statuses, again \in BOOLEAN, deleting \in BOOLEAN :
        /\ rows' = [rows EXCEPT ![d] = [rows[d] EXCEPT !.status = status, !.again = again,
                                                      !.deleting = deleting]]
        /\ rows[d].status # "none"
        /\ status \in {"queued", "indexing"} => rows[d].status \in {"queued", "indexing"}
  <2>1. rows[d] \in Rows
    BY DEF IInv, TypeOK
  <2>2. CASE Complete(d)
    <3>1. PICK again \in BOOLEAN :
            rows' = [rows EXCEPT ![d] = [rows[d] EXCEPT !.status = "ready", !.again = again]]
      BY <2>2 DEF Complete, Row
    <3>2. [rows[d] EXCEPT !.status = "ready", !.again = again]
            = [rows[d] EXCEPT !.status = "ready", !.again = again, !.deleting = rows[d].deleting]
      BY <2>1 DEF Rows
    <3>3. rows[d].deleting \in BOOLEAN /\ "ready" \in Statuses /\ rows[d].status = "indexing"
      BY <2>1, <2>2 DEF Rows, Statuses, Complete
    <3>4. QED
      BY <3>1, <3>2, <3>3
  <2>3. CASE Fail(d)
    <3>1. PICK again \in BOOLEAN :
            rows' = [rows EXCEPT ![d] = [rows[d] EXCEPT !.status = "failed", !.again = again]]
      BY <2>3 DEF Fail, Row
    <3>2. [rows[d] EXCEPT !.status = "failed", !.again = again]
            = [rows[d] EXCEPT !.status = "failed", !.again = again, !.deleting = rows[d].deleting]
      BY <2>1 DEF Rows
    <3>3. rows[d].deleting \in BOOLEAN /\ "failed" \in Statuses /\ rows[d].status # "none"
      BY <2>1, <2>3 DEF Rows, Statuses, Fail, Active
    <3>4. QED
      BY <3>1, <3>2, <3>3
  <2>4. CASE Recover(d)
    <3>1. rows' = [rows EXCEPT ![d] = [rows[d] EXCEPT !.status = "queued"]]
      BY <2>4 DEF Recover, Row
    <3>2. [rows[d] EXCEPT !.status = "queued"]
            = [rows[d] EXCEPT !.status = "queued", !.again = rows[d].again,
                              !.deleting = rows[d].deleting]
      BY <2>1 DEF Rows
    <3>3. /\ rows[d].deleting \in BOOLEAN /\ rows[d].again \in BOOLEAN /\ "queued" \in Statuses
          /\ rows[d].status = "indexing"
      BY <2>1, <2>4 DEF Rows, Statuses, Recover
    <3>4. QED
      BY <3>1, <3>2, <3>3
  <2>5. CASE RequestRemoval(d)
    <3>1. rows' = [rows EXCEPT ![d] = [rows[d] EXCEPT !.deleting = TRUE]]
      BY <2>5 DEF RequestRemoval, Row
    <3>2. [rows[d] EXCEPT !.deleting = TRUE]
            = [rows[d] EXCEPT !.status = rows[d].status, !.again = rows[d].again, !.deleting = TRUE]
      BY <2>1 DEF Rows
    <3>3. /\ rows[d].again \in BOOLEAN /\ rows[d].status \in Statuses
          /\ rows[d].status \in {"ready", "failed"}
      BY <2>1, <2>5 DEF Rows, RequestRemoval, Deletable
    <3>4. QED
      BY <3>1, <3>2, <3>3
  <2>6. QED
    BY <2>2, <2>3, <2>4, <2>5
<1>2. /\ \A e \in Documents : rows'[e].pages = rows[e].pages /\ rows'[e].chunks = rows[e].chunks
      /\ \A e \in Documents \ {d} : rows'[e] = rows[e]
      /\ rows'[d].status = status /\ rows[d].status # "none"
  BY <1>1 DEF IInv, TypeOK, Rows
<1>3. Taken' \subseteq Taken /\ Active' \subseteq Active
  BY <1>1, <1>2 DEF Taken, Active
<1>4. request' = request
  BY DEF Complete, Fail, Recover, RequestRemoval, Others
<1>5. QED
  BY <1>2, <1>3, <1>4, NothingMore, ActiveTaken DEF IInv, BudgetInv, Taken

(* Steps that leave the rows alone: an upload begins with what fits, and   *)
(* others keep or give up what they had.                                   *)
LEMMA QuietBudget ==
  ASSUME IInv, IInv', BudgetInv, UNCHANGED rows,
         \A r \in Requests : request'[r] # Idle => NewFits(request'[r].content)
  PROVE  BudgetInv' /\ GrowsWithinBudgets
<1>1. Taken' = Taken /\ Active' = Active
  BY DEF Taken, Active
<1>2. QED
  BY <1>1, NothingMore DEF IInv

(* A row that goes makes room.                                             *)
LEMMA RemoveRowBudget ==
  ASSUME IInv, IInv', BudgetInv, NEW d \in Documents, RemoveRow(d)
  PROVE  BudgetInv' /\ GrowsWithinBudgets
<1>1. rows' = [rows EXCEPT ![d] = NoRow] /\ request' = request
  BY DEF RemoveRow
<1>2. rows'[d] = NoRow /\ \A e \in Documents \ {d} : rows'[e] = rows[e]
  BY <1>1 DEF IInv, TypeOK
<1>3. /\ Taken' \subseteq Taken /\ Active' \subseteq Active
      /\ \A e \in Taken' : rows'[e] = rows[e]
  BY <1>2 DEF Taken, Active, NoRow
<1>4. QED
  BY <1>1, <1>3, NothingMore DEF IInv, BudgetInv

LEMMA InitBudget == Init => BudgetInv
<1> SUFFICES ASSUME Init PROVE BudgetInv
  OBVIOUS
<1>1. Taken \subseteq Legacy
  BY DEF Init, Taken, NoRow
<1>2. IsFiniteSet(Taken)
  BY <1>1, FS_Subset, DocumentsAssumption
<1>3. \A r \in Requests : request[r] = Idle
  BY DEF Init
<1>4. QED
  BY <1>2, <1>3 DEF BudgetInv

(* No step takes the installation further over a budget.                   *)
LEMMA NextBudget ==
  IInv /\ IInv' /\ BudgetInv /\ [Next]_vars => BudgetInv' /\ GrowsWithinBudgets
<1> SUFFICES ASSUME IInv, IInv', BudgetInv, [Next]_vars PROVE BudgetInv' /\ GrowsWithinBudgets
  OBVIOUS
<1>1. CASE UNCHANGED vars
  BY <1>1, QuietBudget DEF vars, BudgetInv
<1>2. ASSUME NEW r \in Requests, UploadStep(r) PROVE BudgetInv' /\ GrowsWithinBudgets
  <2>1. ASSUME NEW content \in Contents, Upload(r, content)
        PROVE  BudgetInv' /\ GrowsWithinBudgets
    <3>1. /\ rows' = rows /\ NewFits(content) /\ \A q \in Requests : request[q] = Idle
          /\ request' = [request EXCEPT ![r] = [at |-> "storing", content |-> content,
                                               new |-> CourseOf[content] \notin courses]]
      BY <2>1 DEF Upload, Unlocked
    <3>2. /\ request'[r].content = content
          /\ \A q \in Requests \ {r} : request'[q] = Idle
      BY <3>1 DEF IInv, TypeOK
    <3>3. QED
      BY <3>1, <3>2, QuietBudget
  <2>2. CASE Store(r)
    <3>1. /\ rows' = rows /\ request' = [request EXCEPT ![r].at = "creating"]
          /\ request[r].at = "storing"
      BY <2>2 DEF Store
    <3>2. /\ request[r] # Idle /\ request'[r].content = request[r].content
          /\ \A q \in Requests \ {r} : request'[q] = request[q]
      BY <3>1 DEF IInv, TypeOK, Idle, Sessions
    <3>3. QED
      BY <3>1, <3>2, QuietBudget DEF BudgetInv
  <2>3. CASE UploadStops(r)
    <3>1. rows' = rows /\ request' = [request EXCEPT ![r] = Idle]
      BY <2>3 DEF UploadStops
    <3>2. request'[r] = Idle /\ \A q \in Requests \ {r} : request'[q] = request[q]
      BY <3>1 DEF IInv, TypeOK
    <3>3. QED
      BY <3>1, <3>2, QuietBudget DEF BudgetInv
  <2>4. QED
    BY <1>2, <2>1, <2>2, <2>3, CreateBudget DEF UploadStep
<1>3. ASSUME NEW d \in Documents, DocumentStep(d) PROVE BudgetInv' /\ GrowsWithinBudgets
  <2>1. CASE BeginRemoval(d) \/ DeleteSource(d)
    BY <2>1, QuietBudget DEF BeginRemoval, DeleteSource, BudgetInv
  <2>2. QED
    BY <1>3, <2>1, ReserveBudget, RetryBudget, OwnWorkBudget, RemoveRowBudget DEF DocumentStep
<1>4. CASE RemovalStops \/ LateLands
  BY <1>4, QuietBudget DEF RemovalStops, LateLands, BudgetInv
<1>5. QED
  BY <1>1, <1>2, <1>3, <1>4 DEF Next

(* Pages, chunks, pending work and documents only grow to what the limits  *)
(* allow.                                                                  *)
THEOREM GrowthIsBudgeted == Spec => BudgetsKept
<1>1. Spec => [](IInv /\ BudgetInv)
  <2>1. Init => IInv /\ BudgetInv
    BY InitIInv, InitBudget
  <2>2. IInv /\ BudgetInv /\ [Next]_vars => (IInv /\ BudgetInv)'
    BY NextIInv, NextBudget
  <2>3. QED
    BY <2>1, <2>2, PTL DEF Spec
<1>2. IInv /\ BudgetInv /\ [Next]_vars => [GrowsWithinBudgets]_vars
  BY NextIInv, NextBudget
<1>3. QED
  BY <1>1, <1>2, PTL DEF Spec, BudgetsKept

-----------------------------------------------------------------------------
(* The capacity for continuation jobs (GraphCapacity), for any documents,  *)
(* processes, sizes and limits.  Other documents' bodies may go while the  *)
(* lock is held: what was measured can only have become less.              *)
CONSTANTS Processes, Sizes, MaxJobs, MaxBytes, MaxDrafts, MaxDraftBytes, MaxTasks
VARIABLES document, job, lock, transaction

C == INSTANCE GraphCapacity

(* Both modules count alike.                                               *)
LEMMA SameFinite == ASSUME NEW S PROVE C!IsFiniteSet(S) <=> IsFiniteSet(S)
BY DEF IsFiniteSet, C!IsFiniteSet

LEMMA SameCardinality == ASSUME NEW S PROVE C!Cardinality(S) = Cardinality(S)
BY DEF Cardinality, C!Cardinality

LEMMA SameTotal == ASSUME NEW size PROVE C!Total(size) = Total(size)
BY SameCardinality DEF Total, Units, C!Total, C!Units

LEMMA SameCounts ==
  /\ \A S : (C!IsFiniteSet(S) <=> IsFiniteSet(S)) /\ C!Cardinality(S) = Cardinality(S)
  /\ \A size : C!Total(size) = Total(size)
BY SameFinite, SameCardinality, SameTotal

Jobs == [task : Nat, status : {"none", "active", "ended"}, snapshot : Nat, draft : Nat]
Transactions ==
  {C!NoTransaction} \cup
  [at : {"lock", "measure", "add", "refuse"}, document : Documents, kind : C!Kinds, size : Sizes]

JobInv ==
  /\ document \in [Documents -> Nat]
  /\ job \in [Documents -> Jobs]
  /\ transaction \in [Processes -> Transactions]

(* Who has measured, or is about to, holds the lock, unless the kind is    *)
(* without limits.                                                         *)
LockInv ==
  \A p \in Processes :
    transaction[p].at \in {"measure", "add", "refuse"} /\ C!Limits(transaction[p].kind) # <<0, 0>>
      => lock = p

(* What has been found to fit beside the others still does.                *)
Added(p) ==
  LET t == transaction[p]
      others == C!Bodies(t.kind) \ {t.document}
  IN  C!Within(t.kind, Cardinality(others) + 1, C!Bytes(t.kind, others) + t.size)

RoomInv == \A p \in Processes : transaction[p].at = "add" => Added(p)

CapacityInv == JobInv /\ LockInv /\ RoomInv /\ C!CapacityKept

LEMMA LimitsType ==
  ASSUME C!CapacityAssumption, NEW kind \in C!Kinds
  PROVE  /\ C!Limits(kind)[1] \in Nat /\ C!Limits(kind)[2] \in Nat
         /\ C!Limits(kind) = <<0, 0>> <=> C!Limits(kind)[1] = 0 /\ C!Limits(kind)[2] = 0
BY SameCounts DEF C!CapacityAssumption, C!Limits, C!Kinds

(* Less than what is within the limits is within them, and what has none   *)
(* is always.                                                              *)
LEMMA WithinFacts ==
  ASSUME C!CapacityAssumption, NEW kind \in C!Kinds,
         NEW count \in Nat, NEW bytes \in Nat, NEW fewer \in Nat, NEW less \in Nat,
         C!Within(kind, count, bytes) \/ C!Limits(kind) = <<0, 0>>, fewer <= count, less <= bytes
  PROVE  C!Within(kind, fewer, less)
<1> DEFINE a == C!Limits(kind)[1]
           b == C!Limits(kind)[2]
<1>1. a \in Nat /\ b \in Nat /\ (C!Limits(kind) = <<0, 0>> => a = 0 /\ b = 0)
  BY LimitsType
<1>2. /\ C!Within(kind, count, bytes) <=> (a = 0 \/ count <= a) /\ (b = 0 \/ bytes <= b)
      /\ C!Within(kind, fewer, less) <=> (a = 0 \/ fewer <= a) /\ (b = 0 \/ less <= b)
  BY DEF C!Within
<1> HIDE DEF a, b
<1>3. QED
  BY <1>1, <1>2

(* The bodies of some documents are counted and measured.                  *)
LEMMA BodyFacts ==
  ASSUME C!CapacityAssumption, JobInv, NEW kind \in C!Kinds, NEW D \in SUBSET Documents
  PROVE  /\ IsFiniteSet(D) /\ Cardinality(D) \in Nat /\ C!Bytes(kind, D) \in Nat
         /\ \A d \in Documents : job[d][kind] \in Nat
<1>1. \A d \in Documents : job[d][kind] \in Nat
  BY DEF JobInv, Jobs, C!Kinds
<1>2. IsFiniteSet(D)
  BY FS_Subset, SameCounts DEF C!CapacityAssumption
<1>3. [d \in D |-> job[d][kind]] \in [D -> Nat]
  BY <1>1
<1>4. QED
  BY <1>1, <1>2, <1>3, TotalType, FS_CardinalityType, SameCounts DEF C!Bytes

(* Bodies of no more documents and no larger than before take no more.     *)
LEMMA FewerBodies ==
  ASSUME C!CapacityAssumption, JobInv, JobInv', NEW kind \in C!Kinds,
         NEW D \in SUBSET Documents, NEW E \in SUBSET Documents, D \subseteq E,
         \A d \in D : job'[d][kind] <= job[d][kind]
  PROVE  /\ Cardinality(D) <= Cardinality(E)
         /\ Total([d \in D |-> job'[d][kind]]) \in Nat
         /\ Total([d \in D |-> job'[d][kind]]) <= C!Bytes(kind, E)
<1> DEFINE less == [d \in D |-> job'[d][kind]]
           more == [d \in E |-> job[d][kind]]
<1>1. \A d \in Documents : job[d][kind] \in Nat /\ job'[d][kind] \in Nat
  BY DEF JobInv, Jobs, C!Kinds
<1>2. IsFiniteSet(D) /\ IsFiniteSet(E)
  BY BodyFacts
<1>3. less \in [D -> Nat] /\ more \in [E -> Nat] /\ \A d \in D : less[d] <= more[d]
  BY <1>1
<1> HIDE DEF less, more
<1>4. Total(less) \in Nat /\ Total(less) <= Total(more) /\ Cardinality(D) <= Cardinality(E)
  BY <1>2, <1>3, TotalType, TotalMonotone, FS_Subset
<1>5. QED
  BY <1>4, SameCounts DEF less, more, C!Bytes

(* Steps after which no body is there that was not, or is larger.          *)
LEMMA NothingAdded ==
  ASSUME C!CapacityAssumption, CapacityInv, JobInv', NEW kind \in C!Kinds,
         \A d \in Documents : job'[d][kind] <= job[d][kind],
         \A p \in Processes : transaction'[p].at = "add" /\ transaction'[p].kind = kind =>
           /\ transaction'[p].document = transaction[p].document
           /\ transaction'[p].kind = transaction[p].kind
           /\ transaction'[p].size = transaction[p].size
           /\ transaction'[p] \in Transactions /\ Added(p)
  PROVE  /\ C!Within(kind, Cardinality(C!Bodies(kind)), C!Bytes(kind, C!Bodies(kind)))'
         /\ \A p \in Processes :
              transaction'[p].at = "add" /\ transaction'[p].kind = kind => Added(p)'
<1> DEFINE now == {d \in Documents : job'[d][kind] # 0}
           before == {d \in Documents : job[d][kind] # 0}
<1>1. JobInv /\ \A d \in Documents : job[d][kind] \in Nat /\ job'[d][kind] \in Nat
  BY DEF CapacityInv, JobInv, Jobs, C!Kinds
<1>2. now \subseteq before /\ now \in SUBSET Documents /\ before \in SUBSET Documents
  BY <1>1
<1>3. C!Bodies(kind) = before /\ C!Bodies(kind)' = now
  BY DEF C!Bodies
<1> HIDE DEF now, before
<1>4. C!Within(kind, Cardinality(C!Bodies(kind)), C!Bytes(kind, C!Bodies(kind)))'
  <2>1. C!Within(kind, Cardinality(before), C!Bytes(kind, before))
    BY <1>3, SameCounts DEF CapacityInv, C!CapacityKept
  <2>2. /\ Cardinality(now) \in Nat /\ Cardinality(before) \in Nat /\ C!Bytes(kind, before) \in Nat
        /\ Cardinality(now) <= Cardinality(before)
        /\ Total([d \in now |-> job'[d][kind]]) \in Nat
        /\ Total([d \in now |-> job'[d][kind]]) <= C!Bytes(kind, before)
    BY <1>1, <1>2, BodyFacts, FewerBodies
  <2>3. C!Within(kind, Cardinality(now), Total([d \in now |-> job'[d][kind]]))
    BY <2>1, <2>2, WithinFacts
  <2>4. QED
    BY <1>3, <2>3, SameCounts DEF C!Bytes, C!Within, C!Limits
<1>5. ASSUME NEW p \in Processes, transaction'[p].at = "add", transaction'[p].kind = kind
      PROVE  Added(p)'
  <2> DEFINE d == transaction[p].document
             size == transaction[p].size
             left == now \ {d}
             others == before \ {d}
  <2>1. /\ transaction'[p].document = d /\ transaction[p].kind = kind /\ transaction'[p].size = size
        /\ size \in Nat /\ Added(p)
    <3>1. /\ transaction'[p].document = d /\ transaction[p].kind = kind
          /\ transaction'[p].size = size /\ transaction'[p] \in Transactions /\ Added(p)
      BY <1>5
    <3>2. transaction'[p].size \in Sizes
      BY <1>5, <3>1 DEF Transactions, C!NoTransaction
    <3>3. QED
      BY <3>1, <3>2, SameCounts DEF C!CapacityAssumption
  <2>2. C!Within(kind, Cardinality(others) + 1, C!Bytes(kind, others) + size)
    BY <1>3, <2>1, SameCounts DEF Added
  <2>3. left \in SUBSET Documents /\ others \in SUBSET Documents /\ left \subseteq others
    BY <1>2
  <2>4. Added(p)' <=>
          C!Within(kind, Cardinality(left) + 1, Total([e \in left |-> job'[e][kind]]) + size)
    BY <1>3, <1>5, <2>1, SameCounts DEF Added, C!Bytes, C!Within, C!Limits
  <2> HIDE DEF left, others, d, size
  <2>5. /\ Cardinality(left) \in Nat /\ Cardinality(others) \in Nat /\ C!Bytes(kind, others) \in Nat
        /\ Cardinality(left) <= Cardinality(others)
        /\ Total([e \in left |-> job'[e][kind]]) \in Nat
        /\ Total([e \in left |-> job'[e][kind]]) <= C!Bytes(kind, others)
    BY <1>1, <2>3, BodyFacts, FewerBodies
  <2>6. C!Within(kind, Cardinality(left) + 1, Total([e \in left |-> job'[e][kind]]) + size)
    <3> DEFINE count == Cardinality(others) + 1
               bytes == C!Bytes(kind, others) + size
               fewer == Cardinality(left) + 1
               less == Total([e \in left |-> job'[e][kind]]) + size
    <3>1. size \in Nat
      BY <2>1
    <3>2. /\ count \in Nat /\ bytes \in Nat /\ fewer \in Nat /\ less \in Nat
          /\ fewer <= count /\ less <= bytes
      BY <2>5, <3>1
    <3>3. C!Within(kind, count, bytes)
      BY <2>2
    <3> HIDE DEF count, bytes, fewer, less
    <3>4. C!Within(kind, fewer, less)
      BY <3>2, <3>3, WithinFacts
    <3>5. QED
      BY <3>4 DEF fewer, less
  <2>7. QED
    BY <2>4, <2>6
<1>6. QED
  BY <1>4, <1>5

(* Steps that add nothing, of either kind.                                 *)
LEMMA QuietSteps ==
  ASSUME C!CapacityAssumption, CapacityInv, JobInv', LockInv',
         \A d \in Documents, kind \in C!Kinds : job'[d][kind] <= job[d][kind],
         \A p \in Processes : transaction'[p].at = "add" =>
           /\ transaction'[p].document = transaction[p].document
           /\ transaction'[p].kind = transaction[p].kind
           /\ transaction'[p].size = transaction[p].size
           /\ Added(p)
  PROVE  CapacityInv'
<1>1. \A p \in Processes : /\ transaction'[p] \in Transactions
                           /\ transaction'[p].at = "add" => transaction'[p].kind \in C!Kinds
  BY DEF JobInv, Transactions, C!NoTransaction
<1>2. ASSUME NEW kind \in C!Kinds
      PROVE  /\ C!Within(kind, Cardinality(C!Bodies(kind)), C!Bytes(kind, C!Bodies(kind)))'
             /\ \A p \in Processes :
                  transaction'[p].at = "add" /\ transaction'[p].kind = kind => Added(p)'
  BY <1>1, NothingAdded
<1>3. C!CapacityKept' /\ RoomInv'
  BY <1>1, <1>2, SameCounts DEF C!CapacityKept, RoomInv
<1>4. QED
  BY <1>3 DEF CapacityInv

LEMMA BeginStep ==
  ASSUME C!CapacityAssumption, CapacityInv,
         NEW p \in Processes, NEW d \in Documents, NEW kind \in C!Kinds, NEW size \in Sizes,
         C!Begin(p, d, kind, size)
  PROVE  CapacityInv'
<1>1. /\ transaction' = [transaction EXCEPT ![p] =
                           [at |-> "lock", document |-> d, kind |-> kind, size |-> size]]
      /\ UNCHANGED <<document, job, lock>>
  BY DEF C!Begin
<1>2. JobInv' /\ transaction'[p].at = "lock"
      /\ \A q \in Processes \ {p} : transaction'[q] = transaction[q]
  BY <1>1 DEF CapacityInv, JobInv, Transactions
<1>3. LockInv'
  BY <1>1, <1>2 DEF CapacityInv, LockInv, C!Limits
<1>4. \A e \in Documents, k \in C!Kinds : job'[e][k] <= job[e][k]
  BY <1>1, BodyFacts DEF CapacityInv
<1>5. QED
  BY <1>2, <1>3, <1>4, QuietSteps DEF CapacityInv, RoomInv

(* A transaction goes from one statement to the next.                      *)
LEMMA AdvanceType ==
  ASSUME CapacityInv, NEW p \in Processes, NEW at \in {"measure", "add", "refuse"},
         transaction[p].at # "none", C!Advance(p, at), UNCHANGED <<document, job>>
  PROVE  /\ JobInv'
         /\ transaction'[p].at = at /\ transaction'[p].document = transaction[p].document
         /\ transaction'[p].kind = transaction[p].kind /\ transaction'[p].size = transaction[p].size
         /\ transaction[p].kind \in C!Kinds /\ transaction[p].document \in Documents
         /\ transaction[p].size \in Sizes
         /\ \A q \in Processes \ {p} : transaction'[q] = transaction[q]
<1>1. transaction[p] \in [at : {"lock", "measure", "add", "refuse"}, document : Documents,
                          kind : C!Kinds, size : Sizes]
  BY DEF CapacityInv, JobInv, Transactions, C!NoTransaction
<1>2. QED
  BY <1>1 DEF CapacityInv, JobInv, Transactions, C!Advance

LEMMA AcquireStep ==
  ASSUME C!CapacityAssumption, CapacityInv, NEW p \in Processes, C!Acquire(p)
  PROVE  CapacityInv'
<1>1. /\ transaction[p].at = "lock" /\ C!Advance(p, "measure") /\ UNCHANGED <<document, job>>
      /\ \/ C!Limits(transaction[p].kind) = <<0, 0>> /\ lock' = lock
         \/ lock = C!Nobody /\ lock' = p
  BY DEF C!Acquire
<1>2. /\ JobInv' /\ transaction'[p].at = "measure" /\ transaction'[p].kind = transaction[p].kind
      /\ \A q \in Processes \ {p} : transaction'[q] = transaction[q]
  BY <1>1, AdvanceType
<1>3. LockInv'
  <2> SUFFICES ASSUME NEW q \in Processes, transaction'[q].at \in {"measure", "add", "refuse"},
                      C!Limits(transaction'[q].kind) # <<0, 0>>
               PROVE  lock' = q
    BY DEF LockInv, C!Limits
  <2>1. CASE q = p
    BY <1>1, <1>2, <2>1
  <2>2. CASE q # p
    <3>1. lock = q
      BY <1>2, <2>2 DEF CapacityInv, LockInv
    <3>2. lock # C!Nobody
      BY <3>1, SameCounts DEF C!CapacityAssumption
    <3>3. QED
      BY <1>1, <3>1, <3>2
  <2>3. QED
    BY <2>1, <2>2
<1>4. \A e \in Documents, k \in C!Kinds : job'[e][k] <= job[e][k]
  BY <1>1, BodyFacts DEF CapacityInv
<1>5. QED
  BY <1>2, <1>3, <1>4, QuietSteps DEF CapacityInv, RoomInv

LEMMA MeasureStep ==
  ASSUME C!CapacityAssumption, CapacityInv, NEW p \in Processes, C!Measure(p)
  PROVE  CapacityInv'
<1>1. PICK at \in {"add", "refuse"} :
        /\ transaction[p].at = "measure" /\ C!Advance(p, at)
        /\ UNCHANGED <<document, job, lock>> /\ (at = "add" => Added(p))
  BY SameCounts DEF C!Measure, Added
<1>2. /\ JobInv' /\ transaction'[p].at = at /\ transaction'[p].kind = transaction[p].kind
      /\ transaction'[p].document = transaction[p].document
      /\ transaction'[p].size = transaction[p].size
      /\ \A q \in Processes \ {p} : transaction'[q] = transaction[q]
  BY <1>1, AdvanceType
<1>3. LockInv'
  BY <1>1, <1>2 DEF CapacityInv, LockInv, C!Limits
<1>4. \A e \in Documents, k \in C!Kinds : job'[e][k] <= job[e][k]
  BY <1>1, BodyFacts DEF CapacityInv
<1>5. QED
  BY <1>1, <1>2, <1>3, <1>4, QuietSteps DEF CapacityInv, RoomInv

(* Who gives the lock back had it, and nobody else.                        *)
LEMMA ReleaseType ==
  ASSUME C!CapacityAssumption, CapacityInv, NEW p \in Processes, C!Release(p)
  PROVE  /\ transaction' \in [Processes -> Transactions] /\ transaction'[p].at = "none"
         /\ \A q \in Processes \ {p} : transaction'[q] = transaction[q]
         /\ LockInv'
<1>1. /\ transaction' \in [Processes -> Transactions] /\ transaction'[p].at = "none"
      /\ \A q \in Processes \ {p} : transaction'[q] = transaction[q]
  BY DEF C!Release, CapacityInv, JobInv, Transactions, C!NoTransaction
<1>2. lock' = IF lock = p THEN C!Nobody ELSE lock
  BY DEF C!Release
<1>3. QED
  BY <1>1, <1>2 DEF CapacityInv, LockInv, C!Limits

LEMMA GiveUpStep ==
  ASSUME C!CapacityAssumption, CapacityInv, NEW p \in Processes, C!GiveUp(p)
  PROVE  CapacityInv'
<1>1. C!Release(p) /\ UNCHANGED <<document, job>>
  BY DEF C!GiveUp
<1>2. JobInv' /\ LockInv' /\ transaction'[p].at = "none"
      /\ \A q \in Processes \ {p} : transaction'[q] = transaction[q]
  BY <1>1, ReleaseType DEF CapacityInv, JobInv
<1>3. \A e \in Documents, k \in C!Kinds : job'[e][k] <= job[e][k]
  BY <1>1, BodyFacts DEF CapacityInv
<1>4. QED
  BY <1>2, <1>3, QuietSteps DEF CapacityInv, RoomInv

(* A body comes to what was measured, and nobody else of that kind has     *)
(* measured meanwhile.                                                     *)
LEMMA CommitStep ==
  ASSUME C!CapacityAssumption, CapacityInv, NEW p \in Processes, C!Commit(p)
  PROVE  CapacityInv'
<1>1. /\ transaction[p].at = "add" /\ C!Release(p) /\ document' = document
      /\ job' = [job EXCEPT ![transaction[p].document] =
                   IF transaction[p].kind = "snapshot"
                   THEN [task |-> document[transaction[p].document], status |-> "active",
                         snapshot |-> transaction[p].size, draft |-> 0]
                   ELSE [@ EXCEPT !.draft = transaction[p].size]]
  BY DEF C!Commit
<1>2. PICK d \in Documents, mine \in C!Kinds, size \in Sizes :
        transaction[p] = [at |-> "add", document |-> d, kind |-> mine, size |-> size]
  BY <1>1 DEF CapacityInv, JobInv, Transactions, C!NoTransaction
<1> DEFINE others == C!Bodies(mine) \ {d}
<1>3. size \in Nat \ {0}
  BY <1>2, SameCounts DEF C!CapacityAssumption
<1>4. document[d] \in Nat /\ job[d] \in Jobs
  BY <1>2 DEF CapacityInv, JobInv
<1>5. /\ job' \in [Documents -> Jobs] /\ job'[d][mine] = size
      /\ \A kind \in C!Kinds \ {mine} : job'[d][kind] <= job[d][kind]
      /\ \A e \in Documents \ {d} : job'[e] = job[e]
  <2>1. CASE mine = "snapshot"
    BY <1>1, <1>2, <1>3, <1>4, <2>1 DEF CapacityInv, JobInv, Jobs, C!Kinds
  <2>2. CASE mine = "draft"
    BY <1>1, <1>2, <1>3, <1>4, <2>2 DEF CapacityInv, JobInv, Jobs, C!Kinds
  <2>3. QED
    BY <1>2, <2>1, <2>2 DEF C!Kinds
<1>6. /\ transaction' \in [Processes -> Transactions] /\ transaction'[p].at = "none" /\ LockInv'
      /\ \A q \in Processes \ {p} : transaction'[q] = transaction[q]
  BY <1>1, ReleaseType
<1>7. JobInv'
  BY <1>1, <1>5, <1>6 DEF CapacityInv, JobInv
<1>8. \A q \in Processes : transaction'[q].at = "add" =>
        /\ q # p /\ transaction'[q] = transaction[q] /\ transaction'[q] \in Transactions
        /\ transaction'[q].kind \in C!Kinds /\ Added(q)
  <2>1. \A q \in Processes : transaction'[q] \in Transactions
    BY <1>6
  <2>2. QED
    BY <1>6, <2>1 DEF CapacityInv, RoomInv, Transactions, C!NoTransaction
<1>9. ASSUME NEW kind \in C!Kinds \ {mine}
      PROVE  /\ C!Within(kind, Cardinality(C!Bodies(kind)), C!Bytes(kind, C!Bodies(kind)))'
             /\ \A q \in Processes :
                  transaction'[q].at = "add" /\ transaction'[q].kind = kind => Added(q)'
  <2>1. \A e \in Documents : job[e][kind] \in Nat
    BY BodyFacts DEF CapacityInv
  <2>2. \A e \in Documents : job'[e][kind] <= job[e][kind]
    BY <1>5, <2>1
  <2>3. QED
    BY <1>7, <1>8, <2>2, NothingAdded
<1>10. C!Within(mine, Cardinality(C!Bodies(mine)'),
              Total([e \in C!Bodies(mine)' |-> job'[e][mine]]))
  <2>1. C!Bodies(mine)' = others \cup {d} /\ d \notin others /\ others \in SUBSET Documents
    <3>1. \A e \in Documents : job'[e][mine] # 0 <=> e = d \/ job[e][mine] # 0
      BY <1>2, <1>3, <1>5
    <3>2. {e \in Documents : job'[e][mine] # 0} = {e \in Documents : job[e][mine] # 0} \cup {d}
      BY <1>2, <3>1
    <3>3. QED
      BY <3>2 DEF C!Bodies
  <2> DEFINE now == others \cup {d}
             all == [e \in now |-> job'[e][mine]]
             rest == [e \in others |-> job[e][mine]]
  <2>2. all \in [now -> Nat] /\ rest \in [now \ {d} -> Nat] /\ all[d] = size
        /\ \A e \in now \ {d} : rest[e] = all[e]
    <3>1. now \ {d} = others /\ d \in now /\ now \in SUBSET Documents
      BY <1>2, <2>1
    <3>2. \A e \in Documents : job[e][mine] \in Nat /\ job'[e][mine] \in Nat
      BY <1>2, <1>7 DEF CapacityInv, JobInv, Jobs, C!Kinds
    <3>3. \A e \in others : job'[e] = job[e]
      BY <1>5, <2>1
    <3> HIDE DEF now, others
    <3>4. QED
      BY <1>5, <3>1, <3>2, <3>3
  <2>3. /\ IsFiniteSet(others) /\ Cardinality(others) \in Nat /\ C!Bytes(mine, others) \in Nat
    BY <1>2, <2>1, BodyFacts DEF CapacityInv
  <2>4. Total(rest) = C!Bytes(mine, others)
    BY SameCounts DEF C!Bytes
  <2>5. C!Within(mine, Cardinality(others) + 1, C!Bytes(mine, others) + size)
    BY <1>2, SameCounts DEF CapacityInv, RoomInv, Added
  <2> HIDE DEF others, all, rest, now
  <2>6. IsFiniteSet(now) /\ Cardinality(now) = Cardinality(others) + 1 /\ d \in now
    BY <2>1, <2>3, FS_AddElement DEF now
  <2>7. Total(all) = C!Bytes(mine, others) + size
    <3>1. Total(all) = Total(rest) + all[d]
      <4>1. /\ IsFiniteSet(now) /\ d \in now /\ all \in [now -> Nat]
            /\ rest \in [now \ {d} -> Nat] /\ \A e \in now \ {d} : rest[e] = all[e]
        BY <2>2, <2>6
      <4>2. QED
        BY <4>1, TotalOfOne
    <3>2. QED
      BY <2>2, <2>4, <3>1
  <2>8. C!Within(mine, Cardinality(now), Total(all))
    BY <2>5, <2>6, <2>7
  <2>9. QED
    BY <2>1, <2>8 DEF now, all
<1>11. ASSUME NEW q \in Processes, transaction'[q].at = "add", transaction'[q].kind = mine
       PROVE  C!Limits(mine) = <<0, 0>>
  <2> SUFFICES ASSUME C!Limits(mine) # <<0, 0>> PROVE FALSE
    OBVIOUS
  <2>1. q # p /\ transaction[q].at = "add" /\ transaction[q].kind = mine
    BY <1>8, <1>11
  <2>2. lock = p /\ lock = q
    BY <1>2, <2>1 DEF CapacityInv, LockInv
  <2>3. QED
    BY <2>1, <2>2
<1>12. C!CapacityKept'
  <2> SUFFICES ASSUME NEW kind \in C!Kinds
               PROVE  C!Within(kind, Cardinality(C!Bodies(kind)), C!Bytes(kind, C!Bodies(kind)))'
    BY SameCounts DEF C!CapacityKept
  <2>1. CASE kind = mine
    BY <1>10, <2>1, SameCounts DEF C!Bytes, C!Within, C!Limits, C!Bodies
  <2>2. CASE kind # mine
    BY <1>9, <2>2
  <2>3. QED
    BY <2>1, <2>2
<1>13. RoomInv'
  <2> SUFFICES ASSUME NEW q \in Processes, transaction'[q].at = "add" PROVE Added(q)'
    BY DEF RoomInv
  <2> DEFINE kind == transaction'[q].kind
  <2>1. CASE kind = mine
    <3> DEFINE left == {e \in Documents : job'[e][kind] # 0} \ {transaction'[q].document}
               taken == Total([e \in left |-> job'[e][kind]])
               more == transaction'[q].size
    <3>1. Added(q)' <=> C!Within(kind, Cardinality(left) + 1, taken + more)
      BY SameCounts DEF Added, C!Bytes, C!Bodies, C!Within, C!Limits
    <3>2. transaction'[q] \in Transactions /\ kind \in C!Kinds
      BY <1>8
    <3>3. more \in Nat
      <4>1. transaction'[q].size \in Sizes
        BY <3>2 DEF Transactions, C!NoTransaction
      <4>2. QED
        BY <4>1, SameCounts DEF C!CapacityAssumption
    <3>4. IsFiniteSet(left) /\ \A e \in left : job'[e][kind] \in Nat
      <4>1. IsFiniteSet(left)
        BY FS_Subset, SameCounts DEF C!CapacityAssumption
      <4>2. \A e \in Documents : job'[e][kind] \in Nat
        BY <1>7, <3>2 DEF JobInv, Jobs, C!Kinds
      <4>3. QED
        BY <4>1, <4>2
    <3>5. C!Limits(kind) = <<0, 0>>
      BY <1>11, <2>1
    <3>6. Cardinality(left) \in Nat /\ taken \in Nat
      <4>1. [e \in left |-> job'[e][kind]] \in [left -> Nat]
        BY <3>4
      <4> HIDE DEF left
      <4>2. QED
        BY <3>4, <4>1, TotalType, FS_CardinalityType
    <3> HIDE DEF left, taken, more, kind
    <3>7. C!Within(kind, Cardinality(left) + 1, taken + more)
      BY <3>2, <3>3, <3>5, <3>6, WithinFacts
    <3>8. QED
      BY <3>1, <3>7
  <2>2. CASE kind # mine
    BY <1>8, <1>9, <2>2
  <2>3. QED
    BY <2>1, <2>2
<1>14. QED
  BY <1>6, <1>7, <1>12, <1>13 DEF CapacityInv

(* Without the lock bodies only go.                                        *)
LEMMA UnlockedSteps ==
  ASSUME C!CapacityAssumption, CapacityInv, NEW d \in Documents,
         C!Ends(d) \/ (\E kind \in C!Kinds : C!Prune(d, kind)) \/ C!Rebuild(d) \/ C!Remove(d)
  PROVE  CapacityInv'
<1>1. transaction' = transaction /\ lock' = lock
  BY DEF C!Ends, C!Prune, C!Rebuild, C!Remove
<1>2. JobInv' /\ \A e \in Documents, kind \in C!Kinds : job'[e][kind] <= job[e][kind]
  <2>1. /\ document \in [Documents -> Nat] /\ job \in [Documents -> Jobs] /\ MaxTasks \in Nat
        /\ transaction \in [Processes -> Transactions]
        /\ \A e \in Documents : \A kind \in C!Kinds : job[e][kind] \in Nat
    BY BodyFacts, SameCounts DEF CapacityInv, JobInv, C!CapacityAssumption
  <2>2. CASE C!Ends(d)
    <3>1. /\ job' \in [Documents -> Jobs]
          /\ \A e \in Documents, kind \in C!Kinds : job'[e][kind] = job[e][kind]
      BY <2>1, <2>2 DEF C!Ends, Jobs, C!Kinds
    <3>2. QED
      BY <1>1, <2>1, <2>2, <3>1 DEF JobInv, C!Ends
  <2>3. ASSUME NEW kind \in C!Kinds, C!Prune(d, kind)
        PROVE  JobInv' /\ \A e \in Documents, k \in C!Kinds : job'[e][k] <= job[e][k]
    <3>1. /\ job' = [job EXCEPT ![d] = [job[d] EXCEPT ![kind] = 0]] /\ document' = document
      BY <2>1, <2>3 DEF C!Prune
    <3>2. CASE kind = "snapshot"
      BY <1>1, <2>1, <3>1, <3>2 DEF JobInv, Jobs, C!Kinds
    <3>3. CASE kind = "draft"
      BY <1>1, <2>1, <3>1, <3>3 DEF JobInv, Jobs, C!Kinds
    <3>4. QED
      BY <3>2, <3>3 DEF C!Kinds
  <2>4. CASE C!Rebuild(d)
    BY <1>1, <2>1, <2>4 DEF JobInv, C!Rebuild
  <2>5. CASE C!Remove(d)
    <3>1. job' = [job EXCEPT ![d] = C!NoJob] /\ document' = [document EXCEPT ![d] = 0]
      BY <2>5 DEF C!Remove
    <3>2. C!NoJob \in Jobs /\ \A kind \in C!Kinds : C!NoJob[kind] = 0
      BY DEF C!NoJob, Jobs, C!Kinds
    <3>3. QED
      BY <1>1, <2>1, <3>1, <3>2 DEF JobInv
  <2>6. QED
    BY <2>2, <2>3, <2>4, <2>5
<1>3. LockInv'
  BY <1>1 DEF CapacityInv, LockInv, C!Limits
<1>4. QED
  BY <1>1, <1>2, <1>3, QuietSteps DEF CapacityInv, RoomInv

LEMMA InitCapacity == ASSUME C!CapacityAssumption PROVE C!Init => CapacityInv
<1> SUFFICES ASSUME C!Init PROVE CapacityInv
  OBVIOUS
<1>1. /\ document = [d \in Documents |-> 1] /\ job = [d \in Documents |-> C!NoJob]
      /\ transaction = [p \in Processes |-> C!NoTransaction]
  BY DEF C!Init
<1>2. JobInv
  BY <1>1 DEF JobInv, Jobs, C!NoJob, Transactions
<1>3. LockInv /\ RoomInv
  BY <1>1 DEF LockInv, RoomInv, C!NoTransaction
<1>4. ASSUME NEW kind \in C!Kinds PROVE C!Bodies(kind) = {}
  BY <1>1 DEF C!Bodies, C!NoJob, C!Kinds
<1>5. ASSUME NEW kind \in C!Kinds
      PROVE  C!Within(kind, Cardinality(C!Bodies(kind)), C!Bytes(kind, C!Bodies(kind)))
  <2>1. Cardinality(C!Bodies(kind)) = 0
    BY <1>4, FS_EmptySet
  <2>2. Units([d \in C!Bodies(kind) |-> job[d][kind]]) = {}
    BY <1>4, UnitsType
  <2>3. C!Bytes(kind, C!Bodies(kind)) = 0
    BY <2>2, FS_EmptySet, SameCounts DEF C!Bytes, Total
  <2>4. QED
    BY <2>1, <2>3, LimitsType DEF C!Within
<1>6. QED
  BY <1>2, <1>3, <1>5, SameCounts DEF CapacityInv, C!CapacityKept

LEMMA NextCapacity ==
  ASSUME C!CapacityAssumption
  PROVE  CapacityInv /\ [C!Next]_(C!vars) => CapacityInv'
<1> SUFFICES ASSUME CapacityInv, [C!Next]_(C!vars) PROVE CapacityInv'
  OBVIOUS
<1>1. CASE UNCHANGED C!vars
  BY <1>1, SameCounts DEF C!vars, CapacityInv, JobInv, LockInv, RoomInv, Added,
     C!CapacityKept, C!Bodies, C!Bytes, C!Within, C!Limits
<1>2. ASSUME NEW p \in Processes,
             \/ \E d \in Documents, kind \in C!Kinds, size \in Sizes : C!Begin(p, d, kind, size)
             \/ C!Acquire(p) \/ C!Measure(p) \/ C!Commit(p) \/ C!GiveUp(p)
      PROVE  CapacityInv'
  BY <1>2, BeginStep, AcquireStep, MeasureStep, CommitStep, GiveUpStep
<1>3. ASSUME NEW d \in Documents,
             C!Ends(d) \/ (\E kind \in C!Kinds : C!Prune(d, kind)) \/ C!Rebuild(d) \/ C!Remove(d)
      PROVE  CapacityInv'
  BY <1>3, UnlockedSteps
<1>4. QED
  BY <1>1, <1>2, <1>3 DEF C!Next

-----------------------------------------------------------------------------
(* The inductive invariant of the capacity holds in every reachable state. *)
THEOREM CapacityInvariance == ASSUME C!CapacityAssumption PROVE C!Spec => []CapacityInv
BY InitCapacity, NextCapacity, PTL DEF C!Spec

(* Snapshots and drafts never take more than their capacity, however many  *)
(* processes add and prune them at a time.                                 *)
THEOREM CapacityIsKept == ASSUME C!CapacityAssumption PROVE C!Spec => []C!CapacityKept
BY CapacityInvariance, PTL DEF CapacityInv
=============================================================================
