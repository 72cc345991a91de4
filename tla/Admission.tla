------------------------------- MODULE Admission -------------------------------
(***************************************************************************)
(* Admission of documents to an installation: the budgets of pages, chunks *)
(* and pending work, one row for a PDF in a course, and the source object  *)
(* that rows may share.  Uploads, retries, reservations and removals take  *)
(* the admission lock, a PostgreSQL advisory lock that ends with its       *)
(* transaction: an upload keeps it while it writes the object, a removal   *)
(* while it deletes one.  A kill releases the lock, but a request that     *)
(* object storage accepted may still take effect.                          *)
(*                                                                         *)
(* A content is a PDF in a course, and names the object (object_key).      *)
(* Source bytes are budgeted as pages are, and are left out.               *)
(***************************************************************************)
EXTENDS FiniteSetsExt, Totals

CONSTANTS Documents, Requests, Contents, Courses,
          Legacy,        \* documents from before pages and chunks were recorded
          NoContent, NoDocument,
          CourseOf, PagesOf,      \* the course and the number of pages of a content
          MaxPagesPerDocument, MaxChunksPerDocument, ChunkReservationPerPage,
          MaxPages, MaxChunks, MaxPending,      \* of the installation
          MaxDocuments                          \* 0: no limit

ASSUME ContentsAssumption ==
  /\ CourseOf \in [Contents -> Courses] /\ PagesOf \in [Contents -> Nat \ {0}]
  /\ NoContent \notin Contents
ASSUME DocumentsAssumption ==
  Legacy \subseteq Documents /\ IsFiniteSet(Legacy) /\ NoDocument \notin Documents
ASSUME LimitsAssumption ==
  /\ {MaxPagesPerDocument, MaxChunksPerDocument, ChunkReservationPerPage} \subseteq Nat \ {0}
  /\ {MaxPages, MaxChunks, MaxPending} \subseteq Nat \ {0} /\ MaxDocuments \in Nat

VARIABLES
  rows,      \* document_uploads
  courses,   \* courses
  objects,   \* object storage: the contents it has
  late,      \* requests that object storage accepted from a caller who is gone
  request,   \* what an upload request holds between two steps
  removal,   \* the removal that holds the admission lock
  struck,    \* history: contents whose object a late deletion removed
  stray      \* history: contents stored for an upload that did not finish

vars == <<rows, courses, objects, late, request, removal, struck, stray>>

NoRow == [status |-> "none", content |-> NoContent, pages |-> 0, chunks |-> 0,
          again |-> FALSE, deleting |-> FALSE]
Idle == [at |-> "idle", content |-> NoContent, new |-> FALSE]
NoRemoval == [at |-> "idle", document |-> NoDocument]

Taken == {d \in Documents : rows[d].status # "none"}
Active == {d \in Documents : rows[d].status \in {"queued", "indexing"}}
Holding(content) == {d \in Taken : rows[d].content = content}

(* pg_advisory_xact_lock: nobody else is in a critical section.            *)
Unlocked == (\A r \in Requests : request[r] = Idle) /\ removal = NoRemoval

-----------------------------------------------------------------------------
(* ResourceBudgetService.                                                  *)

(* Unknown values (0) of legacy rows count as the largest.                 *)
Pages(row) == IF row.pages = 0 THEN MaxPagesPerDocument ELSE row.pages
Chunks(row) == IF row.chunks = 0 THEN MaxChunksPerDocument ELSE row.chunks

PagesUsed(D) == Total([d \in D |-> Pages(rows[d])])
ChunksUsed(D) == Total([d \in D |-> Chunks(rows[d])])

chunk_reservation(pages) ==
  Min({MaxChunksPerDocument, pages * ChunkReservationPerPage})

(* A variant with a plausible bug: the other documents are not counted.    *)
FitsDocumentOnly(D, pages, chunks) ==
  pages <= MaxPagesPerDocument /\ chunks <= MaxChunksPerDocument

(* check, beside the documents D.                                          *)
Fits(D, pages, chunks) ==
  /\ pages <= MaxPagesPerDocument /\ chunks <= MaxChunksPerDocument
  /\ PagesUsed(D) + pages <= MaxPages
  /\ ChunksUsed(D) + chunks <= MaxChunks

HasRoom == Cardinality(Active) < MaxPending

NewFits(content) ==
  /\ Fits(Taken, PagesOf[content], chunk_reservation(PagesOf[content]))
  /\ HasRoom
  /\ MaxDocuments # 0 => Cardinality(Taken) < MaxDocuments

-----------------------------------------------------------------------------
(* upload_document.                                                        *)

(* A variant with a plausible bug: the lock is not taken.                  *)
UploadUnlocked(r, content) ==
  /\ request[r] = Idle
  /\ Holding(content) = {} /\ NewFits(content)
  /\ request' = [request EXCEPT ![r] = [at |-> "storing", content |-> content,
                                        new |-> CourseOf[content] \notin courses]]
  /\ UNCHANGED <<rows, courses, objects, late, removal, struck, stray>>

(* A duplicate and a full budget are answered without a trace.             *)
Upload(r, content) ==
  /\ Unlocked
  /\ Holding(content) = {} /\ NewFits(content)
  /\ request' = [request EXCEPT ![r] = [at |-> "storing", content |-> content,
                                        new |-> CourseOf[content] \notin courses]]
  /\ UNCHANGED <<rows, courses, objects, late, removal, struck, stray>>

(* put_pdf.                                                                *)
Store(r) ==
  LET content == request[r].content IN
  /\ request[r].at = "storing"
  /\ objects' = objects \cup {content}
  /\ struck' = struck \ {content}
  /\ request' = [request EXCEPT ![r].at = "creating"]
  /\ UNCHANGED <<rows, courses, late, removal, stray>>

(* create_upload commits the row and, if it is new, the course; the answer *)
(* may be lost, and the client told to try again.                          *)
Create(r, d) ==
  LET content == request[r].content IN
  /\ request[r].at = "creating" /\ d \notin Legacy /\ rows[d] = NoRow
  /\ request[r].new <=> CourseOf[content] \notin courses
  /\ rows' = [rows EXCEPT ![d] = [status |-> "queued", content |-> content,
                                  pages |-> PagesOf[content],
                                  chunks |-> chunk_reservation(PagesOf[content]),
                                  again |-> FALSE, deleting |-> FALSE]]
  /\ courses' = courses \cup {CourseOf[content]}
  /\ request' = [request EXCEPT ![r] = Idle]
  /\ stray' = stray \ {content}
  /\ UNCHANGED <<objects, late, removal, struck>>

(* An error, a lost connection or the end of the process: the transaction  *)
(* rolls back, the object is kept, or may still come.                      *)
UploadStops(r) ==
  LET content == request[r].content IN
  /\ request[r] # Idle
  /\ IF request[r].at = "storing"
     THEN /\ objects' \in {objects, objects \cup {content}}
          /\ late' \in {late, late \cup {[op |-> "put", content |-> content]}}
     ELSE UNCHANGED <<objects, late>>
  /\ request' = [request EXCEPT ![r] = Idle]
  /\ stray' = stray \cup {content}
  /\ UNCHANGED <<rows, courses, removal, struck>>

-----------------------------------------------------------------------------
(* The document's work, as far as admission sees it.                       *)

Row(d, row) == rows' = [rows EXCEPT ![d] = row]
Others == <<courses, objects, late, request, removal, struck, stray>>

(* reserve_chunks, once the chunks are counted.                            *)
Reserve(d) ==
  /\ Unlocked /\ rows[d].status = "queued"
  /\ \E chunks \in 1..MaxChunksPerDocument :
       /\ Fits(Taken \ {d}, PagesOf[rows[d].content], chunks)
       /\ Row(d, [rows[d] EXCEPT !.status = "indexing", !.chunks = chunks,
                                 !.pages = PagesOf[rows[d].content]])
  /\ UNCHANGED Others

(* mark_completed: the graph may be worth another try.                     *)
Complete(d) ==
  /\ rows[d].status = "indexing"
  /\ \E again \in BOOLEAN : Row(d, [rows[d] EXCEPT !.status = "ready", !.again = again])
  /\ UNCHANGED Others

(* mark_failed, also for an exceeded budget and for a missing source.      *)
Fail(d) ==
  /\ d \in Active
  /\ \E again \in BOOLEAN : Row(d, [rows[d] EXCEPT !.status = "failed", !.again = again])
  /\ UNCHANGED Others

(* prepare_stale_recoveries looks at no budget.                            *)
Recover(d) ==
  /\ rows[d].status = "indexing"
  /\ Row(d, [rows[d] EXCEPT !.status = "queued"])
  /\ UNCHANGED Others

(* retry_upload.                                                           *)
Retry(d) ==
  /\ Unlocked /\ HasRoom
  /\ rows[d].status \in {"ready", "failed"} /\ rows[d].again /\ ~rows[d].deleting
  /\ Row(d, [rows[d] EXCEPT !.status = "queued", !.again = FALSE])
  /\ UNCHANGED Others

-----------------------------------------------------------------------------
(* remove_upload and the retention loop.                                   *)

Deletable(d) == rows[d].status \in {"ready", "failed"}

(* lock_for_deletion commits the flag, which releases the lock ...         *)
RequestRemoval(d) ==
  /\ Unlocked /\ Deletable(d) /\ ~rows[d].deleting
  /\ Row(d, [rows[d] EXCEPT !.deleting = TRUE])
  /\ UNCHANGED Others

(* ... and takes it again; later attempts begin here.                      *)
BeginRemoval(d) ==
  /\ Unlocked /\ Deletable(d) /\ rows[d].deleting
  /\ removal' = [at |-> "cleaning", document |-> d]
  /\ UNCHANGED <<rows, courses, objects, late, request, struck, stray>>

(* A variant with a plausible bug: only documents at work are looked at.   *)
SharedByActive(d) == (Holding(rows[d].content) \cap Active) \ {d} # {}

(* storage_key_is_shared.                                                  *)
Shared(d) == Holding(rows[d].content) \ {d} # {}

(* cleanup_upload succeeded; the object goes with its last document.       *)
DeleteSource(d) ==
  /\ removal = [at |-> "cleaning", document |-> d]
  /\ IF Shared(d) THEN UNCHANGED <<objects, stray>>
     ELSE /\ objects' = objects \ {rows[d].content}
          /\ stray' = stray \ {rows[d].content}
  /\ removal' = [removal EXCEPT !.at = "cleared"]
  /\ UNCHANGED <<rows, courses, late, request, struck>>

(* A variant with a plausible bug: a failed deletion of the object is      *)
(* passed over.                                                            *)
RemoveRowAnyway(d) ==
  /\ removal.at # "idle" /\ removal.document = d
  /\ rows' = [rows EXCEPT ![d] = NoRow]
  /\ courses' = {CourseOf[rows[e].content] : e \in Taken \ {d}}
  /\ removal' = NoRemoval
  /\ UNCHANGED <<objects, late, request, struck, stray>>

(* delete_document: the row, and the course with its last document.        *)
RemoveRow(d) ==
  /\ removal = [at |-> "cleared", document |-> d]
  /\ rows' = [rows EXCEPT ![d] = NoRow]
  /\ courses' = IF \E e \in Taken \ {d} : CourseOf[rows[e].content] = CourseOf[rows[d].content]
                THEN courses ELSE courses \ {CourseOf[rows[d].content]}
  /\ removal' = NoRemoval
  /\ UNCHANGED <<objects, late, request, struck, stray>>

(* An error of a store, or the end of the process: the flag stays.         *)
RemovalStops ==
  /\ removal # NoRemoval
  /\ LET d == removal.document
         content == rows[d].content
     IN IF removal.at = "cleaning" /\ ~Shared(d)
        THEN \/ UNCHANGED <<objects, late>>
             \/ objects' = objects \ {content} /\ UNCHANGED late
             \/ late' = late \cup {[op |-> "delete", content |-> content]} /\ UNCHANGED objects
        ELSE UNCHANGED <<objects, late>>
  /\ removal' = NoRemoval
  /\ UNCHANGED <<rows, courses, request, struck, stray>>

(* A request that outlived its caller takes effect.                        *)
LateLands ==
  \E op \in late :
    /\ late' = late \ {op}
    /\ IF op.op = "put"
       THEN /\ objects' = objects \cup {op.content}
            /\ stray' = stray \cup {op.content}
            /\ UNCHANGED struck
       ELSE /\ objects' = objects \ {op.content}
            /\ struck' = struck \cup {op.content}
            /\ UNCHANGED stray
    /\ UNCHANGED <<rows, courses, request, removal>>

-----------------------------------------------------------------------------
(* An installation may have READY documents from before reservations and   *)
(* before duplicates were refused.                                         *)
Init ==
  /\ \E present \in SUBSET Legacy, content \in Contents :
       /\ rows = [d \in Documents |->
                    IF d \in present
                    THEN [NoRow EXCEPT !.status = "ready", !.content = content, !.again = TRUE]
                    ELSE NoRow]
       /\ courses = IF present = {} THEN {} ELSE {CourseOf[content]}
       /\ objects = IF present = {} THEN {} ELSE {content}
  /\ late = {}
  /\ request = [r \in Requests |-> Idle] /\ removal = NoRemoval
  /\ struck = {} /\ stray = {}

UploadStep(r) ==
  \/ \E content \in Contents : Upload(r, content)
  \/ Store(r) \/ UploadStops(r)
  \/ \E d \in Documents : Create(r, d)

DocumentStep(d) ==
  \/ Reserve(d) \/ Complete(d) \/ Fail(d) \/ Recover(d) \/ Retry(d)
  \/ RequestRemoval(d) \/ BeginRemoval(d) \/ DeleteSource(d) \/ RemoveRow(d)

Next ==
  \/ \E r \in Requests : UploadStep(r)
  \/ \E d \in Documents : DocumentStep(d)
  \/ RemovalStops \/ LateLands

Spec == Init /\ [][Next]_vars

-----------------------------------------------------------------------------
Statuses == {"none", "queued", "indexing", "ready", "failed"}
Rows ==
  [status : Statuses, content : Contents \cup {NoContent}, pages : Nat, chunks : Nat,
   again : BOOLEAN, deleting : BOOLEAN]
Sessions ==
  [at : {"idle", "storing", "creating"}, content : Contents \cup {NoContent}, new : BOOLEAN]

(* A document that is being removed is never put to work again.            *)
RowOK(d) ==
  /\ rows[d].status = "none" <=> rows[d] = NoRow
  /\ rows[d].status # "none" => rows[d].content \in Contents
  /\ rows[d].deleting => Deletable(d)

TypeOK ==
  /\ rows \in [Documents -> Rows] /\ \A d \in Documents : RowOK(d)
  /\ courses \subseteq Courses
  /\ objects \subseteq Contents /\ struck \subseteq Contents /\ stray \subseteq Contents
  /\ late \subseteq [op : {"put", "delete"}, content : Contents]
  /\ request \in [Requests -> Sessions]
  /\ \A r \in Requests : IF request[r].at = "idle" THEN request[r] = Idle
                         ELSE request[r].content \in Contents
  /\ removal \in [at : {"idle", "cleaning", "cleared"}, document : Documents \cup {NoDocument}]

(* No step takes the installation further over a budget: whatever uploads, *)
(* reservations, retries and recoveries interleave, pages, chunks, pending *)
(* work and documents only grow to what the limits allow, the unknown      *)
(* sizes of legacy documents counted as the largest.                       *)
GrowsWithinBudgets ==
  /\ PagesUsed(Taken)' > PagesUsed(Taken) => PagesUsed(Taken)' <= MaxPages
  /\ ChunksUsed(Taken)' > ChunksUsed(Taken) => ChunksUsed(Taken)' <= MaxChunks
  /\ Cardinality(Active)' > Cardinality(Active) => Cardinality(Active)' <= MaxPending
  /\ Cardinality(Taken)' > Cardinality(Taken) /\ MaxDocuments # 0
       => Cardinality(Taken)' <= MaxDocuments
BudgetsKept == [][GrowsWithinBudgets]_vars

(* A PDF is admitted to a course once, however its uploads overlap, fail   *)
(* half-way or are repeated; only legacy rows may be duplicates.           *)
OneRowPerContent ==
  \A d, e \in Taken : d # e /\ rows[d].content = rows[e].content => {d, e} \subseteq Legacy

(* A document that nobody asked to remove has its PDF, also while others   *)
(* that share it are removed and while the same PDF is uploaded again;     *)
(* only a deletion that outlived its caller can take it away.              *)
SourceKept ==
  \A d \in Taken : ~rows[d].deleting => rows[d].content \in objects \cup struck

(* Removals leave no object behind, even if two documents that share one   *)
(* are removed together: what is there belongs to a row, to an upload at   *)
(* work, or to an upload that did not finish.                              *)
NothingLeftBehind ==
  objects \subseteq {rows[d].content : d \in Taken} \cup stray
                      \cup {request[r].content : r \in Requests}

(* A course exists exactly as long as it has documents.                    *)
CoursesMatch == courses = {CourseOf[rows[d].content] : d \in Taken}
=============================================================================
