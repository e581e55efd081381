------------------------------ MODULE Documents ------------------------------
(***************************************************************************)
(* One uploaded document: the API that stores, lists and deletes it        *)
(* (api/v1/documents.py, services/document_service.py,                     *)
(* services/storage_service.py), and the Celery task that turns it into    *)
(* searchable chunks (tasks/document_tasks.py).  They are processes of     *)
(* their own that share the MinIO object and the rows of documents and     *)
(* document_chunks.  Documents share no state with each other.             *)
(*                                                                         *)
(* A step ends with a commit, or with a call that leaves the process.  Any *)
(* statement, and any call of MinIO, may raise.                            *)
(***************************************************************************)
EXTENDS Naturals

CONSTANTS
  Deleters,           \* DELETE requests of the owner, each made once
  MaxRetries,         \* max_retries of process_document
  None

ASSUME DocumentsAssumption == MaxRetries \in Nat

VARIABLES
  row,                \* the documents row, or None
  object,             \* whether MinIO has the file
  copies,             \* how many times the rows of its chunks are there
  upload,             \* what upload_document is doing
  deleter,            \* what each delete_document is doing
  task,               \* what process_document is doing
  retries             \* self.request.retries

vars == <<row, object, copies, upload, deleter, task, retries>>

Status == {"uploaded", "processing", "chunked", "embedded", "failed"}
Row == [status : Status, counted : BOOLEAN, error : BOOLEAN]

ASSUME NoRowAssumption == None \notin Row

\* The statements of the task's try block.
Trying == {"mark", "download", "chunk", "embed", "finish"}
Ended == {"done", "given_up", "lost", "dead"}

TypeOK ==
  /\ row \in Row \union {None}
  /\ object \in BOOLEAN
  /\ copies \in 0..MaxRetries + 1
  /\ upload \in {"new", "insert", "queue", "over"}
  /\ deleter \in [Deleters -> {"new", "delete", "over"}]
  /\ task \in {"none", "queued", "failing"} \union Trying \union Ended
  /\ retries \in 0..MaxRetries

Init ==
  /\ row = None
  /\ object = FALSE
  /\ copies = 0
  /\ upload = "new"
  /\ deleter = [d \in Deleters |-> "new"]
  /\ task = "none"
  /\ retries = 0

-----------------------------------------------------------------------------
\* upload_document, of a file that is allowed

Put ==
  /\ upload = "new"
  /\ upload' = "insert"
  /\ object' = TRUE
  /\ UNCHANGED <<row, copies, deleter, task, retries>>

\* When the commit raises the object stays behind.
Insert ==
  /\ upload = "insert"
  /\ \/ /\ row' = [status |-> "uploaded", counted |-> FALSE, error |-> FALSE]
        /\ upload' = "queue"
     \/ upload' = "over" /\ UNCHANGED row
  /\ UNCHANGED <<object, copies, deleter, task, retries>>

\* After a refresh, which finds no row when it has been deleted.  A broker that
\* cannot be reached is logged only: the document stays "uploaded".
Queue ==
  /\ upload = "queue"
  /\ upload' = "over"
  /\ \/ task' = "queued" /\ row # None
     \/ UNCHANGED task
  /\ UNCHANGED <<row, object, copies, deleter, retries>>

-----------------------------------------------------------------------------
\* delete_document

\* The row is read and the object removed, if MinIO can be reached.
DeleteObject(d) ==
  /\ deleter[d] = "new"
  /\ row # None
  /\ deleter' = [deleter EXCEPT ![d] = "delete"]
  /\ object' \in {object, FALSE}
  /\ UNCHANGED <<row, copies, upload, task, retries>>

\* MUTANT of DeleteRow: the chunks are not deleted with it.
DeleteRowOnly(d) ==
  /\ deleter[d] = "delete"
  /\ deleter' = [deleter EXCEPT ![d] = "over"]
  /\ row' = None
  /\ UNCHANGED <<object, copies, upload, task, retries>>

\* The chunks go with the row: those that the session has loaded, and by the
\* foreign key's ON DELETE CASCADE those that came later.
DeleteRow(d) ==
  /\ deleter[d] = "delete"
  /\ deleter' = [deleter EXCEPT ![d] = "over"]
  /\ \/ row' = None /\ copies' = 0
     \/ UNCHANGED <<row, copies>>
  /\ UNCHANGED <<object, upload, task, retries>>

-----------------------------------------------------------------------------
\* process_document

\* _update_status: an UPDATE of a row that is gone does nothing.
Marked(status, error) ==
  IF row = None THEN None
  ELSE [row EXCEPT !.status = status, !.error = @ \/ error]

Begin ==
  /\ task = "queued"
  /\ task' = "mark"
  /\ UNCHANGED <<row, object, copies, upload, deleter, retries>>

MarkProcessing ==
  /\ task = "mark"
  /\ row' = Marked("processing", FALSE)
  /\ task' = "download"
  /\ UNCHANGED <<object, copies, upload, deleter, retries>>

Download ==
  /\ task = "download"
  /\ object
  /\ task' = "chunk"
  /\ UNCHANGED <<row, object, copies, upload, deleter, retries>>

\* The text is extracted and split.
MarkChunked ==
  /\ task = "chunk"
  /\ row' = Marked("chunked", FALSE)
  /\ task' = "embed"
  /\ UNCHANGED <<object, copies, upload, deleter, retries>>

\* MUTANT of StoreChunks: the insert is left to the last commit, which a helper
\* of its own session does not make.
StoreChunksUncommitted ==
  /\ task = "embed"
  /\ row # None
  /\ task' = "finish"
  /\ UNCHANGED <<row, object, copies, upload, deleter, retries>>

\* _store_chunks: all chunks in one commit.  The foreign key must find the row.
StoreChunks ==
  /\ task = "embed"
  /\ row # None
  /\ copies' = copies + 1
  /\ task' = "finish"
  /\ UNCHANGED <<row, object, upload, deleter, retries>>

Finish ==
  /\ task = "finish"
  /\ row' = IF row = None THEN None
            ELSE [row EXCEPT !.status = "embedded", !.counted = TRUE]
  /\ task' = "done"
  /\ UNCHANGED <<object, copies, upload, deleter, retries>>

\* A statement raises: MinIO or the database, a text that is empty, an embedding
\* model that cannot be loaded, the foreign key, or the soft time limit.
Raise ==
  /\ task \in Trying
  /\ task' = "failing"
  /\ UNCHANGED <<row, object, copies, upload, deleter, retries>>

\* MUTANT of RetryOrGiveUp: one retry too many.
RetryOnceMore ==
  \/ task' = "queued" /\ retries <= MaxRetries /\ retries' = retries + 1
  \/ task' = "given_up" /\ retries > MaxRetries /\ UNCHANGED retries
  \/ task' = "lost" /\ UNCHANGED retries

\* MUTANT of RetryOrGiveUp: a retry after an attempt that has stored nothing
\* counts as the first one again.
RetryFromOne ==
  \/ task' = "queued" /\ retries < MaxRetries
     /\ retries' = IF copies = 0 THEN 1 ELSE retries + 1
  \/ task' = "given_up" /\ retries = MaxRetries /\ UNCHANGED retries
  \/ task' = "lost" /\ UNCHANGED retries

\* The except clause marks the document and asks for a retry, which may find no
\* broker.
RetryOrGiveUp ==
  \/ task' = "queued" /\ retries < MaxRetries /\ retries' = retries + 1
  \/ task' = "given_up" /\ retries = MaxRetries /\ UNCHANGED retries
  \/ task' = "lost" /\ UNCHANGED retries

\* MUTANT of MarkFailed: only the last failure is recorded.
MarkFailedAtLast ==
  /\ task = "failing"
  /\ RetryOrGiveUp
  /\ row' = IF retries = MaxRetries THEN Marked("failed", TRUE) ELSE row
  /\ UNCHANGED <<object, copies, upload, deleter>>

MarkFailed ==
  /\ task = "failing"
  /\ RetryOrGiveUp
  /\ \E told \in BOOLEAN : row' = Marked("failed", told)
  /\ UNCHANGED <<object, copies, upload, deleter>>

\* The except clause raises itself, and there is no retry.
MarkFailedRaises ==
  /\ task = "failing"
  /\ task' = "lost"
  /\ UNCHANGED <<row, object, copies, upload, deleter, retries>>

\* The worker is killed, by the hard time limit or from outside.  The broker has
\* had its acknowledgement and does not deliver the task again.
WorkerDies ==
  /\ task \in Trying \union {"failing"}
  /\ task' = "dead"
  /\ UNCHANGED <<row, object, copies, upload, deleter, retries>>

-----------------------------------------------------------------------------
TaskStep ==
  \/ Begin \/ MarkProcessing \/ Download \/ MarkChunked \/ StoreChunks \/ Finish
  \/ Raise \/ MarkFailed \/ MarkFailedRaises

Next ==
  \/ Put \/ Insert \/ Queue
  \/ \E d \in Deleters : DeleteObject(d) \/ DeleteRow(d)
  \/ TaskStep \/ WorkerDies

Spec == Init /\ [][Next]_vars

\* A worker has the task: it is in it, or has sent it back to be retried.
Begun == task \in Trying \union {"failing"} \/ (task = "queued" /\ retries > 0)

\* No call hangs for ever: at the latest the time limits of Celery end it.  A worker
\* that has had the task once serves the queue of its retries.  That one takes the
\* task in the first place is not assumed: the task is routed to the queue
\* "documents" and autodiscover_tasks finds no module that registers it, so the
\* worker as it is started, without -Q, never does.
FairSpec == Spec /\ WF_vars(Begun /\ TaskStep)

-----------------------------------------------------------------------------
(* What must hold. *)

\* A document that is shown as embedded has its chunks in the database and their
\* number in its row, whatever failed on the way and was tried again.
EmbeddedIsSearchable ==
  row # None /\ row.status = "embedded" => copies > 0 /\ row.counted

\* A document that is deleted while it is processed leaves no chunks behind, and
\* gets none afterwards.
DeletedIsGone == row = None => copies = 0

\* A document in an intermediate status is being worked on, unless its worker
\* was killed or could not even record the failure.
InProgressIsWorkedOn ==
  row # None /\ row.status \in {"processing", "chunked"} =>
    task \in Trying \union {"failing", "lost", "dead"}

\* A task that a worker has begun ends, however often it fails.
TaskEnds == Begun ~> task \in Ended
=============================================================================
