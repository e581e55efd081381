--------------------------- MODULE DocumentsProofs ---------------------------
(***************************************************************************)
(* Theorems about Documents: its safety properties, for any number of      *)
(* retries and of delete requests.                                         *)
(***************************************************************************)
EXTENDS Documents, TLAPS

-----------------------------------------------------------------------------
(* The inductive invariant. *)

\* There is a task only once the upload is over, and nothing before the row.
UploadOrder ==
  /\ upload \in {"new", "insert"} => row = None
  /\ upload # "over" => task = "none"
  /\ task = "none" => /\ retries = 0 /\ copies = 0
                      /\ row # None => row.status = "uploaded"

\* An attempt stores the chunks at most once.
CopiesCounted ==
  /\ copies <= retries + 1
  /\ task \in {"queued", "mark", "download", "chunk", "embed"} => copies <= retries

\* What the row says of the task, as long as there is a row.
StatusIsTrue ==
  row # None =>
    /\ row.status = "embedded" => task = "done" /\ row.counted
    /\ task \in {"finish", "done"} => copies > 0
    /\ task \in {"queued", "given_up"} => row.status \in {"uploaded", "failed"}
    /\ task = "done" => row.status = "embedded"

Inv == TypeOK /\ UploadOrder /\ CopiesCounted /\ StatusIsTrue /\ DeletedIsGone

LEMMA InitInv == Init => Inv
<1> SUFFICES ASSUME Init PROVE Inv
  OBVIOUS
<1>1. TypeOK
  <2>1. deleter \in [Deleters -> {"new", "delete", "over"}]
    BY DEF Init
  <2>2. copies \in 0..MaxRetries + 1 /\ retries \in 0..MaxRetries
    BY DocumentsAssumption DEF Init
  <2> QED  BY <2>1, <2>2 DEF Init, TypeOK
<1>2. UploadOrder /\ CopiesCounted /\ StatusIsTrue /\ DeletedIsGone
  BY DEF Init, UploadOrder, CopiesCounted, StatusIsTrue, DeletedIsGone
<1> QED  BY <1>1, <1>2 DEF Inv

\* The row of a new upload has its type.
LEMMA NewRow ==
  LET new == [status |-> "uploaded", counted |-> FALSE, error |-> FALSE]
  IN  new \in Row /\ new.status = "uploaded"
BY DEF Row, Status

\* An UPDATE writes a row of its type, or nothing.
LEMMA MarkedRow ==
  ASSUME Inv, NEW s \in Status, NEW e \in BOOLEAN
  PROVE  IF row = None THEN Marked(s, e) = None
         ELSE /\ Marked(s, e) \in Row
              /\ Marked(s, e).status = s /\ Marked(s, e).counted = row.counted
BY NoRowAssumption DEF Inv, TypeOK, Row, Marked

LEMMA UploadKeepsInv == Inv /\ (Put \/ Insert \/ Queue) => Inv'
<1> SUFFICES ASSUME Inv, Put \/ Insert \/ Queue PROVE Inv'
  OBVIOUS
<1> USE NoRowAssumption DEF Inv, TypeOK, UploadOrder, CopiesCounted, StatusIsTrue,
        DeletedIsGone
<1>1. CASE Put
  BY <1>1 DEF Put
<1>2. CASE Insert
  <2>1. \/ row' \in Row /\ row'.status = "uploaded" /\ upload' = "queue"
        \/ UNCHANGED row /\ upload' = "over"
    BY <1>2, NewRow DEF Insert
  <2> QED  BY <1>2, <2>1 DEF Insert, Trying, Ended
<1>3. CASE Queue
  BY <1>3, DocumentsAssumption DEF Queue
<1> QED  BY <1>1, <1>2, <1>3

LEMMA DeleteKeepsInv ==
  ASSUME Inv, NEW d \in Deleters, DeleteObject(d) \/ DeleteRow(d)
  PROVE  Inv'
<1> USE DocumentsAssumption, NoRowAssumption
    DEF Inv, UploadOrder, CopiesCounted, StatusIsTrue, DeletedIsGone
<1>1. CASE DeleteObject(d)
  BY <1>1 DEF DeleteObject, TypeOK
<1>2. CASE DeleteRow(d)
  BY <1>2 DEF DeleteRow, TypeOK
<1> QED  BY <1>1, <1>2

LEMMA TaskKeepsInv == Inv /\ (TaskStep \/ WorkerDies) => Inv'
<1> SUFFICES ASSUME Inv, TaskStep \/ WorkerDies PROVE Inv'
  OBVIOUS
<1> USE DocumentsAssumption, NoRowAssumption
    DEF Inv, TypeOK, UploadOrder, CopiesCounted, StatusIsTrue, DeletedIsGone,
        Status, Trying, Ended
<1>1. CASE Begin \/ Download \/ Raise \/ MarkFailedRaises \/ WorkerDies
  BY <1>1 DEF Begin, Download, Raise, MarkFailedRaises, WorkerDies
<1>2. CASE MarkProcessing
  BY <1>2, MarkedRow DEF MarkProcessing
<1>3. CASE MarkChunked
  BY <1>3, MarkedRow DEF MarkChunked
<1>4. CASE StoreChunks
  BY <1>4 DEF StoreChunks
<1>5. CASE Finish
  BY <1>5 DEF Finish, Row
<1>6. CASE MarkFailed
  BY <1>6, MarkedRow DEF MarkFailed, RetryOrGiveUp
<1> QED  BY <1>1, <1>2, <1>3, <1>4, <1>5, <1>6 DEF TaskStep

LEMMA DocumentsInvariant == Spec => []Inv
<1>1. Inv /\ UNCHANGED vars => Inv'
  BY DEF vars, Inv, TypeOK, UploadOrder, CopiesCounted, StatusIsTrue, DeletedIsGone
<1>2. Inv /\ [Next]_vars => Inv'
  BY <1>1, UploadKeepsInv, DeleteKeepsInv, TaskKeepsInv DEF Next
<1> QED  BY <1>2, InitInv, PTL DEF Spec

-----------------------------------------------------------------------------
(* The theorems. *)

\* The variables keep their types; in particular there are never more copies of
\* the chunks than there have been attempts (Documents!TypeOK).
THEOREM DocumentTypeCorrect == Spec => []TypeOK
<1> QED  BY DocumentsInvariant, PTL DEF Inv

\* An embedded document has its chunks, and their number is in its row.
THEOREM EmbeddedAlwaysSearchable == Spec => []EmbeddedIsSearchable
<1>1. Inv => EmbeddedIsSearchable
  BY DEF Inv, TypeOK, StatusIsTrue, EmbeddedIsSearchable
<1> QED  BY <1>1, DocumentsInvariant, PTL

\* A deleted document has no chunks, whenever the task goes on.
THEOREM DeletedAlwaysGone == Spec => []DeletedIsGone
<1> QED  BY DocumentsInvariant, PTL DEF Inv

\* An intermediate status is the work of a task that is under way, or was lost.
THEOREM InProgressAlwaysWorkedOn == Spec => []InProgressIsWorkedOn
<1>1. Inv => InProgressIsWorkedOn
  BY DEF Inv, TypeOK, UploadOrder, StatusIsTrue, InProgressIsWorkedOn, Trying, Ended
<1> QED  BY <1>1, DocumentsInvariant, PTL
=============================================================================
