------------------------------ MODULE RowStore ------------------------------
(***************************************************************************)
(* The PostgreSQL rows the services share, as their SQLAlchemy sessions    *)
(* use them (READ COMMITTED).  A row has a committed value and a newest    *)
(* one.  The first UPDATE of a row by a transaction takes the row's lock,  *)
(* which the transaction keeps until it commits or rolls back; another     *)
(* UPDATE of the row waits for it, then writes over what it finds.  A      *)
(* SELECT never waits, and sees what is committed and what its own         *)
(* transaction wrote.                                                      *)
(***************************************************************************)

CONSTANT None       \* the owner of a row nobody has locked

VARIABLES
  db,               \* the committed value of each row
  latest,           \* its newest value: what the lock's owner wrote, if any
  lock              \* the transaction that has written the row, or None

store == <<db, latest, lock>>

Free(p, x) == lock[x] \in {None, p}

\* UPDATE x SET status = v, left uncommitted.
Write(p, x, v) ==
  /\ Free(p, x)
  /\ latest' = [latest EXCEPT ![x] = v]
  /\ lock' = [lock EXCEPT ![x] = p]
  /\ db' = db

Commit(p) ==
  /\ db' = [x \in DOMAIN db |-> IF lock[x] = p THEN latest[x] ELSE db[x]]
  /\ latest' = latest
  /\ lock' = [x \in DOMAIN lock |-> IF lock[x] = p THEN None ELSE lock[x]]

\* The last UPDATE of p's transaction together with its COMMIT: between the
\* two p only holds the row, so they are one step.
CommitWith(p, x, v) ==
  /\ Free(p, x)
  /\ latest' = [latest EXCEPT ![x] = v]
  /\ db' = [y \in DOMAIN db |->
              IF y = x THEN v ELSE IF lock[y] = p THEN latest[y] ELSE db[y]]
  /\ lock' = [y \in DOMAIN lock |->
                IF y = x \/ lock[y] = p THEN None ELSE lock[y]]

\* The transactions of P are undone.
Rollback(P) ==
  /\ db' = db
  /\ latest' = [x \in DOMAIN db |-> IF lock[x] \in P THEN db[x] ELSE latest[x]]
  /\ lock' = [x \in DOMAIN lock |-> IF lock[x] \in P THEN None ELSE lock[x]]
=============================================================================
