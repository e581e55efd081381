----------------------------- MODULE Connections -----------------------------
(***************************************************************************)
(* The registry of one user's WebSockets (api/websocket/manager.py), the   *)
(* endpoint that serves each of them (api/websocket/routes.py), and the    *)
(* broadcasts that write to them.  A step is what a coroutine does between *)
(* two awaits.  Nothing is awaited while the registry's lock is held, so   *)
(* the lock is never waited for and each locked block is part of a step.   *)
(***************************************************************************)

CONSTANTS
  Sockets,            \* connections of the user, each used once
  Casts,              \* calls of send_to_user for the user, each made once
  None

VARIABLES
  table,              \* the user's entry of _connections, or None
  link,               \* whether the peer of each socket is there
  endpoint,           \* what each websocket_endpoint is doing
  cast                \* what each send_to_user is doing

Cast ==
  [pc : {"idle", "on", "done"},
   copy : SUBSET Sockets,                  \* the connections it set out to reach
   todo : SUBSET Sockets,
   failed : SUBSET Sockets,
   sent : BOOLEAN,                         \* whether it has counted a delivery
   reached : SUBSET Sockets]               \* those whose client has the message

ConnectionsTypeOK ==
  /\ table \in ((SUBSET Sockets) \ {{}}) \union {None}
  /\ link \in [Sockets -> {"new", "up", "gone"}]
  /\ endpoint \in [Sockets -> {"new", "welcome", "loop", "over"}]
  /\ cast \in [Casts -> Cast]

ConnectionsInit ==
  /\ table = None
  /\ link = [s \in Sockets |-> "new"]
  /\ endpoint = [s \in Sockets |-> "new"]
  /\ cast = [c \in Casts |-> [pc |-> "idle", copy |-> {}, todo |-> {},
                              failed |-> {}, sent |-> FALSE, reached |-> {}]]

Registered == IF table = None THEN {} ELSE table

\* MUTANT of Without: the last connection leaves an empty entry.
WithoutNoDelete(S) == Registered \ S

\* disconnect, and the pruning of dead connections: an empty entry is deleted.
Without(S) == IF Registered \subseteq S THEN None ELSE Registered \ S

-----------------------------------------------------------------------------
\* websocket_endpoint

\* The socket is accepted and registered, and the welcome message is on its way.
Connect(s) ==
  /\ endpoint[s] = "new"
  /\ endpoint' = [endpoint EXCEPT ![s] = "welcome"]
  /\ link' = [link EXCEPT ![s] = "up"]
  /\ table' = Registered \union {s}
  /\ UNCHANGED cast

\* The browser tab is closed, or the network fails.
ClientLeaves(s) ==
  /\ link[s] = "up"
  /\ link' = [link EXCEPT ![s] = "gone"]
  /\ UNCHANGED <<table, endpoint, cast>>

EndpointEnds(s) ==
  /\ endpoint' = [endpoint EXCEPT ![s] = "over"]
  /\ link' = [link EXCEPT ![s] = "gone"]
  /\ table' = Without({s})

\* MUTANT of Welcome: when the message cannot be sent the endpoint just returns.
WelcomeOnly(s) ==
  /\ endpoint[s] = "welcome"
  /\ \/ /\ endpoint' = [endpoint EXCEPT ![s] = "loop"]
        /\ UNCHANGED <<table, link>>
     \/ /\ link[s] = "gone"
        /\ endpoint' = [endpoint EXCEPT ![s] = "over"]
        /\ UNCHANGED <<table, link>>
  /\ UNCHANGED cast

\* Writing to a peer that has gone may fail or not.
Welcome(s) ==
  /\ endpoint[s] = "welcome"
  /\ \/ /\ endpoint' = [endpoint EXCEPT ![s] = "loop"]
        /\ UNCHANGED <<table, link>>
     \/ link[s] = "gone" /\ EndpointEnds(s)
  /\ UNCHANGED cast

\* The receive raises because the client has left, a ping cannot be written, or
\* the client has sent something that is no JSON object.
LeaveLoop(s) ==
  /\ endpoint[s] = "loop"
  /\ EndpointEnds(s)
  /\ UNCHANGED cast

-----------------------------------------------------------------------------
\* send_to_user

StartCast(c) ==
  /\ cast[c].pc = "idle"
  /\ cast' = [cast EXCEPT ![c].pc = IF Registered = {} THEN "done" ELSE "on",
                          ![c].copy = Registered,
                          ![c].todo = Registered]
  /\ UNCHANGED <<table, link, endpoint>>

CanSend(s, ok) == IF ok THEN endpoint[s] # "over" ELSE link[s] = "gone"

\* MUTANT of Written: the last write decides whether a delivery is counted.
WrittenLast(c, s, ok) ==
  [cast[c] EXCEPT !.todo = @ \ {s},
                  !.sent = ok,
                  !.reached = IF ok /\ link[s] = "up" THEN @ \union {s} ELSE @,
                  !.failed = IF ok THEN @ ELSE @ \union {s}]

\* One connection of the copy is written to, or found to be closed.
Written(c, s, ok) ==
  [cast[c] EXCEPT !.todo = @ \ {s},
                  !.sent = @ \/ ok,
                  !.reached = IF ok /\ link[s] = "up" THEN @ \union {s} ELSE @,
                  !.failed = IF ok THEN @ ELSE @ \union {s}]

Finished(sending) == [sending EXCEPT !.pc = "done", !.todo = {}, !.failed = {}]

\* MUTANT of SendNext: the pruned copy is written back.
SendNextWriteBack(c) ==
  /\ cast[c].pc = "on"
  /\ \E s \in cast[c].todo, ok \in BOOLEAN :
       /\ CanSend(s, ok)
       /\ LET after == Written(c, s, ok)
              rest == after.copy \ after.failed
          IN IF after.todo # {}
             THEN cast' = [cast EXCEPT ![c] = after] /\ UNCHANGED table
             ELSE /\ cast' = [cast EXCEPT ![c] = Finished(after)]
                  /\ table' = IF after.failed = {} THEN table
                              ELSE IF rest = {} THEN None ELSE rest
  /\ UNCHANGED <<link, endpoint>>

\* MUTANT of SendNext: the first failure ends the loop.
SendNextGivesUp(c) ==
  /\ cast[c].pc = "on"
  /\ \E s \in cast[c].todo, ok \in BOOLEAN :
       /\ CanSend(s, ok)
       /\ LET after == Written(c, s, ok)
          IN IF ok /\ after.todo # {}
             THEN cast' = [cast EXCEPT ![c] = after] /\ UNCHANGED table
             ELSE /\ cast' = [cast EXCEPT ![c] = Finished(after)]
                  /\ table' = Without(after.failed)
  /\ UNCHANGED <<link, endpoint>>

\* After the last one, the dead connections are pruned.
SendNext(c) ==
  /\ cast[c].pc = "on"
  /\ \E s \in cast[c].todo, ok \in BOOLEAN :
       /\ CanSend(s, ok)
       /\ LET after == Written(c, s, ok)
          IN IF after.todo # {}
             THEN cast' = [cast EXCEPT ![c] = after] /\ UNCHANGED table
             ELSE /\ cast' = [cast EXCEPT ![c] = Finished(after)]
                  /\ table' = Without(after.failed)
  /\ UNCHANGED <<link, endpoint>>

-----------------------------------------------------------------------------
Serve(s) == Welcome(s) \/ LeaveLoop(s)

ConnectionsNext ==
  \/ \E s \in Sockets : Connect(s) \/ ClientLeaves(s) \/ Serve(s)
  \/ \E c \in Casts : SendNext(c)

-----------------------------------------------------------------------------
(* What must hold. *)

\* Whatever broadcasts prune while sockets come and go: a socket that is served
\* and whose client is there is registered, and one that is no longer served is
\* not.
RegistryIsCurrent ==
  \A s \in Sockets :
    /\ endpoint[s] = "loop" /\ link[s] = "up" => s \in Registered
    /\ endpoint[s] = "over" => s \notin Registered

\* A broadcast reaches every client that was connected when it began and still
\* is, whichever of the others have failed.
BroadcastReachesAll ==
  \A c \in Casts : cast[c].pc = "done" =>
    \A s \in cast[c].copy : link[s] = "up" => s \in cast[c].reached

\* A client that has left is forgotten.
GoneIsForgotten == \A s \in Sockets : link[s] = "gone" ~> s \notin Registered
=============================================================================
