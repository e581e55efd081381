---------------------------- MODULE Notifications ----------------------------
(***************************************************************************)
(* The delivery of approval requests to one user: NotificationService.send *)
(* over its channels, inside ApprovalService.create_approval, the commit   *)
(* of the planner that called it, and the broadcast that follows           *)
(* (services/async_planner.py).  It writes to the connections of module    *)
(* Connections; while it does, their endpoints go on.                      *)
(***************************************************************************)
CONSTANTS
  Sockets,
  Notices,            \* the approvals that are created
  Updates,            \* agent_update and trip_completed messages of other runs
  Enabled,            \* the channels beside the WebSockets that are set up and
                      \* that the user has not turned off
  None

\* The broadcasts: two of each approval, notification and approval_request, and
\* the progress of the planners.
Casts == (Notices \X {"notification", "request"}) \union Updates

\* A broadcast is of one kind, and an entry of the registry is not None.
ASSUME CastsAssumption == Updates \intersect (Notices \X {"notification", "request"}) = {}
ASSUME TableAssumption == \A live \in SUBSET Sockets : None # live

VARIABLES
  table, link, endpoint, cast,             \* of module Connections
  notice              \* what the creation of each approval is doing

INSTANCE Connections

vars == <<table, link, endpoint, cast, notice>>

Notice ==
  [pc : {"new", "send", "commit", "broadcast", "done", "failed"},
   channels : SUBSET {"websocket", "email", "push"},     \* channels_sent
   mailed : BOOLEAN,                       \* the e-mail is on its way to the user
   stored : BOOLEAN]                       \* its two rows are committed

TypeOK == ConnectionsTypeOK /\ notice \in [Notices -> Notice]

Init ==
  /\ ConnectionsInit
  /\ notice = [n \in Notices |->
                 [pc |-> "new", channels |-> {}, mailed |-> FALSE,
                  stored |-> FALSE]]

\* The approval is added to the session, and send begins with the WebSockets.
Notify(n) ==
  /\ notice[n].pc = "new"
  /\ StartCast(<<n, "notification">>)
  /\ notice' = [notice EXCEPT ![n].pc = "send"]

\* What an attempt to e-mail comes to, whichever the provider: mailed, and no
\* exception raised.  A provider may take the e-mail and the call still fail.
MailOutcomes ==
  IF "email" \in Enabled
  THEN {[mailed |-> TRUE, raised |-> FALSE], [mailed |-> FALSE, raised |-> TRUE],
        [mailed |-> TRUE, raised |-> TRUE]}
  ELSE {[mailed |-> FALSE, raised |-> TRUE]}

\* A push is only logged, which cannot fail.
Pushed == Enabled \intersect {"push"}

\* channels_sent
ChannelsUsed(c, mail) ==
  {k \in {"websocket"} : c.sent} \union {k \in {"email"} : ~mail.raised} \union Pushed

\* MUTANT of Deliver: an e-mail that cannot be sent ends the call.
DeliverOrRaise(n) ==
  /\ notice[n].pc = "send"
  /\ LET c == cast[<<n, "notification">>]
     IN /\ c.pc = "done"
        /\ \E mail \in MailOutcomes :
             notice' = [notice EXCEPT ![n].pc = IF mail.raised THEN "done" ELSE "commit",
                                      ![n].channels = ChannelsUsed(c, mail),
                                      ![n].mailed = mail.mailed]
  /\ UNCHANGED <<table, link, endpoint, cast>>

\* The rest of send: e-mail and push, each of which may be off or fail without
\* consequence, and the record, which names the channels that were used.
Deliver(n) ==
  /\ notice[n].pc = "send"
  /\ LET c == cast[<<n, "notification">>]
     IN /\ c.pc = "done"
        /\ \E mail \in MailOutcomes :
             notice' = [notice EXCEPT ![n].pc = "commit",
                                      ![n].channels = ChannelsUsed(c, mail),
                                      ![n].mailed = mail.mailed]
  /\ UNCHANGED <<table, link, endpoint, cast>>

\* The caller commits the approval with its notification.
Commit(n) ==
  /\ notice[n].pc = "commit"
  /\ notice' = [notice EXCEPT ![n].pc = "broadcast", ![n].stored = TRUE]
  /\ UNCHANGED <<table, link, endpoint, cast>>

\* The flush or the commit raises: the session rolls back, and the run fails.
CommitFails(n) ==
  /\ notice[n].pc = "commit"
  /\ notice' = [notice EXCEPT ![n].pc = "failed"]
  /\ UNCHANGED <<table, link, endpoint, cast>>

\* broadcast_approval_request
Broadcast(n) ==
  /\ notice[n].pc = "broadcast"
  /\ StartCast(<<n, "request">>)
  /\ notice' = [notice EXCEPT ![n].pc = "done"]

\* broadcast_agent_update and broadcast_trip_completed, at any time.
Progress(u) == StartCast(u) /\ UNCHANGED notice

Step(n) ==
  \/ Notify(n) \/ Deliver(n) \/ Commit(n) \/ CommitFails(n) \/ Broadcast(n)

Next ==
  \/ ConnectionsNext /\ UNCHANGED notice
  \/ \E n \in Notices : Step(n)
  \/ \E u \in Updates : Progress(u)

Spec == Init /\ [][Next]_vars

\* The event loop goes on.  A socket whose client has gone is noticed, at the
\* latest by the server's own keepalive.
FairSpec ==
  /\ Spec
  /\ \A s \in Sockets :
       WF_vars(UNCHANGED notice /\ (Welcome(s) \/ (link[s] = "gone" /\ LeaveLoop(s))))
  /\ \A c \in Casts : WF_vars(SendNext(c) /\ UNCHANGED notice)
  /\ \A n \in Notices : WF_vars(Step(n))

-----------------------------------------------------------------------------
(* What must hold. *)

\* A client that is asked to answer an approval finds it in the database; and the
\* record of the notification names the WebSockets when they have reached the
\* user, whichever of them failed, and no e-mail that was not sent.
DeliveryIsOnRecord ==
  \A n \in Notices :
    LET onRecord == notice[n].stored
        channels == notice[n].channels
    IN /\ cast[<<n, "request">>].reached # {} => onRecord
       /\ onRecord /\ cast[<<n, "notification">>].reached # {} => "websocket" \in channels
       /\ "email" \in channels => notice[n].mailed

\* What has been announced is on record in the end, whatever channels failed;
\* only the database can prevent it.
Recorded ==
  \A n \in Notices :
    cast[<<n, "notification">>].reached # {} \/ notice[n].mailed ~>
      notice[n].stored \/ notice[n].pc = "failed"
=============================================================================
