------------------------ MODULE NotificationsProofs ------------------------
(***************************************************************************)
(* Theorems about Notifications and the Connections it writes to, for any  *)
(* number of sockets, broadcasts and notifications.                        *)
(***************************************************************************)
EXTENDS Notifications, TLAPS

-----------------------------------------------------------------------------
(* The inductive invariant. *)

Types == ConnectionsTypeOK /\ notice \in [Notices -> Notice]

\* A socket is registered from its acceptance to its end, except that it may be
\* pruned once its client has gone.
SocketOK(s) ==
  /\ endpoint[s] = "new" <=> link[s] = "new"
  /\ endpoint[s] = "over" => link[s] = "gone"
  /\ s \in Registered => endpoint[s] \in {"welcome", "loop"}
  /\ endpoint[s] \in {"welcome", "loop"} /\ link[s] = "up" => s \in Registered

\* A broadcast has yet to write to a connection of its copy, or has reached it, or
\* the client has gone.
CastOK(c) ==
  LET k == cast[c]
  IN /\ k.todo \subseteq k.copy
     /\ \A s \in k.copy : /\ endpoint[s] # "new"
                          /\ s \in k.todo \/ s \in k.reached \/ link[s] = "gone"
     /\ \A s \in k.failed : link[s] = "gone"
     /\ k.reached # {} => k.sent /\ k.pc # "idle"
     /\ k.pc = "done" => k.todo = {}

\* How far the two broadcasts of a notification are, and what is on record.
NoticeOK(n) ==
  LET first == cast[<<n, "notification">>]
      pc == notice[n].pc
  IN /\ pc = "new" => first.pc = "idle"
     /\ pc \notin {"new", "send"} =>
          first.pc = "done" /\ (first.sent => "websocket" \in notice[n].channels)
     /\ pc # "done" => cast[<<n, "request">>].pc = "idle"
     /\ pc \in {"broadcast", "done"} <=> notice[n].stored
     /\ "email" \in notice[n].channels => notice[n].mailed

Inv ==
  /\ Types
  /\ \A s \in Sockets : SocketOK(s)
  /\ \A c \in Casts : CastOK(c)
  /\ \A n \in Notices : NoticeOK(n)

LEMMA InitInv == Init => Inv
<1> SUFFICES ASSUME Init PROVE Inv
  OBVIOUS
<1> USE DEF Init, ConnectionsInit
<1>1. Types
  <2>1. ConnectionsTypeOK
    BY DEF ConnectionsTypeOK, Cast
  <2>2. notice \in [Notices -> Notice]
    BY DEF Notice
  <2> QED  BY <2>1, <2>2 DEF Types
<1>2. \A s \in Sockets : SocketOK(s)
  BY DEF SocketOK, Registered
<1>3. \A c \in Casts : CastOK(c)
  BY DEF CastOK
<1>4. \A n \in Notices : NoticeOK(n)
  BY DEF NoticeOK, Casts
<1> QED  BY <1>1, <1>2, <1>3, <1>4 DEF Inv

-----------------------------------------------------------------------------
(* The sockets. *)

\* Nothing that a socket's end or a pruning removes is served any more.
LEMMA Removed ==
  ASSUME Types, NEW S, table' = Without(S)
  PROVE  Registered' = Registered \ S /\ table' \in ((SUBSET Sockets) \ {{}}) \union {None}
BY TableAssumption DEF Types, ConnectionsTypeOK, Without, Registered

LEMMA SocketsKeepInv ==
  ASSUME Inv, NEW s \in Sockets, Connect(s) \/ ClientLeaves(s) \/ Serve(s),
         UNCHANGED notice
  PROVE  Inv'
<1>1. UNCHANGED cast
  BY DEF Connect, ClientLeaves, Serve, Welcome, LeaveLoop
<1>2. /\ link' \in [Sockets -> {"new", "up", "gone"}]
      /\ endpoint' \in [Sockets -> {"new", "welcome", "loop", "over"}]
      /\ table' \in ((SUBSET Sockets) \ {{}}) \union {None}
  <2>1. CASE Connect(s)
    <3>1. Registered \union {s} \in (SUBSET Sockets) \ {{}}
      BY DEF Inv, Types, ConnectionsTypeOK, Registered
    <3> QED  BY <2>1, <3>1 DEF Inv, Types, ConnectionsTypeOK, Connect
  <2>2. CASE ClientLeaves(s)
    BY <2>2 DEF Inv, Types, ConnectionsTypeOK, ClientLeaves
  <2>3. CASE Serve(s) /\ table' = table
    BY <2>3 DEF Inv, Types, ConnectionsTypeOK, Serve, Welcome, LeaveLoop, EndpointEnds
  <2>4. CASE EndpointEnds(s)
    BY <2>4, Removed DEF Inv, Types, ConnectionsTypeOK, EndpointEnds
  <2> QED  BY <2>1, <2>2, <2>3, <2>4 DEF Serve, Welcome, LeaveLoop
<1>3. Types'
  BY <1>1, <1>2 DEF Inv, Types, ConnectionsTypeOK
<1>4. ASSUME NEW x \in Sockets PROVE SocketOK(x)'
  <2>1. CASE Connect(s)
    BY <2>1, TableAssumption DEF Inv, Types, ConnectionsTypeOK, SocketOK, Connect, Registered
  <2>2. CASE ClientLeaves(s)
    BY <2>2 DEF Inv, Types, ConnectionsTypeOK, SocketOK, ClientLeaves, Registered
  <2>3. CASE Serve(s) /\ table' = table
    BY <2>3, Removed DEF Inv, Types, ConnectionsTypeOK, SocketOK, Serve, Welcome,
       LeaveLoop, EndpointEnds, Registered
  <2>4. CASE endpoint[s] \in {"welcome", "loop"} /\ EndpointEnds(s)
    <3>1. Registered' = Registered \ {s}
      BY <2>4, Removed DEF EndpointEnds, Inv
    <3> QED  BY <2>4, <3>1 DEF EndpointEnds, Inv, Types, ConnectionsTypeOK, SocketOK
  <2> QED  BY <2>1, <2>2, <2>3, <2>4 DEF Serve, Welcome, LeaveLoop
<1>5. ASSUME NEW x \in Sockets
      PROVE  /\ link[x] = "gone" => link'[x] = "gone"
             /\ endpoint[x] # "new" => endpoint'[x] # "new"
  BY DEF Inv, Types, ConnectionsTypeOK, SocketOK, Connect, ClientLeaves, Serve, Welcome,
     LeaveLoop, EndpointEnds
<1>6. ASSUME NEW c \in Casts PROVE CastOK(c)'
  <2>1. cast[c].copy \subseteq Sockets /\ cast[c].failed \subseteq Sockets
    BY DEF Inv, Types, ConnectionsTypeOK, Cast
  <2> QED  BY <1>1, <1>5, <2>1 DEF Inv, CastOK
<1>7. \A n \in Notices : NoticeOK(n)'
  BY <1>1 DEF Inv, NoticeOK
<1> QED  BY <1>3, <1>4, <1>6, <1>7 DEF Inv

-----------------------------------------------------------------------------
(* The broadcasts. *)

\* A broadcast that starts sets out to reach what is registered.
LEMMA StartKeepsInv ==
  ASSUME Inv, NEW c \in Casts, StartCast(c)
  PROVE  /\ ConnectionsTypeOK' /\ \A s \in Sockets : SocketOK(s)'
         /\ \A d \in Casts : CastOK(d)'
         /\ \A d \in Casts \ {c} : cast'[d] = cast[d]
<1> DEFINE k == [cast[c] EXCEPT !.pc = IF Registered = {} THEN "done" ELSE "on",
                                !.copy = Registered, !.todo = Registered]
<1>1. cast' = [cast EXCEPT ![c] = k] /\ cast[c].pc = "idle"
  BY DEF StartCast
<1>2. Registered \subseteq Sockets /\ \A s \in Registered : endpoint[s] # "new"
  BY DEF Inv, Types, ConnectionsTypeOK, SocketOK, Registered
<1>3. cast \in [Casts -> Cast] /\ cast[c] \in Cast
  BY DEF Inv, Types, ConnectionsTypeOK
<1>4. /\ k \in Cast /\ k.pc = (IF Registered = {} THEN "done" ELSE "on")
      /\ k.copy = Registered /\ k.todo = Registered
      /\ k.failed = cast[c].failed /\ k.reached = cast[c].reached /\ k.sent = cast[c].sent
  BY <1>2, <1>3 DEF Cast
<1> HIDE DEF k
<1>5. cast' \in [Casts -> Cast] /\ cast'[c] = k /\ \A d \in Casts \ {c} : cast'[d] = cast[d]
  BY <1>1, <1>3, <1>4
<1>6. ConnectionsTypeOK' /\ \A s \in Sockets : SocketOK(s)'
  BY <1>5 DEF StartCast, Inv, Types, ConnectionsTypeOK, SocketOK, Registered
<1>7. ASSUME NEW d \in Casts PROVE CastOK(d)'
  <2>0. CastOK(d) /\ UNCHANGED <<link, endpoint>>
    BY DEF StartCast, Inv
  <2>1. CASE d # c
    <3>1. cast'[d] = cast[d]
      BY <1>5, <2>1
    <3> QED  BY <2>0, <3>1 DEF CastOK
  <2>2. CASE d = c
    <3>1. cast'[d] = k /\ cast[c].pc = "idle" /\ CastOK(c)
      BY <1>1, <1>5, <2>0, <2>2
    <3>2. k.reached = {} /\ \A s \in k.failed : link[s] = "gone"
      BY <1>4, <3>1 DEF CastOK
    <3> QED  BY <1>2, <1>4, <2>0, <3>1, <3>2 DEF CastOK
  <2> QED  BY <2>1, <2>2
<1> QED  BY <1>5, <1>6, <1>7

\* One more connection is written to; what is pruned has failed.
LEMMA SendKeepsInv ==
  ASSUME Inv, NEW c \in Casts, SendNext(c), UNCHANGED notice
  PROVE  Inv'
<1>1. PICK s \in cast[c].todo, ok \in BOOLEAN :
        /\ CanSend(s, ok)
        /\ LET after == Written(c, s, ok)
           IN IF after.todo # {}
              THEN cast' = [cast EXCEPT ![c] = after] /\ UNCHANGED table
              ELSE /\ cast' = [cast EXCEPT ![c] = Finished(after)]
                   /\ table' = Without(after.failed)
  BY DEF SendNext
<1> DEFINE after == Written(c, s, ok)
<1>2. cast \in [Casts -> Cast] /\ cast[c] \in Cast /\ CastOK(c) /\ cast[c].pc = "on"
  BY DEF SendNext, Inv, Types, ConnectionsTypeOK
<1>3. s \in Sockets /\ s \in cast[c].copy /\ endpoint[s] # "new"
  BY <1>2 DEF Cast, CastOK
<1>4. (ok => endpoint[s] # "over") /\ (~ok => link[s] = "gone")
  BY <1>1 DEF CanSend
<1>5. /\ after \in Cast /\ after.pc = "on" /\ after.copy = cast[c].copy
      /\ after.todo = cast[c].todo \ {s}
      /\ after.sent = (cast[c].sent \/ ok)
      /\ after.reached = IF ok /\ link[s] = "up" THEN cast[c].reached \union {s}
                         ELSE cast[c].reached
      /\ after.failed = IF ok THEN cast[c].failed ELSE cast[c].failed \union {s}
  BY <1>2, <1>3 DEF Written, Cast
<1> HIDE DEF after
<1>6. link[s] \in {"up", "gone"}
  BY <1>3 DEF Inv, Types, ConnectionsTypeOK, SocketOK
<1>7. /\ \A x \in after.copy : /\ endpoint[x] # "new"
                               /\ x \in after.todo \/ x \in after.reached \/ link[x] = "gone"
      /\ after.todo \subseteq after.copy
      /\ \A x \in after.failed : link[x] = "gone"
      /\ after.reached # {} => after.sent
  BY <1>2, <1>4, <1>5, <1>6 DEF CastOK
<1>8. /\ Finished(after) \in Cast /\ Finished(after).pc = "done"
      /\ Finished(after).todo = {} /\ Finished(after).failed = {}
      /\ Finished(after).copy = after.copy /\ Finished(after).reached = after.reached
      /\ Finished(after).sent = after.sent
  BY <1>5 DEF Finished, Cast
<1>9. /\ cast'[c] = IF after.todo # {} THEN after ELSE Finished(after)
      /\ cast' \in [Casts -> Cast] /\ \A d \in Casts \ {c} : cast'[d] = cast[d]
  BY <1>1, <1>2, <1>5, <1>8 DEF after
<1>10. UNCHANGED <<link, endpoint>>
  BY DEF SendNext
<1>11. \A d \in Casts : CastOK(d)'
  BY <1>5, <1>7, <1>8, <1>9, <1>10 DEF Inv, CastOK
<1>12. Types' /\ \A x \in Sockets : SocketOK(x)'
  <2>1. CASE table' = table
    BY <1>9, <1>10, <2>1 DEF Inv, Types, ConnectionsTypeOK, SocketOK, Registered
  <2>2. CASE table' = Without(after.failed)
    <3>1. /\ Registered' = Registered \ after.failed
          /\ table' \in ((SUBSET Sockets) \ {{}}) \union {None}
      BY <2>2, Removed DEF Inv
    <3> QED  BY <1>7, <1>9, <1>10, <3>1 DEF Inv, Types, ConnectionsTypeOK, SocketOK
  <2> QED  BY <1>1, <2>1, <2>2 DEF after
<1>13. \A n \in Notices : NoticeOK(n)'
  <2>1. \A d \in Casts : cast[d].pc \in {"idle", "done"} => cast'[d] = cast[d]
    BY <1>2, <1>9
  <2> QED  BY <2>1 DEF Inv, NoticeOK, Casts
<1> QED  BY <1>11, <1>12, <1>13 DEF Inv

-----------------------------------------------------------------------------
(* The creation of an approval. *)

\* Every notification has two broadcasts, and no other is one of them.
LEMMA TwoCasts ==
  ASSUME NEW n \in Notices, NEW kind \in {"notification", "request"}
  PROVE  /\ <<n, kind>> \in Casts
         /\ \A u \in Updates : u # <<n, kind>>
BY CastsAssumption DEF Casts

LEMMA StartedNotice ==
  ASSUME Inv, NEW n \in Notices, Notify(n) \/ Broadcast(n)
  PROVE  Inv'
<1> DEFINE kind == IF notice[n].pc = "new" THEN "notification" ELSE "request"
           next == IF notice[n].pc = "new" THEN "send" ELSE "done"
<1>1. /\ StartCast(<<n, kind>>)
      /\ notice' = [notice EXCEPT ![n] = [notice[n] EXCEPT !.pc = next]]
      /\ notice[n].pc \in {"new", "broadcast"}
  BY DEF Notify, Broadcast
<1>2. <<n, kind>> \in Casts
  BY TwoCasts
<1>3. /\ ConnectionsTypeOK' /\ \A s \in Sockets : SocketOK(s)'
      /\ \A d \in Casts : CastOK(d)'
      /\ \A d \in Casts \ {<<n, kind>>} : cast'[d] = cast[d]
  BY <1>1, <1>2, StartKeepsInv
<1>4. /\ notice \in [Notices -> Notice] /\ notice[n] \in Notice
      /\ notice' \in [Notices -> Notice]
      /\ notice'[n] = [notice[n] EXCEPT !.pc = next]
      /\ \A m \in Notices \ {n} : notice'[m] = notice[m]
  <2>1. notice \in [Notices -> Notice] /\ notice[n] \in Notice
    BY DEF Inv, Types
  <2>2. [notice[n] EXCEPT !.pc = next] \in Notice
    BY <2>1 DEF Notice
  <2> QED  BY <1>1, <2>1, <2>2
<1>5. ASSUME NEW m \in Notices PROVE NoticeOK(m)'
  <2>1. NoticeOK(m) /\ <<m, "notification">> \in Casts /\ <<m, "request">> \in Casts
    BY TwoCasts DEF Inv
  <2>2. CASE m # n
    <3>1. /\ cast'[<<m, "notification">>] = cast[<<m, "notification">>]
          /\ cast'[<<m, "request">>] = cast[<<m, "request">>]
          /\ notice'[m] = notice[m]
      BY <1>3, <1>4, <2>1, <2>2
    <3> QED  BY <2>1, <3>1 DEF NoticeOK
  <2>3. CASE m = n
    <3>1. /\ notice'[m].pc = next /\ notice'[m].channels = notice[m].channels
          /\ notice'[m].mailed = notice[m].mailed /\ notice'[m].stored = notice[m].stored
      BY <1>4, <2>3 DEF Notice
    <3>2. notice[n].pc = "new" => cast'[<<m, "request">>] = cast[<<m, "request">>]
      BY <1>3, <2>1, <2>3
    <3>3. notice[n].pc = "broadcast" =>
            cast'[<<m, "notification">>] = cast[<<m, "notification">>]
      BY <1>3, <2>1, <2>3
    <3> QED  BY <1>1, <2>1, <2>3, <3>1, <3>2, <3>3 DEF NoticeOK
  <2> QED  BY <2>2, <2>3
<1> QED  BY <1>3, <1>4, <1>5 DEF Inv, Types

LEMMA NoticeKeepsInv ==
  ASSUME Inv, NEW n \in Notices, Deliver(n) \/ Commit(n) \/ CommitFails(n)
  PROVE  Inv'
<1>1. UNCHANGED <<table, link, endpoint, cast>>
  BY DEF Deliver, Commit, CommitFails
<1>2. notice \in [Notices -> Notice] /\ notice[n] \in Notice /\ NoticeOK(n)
  BY DEF Inv, Types
<1>3. \E x \in Notice : /\ notice' = [notice EXCEPT ![n] = x]
                        /\ x.pc \notin {"new", "send", "done"}
                        /\ cast[<<n, "notification">>].pc = "done"
                        /\ cast[<<n, "notification">>].sent => "websocket" \in x.channels
                        /\ x.pc = "broadcast" <=> x.stored
                        /\ "email" \in x.channels => x.mailed
                        /\ cast[<<n, "request">>].pc = "idle"
  <2>1. CASE Deliver(n)
    <3>1. PICK mail \in MailOutcomes :
            notice' = [notice EXCEPT ![n].pc = "commit",
                         ![n].channels = ChannelsUsed(cast[<<n, "notification">>], mail),
                         ![n].mailed = mail.mailed]
      BY <2>1 DEF Deliver
    <3> DEFINE used == ChannelsUsed(cast[<<n, "notification">>], mail)
               x == [notice[n] EXCEPT !.pc = "commit", !.channels = used,
                                      !.mailed = mail.mailed]
    <3>2. /\ used \subseteq {"websocket", "email", "push"}
          /\ cast[<<n, "notification">>].sent => "websocket" \in used
          /\ "email" \in used => mail.mailed
          /\ mail.mailed \in BOOLEAN
      <4>1. \/ mail = [mailed |-> TRUE, raised |-> FALSE]
            \/ mail = [mailed |-> FALSE, raised |-> TRUE]
            \/ mail = [mailed |-> TRUE, raised |-> TRUE]
        <5>1. CASE "email" \in Enabled
          BY <5>1 DEF MailOutcomes
        <5>2. CASE "email" \notin Enabled
          BY <5>2 DEF MailOutcomes
        <5> QED  BY <5>1, <5>2
      <4>2. mail.mailed \in BOOLEAN /\ (~mail.raised => mail.mailed)
        <5>1. CASE mail = [mailed |-> TRUE, raised |-> FALSE]
          <6>1. mail.mailed = TRUE
            BY <5>1
          <6> QED  BY <6>1
        <5>2. CASE mail = [mailed |-> FALSE, raised |-> TRUE]
          <6>1. mail.mailed = FALSE /\ mail.raised = TRUE
            BY <5>2
          <6> QED  BY <6>1
        <5>3. CASE mail = [mailed |-> TRUE, raised |-> TRUE]
          <6>1. mail.mailed = TRUE
            BY <5>3
          <6> QED  BY <6>1
        <5> QED  BY <4>1, <5>1, <5>2, <5>3
      <4>3. /\ used \subseteq {"websocket", "email", "push"}
            /\ cast[<<n, "notification">>].sent => "websocket" \in used
        BY DEF ChannelsUsed, Pushed
      <4>4. "email" \in used => ~mail.raised
        BY DEF ChannelsUsed, Pushed
      <4> QED  BY <4>2, <4>3, <4>4
    <3> HIDE DEF used
    <3>3. /\ x \in Notice /\ x.pc = "commit" /\ x.channels = used
          /\ x.mailed = mail.mailed /\ x.stored = notice[n].stored
      BY <1>2, <3>2 DEF Notice
    <3>4. notice' = [notice EXCEPT ![n] = x]
      BY <3>1 DEF used
    <3>5. /\ notice[n].pc = "send" /\ cast[<<n, "notification">>].pc = "done"
          /\ ~notice[n].stored /\ cast[<<n, "request">>].pc = "idle"
      BY <1>2, <2>1 DEF Deliver, NoticeOK
    <3> HIDE DEF x
    <3> QED  BY <3>2, <3>3, <3>4, <3>5
  <2>2. CASE Commit(n)
    <3> DEFINE x == [notice[n] EXCEPT !.pc = "broadcast", !.stored = TRUE]
    <3>1. notice' = [notice EXCEPT ![n] = x] /\ notice[n].pc = "commit"
      BY <2>2 DEF Commit
    <3>2. /\ x \in Notice /\ x.pc = "broadcast" /\ x.channels = notice[n].channels
          /\ x.mailed = notice[n].mailed /\ x.stored
      BY <1>2 DEF Notice
    <3> HIDE DEF x
    <3> QED  BY <1>2, <3>1, <3>2 DEF NoticeOK
  <2>3. CASE CommitFails(n)
    <3> DEFINE x == [notice[n] EXCEPT !.pc = "failed"]
    <3>1. notice' = [notice EXCEPT ![n] = x] /\ notice[n].pc = "commit"
      BY <2>3 DEF CommitFails
    <3>2. /\ x \in Notice /\ x.pc = "failed" /\ x.channels = notice[n].channels
          /\ x.mailed = notice[n].mailed /\ x.stored = notice[n].stored
      BY <1>2 DEF Notice
    <3> HIDE DEF x
    <3> QED  BY <1>2, <3>1, <3>2 DEF NoticeOK
  <2> QED  BY <2>1, <2>2, <2>3
<1>4. Types' /\ \A m \in Notices : NoticeOK(m)'
  BY <1>1, <1>2, <1>3 DEF Inv, Types, ConnectionsTypeOK, NoticeOK
<1>5. (\A s \in Sockets : SocketOK(s)') /\ \A c \in Casts : CastOK(c)'
  BY <1>1 DEF Inv, SocketOK, Registered, CastOK
<1> QED  BY <1>4, <1>5 DEF Inv

LEMMA ProgressKeepsInv ==
  ASSUME Inv, NEW u \in Updates, Progress(u)
  PROVE  Inv'
<1>1. u \in Casts /\ StartCast(u) /\ UNCHANGED notice
  BY DEF Progress, Casts
<1>2. /\ ConnectionsTypeOK' /\ \A s \in Sockets : SocketOK(s)'
      /\ \A d \in Casts : CastOK(d)'
      /\ \A d \in Casts \ {u} : cast'[d] = cast[d]
  BY <1>1, StartKeepsInv
<1>3. ASSUME NEW n \in Notices PROVE NoticeOK(n)'
  <2>1. /\ cast'[<<n, "notification">>] = cast[<<n, "notification">>]
        /\ cast'[<<n, "request">>] = cast[<<n, "request">>]
    BY <1>2, TwoCasts
  <2> QED  BY <1>1, <2>1 DEF Inv, NoticeOK
<1> QED  BY <1>1, <1>2, <1>3 DEF Inv, Types

-----------------------------------------------------------------------------
(* The theorems. *)

LEMMA NotificationsInvariant == Spec => []Inv
<1>1. Inv /\ UNCHANGED vars => Inv'
  BY DEF vars, Inv, Types, ConnectionsTypeOK, SocketOK, Registered, CastOK, NoticeOK
<1>2. Inv /\ [Next]_vars => Inv'
  BY <1>1, SocketsKeepInv, SendKeepsInv, StartedNotice, NoticeKeepsInv, ProgressKeepsInv
  DEF Next, ConnectionsNext, Step
<1> QED  BY <1>2, InitInv, PTL DEF Spec

\* The variables keep their types: an entry without connections is deleted.
THEOREM NotificationsTypeCorrect == Spec => []TypeOK
<1>1. Inv => TypeOK
  BY DEF Inv, Types, TypeOK
<1> QED  BY <1>1, NotificationsInvariant, PTL

\* However many broadcasts prune while however many sockets come and go, a socket
\* is registered as long as it is served and its client is there.
THEOREM RegistryAlwaysCurrent == Spec => []RegistryIsCurrent
<1>1. Inv => RegistryIsCurrent
  BY DEF Inv, SocketOK, RegistryIsCurrent
<1> QED  BY <1>1, NotificationsInvariant, PTL

\* A broadcast reaches every client that was connected when it began and still is.
THEOREM BroadcastAlwaysReaches == Spec => []BroadcastReachesAll
<1>1. Inv => BroadcastReachesAll
  BY DEF Inv, CastOK, BroadcastReachesAll
<1> QED  BY <1>1, NotificationsInvariant, PTL

\* Who is asked to answer finds the approval, and the record of a notification
\* tells by which channels it went.
THEOREM DeliveryAlwaysOnRecord == Spec => []DeliveryIsOnRecord
<1>1. ASSUME Inv, NEW n \in Notices
      PROVE  /\ cast[<<n, "request">>].reached # {} => notice[n].stored
             /\ notice[n].stored /\ cast[<<n, "notification">>].reached # {} =>
                  "websocket" \in notice[n].channels
             /\ "email" \in notice[n].channels => notice[n].mailed
  <2>1. CastOK(<<n, "request">>) /\ CastOK(<<n, "notification">>) /\ NoticeOK(n)
    BY <1>1, TwoCasts DEF Inv
  <2> QED  BY <2>1 DEF CastOK, NoticeOK
<1>2. Inv => DeliveryIsOnRecord
  BY <1>1 DEF DeliveryIsOnRecord
<1> QED  BY <1>2, NotificationsInvariant, PTL
=============================================================================
