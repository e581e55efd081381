------------------------ MODULE VoicePipelineProofs ------------------------
(***************************************************************************)
(* Theorems about VoicePipeline, for any number of sockets and utterances, *)
(* any size of the queue and any length of the responses.                  *)
(***************************************************************************)
EXTENDS VoicePipeline, SequenceTheorems, TLAPS

-----------------------------------------------------------------------------
(* The inductive invariant. *)

\* Audio is only handled once a pipeline is attached, and whoever speaks belongs
\* to a pipeline that has been.
Attachment ==
  /\ attached = None => \A s \in Sockets : bridge[s].pc = "new"
  /\ attached \in Sockets => bridge[attached].pc # "new"
  /\ \A u \in Utterances :
       task[u].pc # "unborn" => task[u].pipe \in Sockets /\ bridge[task[u].pipe].pc # "new"

\* A response that has had its pipeline to itself can be interrupted, or has been;
\* and one the user has spoken over has the cancel event before it.
Interruptible(u) ==
  /\ task[u].alone =>
       /\ Streaming(task[u].pipe) = {u}
       /\ bridge[task[u].pipe].responding \/ bridge[task[u].pipe].cancel
  /\ task[u].cut => task[u].alone /\ bridge[task[u].pipe].cancel

Flags ==
  /\ RespondingIsStreaming
  /\ \A u \in Utterances : Interruptible(u)

\* What is in the queue has been synthesized and not been heard.
Playable ==
  /\ \A u \in Utterances : task[u].heard <= task[u].chunks
  /\ \A i \in DOMAIN queue : queue[i].n <= task[queue[i].of].chunks
  /\ HeardInOrder

Inv == TypeOK /\ Attachment /\ Flags /\ Playable

\* The chunks of the queue.
LEMMA Queued ==
  ASSUME TypeOK
  PROVE  /\ DOMAIN queue = 1..Len(queue) /\ Len(queue) \in Nat
         /\ \A i \in DOMAIN queue : queue[i].of \in Utterances /\ queue[i].n \in Nat
<1>1. queue \in Seq(Chunk)
  BY DEF TypeOK
<1>2. DOMAIN queue = 1..Len(queue) /\ Len(queue) \in Nat
  BY <1>1, LenProperties
<1>3. \A i \in DOMAIN queue : queue[i] \in Chunk
  BY <1>1, <1>2, ElementOfSeq
<1> QED  BY <1>2, <1>3, VoiceAssumption DEF Chunk

\* A step that neither synthesizes nor plays leaves the queue right.
LEMMA QueueUntouched ==
  ASSUME Inv, queue' = queue,
         \A u \in Utterances :
           task'[u].chunks = task[u].chunks /\ task'[u].heard = task[u].heard
  PROVE  Playable'
<1>1. \A i \in DOMAIN queue : queue[i].of \in Utterances
  BY Queued DEF Inv
<1> QED  BY <1>1 DEF Inv, Playable, HeardInOrder

LEMMA InitInv == Init => Inv
<1> SUFFICES ASSUME Init PROVE Inv
  OBVIOUS
<1> USE VoiceAssumption DEF Init, Silent, Unborn
<1>1. TypeOK
  BY DEF TypeOK, Bridge, Task
<1>2. Attachment
  BY DEF Attachment
<1>3. Flags
  BY DEF Flags, RespondingIsStreaming, Interruptible
<1>4. Playable
  BY DEF Playable, HeardInOrder
<1> QED  BY <1>1, <1>2, <1>3, <1>4 DEF Inv

-----------------------------------------------------------------------------
(* Sessions and sockets. *)

LEMMA ConnectKeepsInv == ASSUME Inv, NEW s \in Sockets, Connect(s) PROVE Inv'
<1> USE VoiceAssumption DEF Connect, Silent
<1>1. /\ bridge'[s].pc = "open" /\ ~bridge'[s].responding
      /\ \A x \in Sockets \ {s} : bridge'[x] = bridge[x]
  BY DEF Inv, TypeOK
<1>2. TypeOK'
  BY DEF Inv, TypeOK, Bridge
<1>3. \A u \in Utterances : task[u].pc # "unborn" => task[u].pipe \in Sockets \ {s}
  BY DEF Inv, Attachment
<1>4. Attachment'
  BY <1>1, <1>3 DEF Inv, Attachment
<1>5. Flags'
  <2>1. RespondingIsStreaming'
    BY <1>1 DEF Inv, Flags, RespondingIsStreaming, Streaming
  <2>2. ASSUME NEW u \in Utterances PROVE Interruptible(u)'
    BY <1>1, <1>3 DEF Inv, Flags, Interruptible, Streaming
  <2> QED  BY <2>1, <2>2 DEF Flags
<1>6. Playable'
  BY DEF Inv, Playable, HeardInOrder
<1> QED  BY <1>2, <1>4, <1>5, <1>6 DEF Inv

\* What a reset of pipeline p leaves of the flags.
LEMMA ResetKeepsInv ==
  ASSUME Inv, NEW p \in Sockets, NEW b, b.pc # "new", ~b.responding, b \in Bridge,
         bridge[p].pc # "new",
         bridge' = [bridge EXCEPT ![p] = b], task' = Uncut(p),
         UNCHANGED <<attached, queue>>, session' \in {"none", "live", "ended"}
  PROVE  Inv'
<1>1. /\ bridge'[p] = b
      /\ \A x \in Sockets \ {p} : bridge'[x] = bridge[x]
  BY DEF Inv, TypeOK
<1>2. ASSUME NEW u \in Utterances
      PROVE  /\ task'[u].pc = task[u].pc /\ task'[u].pipe = task[u].pipe
             /\ task'[u].chunks = task[u].chunks /\ task'[u].heard = task[u].heard
             /\ task[u].pipe = p => ~task'[u].alone /\ ~task'[u].cut
             /\ task[u].pipe # p => task'[u] = task[u]
             /\ task'[u] \in Task
  <2>1. task[u] \in Task
    BY DEF Inv, TypeOK
  <2> QED  BY <2>1 DEF Uncut, Task
<1>3. TypeOK'
  BY <1>2 DEF Inv, TypeOK, Uncut
<1>4. Attachment'
  BY <1>1, <1>2 DEF Inv, Attachment
<1>5. Flags'
  <2>1. RespondingIsStreaming'
    BY <1>1, <1>2 DEF Inv, Flags, RespondingIsStreaming, Streaming
  <2>2. ASSUME NEW u \in Utterances PROVE Interruptible(u)'
    <3>1. CASE task[u].pipe = p
      BY <1>2, <3>1 DEF Interruptible
    <3>2. CASE task[u].pipe # p
      <4>1. Streaming(task[u].pipe)' = Streaming(task[u].pipe)
        BY <1>2 DEF Streaming
      <4>2. task[u].alone => task[u].pipe \in Sockets
        BY DEF Inv, Attachment, Flags, Interruptible, Streaming
      <4>3. task[u].cut => task[u].pipe \in Sockets
        BY <4>2 DEF Inv, Flags, Interruptible
      <4> QED  BY <1>1, <1>2, <3>2, <4>1, <4>2, <4>3 DEF Inv, Flags, Interruptible
    <3> QED  BY <3>1, <3>2
  <2> QED  BY <2>1, <2>2 DEF Flags
<1>6. Playable'
  BY <1>2, QueueUntouched
<1> QED  BY <1>3, <1>4, <1>5, <1>6 DEF Inv

LEMMA SessionsKeepInv ==
  ASSUME Inv, CreateSession \/ EndSession \/ \E s \in Sockets : Disconnect(s)
  PROVE  Inv'
<1>1. CASE CreateSession
  BY <1>1 DEF CreateSession, Inv, TypeOK, Attachment, Flags, RespondingIsStreaming,
     Interruptible, Streaming, Playable, HeardInOrder
<1>2. CASE EndSession /\ attached = None
  BY <1>2 DEF EndSession, Inv, TypeOK, Attachment, Flags, RespondingIsStreaming,
     Interruptible, Streaming, Playable, HeardInOrder
<1>3. CASE EndSession /\ attached # None
  <2> DEFINE b == Silent(bridge[attached].pc, bridge[attached].forwarder)
  <2>1. /\ attached \in Sockets /\ bridge[attached] \in Bridge
        /\ bridge[attached].pc # "new"
    BY <1>3 DEF Inv, TypeOK, Attachment
  <2>2. b \in Bridge /\ b.pc # "new" /\ ~b.responding
    BY <2>1, VoiceAssumption DEF Silent, Bridge
  <2>3. /\ bridge' = [bridge EXCEPT ![attached] = b] /\ task' = Uncut(attached)
        /\ session' = "ended"
    BY <1>3 DEF EndSession
  <2> HIDE DEF b
  <2> QED  BY <1>3, <2>1, <2>2, <2>3, ResetKeepsInv DEF EndSession
<1>4. ASSUME NEW s \in Sockets, Disconnect(s) PROVE Inv'
  <2> DEFINE b == Silent("closed", "over")
  <2>1. b \in Bridge /\ b.pc # "new" /\ ~b.responding
    BY VoiceAssumption DEF Silent, Bridge
  <2>2. /\ bridge' = [bridge EXCEPT ![s] = b] /\ task' = Uncut(s)
        /\ bridge[s].pc # "new" /\ session' \in {"none", "live", "ended"}
    BY <1>4 DEF Disconnect, Inv, TypeOK
  <2> HIDE DEF b
  <2> QED  BY <1>4, <2>1, <2>2, ResetKeepsInv DEF Disconnect
<1> QED  BY <1>1, <1>2, <1>3, <1>4

-----------------------------------------------------------------------------
(* Audio frames. *)

\* Frames reach a pipeline once a socket is open.
LEMMA ListeningHasPipeline ==
  ASSUME Inv, Listening
  PROVE  attached \in Sockets /\ bridge[attached].pc # "new"
BY DEF Inv, TypeOK, Attachment, Listening

LEMMA SpeechStartsKeepsInv == ASSUME Inv, SpeechStarts PROVE Inv'
<1> DEFINE a == bridge[attached]
<1>1. /\ attached \in Sockets /\ a.pc # "new" /\ a \in Bridge
      /\ UNCHANGED <<session, attached, queue>>
  BY ListeningHasPipeline DEF SpeechStarts, Inv, TypeOK
<1>2. /\ bridge' \in [Sockets -> Bridge]
      /\ bridge'[attached].pc = a.pc /\ ~bridge'[attached].responding
      /\ a.responding \/ a.cancel => bridge'[attached].cancel
      /\ \A x \in Sockets \ {attached} : bridge'[x] = bridge[x]
  <2> DEFINE c == a.cancel \/ a.responding
             b == [a EXCEPT !.speaking = TRUE, !.frames = 1,
                            !.cancel = c, !.responding = FALSE]
  <2>1. bridge' = [bridge EXCEPT ![attached] = b]
    BY <1>1 DEF SpeechStarts, Inv, TypeOK, Bridge
  <2>2. c \in BOOLEAN /\ 1 \in 0..MinFrames + 1
    BY VoiceAssumption
  <2>3. /\ b \in Bridge /\ b.pc = a.pc /\ ~b.responding
        /\ b.cancel <=> a.responding \/ a.cancel
    <3>1. c <=> a.responding \/ a.cancel
      OBVIOUS
    <3> HIDE DEF c
    <3> QED  BY <1>1, <2>2, <3>1 DEF Bridge
  <2> HIDE DEF b
  <2> QED  BY <1>1, <2>1, <2>3 DEF Inv, TypeOK
<1>3. ASSUME NEW u \in Utterances
      PROVE  /\ task'[u].pc = task[u].pc /\ task'[u].pipe = task[u].pipe
             /\ task'[u].chunks = task[u].chunks /\ task'[u].heard = task[u].heard
             /\ task'[u].alone = task[u].alone
             /\ task'[u].cut => task[u].cut \/ (u \in Streaming(attached) /\ task[u].alone)
             /\ task'[u] \in Task
  <2>1. task[u] \in Task
    BY DEF Inv, TypeOK
  <2> QED  BY <2>1 DEF SpeechStarts, Task
<1>4. TypeOK'
  BY <1>1, <1>2, <1>3 DEF Inv, TypeOK, SpeechStarts
<1>5. Attachment'
  BY <1>1, <1>2, <1>3 DEF Inv, Attachment
<1>6. \A x : Streaming(x)' = Streaming(x)
  BY <1>3 DEF Streaming
<1>7. Flags'
  <2>1. RespondingIsStreaming'
    BY <1>1, <1>2, <1>6 DEF Inv, Flags, RespondingIsStreaming
  <2>2. ASSUME NEW u \in Utterances PROVE Interruptible(u)'
    <3>1. task[u].alone \/ task[u].cut => task[u].pipe \in Sockets
      BY DEF Inv, Attachment, Flags, Interruptible, Streaming
    <3> QED  BY <1>1, <1>2, <1>3, <1>6, <3>1 DEF Inv, Flags, Interruptible, Streaming
  <2> QED  BY <2>1, <2>2 DEF Flags
<1>8. Playable'
  BY <1>1, <1>3, QueueUntouched
<1> QED  BY <1>4, <1>5, <1>7, <1>8 DEF Inv

\* A step that leaves the flags of pipelines and responses alone.
LEMMA FlagsUntouched ==
  ASSUME Inv, attached' = attached,
         \A s \in Sockets : /\ bridge'[s].pc = bridge[s].pc
                            /\ bridge'[s].responding = bridge[s].responding
                            /\ bridge'[s].cancel = bridge[s].cancel,
         \A u \in Utterances :
           /\ task'[u].pc = task[u].pc /\ task'[u].pipe = task[u].pipe
           /\ task'[u].alone = task[u].alone /\ task'[u].cut = task[u].cut
  PROVE  Attachment' /\ Flags'
<1>1. Attachment'
  BY DEF Inv, Attachment
<1>2. \A x : Streaming(x)' = Streaming(x)
  BY DEF Streaming
<1>3. RespondingIsStreaming'
  BY <1>2 DEF Inv, Flags, RespondingIsStreaming
<1>4. ASSUME NEW u \in Utterances PROVE Interruptible(u)'
  <2>1. task[u].alone \/ task[u].cut => task[u].pipe \in Sockets
    BY DEF Inv, Attachment, Flags, Interruptible, Streaming
  <2> QED  BY <1>2, <2>1 DEF Inv, Flags, Interruptible
<1> QED  BY <1>1, <1>3, <1>4 DEF Flags

\* A task that is not streaming goes on, and does not stream yet.
LEMMA SilentTask ==
  ASSUME Inv, NEW u \in Utterances, NEW t \in Task, task' = [task EXCEPT ![u] = t],
         task[u].pc # "tts", t.pc # "tts", ~t.alone, ~t.cut,
         t.chunks = task[u].chunks, t.heard = task[u].heard,
         t.pipe \in Sockets, bridge[t.pipe].pc # "new",
         UNCHANGED <<session, attached, queue>>, bridge' \in [Sockets -> Bridge],
         \A s \in Sockets : /\ bridge'[s].pc = bridge[s].pc
                            /\ bridge'[s].responding = bridge[s].responding
                            /\ bridge'[s].cancel = bridge[s].cancel
  PROVE  Inv'
<1>1. task'[u] = t /\ \A v \in Utterances \ {u} : task'[v] = task[v]
  BY DEF Inv, TypeOK
<1>2. TypeOK'
  BY DEF Inv, TypeOK
<1>3. Attachment'
  BY <1>1 DEF Inv, Attachment
<1>4. \A x : Streaming(x)' = Streaming(x)
  BY <1>1 DEF Streaming
<1>5. RespondingIsStreaming'
  BY <1>4 DEF Inv, Flags, RespondingIsStreaming
<1>6. ASSUME NEW v \in Utterances PROVE Interruptible(v)'
  <2>1. task[v].alone \/ task[v].cut => task[v].pipe \in Sockets
    BY DEF Inv, Attachment, Flags, Interruptible, Streaming
  <2>2. CASE v = u
    BY <1>1, <2>2 DEF Interruptible
  <2>3. CASE v # u
    BY <1>1, <1>4, <2>1, <2>3 DEF Inv, Flags, Interruptible
  <2> QED  BY <2>2, <2>3
<1>7. Playable'
  BY <1>1, QueueUntouched
<1> QED  BY <1>2, <1>3, <1>5, <1>6, <1>7 DEF Inv, Flags

\* Only a response that is being streamed has the flags of one.
LEMMA SilentHasNoFlags ==
  ASSUME Inv, NEW u \in Utterances, task[u].pc # "tts"
  PROVE  ~task[u].alone /\ ~task[u].cut
BY DEF Inv, Flags, Interruptible, Streaming

LEMMA SpeechGoesOnKeepsInv == ASSUME Inv, SpeechGoesOn PROVE Inv'
<1>1. attached \in Sockets /\ UNCHANGED <<session, attached, queue, task>>
  BY ListeningHasPipeline DEF SpeechGoesOn
<1> DEFINE b == [bridge[attached] EXCEPT !.frames = bridge[attached].frames + 1]
<1>2. /\ bridge' = [bridge EXCEPT ![attached] = b] /\ b \in Bridge
      /\ b.pc = bridge[attached].pc /\ b.responding = bridge[attached].responding
      /\ b.cancel = bridge[attached].cancel
  <2>1. bridge[attached] \in Bridge /\ bridge[attached].frames <= MinFrames
    BY <1>1 DEF Inv, TypeOK, SpeechGoesOn
  <2>2. bridge[attached].frames + 1 \in 0..MinFrames + 1
    BY <2>1, VoiceAssumption DEF Bridge
  <2> QED  BY <1>1, <2>1, <2>2 DEF SpeechGoesOn, Inv, TypeOK, Bridge
<1> HIDE DEF b
<1>3. bridge'[attached] = b /\ \A s \in Sockets \ {attached} : bridge'[s] = bridge[s]
  BY <1>1, <1>2 DEF Inv, TypeOK
<1>4. TypeOK'
  BY <1>1, <1>2 DEF Inv, TypeOK
<1>5. Attachment' /\ Flags'
  BY <1>1, <1>2, <1>3, FlagsUntouched
<1>6. Playable'
  BY <1>1, QueueUntouched
<1> QED  BY <1>4, <1>5, <1>6 DEF Inv

LEMMA SpeechEndsKeepsInv == ASSUME Inv, SpeechEnds PROVE Inv'
<1>1. /\ attached \in Sockets /\ bridge[attached].pc # "new"
      /\ UNCHANGED <<session, attached, queue>>
  BY ListeningHasPipeline DEF SpeechEnds
<1> DEFINE b == [bridge[attached] EXCEPT !.speaking = FALSE, !.frames = 0]
<1>2. /\ bridge' = [bridge EXCEPT ![attached] = b] /\ b \in Bridge
      /\ b.pc = bridge[attached].pc /\ b.responding = bridge[attached].responding
      /\ b.cancel = bridge[attached].cancel
  <2>1. bridge[attached] \in Bridge /\ 0 \in 0..MinFrames + 1
    BY <1>1, VoiceAssumption DEF Inv, TypeOK
  <2> QED  BY <1>1, <2>1 DEF SpeechEnds, Inv, TypeOK, Bridge
<1> HIDE DEF b
<1>3. bridge'[attached] = b /\ \A s \in Sockets \ {attached} : bridge'[s] = bridge[s]
  BY <1>1, <1>2 DEF Inv, TypeOK
<1>4. bridge' \in [Sockets -> Bridge]
  BY <1>1, <1>2 DEF Inv, TypeOK
<1>5. CASE UNCHANGED task
  <2>1. TypeOK'
    BY <1>1, <1>4, <1>5 DEF Inv, TypeOK
  <2>2. Attachment' /\ Flags'
    BY <1>1, <1>2, <1>3, <1>5, FlagsUntouched
  <2>3. Playable'
    BY <1>1, <1>5, QueueUntouched
  <2> QED  BY <2>1, <2>2, <2>3 DEF Inv
<1>6. ASSUME NEW u \in Utterances, task[u].pc = "unborn",
             task' = [task EXCEPT ![u] = [@ EXCEPT !.pc = "stt", !.pipe = attached]]
      PROVE  Inv'
  <2> DEFINE t == [task[u] EXCEPT !.pc = "stt", !.pipe = attached]
  <2>1. /\ t \in Task /\ t.pc = "stt" /\ t.pipe = attached /\ t.chunks = task[u].chunks
        /\ t.heard = task[u].heard /\ t.alone = task[u].alone /\ t.cut = task[u].cut
    BY <1>1 DEF Inv, TypeOK, Task
  <2>2. task' = [task EXCEPT ![u] = t]
    BY <1>6 DEF Inv, TypeOK
  <2> HIDE DEF t
  <2>3. ~t.alone /\ ~t.cut
    BY <1>6, <2>1, SilentHasNoFlags
  <2> QED  BY <1>1, <1>2, <1>3, <1>4, <1>6, <2>1, <2>2, <2>3, SilentTask
<1> QED  BY <1>5, <1>6 DEF SpeechEnds

-----------------------------------------------------------------------------
(* Responses. *)

LEMMA TranscribedKeepsInv ==
  ASSUME Inv, NEW u \in Utterances, Transcribed(u)
  PROVE  Inv'
<1>1. /\ task[u] \in Task /\ task[u].pc = "stt"
      /\ task[u].pipe \in Sockets /\ bridge[task[u].pipe].pc # "new"
      /\ UNCHANGED <<session, attached, queue, bridge>>
      /\ bridge \in [Sockets -> Bridge]
  BY DEF Transcribed, Inv, TypeOK, Attachment
<1>2. ~task[u].alone /\ ~task[u].cut
  BY <1>1, SilentHasNoFlags
<1>3. CASE task' = [task EXCEPT ![u].pc = "agent"]
  <2> DEFINE t == [task[u] EXCEPT !.pc = "agent"]
  <2>1. /\ t \in Task /\ t.pc = "agent" /\ t.pipe = task[u].pipe
        /\ t.chunks = task[u].chunks /\ t.heard = task[u].heard
        /\ t.alone = task[u].alone /\ t.cut = task[u].cut
    BY <1>1 DEF Task
  <2>2. task' = [task EXCEPT ![u] = t]
    BY <1>3 DEF Inv, TypeOK
  <2> HIDE DEF t
  <2> QED  BY <1>1, <1>2, <2>1, <2>2, SilentTask
<1>4. CASE TaskEnds(u)
  <2> DEFINE t == [task[u] EXCEPT !.pc = "done", !.alone = FALSE, !.cut = FALSE]
  <2>1. /\ t \in Task /\ t.pc = "done" /\ t.pipe = task[u].pipe
        /\ t.chunks = task[u].chunks /\ t.heard = task[u].heard /\ ~t.alone /\ ~t.cut
    BY <1>1 DEF Task
  <2>2. task' = [task EXCEPT ![u] = t]
    BY <1>4 DEF TaskEnds, Inv, TypeOK
  <2> HIDE DEF t
  <2> QED  BY <1>1, <2>1, <2>2, SilentTask
<1> QED  BY <1>3, <1>4 DEF Transcribed

LEMMA RespondKeepsInv == ASSUME Inv, NEW u \in Utterances, Respond(u) PROVE Inv'
<1> SUFFICES ASSUME NEW p, p = task[u].pipe PROVE Inv'
  OBVIOUS
<1> DEFINE others == Streaming(p)
<1>1. /\ task[u] \in Task /\ task[u].pc = "agent" /\ p \in Sockets
      /\ bridge[p] \in Bridge /\ bridge[p].pc # "new"
      /\ UNCHANGED <<session, attached, queue>>
  BY DEF Respond, Inv, TypeOK, Attachment
<1>2. /\ bridge' \in [Sockets -> Bridge] /\ bridge'[p].pc = bridge[p].pc
      /\ bridge'[p].responding
      /\ \A s \in Sockets \ {p} : bridge'[s] = bridge[s]
  BY <1>1 DEF Respond, Inv, TypeOK, Bridge
<1>3. ASSUME NEW v \in Utterances
      PROVE  /\ task'[v].pipe = task[v].pipe
             /\ task'[v].chunks = task[v].chunks /\ task'[v].heard = task[v].heard
             /\ task'[v] \in Task
             /\ v = u => /\ task'[v].pc = "tts" /\ task'[v].cut = task[v].cut
                         /\ task'[v].alone <=> others = {}
             /\ v # u => task'[v].pc = task[v].pc
             /\ v # u /\ v \in others => ~task'[v].alone /\ ~task'[v].cut
             /\ v # u /\ v \notin others => task'[v] = task[v]
  <2>1. task[v] \in Task /\ (others = {}) \in BOOLEAN
    BY DEF Inv, TypeOK
  <2>2. CASE v = u
    <3> DEFINE free == others = {}
               t == [task[v] EXCEPT !.pc = "tts", !.alone = free]
    <3>1. task'[v] = t
      BY <2>2 DEF Respond, Begin
    <3>2. free \in BOOLEAN /\ (free <=> others = {})
      OBVIOUS
    <3> HIDE DEF free
    <3>3. /\ t \in Task /\ t.pc = "tts" /\ t.pipe = task[v].pipe
          /\ t.chunks = task[v].chunks /\ t.heard = task[v].heard
          /\ t.cut = task[v].cut /\ t.alone = free
      BY <2>1, <3>2 DEF Task
    <3> HIDE DEF t
    <3> QED  BY <2>2, <3>1, <3>2, <3>3
  <2>3. CASE v # u
    BY <2>1, <2>3 DEF Respond, Begin, Task
  <2> QED  BY <2>2, <2>3
<1>4. TypeOK'
  <2>1. task' \in [Utterances -> Task]
    BY <1>3 DEF Respond, Begin
  <2> QED  BY <1>1, <1>2, <2>1 DEF Inv, TypeOK
<1>5. Attachment'
  BY <1>1, <1>2, <1>3 DEF Inv, Attachment
<1>6. /\ Streaming(p)' = others \union {u}
      /\ \A x : x # p => Streaming(x)' = Streaming(x)
  BY <1>1, <1>3 DEF Streaming
<1>7. Flags'
  <2>1. ASSUME NEW s \in Sockets, bridge'[s].responding PROVE Streaming(s)' # {}
    <3>1. CASE s = p
      BY <1>6, <3>1
    <3>2. CASE s # p
      BY <1>2, <1>6, <2>1, <3>2 DEF Inv, Flags, RespondingIsStreaming
    <3> QED  BY <3>1, <3>2
  <2>2. ~task[u].alone /\ ~task[u].cut
    BY <1>1, SilentHasNoFlags
  <2>3. ASSUME NEW v \in Utterances PROVE Interruptible(v)'
    <3>1. CASE v = u
      BY <1>1, <1>2, <1>3, <1>6, <2>2, <3>1 DEF Interruptible
    <3>2. CASE v # u /\ v \in others
      BY <1>3, <3>2 DEF Interruptible
    <3>3. CASE v # u /\ v \notin others
      <4>1. task[v].alone \/ task[v].cut =>
              /\ v \in Streaming(task[v].pipe) /\ task[v].pipe \in Sockets
        BY DEF Inv, Attachment, Flags, Interruptible, Streaming
      <4>2. task[v].alone \/ task[v].cut => task[v].pipe # p
        BY <3>3, <4>1
      <4> QED  BY <1>2, <1>3, <1>6, <3>3, <4>1, <4>2 DEF Inv, Flags, Interruptible
    <3> QED  BY <3>1, <3>2, <3>3
  <2> QED  BY <2>1, <2>3 DEF Flags, RespondingIsStreaming
<1>8. Playable'
  BY <1>1, <1>3, QueueUntouched
<1> QED  BY <1>4, <1>5, <1>7, <1>8 DEF Inv

\* The queue takes the next chunk of a response, or does not.
LEMMA EnqueueKeepsOrder ==
  ASSUME Inv, NEW u \in Utterances, task[u].chunks < MaxChunks,
         queue' = Enqueued([of |-> u, n |-> task[u].chunks + 1]),
         task' = [task EXCEPT ![u].chunks = @ + 1]
  PROVE  /\ queue' \in Seq(Chunk) /\ Len(queue') <= QueueSize
         /\ task' \in [Utterances -> Task]
         /\ Playable'
<1> DEFINE c == [of |-> u, n |-> task[u].chunks + 1]
<1>1. /\ task[u] \in Task /\ task[u].chunks \in Nat /\ task[u].heard \in Nat
      /\ queue \in Seq(Chunk)
  BY VoiceAssumption DEF Inv, TypeOK, Task
<1>2. c \in Chunk
  BY <1>1, VoiceAssumption DEF Chunk
<1>3. /\ task' \in [Utterances -> Task]
      /\ task'[u].chunks = task[u].chunks + 1
      /\ \A v \in Utterances : /\ task'[v].heard = task[v].heard
                               /\ v # u => task'[v].chunks = task[v].chunks
  <2> DEFINE t == [task[u] EXCEPT !.chunks = task[u].chunks + 1]
  <2>1. task[u].chunks + 1 \in 0..MaxChunks
    BY <1>1, VoiceAssumption
  <2>2. t \in Task /\ t.chunks = task[u].chunks + 1 /\ t.heard = task[u].heard
    BY <1>1, <2>1 DEF Task
  <2>3. task' = [task EXCEPT ![u] = t]
    BY DEF Inv, TypeOK
  <2> HIDE DEF t
  <2> QED  BY <2>2, <2>3 DEF Inv, TypeOK
<1>4. \A v \in Utterances : task[v].chunks \in Nat /\ task[v].heard \in Nat
  BY VoiceAssumption DEF Inv, TypeOK, Task
<1>5. CASE queue' = queue
  <2>1. \A i \in DOMAIN queue : queue[i].of \in Utterances /\ queue[i].n \in Nat
    BY Queued DEF Inv
  <2>2. \A v \in Utterances : task'[v].heard <= task'[v].chunks
    BY <1>3, <1>4 DEF Inv, Playable
  <2>3. \A i \in DOMAIN queue : queue[i].n <= task'[queue[i].of].chunks
    BY <1>3, <1>4, <2>1 DEF Inv, Playable
  <2>4. HeardInOrder'
    BY <1>3, <1>5, <2>1 DEF Inv, Playable, HeardInOrder
  <2> QED  BY <1>1, <1>3, <1>5, <2>2, <2>3, <2>4 DEF Inv, TypeOK, Playable
<1>6. CASE Len(queue) < QueueSize /\ queue' = Append(queue, c)
  <2>1. /\ DOMAIN queue = 1..Len(queue) /\ Len(queue) \in Nat
        /\ \A i \in DOMAIN queue : queue[i].of \in Utterances /\ queue[i].n \in Nat
    BY Queued DEF Inv
  <2>2. /\ queue' \in Seq(Chunk) /\ Len(queue') = Len(queue) + 1
        /\ \A i \in 1..Len(queue) : queue'[i] = queue[i]
        /\ queue'[Len(queue) + 1] = c
    <3> HIDE DEF c
    <3>1. /\ Append(queue, c) \in Seq(Chunk) /\ Len(Append(queue, c)) = Len(queue) + 1
          /\ \A i \in 1..Len(queue) : Append(queue, c)[i] = queue[i]
          /\ Append(queue, c)[Len(queue) + 1] = c
      BY <1>1, <1>2, AppendProperties
    <3> QED  BY <1>6, <3>1
  <2>3. DOMAIN queue' = 1..Len(queue) + 1
    BY <2>2, LenProperties
  <2>4. ASSUME NEW i \in 1..Len(queue)
        PROVE  /\ queue'[i] = queue[i]
               /\ queue[i].n <= task[queue[i].of].chunks
               /\ queue[i].n > task[queue[i].of].heard
               /\ \A j \in 1..i - 1 : queue'[j] = queue[j] /\
                    (queue[j].of = queue[i].of => queue[j].n < queue[i].n)
    BY <2>1, <2>2 DEF Inv, Playable, HeardInOrder
  <2>5. \A v \in Utterances : task'[v].heard <= task'[v].chunks
    BY <1>3, <1>4 DEF Inv, Playable
  <2>6. \A i \in DOMAIN queue' : queue'[i].n <= task'[queue'[i].of].chunks
    BY <1>3, <1>4, <2>1, <2>2, <2>3, <2>4
  <2>7. HeardInOrder'
    <3>1. ASSUME NEW i \in 1..Len(queue)
          PROVE  /\ queue'[i].n > task'[queue'[i].of].heard
                 /\ \A j \in 1..i - 1 :
                      queue'[j].of = queue'[i].of => queue'[j].n < queue'[i].n
      BY <1>3, <2>1, <2>4
    <3>2. queue'[Len(queue) + 1].n > task'[queue'[Len(queue) + 1].of].heard
      BY <1>3, <1>4, <2>2 DEF Inv, Playable
    <3>3. ASSUME NEW j \in 1..Len(queue), queue'[j].of = u
          PROVE  queue'[j].n < task[u].chunks + 1
      BY <1>4, <2>1, <2>4, <3>3
    <3> SUFFICES ASSUME NEW i \in 1..Len(queue) + 1
                 PROVE  /\ queue'[i].n > task'[queue'[i].of].heard
                        /\ \A j \in 1..i - 1 :
                             queue'[j].of = queue'[i].of => queue'[j].n < queue'[i].n
      BY <2>3 DEF HeardInOrder
    <3>4. CASE i \in 1..Len(queue)
      BY <3>1, <3>4
    <3>5. CASE i = Len(queue) + 1
      <4>1. queue'[i].of = u /\ queue'[i].n = task[u].chunks + 1
        BY <2>2, <3>5
      <4>2. \A j \in 1..i - 1 : j \in 1..Len(queue) /\ queue'[j] = queue[j]
        BY <2>1, <2>2, <3>5
      <4> QED  BY <3>2, <3>3, <3>5, <4>1, <4>2
    <3> QED  BY <2>1, <3>4, <3>5
  <2>8. Len(queue') <= QueueSize
    BY <1>6, <2>1, <2>2, VoiceAssumption
  <2> QED  BY <1>3, <2>2, <2>5, <2>6, <2>7, <2>8 DEF Playable
<1> QED  BY <1>5, <1>6 DEF Enqueued

LEMMA SynthesizeKeepsInv ==
  ASSUME Inv, NEW u \in Utterances, Synthesize(u)
  PROVE  Inv'
<1> SUFFICES ASSUME NEW p, p = task[u].pipe PROVE Inv'
  OBVIOUS
<1>1. /\ task[u] \in Task /\ task[u].pc = "tts" /\ p \in Sockets
      /\ bridge[p] \in Bridge /\ UNCHANGED <<session, attached>>
  BY DEF Synthesize, Inv, TypeOK, Attachment
<1>2. CASE /\ task[u].chunks < MaxChunks
           /\ task' = [task EXCEPT ![u].chunks = @ + 1]
           /\ queue' = Enqueued([of |-> u, n |-> task[u].chunks + 1])
           /\ UNCHANGED bridge
  <2>1. /\ queue' \in Seq(Chunk) /\ Len(queue') <= QueueSize
        /\ task' \in [Utterances -> Task] /\ Playable'
    BY <1>2, EnqueueKeepsOrder
  <2>2. TypeOK'
    BY <1>1, <1>2, <2>1 DEF Inv, TypeOK
  <2>3. \A v \in Utterances :
          /\ task'[v].pc = task[v].pc /\ task'[v].pipe = task[v].pipe
          /\ task'[v].alone = task[v].alone /\ task'[v].cut = task[v].cut
    BY <1>2 DEF Inv, TypeOK, Task
  <2>4. Attachment' /\ Flags'
    BY <1>1, <1>2, <2>3, FlagsUntouched
  <2> QED  BY <2>1, <2>2, <2>4 DEF Inv
<1>3. CASE /\ TaskEnds(u) /\ UNCHANGED queue
           /\ bridge' = [bridge EXCEPT ![task[u].pipe].responding = FALSE]
  <2>1. /\ bridge' \in [Sockets -> Bridge] /\ bridge'[p].pc = bridge[p].pc
        /\ ~bridge'[p].responding /\ bridge'[p].cancel = bridge[p].cancel
        /\ \A s \in Sockets \ {p} : bridge'[s] = bridge[s]
    BY <1>1, <1>3 DEF Inv, TypeOK, Bridge
  <2>2. /\ task' \in [Utterances -> Task] /\ task'[u].pc = "done"
        /\ ~task'[u].alone /\ ~task'[u].cut /\ task'[u].pipe = p
        /\ task'[u].chunks = task[u].chunks /\ task'[u].heard = task[u].heard
        /\ \A v \in Utterances \ {u} : task'[v] = task[v]
    BY <1>1, <1>3 DEF Inv, TypeOK, Task, TaskEnds
  <2>3. TypeOK'
    BY <1>1, <1>3, <2>1, <2>2 DEF Inv, TypeOK
  <2>4. Attachment'
    BY <1>1, <2>1, <2>2 DEF Inv, Attachment
  <2>5. \A x : x # p => Streaming(x)' = Streaming(x)
    BY <1>1, <2>2 DEF Streaming
  <2>6. RespondingIsStreaming'
    <3> SUFFICES ASSUME NEW s \in Sockets, bridge'[s].responding
                 PROVE  Streaming(s)' # {}
      BY DEF RespondingIsStreaming
    <3> QED  BY <2>1, <2>5 DEF Inv, Flags, RespondingIsStreaming
  <2>7. ASSUME NEW v \in Utterances PROVE Interruptible(v)'
    <3>1. CASE v = u
      BY <2>2, <3>1 DEF Interruptible
    <3>2. CASE v # u
      <4>1. task[v].alone \/ task[v].cut =>
              /\ Streaming(task[v].pipe) = {v} /\ task[v].pipe \in Sockets
        BY DEF Inv, Attachment, Flags, Interruptible, Streaming
      <4>2. u \in Streaming(p)
        BY <1>1 DEF Streaming
      <4>3. task[v].alone \/ task[v].cut => task[v].pipe # p
        BY <3>2, <4>1, <4>2
      <4> QED  BY <2>1, <2>2, <2>5, <3>2, <4>1, <4>3 DEF Inv, Flags, Interruptible
    <3> QED  BY <3>1, <3>2
  <2>8. Playable'
    BY <1>3, <2>2, QueueUntouched
  <2> QED  BY <2>3, <2>4, <2>6, <2>7, <2>8 DEF Inv, Flags
<1> QED  BY <1>2, <1>3 DEF Synthesize

-----------------------------------------------------------------------------
(* Forwarders. *)

\* Of what is left in the queue, all comes after what has been taken.
LEMMA PlayKeepsOrder ==
  ASSUME Inv, queue # <<>>, queue' = Tail(queue),
         task' = [task EXCEPT ![Head(queue).of].heard = Head(queue).n]
  PROVE  /\ queue' \in Seq(Chunk) /\ Len(queue') <= QueueSize
         /\ task' \in [Utterances -> Task]
         /\ \A v \in Utterances :
              /\ task'[v].pc = task[v].pc /\ task'[v].pipe = task[v].pipe
              /\ task'[v].alone = task[v].alone /\ task'[v].cut = task[v].cut
              /\ task'[v].chunks = task[v].chunks
         /\ Playable'
<1> SUFFICES ASSUME NEW u, NEW n, u = queue[1].of, n = queue[1].n
             PROVE  /\ queue' \in Seq(Chunk) /\ Len(queue') <= QueueSize
                    /\ task' \in [Utterances -> Task]
                    /\ \A v \in Utterances :
                         /\ task'[v].pc = task[v].pc /\ task'[v].pipe = task[v].pipe
                         /\ task'[v].alone = task[v].alone /\ task'[v].cut = task[v].cut
                         /\ task'[v].chunks = task[v].chunks
                    /\ Playable'
  OBVIOUS
<1>1. /\ DOMAIN queue = 1..Len(queue) /\ Len(queue) \in Nat \ {0}
      /\ \A i \in DOMAIN queue : queue[i].of \in Utterances /\ queue[i].n \in Nat
      /\ queue \in Seq(Chunk)
  BY Queued, EmptySeq DEF Inv, TypeOK
<1>2. /\ Tail(queue) \in Seq(Chunk) /\ Len(Tail(queue)) = Len(queue) - 1
      /\ \A i \in 1..Len(Tail(queue)) : Tail(queue)[i] = queue[i + 1]
  BY <1>1, HeadTailProperties
<1>3. /\ queue' \in Seq(Chunk) /\ Len(queue') = Len(queue) - 1
      /\ DOMAIN queue' = 1..Len(queue) - 1
      /\ \A i \in 1..Len(queue) - 1 : queue'[i] = queue[i + 1]
  BY <1>2, LenProperties
<1>4. /\ u \in Utterances /\ n <= task[u].chunks /\ n \in 1..MaxChunks
      /\ task' = [task EXCEPT ![u].heard = n]
  <2>1. 1 \in DOMAIN queue /\ Head(queue) = queue[1]
    BY <1>1
  <2>2. queue[1] \in Chunk
    BY <1>1, <2>1, ElementOfSeq
  <2> QED  BY <1>1, <2>1, <2>2 DEF Chunk, Inv, Playable
<1>5. \A v \in Utterances : /\ task[v] \in Task /\ task[v].chunks \in Nat
                            /\ task[v].heard \in Nat
  BY VoiceAssumption DEF Inv, TypeOK, Task
<1>6. /\ task' \in [Utterances -> Task]
      /\ task'[u].heard = n
      /\ \A v \in Utterances :
           /\ task'[v].pc = task[v].pc /\ task'[v].pipe = task[v].pipe
           /\ task'[v].alone = task[v].alone /\ task'[v].cut = task[v].cut
           /\ task'[v].chunks = task[v].chunks
           /\ v # u => task'[v].heard = task[v].heard
  <2> DEFINE t == [task[u] EXCEPT !.heard = n]
  <2>1. n \in 0..MaxChunks
    BY <1>4, VoiceAssumption
  <2>2. /\ t \in Task /\ t.heard = n /\ t.pc = task[u].pc /\ t.pipe = task[u].pipe
        /\ t.alone = task[u].alone /\ t.cut = task[u].cut /\ t.chunks = task[u].chunks
    BY <1>4, <1>5, <2>1 DEF Task
  <2>3. task' = [task EXCEPT ![u] = t]
    BY <1>4 DEF Inv, TypeOK
  <2> HIDE DEF t
  <2> QED  BY <1>4, <2>2, <2>3 DEF Inv, TypeOK
<1>7. ASSUME NEW i \in 1..Len(queue) - 1
      PROVE  /\ queue[i + 1].n <= task[queue[i + 1].of].chunks
             /\ queue[i + 1].n > task'[queue[i + 1].of].heard
             /\ \A j \in 1..i - 1 :
                  queue[j + 1].of = queue[i + 1].of => queue[j + 1].n < queue[i + 1].n
  <2>1. /\ i + 1 \in DOMAIN queue /\ 1 \in 1..(i + 1) - 1
        /\ \A j \in 1..i - 1 : j + 1 \in 1..(i + 1) - 1
    BY <1>1
  <2>2. /\ queue[i + 1].n <= task[queue[i + 1].of].chunks
        /\ queue[i + 1].n > task[queue[i + 1].of].heard
        /\ \A j \in 1..(i + 1) - 1 :
             queue[j].of = queue[i + 1].of => queue[j].n < queue[i + 1].n
    BY <2>1 DEF Inv, Playable, HeardInOrder
  <2>3. queue[i + 1].n > task'[queue[i + 1].of].heard
    <3>1. CASE queue[i + 1].of = u
      BY <1>1, <1>4, <1>6, <2>1, <2>2, <3>1
    <3>2. CASE queue[i + 1].of # u
      BY <1>1, <1>6, <2>1, <2>2, <3>2
    <3> QED  BY <3>1, <3>2
  <2> QED  BY <2>1, <2>2, <2>3
<1>8. Playable'
  <2>1. \A v \in Utterances : task'[v].heard <= task'[v].chunks
    BY <1>4, <1>5, <1>6 DEF Inv, Playable
  <2>2. \A i \in DOMAIN queue' : queue'[i].n <= task'[queue'[i].of].chunks
    <3> SUFFICES ASSUME NEW i \in 1..Len(queue) - 1
                 PROVE  queue[i + 1].n <= task'[queue[i + 1].of].chunks
      BY <1>3
    <3>1. i + 1 \in DOMAIN queue
      BY <1>1
    <3> QED  BY <1>1, <1>6, <1>7, <3>1
  <2>3. HeardInOrder'
    <3> SUFFICES ASSUME NEW i \in 1..Len(queue) - 1
                 PROVE  /\ queue'[i].n > task'[queue'[i].of].heard
                        /\ \A j \in 1..i - 1 :
                             queue'[j].of = queue'[i].of => queue'[j].n < queue'[i].n
      BY <1>3 DEF HeardInOrder
    <3>1. \A j \in 1..i - 1 : j \in 1..Len(queue) - 1
      BY <1>1
    <3> QED  BY <1>3, <1>7, <3>1
  <2> QED  BY <2>1, <2>2, <2>3 DEF Playable
<1>9. Len(queue') <= QueueSize
  BY <1>1, <1>3, VoiceAssumption DEF Inv, TypeOK
<1> QED  BY <1>3, <1>6, <1>8, <1>9

\* Where a forwarder is matters to nothing else.
LEMMA ForwarderMoves ==
  ASSUME Inv, NEW s \in Sockets, NEW from, NEW to \in {"wait", "over"},
         Forwarder(s, from, to)
  PROVE  /\ bridge' \in [Sockets -> Bridge]
         /\ \A x \in Sockets : /\ bridge'[x].pc = bridge[x].pc
                               /\ bridge'[x].responding = bridge[x].responding
                               /\ bridge'[x].cancel = bridge[x].cancel
<1>1. bridge[s] \in Bridge /\ bridge' = [bridge EXCEPT ![s].forwarder = to]
  BY DEF Forwarder, Inv, TypeOK
<1> QED  BY <1>1 DEF Inv, TypeOK, Bridge

LEMMA ForwarderKeepsInv ==
  ASSUME Inv, NEW s \in Sockets, ForwarderTask(s)
  PROVE  Inv'
<1>1. /\ bridge' \in [Sockets -> Bridge] /\ UNCHANGED <<session, attached>>
      /\ \A x \in Sockets : /\ bridge'[x].pc = bridge[x].pc
                            /\ bridge'[x].responding = bridge[x].responding
                            /\ bridge'[x].cancel = bridge[x].cancel
  BY ForwarderMoves DEF ForwarderTask, ForwarderStarts, Forward, ForwarderIdle
<1>2. CASE Forward(s)
  <2>1. /\ queue' \in Seq(Chunk) /\ Len(queue') <= QueueSize
        /\ task' \in [Utterances -> Task] /\ Playable'
        /\ \A v \in Utterances :
             /\ task'[v].pc = task[v].pc /\ task'[v].pipe = task[v].pipe
             /\ task'[v].alone = task[v].alone /\ task'[v].cut = task[v].cut
    BY <1>2, PlayKeepsOrder DEF Forward
  <2>2. Attachment' /\ Flags'
    BY <1>1, <2>1, FlagsUntouched
  <2> QED  BY <1>1, <2>1, <2>2 DEF Inv, TypeOK
<1>3. CASE UNCHANGED <<queue, task>>
  <2>1. Attachment' /\ Flags' /\ Playable'
    BY <1>1, <1>3, FlagsUntouched, QueueUntouched
  <2> QED  BY <1>1, <1>3, <2>1 DEF Inv, TypeOK
<1> QED  BY <1>2, <1>3 DEF ForwarderTask, ForwarderStarts, ForwarderIdle

-----------------------------------------------------------------------------
(* The theorems. *)

\* A task that ends synthesizes nothing.
LEMMA EndKeepsChunks ==
  ASSUME task \in [Utterances -> Task], NEW v \in Utterances, TaskEnds(v),
         NEW u \in Utterances
  PROVE  task'[u].chunks = task[u].chunks
<1>1. \/ task'[u] = [task[u] EXCEPT !.pc = "done", !.alone = FALSE, !.cut = FALSE]
      \/ task'[u] = task[u]
  BY DEF TaskEnds
<1>2. task[u] \in Task
  OBVIOUS
<1> QED  BY <1>1, <1>2 DEF Task

LEMMA VoiceInvariant == Spec => []Inv
<1>1. Inv /\ UNCHANGED vars => Inv'
  BY DEF vars, Inv, TypeOK, Attachment, Flags, RespondingIsStreaming, Interruptible,
     Streaming, Playable, HeardInOrder
<1>2. Inv /\ [Next]_vars => Inv'
  BY <1>1, SessionsKeepInv, ConnectKeepsInv, SpeechStartsKeepsInv, SpeechGoesOnKeepsInv,
     SpeechEndsKeepsInv, TranscribedKeepsInv, RespondKeepsInv, SynthesizeKeepsInv,
     ForwarderKeepsInv DEF Next, SpeechTask
<1> QED  BY <1>2, InitInv, PTL DEF Spec

\* The variables keep their types: the queue of audio never outgrows its bound.
THEOREM VoiceTypeCorrect == Spec => []TypeOK
<1>1. Inv => TypeOK
  BY DEF Inv
<1> QED  BY <1>1, VoiceInvariant, PTL

\* However many tasks set and reset it, the flag an interruption depends on is
\* true only while a response of its pipeline is being streamed.
THEOREM RespondingAlwaysStreaming == Spec => []RespondingIsStreaming
<1>1. Inv => RespondingIsStreaming
  BY DEF Inv, Flags
<1> QED  BY <1>1, VoiceInvariant, PTL

\* Nothing is heard twice or out of order, whatever responses share the queue,
\* chunks it drops and forwarders empty it.
THEOREM AlwaysHeardInOrder == Spec => []HeardInOrder
<1>1. Inv => HeardInOrder
  BY DEF Inv, Playable
<1> QED  BY <1>1, VoiceInvariant, PTL

\* A response that had its pipeline to itself when the user spoke over it is
\* silent until a later response or a reset clears the cancel event.
THEOREM InterruptionAlwaysSilences == Spec => InterruptionSilences
<1>1. ASSUME Inv, [Next]_vars, NEW u \in Utterances, task[u].cut, task'[u].cut
      PROVE  task'[u].chunks = task[u].chunks
  <2>1. task[u] \in Task /\ task \in [Utterances -> Task]
    BY <1>1 DEF Inv, TypeOK
  <2>2. CASE UNCHANGED task
    BY <2>2
  <2>3. ASSUME NEW v \in Utterances, Synthesize(v)
        PROVE  task'[u].chunks = task[u].chunks
    <3>1. CASE u = v
      <4>1. bridge[task[u].pipe].cancel
        BY <1>1 DEF Inv, Flags, Interruptible
      <4>2. TaskEnds(u)
        BY <2>3, <3>1, <4>1 DEF Synthesize
      <4> QED  BY <2>1, <4>2, EndKeepsChunks
    <3>2. CASE u # v
      BY <2>1, <2>3, <3>2 DEF Synthesize, TaskEnds
    <3> QED  BY <3>1, <3>2
  <2>4. ASSUME NEW v \in Utterances, Transcribed(v)
        PROVE  task'[u].chunks = task[u].chunks
    <3>1. CASE TaskEnds(v)
      BY <2>1, <3>1, EndKeepsChunks
    <3>2. CASE task' = [task EXCEPT ![v].pc = "agent"]
      BY <2>1, <3>2 DEF Task
    <3> QED  BY <2>4, <3>1, <3>2 DEF Transcribed
  <2>5. ASSUME NEW v \in Utterances, Respond(v)
        PROVE  task'[u].chunks = task[u].chunks
    <3> DEFINE free == Streaming(task[v].pipe) = {}
    <3>1. \/ task'[u] = [task[u] EXCEPT !.pc = "tts", !.alone = free]
          \/ task'[u] = [task[u] EXCEPT !.alone = FALSE, !.cut = FALSE]
          \/ task'[u] = task[u]
      BY <2>5 DEF Respond, Begin
    <3> HIDE DEF free
    <3> QED  BY <2>1, <3>1 DEF Task
  <2>6. ASSUME NEW s \in Sockets, Forward(s)
        PROVE  task'[u].chunks = task[u].chunks
    BY <1>1, <2>6, PlayKeepsOrder DEF Forward
  <2>7. CASE SpeechStarts
    <3>1. \/ task'[u] = [task[u] EXCEPT !.cut = TRUE]
          \/ task'[u] = task[u]
      BY <2>7 DEF SpeechStarts
    <3> QED  BY <2>1, <3>1 DEF Task
  <2>8. ASSUME NEW v \in Utterances,
               task' = [task EXCEPT ![v] = [@ EXCEPT !.pc = "stt", !.pipe = attached]]
        PROVE  task'[u].chunks = task[u].chunks
    <3>1. \/ task'[u] = [task[u] EXCEPT !.pc = "stt", !.pipe = attached]
          \/ task'[u] = task[u]
      BY <2>1, <2>8
    <3> QED  BY <2>1, <3>1 DEF Task
  <2>9. ASSUME NEW p, task' = Uncut(p)
        PROVE  task'[u].chunks = task[u].chunks
    <3>1. \/ task'[u] = [task[u] EXCEPT !.alone = FALSE, !.cut = FALSE]
          \/ task'[u] = task[u]
      BY <2>9 DEF Uncut
    <3> QED  BY <2>1, <3>1 DEF Task
  <2>10. CASE SpeechEnds
    BY <2>2, <2>8, <2>10 DEF SpeechEnds
  <2>11. CASE EndSession \/ \E s \in Sockets : Disconnect(s)
    BY <2>2, <2>9, <2>11 DEF EndSession, Disconnect
  <2> QED  BY <1>1, <2>2, <2>3, <2>4, <2>5, <2>6, <2>7, <2>10, <2>11 DEF Next, vars,
         CreateSession, Connect, SpeechGoesOn, SpeechTask, ForwarderTask,
         ForwarderStarts, ForwarderIdle
<1>2. Inv /\ [Next]_vars =>
        [\A u \in Utterances :
           task[u].cut /\ task'[u].cut => task'[u].chunks = task[u].chunks]_vars
  BY <1>1
<1> QED  BY <1>2, VoiceInvariant, PTL DEF Spec, InterruptionSilences
=============================================================================
