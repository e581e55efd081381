---------------------------- MODULE VoicePipeline ----------------------------
(***************************************************************************)
(* One voice session: the WebSocket bridges that stream its audio          *)
(* (api/v1/voice.py), the session's bounded queue of synthesized audio     *)
(* (services/voice_session_service.py), and in each bridge a VoicePipeline *)
(* (voice/pipeline.py) that turns the user's speech into spoken responses. *)
(*                                                                         *)
(* Each utterance is handled by an asyncio task of its own, so several can *)
(* be under way.  A step is what a coroutine does between two awaits; an   *)
(* audio frame is handled in one step.                                     *)
(***************************************************************************)
EXTENDS Naturals, Sequences

CONSTANTS
  Sockets,            \* WebSocket bridges to the session, each used once
  Utterances,         \* bound: the speech tasks of a behaviour
  QueueSize,          \* maxsize of VoiceSession._audio_queue
  MinFrames,          \* MIN_AUDIO_BYTES, in frames of 20 ms
  MaxChunks,          \* bound: the audio chunks of a response
  None

ASSUME VoiceAssumption ==
  /\ QueueSize \in Nat \ {0}
  /\ MinFrames \in Nat
  /\ MaxChunks \in Nat
  /\ None \notin Sockets

VARIABLES
  session,            \* whether the session table has the session
  attached,           \* the socket whose pipeline is session.pipeline, or None
  queue,              \* _audio_queue: chunks, each the n-th of an utterance's response
  bridge,             \* the sockets, with the pipeline of each
  task                \* the _handle_speech_end tasks

vars == <<session, attached, queue, bridge, task>>

Bridge ==
  [pc : {"new", "open", "closed"},
   forwarder : {"none", "start", "wait", "over"},
   speaking : BOOLEAN,
   frames : 0..MinFrames + 1,             \* in _audio_buffer, up to one too many
   responding : BOOLEAN,
   cancel : BOOLEAN]

Task ==
  [pc : {"unborn", "stt", "agent", "tts", "done"},
   pipe : Sockets \union {None},          \* whose pipeline it belongs to
   chunks : 0..MaxChunks,                 \* synthesized so far
   heard : 0..MaxChunks,                  \* the last one taken from the queue
   alone : BOOLEAN,                       \* no other response of the pipeline
                                          \* has been streamed beside it
   cut : BOOLEAN]                         \* the user has begun to speak over it

Chunk == [of : Utterances, n : 1..MaxChunks]

TypeOK ==
  /\ session \in {"none", "live", "ended"}
  /\ attached \in Sockets \union {None}
  /\ queue \in Seq(Chunk)
  /\ Len(queue) <= QueueSize
  /\ bridge \in [Sockets -> Bridge]
  /\ task \in [Utterances -> Task]

\* VoicePipeline.__init__ and reset()
Silent(pc, forwarder) ==
  [pc |-> pc, forwarder |-> forwarder, speaking |-> FALSE, frames |-> 0,
   responding |-> FALSE, cancel |-> FALSE]

Unborn == [pc |-> "unborn", pipe |-> None, chunks |-> 0, heard |-> 0,
           alone |-> FALSE, cut |-> FALSE]

Init ==
  /\ session = "none"
  /\ attached = None
  /\ queue = <<>>
  /\ bridge = [s \in Sockets |-> Silent("new", "none")]
  /\ task = [u \in Utterances |-> Unborn]

\* What a coroutine may find when it resumes.  Whisper raises, or returns the
\* words of the utterance, which may be none; an engine that cannot speak a
\* sentence goes on with the next, ElevenLabs hands over to Coqui, and Coqui
\* raises when it cannot be loaded.
Transcription == {"words", "silence", "raises"}
EngineStep == {"chunk", "end", "raises"}

\* The responses that are being streamed from pipeline p.
Streaming(p) == {u \in Utterances : task[u].pc = "tts" /\ task[u].pipe = p}

-----------------------------------------------------------------------------
\* Sessions and their sockets.

CreateSession ==
  /\ session = "none"
  /\ session' = "live"
  /\ UNCHANGED <<attached, queue, bridge, task>>

\* voice_stream, up to its receive loop: a new pipeline takes the session over.
Connect(s) ==
  /\ bridge[s].pc = "new"
  /\ session = "live"
  /\ attached' = s
  /\ bridge' = [bridge EXCEPT ![s] = Silent("open", "start")]
  /\ UNCHANGED <<session, queue, task>>

\* A reset clears the cancel event and the flag: a response that has not seen
\* the event goes on, and can no longer be interrupted.
Uncut(p) == [u \in Utterances |->
               IF task[u].pipe = p THEN [task[u] EXCEPT !.alone = FALSE, !.cut = FALSE]
               ELSE task[u]]

\* The client says "end" or goes, and the finally clause cleans up.
Disconnect(s) ==
  /\ bridge[s].pc = "open"
  /\ bridge' = [bridge EXCEPT ![s] = Silent("closed", "over")]
  /\ task' = Uncut(s)
  /\ UNCHANGED <<session, attached, queue>>

\* DELETE /voice/sessions/{id} by its owner.  The sockets stay open.
EndSession ==
  /\ session = "live"
  /\ session' = "ended"
  /\ IF attached = None
     THEN UNCHANGED <<bridge, task>>
     ELSE /\ bridge' = [bridge EXCEPT ![attached] = Silent(@.pc, @.forwarder)]
          /\ task' = Uncut(attached)
  /\ UNCHANGED <<attached, queue>>

-----------------------------------------------------------------------------
\* process_audio_frame, on the pipeline attached last, whichever socket the
\* frame came through.

Listening == session = "live" /\ \E s \in Sockets : bridge[s].pc = "open"

\* MUTANT of SpeechStarts: an interruption is not passed on to the stream.
SpeechStartsUnnoticed ==
  /\ Listening
  /\ ~bridge[attached].speaking
  /\ bridge' = [bridge EXCEPT ![attached].speaking = TRUE,
                              ![attached].frames = 1,
                              ![attached].responding = FALSE]
  /\ task' = [u \in Utterances |->
                IF u \in Streaming(attached) /\ task[u].alone
                THEN [task[u] EXCEPT !.cut = TRUE] ELSE task[u]]
  /\ UNCHANGED <<session, attached, queue>>

SpeechStarts ==
  /\ Listening
  /\ ~bridge[attached].speaking
  /\ bridge' = [bridge EXCEPT ![attached].speaking = TRUE,
                              ![attached].frames = 1,
                              ![attached].cancel = @ \/ bridge[attached].responding,
                              ![attached].responding = FALSE]
  /\ task' = [u \in Utterances |->
                IF u \in Streaming(attached) /\ task[u].alone
                THEN [task[u] EXCEPT !.cut = TRUE] ELSE task[u]]
  /\ UNCHANGED <<session, attached, queue>>

SpeechGoesOn ==
  /\ Listening
  /\ bridge[attached].speaking
  /\ bridge[attached].frames <= MinFrames
  /\ bridge' = [bridge EXCEPT ![attached].frames = @ + 1]
  /\ UNCHANGED <<session, attached, queue, task>>

\* Too short an utterance is forgotten.  The buffer is not read again.
SpeechEnds ==
  /\ Listening
  /\ bridge[attached].speaking
  /\ bridge' = [bridge EXCEPT ![attached].speaking = FALSE, ![attached].frames = 0]
  /\ IF bridge[attached].frames <= MinFrames
     THEN UNCHANGED task
     ELSE \E u \in Utterances :
            /\ task[u].pc = "unborn"
            /\ task' = [task EXCEPT ![u] = [@ EXCEPT !.pc = "stt",
                                                     !.pipe = attached]]
  /\ UNCHANGED <<session, attached, queue>>

-----------------------------------------------------------------------------
\* _handle_speech_end

TaskEnds(u) ==
  task' = [task EXCEPT ![u] = [@ EXCEPT !.pc = "done", !.alone = FALSE, !.cut = FALSE]]

\* The transcript is sent to the client, which must be there, and then to the
\* agent.
Transcribed(u) ==
  /\ task[u].pc = "stt"
  /\ \E heard \in Transcription, sent \in BOOLEAN :
       /\ sent => bridge[task[u].pipe].pc = "open"
       /\ IF heard = "words" /\ sent THEN task' = [task EXCEPT ![u].pc = "agent"]
          ELSE TaskEnds(u)
  /\ UNCHANGED <<session, attached, queue, bridge>>

Begin(u) ==
  LET others == Streaming(task[u].pipe)
  IN task' = [v \in Utterances |->
       IF v = u THEN [task[v] EXCEPT !.pc = "tts", !.alone = (others = {})]
       ELSE IF v \in others THEN [task[v] EXCEPT !.alone = FALSE, !.cut = FALSE]
       ELSE task[v]]

\* handle_voice_query always has words: it takes the length of what the router
\* returns, an LLMResponse, which has none, and so says the sentence it has for
\* failures.  The response begins, beside any other.
Respond(u) ==
  /\ task[u].pc = "agent"
  /\ bridge' = [bridge EXCEPT ![task[u].pipe].responding = TRUE,
                              ![task[u].pipe].cancel = FALSE]
  /\ Begin(u)
  /\ UNCHANGED <<session, attached, queue>>

\* MUTANT of Enqueued: the queue takes one chunk more than it has room for.
EnqueuedBeyond(chunk) == IF Len(queue) <= QueueSize THEN Append(queue, chunk) ELSE queue

\* MUTANT of Enqueued: a full queue drops its newest chunk instead, and the order
\* of the rest is lost.
EnqueuedAtHead(chunk) ==
  <<chunk>> \o (IF Len(queue) < QueueSize THEN queue ELSE Tail(queue))

\* enqueue_audio_chunk
Enqueued(chunk) == IF Len(queue) < QueueSize THEN Append(queue, chunk) ELSE queue

\* MUTANT of Synthesize: the finally clause is missing.
SynthesizeNoFinally(u) ==
  /\ task[u].pc = "tts"
  /\ \E step \in EngineStep :
       IF step = "chunk" /\ ~bridge[task[u].pipe].cancel
       THEN /\ task[u].chunks < MaxChunks
            /\ task' = [task EXCEPT ![u].chunks = @ + 1]
            /\ queue' = Enqueued([of |-> u, n |-> task[u].chunks + 1])
       ELSE TaskEnds(u) /\ UNCHANGED queue
  /\ UNCHANGED <<session, attached, bridge>>

\* MUTANT of Synthesize: a cancelled stream is begun again rather than ended.
SynthesizeRestarts(u) ==
  /\ task[u].pc = "tts"
  /\ IF bridge[task[u].pipe].cancel
     THEN task' = [task EXCEPT ![u].pc = "agent", ![u].chunks = 0]
     ELSE TaskEnds(u)
  /\ bridge' = [bridge EXCEPT ![task[u].pipe].responding = FALSE]
  /\ UNCHANGED <<session, attached, queue>>

\* _stream_tts: a chunk of the engine is put into the queue, and dropped when the
\* queue is full; a chunk that comes after the cancel event ends the stream, as
\* does the engine.  The finally clause resets the flag.
Synthesize(u) ==
  /\ task[u].pc = "tts"
  /\ \E step \in EngineStep :
       IF step = "chunk" /\ ~bridge[task[u].pipe].cancel
       THEN /\ task[u].chunks < MaxChunks
            /\ task' = [task EXCEPT ![u].chunks = @ + 1]
            /\ queue' = Enqueued([of |-> u, n |-> task[u].chunks + 1])
            /\ UNCHANGED bridge
       ELSE /\ TaskEnds(u)
            /\ bridge' = [bridge EXCEPT ![task[u].pipe].responding = FALSE]
            /\ UNCHANGED queue
  /\ UNCHANGED <<session, attached>>

-----------------------------------------------------------------------------
\* forward_audio_chunks

Forwarder(s, from, to) ==
  /\ bridge[s].forwarder = from
  /\ bridge' = [bridge EXCEPT ![s].forwarder = to]

\* get_audio_stream raises when the session has been ended meanwhile.
ForwarderStarts(s) ==
  /\ Forwarder(s, "start", IF session = "live" THEN "wait" ELSE "over")
  /\ UNCHANGED <<session, attached, queue, task>>

\* MUTANT of Forward: it waits for a second chunk before it sends the first.
ForwardAhead(s) ==
  /\ \/ Forwarder(s, "wait", "wait")
     \/ Forwarder(s, "wait", "over")
  /\ Len(queue) > 1
  /\ queue' = Tail(queue)
  /\ task' = [task EXCEPT ![Head(queue).of].heard = Head(queue).n]
  /\ UNCHANGED <<session, attached>>

\* A chunk is taken and sent.  When the client cannot be reached, the chunk is
\* lost and the exception stays in the task.
Forward(s) ==
  /\ \/ Forwarder(s, "wait", "wait")
     \/ Forwarder(s, "wait", "over")
  /\ queue # <<>>
  /\ queue' = Tail(queue)
  /\ task' = [task EXCEPT ![Head(queue).of].heard = Head(queue).n]
  /\ UNCHANGED <<session, attached>>

\* 30 seconds without a chunk: response_end is sent, and nothing after it.
ForwarderIdle(s) ==
  /\ Forwarder(s, "wait", "over")
  /\ queue = <<>>
  /\ UNCHANGED <<session, attached, queue, task>>

-----------------------------------------------------------------------------
SpeechTask(u) ==
  Transcribed(u) \/ Respond(u) \/ Synthesize(u)

ForwarderTask(s) ==
  ForwarderStarts(s) \/ Forward(s) \/ ForwarderIdle(s)

Next ==
  \/ CreateSession \/ EndSession
  \/ \E s \in Sockets : Connect(s) \/ Disconnect(s) \/ ForwarderTask(s)
  \/ SpeechStarts \/ SpeechGoesOn \/ SpeechEnds
  \/ \E u \in Utterances : SpeechTask(u)

Spec == Init /\ [][Next]_vars

\* The event loop runs what can go on, the models in the thread pool return, and
\* time passes.  Nothing is assumed of the user.
Fairness ==
  /\ \A u \in Utterances : WF_vars(SpeechTask(u))
  /\ \A s \in Sockets : WF_vars(ForwarderTask(s))

FairSpec == Spec /\ Fairness

-----------------------------------------------------------------------------
(* What must hold. *)

\* The flag that makes an interruption possible is true only while a response
\* is being streamed, whichever tasks set and reset it, and in whatever order
\* they end: a user who speaks into silence cancels nothing.
RespondingIsStreaming ==
  \A p \in Sockets : bridge[p].responding => Streaming(p) # {}

\* A response that has the pipeline to itself falls silent for good when the
\* user speaks over it, until the event is cleared by a later response or by a
\* reset.
InterruptionSilences ==
  [][\A u \in Utterances :
       task[u].cut /\ task'[u].cut => task'[u].chunks = task[u].chunks]_vars

\* Responses that share the queue, full queues and sockets that replace each
\* other lose chunks, but nothing is heard twice or out of order.
HeardInOrder ==
  \A i \in DOMAIN queue :
    /\ queue[i].n > task[queue[i].of].heard
    /\ \A j \in 1..i - 1 : queue[j].of = queue[i].of => queue[j].n < queue[i].n

\* Every utterance is done with at some time, whether or not anybody still
\* listens.
UtterancesEnd ==
  \A u \in Utterances : task[u].pc # "unborn" ~> task[u].pc = "done"

\* Audio does not wait for ever behind a socket that could play it: the queue is
\* emptied, unless every forwarder that was there to empty it has ended.
AudioIsForwarded ==
  \A s \in Sockets :
    bridge[s].forwarder = "wait" /\ queue # <<>> ~>
      queue = <<>> \/ bridge[s].forwarder = "over"

-----------------------------------------------------------------------------
(* What the repository says and the code does not do. *)

\* voice/pipeline.py:12 "If the user speaks while TTS is playing, the _cancel_tts
\* event is set": when speech starts, the event is set if a response of the
\* pipeline is being streamed.
InterruptionIsHeeded ==
  [][\A p \in Sockets :
       ~bridge[p].speaking /\ bridge'[p].speaking /\ Streaming(p) # {} =>
         bridge'[p].cancel]_vars
=============================================================================
