------------------------------ MODULE LLMRouter ------------------------------
(***************************************************************************)
(* llm/router.py with the providers it calls: concurrent calls of generate *)
(* on one LLMRouter, its circuit breaker before Gemini, Groq as fallback,  *)
(* and the pause GeminiProvider keeps between two calls.                   *)
(*                                                                         *)
(* A step is what a call does between two awaits.  The router's lock is    *)
(* only held between awaits, so nobody ever waits for it.  Clock readings  *)
(* are kept as the time gone by since, up to where it stops to matter.     *)
(***************************************************************************)
EXTENDS Naturals, Sequences, FiniteSets

CONSTANTS
  Callers,            \* concurrent calls of generate, reused
  ErrorThreshold,
  ErrorWindow,
  RecoveryInterval,
  MinCallGap,         \* GeminiProvider._min_call_gap_seconds
  GroqRetries,        \* max_retries of GroqProvider.generate
  GroqConfigured,
  None

ASSUME RouterAssumption ==
  /\ {ErrorThreshold, ErrorWindow, RecoveryInterval} \subseteq Nat \ {0}
  /\ {MinCallGap, GroqRetries} \subseteq Nat
  /\ GroqConfigured \in BOOLEAN
  /\ None \notin Nat

VARIABLES
  state,              \* the circuit
  openFor,            \* time since _gemini_open_since, or None
  errors,             \* error_timestamps
  sinceCall,          \* time since GeminiProvider._last_call_time
  call,               \* the calls of generate
  geminiUp            \* Gemini neither fails nor is slow

vars == <<state, openFor, errors, sinceCall, call, geminiUp>>
circuit == <<state, openFor, errors>>

\* An error's timestamp, as its age.  echo: it was recorded for a reply that had
\* been recorded already.
Timestamp == [age : 0..ErrorWindow, echo : BOOLEAN]

\* A call: pausing for the rate limit, waiting for Gemini, waiting for Groq, or
\* over (or not begun), with what came of it.
Call ==
  [pc : {"idle", "pause", "gemini", "groq"},
   wait : 0..MinCallGap,
   forced : BOOLEAN,          \* force_provider = GEMINI
   probe : BOOLEAN,           \* let through by a circuit that was not closed
   attempt : 0..GroqRetries,
   answer : {"none", "reply", "error"}]

CallAt(pc, wait, forced, probe, answer) ==
  [pc |-> pc, wait |-> wait, forced |-> forced, probe |-> probe,
   attempt |-> 0, answer |-> answer]
Over(answer) == CallAt("idle", 0, FALSE, FALSE, answer)
ToGemini(pc, wait, forced, probe) == CallAt(pc, wait, forced, probe, "none")
ToGroq == CallAt("groq", 0, FALSE, FALSE, "none")

TypeOK ==
  /\ state \in {"closed", "open", "half_open"}
  /\ openFor \in 0..RecoveryInterval \union {None}
  /\ errors \in Seq(Timestamp)
  /\ \A i, j \in DOMAIN errors : i < j => errors[i].age >= errors[j].age
  /\ sinceCall \in 0..MinCallGap
  /\ call \in [Callers -> Call]
  /\ geminiUp \in BOOLEAN

Init ==
  /\ state = "closed"
  /\ openFor = None
  /\ errors = <<>>
  /\ sinceCall \in 0..MinCallGap
  /\ call = [c \in Callers |-> Over("none")]
  /\ geminiUp \in BOOLEAN

-----------------------------------------------------------------------------
\* The circuit.

Cooled == openFor # None /\ openFor >= RecoveryInterval
ShouldUseGemini == state = "open" => Cooled

\* The timestamps are in order, so those in the window are the last ones.
InWindow == {i \in DOMAIN errors : errors[i].age < ErrorWindow}
Recent == SubSeq(errors, Len(errors) - Cardinality(InWindow) + 1, Len(errors))

\* MUTANT of RecordErrors: a probe that fails counts like any other error.
RecordErrorsByCount(n) ==
  /\ errors' = Recent \o [i \in 1..n |-> [age |-> 0, echo |-> i > 1]]
  /\ IF Len(errors') >= ErrorThreshold
     THEN state' = "open" /\ openFor' = 0
     ELSE UNCHANGED <<state, openFor>>

\* MUTANT of RecordErrors: the circuit opens without a time.
RecordErrorsUntimed(n) ==
  /\ errors' = Recent \o [i \in 1..n |-> [age |-> 0, echo |-> i > 1]]
  /\ IF Len(errors') >= ErrorThreshold \/ state = "half_open"
     THEN state' = "open" /\ openFor' = None
     ELSE UNCHANGED <<state, openFor>>

\* _record_gemini_error, n times on end.
RecordErrors(n) ==
  /\ errors' = Recent \o [i \in 1..n |-> [age |-> 0, echo |-> i > 1]]
  /\ IF Len(errors') >= ErrorThreshold \/ state = "half_open"
     THEN state' = "open" /\ openFor' = 0
     ELSE UNCHANGED <<state, openFor>>

\* MUTANT of RecordSuccess: only a probe closes the circuit.
RecordSuccessOfProbe ==
  /\ errors' = <<>>
  /\ state' = IF state = "half_open" THEN "closed" ELSE state
  /\ openFor' = None

\* _record_gemini_success
RecordSuccess ==
  /\ errors' = <<>>
  /\ IF state # "closed"
     THEN state' = "closed" /\ openFor' = None
     ELSE UNCHANGED <<state, openFor>>

-----------------------------------------------------------------------------
\* generate, up to its first await.

\* GeminiProvider.generate reads _last_call_time, and sets it when it has slept.
BeginGemini(c, forced, probe) ==
  IF sinceCall < MinCallGap
  THEN /\ call' = [call EXCEPT ![c] =
                     ToGemini("pause", MinCallGap - sinceCall, forced, probe)]
       /\ UNCHANGED sinceCall
  ELSE /\ call' = [call EXCEPT ![c] = ToGemini("gemini", 0, forced, probe)]
       /\ sinceCall' = 0

BeginGroq(c) ==
  call' = [call EXCEPT ![c] = IF GroqConfigured THEN ToGroq ELSE Over("error")]

UseGemini(c) ==
  /\ call[c].pc = "idle"
  /\ ShouldUseGemini
  /\ state' = IF state = "open" THEN "half_open" ELSE state
  /\ BeginGemini(c, FALSE, state # "closed")
  /\ UNCHANGED <<openFor, errors, geminiUp>>

SkipGemini(c) ==
  /\ call[c].pc = "idle"
  /\ ~ShouldUseGemini
  /\ BeginGroq(c)
  /\ UNCHANGED <<circuit, sinceCall, geminiUp>>

Generate(c) == UseGemini(c) \/ SkipGemini(c)

\* generate(force_provider = GEMINI) and (= GROQ): the circuit is not asked.
ForceGemini(c) ==
  /\ call[c].pc = "idle"
  /\ BeginGemini(c, TRUE, FALSE)
  /\ UNCHANGED <<circuit, geminiUp>>

ForceGroq(c) ==
  /\ call[c].pc = "idle"
  /\ BeginGroq(c)
  /\ UNCHANGED <<circuit, sinceCall, geminiUp>>

-----------------------------------------------------------------------------
\* generate, after an await.

PauseEnds(c) ==
  /\ call[c].pc = "pause"
  /\ call[c].wait = 0
  /\ call' = [call EXCEPT ![c].pc = "gemini"]
  /\ sinceCall' = 0
  /\ UNCHANGED <<circuit, geminiUp>>

GeminiAnswers(c) ==
  /\ call[c].pc = "gemini"
  /\ IF call[c].forced THEN UNCHANGED circuit ELSE RecordSuccess
  /\ call' = [call EXCEPT ![c] = Over("reply")]
  /\ UNCHANGED <<sinceCall, geminiUp>>

\* The call raises, or its timeout does.
GeminiFails(c) ==
  /\ call[c].pc = "gemini"
  /\ ~geminiUp
  /\ IF call[c].forced
     THEN UNCHANGED circuit /\ call' = [call EXCEPT ![c] = Over("error")]
     ELSE RecordErrors(1) /\ BeginGroq(c)
  /\ UNCHANGED <<sinceCall, geminiUp>>

\* The reply comes after the latency threshold: _call_gemini_with_timeout
\* records an error and raises, and generate records what was raised.
GeminiIsSlow(c) ==
  /\ call[c].pc = "gemini"
  /\ ~geminiUp
  /\ ~call[c].forced
  /\ RecordErrors(2)
  /\ BeginGroq(c)
  /\ UNCHANGED <<sinceCall, geminiUp>>

GroqAnswers(c) ==
  /\ call[c].pc = "groq"
  /\ call' = [call EXCEPT ![c] = Over("reply")]
  /\ UNCHANGED <<circuit, sinceCall, geminiUp>>

\* MUTANT of GroqLimits: one retry too many.
GroqLimitsOnceMore(c) ==
  /\ call[c].pc = "groq"
  /\ call[c].attempt <= GroqRetries
  /\ call' = [call EXCEPT ![c].attempt = @ + 1]
  /\ UNCHANGED <<circuit, sinceCall, geminiUp>>

\* MUTANT of GroqLimits: after the last attempt the count starts over.
GroqLimitsForEver(c) ==
  /\ call[c].pc = "groq"
  /\ call' = [call EXCEPT ![c].attempt = (@ + 1) % (GroqRetries + 1)]
  /\ UNCHANGED <<circuit, sinceCall, geminiUp>>

\* 429: sleep, then ask again.
GroqLimits(c) ==
  /\ call[c].pc = "groq"
  /\ call[c].attempt < GroqRetries
  /\ call' = [call EXCEPT ![c].attempt = @ + 1]
  /\ UNCHANGED <<circuit, sinceCall, geminiUp>>

GroqFails(c) ==
  /\ call[c].pc = "groq"
  /\ call' = [call EXCEPT ![c] = Over("error")]
  /\ UNCHANGED <<circuit, sinceCall, geminiUp>>

-----------------------------------------------------------------------------
\* The environment.

Later(n, most) == IF n < most THEN n + 1 ELSE most

Tick ==
  /\ openFor' = IF openFor = None THEN None ELSE Later(openFor, RecoveryInterval)
  /\ errors' = [i \in DOMAIN errors |->
                  [errors[i] EXCEPT !.age = Later(@, ErrorWindow)]]
  /\ sinceCall' = Later(sinceCall, MinCallGap)
  /\ call' = [c \in Callers |->
                [call[c] EXCEPT !.wait = IF @ > 0 THEN @ - 1 ELSE 0]]
  /\ UNCHANGED <<state, geminiUp>>

\* Each planning run has a router of its own; _last_call_time is their common one.
OtherRouterCalls ==
  /\ sinceCall' = 0
  /\ UNCHANGED <<circuit, call, geminiUp>>

GeminiChanges ==
  /\ geminiUp' = ~geminiUp
  /\ UNCHANGED <<circuit, sinceCall, call>>

-----------------------------------------------------------------------------
CallStep(c) ==
  \/ PauseEnds(c)
  \/ GeminiAnswers(c) \/ GeminiFails(c) \/ GeminiIsSlow(c)
  \/ GroqAnswers(c) \/ GroqLimits(c) \/ GroqFails(c)

Next ==
  \/ \E c \in Callers : Generate(c) \/ ForceGemini(c) \/ ForceGroq(c) \/ CallStep(c)
  \/ Tick \/ OtherRouterCalls \/ GeminiChanges

Spec == Init /\ [][Next]_vars

\* Time passes, and both providers reply or time out (GEMINI_TIMEOUT_SECONDS,
\* GROQ_TIMEOUT_SECONDS).
Fairness == WF_vars(Tick) /\ \A c \in Callers : WF_vars(CallStep(c))

FairSpec == Spec /\ Fairness

-----------------------------------------------------------------------------
(* What must hold. *)

\* The circuit can always get out of the state it is in, however the replies of
\* concurrent calls overtake each other: it is closed with fewer errors than
\* open it, or it knows since when it is not.
CircuitCanRecover ==
  /\ state = "closed" <=> openFor = None
  /\ state = "closed" => Len(errors) < ErrorThreshold

\* Nothing but a reply ends "half_open", so while the circuit is in it a call
\* whose reply counts is on its way.
HalfOpenHasProbe ==
  state = "half_open" =>
    \E c \in Callers : call[c].pc \in {"pause", "gemini"} /\ ~call[c].forced

\* When Gemini is well again and generate is still called, the circuit closes
\* for good.
GeminiRecovers ==
  /\ <>[]geminiUp
  /\ []<><<\E c \in Callers : Generate(c)>>_vars
  => <>[](state = "closed")

\* Every call of generate returns or raises.
CallsEnd == \A c \in Callers : call[c].pc # "idle" ~> call[c].pc = "idle"

-----------------------------------------------------------------------------
(* What the repository says and the code does not do. *)

\* router.py:13 "CLOSED -> OPEN: After threshold errors": after that many failed
\* calls, a slow one being one of them.
OpensAfterThreshold ==
  [][state = "closed" /\ state' = "open" =>
       Cardinality({i \in DOMAIN errors' : ~errors'[i].echo}) >= ErrorThreshold]_vars

\* router.py:166 "HALF_OPEN - allow one probe".
OneProbe ==
  state = "half_open" =>
    Cardinality({c \in Callers : call[c].probe}) <= 1
=============================================================================
