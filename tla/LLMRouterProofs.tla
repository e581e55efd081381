-------------------------- MODULE LLMRouterProofs --------------------------
(***************************************************************************)
(* Theorems about LLMRouter, for any number of concurrent calls and any    *)
(* thresholds.                                                             *)
(***************************************************************************)
EXTENDS LLMRouter, FiniteSetTheorems, TLAPS

Inv == TypeOK /\ CircuitCanRecover /\ HalfOpenHasProbe

\* The timestamps in the window are a sequence in order.
LEMMA RecentType ==
  ASSUME TypeOK
  PROVE  /\ Recent \in Seq(Timestamp)
         /\ \A i, j \in DOMAIN Recent : i < j => Recent[i].age >= Recent[j].age
<1> DEFINE n == Len(errors)
           k == Cardinality(InWindow)
<1>1. errors \in Seq(Timestamp) /\ n \in Nat
  BY DEF TypeOK
<1>2. InWindow \subseteq 1..n
  BY <1>1 DEF InWindow
<1>3. IsFiniteSet(1..n) /\ Cardinality(1..n) = n
  BY <1>1, FS_Interval
<1>4. k \in Nat /\ k <= n
  BY <1>1, <1>2, <1>3, FS_Subset, FS_CardinalityType
<1>5. /\ Recent \in Seq(Timestamp)
      /\ Len(Recent) = k
      /\ \A i \in 1..k : Recent[i] = errors[n - k + i]
  BY <1>1, <1>4 DEF Recent
<1> HIDE DEF n, k
<1>6. ASSUME NEW i \in 1..k, NEW j \in 1..k, i < j
      PROVE  Recent[i].age >= Recent[j].age
  <2>1. n - k + i \in 1..n /\ n - k + j \in 1..n /\ n - k + i < n - k + j
    BY <1>1, <1>4, <1>6
  <2>2. errors[n - k + i].age >= errors[n - k + j].age
    BY <1>1, <2>1 DEF TypeOK, n
  <2> QED  BY <1>5, <1>6, <2>2
<1>7. DOMAIN Recent = 1..k
  BY <1>5
<1> QED  BY <1>5, <1>6, <1>7

\* Recording errors leaves the timestamps in order.
LEMMA RecordedErrors ==
  ASSUME TypeOK, NEW n \in {1, 2}, RecordErrors(n)
  PROVE  /\ errors' \in Seq(Timestamp)
         /\ \A i, j \in DOMAIN errors' : i < j => errors'[i].age >= errors'[j].age
<1> DEFINE new == [i \in 1..n |-> [age |-> 0, echo |-> i > 1]]
<1>1. new \in Seq(Timestamp) /\ Len(new) = n
  BY RouterAssumption DEF Timestamp
<1>2. \A i \in 1..n : new[i].age = 0
  OBVIOUS
<1>3. errors' = Recent \o new
  BY DEF RecordErrors
<1>4. Recent \in Seq(Timestamp)
  BY RecentType
<1> HIDE DEF new
<1>5. errors' \in Seq(Timestamp) /\ Len(errors') = Len(Recent) + n
  BY <1>1, <1>3, <1>4
<1>6. ASSUME NEW i \in DOMAIN errors', NEW j \in DOMAIN errors', i < j
      PROVE  errors'[i].age >= errors'[j].age
  <2>1. i \in Nat /\ j \in Nat /\ 1 <= i /\ j <= Len(Recent) + n
    BY <1>5
  <2>2. CASE j <= Len(Recent)
    <3>1. errors'[i] = Recent[i] /\ errors'[j] = Recent[j]
      BY <1>1, <1>3, <1>4, <1>6, <2>1, <2>2
    <3>2. i \in DOMAIN Recent /\ j \in DOMAIN Recent
      BY <1>4, <1>6, <2>1, <2>2
    <3> QED  BY <1>6, <3>1, <3>2, RecentType
  <2>3. CASE j > Len(Recent)
    <3>1. errors'[j] = new[j - Len(Recent)] /\ j - Len(Recent) \in 1..n
      BY <1>1, <1>3, <1>4, <2>1, <2>3
    <3>2. errors'[j].age = 0
      BY <1>2, <3>1
    <3>3. errors'[i].age \in Nat
      <4>1. errors'[i] \in Timestamp
        BY <1>5
      <4> QED  BY <4>1, RouterAssumption DEF Timestamp
    <3> QED  BY <3>2, <3>3
  <2> QED  BY <1>4, <2>1, <2>2, <2>3
<1> QED  BY <1>5, <1>6

\* The calls keep their type, whatever await they come back from.
LEMMA CallTypes ==
  ASSUME NEW a \in {"none", "reply", "error"},
         NEW pc \in {"pause", "gemini"}, NEW w \in 0..MinCallGap,
         NEW forced \in BOOLEAN, NEW probe \in BOOLEAN
  PROVE  /\ Over(a) \in Call
         /\ ToGroq \in Call
         /\ ToGemini(pc, w, forced, probe) \in Call
BY RouterAssumption DEF Over, ToGroq, ToGemini, CallAt, Call

LEMMA InitInv == Init => Inv
BY RouterAssumption, CallTypes
DEF Init, Inv, TypeOK, CircuitCanRecover, HalfOpenHasProbe, Over, CallAt, Timestamp

\* Up to its first await a call changes itself, the rate limit's clock and, if
\* the circuit has cooled, the circuit.
LEMMA BeginsWell ==
  ASSUME TypeOK, NEW c \in Callers,
         \/ BeginGroq(c) /\ UNCHANGED sinceCall
         \/ \E forced, probe \in BOOLEAN : BeginGemini(c, forced, probe)
  PROVE  /\ call' \in [Callers -> Call]
         /\ sinceCall' \in 0..MinCallGap
<1>1. CASE BeginGroq(c) /\ UNCHANGED sinceCall
  BY <1>1, CallTypes, RouterAssumption DEF BeginGroq, TypeOK
<1>2. ASSUME NEW forced \in BOOLEAN, NEW probe \in BOOLEAN,
             BeginGemini(c, forced, probe)
      PROVE  /\ call' \in [Callers -> Call]
             /\ sinceCall' \in 0..MinCallGap
  <2>1. 0 \in 0..MinCallGap
    BY RouterAssumption
  <2>2. CASE sinceCall < MinCallGap
    <3>1. MinCallGap - sinceCall \in 0..MinCallGap
      BY <2>2, RouterAssumption DEF TypeOK
    <3>2. ToGemini("pause", MinCallGap - sinceCall, forced, probe) \in Call
      BY <1>2, <3>1, CallTypes
    <3> QED  BY <1>2, <2>2, <3>2 DEF BeginGemini, TypeOK
  <2>3. CASE ~(sinceCall < MinCallGap)
    <3>1. ToGemini("gemini", 0, forced, probe) \in Call
      BY <1>2, <2>1, CallTypes
    <3> QED  BY <1>2, <2>1, <2>3, <3>1 DEF BeginGemini, TypeOK
  <2> QED  BY <2>2, <2>3
<1> QED  BY <1>1, <1>2

\* A call in flight that the circuit listens to.
Listened(c) == call[c].pc \in {"pause", "gemini"} /\ ~call[c].forced

LEMMA GenerateKeepsInv ==
  ASSUME Inv, NEW c \in Callers,
         Generate(c) \/ ForceGemini(c) \/ ForceGroq(c)
  PROVE  Inv'
<1> USE DEF Inv
<1>1. CASE UseGemini(c)
  <2>1. call' \in [Callers -> Call] /\ sinceCall' \in 0..MinCallGap
    BY <1>1, BeginsWell DEF UseGemini
  <2>2. /\ state' = IF state = "open" THEN "half_open" ELSE state
        /\ UNCHANGED <<openFor, errors, geminiUp>>
    BY <1>1 DEF UseGemini
  <2>3. TypeOK'
    BY <2>1, <2>2 DEF TypeOK
  <2>4. CircuitCanRecover'
    BY <2>2 DEF CircuitCanRecover
  <2>5. call'[c].pc \in {"pause", "gemini"} /\ ~call'[c].forced
    BY <1>1 DEF UseGemini, BeginGemini, ToGemini, CallAt, TypeOK
  <2> QED  BY <2>3, <2>4, <2>5 DEF HalfOpenHasProbe
<1>2. CASE SkipGemini(c) \/ ForceGroq(c)
  <2>1. call' \in [Callers -> Call] /\ UNCHANGED <<circuit, sinceCall, geminiUp>>
    BY <1>2, BeginsWell DEF SkipGemini, ForceGroq
  <2>2. call[c].pc = "idle" /\ \A b \in Callers : b # c => call'[b] = call[b]
    BY <1>2 DEF SkipGemini, ForceGroq, BeginGroq, TypeOK
  <2>3. TypeOK' /\ CircuitCanRecover'
    BY <2>1 DEF TypeOK, CircuitCanRecover, circuit
  <2> QED  BY <2>1, <2>2, <2>3 DEF HalfOpenHasProbe, circuit
<1>3. CASE ForceGemini(c)
  <2>1. call' \in [Callers -> Call] /\ sinceCall' \in 0..MinCallGap
    BY <1>3, BeginsWell DEF ForceGemini
  <2>2. call[c].pc = "idle" /\ \A b \in Callers : b # c => call'[b] = call[b]
    BY <1>3 DEF ForceGemini, BeginGemini, TypeOK
  <2>3. UNCHANGED <<circuit, geminiUp>>
    BY <1>3 DEF ForceGemini
  <2>4. TypeOK' /\ CircuitCanRecover'
    BY <2>1, <2>3 DEF TypeOK, CircuitCanRecover, circuit
  <2> QED  BY <2>2, <2>3, <2>4 DEF HalfOpenHasProbe, circuit
<1> QED  BY <1>1, <1>2, <1>3 DEF Generate

\* A reply of Gemini that counts takes the circuit out of "half_open"; nothing
\* else does.
LEMMA CallStepKeepsInv ==
  ASSUME Inv, NEW c \in Callers, CallStep(c)
  PROVE  Inv'
<1> USE DEF Inv
<1>1. CASE PauseEnds(c)
  <2>1. /\ call' = [call EXCEPT ![c].pc = "gemini"]
        /\ sinceCall' = 0
        /\ UNCHANGED <<circuit, geminiUp>>
    BY <1>1 DEF PauseEnds
  <2>2. call' \in [Callers -> Call]
    BY <2>1 DEF TypeOK, Call
  <2>3. TypeOK' /\ CircuitCanRecover'
    BY <2>1, <2>2, RouterAssumption DEF TypeOK, CircuitCanRecover, circuit
  <2>4. \A b \in Callers : Listened(b) => Listened(b)'
    BY <2>1 DEF Listened, TypeOK, Call
  <2> QED  BY <2>1, <2>3, <2>4 DEF HalfOpenHasProbe, Listened, circuit
<1>2. CASE GeminiAnswers(c)
  <2>1. /\ call' = [call EXCEPT ![c] = Over("reply")]
        /\ UNCHANGED <<sinceCall, geminiUp>>
    BY <1>2 DEF GeminiAnswers
  <2>2. call' \in [Callers -> Call]
    BY <2>1, CallTypes, RouterAssumption DEF TypeOK
  <2>3. CASE call[c].forced
    <3>1. UNCHANGED circuit
      BY <1>2, <2>3 DEF GeminiAnswers
    <3> QED  BY <2>1, <2>2, <2>3, <3>1
             DEF TypeOK, CircuitCanRecover, HalfOpenHasProbe, circuit
  <2>4. CASE ~call[c].forced
    <3>1. state' = "closed" /\ openFor' = None /\ errors' = <<>>
      BY <1>2, <2>4 DEF GeminiAnswers, RecordSuccess, CircuitCanRecover
    <3> QED  BY <2>1, <2>2, <3>1, RouterAssumption
             DEF TypeOK, CircuitCanRecover, HalfOpenHasProbe
  <2> QED  BY <2>3, <2>4
<1>3. CASE (GeminiFails(c) /\ call[c].forced) \/ GroqAnswers(c) \/ GroqFails(c)
  <2>1. /\ \E a \in {"reply", "error"} : call' = [call EXCEPT ![c] = Over(a)]
        /\ UNCHANGED <<circuit, sinceCall, geminiUp>>
        /\ call[c].pc = "groq" \/ call[c].forced
    BY <1>3 DEF GeminiFails, GroqAnswers, GroqFails
  <2>2. call' \in [Callers -> Call]
    BY <2>1, CallTypes, RouterAssumption DEF TypeOK
  <2> QED  BY <2>1, <2>2
           DEF TypeOK, CircuitCanRecover, HalfOpenHasProbe, circuit
<1>4. ASSUME NEW n \in {1, 2}, RecordErrors(n), BeginGroq(c),
             UNCHANGED <<sinceCall, geminiUp>>
      PROVE  Inv'
  <2>1. call' \in [Callers -> Call]
    BY <1>4, BeginsWell
  <2>2. /\ errors' \in Seq(Timestamp)
        /\ \A i, j \in DOMAIN errors' : i < j => errors'[i].age >= errors'[j].age
    BY <1>4, RecordedErrors
  <2>3. CASE Len(errors') >= ErrorThreshold \/ state = "half_open"
    <3>1. state' = "open" /\ openFor' = 0
      BY <1>4, <2>3 DEF RecordErrors
    <3> QED  BY <1>4, <2>1, <2>2, <3>1, RouterAssumption
             DEF TypeOK, CircuitCanRecover, HalfOpenHasProbe
  <2>4. CASE ~(Len(errors') >= ErrorThreshold \/ state = "half_open")
    <3>1. UNCHANGED <<state, openFor>>
      BY <1>4, <2>4 DEF RecordErrors
    <3>2. Len(errors') < ErrorThreshold
      BY <2>2, <2>4, RouterAssumption
    <3> QED  BY <1>4, <2>1, <2>2, <2>4, <3>1, <3>2
             DEF TypeOK, CircuitCanRecover, HalfOpenHasProbe
  <2> QED  BY <2>3, <2>4
<1>5. CASE (GeminiFails(c) /\ ~call[c].forced) \/ GeminiIsSlow(c)
  BY <1>4, <1>5 DEF GeminiFails, GeminiIsSlow
<1>6. CASE GroqLimits(c)
  <2>1. /\ call' = [call EXCEPT ![c].attempt = @ + 1]
        /\ call[c].attempt < GroqRetries
        /\ UNCHANGED <<circuit, sinceCall, geminiUp>>
    BY <1>6 DEF GroqLimits
  <2>2. call' \in [Callers -> Call]
    <3>1. call[c] \in Call
      BY DEF TypeOK
    <3>2. call[c].attempt + 1 \in 0..GroqRetries
      BY <2>1, <3>1, RouterAssumption DEF Call
    <3>3. [call[c] EXCEPT !.attempt = @ + 1] \in Call
      BY <3>1, <3>2 DEF Call
    <3> QED  BY <2>1, <3>3 DEF TypeOK
  <2>3. \A b \in Callers : Listened(b) => Listened(b)'
    BY <2>1 DEF Listened, TypeOK, Call
  <2>4. TypeOK' /\ CircuitCanRecover'
    BY <2>1, <2>2 DEF TypeOK, CircuitCanRecover, circuit
  <2> QED  BY <2>1, <2>3, <2>4 DEF HalfOpenHasProbe, Listened, circuit
<1> QED  BY <1>1, <1>2, <1>3, <1>5, <1>6 DEF CallStep

LEMMA TickKeepsInv == Inv /\ Tick => Inv'
<1> SUFFICES ASSUME Inv, Tick PROVE Inv'
  OBVIOUS
<1> USE DEF Inv
<1>1. /\ errors' \in Seq(Timestamp)
      /\ Len(errors') = Len(errors)
      /\ \A i, j \in DOMAIN errors' : i < j => errors'[i].age >= errors'[j].age
  <2>1. errors' = [i \in 1..Len(errors) |->
                     [errors[i] EXCEPT !.age = Later(@, ErrorWindow)]]
    BY DEF Tick, TypeOK
  <2>2. ASSUME NEW i \in 1..Len(errors)
        PROVE  /\ errors'[i] \in Timestamp
               /\ errors'[i].age = Later(errors[i].age, ErrorWindow)
    <3>1. errors[i] \in Timestamp
      BY DEF TypeOK
    <3>2. Later(errors[i].age, ErrorWindow) \in 0..ErrorWindow
      BY <3>1, RouterAssumption DEF Timestamp, Later
    <3> QED  BY <2>1, <3>1, <3>2 DEF Timestamp
  <2>3. errors' \in Seq(Timestamp) /\ Len(errors') = Len(errors)
    BY <2>1, <2>2 DEF TypeOK
  <2>4. ASSUME NEW i \in 1..Len(errors), NEW j \in 1..Len(errors), i < j
        PROVE  errors'[i].age >= errors'[j].age
    <3>1. errors[i] \in Timestamp /\ errors[j] \in Timestamp
          /\ errors[i].age >= errors[j].age
      BY <2>4 DEF TypeOK
    <3> QED  BY <2>2, <3>1, RouterAssumption DEF Timestamp, Later
  <2> QED  BY <2>3, <2>4
<1>2. openFor' \in 0..RecoveryInterval \union {None} /\ (openFor' = None <=> openFor = None)
  BY RouterAssumption DEF Tick, TypeOK, Later
<1>3. sinceCall' \in 0..MinCallGap
  BY RouterAssumption DEF Tick, TypeOK, Later
<1>4. call' \in [Callers -> Call] /\ \A c \in Callers : Listened(c) => Listened(c)'
  <2>1. ASSUME NEW c \in Callers
        PROVE  call'[c] \in Call /\ (Listened(c) => Listened(c)')
    <3>1. call'[c] = [call[c] EXCEPT !.wait = IF @ > 0 THEN @ - 1 ELSE 0]
      BY DEF Tick
    <3>2. call[c] \in Call
      BY DEF TypeOK
    <3>3. (IF call[c].wait > 0 THEN call[c].wait - 1 ELSE 0) \in 0..MinCallGap
      BY <3>2, RouterAssumption DEF Call
    <3> QED  BY <3>1, <3>2, <3>3 DEF Call, Listened
  <2> QED  BY <2>1 DEF Tick
<1>5. TypeOK'
  BY <1>1, <1>2, <1>3, <1>4 DEF Tick, TypeOK
<1>6. CircuitCanRecover'
  BY <1>1, <1>2 DEF Tick, CircuitCanRecover
<1> QED  BY <1>4, <1>5, <1>6 DEF Tick, HalfOpenHasProbe, Listened

LEMMA NextInv == Inv /\ [Next]_vars => Inv'
<1> SUFFICES ASSUME Inv, [Next]_vars PROVE Inv'
  OBVIOUS
<1>1. CASE GeminiChanges
  BY <1>1 DEF GeminiChanges, circuit, Inv, TypeOK, CircuitCanRecover,
              HalfOpenHasProbe
<1>2. CASE OtherRouterCalls
  <2>1. sinceCall' \in 0..MinCallGap
    BY <1>2, RouterAssumption DEF OtherRouterCalls
  <2> QED  BY <1>2, <2>1 DEF OtherRouterCalls, circuit, Inv, TypeOK,
                             CircuitCanRecover, HalfOpenHasProbe
<1>3. CASE UNCHANGED vars
  BY <1>3 DEF vars, Inv, TypeOK, CircuitCanRecover, HalfOpenHasProbe
<1> QED  BY <1>1, <1>2, <1>3, GenerateKeepsInv, CallStepKeepsInv, TickKeepsInv DEF Next

LEMMA RouterInvariant == Spec => []Inv
<1> QED  BY InitInv, NextInv, PTL DEF Spec

\* The router's variables keep their types; the timestamps stay in order, which
\* is what lets the window be cut off at the front (LLMRouter!TypeOK).
THEOREM RouterTypeCorrect == Spec => []TypeOK
<1>1. Inv => TypeOK
  BY DEF Inv
<1> QED  BY <1>1, RouterInvariant, PTL

\* Whatever the order in which concurrent replies come, the circuit never gets
\* into a state it cannot leave (LLMRouter!CircuitCanRecover).
THEOREM CircuitAlwaysRecovers == Spec => []CircuitCanRecover
<1>1. Inv => CircuitCanRecover
  BY DEF Inv
<1> QED  BY <1>1, RouterInvariant, PTL

\* Nor is it left in "half_open" with nobody to end it
\* (LLMRouter!HalfOpenHasProbe).
THEOREM HalfOpenAlwaysHasProbe == Spec => []HalfOpenHasProbe
<1>1. Inv => HalfOpenHasProbe
  BY DEF Inv
<1> QED  BY <1>1, RouterInvariant, PTL
=============================================================================
