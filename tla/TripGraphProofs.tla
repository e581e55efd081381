-------------------------- MODULE TripGraphProofs --------------------------
(***************************************************************************)
(* Theorems about TripGraph: the graph drives the router as LLMRouter has  *)
(* it driven, and its own promises hold for any options, any number of     *)
(* budget attempts and any behaviour of the LLMs.                          *)
(***************************************************************************)
EXTENDS TripGraph, TLAPS

-----------------------------------------------------------------------------
(* The inductive invariant. *)

\* The supersteps there are, and {} when the run is over.
Steps == {{"orchestrator"}, {"research", "booking"}, {"budget_optimizer"},
          {"itinerary_finalizer"}, {}}

\* The nodes of earlier supersteps, other than the budget node.
Earlier(s) ==
  CASE s = {"orchestrator"} -> {}
    [] s = {"research", "booking"} -> {"orchestrator"}
    [] s = {"budget_optimizer"} -> {"orchestrator", "research", "booking"}
    [] s = {"itinerary_finalizer"} -> {"orchestrator", "research", "booking"}
    [] OTHER -> Nodes \ {"budget_optimizer"}

Shape ==
  /\ step \in Steps
  /\ outcome \in {"running", "save", "ask", "raised"}
  /\ outcome = "running" <=> step # {}
  /\ ended \subseteq step
  /\ DOMAIN call = Prompts /\ \A p \in Prompts : "pc" \in DOMAIN call[p]
  /\ work \in [Prompts -> {"off", "ready", "asked", "done"}]
  /\ messages \in [Nodes -> Nat]
  /\ plan \in Plan

\* Only the nodes of the superstep that have not returned have anything to do, and
\* only searches are left where a run has been cut off.
AtWork ==
  \A p \in Prompts :
    /\ work[p] \in {"ready", "asked"} => NodeOf(p) \in step \ ended
    /\ call[p].pc # "idle" =>
         work[p] = "asked" \/ (outcome = "raised" /\ p \in {"hotels", "transport"})

\* A node has one message once it has returned.
OneMessage ==
  \A n \in Nodes \ {"budget_optimizer"} :
    /\ messages[n] <= 1
    /\ outcome # "raised" =>
         (messages[n] = 1 <=> n \in Earlier(step) \union ended)

\* The budget loop: what the budget node has added after so many attempts that
\* were over the budget.
OverMessages(k) == IF k = 0 THEN 0 ELSE 2 * k - 1
BudgetLoop ==
  LET k == plan.retries
      b == messages["budget_optimizer"]
      undecided == k < MaxBudgetRetries /\ b = OverMessages(k)
      within == plan.within /\ k < MaxBudgetRetries
                  /\ b = IF k = 0 THEN 1 ELSE 2 * k + 1
      over == ~plan.within /\ 1 <= k /\ k <= MaxBudgetRetries /\ b = 2 * k - 1
  IN  /\ (k = 0 /\ b = 0) \/ within \/ over
      /\ step \in {{"orchestrator"}, {"research", "booking"}} => k = 0 /\ b = 0
      /\ step = {"budget_optimizer"} =>
           IF ended = {} THEN undecided ELSE within \/ over
      /\ step = {"itinerary_finalizer"} \/ Returned =>
           within \/ (over /\ k = MaxBudgetRetries)

\* A resumed run has nothing to ask.
Consent == approved # {} => ~plan.asks /\ outcome # "ask"

Inv == Shape /\ AtWork /\ OneMessage /\ BudgetLoop /\ Consent

-----------------------------------------------------------------------------
(* The router. *)

\* Every step of the graph is a step of the router, or leaves it alone.
LEMMA RouterNext == [Next]_vars => [Router!Next]_(Router!vars)
<1> USE DEF Router!vars
<1>1. ASSUME NEW p \in Prompts, Ask(p) PROVE Router!Next
  BY <1>1 DEF Ask, Router!Next
<1>2. ASSUME NEW p \in Prompts, RouterStep(p) PROVE Router!Next
  BY <1>2 DEF RouterStep, Router!Next
<1>3. CASE NodeStep
  BY <1>3 DEF NodeStep, OrchestratorEnds, OrchestratorRaises, ResearchEnds,
     ResearchRaises, SearchEnds, BookingEnds, BudgetEnds, BudgetRaises, FinalizerEnds, FinalizerRaises, NextStep,
     Returns, Raises, router
<1>4. CASE Tick \/ OtherRouterCalls \/ GeminiChanges
  BY <1>4 DEF Tick, OtherRouterCalls, GeminiChanges, Router!Next
<1>5. CASE UNCHANGED vars
  BY <1>5 DEF vars, router
<1> QED  BY <1>1, <1>2, <1>3, <1>4, <1>5 DEF Next

\* A prompt's step touches no other prompt's call.
LEMMA CallsApart ==
  ASSUME Shape, NEW p \in Prompts, Router!Generate(p) \/ Router!CallStep(p)
  PROVE  /\ DOMAIN call' = Prompts /\ \A q \in Prompts : "pc" \in DOMAIN call'[q]
         /\ \A q \in Prompts \ {p} : call'[q] = call[q]
<1>1. ASSUME NEW x, call' = [call EXCEPT ![p] = x], "pc" \in DOMAIN x
      PROVE  /\ DOMAIN call' = Prompts /\ \A q \in Prompts : "pc" \in DOMAIN call'[q]
             /\ \A q \in Prompts \ {p} : call'[q] = call[q]
  BY <1>1 DEF Shape
<1>2. ASSUME NEW pc, NEW w, NEW forced, NEW probe, NEW answer
      PROVE  "pc" \in DOMAIN Router!CallAt(pc, w, forced, probe, answer)
  BY DEF Router!CallAt
<1>3. ASSUME Router!Generate(p)
      PROVE  \E x : call' = [call EXCEPT ![p] = x] /\ "pc" \in DOMAIN x
  <2>1. CASE \E forced, probe : Router!BeginGemini(p, forced, probe)
    BY <1>2, <2>1 DEF Router!BeginGemini, Router!ToGemini
  <2>2. CASE Router!BeginGroq(p)
    BY <1>2, <2>2 DEF Router!BeginGroq, Router!ToGroq, Router!Over
  <2> QED  BY <1>3, <2>1, <2>2 DEF Router!Generate, Router!UseGemini, Router!SkipGemini
<1>4. ASSUME Router!CallStep(p)
      PROVE  \E x : call' = [call EXCEPT ![p] = x] /\ "pc" \in DOMAIN x
  <2>1. CASE \E answer : call' = [call EXCEPT ![p] = Router!Over(answer)]
    BY <1>2, <2>1 DEF Router!Over
  <2>2. CASE Router!BeginGroq(p)
    BY <1>2, <2>2 DEF Router!BeginGroq, Router!ToGroq, Router!Over
  <2>3. CASE call' = [call EXCEPT ![p].pc = "gemini"]
    <3>1. call' = [call EXCEPT ![p] = [call[p] EXCEPT !.pc = "gemini"]]
      BY <2>3
    <3> QED  BY <3>1 DEF Shape
  <2>4. CASE call' = [call EXCEPT ![p].attempt = @ + 1]
    <3>1. call' = [call EXCEPT ![p] = [call[p] EXCEPT !.attempt = @ + 1]]
      BY <2>4
    <3> QED  BY <3>1 DEF Shape
  <2> QED  BY <1>4, <2>1, <2>2, <2>3, <2>4
           DEF Router!CallStep, Router!PauseEnds, Router!GeminiAnswers,
               Router!GeminiFails, Router!GeminiIsSlow, Router!GroqAnswers,
               Router!GroqLimits, Router!GroqFails
<1> QED  BY <1>1, <1>3, <1>4

\* Only a call under way takes a step.
LEMMA StepsUnderWay ==
  ASSUME NEW p \in Prompts, Router!CallStep(p)
  PROVE  call[p].pc # "idle"
BY DEF Router!CallStep, Router!PauseEnds, Router!GeminiAnswers,
       Router!GeminiFails, Router!GeminiIsSlow, Router!GroqAnswers,
       Router!GroqLimits, Router!GroqFails

LEMMA TickKeepsCalls ==
  ASSUME Shape, Router!Tick
  PROVE  /\ DOMAIN call' = Prompts /\ \A q \in Prompts : "pc" \in DOMAIN call'[q]
         /\ \A q \in Prompts : call'[q].pc = call[q].pc
<1>1. DOMAIN call' = Prompts
  BY DEF Router!Tick
<1>2. ASSUME NEW q \in Prompts
      PROVE  "pc" \in DOMAIN call'[q] /\ call'[q].pc = call[q].pc
  <2>1. \E w : call'[q] = [call[q] EXCEPT !.wait = w]
    BY DEF Router!Tick
  <2> QED  BY <2>1 DEF Shape
<1> QED  BY <1>1, <1>2

LEMMA RouterKeepsInv ==
  ASSUME Inv, NEW p \in Prompts, 
         Ask(p) \/ RouterStep(p) \/ Tick \/ OtherRouterCalls \/ GeminiChanges
  PROVE  Inv'
<1>1. UNCHANGED <<step, ended, plan, messages, approved, outcome>>
  BY DEF Ask, RouterStep, Tick, OtherRouterCalls, GeminiChanges, graph
<1>2. Shape' /\ AtWork'
  <2>1. CASE Ask(p)
    <3>1. /\ DOMAIN call' = Prompts /\ \A q \in Prompts : "pc" \in DOMAIN call'[q]
          /\ \A q \in Prompts \ {p} : call'[q] = call[q]
      BY <2>1, CallsApart DEF Ask, Inv
    <3> QED  BY <1>1, <2>1, <3>1 DEF Ask, Inv, Shape, AtWork
  <2>2. CASE RouterStep(p)
    <3>1. /\ DOMAIN call' = Prompts /\ \A q \in Prompts : "pc" \in DOMAIN call'[q]
          /\ \A q \in Prompts \ {p} : call'[q] = call[q]
      BY <2>2, CallsApart DEF RouterStep, Inv
    <3>2. call[p].pc # "idle"
      BY <2>2, StepsUnderWay DEF RouterStep
    <3> QED  BY <1>1, <2>2, <3>1, <3>2 DEF RouterStep, graph, Inv, Shape, AtWork
  <2>3. CASE Tick
    <3>1. /\ DOMAIN call' = Prompts /\ \A q \in Prompts : "pc" \in DOMAIN call'[q]
          /\ \A q \in Prompts : call'[q].pc = call[q].pc
      BY <2>3, TickKeepsCalls DEF Tick, Inv
    <3> QED  BY <1>1, <2>3, <3>1 DEF Tick, graph, Inv, Shape, AtWork
  <2>4. CASE OtherRouterCalls \/ GeminiChanges
    BY <1>1, <2>4 DEF OtherRouterCalls, Router!OtherRouterCalls, GeminiChanges,
       Router!GeminiChanges, graph, Inv, Shape, AtWork
  <2> QED  BY <2>1, <2>2, <2>3, <2>4
<1>3. OneMessage' /\ BudgetLoop' /\ Consent'
  BY <1>1 DEF Inv, OneMessage, BudgetLoop, Consent, Returned
<1> QED  BY <1>2, <1>3 DEF Inv

-----------------------------------------------------------------------------
(* The nodes. *)

\* The other nodes than research and booking are alone in their supersteps.
LEMMA Alone ==
  ASSUME Inv, NEW p \in {"orchestrator", "budget_optimizer", "itinerary_finalizer"},
         work[p] \in {"ready", "asked"}
  PROVE  step = {p} /\ ended = {}
<1>1. NodeOf(p) = p /\ p \in Prompts
  BY DEF NodeOf, Prompts
<1>2. p \in step \ ended
  BY <1>1 DEF Inv, AtWork
<1>3. step = {p}
  BY <1>2 DEF Inv, Shape, Steps
<1> QED  BY <1>2, <1>3 DEF Inv, Shape

LEMMA Branches ==
  ASSUME Inv, NEW n \in {"research", "booking"}, n \in step
  PROVE  step = {"research", "booking"}
BY DEF Inv, Shape, Steps

\* A node that is alone and raises has no call under way.
LEMMA AloneIsIdle ==
  ASSUME Inv, NEW p \in {"orchestrator", "budget_optimizer", "itinerary_finalizer"},
         work[p] = "ready" \/ Answered(p)
  PROVE  outcome = "running" /\ \A q \in Prompts : call[q].pc = "idle"
<1>1. step = {p} /\ p \in Prompts
  BY Alone DEF Answered, Prompts
<1>2. outcome = "running"
  BY <1>1 DEF Inv, Shape
<1>3. \A q \in Prompts \ {p} : work[q] # "asked"
  BY <1>1 DEF Inv, AtWork, NodeOf, Prompts
<1>4. \A q \in Prompts : call[q].pc # "idle" => work[q] = "asked"
  BY <1>2 DEF Inv, AtWork
<1> QED  BY <1>1, <1>2, <1>3, <1>4 DEF Answered

\* Research raises before it asks, while the searches may be under way.
LEMMA ResearchIsIdle ==
  ASSUME Inv, ResearchRaises
  PROVE  /\ outcome = "running"
         /\ \A q \in Prompts : call[q].pc # "idle" => q \in {"hotels", "transport"}
<1>1. "research" \in step
  BY DEF ResearchRaises, Inv, AtWork, Prompts, NodeOf
<1>2. step = {"research", "booking"}
  BY <1>1, Branches
<1>3. outcome = "running"
  BY <1>2 DEF Inv, Shape
<1>4. ASSUME NEW q \in Prompts, call[q].pc # "idle"
      PROVE  q \in {"hotels", "transport"}
  <2>1. work[q] = "asked" /\ NodeOf(q) \in step
    BY <1>3, <1>4 DEF Inv, AtWork
  <2>2. q # "research"
    BY <2>1 DEF ResearchRaises
  <2> QED  BY <1>2, <2>1, <2>2 DEF NodeOf, Prompts
<1> QED  BY <1>3, <1>4

LEMMA RaisesKeepsInv ==
  ASSUME Inv, Raises, outcome = "running",
         \A q \in Prompts : call[q].pc # "idle" => q \in {"hotels", "transport"}
  PROVE  Inv'
<1>1. Shape'
  BY DEF Raises, WorkOf, router, Inv, Shape, Steps
<1>2. AtWork'
  BY DEF Raises, WorkOf, router, AtWork
<1>3. OneMessage' /\ BudgetLoop' /\ Consent'
  BY DEF Raises, Inv, OneMessage, BudgetLoop, Consent, Returned
<1> QED  BY <1>1, <1>2, <1>3 DEF Inv

LEMMA ReturnsKeepsShape ==
  ASSUME Inv, NEW n \in step \ ended, NEW count \in Nat, Returns(n, count),
         plan' \in Plan, \A p \in Prompts : NodeOf(p) = n => call[p].pc = "idle"
  PROVE  Shape' /\ AtWork'
<1>1. n \in Nodes
  BY DEF Inv, Shape, Steps, Nodes
<1>2. Shape'
  BY <1>1 DEF Returns, router, Inv, Shape
<1>3. AtWork'
  BY <1>2 DEF Returns, router, Inv, Shape, AtWork
<1> QED  BY <1>2, <1>3

\* The nodes other than the budget node.
LEMMA ReturnsKeepsInv ==
  ASSUME Inv, NEW n \in Nodes \ {"budget_optimizer"}, n \in step \ ended,
         Returns(n, 1), plan' \in Plan,
         plan'.within = plan.within /\ plan'.retries = plan.retries,
         approved # {} => ~plan'.asks,
         \A p \in Prompts : NodeOf(p) = n => call[p].pc = "idle"
  PROVE  Inv'
<1>1. Shape' /\ AtWork'
  BY ReturnsKeepsShape
<1>2. OneMessage'
  BY DEF Returns, Inv, Shape, OneMessage, Earlier, Steps
<1>3. BudgetLoop' /\ Consent'
  BY DEF Returns, Inv, Shape, Steps, BudgetLoop, Consent, Returned
<1> QED  BY <1>1, <1>2, <1>3 DEF Inv

LEMMA BudgetKeepsInv ==
  ASSUME Inv, BudgetEnds
  PROVE  Inv'
<1>1. step = {"budget_optimizer"} /\ ended = {}
  BY Alone DEF BudgetEnds, Replied, Answered
<1>2. PICK within \in BOOLEAN :
        plan' = [plan EXCEPT !.within = within,
                             !.retries = @ + IF within THEN 0 ELSE 1]
  BY DEF BudgetEnds
<1>3. plan \in Plan /\ plan.retries \in Nat /\ messages \in [Nodes -> Nat]
  BY DEF Inv, Shape, Plan
<1>4. /\ plan' \in Plan
      /\ plan'.within = within
      /\ plan'.retries = IF within THEN plan.retries ELSE plan.retries + 1
      /\ plan'.asks = plan.asks
  <2> DEFINE k == plan.retries + IF within THEN 0 ELSE 1
  <2>1. plan' = [[plan EXCEPT !.within = within] EXCEPT !.retries = k]
    BY <1>2
  <2>2. k \in Nat /\ k = IF within THEN plan.retries ELSE plan.retries + 1
    BY <1>3
  <2> HIDE DEF k
  <2> QED  BY <1>3, <2>1, <2>2 DEF Plan
<1>5. Returns("budget_optimizer", IF plan.retries > 0 THEN 2 ELSE 1)
  BY DEF BudgetEnds
<1>6. Shape' /\ AtWork'
  <2>1. \A p \in Prompts : NodeOf(p) = "budget_optimizer" => call[p].pc = "idle"
    BY DEF BudgetEnds, Replied, Answered, NodeOf, Prompts
  <2> QED  BY <1>1, <1>3, <1>4, <1>5, <2>1, ReturnsKeepsShape
<1>7. OneMessage' /\ Consent'
  BY <1>1, <1>3, <1>4, <1>5 DEF Returns, Inv, OneMessage, Consent
<1>8. BudgetLoop'
  <2>1. /\ step' = {"budget_optimizer"} /\ ended' # {} /\ outcome' = "running"
        /\ messages'["budget_optimizer"] =
             messages["budget_optimizer"] + IF plan.retries > 0 THEN 2 ELSE 1
    BY <1>1, <1>3, <1>5 DEF Returns, Inv, Shape, Nodes
  <2>2. /\ plan.retries < MaxBudgetRetries
        /\ messages["budget_optimizer"] = OverMessages(plan.retries)
    BY <1>1 DEF Inv, BudgetLoop
  <2>3. messages'["budget_optimizer"] =
          IF plan.retries = 0 THEN 1 ELSE 2 * plan.retries + 1
    BY <1>3, <2>1, <2>2 DEF OverMessages
  <2>4. CASE within
    <3>1. plan'.within /\ plan'.retries = plan.retries
      BY <1>4, <2>4
    <3> QED  BY <1>3, <2>1, <2>2, <2>3, <3>1 DEF BudgetLoop, Returned
  <2>5. CASE ~within
    <3>1. ~plan'.within /\ plan'.retries = plan.retries + 1
      BY <1>4, <2>5
    <3>2. messages'["budget_optimizer"] = 2 * plan'.retries - 1
      BY <1>3, <2>3, <3>1
    <3>3. 1 <= plan'.retries /\ plan'.retries <= MaxBudgetRetries
      BY <1>3, <2>2, <3>1, RetriesAssumption
    <3> QED  BY <1>3, <2>1, <3>1, <3>2, <3>3 DEF BudgetLoop, Returned
  <2> QED  BY <2>4, <2>5
<1> QED  BY <1>6, <1>7, <1>8 DEF Inv

LEMMA NextStepKeepsInv ==
  ASSUME Inv, NextStep
  PROVE  Inv'
<1>1. /\ step \in Steps \ {{}} /\ ended = step /\ ended' = {}
      /\ UNCHANGED <<router, plan, messages, approved>>
  BY DEF NextStep, Inv, Shape
<1>2. \A p \in Prompts : call[p].pc = "idle"
  BY <1>1 DEF Inv, Shape, AtWork
<1>3. /\ step = {"orchestrator"} => step' = {"research", "booking"}
      /\ step = {"research", "booking"} => step' = {"budget_optimizer"}
      /\ step = {"budget_optimizer"} => step' = RouteAfterBudget
      /\ step = {"itinerary_finalizer"} => step' = {}
  BY DEF NextStep, Successors
<1>4. RouteAfterBudget \in {{"budget_optimizer"}, {"itinerary_finalizer"}}
  BY DEF RouteAfterBudget
<1>5. step' \in Steps
  BY <1>1, <1>3, <1>4 DEF Steps
<1>6. outcome' \in {"running", "save", "ask"} /\ (outcome' = "running" <=> step' # {})
      /\ (outcome' = "ask" => plan.asks)
  BY <1>1 DEF NextStep, Inv, Shape
<1>7. Shape' /\ AtWork'
  <2>1. Shape'
    BY <1>1, <1>5, <1>6 DEF NextStep, WorkOf, router, Inv, Shape
  <2> QED  BY <1>1, <1>2, <2>1 DEF NextStep, WorkOf, router, AtWork
<1>8. OneMessage' /\ Consent'
  <2>1. Earlier(step') \union ended' = Earlier(step) \union (ended \ {"budget_optimizer"})
    BY <1>1, <1>3, <1>4 DEF Earlier, Steps, Nodes
  <2> QED  BY <1>1, <1>6, <2>1 DEF Inv, Shape, OneMessage, Consent
<1>9. BudgetLoop'
  BY <1>1, <1>3, <1>4, <1>5, <1>6, RetriesAssumption
  DEF Inv, Shape, Plan, Steps, BudgetLoop, OverMessages, RouteAfterBudget, Returned
<1> QED  BY <1>7, <1>8, <1>9 DEF Inv

-----------------------------------------------------------------------------
(* The invariant holds. *)

LEMMA InitInv == Init => Inv
<1> SUFFICES ASSUME Init PROVE Inv
  OBVIOUS
<1>1. Shape
  <2>1. DOMAIN call = Prompts /\ \A p \in Prompts : "pc" \in DOMAIN call[p]
    BY DEF Init, Router!Init, Router!Over, Router!CallAt
  <2> QED  BY <2>1 DEF Init, Shape, Steps, WorkOf, Plan
<1>2. AtWork
  BY DEF Init, Router!Init, Router!Over, Router!CallAt, WorkOf, AtWork
<1>3. OneMessage /\ BudgetLoop /\ Consent
  BY RetriesAssumption
  DEF Init, OneMessage, BudgetLoop, Consent, Earlier, Nodes, OverMessages, Returned
<1> QED  BY <1>1, <1>2, <1>3 DEF Inv

LEMMA NextInv == Inv /\ [Next]_vars => Inv'
<1> SUFFICES ASSUME Inv, [Next]_vars PROVE Inv'
  OBVIOUS
<1> USE DEF Prompts, NodeOf, Nodes
<1>1. ASSUME NEW p \in Prompts,
             Ask(p) \/ RouterStep(p) \/ Tick \/ OtherRouterCalls \/ GeminiChanges
      PROVE  Inv'
  BY <1>1, RouterKeepsInv
<1>2. CASE OrchestratorEnds
  <2>1. step = {"orchestrator"} /\ ended = {}
    BY <1>2, Alone DEF OrchestratorEnds, Replied, Answered
  <2> QED  BY <1>2, <2>1, ReturnsKeepsInv
           DEF OrchestratorEnds, Replied, Answered, Inv, Shape, Consent
<1>3. CASE OrchestratorRaises
  BY <1>3, AloneIsIdle, RaisesKeepsInv DEF OrchestratorRaises
<1>4. CASE ResearchEnds
  <2>1. "research" \in step \ ended
    BY <1>4 DEF ResearchEnds, Answered, Inv, AtWork
  <2> QED  BY <1>4, <2>1, ReturnsKeepsInv
           DEF ResearchEnds, Answered, Inv, Shape, Consent
<1>13. CASE ResearchRaises
  BY <1>13, ResearchIsIdle, RaisesKeepsInv DEF ResearchRaises
<1>5. ASSUME NEW p \in Prompts, SearchEnds(p) PROVE Inv'
  <2>1. Shape'
    BY <1>5 DEF SearchEnds, router, Inv, Shape
  <2>2. AtWork'
    BY <1>5, <2>1 DEF SearchEnds, Answered, router, Inv, Shape, AtWork
  <2>3. OneMessage' /\ BudgetLoop' /\ Consent'
    BY <1>5 DEF SearchEnds, Inv, OneMessage, BudgetLoop, Consent, Returned
  <2> QED  BY <2>1, <2>2, <2>3 DEF Inv
<1>6. CASE BookingEnds
  <2>1. PICK found \in SUBSET Options :
          plan' = [plan EXCEPT !.found = found, !.asks = NeedsApproval(found)]
    BY <1>6 DEF BookingEnds
  <2>2. NeedsApproval(found) \in BOOLEAN /\ (approved # {} => ~NeedsApproval(found))
    BY DEF NeedsApproval
  <2> DEFINE need == NeedsApproval(found)
  <2> HIDE DEF need
  <2>3. /\ plan' \in Plan /\ plan'.asks = need
        /\ plan'.within = plan.within /\ plan'.retries = plan.retries
    BY <2>1, <2>2 DEF need, Inv, Shape, Plan
  <2>4. call["hotels"].pc = "idle" /\ call["transport"].pc = "idle"
    BY <1>6 DEF BookingEnds, Inv, Shape, AtWork
  <2>5. "booking" \in step \ ended /\ Returns("booking", 1)
    BY <1>6 DEF BookingEnds
  <2> QED  BY <2>2, <2>3, <2>4, <2>5, ReturnsKeepsInv DEF need
<1>7. CASE BudgetEnds
  BY <1>7, BudgetKeepsInv
<1>8. CASE BudgetRaises
  BY <1>8, AloneIsIdle, RaisesKeepsInv DEF BudgetRaises
<1>9. CASE FinalizerEnds
  <2>1. step = {"itinerary_finalizer"} /\ ended = {}
    BY <1>9, Alone DEF FinalizerEnds, Replied, Answered
  <2> QED  BY <1>9, <2>1, ReturnsKeepsInv
           DEF FinalizerEnds, Replied, Answered, Inv, Shape, Consent
<1>10. CASE FinalizerRaises
  BY <1>10, AloneIsIdle, RaisesKeepsInv DEF FinalizerRaises
<1>11. CASE NextStep
  BY <1>11, NextStepKeepsInv
<1>12. CASE UNCHANGED vars
  BY <1>12 DEF vars, router, graph, Inv, Shape, AtWork, OneMessage, BudgetLoop,
               Consent, Returned
<1> QED
  BY <1>1, <1>2, <1>3, <1>4, <1>5, <1>6, <1>7, <1>8, <1>9, <1>10, <1>11, <1>12, <1>13
  DEF Next, NodeStep

LEMMA GraphInvariant == Spec => []Inv
<1> QED  BY InitInv, NextInv, PTL DEF Spec

\* What the user has approved does not change during a run.
LEMMA ApprovalKept == [Next]_vars => UNCHANGED approved
BY DEF Next, Ask, RouterStep, NodeStep, Tick, OtherRouterCalls, GeminiChanges,
       OrchestratorEnds, OrchestratorRaises, ResearchEnds, ResearchRaises, SearchEnds,
       BookingEnds, BudgetEnds, BudgetRaises, FinalizerEnds, FinalizerRaises, NextStep, Returns,
       Raises, graph, vars

-----------------------------------------------------------------------------
(* The router's theorems. *)

RouterProofs == INSTANCE LLMRouterProofs WITH Callers <- Prompts

\* The two instances of LLMRouter, TripGraph's and that of its theorems, are one.
LEMMA SameRouter == Router!Next => RouterProofs!Next
<1> USE DEF Router!circuit, RouterProofs!circuit, Router!Over, RouterProofs!Over,
            Router!CallAt, RouterProofs!CallAt
<1>1. ASSUME NEW n PROVE Router!RecordErrors(n) = RouterProofs!RecordErrors(n)
  <2>1. Router!Recent = RouterProofs!Recent
    <3>1. Router!InWindow = RouterProofs!InWindow
      BY DEF Router!InWindow, RouterProofs!InWindow
    <3> QED  BY <3>1
       DEF Router!Recent, RouterProofs!Recent, Router!Cardinality,
           RouterProofs!Cardinality
  <2> QED  BY <2>1 DEF Router!RecordErrors, RouterProofs!RecordErrors
<1>2. ASSUME NEW p PROVE Router!BeginGroq(p) = RouterProofs!BeginGroq(p)
  BY DEF Router!BeginGroq, RouterProofs!BeginGroq, Router!ToGroq,
         RouterProofs!ToGroq
<1>3. ASSUME NEW p, NEW forced, NEW probe
      PROVE  Router!BeginGemini(p, forced, probe) =
               RouterProofs!BeginGemini(p, forced, probe)
  BY DEF Router!BeginGemini, RouterProofs!BeginGemini, Router!ToGemini,
         RouterProofs!ToGemini
<1>4. Router!ShouldUseGemini = RouterProofs!ShouldUseGemini
  BY DEF Router!ShouldUseGemini, RouterProofs!ShouldUseGemini, Router!Cooled,
         RouterProofs!Cooled
<1>5. ASSUME NEW p \in Prompts, Router!Generate(p) PROVE RouterProofs!Generate(p)
  BY <1>2, <1>3, <1>4, <1>5
     DEF Router!Generate, RouterProofs!Generate, Router!UseGemini,
     RouterProofs!UseGemini, Router!SkipGemini, RouterProofs!SkipGemini
<1>6. Router!OtherRouterCalls => RouterProofs!OtherRouterCalls
  BY DEF Router!OtherRouterCalls, RouterProofs!OtherRouterCalls
<1>7. Router!GeminiChanges => RouterProofs!GeminiChanges
  BY DEF Router!GeminiChanges, RouterProofs!GeminiChanges
<1>8. Router!Tick => RouterProofs!Tick
  BY DEF Router!Tick, RouterProofs!Tick, Router!Later, RouterProofs!Later
<1>9. ASSUME NEW p \in Prompts, Router!CallStep(p) PROVE RouterProofs!CallStep(p)
  <2>1. Router!PauseEnds(p) => RouterProofs!PauseEnds(p)
    BY DEF Router!PauseEnds, RouterProofs!PauseEnds
  <2>2. Router!GeminiAnswers(p) => RouterProofs!GeminiAnswers(p)
    BY DEF Router!GeminiAnswers, RouterProofs!GeminiAnswers,
           Router!RecordSuccess, RouterProofs!RecordSuccess
  <2>3. Router!GeminiFails(p) => RouterProofs!GeminiFails(p)
    BY <1>1, <1>2 DEF Router!GeminiFails, RouterProofs!GeminiFails
  <2>4. Router!GeminiIsSlow(p) => RouterProofs!GeminiIsSlow(p)
    BY <1>1, <1>2 DEF Router!GeminiIsSlow, RouterProofs!GeminiIsSlow
  <2>5. Router!GroqAnswers(p) => RouterProofs!GroqAnswers(p)
    BY DEF Router!GroqAnswers, RouterProofs!GroqAnswers
  <2>6. Router!GroqLimits(p) => RouterProofs!GroqLimits(p)
    BY DEF Router!GroqLimits, RouterProofs!GroqLimits
  <2>7. Router!GroqFails(p) => RouterProofs!GroqFails(p)
    BY DEF Router!GroqFails, RouterProofs!GroqFails
  <2> QED  BY <1>9, <2>1, <2>2, <2>3, <2>4, <2>5, <2>6, <2>7
     DEF Router!CallStep, RouterProofs!CallStep
<1>10. ASSUME NEW p \in Prompts, Router!ForceGemini(p) \/ Router!ForceGroq(p)
       PROVE RouterProofs!ForceGemini(p) \/ RouterProofs!ForceGroq(p)
  BY <1>10, <1>2, <1>3
     DEF Router!ForceGemini, RouterProofs!ForceGemini, Router!ForceGroq,
         RouterProofs!ForceGroq
<1> QED  BY <1>5, <1>6, <1>7, <1>8, <1>9, <1>10 DEF Router!Next, RouterProofs!Next

-----------------------------------------------------------------------------
(* The theorems. *)

\* A pipeline drives its router as LLMRouter says a router is driven, so that
\* what LLMRouterProofs proves of every router holds in every pipeline.
THEOREM RunsThroughRouter == Spec => Router!Spec
<1>1. Init => Router!Init
  BY DEF Init
<1> QED  BY <1>1, RouterNext, PTL DEF Spec, Router!Spec

\* Every variable keeps its type: the router's by its own theorem, the graph's by
\* the invariant (TripGraph!TypeOK).
THEOREM GraphTypeCorrect == Spec => []TypeOK
<1>1. Router!Init => RouterProofs!Init
  BY DEF Router!Init, RouterProofs!Init, Router!Over, RouterProofs!Over,
         Router!CallAt, RouterProofs!CallAt
<1>2. [Router!Next]_(Router!vars) => [RouterProofs!Next]_(RouterProofs!vars)
  BY SameRouter DEF Router!vars, RouterProofs!vars
<1>3. RouterProofs!Spec => []RouterProofs!TypeOK
  BY RouterProofs!RouterTypeCorrect, ProvidersAssumption, PTL
<1>4. RouterProofs!TypeOK => Router!TypeOK
  BY DEF Router!TypeOK, Router!Call, Router!Timestamp,
         RouterProofs!TypeOK, RouterProofs!Call, RouterProofs!Timestamp
<1>5. Spec => []Router!TypeOK
  BY <1>1, <1>2, <1>3, <1>4, RunsThroughRouter, PTL DEF Router!Spec, RouterProofs!Spec
<1>6. Init => approved \subseteq Options
  BY DEF Init
<1>7. approved \subseteq Options /\ [Next]_vars => (approved \subseteq Options)'
  BY ApprovalKept
<1>8. Inv /\ Router!TypeOK /\ approved \subseteq Options => TypeOK
  BY DEF Inv, Shape, Steps, Nodes, TypeOK
<1> QED  BY <1>5, <1>6, <1>7, <1>8, GraphInvariant, PTL DEF Spec

\* For any options and any bound of the budget loop, every node adds its
\* messages once and a pipeline that returns has some of each.
THEOREM NodesAlwaysRunOnce == Spec => []NodesRunOnce
<1>1. ASSUME Inv PROVE NodesRunOnce
  <2>1. \A n \in Nodes \ {"budget_optimizer"} : messages[n] <= 1
    BY <1>1 DEF Inv, OneMessage
  <2>2. messages["budget_optimizer"] <= 2 * MaxBudgetRetries - 1
    BY <1>1, RetriesAssumption DEF Inv, Shape, Plan, BudgetLoop, Nodes
  <2>3. ASSUME Returned PROVE \A n \in Nodes : messages[n] > 0
    <3>1. step = {} /\ outcome # "raised"
      BY <1>1, <2>3 DEF Returned, Inv, Shape
    <3>2. \A n \in Nodes \ {"budget_optimizer"} : messages[n] = 1
      BY <1>1, <3>1 DEF Inv, OneMessage, Earlier, Nodes
    <3>3. messages["budget_optimizer"] > 0
      BY <1>1, <2>3, RetriesAssumption DEF Inv, Shape, Plan, BudgetLoop, Nodes
    <3> QED  BY <3>2, <3>3
  <2> QED  BY <2>1, <2>2, <2>3 DEF NodesRunOnce
<1> QED  BY <1>1, GraphInvariant, PTL

\* The budget loop is left within the budget or after exactly MaxBudgetRetries
\* attempts, whatever the bound.
THEOREM BudgetAlwaysSettles == Spec => []BudgetSettles
<1>1. Inv => BudgetSettles
  BY DEF Inv, BudgetLoop, BudgetSettles
<1> QED  BY <1>1, GraphInvariant, PTL

\* No LLM call is under way when a run has returned, and when one has raised none but
\* booking's searches, which research cuts off when it raises
\* (OnlySearchesAreCutOff; research_node, booking_node and ainvoke).
THEOREM CutOffsAreSearches == Spec => []OnlySearchesAreCutOff
<1>1. Inv => OnlySearchesAreCutOff
  <2> SUFFICES ASSUME Inv, Over, NEW p \in Prompts, call[p].pc # "idle"
               PROVE  outcome = "raised" /\ p \in {"hotels", "transport"}
    BY DEF OnlySearchesAreCutOff
  <2>1. work[p] # "asked"
    BY DEF Inv, Shape, AtWork, Over
  <2> QED  BY <2>1 DEF Inv, AtWork
<1> QED  BY <1>1, GraphInvariant, PTL

\* The pipeline does nothing that TripLifecycle does not expect of it: the
\* safety part of KeepsContract.
THEOREM ContractKept == Spec => Contract!Spec
<1>1. Init => Contract!Init
  BY DEF Init, Contract!Init
<1>2. Inv /\ Inv' /\ [Next]_vars => [Contract!Next]_(Contract!vars)
  <2> SUFFICES ASSUME Inv, Inv', [Next]_vars
               PROVE  [Contract!Next]_(Contract!vars)
    OBVIOUS
  <2>1. UNCHANGED approved
    BY ApprovalKept
  <2>2. outcome' = outcome \/ outcome = "running"
    <3>1. CASE outcome = "running"
      BY <3>1
    <3>2. CASE outcome # "running"
      <4>1. step = {} /\ \A p \in Prompts : work[p] \notin {"ready", "asked"}
        BY <3>2 DEF Inv, Shape, AtWork
      <4> QED
        BY <4>1 DEF Next, Ask, RouterStep, NodeStep, Tick, OtherRouterCalls,
           GeminiChanges, OrchestratorEnds, OrchestratorRaises, ResearchEnds,
           ResearchRaises, SearchEnds, BookingEnds, BudgetEnds, BudgetRaises, FinalizerEnds, FinalizerRaises,
           NextStep, Replied, Answered, Returns, graph, vars, Prompts
    <3> QED  BY <3>1, <3>2
  <2>3. outcome' \in {"running", "save", "ask", "raised"}
        /\ (approved # {} => outcome' # "ask")
    BY <2>1 DEF Inv, Shape, Consent
  <2> QED  BY <2>1, <2>2, <2>3
           DEF Contract!Next, Contract!Return, Contract!Raise, Contract!vars
<1> QED  BY <1>1, <1>2, GraphInvariant, PTL DEF Spec, Contract!Spec

=============================================================================
