------------------------------ MODULE TripGraph ------------------------------
(***************************************************************************)
(* One execution of the planning graph (agents/trip_graph.py) with the     *)
(* nodes it runs and the LLMRouter they share:                             *)
(*                                                                         *)
(*   orchestrator -> [research || booking] -> budget_optimizer, again when *)
(*   over budget -> itinerary_finalizer                                    *)
(*                                                                         *)
(* LangGraph runs the nodes of a superstep concurrently, and starts the    *)
(* successors of all of them when the last has returned.  The router's own *)
(* steps are those of LLMRouter, with the prompts of the nodes as callers. *)
(***************************************************************************)
EXTENDS Naturals, Sequences, FiniteSets

CONSTANTS
  ErrorThreshold, ErrorWindow, RecoveryInterval, MinCallGap, GroqRetries,
  GroqConfigured, None,
  Options,            \* the hotels and means of transport a search can find
  Dear,               \* those that cost more than half of the budget
  MaxBudgetRetries

Nodes == {"orchestrator", "research", "booking", "budget_optimizer",
          "itinerary_finalizer"}

\* What the nodes ask the LLM.  The booking node asks two things at a time.
Prompts == {"orchestrator", "research", "hotels", "transport",
            "budget_optimizer", "itinerary_finalizer"}
NodeOf(p) == IF p \in {"hotels", "transport"} THEN "booking" ELSE p

ASSUME ProvidersAssumption ==
  /\ {ErrorThreshold, ErrorWindow, RecoveryInterval} \subseteq Nat \ {0}
  /\ {MinCallGap, GroqRetries} \subseteq Nat
  /\ GroqConfigured \in BOOLEAN
  /\ None \notin Nat
ASSUME OptionsAssumption == Dear \subseteq Options
ASSUME RetriesAssumption == MaxBudgetRetries \in Nat \ {0}

VARIABLES
  state, openFor, errors, sinceCall, call, geminiUp,      \* LLMRouter's
  step,               \* the nodes of the current superstep
  ended,              \* those of them that have returned
  work,               \* how far each prompt of the superstep is
  plan,               \* TripPlanningState, as far as the graph reads it
  messages,           \* how many messages each node has added
  approved,           \* what the user has approved: {} unless the run is resumed
  outcome             \* what run_planning_background does with the result

Router == INSTANCE LLMRouter WITH Callers <- Prompts

router == <<state, openFor, errors, sinceCall, call, geminiUp>>
graph == <<step, ended, work, plan, messages, approved, outcome>>
vars == <<router, graph>>

Plan == [found : SUBSET Options, asks : BOOLEAN, within : BOOLEAN, retries : Nat]

TypeOK ==
  /\ Router!TypeOK
  /\ step \subseteq Nodes
  /\ ended \subseteq step
  /\ work \in [Prompts -> {"off", "ready", "asked", "done"}]
  /\ plan \in Plan
  /\ messages \in [Nodes -> Nat]
  /\ approved \subseteq Options
  /\ outcome \in {"running", "save", "ask", "raised"}

\* A step may begin with the prompts of its nodes.
WorkOf(nodes) == [p \in Prompts |-> IF NodeOf(p) \in nodes THEN "ready" ELSE "off"]

Init ==
  /\ Router!Init
  /\ step = {"orchestrator"}
  /\ ended = {}
  /\ work = WorkOf(step)
  /\ plan = [found |-> {}, asks |-> FALSE, within |-> TRUE, retries |-> 0]
  /\ messages = [n \in Nodes |-> 0]
  /\ approved \in {{}} \union {S \in SUBSET Options : S \intersect Dear # {}}
  /\ outcome = "running"

-----------------------------------------------------------------------------
\* The router at work.

\* A node calls generate.
Ask(p) ==
  /\ work[p] = "ready"
  /\ Router!Generate(p)
  /\ work' = [work EXCEPT ![p] = "asked"]
  /\ UNCHANGED <<step, ended, plan, messages, approved, outcome>>

\* A call goes on as long as the task of its node does.
RouterStep(p) ==
  /\ outcome = "running"
  /\ Router!CallStep(p)
  /\ UNCHANGED graph
Tick == Router!Tick /\ UNCHANGED graph
OtherRouterCalls == Router!OtherRouterCalls /\ UNCHANGED graph
GeminiChanges == Router!GeminiChanges /\ UNCHANGED graph

Answered(p) == work[p] = "asked" /\ call[p].pc = "idle"
Replied(p) == Answered(p) /\ call[p].answer = "reply"

-----------------------------------------------------------------------------
\* The nodes, once they have their answer.

Returns(n, count) ==
  /\ ended' = ended \union {n}
  /\ work' = [p \in Prompts |-> IF NodeOf(p) = n THEN "done" ELSE work[p]]
  /\ messages' = [messages EXCEPT ![n] = @ + count]
  /\ UNCHANGED <<router, step, approved, outcome>>

\* ainvoke raises what a node raises, and cancels the superstep's other node, whose
\* calls are cut off at the await they are at.
Raises ==
  /\ outcome' = "raised"
  /\ step' = {} /\ ended' = {}
  /\ work' = WorkOf({})
  /\ UNCHANGED <<router, plan, messages, approved>>

OrchestratorEnds ==
  /\ Replied("orchestrator")
  /\ Returns("orchestrator", 1)
  /\ UNCHANGED plan

\* There is no input, no answer, or none that parses to a valid request.
OrchestratorRaises ==
  /\ work["orchestrator"] = "ready" \/ Answered("orchestrator")
  /\ Raises

\* Without an answer the brief is a stock text.
ResearchEnds ==
  /\ Answered("research")
  /\ Returns("research", 1)
  /\ UNCHANGED plan

\* The context of the brief is built before it is asked for, out of preferences and
\* forecasts that need not have the form expected, and outside any try.
ResearchRaises ==
  /\ work["research"] = "ready"
  /\ Raises

\* A search ends with what the LLM found, or with stock options.  A known route
\* is not asked for.
SearchEnds(p) ==
  /\ p \in {"hotels", "transport"}
  /\ Answered(p) \/ (p = "transport" /\ work[p] = "ready")
  /\ work' = [work EXCEPT ![p] = "done"]
  /\ UNCHANGED <<router, step, ended, plan, messages, approved, outcome>>

\* MUTANT of NeedsApproval: the approval_response is not looked at.
NeedsApprovalAgain(found) == found \intersect Dear # {}

NeedsApproval(found) == approved = {} /\ found \intersect Dear # {}

\* MUTANT of BookingEnds: the first search that ends is enough.
BookingEndsEarly ==
  /\ "booking" \in step \ ended
  /\ "done" \in {work["hotels"], work["transport"]}
  /\ \E found \in SUBSET Options :
       plan' = [plan EXCEPT !.found = found, !.asks = NeedsApproval(found)]
  /\ Returns("booking", 1)

\* gather waits for both searches.
BookingEnds ==
  /\ "booking" \in step \ ended
  /\ {work["hotels"], work["transport"]} = {"done"}
  /\ \E found \in SUBSET Options :
       plan' = [plan EXCEPT !.found = found, !.asks = NeedsApproval(found)]
  /\ Returns("booking", 1)

\* A reply that does not parse is replaced by a split of the budget, whose sum
\* may exceed the budget by a rounding error.
BudgetEnds ==
  /\ Replied("budget_optimizer")
  /\ \E within \in BOOLEAN :
       plan' = [plan EXCEPT !.within = within,
                            !.retries = @ + IF within THEN 0 ELSE 1]
  /\ Returns("budget_optimizer", IF plan.retries > 0 THEN 2 ELSE 1)

\* The context of the question cannot be built, there is no answer, or it is an array.
BudgetRaises ==
  /\ work["budget_optimizer"] = "ready" \/ Answered("budget_optimizer")
  /\ Raises

\* A reply that does not parse gives a shorter itinerary, or an empty one.
FinalizerEnds ==
  /\ Replied("itinerary_finalizer")
  /\ Returns("itinerary_finalizer", 1)
  /\ UNCHANGED plan

\* The same, or an array whose elements are no objects (Itinerary).
FinalizerRaises ==
  /\ work["itinerary_finalizer"] = "ready" \/ Answered("itinerary_finalizer")
  /\ Raises

-----------------------------------------------------------------------------
\* The graph.

\* MUTANT of RouteAfterBudget: one retry too many.
RouteAfterBudgetOnceMore ==
  IF plan.within \/ plan.retries > MaxBudgetRetries
  THEN {"itinerary_finalizer"} ELSE {"budget_optimizer"}

\* _route_after_budget
RouteAfterBudget ==
  IF plan.within \/ plan.retries >= MaxBudgetRetries
  THEN {"itinerary_finalizer"} ELSE {"budget_optimizer"}

\* MUTANT of Successors: booking is also run after research, to use its result.
SuccessorsUneven(n) ==
  CASE n = "orchestrator" -> {"research", "booking"}
    [] n = "research" -> {"booking", "budget_optimizer"}
    [] n = "booking" -> {"budget_optimizer"}
    [] n = "budget_optimizer" -> RouteAfterBudget
    [] n = "itinerary_finalizer" -> {}

\* The edges, each added for itself: any one of a node's predecessors starts it.
Successors(n) ==
  CASE n = "orchestrator" -> {"research", "booking"}
    [] n \in {"research", "booking"} -> {"budget_optimizer"}
    [] n = "budget_optimizer" -> RouteAfterBudget
    [] n = "itinerary_finalizer" -> {}

\* MUTANT of NextStep: the nodes that have returned are not forgotten.
NextStepKeepsEnded ==
  /\ step # {} /\ ended = step
  /\ step' = UNION {Successors(n) : n \in step}
  /\ work' = WorkOf(step')
  /\ outcome' = IF step' # {} THEN outcome
                ELSE IF plan.asks THEN "ask" ELSE "save"
  /\ UNCHANGED <<router, ended, plan, messages, approved>>

NextStep ==
  /\ step # {} /\ ended = step
  /\ step' = UNION {Successors(n) : n \in step}
  /\ ended' = {}
  /\ work' = WorkOf(step')
  /\ outcome' = IF step' # {} THEN outcome
                ELSE IF plan.asks THEN "ask" ELSE "save"
  /\ UNCHANGED <<router, plan, messages, approved>>

-----------------------------------------------------------------------------
NodeStep ==
  \/ OrchestratorEnds \/ OrchestratorRaises
  \/ ResearchEnds \/ ResearchRaises
  \/ \E p \in Prompts : SearchEnds(p)
  \/ BookingEnds
  \/ BudgetEnds \/ BudgetRaises
  \/ FinalizerEnds \/ FinalizerRaises
  \/ NextStep

Next ==
  \/ \E p \in Prompts : Ask(p) \/ RouterStep(p)
  \/ NodeStep
  \/ Tick \/ OtherRouterCalls \/ GeminiChanges

Spec == Init /\ [][Next]_vars

\* The event loop runs every task that can go on, time passes, and the
\* providers answer or time out.
Fairness ==
  /\ \A p \in Prompts : WF_vars(Ask(p)) /\ WF_vars(RouterStep(p))
  /\ WF_vars(NodeStep)
  /\ WF_vars(Tick)

FairSpec == Spec /\ Fairness

-----------------------------------------------------------------------------
(* What must hold. *)

Over == outcome # "running"
Returned == outcome \in {"save", "ask"}

\* The two branches join: however their LLM calls overtake each other, every
\* node adds its messages once, the budget node once per round, and a pipeline
\* that returns has a message of each (agent_runs is written from them).
NodesRunOnce ==
  /\ \A n \in Nodes \ {"budget_optimizer"} : messages[n] <= 1
  /\ messages["budget_optimizer"] <= 2 * MaxBudgetRetries - 1
  /\ Returned => \A n \in Nodes : messages[n] > 0

\* The budget loop is left with a plan within the budget, or after as many
\* attempts as MAX_BUDGET_RETRIES allows.
BudgetSettles ==
  Returned => plan.within \/ plan.retries = MaxBudgetRetries

\* A pipeline that returns has no LLM call under way, however its replies were
\* ordered, and one that raises cuts off no call but booking's searches: every
\* other node that lets an error through is alone in its superstep, and research
\* does so only before it asks anything itself.
OnlySearchesAreCutOff ==
  Over => \A p \in Prompts : call[p].pc # "idle" =>
            outcome = "raised" /\ p \in {"hotels", "transport"}

\* The pipeline does what the trip's lifecycle expects of it.
Contract == INSTANCE PipelineContract WITH resumed <- approved # {}
KeepsContract == Contract!FairSpec

-----------------------------------------------------------------------------
(* What the repository says and the code does not do. *)

\* approval_service.py:15 "On approve, the graph is re-invoked with
\* approval_response injected into state; completed steps short-circuit via
\* conditional logic": what is saved is what was approved.
SavesWhatWasApproved ==
  outcome = "save" /\ approved # {} => plan.found = approved
=============================================================================
