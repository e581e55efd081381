# Verification of the travel-planning orchestrator

TLA+ models of the Parikrama travel planner (`src/apps/backend`,
`src/apps/worker`), the TLC configurations that check them on small instances,
and TLAPS proofs of their main invariants. Paths below are relative to
`src/apps/backend/src/parikrama/` unless they start with `worker/`, which stands
for `src/apps/worker/src/parikrama_worker/`.

To check: `tlc -workers 2 -config <cfg> <module>` for each run of
`PROJECT.json`, `tlapm <module>.tla` for the modules of section 6.

## 1. The system

A FastAPI process serves the trips of its users. Planning a trip runs a
LangGraph pipeline of LLM-backed agents as a background task of the same
process; a plan with expensive options stops at a human approval gate; a Celery
task is to expire the approvals nobody answers, another one processes uploaded
documents. What they share is in PostgreSQL. As the repository wires its worker,
neither task is ever run (section 5, finding 3).

| Component | State | Operations | Meets others through |
|---|---|---|---|
| Trips API (`api/v1/trips.py`, `services/trip_service.py`) | `trips` row: status, itinerary | create, read, cancel | the trip's row |
| Planning endpoint (`api/v1/trip_planning.py`) | the request's session | plan: reset a settled trip, dispatch a run | the row; starts the planner as a BackgroundTask |
| Background planner (`services/async_planner.py`) | none but its sessions | mark `planning`, run the graph, persist or open an approval, record a failure | trip and approval rows; the graph |
| Approvals (`services/approval_service.py`, `api/v1/approvals.py`) | `approval_requests` row: status, deadline | create, approve, reject | both rows; starts a resumed run |
| Approval sweep (`worker/tasks/cleanup_tasks.py`) | none | expire overdue approvals and cancel their trips | both rows |
| Sessions (`db/session.py`, `dependencies.py`) | identity map, open transaction | `get_db`: commit after the response, roll back on an error | row locks |
| Planning graph (`agents/trip_graph.py` and the agents) | `TripPlanningState` | five nodes, a fan-out, a join, a budget loop | the router |
| LLM router (`llm/router.py`, `llm/providers/`) | circuit, error timestamps, time of the last call | `generate` with fallback, rate limit, retries | concurrent callers in one event loop |
| WebSocket manager (`api/websocket/`) | sockets per user | connect, disconnect, broadcast | an endpoint per socket; planners and approvals broadcast |
| Notifications (`services/notification_service.py`) | `notifications` rows | send over WebSocket, e-mail and push | inside `create_approval`, in the planner's transaction |
| Document pipeline (`services/document_service.py`, `worker/tasks/document_tasks.py`) | `documents` and `document_chunks` rows, the MinIO object, Celery's retry count | upload, process, delete | API and worker share the rows and the object |
| RAG search (`services/rag_service.py`, `rag/`) | none | search: two queries, fusion, reranking | reads the chunks |
| Voice sessions and pipeline (`api/v1/voice.py`, `services/voice_session_service.py`, `voice/`) | session table, audio queue; per socket speech buffer, response flag, cancel event | create, stream, end; speech, transcription, response, interruption | the sockets of a session replace each other; user and speech engines |
| Agents' tools (`agents/tools/`, `agents/booking_agent.py`, `agents/final_itinerary_agent.py`) | none | hotels, transport, web, weather, places; the finalizer's repair of the model's answer | called by the graph's nodes |
| Chat, auth, single agents, schemas, front end | none that outlives a request | | |

### What is hard about it, and what makes each part right

* **Trip lifecycle.** Five kinds of process write `trips.status`, each from a
  value it has read earlier; the ORM sends the write only if the value differs
  from what the session *loaded*, `update(Trip)` always sends it. Requests, runs
  and sweep take the trip's and the approval's lock in different orders. A run
  is only in memory, so a restart loses it between any two commits. Right
  means: a status that says somebody is at work, or that somebody is asked, is
  true; a decision is never committed without its effect; everything ends.
* **Sessions.** `get_db` commits when the request's dependency is closed. In the
  FastAPI version the backend runs (0.136) this is after the response *and*
  after its background task (`src/apps/logs/parikrama.log` shows the commits in
  that order), so the plan request keeps its row locked while its own run is
  at work.
* **Router.** Replies of calls sent in one state of the circuit arrive in
  another. Right means: the circuit has a way out of every state, and takes it.
* **Graph.** Two branches join on a node that each of them would start; three
  LLM calls are under way while any of them may fail; a loop is bounded by a
  counter another function increments. Right means: each node runs as often as
  it should, the loop is left with a plan that fits or after its bound, a run that
  fails cuts off no call but those it must, and the planner gets one of the
  results it provides for.
* **Broadcasts.** A broadcast copies the user's sockets and writes to them one
  await at a time, while sockets come and go and other broadcasts prune; the
  creation of an approval announces it before the commit and asks for the answer
  after it. Right means: the registry has who is there and nobody else, a
  failing socket or channel costs the others nothing, and who is asked finds
  the approval.
* **Documents.** The task commits at every stage, may be retried from the start
  after any of them, and may lose its worker, while the owner deletes the
  document. Right means: a status is true, and a deleted document stays deleted.
* **Voice.** Every utterance is a task of its own; its response shares one flag
  and one event with the responses before and after it, and one bounded queue
  with those of other sockets. Right means: the flag is up only while somebody
  speaks, an interruption silences what it interrupts, and what is heard is
  heard once and in order.
* **Tools.** Sequential, but with many cases: partial failures, fallbacks, cuts at
  a limit, choices by position. Right means that nothing found is lost to a
  case nobody thought of.
* **Connection pool.** A plan request holds one connection while its run needs
  another: listed as a hazard, not modelled.

## 2. The modules

| Module | Models | Kind |
|---|---|---|
| `RowStore` | PostgreSQL rows under READ COMMITTED, as the sessions use them | component, external |
| `ApprovalGate` | what may ever be seen committed of trips and approvals | abstract specification |
| `TripLifecycle` | requests, planner runs, approval gate, sweep; EXTENDS `RowStore`, implements `ApprovalGate` | composition, refinement |
| `TripLifecycleInvariant`, `TripLifecycleProofs` | inductive invariants and theorems | proofs |
| `LLMRouter` | router, circuit breaker, providers | component |
| `LLMRouterProofs` | its invariant and theorems | proofs |
| `PipelineContract` | what `TripLifecycle` takes for granted of the graph | abstract specification |
| `TripGraph` | the planning graph; INSTANCEs `LLMRouter` with the nodes' prompts as callers and implements `PipelineContract` | composition, refinement |
| `TripGraphProofs` | its invariant, the two refinements | proofs |
| `Connections` | the registry of a user's sockets, their endpoints, broadcasts | component |
| `Notifications` | delivery of approval requests; INSTANCEs `Connections` with its broadcasts as casts | composition |
| `NotificationsProofs` | their invariant and theorems | proofs |
| `Documents`, `DocumentsProofs` | a document's life between API, worker and storage | component, proofs |
| `VoicePipeline`, `VoicePipelineProofs` | a voice session with its sockets and responses | component, proofs |
| `PythonLists` | sorts, filters, slices, first of each key | helpers |
| `RagSearch`, `Booking`, `Lookups`, `Itinerary` | search; offers; web, weather, places; the finalizer | algorithms as operators |
| `AgentTools` | one call of each of them, on every reply of the services | composition |
| `AgentToolsProofs` | lemmas about lists, theorems about the tools | proofs |
| `MCTripLifecycle`, `MCLLMRouter`, `MCAgentTools` | symmetry sets and values for TLC | model checking |

The pieces fit together as the code's calls do. `ApprovalGate` has no
transactions and no locks, and a step of it is a commit: a question appears with
the trip it stops (`Ask`), and is answered together with what the answer means
for its trip (`Resume` and `Approve`, `Reject`, `Expire`); what planners and
requests do to trips otherwise is `Change`. `TripLifecycle` is shown to implement
it, with the committed values for statuses and answers (`Gate`). `TripLifecycle`
takes
`graph.ainvoke` as one step (`RunGraph`, `RunGraphFails`); `PipelineContract`
names the outcomes that step allows and says the pipeline ends; `TripGraph` is
shown to implement it, node by node, on top of the router's own actions; and
each behaviour of `TripGraph` is one of `LLMRouter`, so what is proved of the
router holds inside every pipeline. The strong fairness of a run's steps in
`TripLifecycle` rests on the liveness half of the contract. `Booking`,
`Lookups` and `Itinerary` are what three of the nodes compute inside that
pipeline, which `TripGraph` abstracts to the fields it branches on.
`Notifications` is the inside of `TripLifecycle`'s `AskCreate`: the same commit,
with what clients are told before and after it. `Documents`, `RagSearch` and
`VoicePipeline` share nothing with the trips.

### RowStore and TripLifecycle

A row has a committed value (`db`), a newest value (`latest`) and the
transaction that has written it (`lock`). `Write` is an uncommitted UPDATE, which
waits for the lock; a SELECT reads `db` and never waits. Rows are trips and
approvals; a run opens at most one approval, so an approval is named after the
run that inserts it. Only `status` is kept of a row; `expires_at` is the set
`overdue`. `absent` is a row not inserted yet.

| Process | Steps | Code |
|---|---|---|
| `req[q]`, an API request | `CreateTrip`; `PlanDispatch`, or `PlanRead` `PlanReset` (`PlanRefused`) `PlanEnds`; `CancelRead` `CancelWrite`; `ApproveRead` `ApproveMark` `ApproveResume` `ApproveCommit` (`ApproveCommitFails`); `RejectRead` `RejectMark` `RejectCancel` | the handlers, cut at the awaits that reach the database |
| `run[r]`, one `run_planning_background` | `RunRead` `RunMark` `RunGraph` then `RunSave`, or `AskMark` `AskCreate`, or `RunGraphFails` `RunFail`; `RunBreaks` `RecoverRead` `RecoverMark` (`RecoverBreaks`) | cut at the commits |
| `sweep` | `SweepSelect`, then `SweepMark` `SweepCancel` per approval, `SweepCommit` | one step per statement |
| environment | `Deadline`, `RequestAborted` / `SweepAborted` (PostgreSQL breaks a lock cycle), `Restart` of the API process | |

`loaded` is the status a session read. `OrmCommit` writes the status only if it
differs from that, and `OrmCommitRow` waits for the row in any case, because
another column of it changes. `RunMark` and `AskMark` set another column too
(`trip.request`, `trip.result`), which may or may not have changed: both may go
on without the row, but the fairness of section 4 does not promise that they get
past a row that is locked.

`Faults` chooses what may go wrong: `graph` (the pipeline raises), `db` (a
statement of a run, the construction of its router and graph, or the commit of an
approval raises), `outage` (the recovery raises too, and is swallowed), `restart`.

### LLMRouter

`state`, `openFor`, `errors` are the circuit; timestamps are kept as ages, cut
off where the code stops distinguishing them. `call[c]` is one call of
`generate`: pausing for Gemini's rate limit, at Gemini, at Groq, or over.
`UseGemini` and `SkipGemini` are the code before the first await,
`GeminiAnswers`, `GeminiFails`, `GeminiIsSlow`, `GroqAnswers`, `GroqLimits` (429,
retry) and `GroqFails` the code after it. `ForceGemini` and `ForceGroq` are
`force_provider`, which bypasses the circuit. Each planning run has its own
router but the time of the last call is a class attribute: `OtherRouterCalls`.
The router's `asyncio.Lock` is only held between awaits and never contended, so
it is not a variable. Gemini is taken to be configured: without it there is no
circuit.

### TripGraph

`step` is LangGraph's current superstep and `ended` the nodes of it that have
returned; `NextStep` starts the successors of all of them at once. `work` tells
how far each prompt is, `plan` keeps the fields the graph branches on,
`messages` the reducer every node appends to. Which errors a node catches is
the node's code. Booking always returns. Research does once it has asked, but the
context of its question is built outside any `try`, from preferences and forecasts
of whatever form they came in (`ResearchRaises`). The orchestrator, the budget
optimiser and the finalizer let a failed LLM call end the run, and the last two
what is wrong with their context. When a node raises, LangGraph (`uv.lock`
has 1.2.4) cancels the others of its superstep: `Raises` takes
their prompts away, and calls already in the router are cut off. Writes of
a node are applied when it returns rather than when the superstep ends; no
other node of the superstep reads them.

### Connections and Notifications

`table` is the user's entry of `_connections` (`None` when there is none: an
empty entry is deleted), `link[s]` whether the client of a socket is there,
`endpoint[s]` where `websocket_endpoint` is. `cast[c]` is one `send_to_user`: the
copy it took, what is left of it, what failed. `StartCast` copies,
`SendNext` writes to one more socket and after the last prunes the failed ones
(`Without`). The registry's lock is never held over an await and so is part of
the steps. `notice[n]` follows `create_approval`: `Notify` (the row and the
first broadcast), `Deliver` (e-mail and push, and `channels_sent`), `Commit` or
`CommitFails`, `Broadcast` (the approval request). A notification's two
broadcasts and the planners' updates are the casts of `Connections`.

### Documents

`upload`, `deleter[d]` and `task` are the three kinds of process; `row`, `object`
and `copies` (how many times the document's chunks are in the table) what they
share. A step ends with a commit or with a call that leaves the process; any of
them may raise (`Raise`, `MarkFailedRaises`), and the worker may die
(`WorkerDies`), which loses the task: it is acknowledged early.
`RetryOrGiveUp` is Celery's retry. A retry starts over and inserts the chunks
again, so `copies` may be more than one; the row counts one of them (`counted`).

### VoicePipeline

`bridge[s]` is a socket with its `VoicePipeline` (speaking, buffered frames, the
response flag, the cancel event) and its `forward_audio_chunks` task; `attached`
is the pipeline the session uses, that of the socket which came last; `task[u]`
is one `_handle_speech_end`. `SpeechStarts`, `SpeechGoesOn`, `SpeechEnds` are
`process_audio_frame`, in one step each, for there is no await in them that
waits; `Transcribed`, `Respond` and `Synthesize` are the task, cut at its awaits;
`ForwarderStarts`, `Forward`, `ForwarderIdle` the forwarder; `Connect`,
`Disconnect`, `CreateSession` and `EndSession` the routes. `alone` and `cut` are
history: whether a response has had its pipeline to itself, and whether the
user has spoken over it. The agent's handler always comes to the same sentence
(section 5), so its LLM call has one outcome.

### The tools

`PythonLists` gives what Python's lists do: a stable sort, filters, slices, the
first element of each key. It has no recursion: each of them picks positions, and
puts them in an order in which the place of a position is the number of those
before it (`Arranged`). `RagSearch`, `Booking`, `Lookups` and `Itinerary` are
operators, one per function of the code. Services are what they may reply: a
sequence of options, or that they failed; what an LLM says of an option may be of
the wrong kind (`Misfit`: a price or a rating that is no number, a type that is
not hashable), and its array of days may hold texts (`loose`), or end in prose
or in the middle of an element (`cut`). Errors that a function lets through are
part of its operator: `HotelsFail` and a `Misfit` type leave no option at all, and
over `ItemsRaise` the finalizer raises. Fused scores are fractions, compared
by multiplication; the sums the code makes of floating-point numbers are
taken to be exact. `AgentTools` has one action per tool: it chooses a request
and the replies, and keeps them beside the answer, so that a property can
compare the two.

## 3. The runs

| Run | Asks | Bounds |
|---|---|---|
| `trip_lifecycle` | Does a status ever claim work nobody does; does completion leave a question open? | 1 trip, 3 runs, 2 requests, replanned from every status, failing pipelines |
| `trip_lifecycle_faults` | Can a waiting trip be answered, and does every commit keep to the gate, whatever fails? | the same, with all four faults |
| `trip_lifecycle_live` | Do runs, locks and (where a worker has the sweep) overdue approvals end? | 1 trip, 2 runs, 2 requests, failing pipelines and restarts |
| `llm_router` | Can replies that overtake each other trap the circuit; does it recover; do calls end? | 2 callers, threshold 3, window 3, recovery 2, gap 1, 1 Groq retry |
| `trip_graph` | Does the pipeline keep its contract, join once, leave the loop, and cut off only searches? | 6 prompts (at most 3 at once), threshold 2, window 1, recovery 1, 2 budget retries |
| `voice` | Do two responses that overlap, are interrupted and share a queue keep flag, event and order right? | 2 sockets, 2 utterances, a queue of 2, 1 frame is too short, 2 chunks |
| `voice_live` | Do utterances end; does audio wait behind a forwarder? | 2 sockets, 1 utterance, a queue of 2, 3 chunks |
| `notifications` | Do broadcasts over copies keep the registry; is what is announced on record? | 2 sockets, 1 approval (2 broadcasts) and 1 update, e-mail and push set up |
| `documents` | Are statuses true and deletions final, whatever is retried and killed? | 2 deletions, 3 retries as in the code |
| `agent_tools` | What do the tools make of every reply? | see below |

Bounds. Trips do not share rows, so one is enough for every property, each of
which is about one trip; three runs are the least that have a first run, the run
it is resumed by, and a third that races them, and `PlansPerTrip = 2` lets two
plan requests overlap. Two requests make every pair of handlers race. With two
callers a reply of an old call meets every state the other can bring the
circuit to; threshold 3 with a slow reply that counts twice makes the threshold
fall inside one reply and between two. In the graph the option set has only a
dear one (the choice to ask is then free) and the rate limit's gap is 0: the
pause is the router's, where it is checked.
Two utterances overlap in every way two responses can, and a queue of two chunks
is full before either ends; the second run has more chunks than the queue. Two
sockets and three broadcasts let one broadcast prune while another has its copy.
In `agent_tools` there are two owners and three chunks, so that a filter, an
overlap of the two queries and a `top_k` below the candidates all happen; the
budgets are below every option, between them and above; 1 to 15 days is more than
the forecast reaches; limits of 2 are below what the services reply; a model's
answer has up to three days, some of them texts, and is cut off in the last one or
followed by prose; options have prices, ratings and types of the wrong kind among
them. No list there is longer than the code's LIMIT of candidates, and the weather
service's reply is complete or missing: the theorem covers the limit, nothing the
partial reply. A chunk that is deleted under a search counts as found.
`CHECK_DEADLOCK FALSE` is set where slots are used up and the system really
stops: the trip, voice, notification, document and tool runs.
Symmetry is used for the two safety runs of the trip only.

What holds:

* `PlanningHasRunner`, `CompletedIsAnswered` (`trip_lifecycle`): with nothing
  but failing pipelines, `planning` always has a run at work. With `db` faults
  it does not: a recovery session can load `failed`, and skip the write, while an
  approve's `planning` is not committed yet. `CompletedIsAnswered` is for trips
  planned once; two overlapping plans can each ask.
* `AwaitingIsAnswerable` (`trip_lifecycle_faults`): under every fault, except for
  a run that was killed or lost before it asked.
* `KeepsGate` (`trip_lifecycle_faults`): under every fault. It implies
  `DecisionReachesTrip` (section 6). The gate does not promise that a question is
  answered once: a second answer replaces the first (finding 1), but none is
  seen without its effect.
* `RunsEnd`, `OverdueIsSettled`, `RowsAreReleased` (`trip_lifecycle_live`): the
  requests' and the sweep's opposite lock orders are always untangled. In this run
  plans are asked for only while a trip is not settled: replanning a settled trip
  does hang (finding 2). `OverdueIsSettled` has the condition `SweepIsServed`, that
  a worker takes the sweep whenever there is something to expire, in its formula:
  it says that cleanup_tasks.py does its work against all who lock and answer, not
  that the repository's worker does it. That one does not (finding 3), and a trip
  nobody answers then waits for ever.
* `CircuitCanRecover`, `HalfOpenHasProbe`, `GeminiRecovers`, `CallsEnd`.
* `NodesRunOnce`, `BudgetSettles`, `KeepsContract` (`trip_graph`), and
  `OnlySearchesAreCutOff`: a pipeline that returns has no LLM call under way, and
  one that raises leaves at most booking's two searches behind, which the event
  loop cancels. A raising research node does that; every other node that raises
  is alone.
* `RespondingIsStreaming`, `InterruptionSilences`, `HeardInOrder` (`voice`),
  `UtterancesEnd`, `AudioIsForwarded` (`voice_live`). The converse of
  `RespondingIsStreaming` is not so: a response can go on with the flag down, and
  can then not be interrupted (section 5). `InterruptionSilences` is for
  responses that have had their pipeline to themselves, and ends when a later
  response or a reset clears the event.
* `RegistryIsCurrent`, `BroadcastReachesAll`, `DeliveryIsOnRecord`,
  `GoneIsForgotten`, `Recorded` (`notifications`).
* `EmbeddedIsSearchable`, `DeletedIsGone`, `InProgressIsWorkedOn`, `TaskEnds`
  (`documents`). A killed worker leaves `processing` or `chunked` for ever; the
  property says that nothing else does. `TaskEnds` is about tasks that a worker has
  begun; in the repository's wiring none is, and a document stays `uploaded`.
* `SearchIsSound`, `OffersAreFair`, `LookupsDegrade`, `AnswerIsSalvaged`
  (`agent_tools`). They compare an answer with what was found: of chunks, that
  no room is wasted and none passed over for one below it in both searches; of
  offers, that the cheapest is among them and an approval has a reason, unless
  what the LLM says of an option cannot be used (`HotelsAreSpoilt` says exactly
  when, a `Misfit` type of affordable transport); of look-ups, that a failure costs
  only its own results; of the finalizer, that only a text in the place of a day
  makes it raise and lose the answer, and that otherwise a day told to the end
  under its heading is not lost.

For each property `PROJECT.json` names a mutant: a plausible bug in the mapped
code that makes TLC find the property violated under the same configuration.

## 4. Fairness

* Trip lifecycle: `SF` for the steps of a request, of a run (`PlannerGoesOn`: its
  two ORM commits only while the row is free) and of a sweep that has begun
  (`SweepGoesOn`). A statement that waits for a row is enabled only while the row
  is free, and PostgreSQL queues waiters, so one that is free again and again is
  got in the end. `WF` for the deadlock detector and for the passing of
  `expires_at`. A run's `SF` includes `RunGraph`: the pipeline ends
  (`KeepsContract`). Nothing is assumed of clients: they may never answer. That a
  sweep begins is not assumed either, because the repository's worker never runs
  it (finding 3); `SweepIsServed` is a condition of `OverdueIsSettled`, which is the
  only property to depend on it. `Restart` and the faults are never forced.
* Router and graph: time passes, each provider call has a timeout and so ends,
  and the event loop runs a task that can go on. `GeminiRecovers` assumes, in its
  own formula, that Gemini stays well from some time on and that `generate` is
  called again and again: the circuit is only tried by a call.

* Voice: a coroutine that can go on does, the models in the thread pool return,
  and the forwarder's 30 seconds pass. Nothing is assumed of the user.
* Notifications: the event loop goes on, and a client that has gone is noticed in
  the end, by a failing write or the server's keepalive pings.
* Documents: once a worker has begun the task (`Begun`) it goes on, takes its own
  retries, and Celery's time limits end a call that hangs. That a worker begins it
  is not assumed (finding 3). Neither a retry's success nor a live worker is.

## 5. Findings

Two runs that TLC is expected to find violated; each checks one sentence of the
repository (quoted in `PROJECT.json`).

1. `finding_double_approve`: two approve requests that both read `pending` each
   resume the pipeline; nothing at the database level prevents it.
2. `finding_replan_hangs`: replanning a settled trip flushes the reset, and
   commits it only after the background task, whose first UPDATE waits for that
   lock.

Further configurations, run the same way (`tlc -config Finding_x.cfg <module>`),
show how the code departs from what it says of itself:

3. `Finding_never_expires` (`MCTripLifecycle`, of `WiredSpec`): an unanswered trip
   waits for ever, against `worker/tasks/cleanup_tasks.py:7` ("This prevents trips
   from being stuck in 'awaiting_approval' forever"). `worker/celery_app.py:46`
   autodiscovers `parikrama_worker.tasks.tasks`, which does not exist, and
   `worker/tasks/__init__.py` imports nothing, so no task is registered; and
   `worker/celery_app.py:38` and `:41` route the tasks to the queues `documents` and
   `default`, while `Makefile:25` and `src/apps/worker/Dockerfile:23` start the
   worker without `-Q`, so that it consumes `celery` only. Documents meet the same:
   they are uploaded, queued and never processed.
4. `Finding_stuck_awaiting` (`MCTripLifecycle`): where a worker does run the sweep,
   a restart between the two commits of `_handle_approval` leaves a trip waiting
   for an approval that does not exist; the sweep cannot find it.
5. `Finding_reject_does_not_stop` (`MCTripLifecycle`): a run that is under way
   completes a rejected trip.
6. `Finding_unapproved_saved` (`TripGraph`): a resumed run starts from an empty
   state, searches again and saves what it finds then.
7. `Finding_slow_counts_twice` (`LLMRouter`): a slow reply is recorded as two
   errors.
8. `Finding_many_probes` (`LLMRouter`): `half_open` lets every caller through.
9. `Finding_not_interrupted` (`VoicePipeline`): the end of one response resets the
   flag of another (`voice/pipeline.py:196`), so the user's next words do not set
   the cancel event (`:12`).

Seen while modelling, without a run:

* a late reply of a call sent while the circuit was closed closes an open one
  (`llm/router.py:199`, against `:15`);
* Gemini's minimum gap is not kept between calls that pause together
  (`llm/providers/gemini.py:85`, against `:79`);
* of two decisions on one approval the second overwrites the first
  (`services/approval_service.py:186`, against `:12`);
* the budget is optimised once more, not twice, because the first attempt counts
  as a retry (`agents/trip_graph.py:59`, against `:11`);
* every voice answer is the sentence for failures: the handler takes the length of
  what the router returns, an `LLMResponse`, which has none
  (`services/voice_agent_handler.py:62`, against `:32`);
* a hotel price that is a text (`agents/tools/hotels.py:98`), or a rating that is
  null or a text, which `setdefault` leaves alone (`:102`, `:142`), ends the search
  with an error, against "Never raises" in `:80`: no hotel is offered. A type of
  transport that is a list does the same (`agents/booking_agent.py:191`). Fewer than
  three options can be offered besides (`agents/booking_agent.py:148` and `:178`
  say "exactly 3");
* preferences that the LLM gives as null or as a list end the run in research,
  outside any `try` and under booking's calls (`agents/research_agent.py:261`;
  `:268` for a forecast without temperatures);
* transport nobody can afford is represented by the first option, which is not
  yet the cheapest (`agents/tools/transport.py:144`, sorted at `:158`);
* forty intervals of three hours reach five or six dates, not seven
  (`agents/tools/weather.py:44`);
* the "semantic only" search appends keyword hits with score 0
  (`api/v1/rag.py:86`), and a filter on `destination` matches nothing, because
  chunks carry no such metadata;
* a document task retried after `worker/tasks/document_tasks.py:111` inserts the
  chunks a second time, and a successful retry leaves the old error message;
* whether `:doc_id::uuid` (`worker/tasks/document_tasks.py:116` and others) is
  bound at all by SQLAlchemy's `text()` is not settled; if it is not, every
  attempt fails, which is one of the behaviours of the model;
* a push is recorded as sent although it is only logged
  (`services/notification_service.py:108`, `:240`), and a notification can
  announce an approval whose commit then fails;
* an answer cut off after a nested object is not repaired, because all brackets
  are closed before all braces (`agents/final_itinerary_agent.py:391`), and the
  days then come from the headings; an array with an element that is no object
  raises an `AttributeError`, which is not among those caught (`:250`, `:255`), and
  the run fails with the whole answer lost; if the model raises a `ValueError`,
  `_generate_itinerary` uses a `response` that was never assigned;
* a places service that answers "no results" gives none: only failures fall back
  (`agents/tools/places.py`).

## 6. The proofs

All theorems hold for any sets of trips, runs, requests, callers and options and
any values of the numeric constants, under the `ASSUME`s of the modules: names
of different kinds are different (`DistinctNames`, `NoRowAssumption`,
`CastsAssumption`, `TableAssumption`), `Faults` and `PlanFrom` are
what their comments say, thresholds, the budget bound and the size of the audio
queue are positive, gaps, retries and lengths are natural numbers.

**Trip lifecycle.** None of the properties is inductive: whether a trip's status
is true depends on what other transactions have written and not committed, and
on what sessions have loaded. The part that all proofs share, `Base`, says what
every state is like under *every* fault: `TypeOK`; `CleanRows` (an unlocked row
has one value); `RunOK`, `ReqOK`, `SweepOK` (what the program counter of a run,
a request or the sweep says of its trip, its approval and the rows it has
written); `LockOK` (a locked row's owner is at a step where it holds it). From it
follows `TypeCorrect`.

`GateAlwaysKept` (`Spec => KeepsGate`) shows that `TripLifecycle` implements
`ApprovalGate`, one lemma for each kind of process: `ClientSimulates`,
`RequestSimulates`, `PlannerSimulates`, `SweepSimulates`, `EnvironmentSimulates`. A
commit writes whatever rows its transaction holds, so each lemma has to say which
those are and with what values: `LockOK` does, together with `Held`. `Held` is
`Base` with `SweepHolds` (the sweep holds only approvals that are overdue, and the
trips of these and no others) and `RequestsFit` (a cancelled trip exists; a request
for a plan is about no question). It is inductive because of the simulation:
that rows stay and a question keeps its trip is read off the gate's steps
(`GateKeepsQuestions`), not proved again for each of `TripLifecycle`'s. In the same
way `DecisionsReachTrips` is what a step of the gate means for an approval it
changes (`GateDecides`).

`AwaitingIsAnswerable` is proved from `Base` and `Answerables`, under every fault
too. The property is not inductive because it does not say why a question
survives the approvals of it that are under way. `Binding` does: whoever is about
to decide a question a trip waits for has loaded `awaiting_approval`, so the
commit that decides it takes the trip out of that status. `Asking` does the same
for a planner that recovers: it has not loaded `failed`, so it will write it.

`PlanningHasRunner` needs `Promises`, and holds when only pipelines fail
(`PipelineFaults`): `Planned` counts only runs that will still write the status
(`Effective`), and `ResumedWaits` says that the run an approve request started has
not gone past the trip's row before the request commits. This is the reason why
the order "start the run, then commit" is harmless without database faults, and
where it stops being so with them.

`CompletedIsAnswered` rests on the same order, again under `PipelineFaults`. Only
a resumed run can complete a trip whose question is open, and while it is open
(`Undecided`) the trip shows `awaiting_approval` or `cancelled`, so the request
that resumed the run had to write `planning` and holds the rows of the trip and of
the approval; the run cannot get past its first commit before both are
committed. `Keeps` says which rows a request has, and that a run whose plan
request waits for it on a settled trip (finding 2) never comes to ask. `Sole` is
what "planned once" means inductively: no other run *started* from a plan
request, as one that is only set aside may be given back. The theorem takes
`Runs` to be finite, since `CompletedIsAnswered` counts them.

**Router.** `Inv == TypeOK /\ CircuitCanRecover /\ HalfOpenHasProbe` is inductive.
The lemma it rests on is that recording *n* errors prunes a sequence sorted by
age and keeps it sorted.

**Graph.** `Inv == Shape /\ AtWork /\ OneMessage /\ BudgetLoop /\ Consent`: which
supersteps there are, which calls may be under way in each, how many messages
each node has added by then, how the counter of the loop relates to them, and
that a resumed run does not ask. `CutOffsAreSearches` follows from who is in a
superstep with whom: a node that raises after it has asked is alone and its
question is answered (`AloneIsIdle`), and research raises before it asks
(`ResearchIsIdle`). `RunsThroughRouter` shows that every pipeline
is a behaviour of `LLMRouter!Spec`, `ContractKept` that it is one of
`PipelineContract!Spec`. `GraphTypeCorrect` uses the first: the types of the
router's variables inside a pipeline are not proved again but carried over from
`RouterTypeCorrect`, with the prompts for callers.

**Broadcasts.** A copy that a broadcast holds can be out of date in both
directions, so `RegistryIsCurrent` rests on why pruning is harmless all the
same: whatever has failed belongs to a client that has gone (`CastOK`), and
every socket is registered from its acceptance until its client goes or its
endpoint ends (`SocketOK`). `BroadcastReachesAll` needs that every socket of a
copy is still to be written to, has been reached, or has lost its client;
`DeliveryIsOnRecord` that the second broadcast has not begun before the commit,
and what the first has counted by then (`NoticeOK`).

**Documents.** `Inv == TypeOK /\ UploadOrder /\ CopiesCounted /\ StatusIsTrue /\
DeletedIsGone`: there are at most as many copies as attempts begun (the attempt
that has stored its chunks is past the point where it could store them again),
and each status says where the task is or how it ended.

**Voice.** `RespondingIsStreaming` and `HeardInOrder` follow from invariants of
their own: a chunk in the queue has been synthesized and not been heard, and
those of one response are in order (`Playable`). `InterruptionSilences` needs
`Interruptible`: a response that has had its pipeline to itself is the only one
streamed there, and the flag is up or the cancel event is set, so that words
spoken over it do set the event. This is the argument that breaks for a response
that has not been alone, which is finding 9.

**Tools.** A tool answers in one step, so the four invariants of `AgentTools` need
no strengthening; what has to be proved is what the algorithms compute on lists
of any length. The lemmas about lists carry that: what `Arranged` returns is a
bijection in the order given (`ArrangedIsArranged`; the places of a total order
are found by counting, and every number up to the size of the set is the place
of something), so a filter keeps exactly what it should, in order
(`PickedIsPicked`), a sort is a permutation with nothing before a lesser element
(`SortIsSorted`), and each key has one first element (`FirstsHaveAllKeys`, from the
least position that has it: `Least` takes the place of an induction over the
list). On them rest

* `AnswersAreSalvaged`: what the repair keeps is a beginning of the array, up to the
  last object in it, so no whole day is lost before it (`WholeIsPrefix`); the finalizer
  raises only if a text is in what is kept (`RaisesOverText`); and the days kept are
  a subsequence of the days told, cut off only by the length of the trip;
* `LookupsKeepWhatTheyCan`: deduplication loses no key; the forecast's intervals
  step from one day to the next without a gap (`DatesOfIntervals`), so the dates
  they are parsed into are 0, 1, 2, ...;
* `OffersKeepToTheBudget`: the cheapest, the middle and the dearest of the sorted
  hotels, and the first of each type of transport, include the cheapest one, unless
  an option of the wrong kind has spoilt the search, and what is beyond the budget
  is at most the one option that was let through;
* `SearchesAreSound`: scores are fractions; a chunk that another one beats in both
  queries has the lower sum (`SharesFollowRanks`, `SumsAreOrdered`), so the stable
  sort does not put it first, and the two cuts keep a beginning of that order.

They assume what the services can reply (`SearchAssumption`, `BookingAssumption`,
`LookupsAssumption`, `ItineraryAssumption`): finite corpora, lists where a service
does not fail, whole numbers for weights and limits, whole numbers or `Misfit` for
prices and ratings. TLC evaluates these assumptions for the constants of
`agent_tools`.

Only model-checked: all liveness (`RunsEnd`, `OverdueIsSettled`, `RowsAreReleased`,
`GeminiRecovers`, `CallsEnd`, the liveness half of
`KeepsContract`, `UtterancesEnd`, `AudioIsForwarded`, `GoneIsForgotten`,
`Recorded`, `TaskEnds`), which TLAPS does not do. Every invariant and every action
property that a run checks is also a theorem.

## 7. External code

Modelled from how the repository uses it: FastAPI (dependencies with `yield` are
closed after background tasks), SQLAlchemy (identity map, write if changed,
autoflush before a query, `expire_on_commit=False`, expiry on rollback, Core
updates unconditional), PostgreSQL (READ COMMITTED, row locks, deadlock
detection), Celery (queues, `autodiscover_tasks`; Beat sends the sweep, which no
worker of the repository takes), LangGraph (supersteps, edges that start a node
once per superstep, a failed node that cancels the others), the Gemini
and Groq services, Starlette's WebSockets (a write to a client that has gone may
or may not fail), the e-mail providers, MinIO, Celery's retries, time limits and
early acknowledgement, pgvector and trigram search (any order, any part of what
is selected), the cross-encoder, Whisper and the speech engines, Google Places,
OpenWeather, Tavily and DuckDuckGo, and the stability of Python's sort.

## 8. Not modelled

Reads, sharing and PDF export; prompts, parsing and formatting, but for the
finalizer's; the text splitter and the models of the RAG search; LiveKit rooms
and tokens; `mark_read` and `mark_all_read`; statistics of the router;
`agent_runs` rows; `ApprovalService.expire_stale` and
`services/trip_planning_service.py`, which no route calls; deletion of users or
trips, which no route offers; the chat assistant and the single agents, each one
request with one LLM call; auth, schemas, configuration and migrations; the
React front end, but for the statuses in which it offers planning (`PlanFrom`).

## 9. Plan

Done, in this order: `RowStore`, `TripLifecycle`, its proofs, `LLMRouter`, its
proofs, `PipelineContract`, `TripGraph`, its proofs; then `VoicePipeline`,
`Connections` and `Notifications`, `Documents`, the tools, the type theorem of
`TripGraph`, the proofs of `Documents`, `Notifications` and `VoicePipeline`, those of
the approvals, `AgentToolsProofs`, and `ApprovalGate` with its refinement. Next, in
order of what can go wrong:

1. A bounded connection pool in front of `RowStore`: plan requests that hold a
   connection while their runs need one.
2. `Notifications` as the refinement of `TripLifecycle`'s `AskCreate` that section 2
   describes.
3. The text splitter of the RAG pipeline as an operator: every character of a text
   is in some chunk, and overlaps are as long as they are meant to be.
