# A TLA+ model of the agentic resident CRM

The system reads rejected enrolment packets, and dead-lettered records of other
services, from Kafka, has a graph of language-model agents investigate each one,
and records a verdict as a casebook. This directory holds TLA+ modules of the
parts in which processes race each other, TLC configurations that check them on
small instances, and TLAPS proofs for instances of every size. Paths below are
relative to the repository's `src/` package unless they start with another
directory.

## 1. The system

### Flow

1. Four consumer processes (`fast_consumer.py`, `slow_consumer.py`,
   `dlt_consumer.py`, `dlt_analysis_consumer.py`) run one loop,
   `utils/kafkaConsumer.py`, with a per-role adapter from
   `utils/message_adapters.py`.
2. Each message becomes an HTTP request to the API (`api/routes.py`,
   `api/dlt_routes.py`): the fast roles fetch logs and publish to an analysis
   topic, the slow roles investigate.
3. An investigation runs the agent graph (`core/agent_orchestrator.py`) in a
   thread, checkpointed per packet, under an invoke budget.
4. Verdicts go to case storage (`storage/`), one directory per packet:
   `casebook.json`, `status.json`, `claim.json` and artifacts. What cannot be
   investigated goes to the dead-letter queue.
5. The consumer commits its offset once the message is dealt with.

### Components, their state, and what makes them correct

| Component | State | Operations | Interacts with | What is hard | Correct when |
|---|---|---|---|---|---|
| Kafka consumer | offset tracker, backlog, semaphore, pool, assignment, shutdown flag | poll, dispatch, handle, worker, commit, rebalance callbacks, drain | broker, API, storage, DLQ | out-of-order completion, late completion after a rebalance, lost commits, crash between steps | the committed position covers only messages that are dealt with; no permit and no offset is lost |
| Message adapters | none | parse, should_skip, save_terminal | consumer, storage | a skip decision read from a record that is being written | a skip never drops an unsettled packet |
| Rejection lane (`_investigate_packet`) | `_in_flight_events`, the two case files | load, gate, wait, claim, run, guard, save, drain | consumer, claims, graph, DLQ | check-then-act over awaits, timeouts racing late answers, shutdown mid-run | one investigation at a time, no 2xx before a verdict, no verdict overwritten |
| Packet claims | `claim.json` | claim, take over, fail open | storage, lane | age-based takeover, half-written file, takeover after a shutdown | at most one live holder |
| Case storage | case directories, local or S3 | save, load, exists, create_json, update_json, save_terminal | everything | two-file saves, create-only writes, conditional writes with retries | a terminal status always has its casebook |
| Checkpointer | graph threads | get_state, put, delete | graph, lane | a resume from a thread another run is writing | a resumed run continues its own thread |
| Fetch stage (`fetch_logs`) | `status.json` | fetch, save, republish | lane, Kafka | status write races the analysis lane | a started analysis is never marked as merely fetched |
| DLT routes, claims, single flight | case directories, claim files, a gate per fingerprint | fetch, analyse, claim, gate | as the lane | several records of one failure contend; bounded waits | one analysis per fingerprint, nobody waits for ever |
| DLT groups and reuse | occurrence objects, recommendation, a cache | record, lookup, reuse | DLT analysis | last writer wins, stale cache | counts never lose an occurrence; a reused recommendation is a valid one |
| DLT replay and parking | parked entries | gate, park, release, mark, expire | code check, Kafka, release tool | crash between replay and mark, two release workers, a redelivered analysis | replayed for a reason, and once |
| Code check, versions | cached listings of commits, a cached reading of the rollout | list commits of the call path, find the version that holds each, compare | repository, pods, replay gate | commits, cuts and pods move on meanwhile | a verdict is true of the repository and of every running pod |
| DLT finding | the finding, the group's recommendation | classify, corroborate, reuse or investigate, cap, share | groups, models | evidence of other packets and of other occurrences | a finding rests on its own occurrence |
| Agent graph | graph state, retry counters, checkpoint | fetch, runbook, filter, investigate, review, synthesise, escalate | tools, models, harness, checkpointer | resumption in the middle of a loop, runs nobody waits for | ends; what is synthesised was approved; nothing acts after it was given up |
| Graph cache, prompts | compiled graph, tool catalog, prompt snapshot | get, rebuild, refresh | MCP servers, prompt server | lock-free reads of two globals, slow refreshes | the graph fits its catalog and sound prompts |
| Rule and documentation context | parsed files, lookup cache, case files | look up, parse, compose, cut | rules database, documentation store | edits between stat and read, between investigation and review | an agent is told what holds for its packet |
| Resilience | circuit breaker, model-call slots | admit, report, acquire, release | agents, tools | one probe when half open; slots released on every path | never over the limit, never stuck open |
| Service registry, reason codes | registry, map and its cache, documentation store | resolve, gate, persist, download | both stages of a lane | replaced between and during resolutions | one packet, one service, in both stages |
| Runbooks, outcomes, learned rules, clean-up | JSON files, caches, case directories | draft, promote, serve, record, prune, reap | graph, operators | operators' tools beside a running service | what is served was accepted; no verdict is deleted |
| Log pipeline | snapshot, trace | discover, read, page, merge, filter, reduce | cluster, Elasticsearch, storage | parallel reads under one deadline, caps, partial failure | a trace says what it lacks |
| Process database tools | engine, breaker | look up, summarise, list | MySQL | tables being written, lost connections, caps | absence is never a failure in disguise |
| Opencode child process, MCP transport, models' shapes, observability, one-shot tools | mostly none | I/O, parsing, text | external services | mostly sequential | outside the scope of a state-machine model |

`PROJECT.json` lists every component with its status, and every hazard at the
line where it bites.

## 2. Modules

| Module | Models | Composition |
|---|---|---|
| `KafkaConsumer` | any number of consumer processes of one group: poll loop, worker pool, offset tracker, rebalance callbacks, shutdown, restart; the broker, the endpoint and the case storage as environment | its properties instantiate `AtLeastOnce` |
| `AtLeastOnce` | what a consumer group promises: the position moves forward, only past settled messages | abstract specification |
| `KafkaConsumerProofs` | theorems about `KafkaConsumer`, and its refinement of `AtLeastOnce` | extends it |
| `RejectionLane` | one packet: its deliveries by the slow consumer, the requests they become, the packet claim, `casebook.json` and `status.json`, the agent run, the API's drain, time | composes the consumer's worker, the route, the claims and the storage |
| `RejectionLaneProofs` | theorems about `RejectionLane` | extends it |
| `SingleFlight` | the gate of one fingerprint: table entry, reference count, lock, bounded wait, clean-up | component |
| `DltGroup` | a burst of records of one failure on `/analyze-dlt`: recording the occurrence, the group store and its cache, the reuse decision, the code check's reload, the single-flight block, the model run and its budget | extends `SingleFlight` and drives its actions |
| `DltGroupProofs` | theorems about `SingleFlight` and `DltGroup` | extends them |
| `AgentGraph` | the graph of one packet, its runs and their checkpoint | component |
| `GraphCache` | the compiled graph of a process, its tool catalog and prompt versions | component |
| `ModelCalls` | agent calls: circuit breaker, retries, slots, call limit, cancellation | component |
| `RuleContext` | rule and documentation lookups with their caches, prompts and case files | component |
| `ServiceRouting` | the service of a packet, and both stages of a lane around it | component |
| `LogFetch`, `LogReduce` | from the pods and Elasticsearch to a trace; from its lines to what the model is shown | components |
| `LogPipelineProofs` | theorems about `LogFetch` and `LogReduce` | extends them |
| `DltCase` | a dead-lettered record through both DLT routes, its claim and its files | component |
| `DltFinding` | how occurrences of one failure are concluded | component |
| `DltReplay` | code check, replay gate, parking and release | component |
| `CaseStore` | `update_json` and `create_json` on both backends | component |
| `Knowledge` | case directories, runbooks, learned rules, and the tools that change them | component |
| `ProcessDb` | the database tools of the agents | component |
| `AgentsProofs` | theorems about `AgentGraph`, `GraphCache` and `ServiceRouting` | extends them |
| `ModelCallsProofs` | theorems about `ModelCalls` and `RuleContext` | extends them |
| `RecordsProofs` | theorems about `DltCase`, `DltFinding`, `DltReplay` and `Knowledge` | extends them |
| `StoreProofs` | theorems about `CaseStore` and `ProcessDb` | extends them |
| `MCKafkaConsumer`, `MCRejectionLane`, `MCDltGroup` | the instances TLC checks | |
| `MCAgents`, `MCInvestigation`, `MCRecords` | instances of several components side by side | extend the components they check |

### KafkaConsumer

*Poll loop.* `pc[m]` is the place in `_poll_once`: `take`
(`take_committable`), `send` (`consumer.commit`), `dispatch`
(`_dispatch_backlog`), `poll`, `redispatch`; and in `_drain_and_commit`:
`drain`, `drainSend`, `closed`. The message `_handle_one_message` is working on
is `hand[m]`. A partition's backlog is the interval `head .. pos-1`; the order
in which the deque mixes partitions is left open.

*Offset tracker.* Each method takes the tracker's lock, so each is one step.
`TakeAll` retires offsets when it hands them out, before anything has been
committed, as the code does. `TrackCompleted` drops a completion whose offset is
not dispatched here.

*Workers.* `_process_and_commit` is a chain of steps per worker thread, with
the terminal save and the DLQ publish of a timeout in the code's order, and
every call able to fail. Whether the endpoint has written a casebook by the time
the worker stops waiting is nondeterministic.

*Group.* The broker accepts a commit only from the partition's owner. A
rebalance, an eviction the member learns of later, a crash, and a requested
shutdown each take one unit of `MaxFaults`. `OnPartitionsRevoked` is the whole
callback: drop the backlog, commit the floor, forget.

### RejectionLane

A *delivery* is one dispatch of the packet's message together with its request.
Deliveries overlap, because a rebalance redelivers a message another worker is
still waiting on. Every storage call of the route and of `_claim` is a step of
its own, so everything read before an `await` may be stale after it; `seen`
holds what a request carries across. The terminal save is two steps
(`casebook.json`, then `status.json`), and a process may die between them.

What the module abstracts:

* one packet, and one API process per delivery, so that requests share only
  storage; the in-process counter `_in_flight_events` is `InFlight`;
* `COMPLETED` stands for every verdict of the success path, which no guard of
  the lane tells apart;
* time is a clock of saturating ages. A tick cannot happen between two storage
  calls, past a due deadline, or while a cancelled run is in its last model
  call: storage calls and model calls are short beside the invoke budget.
  Comparisons of a claim's time with the abandonment's are Booleans
  (`claimNewer`, `seen.after`);
* `terminal_status` reads its two files in one step;
* the read errors `_is_finished` and `_abandoned_at` swallow are left out;
* `AtomicCreate` selects the backend: S3's conditional put, or the local
  `O_EXCL` file that exists before it is written.

### SingleFlight and DltGroup

`SingleFlight` sees `_entries` at one key. An `_Entry` is named by the request
that made it, so that a deleted entry and its successor are two objects, as they
are for the requests that still refer to them. Code between two awaits of
`flight` runs on the event loop and is one step.

`DltGroup` follows `analyze_dlt` from `record_occurrence` to the end of the
block. Each call of the group store runs on a thread of its own, so its steps
interleave: the create-only occurrence, the `meta.json` write with the
invalidation, the cache lookup, the reads, the `_cache_put`, the recommendation
write, and its invalidation. `ret[r]` says which of the route's five loads is
under way and `Returns` what the route does with the answer; an empty answer
leaves it with the group it had. The order in the route is the code's: decide,
check (which may replace the group), gate, load and decide again, serve or run,
attach, leave.

What the module abstracts:

* one fingerprint and one API process. The claims and the terminal check before
  `record_occurrence`, and the replay, parking and casebook after the block, are
  not part of it; requests of one burst are different cases;
* a group is the set of cases that occurred and whether a recommendation that
  may be reused is on file. `meta.json`, the code-check history and the frozen
  v1 record decide nothing here, and a group that has only a code check reads as
  none. The reads of one composition are one step, apart from the cache lookup
  before and the put after them;
* a record is `canned` (class B, C or U), `discrepancy` (contradicted or
  partial), or `plain`; reuse and single flight are enabled;
* `remaining()` is one Boolean, `spent`; `OwnWait` says whether the gate's wait
  has a bound of its own;
* the first-in first-out order of `asyncio.Lock`, which no property needs.

Three history variables say why a property has an exception: `published` (a
recommendation has been written and its cache entry dropped), `onFile` (requests
that got the gate after that), and `lost` (what a composition that was cached
late lacks).

### The agents' side

*AgentGraph* has one packet, the runs that execute the graph for it, and the
checkpoint they share. Each node of `agent_orchestrator.py` is one action, with
its early returns as guards: `FetchLogs`, the runbook lane (off, shadow or
serve), the log filter, `Investigate` and `Review` with the opencode harness or
its fallback, `Synthesize`, escalation. LangGraph writes the checkpoint after
each node, so a node that dies is run again from the state before it. A model's
reply is any reply its contract allows. The settings of a deployment and of the
packet's service are enumerated (`Setting`). A run the route no longer waits for
goes on in its thread to the end of its node. The three calls by which a node
writes (the replay tool, the rule tool, and the rule the harness Reviewer's reply
proposes) are each a check of `run_control.cancelled()` and, later, the act, with
the validation, the lock, the save or the post in between (`doing`): a run
abandoned in between still acts, since the check is not made again. A node makes
at most one such call that has an effect.

*GraphCache* is `get_agent` and `get_dlt_agent`: the published graph read
without the lock, the rebuild under it, the MCP catalog that is due to be listed
again after a failure, and the prompt store's refresh, whose slow fetches may
overtake each other. `EarlyCatalog` says whether the builder publishes the
catalog before the graph, as the DLT lane's does.

*ModelCalls* is one agent call: breaker around retry around an agent run that
asks the model again and again, a slot per model call, the limit on calls, and
cancellation.

*RuleContext* is what the agents are told of the rule: the parsed documentation
files keyed by their stat, the process-wide cache of rule lookups, the sections
of the prompt with the cut of the trace, and the case directory a harness task
reads, for either role. The documentation's file is written for a pack without a
rules database only and removed for the others (D13, `agent_orchestrator.py:428`),
so a harness task of such a pack may have less documentation than a direct agent
of the same packet; `SameEvidence` says that this is the only difference. Lengths
are in units, and the marker of a cut has as many digits as the number it states.
The Reviewer's older prompt (`REJECTION_REVIEWER_EVIDENCE=false`) is not modelled.

*ServiceRouting* follows one packet through both stages of a lane: the steps of
`resolve` in their order, each read of the map or the documentation a step of
its own, the gate, the persisted service, the artifacts, `LOGS_FETCHED` and the
publish. The map's file and the documentation directory are replaced meanwhile;
the directory's swap is two renames. The persisted resolution may fail to be
written, and a failed read of it is swallowed and resolves again.

*LogFetch* is one fetch at a time: discovery per service, merged round-robin
under the caps (a pod's turn is its round and its service, and the cap keeps the
pods whose first turns come first), reads in parallel under `Concurrency` with previous and current
instance apart, the deadline, the gaps, the two writes of the snapshot, and its
reuse by a later attempt; Elasticsearch page by page; and the chain of the two.
A record is the pod and the instance it comes from, labelled with the instance
the code takes it for. *LogReduce* takes a trace line by line through the
identifier filter and then, a stage at a time, through the noise floor, the
error window and its folds, the clusters with their examples and decision lines,
and the bound. Its properties compare what comes out with what went in: the window
of the matches, the lines below the level floor, the errors, the lines of each
template. There is no template catalog, and sizes are in entries.

### The DLT lane

*DltCase* is one record under several refIds: both routes, the consumer's skip
and its own timeout, the service gate of each route, and the claim on the case id:
created, judged by what was read of it, taken over by a plain write. A behaviour
picks its `backend`: a local claim exists before its text does, and one that names
nobody (half written, or unreadable, since `load` swallows the error) is taken over
whatever its age. *DltFinding* is what one
occurrence after another concludes: class, corroboration line by line, canned
text, reuse or the three agents, ceilings, what may be shared, and whether it is
worth a replay. *DltReplay* is the code check against a repository and pods that
move on, the veto, parking, and two release workers. The listings of commits come
from the process's cache: a file's whole history, kept for `Ttl` under its path
whatever packet asked for it, and cut to the commits since the failure after it
was read. The four DLT modules meet
at the calls of `analyze_dlt`: `DltCase` sees an analysis that takes time and
ends, `DltGroup` a model run, `DltFinding` a group that has a recommendation or
none, `DltReplay` a finding.

### What is kept

*CaseStore* is `update_json` and `create_json`. On S3 an update is load,
change, conditional put and retry, in the quoted or the bare form of the entity
tag, over stores that accept either, both or none; an answer may be lost after
the write was applied. On a local disk it is a lock, a read and a replace.
*Knowledge* has three separate topics: the files of a case with the pruner and
the reaper; drafts, promotion and serving of a runbook; and the list of proposed
rules. A draft shown before there is a final may be shown the version of the
service's `ANY` runbook, which `get_runbook` falls back to. A final that does not
parse, as after an edit by hand, is not modelled: `get_runbook` takes it for
none, and the version begins at 1 again. *ProcessDb* is the database tools' shared engine, retries and breaker
with two tools over them, the stage summary (a table the pipeline keeps
appending to) and the ABIS candidates (ranked, capped, and cut by bisection).

### Checked side by side

`MCAgents`, `MCInvestigation` and `MCRecords` extend several modules that share
no variable. A behaviour picks one part in `Init` (the constant `Parts`) and
moves that part only, the others staying in one initial state. The reachable
states are the sum of the parts', not their product, and a property of a part is
checked over all of that part's behaviours. Where two modules describe two sides
of one interface, each treats the other side as any behaviour it may show, as
listed above. Within a sum, interchangeable actors of different parts carry the
same model values, so that one swap is a symmetry of all of them; the liveness
run uses none.

## 3. What TLC checks

Passing runs:

| Run | Instance | Shows |
|---|---|---|
| `kafka_group` | 2 members with 2 workers, 1 partition, 2 messages, the last one poison, one fault, one lost commit, one DLQ fault | `TypeOK`; `ImplementsAtLeastOnce`: the group's position moves forward only past accounted messages, whoever owns the partition; `NoForeignTracking`; `NothingLeaks`: neither a permit nor a dispatched offset |
| `kafka_liveness` | 1 member, 2 workers, 2 messages, one skipped, two faults, fairness | `CommittedAccounted`, `EveryMessageAccounted`, `CompletedReachesBroker` |
| `lane_claims` | 2 deliveries, crash, claim error, DLQ fault, gate, atomic create | `TypeOK`, `OneInvestigation`, `ExpiredClaimIsDead`, `AnswerMeansSettled` |
| `lane_shutdown` | 2 deliveries, crash, drain, local backend | `CommittedRecorded`, `StatusImpliesCasebook` |
| `lane_liveness` | 2 deliveries, crash, fairness | `EventuallySettled`, `DuplicateAnswered` |
| `dlt_burst` | 2 requests of every kind, one store fault, a bounded wait, expiring cache and budgets, fairness | `TypeOK`, `OneLeader`, `GateReleased`, `OwnCaseCounted`, `WaiterReuses`, `ReuseHasText`, `EveryRequestEnds` |
| `investigation` | each part of an investigation from all its environments; safety | `ReviewIsHonoured`, `AnswerWithinLimits`, `GraphIsSound`, `CallsGuarded`, `TraceIsHonest`, `ReductionIsFaithful`, `FindingIsSound`, `RoutingIsSound`, `ContextIsSound`, `VerdictIsFinal` |
| `progress` | the parts that take time, smaller, fairness | `EveryInvestigationEnds`, `OutagesPass` |
| `records` | the parts that keep something, with faults; DLT claims on either backend, commits listed afresh or served from the cache for a tick | `RecordCarriedThrough`, `ReplayIsSafe`, `UpdatesAreAtomic`, `KnowledgeIsReviewed`, `RepliesAreTrue`, `RecordsStand` |

A property of `investigation`, `progress` or `records` is the conjunction of the named properties of one
component (or, for `VerdictIsFinal`, `RecordsStand` and the two liveness
properties, of one theme over the components); each part has a comment of its
own in its module, and `PROJECT.json` gives each part a mutation of the code
that breaks it. Where a part holds only with an exception, the exception is in
its formula and its comment: `OneAnalysis` excepts the local backend, a claim that outlived its TTL
and a claim store that failed, `NoChangeIsTrue` a commit younger than the listing,
`ReleasedOnce` the death of a release worker and two that overlap, `UnreadAnnounced` a pod whose read failed,
`OneService` two fetches at once, `CountedOnce` a member dropped at the cap.

Runs that show a disagreement between the code and what the repository says of
it (`findings` in `PROJECT.json` quotes both):

| Run | Property | What happens |
|---|---|---|
| `kafka_timeout_lost` | `NeverNowhere` | a timeout is recorded, its DLQ publish fails, and the redelivery skips the message because of the record |
| `lane_shutdown_skipped` | `CommittedSettled` | a packet the drain marked `FAILED_SHUTDOWN` is skipped by the consumer when it comes back, and never resumed |
| `dlt_fix_not_waited` | `WaitsForAll` | two commits touch the call path and one of them was cut: `FIX_DEPLOYED` does not wait for the other |

Others have a definition in the modules but no configuration of their own. Each
is seen by adding the property to the configuration named (and the constant
changed where one is given), `CompletedReachesBroker` as a `PROPERTY`,
`AbandonedNeverActs` as `[][AbandonedNeverActs]_vars`, `ProtectedVerdictStays` (boxed
already) as a `PROPERTY` too, the others as an `INVARIANT`:

| Property | Where | What happens |
|---|---|---|
| `CompletedReachesBroker` | `KafkaLiveness.cfg` with `MaxCommitFaults = 1` | a commit the broker refuses is never retried: its offsets left the tracker before it was sent (`kafkaConsumer.py:301`; the docstring at 279 says they are retried) |
| `OneInvestigation` | `LaneClaims.cfg` with `AtomicCreate = FALSE` | a duplicate reads the local claim file before it is written and takes it for one of infinite age (`storage/local.py:211`) |
| `ProtectedVerdictStays` | `LaneClaims.cfg` | `FAILED_TIMEOUT` lands between the late-result guard and the casebook write, and is overwritten (`routes.py:1361`) |
| `LeaderServesWaiters` | `DltBurst.cfg` | a composition read before the leader's recommendation is cached after its invalidation, and the next holder of the gate runs the model again (`group_store.py:417`) |
| `SkippedForCause` | `Investigation.cfg` | a packet placed only by its documentation, resolved between the two renames of the swap, is skipped for good (`reason_code_docs.py:293`, against :618) |
| `OutcomeKept` | `Records.cfg` | a pruned directory that holds only `outcome.json` is no record to the reaper, which removes it an hour later (`case_cleanup.py:54`, against `prune_casesheets.py:38`) |
| `CoverageTrue` | `Investigation.cfg` | a pod read that fails for another reason than 404 leaves no gap, and the coverage line claims a complete trace (`retrieval.py:333`) |
| `PreviousIsPrevious` | `Investigation.cfg` | a read that falls back to the current instance is labelled as the previous one (`retrieval.py:196`) |
| `OneAnalysisLocally` | `Records.cfg` | a second delivery reads a local claim between its creation and its text (`storage/local.py:211`, :115), takes it over from a live holder (`claims.py:131`; lines 30-33 and 132-135 speak of dead holders only), and both are analysed, since the first passes its check before the slower one saves |
| `NoChangeIsRecent` | `Records.cfg` with `Ttl = 2` | the empty list that becomes `NO_CHANGE` is meant to be reused for the shorter TTL (`bitbucket.py:178`, `README.md:846`); what is cached is the file's whole history, which is not empty (`bitbucket.py:361`), and it is cut only after it was read (:472) |
| `NoChangeIsCurrent` | `Records.cfg` | a commit that landed after the files were listed reads as no change, even when the failure is later than the listing (`bitbucket.py:463`) |
| `AbandonedNeverActs` | `Investigation.cfg` | a run abandoned after its call passed the check, and before the lock, the post or the save, still queues the replay (`tool_registry.py:536`, :575) or the rule (`agent_orchestrator.py:1324`, :1365) |
| `AbstainedNeverActs` | `Investigation.cfg` | the synthesis tool queues a replay before the confidence policy abstains (`models/synthesis.py:118`, against `prompts/SynthesisAgent.md:28`) |

Read while modelling, and not stated as properties:

* The rule lookup catches every exception itself (`tool_registry.py:401`), so
  the breaker and the retry around it never see a failure, and its failure texts
  do not match the prefixes `rejection_context.py:175` looks for: a failed
  lookup is presented as the authoritative rule.
* A packet whose replay the precheck withheld and which `park` then refuses is
  neither replayed nor waited for (`dlt_routes.py:996`, `parked.py:134`).
* `supported_logs.txt` of an earlier run stays when this run has no logs
  (`agent_orchestrator.py:416`), and the capped documentation may exceed its cap
  by a character, since its final marker may have a digit more than the one it
  was sized with (`reason_code_docs.py:677`).
* The drain looks for a verdict and then saves `FAILED_SHUTDOWN` (`routes.py:178`),
  so that a verdict saved in between is overwritten. `CommittedRecorded` and
  `StatusImpliesCasebook` allow it.
* The DLT lane publishes the tool catalog before the graph
  (`dlt/orchestrator.py:331`, `:350`), so that a packet may pair the new catalog
  with the old graph; `Investigation.cfg` with `EarlyCatalog = TRUE` shows it.
* The marker of the bound on the whole states how much longer the trace was than
  `LOG_MAX_REDUCED_CHARS` (`pipeline.py:328`), which is less than what was cut,
  since the marker's own room comes out of the trace too. `ErrorsShown` asks only
  that a cut says so.
* The clustered trace says of itself that rare templates "are kept in full"
  (`pipeline.py:436`); a template seen four times shows three of its lines, with
  the count (`reducer.py:377`).
* Overlapping release workers mark an entry from what they read earlier, so an
  entry can be replayed twice; `ReleasedOnce` therefore speaks of runs without
  such faults.

Two more consequences of a drain can be seen by giving `LaneClaims.cfg` a
`MaxShutdowns` of 1: `AnswerMeansSettled` fails, because a waiting duplicate is
answered when `FAILED_SHUTDOWN` is recorded, and `OneInvestigation` fails,
because a duplicate takes over the claim of an abandoned run that still
executes. `lane_claims` therefore runs without a drain, and `lane_shutdown`
checks what does hold with one.

The late `_cache_put` of `LeaderServesWaiters` is the exception `lost` in three
properties of `dlt_burst`. Without it `OwnCaseCounted` fails too (the count in
the casebook then leaves out the case it describes), and with a third request
so does `ReuseHasText` (the reload of `attach_code_check` replaces a group that
has the recommendation by one that has none, and `DltFinding(**None)` raises).
What `dlt_burst`, and the proofs for any number of requests, show is that
nothing else breaks them.

### Bounds

* Two messages in a partition are what out-of-order completion needs: the later
  one completes, the earlier one runs. Two members make a foreign owner,
  and two workers make the permits worth counting. The theorems cover any
  number of partitions.
* A crash, eviction, rebalance or shutdown (`MaxFaults`) can fall at any step;
  each fault needs only one occurrence to separate two steps of the code.
  `MaxCommitFaults` and `MaxDlqFaults` count calls that raise.
* Two deliveries are a run and its duplicate. With three, `OneInvestigation` is
  not claimed: two redeliveries can both take over the claim of a dead run,
  which `packet_claims.py` accepts.
* `Budget`, `DuplicateWait`, `ClientTimeout`, `StaleAge` and `ClaimTtl` keep the
  order the defaults have (`ClaimTtl` is twice the budget), each a tick or two
  long. `lane_claims` uses a client timeout equal to the budget, so that the
  consumer's timeout races the route's.

* Two requests are a leader and a waiter, or a writer and a reader with a stale
  composition. `MaxFaults` counts group-store calls that raise, at any step. The
  theorems cover bursts of any size.

* `investigation`: two runs of the graph are an abandoned one and the one that
  resumes its packet; two reviews are a rejection and the bound. Three pods of
  two services, with overlapping matches, pending, restarted and late ones,
  make every kind of gap, and two fetches make a reused snapshot. Five lines
  make windows that overlap and a trace that is clustered; the thresholds of the
  reduction are a few lines instead of dozens, in the code's order. Two calls
  contend for one slot. One reload of the map or the documentation falls at any
  step of two requests; one edit, outage or death falls at any step of two
  packets' lookups.
* `records`: two refIds and three deliveries make a duplicate and a redelivery;
  two commits, one of them cut, make a candidate that is and one that is not
  deployed; a TTL of one tick makes a listing older than a commit and one that is no
  longer served, in behaviours that park nothing and analyse the packet once, while
  others' analyses list files around it; on the local backend each refId is delivered
  once, and only there is a service switched off, which does not depend on the
  backend; three jobs over three cases make an update lose twice to others and
  reach the member cap; five kinds of store are the ones `s3.py` tells apart and
  the local disk; three rows and three ranked candidates exceed their caps.
* `progress` has one run of the graph, one fetch, one occurrence and two worlds,
  since liveness needs the loops and not the variety.

Deadlock is checked for the consumer. A lane's deliveries, a burst's requests
and the parts of the last three runs are finite, so they may stop, and their
configurations switch deadlock checking off.

### Fairness

* Consumer: the poll loop is a `while` that blocks only in bounded calls, and
  every call of a worker has a timeout, so both are weakly fair. `poll()`
  returns records and hands out partitions, and an eviction is noticed, if asked
  often enough: strong fairness of `PollRecords`, `Assign` and `LearnEviction`,
  since the loop is at `poll` only now and then. A closed process is restarted.
  No fairness on faults.
* Lane: the consumer's and the request's threads, a drain that has begun, a
  cancelled run's stop at its next step, and time, are weakly fair. The graph
  itself is not: nothing makes an agent run end, and the properties rest on the
  budget and the duplicate's bounded wait.

* Burst: a request's coroutine and threads, and the passing of its budget, are
  weakly fair. A model run is not: only the budget ends it. The cache need not
  expire.

* Investigation: a thread that can go on does, and one that waits for a lock or
  a slot that is freed again and again is given it (strong fairness). Packets
  keep asking for the graph and calling agents; a prompt server that answers
  again and again answers some fetch of each packet; retry intervals, the
  breaker's timeout and the fetch deadline pass. Nothing makes a pod read or an
  outage end. `ToolsReturn` supposes that the servers come back for good and
  that a sound prompt version is published.

## 4. What is proved

### KafkaConsumerProofs

For every set of members and partitions, every log
length, pool size, poll size, set of poison and skipped messages, and every
fault budget. The only assumption is `ConstantsAssumption` (numbers are
naturals, the message sets are sets of messages, `NoMember` is no member).

| Theorem | Statement |
|---|---|
| `TypeCorrect` | `Spec => []TypeOK`; in particular the semaphore never goes negative |
| `CommitIsSafe` | `Spec => []CommittedAccounted` |
| `OwnPartitionsOnly` | `Spec => []NoForeignTracking` |
| `BooksBalance` | `Spec => []NothingLeaks` |
| `SubmitFindsThread` | a message in the poll loop's hand always finds an idle worker |
| `GroupImplementsAtLeastOnce` | `Spec => ImplementsAtLeastOnce` |

`CommittedAccounted` is not inductive: it does not say why an offset about to be
committed is accounted for. The invariant `SafeInv` adds what the tracker and
the threads know:

* `TrackerSound`: completed offsets are dispatched, accounted for and below the
  backlog;
* `NothingPassedOver`: for a partition a member has been assigned, everything
  below its backlog is accounted for or still dispatched. With `TrackerSound`
  this makes the floor safe: what lies below the lowest running offset has been
  dealt with. An abandoned offset leaves the tracker only after its DLQ publish;
* `BacklogOwned`: only an assigned partition has a backlog, so that a pop
  dispatches only what the member owns;
* `PendingSound`: the floors taken from the tracker stay accounted for until
  they are sent;
* `WorkersSound`: a worker about to complete or abandon holds an accounted
  message. It is what makes a completion from a worker of an earlier generation
  of the same partition harmless;
* `NoForeignTracking`: nothing is tracked for a partition that is not assigned,
  so `Assign` starts from an empty tracker at the committed position.

Accounting never goes back (`acked` and `dlq` grow and a case never returns to
`none`), which is a lemma of its own. The proof has one lemma per action and one
step per conjunct the action can disturb.

On top of `SafeInv` are the books and the refinement.

Permits: `HandHolds` (the poll loop holds one message at most) makes the sum of
free permits, busy workers and the hand the constant `MaxConcurrent`; each
action moves one unit between two of the three. That a submit finds a thread
follows. Offsets: `NoStrandedOffset` needs `HoldsAfterFault`, that a worker gives
up its offset without telling the tracker only after a DLQ fault; then
`RunningShrinks` says that whoever reports an offset is no longer waited for.

The refinement maps the group's committed offsets to the abstract position and
what is accounted for to the settled messages. A commit of the group must be a
`Commit` of the abstract one, which never moves back: `ForwardInv` says that the
owner of a partition works only at or above its committed position (`OwnerAhead`),
and that a floor on its way to the broker is below whatever is still tracked
(`PendBelowTracked`). A commit the broker refuses, or that
comes from a former owner, is a stutter; every other action settles messages or
stutters (`GroupSteps`).

### DltGroupProofs

For every finite set of requests and every fault budget, with `RequestAssumption`
and `GroupAssumption`.

| Theorem | Statement |
|---|---|
| `GateIsMutex` | `GateSpec => [](OneLeader /\ GateReleased)`: the gate by itself, whatever its users do |
| `BurstHasOneLeader`, `BurstReleasesGate` | the same for `DltGroup`'s `Spec` |
| `TypeCorrect` | `Spec => []TypeOK` |
| `BurstCountsOwnCase` | `Spec => []OwnCaseCounted` |
| `BurstReusesLeader` | `Spec => []WaiterReuses` |
| `BurstReuseHasText` | `Spec => []ReuseHasText` |

The gate's invariant `GateInv` adds that the reference count of an entry is the
number of requests that refer to it, that every one of them refers to the entry
in the table, and that a held lock has one holder. Without the count, the step that
deletes an entry could leave a waiter behind on it, and the next arrival would
make a second one. Every action of `DltGroup` is a step of `GateNext` or leaves
the gate alone (`GateStep`), so the burst inherits it.

The cache's three invariants say where a fact is between the write and the read
that needs it:

* `OwnInv`: from its creation on an occurrence is in the store; once its writer
  has invalidated, it is in whatever is cached, or in `lost`; a load that is about
  to cache has it;
* `PublishedInv`: after a publication the same holds of the recommendation, and a
  request that took the gate later is still on its way to be served;
* `ReuseInv`: a recommendation once read is on file, and a request that decided to
  reuse keeps one through the reload.

They are independent: each is inductive with `TypeOK` alone.

### RejectionLaneProofs

For every set of deliveries, every length of the time constants and every fault
budget, with `LaneAssumption`.

| Theorem | Statement | Hypotheses |
|---|---|---|
| `TypeCorrect` | `Spec => []TypeOK` | |
| `StatusHasCasebook` | `Spec => []StatusImpliesCasebook` | |
| `CommitIsRecorded` | `Spec => []CommittedRecorded` | |
| `AnswerIsSettled` | `AnswerMeansSettled` while no drain has begun | |
| `ExpiredClaimHasNoRun` | `Spec => []ExpiredClaimIsDead` | `Budget <= ClaimTtl` |
| `InvestigatedOnce` | `OneInvestigation` while no drain has begun | `AtomicCreate`, `Budget <= ClaimTtl`, at most two deliveries |

* `RecordInv` serves the second and third: who is between the two writes of a
  save has written `casebook.json` (`SavesInOrder`), and a request that was
  answered has a verdict or the gate behind it (`AnswersRecorded`).
* `NoAbandonment`: before a drain nobody has seen or written `FAILED_SHUTDOWN`, so
  every terminal record is one a duplicate may be answered with.
* `ClaimOfLiveRun`: the claim is not older than the time its live run has been
  executing, and that is within the budget. A takeover only makes it younger.
* `OneRequestEach`, `ClaimHeld` and `OneActive` make up the last one. `OneActive`
  alone is not inductive: a request that found the claim old acts on that later,
  so it also says that nobody is on the way to a takeover while a run is active.

The hypotheses are the code's: `PACKET_CLAIM_TTL_SECONDS` defaults to twice the
budget and may be set to anything, and below the budget a live run's claim can
be taken. The local backend's create is not atomic, a drained run is not stopped
(§3), and three deliveries of a dead run's packet can take over twice. The two
conditions on the past, `shutdowns = 0` and the `claimErrors = 0` of the
properties, are about faults that did not happen, not about constants: the
behaviours spoken of are those up to the first drain, or the first failure of the
claim store, which `packet_claims.py` answers by going ahead without a claim.

### LogPipelineProofs

| Theorem | Statement | Assumption |
|---|---|---|
| `TracesAreHonest` | `FetchSpec => []TraceIsHonest` | `FetchAssumption` |
| `ReductionsAreFaithful` | `ReduceSpec => []ReductionIsFaithful` | `ReduceAssumption` |

*The fetch.* For every set of pods and of worlds: any number of services and
matches, any caps, any order and length of the chain of sources.
`FetchInv` follows a trace from the reads to the artifact. `ReadingInv`: while pods
are read, no gap so far means that every pod found is a target, only an unfinished
read has returned lines that are not redacted, and a pod that vanished left its
gap. `SavingInv` and `AnsweredInv` carry this through the two writes and the choice of
a source. `SnapInv` is about what survives a crash: a capture with its meta
announces what it lacks by one of the gaps that a reuse keeps (`LossGaps`), and
those that a reuse judges again are the ones its own spans are judged to; without
that, a rebuilt trace could drop the gap that announced a loss. `ConfirmedInv` is
what makes an empty trace without a banner one where every source looked.

`SharesAreFair` is about the caps. Of a service that keeps *c* of its pods, one has
its turn in round *c* or later, and the first *c* - 1 pods of every other service
have had theirs. It rests on `RanksAre` (distinct numbers rank a finite set 1 to
its size) and `FirstTurnIs` (no two pods have the same first turn). The hypothesis
that no other service matches the pods of the larger one is needed: the rounds of a
third service that matches them too bring them forward, and with three services and
a cap of four one can keep three pods and another one. The docstring
(`discovery.py:565`) says evenly without this exception.

*The reduction.* For every set of lines (any levels and templates), every length of
the input, and any windows, thresholds and limits, zero included.
`ReductionIsFaithful` speaks of single stages, and each needs to know what the
stages before it left:

* `Selecting` is the selector's loop invariant. What is emitted is what the matches
  so far cover; the ring holds the last lines not emitted, and of the lines fed
  before it none is in a window that may still open; `afterLeft` is how far the
  last match reaches. With the properties' own words alone (`SelectorExact` speaks
  of the end only) a line could leave the ring too early, or be emitted twice by
  two matches closer than the window.
* `WorkSound`: the stages after the selector work on some of the emitted lines, and
  on all of the errors among them. `ErrorAbove` is why the noise floor keeps those:
  the floor is never above `WARN`, whatever `LOG_MIN_LEVEL` is set to.
* The accounting of a stage (`WindowAccounted`, `ClustersAccounted`,
  `DecisionsAnnounced`) is established by that stage alone. `StageMoves` is the
  step they have in common.

The operators have lemmas of their own, for lists of any length. `PlacesAre` shows
that the places of a finite set of numbers are its members, each once and in
order, so that what `Only` picks grows and shows exactly what it was asked for
(`OnlyIs`, `OnlyGrows`), as many as there are. `Grows` makes two lists that show
the same lines have the same length. `FoldKeeps` and `ClustersAre` turn on the
first line of a template: there is one, and no second entry can claim to be it.
`BoundIs` adds head, tail and the number left out to the length of the list, for
odd and even limits, and `MarkedAre` counts decision entries as lines.

### AgentsProofs

For every set of runs, packets, requests and services, from `GraphAssumption`,
`CacheAssumption` and `RoutingAssumption`.

| Theorem | Statement | Hypotheses |
|---|---|---|
| `PromptsAreChecked` | `CacheTypeOK` and `BadNeverUsed`, in both lanes | |
| `LookupsAreSound` | `CacheSpec => []GraphIsSound` | `EarlyCatalog = FALSE` |
| `ReviewsAreHonoured` | `GraphSpec => []ReviewIsHonoured` | |
| `AnswersKeepLimits` | `GraphSpec => []AnswerWithinLimits` | |
| `AbandonedWithinOneCall` | `GraphSpec => [][AbandonedBeginsNoAct]_graphVars` | |
| `RoutingsAreSound` | `RoutingSpec => []RoutingIsSound` | |
| `VerdictOutlivesFetch` | `RoutingSpec => [][VerdictSurvivesFetch]_routingVars` | |

* *The cached graph.* `CompleteInv` follows a complete catalog from the
  listing through the build to the lookup that pairs it with the graph. The step that
  publishes the catalog is where it needs the graph published before: with the
  DLT lane's builder (`EarlyCatalog = TRUE`) it fails, as §3 reports, and
  `PromptsAreChecked` is what that lane is left with.
* *The graph.* `Sound(n, v)` says what the values `v` hold when node `n` is next:
  the reviews and the rejections counted so far, and at `synthesize` an approval
  of the attempt at hand. `GraphInv` asks it of every run and of the checkpoint,
  since a resumed run starts with the checkpoint's values at the checkpoint's
  node. With the properties' own words alone, a crash would forget why Synthesis
  may go on.
* *The abandoned run.* `CallInv` says that only a run at a node is inside a call
  that writes. What is queued is then queued by a call that passed its check, and
  no call passes it once its run was given up, whatever other runs do.
* *The routing.* `MapInv`: signatures of the map's file grow, and what was read is
  filed under a signature that is the file's only if it is still that file.
  `OneServiceInv`: while fetches do not overlap and nothing failed, what a request
  goes by is what is stored, and the logs are that service's. `BlankInv` and
  `ConcludedInv` order the first write after the gate and the casebook before the
  status.

### ModelCallsProofs

| Theorem | Statement |
|---|---|
| `GuardsHold` | `CallsSpec => []CallsGuarded` |
| `PromptsAreTrue` | `ContextSpec => []ContextIsSound` |

`GuardsHold` is for every finite set of calls and every number of slots,
attempts and breaker failures (`CallsAssumption`). Its `CallsInv` counts slots as
the members of `Calling` and adds that a call about to ask the model has not used
up its model calls, nor a call in backoff its attempts.

`PromptsAreTrue` is for every set of packets and files, every collection of
documents and rule tables, every cap and every number of edits and outages
(`ContextAssumption`). `ContextInv` has three parts:

* `StoreTyped`: the parsed cache of a file is never newer than the file, and
  never holds a torn one;
* `RunsInv`: of each lookup, that it reads the packet's own file first and others
  only if that said nothing (`OwnFirst`, `DocIsOwn`); that what it goes on to read
  is not older than what was there when it began (`LookupCurrent`); and that a
  failed rule lookup in its hands is one of its own (`FailureOwn`);
* `PromptsInv`: the prompt fits its cap (`FitsCap`), and between Investigation and
  Review the evidence shown is the evidence held (`Evidence`), the documentation
  with the exception of D13.

### RecordsProofs

| Theorem | Statement | Assumption |
|---|---|---|
| `RecordIsCarried` | `CaseSpec => []RecordCarriedThrough`, on both backends | `DltCaseAssumption` |
| `VerdictsStand` | `CaseSpec => [][SettledStaysSettled]_caseVars` | `DltCaseAssumption` |
| `FindingsAreSound` | `FindingSpec => []FindingIsSound` | `FindingAssumption` |
| `ReplaysAreSafe` | `ReplaySpec => []ReplayIsSafe` | `ReplayAssumption` |
| `TaughtWasReviewed` | `KnowledgeSpec => []KnowledgeIsReviewed` | `KnowledgeAssumption` |
| `KnowledgeStands` | the pruner, the reaper, promotion and the rules tool undo nothing on record, step by step | `KnowledgeAssumption` |

* *The case.* `CaseInv`: a verdict is in the casebook before it shows anywhere
  (`BookInv`); what is queued has its logs (`LogsInv`); a delivery about to judge
  while the claim names it has read of itself or of nobody (`ClaimSeen`); until there
  is an outcome the claim's holder is on its way, or, while the claim names nobody,
  some delivery that has not read of another holder (`Covered`, which is why a
  duplicate may be dropped); and on S3, while no claim outlived its TTL and the store
  answers, only the first holder's record goes on (`FirstHolderOnly`).
* *The finding.* `FindingInv` carries the source of a finding from where it is
  made to where it is used: an approval from the review to the synthesis
  (`ReviewsInv`), the provenance to the policy (`SourceInv`), what was fit to be
  shared to the occurrence that reuses it (`OnFileInv`), the labels past the
  policy (`PolicyInv`). `ClassIs`, `OwnLinesAccuse` and `ApplyPolicyIs` are lemmas
  about the operators, for a log text of any length.
* *The replay.* `ReplayInv` relates four clocks: commits, cut versions, pods and the
  code check's reading. `ListedInv` is about the listings: what one does not know of
  landed no longer than a TTL before it stops being served, from which
  `NoChangeIsTrue` follows for every time at which it is used. `Backed(n, seen)` says
  that version `n` has a commit of the call path among those seen, `Behind(n)` that
  every pod runs it; both stay true as the world moves on. `EntryInv`, `ReleaserInv` and `SendsInv` pass them from the
  check to the parked entry, to the worker's judgement, and to the record sent.
  `OnceInv` finds the one replay on record or about to be. The version that holds a
  commit is a minimum of a set of numbers; `LeastNatural` and `GreatestNatural`,
  proved from the well-foundedness of `<` on the naturals, give it.
* *What is learned.* `FilesInv` relates a deleter's choice to the directory, unless
  that was written to since (`raced`); `BooksInv` says that draft, final, cached and
  served runbook texts were accepted; `RulesInv` that one tool at a time is at the
  pending rules, unless one was killed.

### StoreProofs

| Theorem | Statement |
|---|---|
| `StoreIsAtomic` | `StoreSpec => []UpdatesAreAtomic` |
| `RepliesAreHonest` | `ProcessDbSpec => []RepliesAreTrue` |

*The case store.* For every set of processes and cases, every retry limit and
member cap, and all five kinds of store (`StoreAssumption`). `StoreInv` says that the tag a call holds,
if it is still the record's, names the document it holds (`ReadIsCurrent`): the
conditional put then loses nothing. That a call gives up only for cause needs
`Overtaken`: between two attempts the record has a new revision, as long as the
store takes one of the forms still to be tried (`StyleInv`). The local disk has
`OneLocker` instead. `MutateKeeps` shows that appending a member and cutting at
the cap keeps the document's count and list in step.

*The pipeline's database.* For every set of lookups and substages, every cap and
breaker limit, and every set of helper records whose matches are a sequence with
natural scores (`ProcessDbAssumption`). `DbInv` says that a reply is a gap or what
the rows it was read from say, and that the rows are in order (`InOrder`): an
attempt is begun before it ends and after those before it. `NewestIs` needs the
order, since only the newest rows are read: those of an attempt in progress, and of
any later attempt, are among them.

`ListingIsWhole` and `BestAreShown` are about what `Ranked` and `Shrunk` compute.
`PlacesAre` shows that a place in the ranking is the number of candidates that
outrank it, which differ since `Outranks` is a strict total order
(`OutranksOrders`), so that `Ranked` is a bijection. `ShrunkIs` shows that no prefix
longer than the one the bisection finds fits. Both `TotalOf` and `Shrunk` are recursive
functions: `SumExists` and `BisectionExists` show that their equations have a
solution, and `SetInduction`, which is induction with a set of numbers in place of
a predicate, carries a fact along the recursion.

### Only model-checked

* Liveness: fairness and `ENABLED` are outside the prover's reach. These are
  `EveryMessageAccounted`, `CompletedReachesBroker`, `EventuallySettled`,
  `DuplicateAnswered`, `EveryRequestEnds`, `EveryInvestigationEnds` and
  `OutagesPass`.
* `VerdictIsFinal` and `RecordsStand` as a whole, since each is a conjunction over
  components whose theorems are in different modules. `AbandonedWithinOneCall` and
  `VerdictOutlivesFetch` prove the conjuncts of the first, `VerdictsStand` and
  `KnowledgeStands` those of the second.

## 5. Not modelled

* Message contents, prompts and casebook text; the regular expressions of
  redaction, header and stack-trace parsing, which are string functions without
  state; the validation of registry and model shapes.
* Metrics, traces and log lines, which no decision reads.
* The library code of Kafka, langgraph, boto3, the MCP transport, and the
  opencode child process, whose calls return, fail or hang.
* Start-up order, the rate limiter, the read-only routes, the one-shot
  reporting tools, `approve_replays`, the cap on parked entries, and the
  migration of v1 groups.
* The components of one sum are not composed with each other: an investigation
  in `RejectionLane` is a run that checkpoints, ends, raises or overstays, which
  is what `AgentGraph` shows of itself, and no state is shared beyond that. The
  one exception is `status.json`, which `ServiceRouting` and `RejectionLane` each
  model with the other side's writes.

## 6. Plan

Every safety invariant of the runs is proved, every action property in all of its
parts, and the refinement; what remains model-checked is the liveness of §4.
Worth doing when the code next changes:

1. a catalog in `LogReduce`, with the precedence of boilerplate over rarity;
2. the migration of v1 groups and the cap on parked entries;
3. the `status.json` of `ServiceRouting` and `RejectionLane` in one module.
