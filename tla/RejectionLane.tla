--------------------------- MODULE RejectionLane ---------------------------
(***************************************************************************)
(* One rejected packet in the analysis lane: its deliveries by the slow    *)
(* consumer (src/utils/kafkaConsumer.py, message_adapters.py), the         *)
(* requests they become in POST /analyze-rejection                         *)
(* (_investigate_packet, src/api/routes.py), the packet claim              *)
(* (src/utils/packet_claims.py), and the two files of the case storage     *)
(* that carry its verdict, casebook.json and status.json.                  *)
(*                                                                         *)
(* A delivery d stands for one dispatch of the message together with the   *)
(* request it makes.  Deliveries overlap: a rebalance redelivers a message *)
(* another worker is still waiting on.  Each request is served by an API   *)
(* process of its own, so that requests of the packet share nothing but    *)
(* the claim, the two files and the graph's checkpoint.                    *)
(*                                                                         *)
(* Time is a clock of ages that saturate where no test looks further.      *)
(* Storage calls take no time: only runs, waits and quiet periods do.      *)
(***************************************************************************)
EXTENDS Integers

CONSTANTS Delivery,        \* deliveries of the packet
          Budget,          \* AGENT_INVOKE_TIMEOUT_SECONDS
          DuplicateWait,   \* DUPLICATE_WAIT_SECONDS
          ClientTimeout,   \* PACKET_TIMEOUT_SECONDS, the consumer's own
          StaleAge,        \* MAX_IN_PROGRESS_AGE_SECONDS
          ClaimTtl,        \* claim_ttl_seconds()
          AtomicCreate,    \* create_json never shows an empty file (S3)
          GateMaySkip,     \* the packet's service may be switched off
          MaxCrashes,      \* bound: processes lost, API or consumer
          MaxShutdowns,    \* bound: API processes drained
          MaxClaimErrors,  \* bound: claim stores that raise
          MaxDlqFaults     \* bound: DLQ publishes that raise

ASSUME LaneAssumption ==
    /\ Budget \in Nat \ {0} /\ DuplicateWait \in Nat /\ ClientTimeout \in Nat
    /\ StaleAge \in Nat /\ ClaimTtl \in Nat
    /\ AtomicCreate \in BOOLEAN /\ GateMaySkip \in BOOLEAN
    /\ MaxCrashes \in Nat /\ MaxShutdowns \in Nat
    /\ MaxClaimErrors \in Nat /\ MaxDlqFaults \in Nat

(* COMPLETED stands for every verdict of the API's own success path:       *)
(* REJECTED, NEEDS_MANUAL_REVIEW and FAILED_SYNTHESIS_PARSE are told apart *)
(* by no guard of the lane.                                                *)
Protected == {"FAILED_TIMEOUT", "DLQ"}
Redeliverable == {"FAILED_SHUTDOWN"}
Terminal == {"COMPLETED"} \cup Protected \cup Redeliverable

VARIABLES
    casebook,    \* status in casebook.json, or "none"
    status,      \* status in status.json, or "none"
    started,     \* age of status.json's started_at
    claim,       \* claim.json: "absent", "empty" (created, not written), "full"
    claimAge,    \* age of its claimed_at
    claimNewer,  \* claimed_at > the casebook's abandoned_at
    checkpoint,  \* the graph thread has a next node to resume from
    inDlq,       \* the packet is on the dead-letter queue
    gated,       \* the service gate has let the packet go
    released,    \* a worker completed or abandoned the offset: the group
                 \* may move past the packet
    cons,        \* per delivery: the consumer worker
    api,         \* per delivery: the request
    clock,       \* per delivery: time in the request's current run or wait
    waited,      \* per delivery: time since the consumer sent the request
    seen,        \* per delivery: what the request remembers
    graph,       \* per delivery: its agent run is executing in a thread
    drain,       \* per delivery: shutdown of the process serving it
    crashes, shutdowns, claimErrors, dlqFaults

caseVars == <<casebook, status, started>>
claimVars == <<claim, claimAge, claimNewer>>
consVars == <<released, cons, waited>>
budgets == <<crashes, shutdowns, claimErrors, dlqFaults>>
vars == <<caseVars, claimVars, checkpoint, inDlq, gated, consVars, api, clock,
          seen, graph, drain, budgets>>

ConsPc == {"unsent", "check", "sent", "save1", "save2", "dlqTimeout",
           "dlqError", "done", "dead"}
ShortApiPc == {"loadCase", "loadStatus", "getState", "claim", "fillClaim",
               "readClaim", "judgeAbandoned", "judgeFinished", "takeOver",
               "stub", "guard", "save1", "save2", "dlqThenSave", "dlqThenOk"}
ApiPc == {"none", "running", "wait", "ok", "err", "dead"} \cup ShortApiPc
DrainPc == {"no", "check", "save1", "save2", "exit"}

(* What a request carries across its awaits: status.json was a live        *)
(* IN_PROGRESS, a checkpoint was active, the claim it read is older than   *)
(* the TTL, that claim and its own timestamp are newer than the            *)
(* abandonment, and the verdict it is about to save.                       *)
Seen == [busy : BOOLEAN, resume : BOOLEAN, old : BOOLEAN, newer : BOOLEAN,
         after : BOOLEAN, verdict : Terminal]
NothingSeen == [busy |-> FALSE, resume |-> FALSE, old |-> FALSE,
                newer |-> FALSE, after |-> FALSE, verdict |-> "COMPLETED"]

\* Well-typed states.
TypeOK ==
    /\ casebook \in Terminal \cup {"none"}
    /\ status \in Terminal \cup {"none", "IN_PROGRESS"}
    /\ started \in 0 .. StaleAge + 1
    /\ claim \in {"absent", "empty", "full"}
    /\ claimAge \in 0 .. ClaimTtl + 1
    /\ claimNewer \in BOOLEAN /\ checkpoint \in BOOLEAN /\ inDlq \in BOOLEAN
    /\ gated \in BOOLEAN /\ released \in BOOLEAN
    /\ cons \in [Delivery -> ConsPc]
    /\ api \in [Delivery -> ApiPc]
    /\ clock \in [Delivery -> Nat]
    /\ waited \in [Delivery -> Nat]
    /\ seen \in [Delivery -> Seen]
    /\ graph \in [Delivery -> BOOLEAN]
    /\ drain \in [Delivery -> DrainPc]
    /\ crashes \in 0 .. MaxCrashes
    /\ shutdowns \in 0 .. MaxShutdowns
    /\ claimErrors \in 0 .. MaxClaimErrors
    /\ dlqFaults \in 0 .. MaxDlqFaults

Init ==
    /\ casebook = "none" /\ status = "none" /\ started = 0
    /\ claim = "absent" /\ claimAge = 0 /\ claimNewer = FALSE
    /\ checkpoint = FALSE /\ inDlq = FALSE /\ gated = FALSE
    /\ released = FALSE
    /\ cons = [d \in Delivery |-> "unsent"]
    /\ api = [d \in Delivery |-> "none"]
    /\ clock = [d \in Delivery |-> 0]
    /\ waited = [d \in Delivery |-> 0]
    /\ seen = [d \in Delivery |-> NothingSeen]
    /\ graph = [d \in Delivery |-> FALSE]
    /\ drain = [d \in Delivery |-> "no"]
    /\ crashes = 0 /\ shutdowns = 0 /\ claimErrors = 0 /\ dlqFaults = 0

----------------------------------------------------------------------------
(* The two files. *)

(* terminal_status: status.json first, then casebook.json. *)
TerminalStatus == IF status \in Terminal THEN status ELSE casebook
IsTerminal == TerminalStatus \in Terminal

(* save_terminal writes casebook.json, then status.json; a process may die *)
(* between the two.                                                        *)
WriteCasebook(v) == casebook' = v /\ UNCHANGED <<status, started>>
WriteStatus(v) == status' = v /\ UNCHANGED <<casebook, started>>

(* publish_to_dlq: with acks=all, or it raises. *)
DlqRaises ==
    /\ dlqFaults < MaxDlqFaults
    /\ dlqFaults' = dlqFaults + 1
    /\ UNCHANGED <<inDlq, crashes, shutdowns, claimErrors>>

DlqAccepts == inDlq' = TRUE /\ UNCHANGED budgets

----------------------------------------------------------------------------
(* The consumer worker of delivery d. *)

ConsAt(d, at) == cons[d] = at
ConsGoto(d, next) == cons' = [cons EXCEPT ![d] = next]
ConsOnly == UNCHANGED <<claimVars, checkpoint, gated, api, clock, seen, graph,
                        drain>>

(* The broker delivers the packet, again after a rebalance or a restart:   *)
(* an offset that was released may still be short of its commit.           *)
Deliver(d) ==
    /\ ConsAt(d, "unsent")
    /\ ConsGoto(d, "check")
    /\ ConsOnly
    /\ UNCHANGED <<caseVars, inDlq, released, waited, budgets>>

(* RejectionAdapter.should_skip: casebook.json is in any terminal status.  *)
SkipDelivery(d) ==
    /\ ConsAt(d, "check")
    /\ casebook \in Terminal
    /\ ConsGoto(d, "done")
    /\ released' = TRUE
    /\ ConsOnly
    /\ UNCHANGED <<caseVars, inDlq, waited, budgets>>

SendRequest(d) ==
    /\ ConsAt(d, "check")
    /\ casebook \notin Terminal
    /\ ConsGoto(d, "sent")
    /\ waited' = [waited EXCEPT ![d] = 0]
    /\ api' = [api EXCEPT ![d] = "loadCase"]
    /\ UNCHANGED <<caseVars, claimVars, checkpoint, inDlq, gated, released,
                   clock, seen, graph, drain, budgets>>

(* 2xx: the offset is completed. *)
RequestAnswered(d) ==
    /\ ConsAt(d, "sent")
    /\ api[d] = "ok"
    /\ ConsGoto(d, "done")
    /\ released' = TRUE
    /\ ConsOnly
    /\ UNCHANGED <<caseVars, inDlq, waited, budgets>>

(* Mutant: a failed request is logged and dropped. *)
RequestFailsSilently(d) ==
    /\ ConsAt(d, "sent")
    /\ api[d] \in {"err", "dead"}
    /\ ConsGoto(d, "done")
    /\ ConsOnly
    /\ UNCHANGED <<caseVars, inDlq, released, waited, budgets>>

(* An error status, or a connection the API process took down with it. *)
RequestFails(d) ==
    /\ ConsAt(d, "sent")
    /\ api[d] \in {"err", "dead"}
    /\ ConsGoto(d, "dlqError")
    /\ ConsOnly
    /\ UNCHANGED <<caseVars, inDlq, released, waited, budgets>>

(* requests.exceptions.Timeout; the request itself runs on. *)
RequestTimesOut(d) ==
    /\ ConsAt(d, "sent")
    /\ api[d] \notin {"ok", "err", "dead"}
    /\ waited[d] >= ClientTimeout
    /\ ConsGoto(d, "save1")
    /\ ConsOnly
    /\ UNCHANGED <<caseVars, inDlq, released, waited, budgets>>

(* RejectionAdapter.save_terminal(FAILED_TIMEOUT), best effort. *)
ConsumerSaves(d) ==
    /\ \/ ConsAt(d, "save1") /\ WriteCasebook("FAILED_TIMEOUT")
                             /\ ConsGoto(d, "save2")
       \/ ConsAt(d, "save2") /\ WriteStatus("FAILED_TIMEOUT")
                             /\ ConsGoto(d, "dlqTimeout")
       \/ cons[d] \in {"save1", "save2"} /\ UNCHANGED caseVars
                                         /\ ConsGoto(d, "dlqTimeout")
    /\ ConsOnly
    /\ UNCHANGED <<inDlq, released, waited, budgets>>

(* After a timeout the offset is completed; after any other failure it is  *)
(* abandoned, and later offsets carry the group past it.  A publish that   *)
(* raises holds the offset: the message stays deliverable.                 *)
ConsumerDlq(d) ==
    /\ cons[d] \in {"dlqTimeout", "dlqError"}
    /\ \/ DlqAccepts /\ released' = TRUE
       \/ DlqRaises /\ UNCHANGED released
    /\ ConsGoto(d, "done")
    /\ ConsOnly
    /\ UNCHANGED <<caseVars, waited>>

----------------------------------------------------------------------------
(* The request of delivery d: _investigate_packet. *)

ApiAt(d, at) == api[d] = at
ApiGoto(d, next) == api' = [api EXCEPT ![d] = next]
ApiOnly == UNCHANGED <<consVars, drain>>
Moves(d, next) ==
    /\ ApiGoto(d, next)
    /\ ApiOnly
    /\ UNCHANGED <<caseVars, claimVars, checkpoint, inDlq, gated, clock, seen,
                   graph, budgets>>
Remember(d, field, value) == seen' = [seen EXCEPT ![d][field] = value]

(* casebook.json: a terminal verdict other than FAILED_SHUTDOWN answers at *)
(* once.                                                                   *)
LoadCase(d) ==
    /\ ApiAt(d, "loadCase")
    /\ Moves(d, IF casebook \in Terminal \ Redeliverable
                THEN "ok" ELSE "loadStatus")

(* status.json: IN_PROGRESS and not stale means a run is in flight. *)
LoadStatus(d) ==
    /\ ApiAt(d, "loadStatus")
    /\ Remember(d, "busy", status = "IN_PROGRESS" /\ started <= StaleAge)
    /\ ApiGoto(d, "getState")
    /\ ApiOnly
    /\ UNCHANGED <<caseVars, claimVars, checkpoint, inDlq, gated, clock, graph,
                   budgets>>

(* The service gate answers without writing anything. *)
ServiceGateSkips(d) ==
    /\ GateMaySkip
    /\ ApiAt(d, "getState")
    /\ gated' = TRUE
    /\ ApiGoto(d, "ok")
    /\ ApiOnly
    /\ UNCHANGED <<caseVars, claimVars, checkpoint, inDlq, clock, seen, graph,
                   budgets>>

(* agent.get_state, then the in-flight decision. *)
GetState(d) ==
    /\ ApiAt(d, "getState")
    /\ Remember(d, "resume", checkpoint)
    /\ ApiGoto(d, IF seen[d].busy THEN "wait" ELSE "claim")
    /\ clock' = [clock EXCEPT ![d] = 0]
    /\ ApiOnly
    /\ UNCHANGED <<caseVars, claimVars, checkpoint, inDlq, gated, graph, budgets>>

(* Mutant: a duplicate is answered while the holder is still running. *)
AwaitRunAnswersAtOnce(d) ==
    /\ ApiAt(d, "wait")
    /\ Moves(d, "ok")

(* Mutant: a duplicate waits for ever. *)
AwaitRunForEver(d) ==
    /\ ApiAt(d, "wait")
    /\ IsTerminal
    /\ Moves(d, "ok")

(* _await_run_in_flight: 200 once either file is terminal, 503 when the    *)
(* wait is over.                                                           *)
AwaitRunInFlight(d) ==
    /\ ApiAt(d, "wait")
    /\ \/ IsTerminal /\ Moves(d, "ok")
       \/ ~IsTerminal /\ clock[d] >= DuplicateWait /\ Moves(d, "err")

----------------------------------------------------------------------------
(* claim_packet *)

ClaimOnly == ApiOnly /\ UNCHANGED <<caseVars, checkpoint, inDlq, gated, clock,
                                    graph>>

(* Mutant: a takeover keeps the claimed_at of the dead run. *)
WriteClaimKeepsAge(d) ==
    /\ claim' = "full"
    /\ claimAge' = claimAge
    /\ claimNewer' = seen[d].after

(* Write claim.json with the time read on entry to _claim. *)
WriteClaim(d) ==
    /\ claim' = "full"
    /\ claimAge' = 0
    /\ claimNewer' = seen[d].after

(* Mutant: the existing claim is not looked at. *)
CreateClaimAnyway(d) ==
    /\ ApiAt(d, "claim")
    /\ WriteClaim(d)
    /\ ApiGoto(d, "stub")
    /\ Remember(d, "after", TRUE)
    /\ ClaimOnly
    /\ UNCHANGED budgets

(* create_json, create-only.  Locally the file exists before it is         *)
(* written: readers take no notice of its lock.                            *)
CreateClaim(d) ==
    /\ ApiAt(d, "claim")
    /\ \/ /\ claim = "absent"
          /\ claim' = IF AtomicCreate THEN "full" ELSE "empty"
          /\ claimAge' = 0
          /\ claimNewer' = TRUE
          /\ ApiGoto(d, IF AtomicCreate THEN "stub" ELSE "fillClaim")
       \/ /\ claim # "absent"
          /\ ApiGoto(d, "readClaim")
          /\ UNCHANGED claimVars
    /\ Remember(d, "after", TRUE)
    /\ ClaimOnly
    /\ UNCHANGED budgets

FillClaim(d) ==
    /\ ApiAt(d, "fillClaim")
    /\ WriteClaim(d)
    /\ ApiGoto(d, "stub")
    /\ ClaimOnly
    /\ UNCHANGED <<seen, budgets>>

(* A claim store that raises lets the packet through; a create that fails  *)
(* half-way removes its file.                                              *)
ClaimFailsOpen(d) ==
    /\ api[d] \in {"claim", "fillClaim", "readClaim", "takeOver"}
    /\ claimErrors < MaxClaimErrors
    /\ claimErrors' = claimErrors + 1
    /\ claim' = IF ApiAt(d, "fillClaim") THEN "absent" ELSE claim
    /\ ApiGoto(d, "stub")
    /\ ClaimOnly
    /\ UNCHANGED <<claimAge, claimNewer, seen, crashes, shutdowns, dlqFaults>>

(* Load the claim; an empty file loads as nothing, which reads as          *)
(* claimed_at 0.                                                           *)
ReadClaim(d) ==
    /\ ApiAt(d, "readClaim")
    /\ seen' = [seen EXCEPT ![d].old = claim = "empty" \/ claimAge > ClaimTtl,
                            ![d].newer = claim = "full" /\ claimNewer]
    /\ ApiGoto(d, "judgeAbandoned")
    /\ ClaimOnly
    /\ UNCHANGED <<claimVars, budgets>>

(* _abandoned_at: the run that held the claim was shut down. *)
JudgeAbandoned(d) ==
    /\ ApiAt(d, "judgeAbandoned")
    /\ Moves(d, IF casebook \in Redeliverable /\ ~seen[d].newer
                THEN "takeOver" ELSE "judgeFinished")

(* _is_finished, then the TTL. *)
JudgeFinished(d) ==
    /\ ApiAt(d, "judgeFinished")
    /\ ApiGoto(d, IF TerminalStatus \in Terminal \ Redeliverable THEN "ok"
                  ELSE IF seen[d].old THEN "takeOver"
                  ELSE "wait")
    /\ clock' = [clock EXCEPT ![d] = 0]
    /\ ApiOnly
    /\ UNCHANGED <<caseVars, claimVars, checkpoint, inDlq, gated, seen, graph,
                   budgets>>

TakeOverClaim(d) ==
    /\ ApiAt(d, "takeOver")
    /\ WriteClaim(d)
    /\ ApiGoto(d, "stub")
    /\ ClaimOnly
    /\ UNCHANGED <<seen, budgets>>

----------------------------------------------------------------------------
(* The run. *)

(* Mutant: the stub is saved under the default name, casebook.json. *)
StartRunIntoCasebook(d) ==
    /\ ApiAt(d, "stub")
    /\ casebook' = "IN_PROGRESS"
    /\ started' = 0
    /\ graph' = [graph EXCEPT ![d] = TRUE]
    /\ checkpoint' = IF seen[d].resume THEN checkpoint ELSE FALSE
    /\ clock' = [clock EXCEPT ![d] = 0]
    /\ ApiGoto(d, "running")
    /\ ApiOnly
    /\ UNCHANGED <<status, claimVars, inDlq, gated, seen, budgets>>

(* The IN_PROGRESS stub, then the agent run in the executor: resumed from  *)
(* the checkpoint seen earlier, or fresh on an emptied thread.             *)
StartRun(d) ==
    /\ ApiAt(d, "stub")
    /\ status' = "IN_PROGRESS"
    /\ started' = 0
    /\ graph' = [graph EXCEPT ![d] = TRUE]
    /\ checkpoint' = IF seen[d].resume THEN checkpoint ELSE FALSE
    /\ clock' = [clock EXCEPT ![d] = 0]
    /\ ApiGoto(d, "running")
    /\ ApiOnly
    /\ UNCHANGED <<casebook, claimVars, inDlq, gated, seen, budgets>>

(* A node of the graph finishes and is checkpointed. *)
GraphCheckpoints(d) ==
    /\ graph[d]
    /\ ~checkpoint
    /\ checkpoint' = TRUE
    /\ ApiOnly
    /\ UNCHANGED <<caseVars, claimVars, inDlq, gated, api, clock, seen, graph,
                   budgets>>

(* The graph ends or raises while the route waits for it. *)
GraphEnds(d) ==
    /\ ApiAt(d, "running")
    /\ graph' = [graph EXCEPT ![d] = FALSE]
    /\ \/ /\ checkpoint' = FALSE
          /\ ApiGoto(d, "guard")
          /\ Remember(d, "verdict", "COMPLETED")
       \/ /\ UNCHANGED checkpoint
          /\ ApiGoto(d, "dlqThenSave")
          /\ Remember(d, "verdict", "DLQ")
    /\ ApiOnly
    /\ UNCHANGED <<caseVars, claimVars, inDlq, gated, clock, budgets>>

(* The budget runs out: the route stops waiting and sets the cancel event; *)
(* the thread runs on until its next step.                                 *)
BudgetExpires(d) ==
    /\ ApiAt(d, "running")
    /\ clock[d] >= Budget
    /\ ApiGoto(d, "save1")
    /\ Remember(d, "verdict", "FAILED_TIMEOUT")
    /\ ApiOnly
    /\ UNCHANGED <<caseVars, claimVars, checkpoint, inDlq, gated, clock, graph,
                   budgets>>

CancelledRunStops(d) ==
    /\ graph[d]
    /\ ~ApiAt(d, "running")
    /\ graph' = [graph EXCEPT ![d] = FALSE]
    /\ ApiOnly
    /\ UNCHANGED <<caseVars, claimVars, checkpoint, inDlq, gated, api, clock,
                   seen, budgets>>

(* The late-result guard: a protected verdict discards the result.         *)
LateResultGuard(d) ==
    /\ ApiAt(d, "guard")
    /\ Moves(d, IF TerminalStatus \in Protected THEN "ok" ELSE "save1")

(* Mutant: a casebook that could not be saved is answered like one that was. *)
SaveFailsAnswersOk(d) ==
    /\ api[d] \in {"save1", "save2"}
    /\ Moves(d, "ok")

(* The casebook breaks its contract, or a write raises: the request fails, *)
(* except that a timeout's failed write falls to the handler around it.    *)
SaveFails(d) ==
    /\ api[d] \in {"save1", "save2"}
    /\ \/ /\ seen[d].verdict = "FAILED_TIMEOUT"
          /\ Remember(d, "verdict", "DLQ")
          /\ ApiGoto(d, "dlqThenSave")
       \/ /\ seen[d].verdict # "FAILED_TIMEOUT"
          /\ ApiGoto(d, "err")
          /\ UNCHANGED seen
    /\ ApiOnly
    /\ UNCHANGED <<caseVars, claimVars, checkpoint, inDlq, gated, clock, graph,
                   budgets>>

(* A storage or checkpoint call outside the handlers raises. *)
RequestRaises(d) ==
    /\ api[d] \in {"loadCase", "loadStatus", "getState", "wait", "stub", "guard"}
    /\ Moves(d, "err")

(* Mutant: status.json is written first. *)
SaveVerdictStatusFirst(d) ==
    /\ \/ /\ ApiAt(d, "save1")
          /\ WriteStatus(seen[d].verdict)
          /\ ApiGoto(d, "save2")
       \/ /\ ApiAt(d, "save2")
          /\ WriteCasebook(seen[d].verdict)
          /\ ApiGoto(d, IF seen[d].verdict = "FAILED_TIMEOUT"
                        THEN "dlqThenOk" ELSE "ok")
    /\ ApiOnly
    /\ UNCHANGED <<claimVars, checkpoint, inDlq, gated, clock, seen, graph,
                   budgets>>

(* save_rejection_casebook of the verdict. *)
SaveVerdict(d) ==
    /\ \/ /\ ApiAt(d, "save1")
          /\ WriteCasebook(seen[d].verdict)
          /\ ApiGoto(d, "save2")
       \/ /\ ApiAt(d, "save2")
          /\ WriteStatus(seen[d].verdict)
          /\ ApiGoto(d, IF seen[d].verdict = "FAILED_TIMEOUT"
                        THEN "dlqThenOk" ELSE "ok")
    /\ ApiOnly
    /\ UNCHANGED <<claimVars, checkpoint, inDlq, gated, clock, seen, graph,
                   budgets>>

(* _publish_to_dlq_best_effort: the answer does not depend on it. *)
ApiDlq(d) ==
    /\ \/ ApiAt(d, "dlqThenSave") /\ ApiGoto(d, "save1")
       \/ ApiAt(d, "dlqThenOk") /\ ApiGoto(d, "ok")
    /\ DlqAccepts \/ DlqRaises
    /\ ApiOnly
    /\ UNCHANGED <<caseVars, claimVars, checkpoint, gated, clock, seen, graph>>

Request(d) ==
    \/ LoadCase(d) \/ LoadStatus(d) \/ ServiceGateSkips(d) \/ GetState(d)
    \/ AwaitRunInFlight(d)
    \/ CreateClaim(d) \/ FillClaim(d) \/ ReadClaim(d) \/ JudgeAbandoned(d)
    \/ JudgeFinished(d) \/ TakeOverClaim(d)
    \/ StartRun(d) \/ BudgetExpires(d) \/ LateResultGuard(d) \/ SaveVerdict(d)
    \/ ApiDlq(d)

Graph(d) == GraphCheckpoints(d) \/ GraphEnds(d) \/ CancelledRunStops(d)

StorageFault(d) == ClaimFailsOpen(d) \/ SaveFails(d) \/ RequestRaises(d)

----------------------------------------------------------------------------
(* Shutdown and loss of the processes. *)

InFlight(d) == api[d] \notin {"none", "ok", "err", "dead"}

(* SIGTERM: the drain waits out its budget, then turns to the stragglers. *)
BeginDrain(d) ==
    /\ InFlight(d)
    /\ drain[d] = "no"
    /\ shutdowns < MaxShutdowns
    /\ shutdowns' = shutdowns + 1
    /\ drain' = [drain EXCEPT ![d] = "check"]
    /\ UNCHANGED <<caseVars, claimVars, checkpoint, inDlq, gated, consVars, api,
                   clock, seen, graph, crashes, claimErrors, dlqFaults>>

(* A straggler that is terminal already is left alone; otherwise it is     *)
(* marked FAILED_SHUTDOWN, which every claim and every clock reading taken *)
(* so far is older than.  The run itself is not stopped.                   *)
DrainStraggler(d) ==
    /\ \/ /\ drain[d] = "check"
          /\ drain' = [drain EXCEPT ![d] =
                         IF IsTerminal \/ ~InFlight(d) THEN "exit" ELSE "save1"]
          /\ UNCHANGED <<caseVars, claimNewer, seen>>
       \/ /\ drain[d] = "save1"
          /\ WriteCasebook("FAILED_SHUTDOWN")
          /\ claimNewer' = FALSE
          /\ seen' = [e \in Delivery |->
                         [seen[e] EXCEPT !.newer = FALSE, !.after = FALSE]]
          /\ drain' = [drain EXCEPT ![d] = "save2"]
       \/ /\ drain[d] = "save2"
          /\ WriteStatus("FAILED_SHUTDOWN")
          /\ drain' = [drain EXCEPT ![d] = "exit"]
          /\ UNCHANGED <<claimNewer, seen>>
    /\ UNCHANGED <<claim, claimAge, checkpoint, inDlq, gated, consVars, api,
                   clock, graph, budgets>>

KillRequest(d) ==
    /\ api' = [api EXCEPT ![d] = IF InFlight(d) THEN "dead" ELSE @]
    /\ graph' = [graph EXCEPT ![d] = FALSE]
    /\ drain' = [drain EXCEPT ![d] = "no"]
    /\ UNCHANGED <<caseVars, claimVars, checkpoint, inDlq, gated, consVars,
                   clock, seen>>

ProcessExits(d) ==
    /\ drain[d] = "exit"
    /\ KillRequest(d)
    /\ UNCHANGED budgets

SpendCrash ==
    /\ crashes < MaxCrashes
    /\ crashes' = crashes + 1
    /\ UNCHANGED <<shutdowns, claimErrors, dlqFaults>>

ApiCrash(d) ==
    /\ InFlight(d) \/ graph[d]
    /\ SpendCrash
    /\ KillRequest(d)

ConsumerCrash(d) ==
    /\ cons[d] \notin {"unsent", "done", "dead"}
    /\ SpendCrash
    /\ ConsGoto(d, "dead")
    /\ ConsOnly
    /\ UNCHANGED <<caseVars, inDlq, released, waited>>

----------------------------------------------------------------------------
(* Time passes only while nobody is between two storage calls, no deadline *)
(* is due and no cancelled run is still in its last model call: a storage  *)
(* call and a model call are short beside the invoke budget.               *)
Older(age, limit) == IF age > limit THEN age ELSE age + 1

Tick ==
    /\ \A d \in Delivery :
          /\ api[d] \notin ShortApiPc
          /\ cons[d] \in {"unsent", "sent", "done", "dead"}
          /\ graph[d] => ApiAt(d, "running")
          /\ ApiAt(d, "running") => clock[d] < Budget
          /\ ApiAt(d, "wait") => clock[d] < DuplicateWait
          /\ ConsAt(d, "sent") =>
                waited[d] < ClientTimeout /\ api[d] \notin {"ok", "err", "dead"}
          /\ drain[d] \notin {"check", "save1", "save2"}
    /\ started' = Older(started, StaleAge)
    /\ claimAge' = Older(claimAge, ClaimTtl)
    /\ clock' = [d \in Delivery |-> IF api[d] \in {"running", "wait"}
                                    THEN clock[d] + 1 ELSE clock[d]]
    /\ waited' = [d \in Delivery |-> IF ConsAt(d, "sent")
                                     THEN waited[d] + 1 ELSE waited[d]]
    /\ <<started, claimAge, clock, waited>>' # <<started, claimAge, clock, waited>>
    /\ UNCHANGED <<casebook, status, claim, claimNewer, checkpoint, inDlq, gated,
                   released, cons, api, seen, graph, drain, budgets>>

Consumer(d) ==
    \/ Deliver(d) \/ SkipDelivery(d) \/ SendRequest(d) \/ RequestAnswered(d)
    \/ RequestFails(d) \/ RequestTimesOut(d) \/ ConsumerSaves(d)
    \/ ConsumerDlq(d)

Process(d) ==
    \/ BeginDrain(d) \/ DrainStraggler(d) \/ ProcessExits(d)
    \/ ApiCrash(d) \/ ConsumerCrash(d)

Next ==
    \/ \E d \in Delivery :
          \/ Consumer(d) \/ Request(d) \/ Graph(d)
          \/ StorageFault(d) \/ Process(d)
    \/ Tick

Spec == Init /\ [][Next]_vars

(***************************************************************************)
(* Fairness.  The broker delivers what is not committed, every thread and  *)
(* coroutine that can take a step takes it, a drained process exits, and   *)
(* time goes on.  Nothing makes the graph end, and no call need fail: the  *)
(* budgets of the run and of the wait are what ends them.                  *)
(***************************************************************************)
FairSpec ==
    /\ Spec
    /\ WF_vars(Tick)
    /\ \A d \in Delivery :
          /\ WF_vars(Consumer(d) /\ (ConsAt(d, "unsent") => ~released))
          /\ WF_vars(Request(d))
          /\ WF_vars(DrainStraggler(d) \/ ProcessExits(d))
          /\ WF_vars(CancelledRunStops(d))

----------------------------------------------------------------------------
(* Properties. *)

Settled == casebook \in Terminal \ Redeliverable

\* One investigation per packet (packet_claims): of two overlapping deliveries
\* at most one has an agent run executing, as long as the claim store answers.
\* (Three may: two redeliveries can both take over a dead run's claim.)
OneInvestigation ==
    claimErrors = 0 =>
        \A d, e \in Delivery : graph[d] /\ graph[e] => d = e

\* A claim old enough to be taken over has no live run behind it: the TTL is
\* twice the invoke budget, so a healthy run is never taken for a dead one.
ExpiredClaimIsDead ==
    claim = "full" /\ claimAge > ClaimTtl /\ claimErrors = 0 =>
        \A d \in Delivery : ~graph[d]

\* A request answers 2xx only once the packet has a final verdict on record (or
\* the gate let it go), so that the consumer may commit it.
AnswerMeansSettled ==
    \A d \in Delivery : ApiAt(d, "ok") => Settled \/ gated

\* The group never moves past a packet of which neither casebook.json nor the
\* DLQ has a record, whatever crashes, shutdowns and redeliveries happened.
CommittedRecorded ==
    released => casebook \in Terminal \/ inDlq \/ gated

\* The group never moves past a packet the shutdown abandoned: its redelivery
\* is investigated (REDELIVERABLE_TERMINAL_STATUSES).
CommittedSettled == released => Settled \/ inDlq \/ gated

\* status.json carries a terminal verdict only if casebook.json does
\* (save_terminal's order): no crash leaves a verdict with no casebook behind.
StatusImpliesCasebook == status \in Terminal => casebook \in Terminal

\* A late-finishing run never overwrites a verdict another actor recorded with
\* a successful one (PROTECTED_TERMINAL_STATUSES).
ProtectedVerdictStays ==
    [][~(casebook \in Protected /\ casebook' = "COMPLETED")]_vars

\* A delivered packet is eventually settled, dead-lettered or let go by the
\* gate, through any crash.
EventuallySettled ==
    \A d \in Delivery : ConsAt(d, "check") ~> (Settled \/ inDlq \/ gated)

\* A duplicate waiting on the run that holds its packet is always answered.
DuplicateAnswered ==
    \A d \in Delivery : ApiAt(d, "wait") ~> ~ApiAt(d, "wait")
=============================================================================
