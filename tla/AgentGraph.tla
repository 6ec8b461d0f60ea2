----------------------------- MODULE AgentGraph -----------------------------
(***************************************************************************)
(* src/core/agent_orchestrator.py: the graph that investigates one packet  *)
(* (fetch logs, look for a runbook, filter, investigate, review, then      *)
(* synthesise or escalate), the runs that execute it and the checkpoint    *)
(* they share.  LangGraph writes the checkpoint after every node; a run    *)
(* that dies or raises is resumed from it, a run the route has stopped     *)
(* waiting for goes on to the end of its node.                             *)
(*                                                                         *)
(* A model's reply is any reply.  A confidence is a percentage.            *)
(***************************************************************************)
EXTENDS Integers, FiniteSets, FiniteSetsExt

CONSTANTS Run,          \* the invocations of the graph for this packet
          MaxReviews,   \* MAX_INVESTIGATION_RETRIES
          LogKind,      \* what a fetch may find: disabled, silent, gaps, full
          Confidence,   \* the confidences a reply may state
          Setting       \* the deployments and packets considered

ASSUME GraphAssumption ==
    /\ IsFiniteSet(Run)
    /\ MaxReviews \in Nat \ {0}
    /\ LogKind \subseteq {"disabled", "silent", "gaps", "full"}
    /\ Confidence \subseteq 0..100
    /\ Setting \subseteq
          [harness : BOOLEAN, filter : BOOLEAN, mode : {"off", "shadow", "serve"},
           allowed : BOOLEAN, pilot : BOOLEAN, pack : {"own", "_default"},
           rules : {"rules_db", "none"},
           runbook : {"none", "unchanged", "changed", "unreadable"},
           agents : SUBSET {"own", "default"}, mcp : BOOLEAN, threshold : 0..100]

Unstated == -1    \* a reply that gives no confidence
Node == {"fetch_logs", "runbook_lookup", "filter_logs", "investigate",
         "review", "synthesize", "escalate"}
NoAnswer == [by |-> "none", action |-> "none", confidence |-> Unstated, abstained |-> FALSE]

VARIABLES
    env,       \* the settings and the packet's facts
    thread,    \* the newest checkpoint: next node and values, next "none" if absent
    at,        \* at[r]: the node r is at, "idle" before it and "over" after it
    busy,      \* busy[r]: r has started that node
    doing,     \* doing[r]: how far it has come in it, see Doing
    val,       \* val[r]: the graph state r holds in memory
    cancelled, \* cancelled[r]: the route stopped waiting for r
    artifact,  \* fetched_logs.txt, or "none"
    replays,   \* what the replay queue knows of the packet: queued by a pilot run or not
    rules,     \* a learning rule was queued
    agents     \* the opencode agents harness tasks have run as

(***************************************************************************)
(* A direct review has begun ("direct"); the node is inside a tool call    *)
(* that has passed its check ("calling") or has made it ("called"); the    *)
(* harness Reviewer's rejection is having its rule queued ("proposing") or *)
(* has had it ("rejected").  What a node's calls do is done by one of      *)
(* them: a second queues nothing new.                                      *)
(***************************************************************************)
Doing == {"none", "direct", "calling", "called", "proposing", "rejected"}

graphVars == <<env, thread, at, busy, doing, val, cancelled, artifact, replays, rules, agents>>

(***************************************************************************)
(* The graph state.  reviewed and rejected are history: the attempt the    *)
(* last review read, and the rejections since the run began.  An empty     *)
(* text is "none".                                                         *)
(***************************************************************************)
NewValues(pilot) ==
    [logs |-> "none", source |-> "none", shadow |-> FALSE, inv |-> 0, feedback |-> "none",
     reviews |-> 0, pilot |-> pilot, answer |-> NoAnswer, agreed |-> "none",
     reviewed |-> 0, rejected |-> 0, retried |-> FALSE]

GraphInit ==
    /\ env \in Setting
    /\ thread = [next |-> "none", values |-> NewValues(FALSE)]
    /\ at = [r \in Run |-> "idle"]
    /\ busy = [r \in Run |-> FALSE]
    /\ doing = [r \in Run |-> "none"]
    /\ val = [r \in Run |-> NewValues(FALSE)]
    /\ cancelled = [r \in Run |-> FALSE]
    /\ artifact = "none"
    /\ replays = {}
    /\ rules = FALSE
    /\ agents = {}

Live(r) == at[r] \in Node

(* The packet's claim is held by one run at a time; an abandoned run no    *)
(* longer holds it.                                                        *)
MayStart(r) == at[r] = "idle" /\ \A q \in Run : Live(q) => cancelled[q]

Enters(r, n, v) ==
    /\ at' = [at EXCEPT ![r] = n]
    /\ val' = [val EXCEPT ![r] = v]
    /\ UNCHANGED <<env, busy, doing, cancelled, artifact, replays, rules, agents>>

(* Variant: the thread keeps the values of the run before it. *)
InvokeOver(r) ==
    /\ MayStart(r) /\ thread.next \in {"none", "END"}
    /\ Enters(r, "fetch_logs", [thread.values EXCEPT !.reviews = 0, !.rejected = 0,
                                !.pilot = env.pilot])
    /\ thread' = [next |-> "fetch_logs", values |-> val'[r]]

InvokeFresh(r) ==
    /\ MayStart(r) /\ thread.next \in {"none", "END"}
    /\ Enters(r, "fetch_logs", NewValues(env.pilot))
    /\ thread' = [next |-> "fetch_logs", values |-> val'[r]]

Resume(r) ==
    /\ MayStart(r) /\ thread.next \in Node
    /\ Enters(r, thread.next, thread.values)
    /\ UNCHANGED thread

(* Variant: only the agents' own middleware stops an abandoned run. *)
BeginAlways(r) ==
    /\ Live(r) /\ ~busy[r]
    /\ busy' = [busy EXCEPT ![r] = TRUE]
    /\ UNCHANGED <<env, thread, at, doing, val, cancelled, artifact, replays, rules, agents>>

(* stoppable: an abandoned run starts no further node. *)
Begin(r) ==
    /\ Live(r) /\ ~busy[r] /\ ~cancelled[r]
    /\ busy' = [busy EXCEPT ![r] = TRUE]
    /\ UNCHANGED <<env, thread, at, doing, val, cancelled, artifact, replays, rules, agents>>

Ends(r) ==
    /\ at' = [at EXCEPT ![r] = "over"]
    /\ busy' = [busy EXCEPT ![r] = FALSE]
    /\ doing' = [doing EXCEPT ![r] = "none"]
    /\ val' = [val EXCEPT ![r] = NewValues(FALSE)]
    /\ cancelled' = [cancelled EXCEPT ![r] = FALSE]
    /\ UNCHANGED <<env, thread, artifact, replays, rules, agents>>

Stop(r) == Live(r) /\ ~busy[r] /\ cancelled[r] /\ Ends(r)

(* A call that writes: past its check and not back yet. *)
InCall(r) == doing[r] \in {"calling", "proposing"}

(* The nodes that let an exception out; the two others catch everything,   *)
(* and so do the calls that write.                                         *)
NodeRaises(r) ==
    busy[r] /\ ~InCall(r) /\ at[r] \notin {"runbook_lookup", "escalate"} /\ Ends(r)

Abandon(r) ==
    /\ Live(r) /\ ~cancelled[r]
    /\ cancelled' = [cancelled EXCEPT ![r] = TRUE]
    /\ UNCHANGED <<env, thread, at, busy, doing, val, artifact, replays, rules, agents>>

(* The process dies; the one that follows may find the service's pilot     *)
(* flag changed.                                                           *)
Crash ==
    /\ \E r \in Run : Live(r)
    /\ at' = [r \in Run |-> IF Live(r) THEN "over" ELSE at[r]]
    /\ busy' = [r \in Run |-> FALSE]
    /\ doing' = [r \in Run |-> "none"]
    /\ val' = [r \in Run |-> NewValues(FALSE)]
    /\ cancelled' = [r \in Run |-> FALSE]
    /\ \E pilot \in BOOLEAN : env' = [env EXCEPT !.pilot = pilot]
    /\ UNCHANGED <<thread, artifact, replays, rules, agents>>

(* The node r is in returns: the new values are checkpointed with the next node. *)
Returns(r, n, v) ==
    /\ val' = [val EXCEPT ![r] = IF n = "END" THEN NewValues(FALSE) ELSE v]
    /\ thread' = [next |-> n, values |-> v]
    /\ at' = [at EXCEPT ![r] = IF n = "END" THEN "over" ELSE n]
    /\ busy' = [busy EXCEPT ![r] = FALSE]
    /\ doing' = [doing EXCEPT ![r] = "none"]
    /\ cancelled' = [cancelled EXCEPT ![r] = @ /\ n # "END"]
    /\ UNCHANGED env

In(r, n) == busy[r] /\ at[r] = n

(* The node goes on. *)
Does(r, s) ==
    /\ doing' = [doing EXCEPT ![r] = s]
    /\ UNCHANGED <<env, thread, at, busy, val, cancelled, artifact>>

(* fetch_and_persist_logs: a failed fetch is not an answer and is not kept. *)
FetchAndPersist(found) == artifact' = IF found = "none" THEN artifact ELSE found

FetchLogs(r) ==
    /\ In(r, "fetch_logs")
    /\ \E found \in IF artifact # "none" THEN {artifact} ELSE LogKind \cup {"none"} :
          /\ FetchAndPersist(found)
          /\ Returns(r, "runbook_lookup", [val[r] EXCEPT !.logs = found])
    /\ UNCHANGED <<replays, rules, agents>>

(* Variant: the runbook is served whatever its rule has become. *)
RunbookFoundUnchecked(e) ==
    e.mode # "off" /\ e.pack # "_default" /\ e.runbook # "none"

(***************************************************************************)
(* A stored resolution is usable unless what it was derived from is known  *)
(* to have changed.  A rules table that cannot be read leaves nothing to   *)
(* compare with, and the runbook stands; documentation that cannot be read *)
(* is a miss.                                                              *)
(***************************************************************************)
RunbookFound(e) ==
    /\ e.mode # "off" /\ e.pack # "_default" /\ e.runbook # "none"
    /\ e.runbook # "changed"
    /\ e.runbook = "unreadable" => e.rules = "rules_db"

AfterRunbook(e, v) ==
    IF v.source = "runbook" THEN "END" ELSE IF e.filter THEN "filter_logs" ELSE "investigate"

RunbookLookup(r) ==
    /\ In(r, "runbook_lookup")
    /\ LET hit == RunbookFound(env)
           serve == hit /\ env.mode = "serve" /\ env.allowed
           v == [val[r] EXCEPT
                   !.source = IF serve THEN "runbook" ELSE "agent",
                   !.shadow = hit /\ ~serve,
                   !.answer = IF serve THEN [NoAnswer EXCEPT !.by = "runbook", !.action = "OTHER"]
                              ELSE @]
       IN Returns(r, AfterRunbook(env, v), v)
    /\ UNCHANGED <<artifact, replays, rules, agents>>

(* The LogFilter agent's reply replaces the logs: it may drop the banner.  *)
FilterLogs(r) ==
    /\ In(r, "filter_logs")
    /\ \E kept \in IF val[r].logs \in {"none", "disabled"} THEN {val[r].logs}
                   ELSE {val[r].logs, "full"} :
          Returns(r, "investigate", [val[r] EXCEPT !.logs = kept])
    /\ UNCHANGED <<artifact, replays, rules, agents>>

(* Variant: a task with no agent of its own takes opencode's default agent. *)
TaskAgentAny(e) == IF "own" \in e.agents THEN {"own"}
                   ELSE IF "default" \in e.agents THEN {"default"} ELSE {"every tool"}

(***************************************************************************)
(* The opencode agent a harness task runs as: the pack's own, else the     *)
(* narrower one of no pack; with tool servers and neither, the task is     *)
(* refused, since opencode's default agent has every tool.                 *)
(***************************************************************************)
TaskAgent(e) == IF "own" \in e.agents THEN {"own"}
                ELSE IF "default" \in e.agents THEN {"default"}
                ELSE IF e.mcp THEN {} ELSE {"no tools"}

(* run_task, run_task_json: the task answers, or times out, writes nothing *)
(* or writes no JSON, and the node falls back to its direct path.          *)
RunTask(ran) ==
    \/ TaskAgent(env) = {} /\ ran = FALSE /\ UNCHANGED agents
    \/ /\ TaskAgent(env) # {} /\ ran \in BOOLEAN
       /\ agents' = agents \cup TaskAgent(env)

(* Whether an attempt answers the Reviewer is read off the feedback text.  *)
Investigate(r) ==
    /\ In(r, "investigate")
    /\ LET retry == val[r].feedback # "none"
       IN /\ IF env.harness /\ ~retry THEN \E ran \in BOOLEAN : RunTask(ran)
             ELSE UNCHANGED agents
          /\ Returns(r, "review", [val[r] EXCEPT !.inv = val[r].reviews + 1,
                                                 !.retried = retry])
    /\ UNCHANGED <<artifact, replays, rules>>

(* Variant: reviews are counted from zero. *)
ReviewDecisionLate(v) ==
    IF v.feedback = "APPROVED" THEN "synthesize"
    ELSE IF v.reviews > MaxReviews THEN "escalate" ELSE "investigate"

(* Variant: out of reviews, the findings are synthesised unapproved. *)
ReviewDecisionLenient(v) ==
    IF v.feedback = "APPROVED" \/ v.reviews >= MaxReviews THEN "synthesize" ELSE "investigate"

ReviewDecision(v) ==
    IF v.feedback = "APPROVED" THEN "synthesize"
    ELSE IF v.reviews >= MaxReviews THEN "escalate" ELSE "investigate"

(* Variant: a review is not counted. *)
ReviewedUncounted(v, feedback) ==
    [v EXCEPT !.feedback = feedback, !.reviewed = v.inv,
              !.rejected = IF feedback = "APPROVED" THEN @ ELSE Min({@ + 1, MaxReviews + 1})]

(* Variant: a verdict with no text is not counted as a review. *)
ReviewedSilently(v, feedback) ==
    IF feedback = "none" THEN [v EXCEPT !.feedback = "none", !.reviewed = v.inv]
    ELSE [v EXCEPT !.feedback = feedback, !.reviews = @ + 1, !.reviewed = v.inv,
                   !.rejected = IF feedback = "APPROVED" THEN @ ELSE @ + 1]

Reviewed(v, feedback) ==
    [v EXCEPT !.feedback = feedback, !.reviews = @ + 1, !.reviewed = v.inv,
              !.rejected = IF feedback = "APPROVED" THEN @ ELSE Min({@ + 1, MaxReviews + 1})]

ReturnsReview(r, feedback) ==
    LET v == Reviewed(val[r], feedback) IN Returns(r, ReviewDecision(v), v)

(* Variant: the harness Reviewer's rule is queued for an abandoned run too. *)
HarnessRejectsAlways(r) ==
    /\ In(r, "review") /\ env.harness /\ doing[r] = "none"
    /\ RunTask(TRUE)
    /\ \E s \in {"proposing", "rejected"} : Does(r, s)
    /\ UNCHANGED <<replays, rules>>

(***************************************************************************)
(* The harness Reviewer rejects.  It has no tool to call: the node queues  *)
(* the rule its reply proposes, if it proposes a valid one and the run is  *)
(* not abandoned by then.                                                  *)
(***************************************************************************)
HarnessRejects(r) ==
    /\ In(r, "review") /\ env.harness /\ doing[r] = "none"
    /\ RunTask(TRUE)
    /\ \E s \in {"proposing", "rejected"} : (s = "proposing" => ~cancelled[r]) /\ Does(r, s)
    /\ UNCHANGED <<replays, rules>>

(* A direct review, of the direct path or after a harness task that failed. *)
ReviewDirectly(r) ==
    /\ In(r, "review") /\ doing[r] = "none"
    /\ IF env.harness THEN RunTask(FALSE) ELSE UNCHANGED agents
    /\ Does(r, "direct")
    /\ UNCHANGED <<replays, rules>>

(* Variant: the tool does not ask whether its run was abandoned. *)
BeginRuleAlways(r) ==
    /\ In(r, "review") /\ doing[r] = "direct"
    /\ Does(r, "calling")
    /\ UNCHANGED <<replays, rules, agents>>

(* The direct Reviewer calls add_learning_rule, which an abandoned run is  *)
(* refused.                                                                *)
BeginRule(r) ==
    /\ In(r, "review") /\ doing[r] = "direct" /\ ~cancelled[r]
    /\ Does(r, "calling")
    /\ UNCHANGED <<replays, rules, agents>>

(* queue_learning_rule after its check: the queue's lock is had within ten *)
(* seconds, or the rule is not queued.  The check is not made again.       *)
QueueRule(r) ==
    /\ In(r, "review") /\ InCall(r)
    /\ rules' \in {rules, TRUE}
    /\ Does(r, IF doing[r] = "calling" THEN "called" ELSE "rejected")
    /\ UNCHANGED <<replays, agents>>

(* A harness rejection may carry no text; a direct one always does.        *)
ReviewByHarness(r) ==
    /\ In(r, "review") /\ env.harness
    /\ \/ doing[r] = "none" /\ RunTask(TRUE) /\ ReturnsReview(r, "APPROVED")
       \/ /\ doing[r] = "rejected" /\ UNCHANGED agents
          /\ \E feedback \in {"REJECTED", "none"} : ReturnsReview(r, feedback)
    /\ UNCHANGED <<artifact, replays, rules>>

ReviewDirect(r) ==
    /\ In(r, "review") /\ doing[r] \in {"direct", "called"}
    /\ \E feedback \in {"APPROVED", "REJECTED"} : ReturnsReview(r, feedback)
    /\ UNCHANGED <<artifact, replays, rules, agents>>

Escalate(r) ==
    /\ In(r, "escalate")
    /\ Returns(r, "END", [val[r] EXCEPT
          !.answer = [NoAnswer EXCEPT !.by = "escalate", !.action = "MANUAL_REVIEW"]])
    /\ UNCHANGED <<artifact, replays, rules, agents>>

(* Variant: the tools follow the registry, not the packet's own state. *)
BeginReplayByRegistry(r) ==
    /\ In(r, "synthesize") /\ doing[r] = "none" /\ ~cancelled[r] /\ ~env.pilot
    /\ Does(r, "calling")
    /\ UNCHANGED <<replays, rules, agents>>

(***************************************************************************)
(* The Synthesis agent calls queue_for_replay while it works on its reply. *)
(* A pilot service's Synthesis is built without the tool, and the tool     *)
(* refuses an abandoned run.                                               *)
(***************************************************************************)
BeginReplay(r) ==
    /\ In(r, "synthesize") /\ doing[r] = "none" /\ ~cancelled[r] /\ ~val[r].pilot
    /\ Does(r, "calling")
    /\ UNCHANGED <<replays, rules, agents>>

(* The call posts the replay or saves it for approval, or fails to.        *)
QueueForReplay(r) ==
    /\ In(r, "synthesize") /\ InCall(r)
    /\ replays' \in {replays, replays \cup {val[r].pilot}}
    /\ Does(r, "called")
    /\ UNCHANGED <<rules, agents>>

(* models/synthesis.py: every ceiling the evidence imposes, in percent.    *)
Ceilings(e, logs) ==
    {c \in {60, 75} :
        \/ c = 60 /\ (e.pack = "_default" \/ logs \in {"gaps", "silent"})
        \/ c = 75 /\ logs \in {"none", "disabled"}}

(* Variant: the first ceiling found is applied, not the lowest. *)
ConfidencePolicyFirst(e, logs, reply) ==
    LET cs == Ceilings(e, logs)
        capped == IF cs = {} \/ reply.confidence <= Max(cs) THEN reply.confidence ELSE Max(cs)
        low == e.threshold > 0 /\ capped # Unstated /\ capped < e.threshold
    IN [reply EXCEPT !.confidence = capped, !.abstained = low,
                     !.action = IF low THEN "MANUAL_REVIEW" ELSE @]

(* apply_confidence_policy: cap, then abstain below the threshold.         *)
ConfidencePolicy(e, logs, reply) ==
    LET cs == Ceilings(e, logs)
        capped == IF cs = {} \/ reply.confidence <= Min(cs) THEN reply.confidence ELSE Min(cs)
        low == e.threshold > 0 /\ capped # Unstated /\ capped < e.threshold
    IN [reply EXCEPT !.confidence = capped, !.abstained = low,
                     !.action = IF low THEN "MANUAL_REVIEW" ELSE @]

(* A reply that breaks the contract twice is escalated in its place.       *)
SynthesisReply(e, logs) ==
    {ConfidencePolicy(e, logs, reply) : reply \in
        [by : {"synthesis"}, action : {"REPLAY", "OTHER", "MANUAL_REVIEW"},
         confidence : Confidence \cup {Unstated}, abstained : {FALSE}]}
    \cup {[NoAnswer EXCEPT !.by = "synthesis", !.action = "MANUAL_REVIEW"]}

(* Shadow comparison: the runbook's action beside the one recorded.        *)
Compared(v, answer) ==
    IF ~v.shadow THEN "none" ELSE IF answer.action = "OTHER" THEN "agreed" ELSE "diverged"

Synthesize(r) ==
    /\ In(r, "synthesize") /\ ~InCall(r)
    /\ \E answer \in SynthesisReply(env, val[r].logs) :
          Returns(r, "END", [val[r] EXCEPT !.answer = answer, !.source = "agent",
                                           !.agreed = Compared(val[r], answer)])
    /\ UNCHANGED <<artifact, replays, rules, agents>>

GraphStep(r) ==
    \/ Begin(r) \/ FetchLogs(r) \/ RunbookLookup(r) \/ FilterLogs(r) \/ Investigate(r)
    \/ HarnessRejects(r) \/ ReviewDirectly(r) \/ QueueRule(r) \/ ReviewByHarness(r)
    \/ ReviewDirect(r) \/ Escalate(r) \/ QueueForReplay(r) \/ Synthesize(r) \/ Stop(r)

GraphNext ==
    \/ Crash
    \/ \E r \in Run :
        \/ InvokeFresh(r) \/ Resume(r) \/ Abandon(r) \/ NodeRaises(r)
        \/ BeginRule(r) \/ BeginReplay(r) \/ GraphStep(r)

GraphSpec == GraphInit /\ [][GraphNext]_graphVars

(* review_summary, as casebook and trace report it. *)
Rejections(v) == IF v.feedback = "APPROVED" THEN v.reviews - 1 ELSE v.reviews

-----------------------------------------------------------------------------
(***************************************************************************)
(* Properties                                                              *)
(***************************************************************************)

(* The variables keep their shapes, and no packet has more than            *)
(* MAX_INVESTIGATION_RETRIES reviews however often it is resumed.          *)
GraphTypeOK ==
    /\ thread.next \in Node \cup {"none", "END"}
    /\ at \in [Run -> Node \cup {"idle", "over"}]
    /\ busy \in [Run -> BOOLEAN] /\ doing \in [Run -> Doing]
    /\ \A r \in Run : val[r].reviews \in 0..MaxReviews

(* A synthesised answer rests on findings the Reviewer approved, and on    *)
(* the very attempt it read: no crash, resume, harness fallback or         *)
(* exhausted loop leads to Synthesis with a later or an unapproved text.   *)
SynthesisedWasApproved ==
    LET v == thread.values IN
        thread.next = "END" /\ v.answer.by = "synthesis" => v.feedback = "APPROVED" /\ v.reviewed = v.inv

(* An attempt is written as an answer to the Reviewer only when this run   *)
(* of the packet was rejected: a packet run again never fixes the analysis *)
(* of an earlier run (invoke_fresh).                                       *)
RetryAnswersThisRun ==
    thread.values.retried => thread.values.rejected > 0

(* The rejections the casebook reports for a finished packet are the ones  *)
(* the Reviewer made, whatever was resumed or fell back in between.        *)
RejectionsReported ==
    thread.next = "END" /\ thread.values.source = "agent" =>
        Rejections(thread.values) = thread.values.rejected

(* A stored runbook resolution is never given to a packet whose rule is    *)
(* known to differ from the one it was derived from, nor with no service.  *)
ServedRunbookMatches ==
    thread.values.answer.by = "runbook" =>
        /\ env.runbook # "changed"
        /\ env.pack # "_default"

(* A recorded confidence is within every ceiling that the logs put in      *)
(* front of the agents impose, several of them at once included.           *)
ConfidenceSupported ==
    LET v == thread.values IN
        thread.next = "END" /\ v.answer.by = "synthesis" =>
            \A c \in Ceilings(env, v.logs) : v.answer.confidence <= c

(* A harness task never runs as an agent with more tools than its service  *)
(* has, even on a server started before the service was registered.        *)
HarnessInScope == agents \subseteq {"own", "default", "no tools"}

(* Nothing a pilot service concludes is acted on, although the pilot flag  *)
(* of the deployment and the resumed packet's own may differ.              *)
PilotNeverActs == TRUE \notin replays

(* A run the route has given up on, and recorded as timed out, is back     *)
(* within the call it was in: it enters no further node and begins no call *)
(* that writes, whichever of the two Reviewers proposes the rule; and no   *)
(* replay or rule is queued but by a call that began while its run was     *)
(* still waited for.                                                       *)
AbandonedBeginsNoAct ==
    /\ \A r \in Run : cancelled[r] /\ cancelled'[r] =>
          /\ busy'[r] => busy[r]
          /\ InCall(r)' => InCall(r)
    /\ rules' # rules \/ replays' # replays => \E r \in Run : InCall(r) /\ ~InCall(r)'

(* The stronger: what an abandoned run was inside does not write either.   *)
(* It does, since the check is not made again after the lock, the post or  *)
(* the save has been waited for.                                           *)
AbandonedNeverActs ==
    \A r \in Run : cancelled[r] /\ InCall(r) /\ ~InCall(r)' => UNCHANGED <<rules, replays>>

(* Every run of the graph comes to an end, by an answer, an exception, the *)
(* route's budget or a crash: the review loop cannot go on for ever.       *)
RunEnds == \A r \in Run : Live(r) ~> ~Live(r)

(* Below the threshold a packet is routed to manual review "instead of     *)
(* acting": one that was abstained on has no replay queued.                *)
AbstainedNeverActs ==
    thread.next = "END" /\ thread.values.answer.abstained => replays = {}

(* The review loop does what the Reviewer said, through crashes,           *)
(* resumptions, harness fallbacks and an exhausted bound: what is          *)
(* synthesised is the attempt it approved, a retry answers a rejection of  *)
(* this run, and the casebook reports the rejections there were.           *)
ReviewIsHonoured ==
    /\ GraphTypeOK /\ SynthesisedWasApproved /\ RetryAnswersThisRun
    /\ RejectionsReported

(* An answer stays within what its packet allows, whichever lane it came   *)
(* by: a pilot service's is not acted on, a harness task has no tools      *)
(* beyond the service's, a runbook is served only for the rule it was      *)
(* derived from, and no confidence exceeds a ceiling its logs impose.      *)
AnswerWithinLimits ==
    /\ PilotNeverActs /\ HarnessInScope /\ ServedRunbookMatches
    /\ ConfidenceSupported

=============================================================================
