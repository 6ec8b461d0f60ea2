------------------------------ MODULE DltGroup ------------------------------
(***************************************************************************)
(* A burst of DLT records with one fingerprint, in one API process: from   *)
(* record_occurrence to the end of the single-flight block of              *)
(* api/dlt_routes.py analyze_dlt, over the v2 group store and its          *)
(* in-process cache (dlt/group_store.py) and the reuse decision            *)
(* (dlt/reuse.py).  The gate is SingleFlight.                              *)
(*                                                                         *)
(* Each call of the group store runs on a thread of its own (_off_loop),   *)
(* so its steps interleave with those of other requests.  What the group   *)
(* holds is abstracted to what decisions read: the cases that occurred,    *)
(* and whether a recommendation that may be reused is on file.  The reads  *)
(* that compose a group are one step, apart from the cache lookup before   *)
(* them and the _cache_put after them.                                     *)
(***************************************************************************)
EXTENDS SingleFlight

CONSTANTS OwnWait,       \* DLT_SINGLEFLIGHT_WAIT_SECONDS bounds the wait
          MaxFaults      \* bound: group store calls that raise

ASSUME GroupAssumption ==
    /\ OwnWait \in BOOLEAN
    /\ MaxFaults \in Nat

VARIABLES
    kind,            \* kind[r]: the class and corroboration of r's record
    occurrences,     \* store: occurrences/<case_id>.json, one per request's case
    recommendation,  \* store: recommendation.json holds a reusable finding
    cache,           \* _cache at this fingerprint: <<>>, or <<group>>
    pc,              \* pc[r]: the next step of analyze_dlt
    ret,             \* ret[r]: what the load_group under way was called for
    read,            \* read[r]: the composition a load has read, not yet cached
    group,           \* group[r]: the local variable group
    decision,        \* decision[r]: the local variable decision
    counted,         \* requests whose group_state is "ok"
    spent,           \* requests whose budget has run out (remaining() <= 0)
    faults,          \* number of store calls that raised
    published,       \* history: an attached recommendation has been invalidated
    onFile,          \* history: requests that got the gate after that
    lost             \* history: what a late _cache_put left out of the cache

storeVars == <<kind, occurrences, recommendation>>
histVars == <<published, onFile, lost>>
localVars == <<group, decision, counted>>
vars == <<gateVars, storeVars, cache, pc, ret, read, localVars, spent, faults,
          histVars>>

Group == [members : SUBSET Request, rec : BOOLEAN]

(* A group of which only a code-check verdict is on file reads as none, as *)
(* it neither counts a case nor offers a recommendation.                   *)
NoGroup == [members |-> {}, rec |-> FALSE]

(* What a request uses of the group it holds. *)
View == [own : BOOLEAN, rec : BOOLEAN]
See(r, g) == [own |-> r \in g.members, rec |-> g.rec]
Kind == {"plain", "discrepancy", "canned"}
Call == {"none", "recorded", "reread", "checked", "fresh", "attached"}

Label == {"create", "meta", "get", "read", "put", "check", "enter", "gate",
          "llm", "serve", "save", "invalidate", "leave", "done"}
Choice == {"none", "canned", "llm", "awaits", "reuse"}

TypeOK ==
    /\ GateTypeOK
    /\ kind \in [Request -> Kind]
    /\ occurrences \subseteq Request
    /\ recommendation \in BOOLEAN
    /\ cache = <<>> \/ \E g \in Group : cache = <<g>>
    /\ pc \in [Request -> Label]
    /\ ret \in [Request -> Call]
    /\ read \in [Request -> Group]
    /\ group \in [Request -> View]
    /\ decision \in [Request -> Choice]
    /\ counted \subseteq Request
    /\ spent \subseteq Request
    /\ faults \in 0 .. MaxFaults
    /\ published \in BOOLEAN
    /\ onFile \subseteq Request
    /\ lost \in Group

Init ==
    /\ GateInit
    /\ kind \in [Request -> Kind]
    /\ occurrences = {} /\ recommendation = FALSE
    /\ cache = <<>>
    /\ pc = [r \in Request |-> "create"]
    /\ ret = [r \in Request |-> "none"]
    /\ read = [r \in Request |-> NoGroup]
    /\ group = [r \in Request |-> See(r, NoGroup)]
    /\ decision = [r \in Request |-> "none"]
    /\ counted = Request /\ spent = {}
    /\ faults = 0
    /\ published = FALSE /\ onFile = {} /\ lost = NoGroup

----------------------------------------------------------------------------
(* reuse.decide, with reuse enabled, and the treatment it selects. *)

(* Variant: a group counts as a recommendation. *)
DecideAnyGroup(r, v) ==
    CASE kind[r] = "canned" -> "canned"
      [] kind[r] = "discrepancy" -> "llm"
      [] kind[r] = "plain" -> IF v.own \/ v.rec THEN "reuse" ELSE "awaits"

Decide(r, v) ==
    CASE kind[r] = "canned" -> "canned"
      [] kind[r] = "discrepancy" -> "llm"
      [] kind[r] = "plain" -> IF v.rec THEN "reuse" ELSE "awaits"

Treatment(d) == IF d \in {"canned", "reuse"} THEN "serve" ELSE "llm"

Goto(r, l) == pc' = [pc EXCEPT ![r] = l]

Load(r, call) ==
    /\ Goto(r, "get")
    /\ ret' = [ret EXCEPT ![r] = call]

Fault == faults < MaxFaults /\ faults' = faults + 1

----------------------------------------------------------------------------
(* record_occurrence. *)

CreateOccurrence(r) ==
    /\ pc[r] = "create"
    /\ occurrences' = occurrences \cup {r}
    /\ Goto(r, "meta")
    /\ UNCHANGED <<gateVars, kind, recommendation, cache, ret, read, localVars,
                   spent, faults, histVars>>

(* Variant: the cached composition is kept. *)
SaveMetaKeepsCache(r) ==
    /\ pc[r] = "meta"
    /\ Load(r, "recorded")
    /\ UNCHANGED <<gateVars, storeVars, cache, read, localVars, spent, faults,
                   histVars>>

(* meta.json is rewritten, the cached composition dropped, and the group   *)
(* read back.                                                              *)
SaveMeta(r) ==
    /\ pc[r] = "meta"
    /\ cache' = <<>>
    /\ Load(r, "recorded")
    /\ UNCHANGED <<gateVars, storeVars, read, localVars, spent, faults,
                   histVars>>

(* Either write raises: the route reads the group back instead. *)
RecordRaises(r) ==
    /\ pc[r] \in {"create", "meta"}
    /\ Fault
    /\ counted' = counted \ {r}
    /\ Load(r, "reread")
    /\ UNCHANGED <<gateVars, storeVars, cache, read, group, decision,
                   spent, histVars>>

----------------------------------------------------------------------------
(* load_group, and what its caller does with the group it returns. *)

(* The part of analyze_dlt behind attach_code_check. *)
AfterCheck(r, v) ==
    /\ group' = [group EXCEPT ![r] = v]
    /\ Goto(r, IF decision[r] = "awaits" THEN "enter"
                                         ELSE Treatment(decision[r]))
    /\ ret' = [ret EXCEPT ![r] = "none"]
    /\ UNCHANGED <<decision, counted>>

(* An empty answer is no answer: the caller keeps the group it has. *)
Newer(r, g) == IF g = NoGroup THEN group[r] ELSE See(r, g)

Returns(r, g) ==
    \/ /\ ret[r] = "recorded" /\ g = NoGroup
       /\ Load(r, "reread")
       /\ UNCHANGED <<group, decision, counted>>
    \/ /\ ret[r] = "reread" \/ (ret[r] = "recorded" /\ g # NoGroup)
       /\ group' = [group EXCEPT ![r] = See(r, g)]
       /\ decision' = [decision EXCEPT ![r] = Decide(r, See(r, g))]
       /\ counted' = IF g = NoGroup THEN counted \ {r} ELSE counted
       /\ Goto(r, "check")
       /\ ret' = [ret EXCEPT ![r] = "none"]
    \/ /\ ret[r] = "checked"
       /\ AfterCheck(r, Newer(r, g))
    \/ /\ ret[r] = "fresh"
       /\ group' = [group EXCEPT ![r] = Newer(r, g)]
       /\ decision' = [decision EXCEPT ![r] = Decide(r, Newer(r, g))]
       /\ Goto(r, Treatment(Decide(r, Newer(r, g))))
       /\ ret' = [ret EXCEPT ![r] = "none"]
       /\ UNCHANGED counted
    \/ /\ ret[r] = "attached"
       /\ group' = [group EXCEPT ![r] = Newer(r, g)]
       /\ Goto(r, "leave")
       /\ ret' = [ret EXCEPT ![r] = "none"]
       /\ UNCHANGED <<decision, counted>>

CacheHit(r) ==
    /\ pc[r] = "get"
    /\ cache # <<>>
    /\ Returns(r, cache[1])
    /\ UNCHANGED <<gateVars, storeVars, cache, read, spent, faults,
                   histVars>>

CacheMiss(r) ==
    /\ pc[r] = "get"
    /\ cache = <<>>
    /\ Goto(r, "read")
    /\ UNCHANGED <<gateVars, storeVars, cache, ret, read, localVars, spent,
                   faults, histVars>>

ReadGroup(r) ==
    /\ pc[r] = "read"
    /\ read' = [read EXCEPT ![r] = [members |-> occurrences,
                                    rec |-> recommendation]]
    /\ Goto(r, "put")
    /\ UNCHANGED <<gateVars, storeVars, cache, ret, localVars, spent, faults,
                   histVars>>

(* The composition is cached although the store may have moved on since it *)
(* was read; lost keeps what it lacks.                                     *)
CachePut(r) ==
    /\ pc[r] = "put"
    /\ cache' = <<read[r]>>
    /\ lost' = [members |-> lost.members
                               \cup {q \in occurrences \ read[r].members :
                                         pc[q] # "done"},
                rec |-> lost.rec \/ recommendation # read[r].rec]
    /\ read' = [read EXCEPT ![r] = NoGroup]
    /\ Returns(r, read[r])
    /\ UNCHANGED <<gateVars, storeVars, spent, faults, published,
                   onFile>>

(* A read raises: _reload and groups.load_group both answer with nothing. *)
LoadRaises(r) ==
    /\ pc[r] = "read"
    /\ Fault
    /\ Returns(r, NoGroup)
    /\ UNCHANGED <<gateVars, storeVars, cache, read, spent, histVars>>

(* An entry of _cache is older than CACHE_TTL_SECONDS. *)
CacheExpires ==
    /\ cache # <<>>
    /\ cache' = <<>>
    /\ UNCHANGED <<gateVars, storeVars, pc, ret, read, localVars, spent,
                   faults, histVars>>

----------------------------------------------------------------------------
(* The replay precheck and its verdict's way into the group. *)

(* The verdict is UNKNOWN, or could not be stored. *)
SkipCheck(r) ==
    /\ pc[r] = "check"
    /\ AfterCheck(r, group[r])
    /\ \/ UNCHANGED faults
       \/ Fault
    /\ UNCHANGED <<gateVars, storeVars, cache, read, spent, histVars>>

AttachCodeCheck(r) ==
    /\ pc[r] = "check"
    /\ cache' = <<>>
    /\ Load(r, "checked")
    /\ UNCHANGED <<gateVars, storeVars, read, localVars, spent, faults,
                   histVars>>

----------------------------------------------------------------------------
(* The single-flight block. *)

EnterGate(r) ==
    /\ pc[r] = "enter"
    /\ Enter(r)
    /\ Goto(r, "gate")
    /\ UNCHANGED <<storeVars, cache, ret, read, localVars, spent, faults,
                   histVars>>

(* Through the gate, the group is read again, waited or not. *)
GetGate(r) ==
    /\ pc[r] = "gate"
    /\ Acquire(r)
    /\ onFile' = IF published THEN onFile \cup {r} ELSE onFile
    /\ Load(r, "fresh")
    /\ UNCHANGED <<storeVars, cache, read, localVars, spent, faults, published,
                   lost>>

GateTimeout(r) ==
    /\ pc[r] = "gate"
    /\ OwnWait \/ r \in spent
    /\ GiveUp(r)
    /\ Load(r, "fresh")
    /\ UNCHANGED <<storeVars, cache, read, localVars, spent, faults, histVars>>

(* remaining() is read at the gate and for the model run. *)
SpendBudget(r) ==
    /\ pc[r] \in {"gate", "llm"} /\ r \notin spent
    /\ spent' = spent \cup {r}
    /\ UNCHANGED <<gateVars, storeVars, cache, pc, ret, read, localVars,
                   faults, histVars>>

RunOver(r, l) ==
    /\ Goto(r, l)
    /\ UNCHANGED <<gateVars, storeVars, cache, ret, read, localVars, spent,
                   faults, histVars>>

(* A canned finding, or the one in the group. *)
Serve(r) == pc[r] = "serve" /\ RunOver(r, "leave")

(* The model run answers; only a finding about the failure mode, and free  *)
(* of packet-specific text, is cached.                                     *)
RunEnds(r) ==
    /\ pc[r] = "llm" /\ r \notin spent
    /\ \/ RunOver(r, "leave")   \* or it raised
       \/ kind[r] # "discrepancy" /\ RunOver(r, "save")

(* Variant: only a run under the gate is bounded. *)
RunTimesOutGated(r) ==
    pc[r] = "llm" /\ r \in spent /\ flight[r] = "acquired" /\ RunOver(r, "leave")

(* The budget runs out under the run, or was gone before it could start. *)
RunTimesOut(r) == pc[r] = "llm" /\ r \in spent /\ RunOver(r, "leave")

SaveRecommendation(r) ==
    /\ pc[r] = "save"
    /\ recommendation' = TRUE
    /\ Goto(r, "invalidate")
    /\ UNCHANGED <<gateVars, kind, occurrences, cache, ret, read, localVars, spent,
                   faults, histVars>>

SaveRaises(r) ==
    /\ pc[r] = "save"
    /\ Fault
    /\ Goto(r, "leave")
    /\ UNCHANGED <<gateVars, storeVars, cache, ret, read, localVars, spent,
                   histVars>>

(* Variant: the saved recommendation leaves the cached composition alone. *)
InvalidateNever(r) ==
    /\ pc[r] = "invalidate"
    /\ published' = TRUE
    /\ Load(r, "attached")
    /\ UNCHANGED <<gateVars, storeVars, cache, read, localVars, spent, faults,
                   onFile, lost>>

Invalidate(r) ==
    /\ pc[r] = "invalidate"
    /\ cache' = <<>>
    /\ published' = TRUE
    /\ Load(r, "attached")
    /\ UNCHANGED <<gateVars, storeVars, read, localVars, spent, faults, onFile,
                   lost>>

(* The block ends, and the request's locals are not read by it again. *)
LeaveBlock(r) ==
    /\ pc[r] = "leave"
    /\ Goto(r, "done")
    /\ IF flight[r] = "none" THEN UNCHANGED gateVars ELSE LeaveGate(r)
    /\ group' = [group EXCEPT ![r] = See(r, NoGroup)]
    /\ decision' = [decision EXCEPT ![r] = "none"]
    /\ counted' = counted \ {r} /\ spent' = spent \ {r}
    /\ onFile' = onFile \ {r} /\ lost' = [lost EXCEPT !.members = @ \ {r}]
    /\ UNCHANGED <<storeVars, cache, ret, read, faults, published>>

----------------------------------------------------------------------------

(* What the request's own coroutine and threads do. *)
Step(r) ==
    \/ CreateOccurrence(r) \/ SaveMeta(r) \/ RecordRaises(r)
    \/ CacheHit(r) \/ CacheMiss(r) \/ ReadGroup(r) \/ CachePut(r)
    \/ LoadRaises(r) \/ SkipCheck(r) \/ AttachCodeCheck(r)
    \/ EnterGate(r) \/ GetGate(r) \/ GateTimeout(r)
    \/ Serve(r) \/ RunTimesOut(r)
    \/ SaveRecommendation(r) \/ SaveRaises(r) \/ Invalidate(r)
    \/ LeaveBlock(r)

Next ==
    \/ \E r \in Request :
          Step(r) \/ RunEnds(r) \/ SpendBudget(r)
    \/ CacheExpires

Spec == Init /\ [][Next]_vars

(* Threads and the event loop run, and time passes.  Nothing makes a model *)
(* run end.                                                                *)
FairSpec ==
    /\ Spec
    /\ \A r \in Request : WF_vars(Step(r)) /\ WF_vars(SpendBudget(r))

----------------------------------------------------------------------------

(* The group a request decides and reports on counts the request's own     *)
(* case, which was recorded first: unless the write failed, or another     *)
(* request cached a composition it had read before that write.             *)
OwnCaseCounted == \A r \in Request :
    /\ pc[r] \in {"check", "enter", "gate", "llm", "serve", "save",
                  "invalidate", "leave"}
    /\ r \in counted
    => group[r].own \/ r \in lost.members

(* A request that gets the gate after a leader's recommendation was        *)
(* attached does not pay for the model again, unless the store failed or a *)
(* composition read before the recommendation was cached after it.         *)
WaiterReuses == \A r \in Request :
    pc[r] = "llm" /\ flight[r] = "acquired" /\ r \in onFile
        => lost.rec \/ faults > 0

(* The same with no exception for the cache: single_flight.py, "if the     *)
(* leader left a recommendation it is served (REUSE_GROUP, no LLM)".       *)
LeaderServesWaiters == \A r \in Request :
    pc[r] = "llm" /\ flight[r] = "acquired" => r \notin onFile

(* A request that decided to reuse the group's recommendation still has    *)
(* one in the group it then serves from, which attach_code_check may have  *)
(* replaced in between.                                                    *)
ReuseHasText == \A r \in Request :
    pc[r] = "serve" /\ decision[r] = "reuse" => group[r].rec \/ lost.rec

(* No request hangs behind a stuck investigation: every one gets through   *)
(* the block.                                                              *)
EveryRequestEnds == \A r \in Request : <>(pc[r] = "done")
=============================================================================
