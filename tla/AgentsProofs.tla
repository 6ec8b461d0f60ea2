---------------------------- MODULE AgentsProofs ----------------------------
(***************************************************************************)
(* TLAPS proofs about the agents' side: the graph a packet is given        *)
(* (GraphCache), the path of a case through that graph (AgentGraph), and   *)
(* the service whose pack and logs it is given (ServiceRouting).           *)
(***************************************************************************)
EXTENDS AgentGraph, GraphCache, ServiceRouting, FiniteSetTheorems, TLAPS

----------------------------------------------------------------------------
(* GraphCache: what the lock-free lookup may pair with what. *)

Listing == {"none", "new", "due", "full"}
Graph == [tools : {"none", "partial", "full"}, prompts : 0..MaxVersion]
Building == {"locked", "list", "compile", "publish", "seal"}
PacketPlace == {"idle", "fetched", "asks", "take", "waits", "runs"} \cup Building

CacheTyped ==
    /\ label \in 0..MaxVersion /\ active \in 0..MaxVersion
    /\ catalog \in Listing /\ agentCatalog \in Listing
    /\ agent \in Graph /\ agentPrompts \in -1..MaxVersion
    /\ lock \in Packet \cup {NoPacket}
    /\ pc \in [Packet -> PacketPlace] /\ snap \in [Packet -> 0..MaxVersion]
    /\ cat \in [Packet -> Listing] /\ got \in [Packet -> Graph]

LockInv == \A p \in Packet : pc[p] \in Building <=> lock = p

(* A version is checked before it is in use, and a build is pinned to one  *)
(* in use.                                                                 *)
CheckedInv ==
    /\ active \notin Bad /\ agent.prompts \notin Bad
    /\ \A p \in Packet : pc[p] \in {"list", "compile"} => snap[p] \notin Bad

(* The catalog, once complete, stays so; the graph beside a complete one   *)
(* has every tool, whoever built it.                                       *)
CompleteInv ==
    /\ agentCatalog = "full" => catalog = "full" /\ agent.tools = "full"
    /\ \A p \in Packet :
        /\ cat[p] = "full" => catalog = "full"
        /\ pc[p] = "compile" /\ catalog = "full" => cat[p] = "full"
        /\ pc[p] \in {"take", "locked", "publish", "seal"} /\ cat[p] = "full"
               => agent.tools = "full"
        /\ pc[p] = "runs" /\ cat[p] = "full" => got[p].tools = "full"

LEMMA CacheInitially ==
    CacheInit => CacheTyped /\ LockInv /\ CheckedInv /\ CompleteInv
<1> SUFFICES ASSUME CacheInit PROVE CacheTyped /\ LockInv /\ CheckedInv /\ CompleteInv
  OBVIOUS
<1>1. MaxVersion \in Nat /\ Bad \subseteq 1..MaxVersion /\ NoPacket \notin Packet
  BY CacheAssumption
<1>2. NoGraph \in Graph /\ NoGraph.prompts = 0
  BY <1>1 DEF NoGraph, Graph
<1>3. CacheTyped
  BY <1>1, <1>2 DEF CacheInit, CacheTyped, Listing, PacketPlace
<1>4. LockInv
  BY <1>1 DEF CacheInit, LockInv, Building
<1>5. CheckedInv
  BY <1>1, <1>2 DEF CacheInit, CheckedInv
<1>6. CompleteInv
  BY DEF CacheInit, CompleteInv
<1> QED
  BY <1>3, <1>4, <1>5, <1>6

LEMMA CacheTypedStep ==
    ASSUME CacheTyped, [CacheNext]_cacheVars
    PROVE  CacheTyped'
<1> USE DEF shared, Moves
<1>1. MaxVersion \in Nat /\ Bad \subseteq 1..MaxVersion
  BY CacheAssumption
<1>2. CASE Publish \/ ServersChange
  BY <1>1, <1>2 DEF Publish, ServersChange, CacheTyped
<1>3. CASE RetryDue
  BY <1>3 DEF RetryDue, Aged, Listing, CacheTyped
<1>4. NoGraph \in Graph
  BY <1>1 DEF NoGraph, Graph
<1>5. ASSUME NEW p \in Packet, Fetch(p) \/ RunOnGraph(p)
      PROVE  CacheTyped'
  BY <1>4, <1>5 DEF Fetch, RunOnGraph, CacheTyped, PacketPlace, Listing
<1>6. ASSUME NEW p \in Packet, Refresh(p) \/ Ask(p) \/ Take(p) \/ Lock(p) \/ Rechecked(p)
      PROVE  CacheTyped'
  <2>1. CASE Refresh(p)
    BY <2>1 DEF Refresh, CacheTyped, PacketPlace, Building
  <2>2. CASE Ask(p) \/ Take(p)
    BY <2>2 DEF Ask, Take, CacheTyped, PacketPlace, Building
  <2>3. CASE Lock(p) \/ Rechecked(p)
    BY <2>3 DEF Lock, Rechecked, CacheTyped, PacketPlace, Building
  <2> QED
    BY <1>6, <2>1, <2>2, <2>3
<1>7. ASSUME NEW p \in Packet, ListTools(p) \/ PublishedCatalog(p)
      PROVE  CacheTyped'
  <2>1. CASE ListTools(p)
    BY <2>1 DEF ListTools, LoadCatalog, CacheTyped, PacketPlace, Building, Listing
  <2>2. CASE PublishedCatalog(p)
    BY <2>2 DEF PublishedCatalog, CacheTyped, PacketPlace, Building
  <2> QED
    BY <1>7, <2>1, <2>2
<1>8. ASSUME NEW p \in Packet, Compile(p) \/ Seal(p)
      PROVE  CacheTyped'
  <2>1. CASE Compile(p)
    <3>1. snap[p] \in 0..MaxVersion
      BY DEF CacheTyped
    <3>2. agent' \in Graph
      BY <2>1, <3>1 DEF Compile, Graph
    <3>3. pc' \in [Packet -> PacketPlace]
      BY <2>1 DEF Compile, CacheTyped, PacketPlace, Building
    <3> QED
      BY <2>1, <3>2, <3>3 DEF Compile, CacheTyped
  <2>2. CASE Seal(p)
    <3>1. snap[p] \in -1..MaxVersion
      BY <1>1 DEF CacheTyped
    <3>2. pc' \in [Packet -> PacketPlace] /\ got' \in [Packet -> Graph]
      BY <2>2 DEF Seal, CacheTyped, PacketPlace, Building
    <3> QED
      BY <2>2, <3>1, <3>2 DEF Seal, CacheTyped
  <2> QED
    BY <1>8, <2>1, <2>2
<1>9. CASE UNCHANGED cacheVars
  BY <1>9 DEF cacheVars, CacheTyped
<1> QED
  BY <1>2, <1>3, <1>5, <1>6, <1>7, <1>8, <1>9 DEF CacheNext, CacheStep

LEMMA LockStep ==
    ASSUME CacheTyped, LockInv, [CacheNext]_cacheVars
    PROVE  LockInv'
<1> USE DEF shared, Moves, LockInv, Building
<1>1. NoPacket \notin Packet
  BY CacheAssumption
<1>2. ASSUME NEW p \in Packet, Fetch(p) \/ CacheStep(p)
      PROVE  LockInv'
  <2>1. CASE Fetch(p) \/ Refresh(p) \/ Ask(p) \/ Take(p) \/ RunOnGraph(p)
    BY <2>1 DEF Fetch, Refresh, Ask, Take, RunOnGraph, CacheTyped
  <2>2. CASE Lock(p) \/ Rechecked(p) \/ Seal(p)
    BY <1>1, <2>2 DEF Lock, Rechecked, Seal, CacheTyped
  <2>3. CASE ListTools(p) \/ Compile(p) \/ PublishedCatalog(p)
    BY <2>3 DEF ListTools, Compile, PublishedCatalog, CacheTyped
  <2> QED
    BY <1>2, <2>1, <2>2, <2>3 DEF CacheStep
<1>3. CASE Publish \/ ServersChange \/ RetryDue \/ UNCHANGED cacheVars
  BY <1>3 DEF Publish, ServersChange, RetryDue, cacheVars
<1> QED
  BY <1>2, <1>3 DEF CacheNext

LEMMA CheckedStep ==
    ASSUME CacheTyped, CheckedInv, [CacheNext]_cacheVars
    PROVE  CheckedInv'
<1> USE DEF shared, Moves, CheckedInv
<1>1. ASSUME NEW p \in Packet, Fetch(p) \/ CacheStep(p)
      PROVE  CheckedInv'
  <2>1. CASE Fetch(p) \/ Ask(p) \/ Take(p) \/ RunOnGraph(p)
    BY <2>1 DEF Fetch, Ask, Take, RunOnGraph, CacheTyped
  <2>2. CASE Refresh(p) \/ Lock(p)
    BY <2>2 DEF Refresh, Lock, CacheTyped
  <2>3. CASE Rechecked(p) \/ ListTools(p) \/ PublishedCatalog(p) \/ Seal(p)
    BY <2>3 DEF Rechecked, ListTools, PublishedCatalog, Seal, CacheTyped
  <2>4. CASE Compile(p)
    BY <2>4 DEF Compile, CacheTyped
  <2> QED
    BY <1>1, <2>1, <2>2, <2>3, <2>4 DEF CacheStep
<1>2. CASE Publish \/ ServersChange \/ RetryDue \/ UNCHANGED cacheVars
  BY <1>2 DEF Publish, ServersChange, RetryDue, cacheVars
<1> QED
  BY <1>1, <1>2 DEF CacheNext

LEMMA CompleteStep ==
    ASSUME EarlyCatalog = FALSE, CacheTyped, LockInv, CompleteInv, [CacheNext]_cacheVars
    PROVE  CompleteInv'
<1> USE DEF shared, Moves, CompleteInv
<1>1. ASSUME NEW p \in Packet, Fetch(p) \/ CacheStep(p)
      PROVE  CompleteInv'
  <2>1. CASE Fetch(p) \/ RunOnGraph(p)
    BY <2>1 DEF Fetch, RunOnGraph, CacheTyped
  <2>2. CASE Refresh(p) \/ Take(p)
    BY <2>2 DEF Refresh, Take, CacheTyped
  <2>3. CASE Ask(p)
    BY <2>3 DEF Ask, CacheTyped
  <2>4. CASE Lock(p)
    BY <2>4 DEF Lock, CacheTyped
  <2>5. CASE Rechecked(p) \/ Seal(p)
    BY <2>5 DEF Rechecked, Seal, CacheTyped
  <2>6. CASE ListTools(p)
    <3>1. \A q \in Packet \ {p} : pc[q] # "compile"
      BY <2>6 DEF ListTools, LockInv, Building
    <3>2. catalog = "full" => catalog' = "full"
      BY <2>6 DEF ListTools, IsStale
    <3>3. /\ pc' = [pc EXCEPT ![p] = "compile"] /\ cat' = [cat EXCEPT ![p] = catalog']
          /\ UNCHANGED <<agentCatalog, agent, got>>
      BY <2>6 DEF ListTools
    <3> QED
      BY <3>1, <3>2, <3>3 DEF CacheTyped
  <2>7. CASE Compile(p)
    <3>1. /\ agent'.tools = IF cat[p] = "full" THEN "full" ELSE "partial"
          /\ pc' = [pc EXCEPT ![p] = "publish"] /\ pc[p] = "compile"
          /\ UNCHANGED <<catalog, agentCatalog, cat, got>>
      BY <2>7 DEF Compile
    <3>2. catalog = "full" => agent'.tools = "full"
      BY <3>1
    <3> QED
      BY <3>1, <3>2 DEF CacheTyped
  <2>8. CASE PublishedCatalog(p)
    BY <2>8 DEF PublishedCatalog, CacheTyped
  <2> QED
    BY <1>1, <2>1, <2>2, <2>3, <2>4, <2>5, <2>6, <2>7, <2>8 DEF CacheStep
<1>2. CASE RetryDue
  BY <1>2 DEF RetryDue, Aged, CacheTyped
<1>3. CASE Publish \/ ServersChange \/ UNCHANGED cacheVars
  BY <1>3 DEF Publish, ServersChange, cacheVars
<1> QED
  BY <1>1, <1>2, <1>3 DEF CacheNext

(* For any number of packets, versions and outages: no packet is given,    *)
(* and no graph is built from, a prompt version that failed its checks     *)
(* (prompt_store.refresh, get_agent), and the lock has a holder that will  *)
(* let go of it.                                                           *)
THEOREM PromptsAreChecked == CacheSpec => [](CacheTypeOK /\ BadNeverUsed)
<1>1. CacheTyped /\ LockInv /\ CheckedInv => CacheTypeOK /\ BadNeverUsed
  BY DEF CacheTyped, LockInv, CheckedInv, CacheTypeOK, BadNeverUsed, Listing, Building
<1>2. CacheTyped /\ LockInv /\ CheckedInv /\ [CacheNext]_cacheVars
         => (CacheTyped /\ LockInv /\ CheckedInv)'
  BY CacheTypedStep, LockStep, CheckedStep
<1> QED
  BY <1>1, <1>2, CacheInitially, PTL DEF CacheSpec

(* With a builder that publishes the graph before its catalog, as          *)
(* agent_orchestrator's does: a packet that found the catalog complete is  *)
(* given a graph with every tool, whichever rebuilds and lookups overlap.  *)
THEOREM LookupsAreSound ==
    ASSUME EarlyCatalog = FALSE
    PROVE  CacheSpec => []GraphIsSound
<1> DEFINE IInv == CacheTyped /\ LockInv /\ CheckedInv /\ CompleteInv
<1>1. IInv => GraphIsSound
  BY DEF CacheTyped, LockInv, CheckedInv, CompleteInv, CacheTypeOK, BadNeverUsed,
     FreshCatalogFreshGraph, GraphIsSound, Listing, Building
<1>2. IInv /\ [CacheNext]_cacheVars => IInv'
  BY CacheTypedStep, LockStep, CheckedStep, CompleteStep
<1> QED
  BY <1>1, <1>2, CacheInitially, PTL DEF CacheSpec

----------------------------------------------------------------------------
(* AgentGraph: the review loop and what is synthesised. *)

Flag == BOOLEAN
Logs == {"none", "disabled", "silent", "gaps", "full"}
Source == {"none", "agent", "runbook"}
Feedback == {"none", "APPROVED", "REJECTED"}
Agreed == {"none", "agreed", "diverged"}
Author == {"none", "runbook", "escalate", "synthesis"}
Action == {"none", "REPLAY", "OTHER", "MANUAL_REVIEW"}
Percent == -1..100
Answer == [by : Author, action : Action, confidence : Percent, abstained : Flag]
Values ==
    [logs : Logs, source : Source, shadow : Flag, inv : Nat, feedback : Feedback, reviews : Nat,
     pilot : Flag, answer : Answer, agreed : Agreed, reviewed : Nat, rejected : Nat,
     retried : Flag]

(* What the values of a graph hold when its next node is n: the loop has   *)
(* counted every review and every rejection, and what goes to Synthesis    *)
(* was approved.                                                           *)
Sound(n, v) ==
    /\ v.reviews <= MaxReviews
    /\ v.retried => v.rejected > 0
    /\ n \in {"none", "fetch_logs", "runbook_lookup", "filter_logs"}
          => v.reviews = 0 /\ v.rejected = 0 /\ v.feedback = "none"
    /\ n \in {"investigate", "review"}
          => v.reviews < MaxReviews /\ v.rejected = v.reviews /\ (v.feedback # "none" => v.reviews > 0)
    /\ n = "synthesize"
          => v.feedback = "APPROVED" /\ v.reviewed = v.inv /\ v.rejected = v.reviews - 1
    /\ n = "escalate" => v.feedback # "APPROVED" /\ v.rejected = v.reviews
    /\ n # "END" => v.answer.by = "none"
    /\ n = "END" /\ v.source = "agent" => Rejections(v) = v.rejected
    /\ v.answer.by = "synthesis"
          => /\ v.feedback = "APPROVED" /\ v.reviewed = v.inv
             /\ \A c \in Ceilings(env, v.logs) : v.answer.confidence <= c
    /\ v.answer.by = "runbook" => env.runbook # "changed" /\ env.pack # "_default"

GraphInv ==
    /\ env \in [harness : BOOLEAN, filter : BOOLEAN, mode : {"off", "shadow", "serve"},
                allowed : BOOLEAN, pilot : BOOLEAN, pack : {"own", "_default"},
                rules : {"rules_db", "none"},
                runbook : {"none", "unchanged", "changed", "unreadable"},
                agents : SUBSET {"own", "default"}, mcp : BOOLEAN, threshold : 0..100]
    /\ thread.next \in Node \cup {"none", "END"} /\ thread.values \in Values
    /\ Sound(thread.next, thread.values)
    /\ at \in [Run -> Node \cup {"idle", "over"}] /\ busy \in [Run -> BOOLEAN]
    /\ doing \in [Run -> Doing] /\ val \in [Run -> Values] /\ artifact \in Logs
    /\ \A r \in Run : IF at[r] \in Node THEN Sound(at[r], val[r]) ELSE val[r].reviews = 0

(* Only a run at a node is inside a call that writes, and only a Synthesis *)
(* that was built with the replay tool is inside that one.                 *)
CallInv == \A r \in Run : InCall(r) => at[r] \in Node /\ (at[r] = "synthesize" => ~val[r].pilot)

ActInv == TRUE \notin replays /\ agents \subseteq {"own", "default", "no tools"}

LEMMA NewValuesAre ==
    ASSUME NEW b \in Flag
    PROVE  /\ NewValues(b) \in Values
           /\ Sound("none", NewValues(b)) /\ Sound("fetch_logs", NewValues(b))
           /\ NewValues(b).reviews = 0
<1>1. FALSE \in Flag /\ Unstated \in Percent /\ MaxReviews \in Nat \ {0}
  BY GraphAssumption DEF Flag, Percent, Unstated
<1>2. NoAnswer \in Answer /\ NoAnswer.by = "none"
  <2>1. ASSUME NEW f \in Flag
        PROVE  [by |-> "none", action |-> "none", confidence |-> Unstated, abstained |-> f] \in Answer
    BY <1>1 DEF Answer, Author, Action
  <2>2. NoAnswer \in Answer
    BY <1>1, <2>1 DEF NoAnswer
  <2> QED
    BY <2>2 DEF NoAnswer
<1>3. NewValues(b) \in Values
  <2>1. ASSUME NEW f \in Flag
        PROVE  [logs |-> "none", source |-> "none", shadow |-> f, inv |-> 0, feedback |-> "none",
                reviews |-> 0, pilot |-> b, answer |-> NoAnswer, agreed |-> "none",
                reviewed |-> 0, rejected |-> 0, retried |-> f] \in Values
    BY <1>2 DEF Values, Logs, Source, Feedback, Agreed
  <2> QED
    BY <1>1, <2>1 DEF NewValues
<1>4. /\ NewValues(b).reviews = 0 /\ NewValues(b).rejected = 0 /\ NewValues(b).feedback = "none"
      /\ NewValues(b).answer = NoAnswer
  BY DEF NewValues
<1>5. ~NewValues(b).retried
  BY DEF NewValues
<1>6. ASSUME NEW n \in {"none", "fetch_logs"}
      PROVE  Sound(n, NewValues(b))
  <2>1. ASSUME NEW v, v.reviews = 0, v.rejected = 0, v.feedback = "none", v.answer.by = "none",
               ~v.retried
        PROVE  Sound(n, v)
    BY <1>1, <1>6, <2>1 DEF Sound
  <2> QED
    BY <1>2, <1>4, <1>5, <2>1
<1> QED
  BY <1>3, <1>4, <1>6

LEMMA GraphInitially == GraphInit => GraphInv /\ CallInv /\ ActInv
<1> SUFFICES ASSUME GraphInit PROVE GraphInv /\ CallInv /\ ActInv
  OBVIOUS
<1>1. FALSE \in Flag
  BY DEF Flag
<1>2. thread.next = "none" /\ thread.values = NewValues(FALSE)
  BY DEF GraphInit
<1>3. Sound(thread.next, thread.values) /\ thread.values \in Values
  BY <1>1, <1>2, NewValuesAre
<1>4. val \in [Run -> Values] /\ \A r \in Run : val[r].reviews = 0
  BY <1>1, NewValuesAre DEF GraphInit
<1>5. env \in [harness : BOOLEAN, filter : BOOLEAN, mode : {"off", "shadow", "serve"},
                allowed : BOOLEAN, pilot : BOOLEAN, pack : {"own", "_default"},
                rules : {"rules_db", "none"},
                runbook : {"none", "unchanged", "changed", "unreadable"},
                agents : SUBSET {"own", "default"}, mcp : BOOLEAN, threshold : 0..100]
  BY GraphAssumption DEF GraphInit
<1>6. /\ busy \in [Run -> BOOLEAN] /\ doing \in [Run -> Doing]
      /\ \A r \in Run : doing[r] = "none"
  BY DEF GraphInit, Doing
<1>7. at \in [Run -> Node \cup {"idle", "over"}] /\ \A r \in Run : at[r] \notin Node
  BY DEF GraphInit, Node
<1>8. artifact \in Logs /\ TRUE \notin replays /\ agents = {}
  BY DEF GraphInit, Logs
<1> QED
  BY <1>2, <1>3, <1>4, <1>5, <1>6, <1>7, <1>8 DEF GraphInv, CallInv, InCall, ActInv

(* A node that returns hands its values to the checkpoint and to its run.  *)
LEMMA ReturnKeeps ==
    ASSUME GraphInv, NEW r \in Run, NEW n \in Node \cup {"END"}, NEW v \in Values,
           Sound(n, v), Returns(r, n, v), artifact' \in Logs
    PROVE  GraphInv'
<1>1. FALSE \in Flag
  BY DEF Flag
<1>2. thread'.next = n /\ thread'.values = v /\ env' = env
  BY DEF Returns
<1>3. /\ val' = [val EXCEPT ![r] = IF n = "END" THEN NewValues(FALSE) ELSE v]
      /\ at' = [at EXCEPT ![r] = IF n = "END" THEN "over" ELSE n]
      /\ busy' = [busy EXCEPT ![r] = FALSE]
  BY DEF Returns
<1>4. busy' \in [Run -> BOOLEAN] /\ doing' \in [Run -> Doing]
  BY <1>3 DEF GraphInv, Returns, Doing
<1>5. at' \in [Run -> Node \cup {"idle", "over"}]
  BY <1>3 DEF GraphInv
<1>6. val' \in [Run -> Values]
  BY <1>1, <1>3, NewValuesAre DEF GraphInv
<1>7. ASSUME NEW q \in Run
      PROVE  IF at'[q] \in Node THEN Sound(at'[q], val'[q]) ELSE val'[q].reviews = 0
  <2>1. CASE q # r
    BY <1>3, <2>1 DEF GraphInv
  <2>2. CASE q = r /\ n = "END"
    <3>1. at'[q] = "over" /\ val'[q] = NewValues(FALSE)
      BY <1>3, <2>2 DEF GraphInv
    <3> QED
      BY <1>1, <3>1, NewValuesAre DEF Node
  <2>3. CASE q = r /\ n # "END"
    BY <1>3, <2>3 DEF GraphInv
  <2> QED
    BY <2>1, <2>2, <2>3
<1>8. Sound(thread.next, thread.values)'
  BY <1>2 DEF Sound
<1>9. \A q \in Run : (IF at[q] \in Node THEN Sound(at[q], val[q]) ELSE val[q].reviews = 0)'
  BY <1>2, <1>7 DEF Sound
<1> QED
  BY <1>2, <1>4, <1>5, <1>6, <1>8, <1>9 DEF GraphInv

LEMMA MinOf ==
    ASSUME NEW a \in Nat, NEW b \in Nat
    PROVE  Min({a, b}) = IF a <= b THEN a ELSE b
<1>1. \E x \in {a, b} : \A y \in {a, b} : x =< y
  OBVIOUS
<1>2. Min({a, b}) \in {a, b} /\ \A y \in {a, b} : Min({a, b}) =< y
  BY <1>1 DEF Min
<1> QED
  BY <1>2

(* A node that is running has sound values to start from. *)
LEMMA Running ==
    ASSUME GraphInv, NEW r \in Run, NEW n \in Node, In(r, n)
    PROVE  /\ val[r] \in Values /\ Sound(n, val[r])
           /\ MaxReviews \in Nat /\ MaxReviews > 0
BY GraphAssumption DEF GraphInv, In

LEMMA FetchLogsKeeps ==
    ASSUME GraphInv, NEW r \in Run, FetchLogs(r)
    PROVE  GraphInv'
<1>1. PICK found \in IF artifact # "none" THEN {artifact} ELSE LogKind \cup {"none"} :
         /\ FetchAndPersist(found)
         /\ Returns(r, "runbook_lookup", [val[r] EXCEPT !.logs = found])
  BY DEF FetchLogs
<1>2. found \in Logs /\ artifact' \in Logs
  BY <1>1, GraphAssumption DEF FetchAndPersist, GraphInv, Logs
<1>3. val[r] \in Values /\ Sound("fetch_logs", val[r])
  BY Running DEF FetchLogs, Node
<1> DEFINE v == [val[r] EXCEPT !.logs = found]
<1>4. v \in Values
  BY <1>2, <1>3 DEF Values
<1>5. Sound("runbook_lookup", v)
  BY <1>3 DEF Sound, Values
<1> QED
  BY <1>1, <1>2, <1>4, <1>5, ReturnKeeps DEF Node

LEMMA RunbookLookupKeeps ==
    ASSUME GraphInv, NEW r \in Run, RunbookLookup(r)
    PROVE  GraphInv'
<1> DEFINE hit == RunbookFound(env)
           serve == hit /\ env.mode = "serve" /\ env.allowed
           served == [NoAnswer EXCEPT !.by = "runbook", !.action = "OTHER"]
           v == [val[r] EXCEPT
                   !.source = IF serve THEN "runbook" ELSE "agent",
                   !.shadow = hit /\ ~serve,
                   !.answer = IF serve THEN served ELSE @]
<1>1. Returns(r, AfterRunbook(env, v), v) /\ artifact' = artifact
  BY DEF RunbookLookup
<1>2. val[r] \in Values /\ Sound("runbook_lookup", val[r]) /\ MaxReviews > 0
  BY Running DEF RunbookLookup, Node
<1>3. NoAnswer \in Answer
  BY NewValuesAre DEF NewValues, Values, Flag
<1>4. served \in Answer /\ served.by = "runbook"
  BY <1>3 DEF Answer, Author, Action
<1>5. (hit /\ ~serve) \in Flag
  BY DEF Flag
<1>6. ASSUME NEW f \in Flag, NEW s \in Source, NEW a \in Answer
      PROVE  [val[r] EXCEPT !.source = s, !.shadow = f, !.answer = a] \in Values
  BY <1>2 DEF Values
<1>7. v \in Values
  <2>1. CASE serve
    BY <1>4, <1>5, <1>6, <2>1 DEF Source
  <2>2. CASE ~serve
    <3>1. val[r].answer \in Answer
      BY <1>2 DEF Values
    <3> QED
      BY <1>5, <1>6, <2>2, <3>1 DEF Source
  <2> QED
    BY <2>1, <2>2
<1>8. AfterRunbook(env, v) \in Node \cup {"END"} /\ Sound(AfterRunbook(env, v), v)
  <2>1. CASE serve
    <3>1. v.source = "runbook" /\ v.answer = served
      BY <1>2, <2>1 DEF Values
    <3>2. env.runbook # "changed" /\ env.pack # "_default"
      BY <2>1 DEF RunbookFound
    <3>3. /\ v.reviews = val[r].reviews /\ v.retried = val[r].retried
          /\ v.rejected = val[r].rejected
      BY <1>2 DEF Values
    <3>4. AfterRunbook(env, v) = "END"
      BY <3>1 DEF AfterRunbook
    <3> HIDE DEF v, served
    <3>5. Sound("END", v)
      BY <1>2, <1>4, <3>1, <3>2, <3>3 DEF Sound
    <3> QED
      BY <3>4, <3>5
  <2>2. CASE ~serve
    <3>1. /\ v.source = "agent" /\ v.answer = val[r].answer /\ v.reviews = val[r].reviews
          /\ v.retried = val[r].retried /\ v.rejected = val[r].rejected
          /\ v.feedback = val[r].feedback
      BY <1>2, <2>2 DEF Values
    <3>2. AfterRunbook(env, v) \in {"filter_logs", "investigate"}
      BY <3>1 DEF AfterRunbook
    <3> HIDE DEF v, served
    <3>3. ASSUME NEW n \in {"filter_logs", "investigate"}
          PROVE  Sound(n, v)
      BY <1>2, <3>1 DEF Sound
    <3> QED
      BY <3>2, <3>3 DEF Node
  <2> QED
    BY <2>1, <2>2
<1> HIDE DEF v
<1> QED
  BY <1>1, <1>7, <1>8, ReturnKeeps DEF GraphInv

LEMMA FilterLogsKeeps ==
    ASSUME GraphInv, NEW r \in Run, FilterLogs(r)
    PROVE  GraphInv'
<1>1. PICK kept \in IF val[r].logs \in {"none", "disabled"} THEN {val[r].logs}
                    ELSE {val[r].logs, "full"} :
         Returns(r, "investigate", [val[r] EXCEPT !.logs = kept])
  BY DEF FilterLogs
<1>2. val[r] \in Values /\ Sound("filter_logs", val[r]) /\ MaxReviews > 0
  BY Running DEF FilterLogs, Node
<1>3. kept \in Logs
  BY <1>1, <1>2 DEF Values, Logs
<1> DEFINE v == [val[r] EXCEPT !.logs = kept]
<1>4. v \in Values
  BY <1>2, <1>3 DEF Values
<1>5. Sound("investigate", v)
  BY <1>2 DEF Sound, Values
<1>6. artifact' \in Logs
  BY DEF FilterLogs, GraphInv
<1> QED
  BY <1>1, <1>4, <1>5, <1>6, ReturnKeeps DEF Node

LEMMA InvestigateKeeps ==
    ASSUME GraphInv, NEW r \in Run, Investigate(r)
    PROVE  GraphInv'
<1> DEFINE retry == val[r].feedback # "none"
           v == [val[r] EXCEPT !.inv = val[r].reviews + 1, !.retried = retry]
<1>1. Returns(r, "review", v) /\ artifact' = artifact
  BY DEF Investigate
<1>2. val[r] \in Values /\ Sound("investigate", val[r])
  BY Running DEF Investigate, Node
<1>3. retry \in Flag
  BY DEF Flag
<1>4. ASSUME NEW f \in Flag, NEW i \in Nat
      PROVE  [val[r] EXCEPT !.inv = i, !.retried = f] \in Values
  BY <1>2 DEF Values
<1>5. v \in Values
  <2>1. val[r].reviews + 1 \in Nat
    BY <1>2 DEF Values
  <2> QED
    BY <1>3, <1>4, <2>1
<1>6. /\ v.reviews = val[r].reviews /\ v.rejected = val[r].rejected
      /\ v.feedback = val[r].feedback /\ v.answer = val[r].answer
  BY <1>2 DEF Values
<1>7. v.retried => v.feedback # "none"
  BY <1>2, <1>6 DEF Values
<1> HIDE DEF v
<1>8. v.reviews \in Nat /\ v.rejected \in Nat
  BY <1>5 DEF Values
<1>9. v.retried => v.rejected > 0
  BY <1>2, <1>6, <1>7, <1>8 DEF Sound
<1>10. Sound("review", v)
  BY <1>2, <1>6, <1>9 DEF Sound
<1> QED
  BY <1>1, <1>5, <1>10, ReturnKeeps DEF GraphInv, Node

(* A review, and where it leads. *)
LEMMA ReviewedIs ==
    ASSUME NEW w \in Values, Sound("review", w), MaxReviews \in Nat, MaxReviews > 0,
           NEW feedback \in Feedback
    PROVE  /\ Reviewed(w, feedback) \in Values
           /\ ReviewDecision(Reviewed(w, feedback)) \in Node
           /\ Sound(ReviewDecision(Reviewed(w, feedback)), Reviewed(w, feedback))
<1> DEFINE v == Reviewed(w, feedback)
           n == ReviewDecision(v)
<1>1. /\ w.reviews \in Nat /\ w.rejected \in Nat /\ w.inv \in Nat
      /\ w.reviews < MaxReviews /\ w.rejected = w.reviews /\ w.answer.by = "none"
  <2>1. w.reviews \in Nat /\ w.rejected \in Nat /\ w.inv \in Nat
    BY DEF Values
  <2>2. w.reviews < MaxReviews /\ w.rejected = w.reviews /\ w.answer.by = "none"
    BY DEF Sound
  <2> QED
    BY <2>1, <2>2
<1>2. Min({w.rejected + 1, MaxReviews + 1}) = w.rejected + 1
  BY <1>1, MinOf
<1> DEFINE more == w.reviews + 1
           rej == IF feedback = "APPROVED" THEN w.rejected ELSE w.rejected + 1
<1>3. v = [w EXCEPT !.feedback = feedback, !.reviews = more, !.reviewed = w.inv, !.rejected = rej]
  BY <1>2 DEF Reviewed
<1>4. v \in Values
  <2>1. ASSUME NEW i \in Nat, NEW j \in Nat, NEW k \in Nat
        PROVE  [w EXCEPT !.feedback = feedback, !.reviews = i, !.reviewed = j, !.rejected = k]
                   \in Values
    BY DEF Values
  <2>2. more \in Nat /\ rej \in Nat
    BY <1>1
  <2> HIDE DEF more, rej, v
  <2> QED
    BY <1>1, <1>3, <2>1, <2>2
<1>5. /\ v.feedback = feedback /\ v.reviews = w.reviews + 1 /\ v.reviewed = v.inv
      /\ v.rejected = (IF feedback = "APPROVED" THEN w.rejected ELSE w.rejected + 1)
      /\ v.answer = w.answer /\ v.retried = w.retried
  BY <1>3 DEF Values
<1>6. n = IF feedback = "APPROVED" THEN "synthesize"
          ELSE IF w.reviews + 1 >= MaxReviews THEN "escalate" ELSE "investigate"
  BY <1>5 DEF ReviewDecision
<1> HIDE DEF v, n
<1>7. v.retried => v.rejected > 0
  <2>1. w.retried => w.rejected > 0
    BY DEF Sound
  <2>2. w.rejected > 0 => v.rejected > 0
    BY <1>1, <1>5
  <2>3. v.retried = w.retried
    BY <1>5
  <2> QED
    BY <2>1, <2>2, <2>3
<1>8. Sound(n, v)
  BY <1>1, <1>5, <1>6, <1>7 DEF Sound
<1>9. n \in Node
  BY <1>6 DEF Node
<1> QED
  BY <1>4, <1>8, <1>9 DEF v, n

LEMMA ReviewKeeps ==
    ASSUME GraphInv, NEW r \in Run, ReviewByHarness(r) \/ ReviewDirect(r)
    PROVE  GraphInv'
<1>1. PICK feedback \in Feedback :
         LET v == Reviewed(val[r], feedback) IN Returns(r, ReviewDecision(v), v)
  BY DEF ReviewByHarness, ReviewDirect, ReturnsReview, Feedback
<1>2. /\ val[r] \in Values /\ Sound("review", val[r])
      /\ MaxReviews \in Nat /\ MaxReviews > 0 /\ artifact' \in Logs
  BY Running DEF ReviewByHarness, ReviewDirect, Node, GraphInv
<1> QED
  BY <1>1, <1>2, ReviewedIs, ReturnKeeps

LEMMA EscalateKeeps ==
    ASSUME GraphInv, NEW r \in Run, Escalate(r)
    PROVE  GraphInv'
<1> DEFINE a == [NoAnswer EXCEPT !.by = "escalate", !.action = "MANUAL_REVIEW"]
           v == [val[r] EXCEPT !.answer = a]
<1>1. Returns(r, "END", v) /\ artifact' = artifact
  BY DEF Escalate
<1>2. val[r] \in Values /\ Sound("escalate", val[r])
  BY Running DEF Escalate, Node
<1>3. a \in Answer /\ a.by = "escalate"
  <2>1. NoAnswer \in Answer
    BY NewValuesAre DEF NewValues, Values, Flag
  <2> QED
    BY <2>1 DEF Answer, Author, Action
<1> HIDE DEF a
<1>4. v \in Values
  BY <1>2, <1>3 DEF Values
<1>5. /\ v.reviews = val[r].reviews /\ v.rejected = val[r].rejected
      /\ v.feedback = val[r].feedback /\ v.answer = a /\ v.retried = val[r].retried
  BY <1>2 DEF Values
<1> HIDE DEF v
<1>6. Sound("END", v)
  BY <1>2, <1>3, <1>5 DEF Sound, Rejections
<1> QED
  BY <1>1, <1>4, <1>6, ReturnKeeps DEF GraphInv

(* A synthesised answer, after the confidence policy. *)
LEMMA SynthesisReplyIs ==
    ASSUME NEW e, NEW logs, NEW answer \in SynthesisReply(e, logs)
    PROVE  /\ answer \in Answer /\ answer.by = "synthesis"
           /\ \A c \in Ceilings(e, logs) : answer.confidence <= c
<1>1. Ceilings(e, logs) \subseteq {60, 75}
  BY DEF Ceilings
<1>2. NoAnswer \in Answer /\ NoAnswer.confidence = -1
  BY NewValuesAre DEF NewValues, Values, Flag, NoAnswer, Unstated
<1>3. CASE answer = [NoAnswer EXCEPT !.by = "synthesis", !.action = "MANUAL_REVIEW"]
  <2>1. answer \in Answer
    BY <1>2, <1>3 DEF Answer, Author, Action
  <2>2. answer.by = "synthesis" /\ answer.confidence = -1
    BY <1>2, <1>3 DEF Answer
  <2> QED
    BY <1>1, <2>1, <2>2
<1>4. CASE \E reply \in [by : {"synthesis"}, action : {"REPLAY", "OTHER", "MANUAL_REVIEW"},
                         confidence : Confidence \cup {Unstated}, abstained : {FALSE}] :
              answer = ConfidencePolicy(e, logs, reply)
  <2>1. PICK reply \in [by : {"synthesis"}, action : {"REPLAY", "OTHER", "MANUAL_REVIEW"},
                        confidence : Confidence \cup {Unstated}, abstained : {FALSE}] :
           answer = ConfidencePolicy(e, logs, reply)
    BY <1>4
  <2> DEFINE cs == Ceilings(e, logs)
             capped == IF cs = {} \/ reply.confidence <= Min(cs) THEN reply.confidence ELSE Min(cs)
             low == e.threshold > 0 /\ capped # Unstated /\ capped < e.threshold
  <2>2. reply.confidence \in -1..100
    <3>1. reply.confidence \in Confidence \cup {Unstated}
      BY <2>1
    <3>2. Confidence \subseteq 0..100 /\ Unstated = -1
      BY GraphAssumption DEF Unstated
    <3>3. -1 \in -1..100 /\ \A x \in 0..100 : x \in -1..100
      OBVIOUS
    <3>4. CASE reply.confidence = Unstated
      BY <3>2, <3>3, <3>4
    <3>5. CASE reply.confidence \in Confidence
      BY <3>2, <3>3, <3>5
    <3> QED
      BY <3>1, <3>4, <3>5
  <2>3. cs # {} => Min(cs) \in cs /\ \A c \in cs : Min(cs) <= c
    <3> SUFFICES ASSUME cs # {}
                 PROVE  Min(cs) \in cs /\ \A c \in cs : Min(cs) <= c
      OBVIOUS
    <3>1. \E x \in cs : \A y \in cs : x =< y
      BY <1>1
    <3> QED
      BY <3>1 DEF Min
  <2>4. capped \in -1..100 /\ \A c \in cs : capped <= c
    BY <1>1, <2>2, <2>3
  <2> HIDE DEF capped
  <2>5. low \in Flag
    BY DEF Flag
  <2>6. answer = [reply EXCEPT !.confidence = capped, !.abstained = low,
                               !.action = IF low THEN "MANUAL_REVIEW" ELSE @]
    BY <2>1 DEF ConfidencePolicy, capped
  <2> HIDE DEF low
  <2>7. answer = [by |-> "synthesis", action |-> IF low THEN "MANUAL_REVIEW" ELSE reply.action,
                  confidence |-> capped, abstained |-> low]
    BY <2>6
  <2>8. ASSUME NEW f \in Flag, NEW act \in Action
        PROVE  [by |-> "synthesis", action |-> act, confidence |-> capped, abstained |-> f]
                   \in Answer
    BY <2>4 DEF Answer, Author, Percent
  <2>9. (IF low THEN "MANUAL_REVIEW" ELSE reply.action) \in Action
    BY DEF Action
  <2>10. answer \in Answer
    BY <2>5, <2>7, <2>8, <2>9
  <2>11. answer.by = "synthesis" /\ answer.confidence = capped
    BY <2>7
  <2> QED
    BY <2>4, <2>10, <2>11
<1> QED
  BY <1>3, <1>4 DEF SynthesisReply

LEMMA SynthesizeKeeps ==
    ASSUME GraphInv, NEW r \in Run, Synthesize(r)
    PROVE  GraphInv'
<1>1. PICK a \in SynthesisReply(env, val[r].logs) :
         Returns(r, "END", [val[r] EXCEPT !.answer = a, !.source = "agent",
                                          !.agreed = Compared(val[r], a)])
  BY DEF Synthesize
<1> DEFINE v == [val[r] EXCEPT !.answer = a, !.source = "agent", !.agreed = Compared(val[r], a)]
<1>2. val[r] \in Values /\ Sound("synthesize", val[r]) /\ artifact' \in Logs
  BY Running DEF Synthesize, Node, GraphInv
<1>3. /\ a \in Answer /\ a.by = "synthesis"
      /\ \A c \in Ceilings(env, val[r].logs) : a.confidence <= c
  BY SynthesisReplyIs
<1>4. Compared(val[r], a) \in Agreed
  BY DEF Compared, Agreed
<1>5. v \in Values
  BY <1>2, <1>3, <1>4 DEF Values, Source
<1>6. /\ v.reviews = val[r].reviews /\ v.rejected = val[r].rejected /\ v.logs = val[r].logs
      /\ v.feedback = val[r].feedback /\ v.answer = a /\ v.retried = val[r].retried
      /\ v.reviewed = val[r].reviewed /\ v.inv = val[r].inv
  BY <1>2 DEF Values
<1> HIDE DEF v
<1>7. Sound("END", v)
  BY <1>2, <1>3, <1>6 DEF Sound, Rejections
<1> QED
  BY <1>1, <1>2, <1>5, <1>7, ReturnKeeps DEF v

LEMMA EndsKeeps ==
    ASSUME GraphInv, NEW r \in Run, Ends(r)
    PROVE  GraphInv'
<1>1. NewValues(FALSE) \in Values /\ NewValues(FALSE).reviews = 0
  BY NewValuesAre DEF Flag
<1>2. /\ UNCHANGED <<env, thread, artifact>>
      /\ at' = [at EXCEPT ![r] = "over"] /\ val' = [val EXCEPT ![r] = NewValues(FALSE)]
      /\ busy' = [busy EXCEPT ![r] = FALSE]
  BY DEF Ends
<1>3. busy' \in [Run -> BOOLEAN] /\ doing' \in [Run -> Doing]
  BY <1>2 DEF GraphInv, Ends, Doing
<1>4. /\ at' \in [Run -> Node \cup {"idle", "over"}] /\ at'[r] = "over" /\ val'[r].reviews = 0
      /\ val' \in [Run -> Values]
      /\ \A q \in Run \ {r} : at'[q] = at[q] /\ val'[q] = val[q]
  BY <1>1, <1>2 DEF GraphInv
<1>5. Sound(thread.next, thread.values)'
  BY <1>2 DEF GraphInv, Sound
<1>6. "over" \notin Node
  BY DEF Node
<1>7. ASSUME NEW q \in Run
      PROVE  IF at'[q] \in Node THEN Sound(at'[q], val'[q]) ELSE val'[q].reviews = 0
  BY <1>4, <1>6 DEF GraphInv
<1>8. \A q \in Run : (IF at[q] \in Node THEN Sound(at[q], val[q]) ELSE val[q].reviews = 0)'
  BY <1>2, <1>7 DEF Sound
<1>9. /\ UNCHANGED <<env, thread, artifact>>
      /\ at' \in [Run -> Node \cup {"idle", "over"}] /\ val' \in [Run -> Values]
  BY <1>2, <1>4
<1> QED
  BY <1>3, <1>5, <1>8, <1>9 DEF GraphInv

LEMMA EntersKeeps ==
    ASSUME GraphInv, NEW r \in Run, NEW n \in Node, NEW v \in Values, Enters(r, n, v),
           Sound(n, v),
           \/ thread' = thread
           \/ thread'.next = n /\ thread'.values = v
    PROVE  GraphInv'
<1>1. /\ UNCHANGED <<env, busy, doing, artifact>>
      /\ at' = [at EXCEPT ![r] = n] /\ val' = [val EXCEPT ![r] = v]
  BY DEF Enters
<1>2. /\ at' \in [Run -> Node \cup {"idle", "over"}] /\ at'[r] = n /\ val'[r] = v
      /\ val' \in [Run -> Values]
      /\ \A q \in Run \ {r} : at'[q] = at[q] /\ val'[q] = val[q]
  BY <1>1 DEF GraphInv
<1>3. \A m, w : Sound(m, w) => Sound(m, w)'
  BY <1>1 DEF Sound
<1>4. /\ thread'.next \in Node \cup {"none", "END"} /\ thread'.values \in Values
      /\ Sound(thread'.next, thread'.values)
  BY DEF GraphInv
<1>5. Sound(thread.next, thread.values)'
  BY <1>1, <1>4 DEF Sound
<1>6. ASSUME NEW q \in Run
      PROVE  IF at'[q] \in Node THEN Sound(at'[q], val'[q]) ELSE val'[q].reviews = 0
  BY <1>2 DEF GraphInv
<1>7. \A q \in Run : (IF at[q] \in Node THEN Sound(at[q], val[q]) ELSE val[q].reviews = 0)'
  BY <1>1, <1>6 DEF Sound
<1> QED
  BY <1>1, <1>2, <1>4, <1>5, <1>7 DEF GraphInv

LEMMA CrashKeeps ==
    ASSUME GraphInv, Crash
    PROVE  GraphInv'
<1>1. NewValues(FALSE) \in Values /\ NewValues(FALSE).reviews = 0
  BY NewValuesAre DEF Flag
<1>2. PICK pilot \in BOOLEAN : env' = [env EXCEPT !.pilot = pilot]
  BY DEF Crash
<1>3. env' \in [harness : BOOLEAN, filter : BOOLEAN, mode : {"off", "shadow", "serve"},
                allowed : BOOLEAN, pilot : BOOLEAN, pack : {"own", "_default"},
                rules : {"rules_db", "none"},
                runbook : {"none", "unchanged", "changed", "unreadable"},
                agents : SUBSET {"own", "default"}, mcp : BOOLEAN, threshold : 0..100]
  BY <1>2 DEF GraphInv
<1>4. env'.pack = env.pack /\ env'.runbook = env.runbook
  BY <1>2 DEF GraphInv
<1>5. UNCHANGED <<thread, artifact>>
  BY DEF Crash
<1>6. busy' \in [Run -> BOOLEAN] /\ doing' \in [Run -> Doing]
  BY DEF Crash, Doing
<1>7. /\ at' \in [Run -> Node \cup {"idle", "over"}]
      /\ \A q \in Run : at'[q] \notin Node /\ val'[q] = NewValues(FALSE)
  BY DEF Crash, GraphInv, Live, Node
<1>8. val' \in [Run -> Values]
  BY <1>1 DEF Crash
<1>9. Sound(thread.next, thread.values)'
  BY <1>4, <1>5 DEF GraphInv, Sound, Ceilings
<1>10. \A q \in Run : (IF at[q] \in Node THEN Sound(at[q], val[q]) ELSE val[q].reviews = 0)'
  BY <1>1, <1>7
<1> QED
  BY <1>3, <1>5, <1>6, <1>7, <1>8, <1>9, <1>10 DEF GraphInv

LEMMA SameGraphKeeps ==
    ASSUME GraphInv, UNCHANGED <<env, thread, at, val, artifact>>, busy' \in [Run -> BOOLEAN],
           doing' \in [Run -> Doing]
    PROVE  GraphInv'
<1>1. Sound(thread.next, thread.values)'
  BY DEF GraphInv, Sound
<1>2. \A q \in Run : (IF at[q] \in Node THEN Sound(at[q], val[q]) ELSE val[q].reviews = 0)'
  BY DEF GraphInv, Sound
<1> QED
  BY <1>1, <1>2 DEF GraphInv

(* The steps inside a node, and those that end it. *)
Working(r) ==
    \/ HarnessRejects(r) \/ ReviewDirectly(r) \/ BeginRule(r) \/ QueueRule(r)
    \/ BeginReplay(r) \/ QueueForReplay(r)

Returning(r) ==
    \/ FetchLogs(r) \/ RunbookLookup(r) \/ FilterLogs(r) \/ Investigate(r)
    \/ ReviewByHarness(r) \/ ReviewDirect(r) \/ Escalate(r) \/ Synthesize(r)

LEMMA WorkDoes ==
    ASSUME NEW r \in Run, Working(r)
    PROVE  \E s \in Doing : Does(r, s)
BY DEF Working, HarnessRejects, ReviewDirectly, BeginRule, QueueRule, BeginReplay,
   QueueForReplay, Doing

LEMMA ReturningReturns ==
    ASSUME NEW r \in Run, Returning(r)
    PROVE  \E n, v : Returns(r, n, v)
<1>1. CASE ReviewByHarness(r) \/ ReviewDirect(r)
  BY <1>1 DEF ReviewByHarness, ReviewDirect, ReturnsReview
<1>2. CASE FetchLogs(r) \/ RunbookLookup(r)
  BY <1>2 DEF FetchLogs, RunbookLookup
<1>3. CASE FilterLogs(r) \/ Investigate(r)
  BY <1>3 DEF FilterLogs, Investigate
<1>4. CASE Escalate(r) \/ Synthesize(r)
  BY <1>4 DEF Escalate, Synthesize
<1> QED
  BY <1>1, <1>2, <1>3, <1>4 DEF Returning

LEMMA GraphInvStep ==
    ASSUME GraphInv, [GraphNext]_graphVars
    PROVE  GraphInv'
<1>1. ASSUME NEW r \in Run, InvokeFresh(r)
      PROVE  GraphInv'
  <2>1. NewValues(env.pilot) \in Values /\ Sound("fetch_logs", NewValues(env.pilot))
    BY NewValuesAre DEF GraphInv, Flag
  <2>2. /\ Enters(r, "fetch_logs", NewValues(env.pilot))
        /\ thread' = [next |-> "fetch_logs", values |-> val'[r]]
    BY <1>1 DEF InvokeFresh
  <2>3. val'[r] = NewValues(env.pilot)
    BY <2>2 DEF Enters, GraphInv
  <2> QED
    BY <2>1, <2>2, <2>3, EntersKeeps DEF Node
<1>2. ASSUME NEW r \in Run, Resume(r)
      PROVE  GraphInv'
  <2>1. thread.next \in Node /\ thread.values \in Values /\ Sound(thread.next, thread.values)
    BY <1>2 DEF Resume, GraphInv
  <2> QED
    BY <1>2, <2>1, EntersKeeps DEF Resume
<1>3. ASSUME NEW r \in Run, Abandon(r) \/ Begin(r)
      PROVE  GraphInv'
  <2>1. UNCHANGED <<env, thread, at, doing, val, artifact>>
    BY <1>3 DEF Abandon, Begin
  <2>2. busy' = busy \/ busy' = [busy EXCEPT ![r] = TRUE]
    BY <1>3 DEF Abandon, Begin
  <2>3. busy' \in [Run -> BOOLEAN] /\ doing' \in [Run -> Doing]
    BY <2>1, <2>2 DEF GraphInv
  <2> QED
    BY <2>1, <2>3, SameGraphKeeps
<1>7. ASSUME NEW r \in Run, Working(r)
      PROVE  GraphInv'
  <2>1. PICK s \in Doing : Does(r, s)
    BY <1>7, WorkDoes
  <2>2. doing' \in [Run -> Doing] /\ busy' = busy
    BY <2>1 DEF Does, GraphInv
  <2> QED
    BY <2>1, <2>2, SameGraphKeeps DEF Does, GraphInv
<1>4. ASSUME NEW r \in Run, NodeRaises(r) \/ Stop(r)
      PROVE  GraphInv'
  BY <1>4, EndsKeeps DEF NodeRaises, Stop
<1>5. ASSUME NEW r \in Run,
             \/ FetchLogs(r) \/ RunbookLookup(r) \/ FilterLogs(r) \/ Investigate(r)
             \/ ReviewByHarness(r) \/ ReviewDirect(r) \/ Escalate(r) \/ Synthesize(r)
      PROVE  GraphInv'
  BY <1>5, FetchLogsKeeps, RunbookLookupKeeps, FilterLogsKeeps, InvestigateKeeps, ReviewKeeps,
     EscalateKeeps, SynthesizeKeeps
<1>6. CASE UNCHANGED graphVars
  BY <1>6, SameGraphKeeps DEF graphVars, GraphInv
<1> QED
  BY <1>1, <1>2, <1>3, <1>4, <1>5, <1>6, <1>7, CrashKeeps DEF GraphNext, GraphStep, Working

LEMMA CallInvStep ==
    ASSUME GraphInv, CallInv, [GraphNext]_graphVars
    PROVE  CallInv'
<1> SUFFICES ASSUME NEW q \in Run, InCall(q)'
             PROVE  at'[q] \in Node /\ (at'[q] = "synthesize" => ~val'[q].pilot)
  BY DEF CallInv
<1>1. ASSUME NEW r \in Run, Working(r)
      PROVE  at'[q] \in Node /\ (at'[q] = "synthesize" => ~val'[q].pilot)
  <2>1. PICK s \in Doing : Does(r, s)
    BY <1>1, WorkDoes
  <2>2. UNCHANGED <<at, val>> /\ (q # r => doing'[q] = doing[q])
    BY <2>1 DEF Does, GraphInv
  <2>3. CASE q # r \/ InCall(q)
    BY <2>2, <2>3 DEF CallInv, InCall
  <2>4. CASE q = r /\ ~InCall(r)
    <3>1. HarnessRejects(r) \/ BeginRule(r) \/ BeginReplay(r)
      BY <1>1, <2>4 DEF Working, ReviewDirectly, QueueRule, QueueForReplay, Does, InCall, GraphInv
    <3>2. CASE HarnessRejects(r) \/ BeginRule(r)
      BY <2>2, <2>4, <3>2 DEF HarnessRejects, BeginRule, In, Node
    <3>3. CASE BeginReplay(r)
      BY <2>2, <2>4, <3>3 DEF BeginReplay, In, Node
    <3> QED
      BY <3>1, <3>2, <3>3
  <2> QED
    BY <2>3, <2>4
<1>2. ASSUME NEW r \in Run, NEW n, NEW v, Returns(r, n, v)
      PROVE  at'[q] \in Node /\ (at'[q] = "synthesize" => ~val'[q].pilot)
  <2>1. q # r
    BY <1>2 DEF Returns, GraphInv, InCall
  <2> QED
    BY <1>2, <2>1 DEF Returns, GraphInv, InCall, CallInv
<1>3. ASSUME NEW r \in Run, NEW n, NEW v, MayStart(r), Enters(r, n, v)
      PROVE  at'[q] \in Node /\ (at'[q] = "synthesize" => ~val'[q].pilot)
  <2>1. q # r
    BY <1>3 DEF MayStart, Enters, CallInv, InCall, Node
  <2> QED
    BY <1>3, <2>1 DEF Enters, GraphInv, InCall, CallInv
<1>4. ASSUME NEW r \in Run, Ends(r)
      PROVE  at'[q] \in Node /\ (at'[q] = "synthesize" => ~val'[q].pilot)
  <2>1. q # r
    BY <1>4 DEF Ends, GraphInv, InCall
  <2> QED
    BY <1>4, <2>1 DEF Ends, GraphInv, InCall, CallInv
<1>5. ASSUME UNCHANGED <<at, doing, val>>
      PROVE  at'[q] \in Node /\ (at'[q] = "synthesize" => ~val'[q].pilot)
  BY <1>5 DEF CallInv, InCall
<1>6. ASSUME Crash
      PROVE  at'[q] \in Node /\ (at'[q] = "synthesize" => ~val'[q].pilot)
  BY <1>6 DEF Crash, InCall
<1>7. ASSUME NEW r \in Run, Returning(r)
      PROVE  \E n, v : Returns(r, n, v)
  BY <1>7, ReturningReturns
<1>8. ASSUME NEW r \in Run, InvokeFresh(r) \/ Resume(r)
      PROVE  MayStart(r) /\ \E n, v : Enters(r, n, v)
  BY <1>8 DEF InvokeFresh, Resume
<1>9. ASSUME NEW r \in Run, NodeRaises(r) \/ Stop(r)
      PROVE  Ends(r)
  BY <1>9 DEF NodeRaises, Stop
<1>10. ASSUME NEW r \in Run, Abandon(r) \/ Begin(r)
       PROVE  UNCHANGED <<at, doing, val>>
  BY <1>10 DEF Abandon, Begin
<1>11. CASE UNCHANGED graphVars
  BY <1>5, <1>11 DEF graphVars
<1> QED
  BY <1>1, <1>2, <1>3, <1>4, <1>5, <1>6, <1>7, <1>8, <1>9, <1>10, <1>11
     DEF GraphNext, GraphStep, Working, Returning

LEMMA ActInvStep ==
    ASSUME CallInv, ActInv, [GraphNext]_graphVars
    PROVE  ActInv'
<1> USE DEF ActInv
<1>1. ASSUME NEW r \in Run, QueueForReplay(r)
      PROVE  ActInv'
  <2>1. replays' \in {replays, replays \cup {val[r].pilot}} /\ agents' = agents
    BY <1>1 DEF QueueForReplay
  <2>2. val[r].pilot # TRUE
    BY <1>1 DEF QueueForReplay, In, CallInv
  <2> QED
    BY <2>1, <2>2
<1>2. ASSUME NEW ran, RunTask(ran)
      PROVE  agents' \subseteq {"own", "default", "no tools"}
  BY <1>2 DEF RunTask, TaskAgent
<1>3. ASSUME NEW r \in Run,
             \/ Investigate(r) \/ HarnessRejects(r) \/ ReviewDirectly(r) \/ ReviewByHarness(r)
      PROVE  ActInv'
  BY <1>2, <1>3 DEF Investigate, HarnessRejects, ReviewDirectly, ReviewByHarness
<1>4. ASSUME NEW r \in Run,
             \/ InvokeFresh(r) \/ Resume(r) \/ Abandon(r) \/ NodeRaises(r) \/ Begin(r) \/ Stop(r)
             \/ FetchLogs(r) \/ RunbookLookup(r) \/ FilterLogs(r) \/ Escalate(r) \/ Synthesize(r)
             \/ ReviewDirect(r) \/ BeginRule(r) \/ QueueRule(r) \/ BeginReplay(r)
      PROVE  ActInv'
  BY <1>4 DEF InvokeFresh, Resume, Abandon, NodeRaises, Begin, Stop, Ends, Enters, FetchLogs,
     RunbookLookup, FilterLogs, Escalate, Synthesize, ReviewDirect, BeginRule, QueueRule,
     BeginReplay
<1>5. CASE Crash \/ UNCHANGED graphVars
  BY <1>5 DEF Crash, graphVars
<1> QED
  BY <1>1, <1>3, <1>4, <1>5 DEF GraphNext, GraphStep

(* For any number of runs of the graph for a packet, any bound on the      *)
(* reviews, and whatever crashes, resumptions, abandoned runs and harness  *)
(* fallbacks there are: what is synthesised is the attempt the Reviewer    *)
(* approved, a retry answers a rejection of this run, and the rejections   *)
(* reported are the ones there were (agent_orchestrator.py).               *)
THEOREM ReviewsAreHonoured == GraphSpec => []ReviewIsHonoured
<1>1. GraphInv => ReviewIsHonoured
  <2> SUFFICES ASSUME GraphInv PROVE ReviewIsHonoured
    OBVIOUS
  <2>1. \A r \in Run : val[r].reviews \in 0..MaxReviews
    BY GraphAssumption DEF GraphInv, Sound, Values
  <2>2. GraphTypeOK
    BY <2>1 DEF GraphInv, GraphTypeOK
  <2> DEFINE v == thread.values
  <2>3. v.answer.by \in Author /\ v.source \in Source
    BY DEF GraphInv, Values, Answer
  <2>4. SynthesisedWasApproved /\ RetryAnswersThisRun /\ RejectionsReported
    BY <2>3 DEF GraphInv, Sound, SynthesisedWasApproved, RetryAnswersThisRun, RejectionsReported
  <2> QED
    BY <2>2, <2>4 DEF ReviewIsHonoured
<1> QED
  BY <1>1, GraphInitially, GraphInvStep, PTL DEF GraphSpec

(* ... and an answer keeps within what its packet allows, whatever replies *)
(* the models give and however many ceilings the evidence imposes at once. *)
THEOREM AnswersKeepLimits == GraphSpec => []AnswerWithinLimits
<1>1. GraphInv /\ ActInv => AnswerWithinLimits
  BY DEF GraphInv, ActInv, Sound, AnswerWithinLimits, PilotNeverActs, HarnessInScope,
     ServedRunbookMatches, ConfidenceSupported
<1> QED
  BY <1>1, GraphInitially, GraphInvStep, CallInvStep, ActInvStep, PTL DEF GraphSpec

LEMMA AbandonedStep ==
    ASSUME GraphInv, [GraphNext]_graphVars
    PROVE  [AbandonedBeginsNoAct]_graphVars
<1> DEFINE Quiet == \A q \in Run : cancelled[q] /\ cancelled'[q] =>
                        /\ busy'[q] => busy[q]
                        /\ InCall(q)' => InCall(q)
           Caused == rules' # rules \/ replays' # replays =>
                        \E q \in Run : InCall(q) /\ ~InCall(q)'
<1>1. ASSUME NEW r \in Run, Working(r)
      PROVE  Quiet /\ Caused
  <2>1. PICK s \in Doing : Does(r, s)
    BY <1>1, WorkDoes
  <2>2. /\ busy' = busy /\ doing'[r] = s
        /\ \A q \in Run \ {r} : doing'[q] = doing[q]
    BY <2>1 DEF Does, GraphInv
  <2>3. s \in {"calling", "proposing"} => ~cancelled[r] \/ InCall(r)
    BY <1>1, <2>2 DEF Working, HarnessRejects, ReviewDirectly, BeginRule, QueueRule, BeginReplay,
       QueueForReplay, Does, GraphInv
  <2>4. Quiet
    BY <2>2, <2>3 DEF InCall
  <2>5. CASE QueueRule(r) \/ QueueForReplay(r)
    <3>1. InCall(r) /\ s \in {"called", "rejected"}
      BY <2>2, <2>5 DEF QueueRule, QueueForReplay, Does, GraphInv
    <3> QED
      BY <2>2, <2>4, <3>1 DEF InCall
  <2>6. CASE ~QueueRule(r) /\ ~QueueForReplay(r)
    BY <1>1, <2>4, <2>6 DEF Working, HarnessRejects, ReviewDirectly, BeginRule, BeginReplay
  <2> QED
    BY <2>5, <2>6
<1>2. ASSUME NEW r \in Run, Returning(r)
      PROVE  Quiet /\ Caused
  <2>1. PICK n, v : Returns(r, n, v)
    BY <1>2, ReturningReturns
  <2>2. /\ ~busy'[r] /\ doing'[r] = "none"
        /\ \A q \in Run \ {r} : doing'[q] = doing[q] /\ busy'[q] = busy[q]
    BY <2>1 DEF Returns, GraphInv
  <2>3. UNCHANGED <<rules, replays>>
    BY <1>2 DEF Returning, FetchLogs, RunbookLookup, FilterLogs, Investigate, ReviewByHarness,
       ReviewDirect, Escalate, Synthesize
  <2> QED
    BY <2>2, <2>3 DEF InCall
<1>3. ASSUME NEW r \in Run, InvokeFresh(r) \/ Resume(r) \/ Abandon(r)
      PROVE  Quiet /\ Caused
  BY <1>3 DEF InvokeFresh, Resume, Enters, Abandon, InCall
<1>4. ASSUME NEW r \in Run, Begin(r)
      PROVE  Quiet /\ Caused
  BY <1>4 DEF Begin, GraphInv, InCall
<1>5. ASSUME NEW r \in Run, NodeRaises(r) \/ Stop(r)
      PROVE  Quiet /\ Caused
  BY <1>5 DEF NodeRaises, Stop, Ends, GraphInv, InCall
<1>6. ASSUME Crash
      PROVE  Quiet /\ Caused
  BY <1>6 DEF Crash
<1> HIDE DEF Quiet, Caused
<1>7. CASE GraphNext
  <2>1. Quiet /\ Caused
    BY <1>1, <1>2, <1>3, <1>4, <1>5, <1>6, <1>7 DEF GraphNext, GraphStep, Working, Returning
  <2> QED
    BY <2>1 DEF AbandonedBeginsNoAct, Quiet, Caused
<1> QED
  BY <1>7

(* A run the route gave up on, because its packet was recorded as timed    *)
(* out, is back within the call it was in: from then on it enters no node  *)
(* and begins no call that queues a replay or a learning rule, whatever    *)
(* its last node still does, and nothing is queued but by a call that      *)
(* passed its check while its run was waited for (queue_for_replay,        *)
(* queue_learning_rule, stoppable).                                        *)
THEOREM AbandonedWithinOneCall == GraphSpec => [][AbandonedBeginsNoAct]_graphVars
BY GraphInitially, GraphInvStep, AbandonedStep, PTL DEF GraphSpec

----------------------------------------------------------------------------
(* ServiceRouting: which service a packet is treated as, in both stages,   *)
(* while the map and the documentation are replaced under it. *)

Early == {"idle", "load", "stat", "read", "cache", "docs"}
Place3 == Early \cup {"gate", "pass", "logs", "status", "mark", "publish", "run", "book", "done"}
Stage3 == {"none", "fetch", "analyse"}
Named == Service \cup {Unresolved, "none"}
Owners == SUBSET Service
Status3 == {"none", "LOGS_FETCHED", "IN_PROGRESS", "COMPLETED"}
RequestRecord ==
    [at : Place3, stage : Stage3, sig : Nat, owners : Owners, cached : Owners, service : Named,
     fresh : Flag, status : Status3, good : Named]

(* A request has a service once it was resolved, and one resolved anew is  *)
(* still to be stored.                                                     *)
RequestShape(q) ==
    /\ q.at = "idle" <=> q.stage = "none"
    /\ q.at \in {"logs", "status", "mark", "publish"} => q.stage = "fetch"
    /\ q.at \in {"run", "book", "done"} => q.stage = "analyse"
    /\ q.service = "none" <=> q.at \in Early
    /\ q.fresh = TRUE => q.at \in {"gate", "pass"}

DocsRecord == [good : Owners, place : {"in", "away"}, swaps : Nat]
RoutingTyped ==
    /\ packet3 \in Cases3
    /\ mapFile \in [sig : Nat \ {0}, valid : Flag, owners : Owners]
    /\ mapCache \in [sig : Nat, owners : Owners]
    /\ docs3 \in DocsRecord
    /\ stored \in Named /\ status3 \in Status3 /\ faults3 \in Nat
    /\ request \in [Request -> RequestRecord]
    /\ \A r \in Request : RequestShape(request[r])

(* Signatures grow: what was read is filed under one that is the file's    *)
(* only if it is still the file that was read.                             *)
MapInv ==
    /\ mapCache.sig <= mapFile.sig /\ MapCacheCoherent
    /\ \A r \in Request :
        /\ request[r].at \in {"read", "cache"} => request[r].sig <= mapFile.sig
        /\ request[r].at = "cache" /\ request[r].sig = mapFile.sig /\ mapFile.valid
               => request[r].owners = mapFile.owners

(* Before a delivery passed the gate nothing has been written.             *)
BlankInv ==
    ~passed => /\ stored = "none" /\ logsFor = "none" /\ status3 = "none"
               /\ \A r \in Request : request[r].at \in Early \cup {"gate"}

(* The casebook concludes before the status.                               *)
ConcludedInv ==
    /\ status3 = "COMPLETED" => book3 = "COMPLETED"
    /\ \A r \in Request : request[r].at = "done" => book3 = "COMPLETED"

(* With every resolution stored and one fetch at a time: a fetch resolves  *)
(* anew only while nothing is stored, and what comes after it finds its    *)
(* resolution, and the logs of that one.                                   *)
Resolving == {"stat", "read", "cache", "docs"}
Ready == stored # "none" /\ logsFor = Scope3(stored)
FetchIsStored(q) ==
    /\ q.at \in Resolving \/ (q.at \in {"gate", "pass"} /\ q.fresh = TRUE) => stored = "none"
    /\ q.at \in {"gate", "pass"} /\ q.fresh # TRUE => q.service = stored
    /\ q.at \in {"logs", "status", "mark", "publish"} => q.service = stored
    /\ q.at \in {"status", "mark", "publish"} => Ready
AnalysisIsStored(q) ==
    Ready /\ q.at \notin Resolving /\ q.fresh # TRUE /\ (q.at # "load" => q.service = stored)
Undisturbed == faults3 = 0 /\ ~overlap3
OneServiceInv ==
    Undisturbed =>
        /\ \A r, q \in Request : request[r].stage = "fetch" /\ request[q].stage = "fetch" => r = q
        /\ \A r \in Request : request[r].stage = "fetch" => FetchIsStored(request[r])
        /\ \A r \in Request : request[r].stage = "analyse" => AnalysisIsStored(request[r])
        /\ queue3 > 0 => Ready
        /\ logsFor = "none" \/ Ready
        /\ used \subseteq {[pack |-> PackFor(stored), scope |-> Scope3(stored)]}
        /\ used # {} => Ready

RoutingInv == RoutingTyped /\ MapInv /\ BlankInv /\ ConcludedInv /\ OneServiceInv

LEMMA NoRequestIs ==
    /\ NoRequest \in RequestRecord /\ RequestShape(NoRequest)
    /\ NoRequest.at = "idle" /\ NoRequest.stage = "none" /\ NoRequest.fresh = FALSE
<1>1. FALSE \in Flag
  BY DEF Flag
<1>2. {} \in Owners /\ 0 \in Nat /\ "none" \in Named /\ "none" \in Status3 /\ "idle" \in Place3
  BY DEF Owners, Named, Status3, Place3, Early
<1> QED
  BY <1>1, <1>2 DEF NoRequest, RequestRecord, RequestShape, Early, Stage3

LEMMA RoutingInvInit == RoutingInit => RoutingInv
<1> SUFFICES ASSUME RoutingInit
             PROVE  RoutingInv
  OBVIOUS
<1>1. TRUE \in Flag /\ {} \in Owners
  BY DEF Flag, Owners
<1>2. mapFile \in [sig : Nat \ {0}, valid : Flag, owners : Owners] /\ mapFile.sig = 1
  <2>1. ASSUME NEW b \in Flag, NEW o \in Owners, mapFile = [sig |-> 1, valid |-> b, owners |-> o]
        PROVE  mapFile \in [sig : Nat \ {0}, valid : Flag, owners : Owners] /\ mapFile.sig = 1
    BY <2>1
  <2> QED
    BY <1>1, <2>1 DEF RoutingInit
<1>3. mapCache \in [sig : Nat, owners : Owners] /\ mapCache.sig = 0
  BY DEF RoutingInit, Owners
<1>4. docs3 \in DocsRecord
  BY RoutingAssumption DEF RoutingInit, Owners, DocsRecord
<1>5. request \in [Request -> RequestRecord] /\ \A r \in Request : request[r] = NoRequest
  BY NoRequestIs DEF RoutingInit
<1>6. RoutingTyped
  BY <1>2, <1>3, <1>4, <1>5, NoRequestIs DEF RoutingInit, RoutingTyped, Named, Status3
<1>7. MapInv
  BY <1>2, <1>3, <1>5, NoRequestIs DEF MapInv, MapCacheCoherent
<1>8. BlankInv /\ ConcludedInv
  BY <1>5, NoRequestIs DEF RoutingInit, BlankInv, ConcludedInv, Early
<1>9. OneServiceInv
  BY <1>5, NoRequestIs DEF RoutingInit, OneServiceInv
<1> QED
  BY <1>6, <1>7, <1>8, <1>9 DEF RoutingInv

(* What a service stands for depends on the packet alone.                  *)
LEMMA SamePacket ==
    ASSUME packet3' = packet3
    PROVE  \A s : Scope3(s)' = Scope3(s) /\ PackFor(s)' = PackFor(s)
BY DEF Scope3, PackFor, SkipReason, Registered

LEMMA ScopeIs ==
    ASSUME NEW s, s # "none"
    PROVE  Scope3(s) # "none"
BY DEF Scope3

LEMMA RequestMoves ==
    ASSUME RoutingTyped, NEW r \in Request, NEW v \in RequestRecord, RequestShape(v),
           request' = [request EXCEPT ![r] = v]
    PROVE  /\ request' \in [Request -> RequestRecord] /\ request'[r] = v
           /\ \A q \in Request \ {r} : request'[q] = request[q]
           /\ \A q \in Request : RequestShape(request'[q])
<1>1. /\ request' \in [Request -> RequestRecord] /\ request'[r] = v
      /\ \A q \in Request \ {r} : request'[q] = request[q]
  BY DEF RoutingTyped
<1>2. ASSUME NEW q \in Request
      PROVE  RequestShape(request'[q])
  <2>1. CASE q = r
    BY <1>1, <2>1
  <2>2. CASE q # r
    BY <1>1, <2>2 DEF RoutingTyped
  <2> QED
    BY <2>1, <2>2
<1> QED
  BY <1>1, <1>2

(* A resolution is a service or none. *)
LEMMA ResolveIs ==
    ASSUME NEW byMap \in Owners, NEW byDocs \in Owners, packet3 \in Cases3
    PROVE  Resolve(byMap, byDocs) \in Named \ {"none"}
<1> DEFINE steps == Order(byMap, byDocs)
           decisive == {i \in DOMAIN steps : Cardinality(steps[i]) = 1}
<1>1. \A x \in Sources3 : packet3.evidence[x] \in Owners
  BY RoutingAssumption DEF Owners
<1>2. DOMAIN steps \subseteq 1..6 /\ \A i \in DOMAIN steps : steps[i] \in Owners
  BY <1>1 DEF Order, Sources3
<1>3. CASE decisive = {}
  BY <1>3, RoutingAssumption DEF Resolve, Named, Unresolved
<1>4. CASE decisive # {}
  <2> HIDE DEF steps
  <2>1. \E x \in decisive : \A y \in decisive : x <= y
    <3>1. CASE 1 \in decisive
      BY <1>2, <3>1
    <3>2. CASE 1 \notin decisive /\ 2 \in decisive
      BY <1>2, <3>2
    <3>3. CASE decisive \cap {1, 2} = {} /\ 3 \in decisive
      BY <1>2, <3>3
    <3>4. CASE decisive \cap {1, 2, 3} = {} /\ 4 \in decisive
      BY <1>2, <3>4
    <3>5. CASE decisive \cap {1, 2, 3, 4} = {} /\ 5 \in decisive
      BY <1>2, <3>5
    <3>6. CASE decisive \cap {1, 2, 3, 4, 5} = {}
      BY <1>2, <1>4, <3>6
    <3> QED
      BY <3>1, <3>2, <3>3, <3>4, <3>5, <3>6
  <2>2. Min(decisive) \in decisive
    BY <2>1 DEF Min
  <2>3. steps[Min(decisive)] \in Owners /\ steps[Min(decisive)] # {}
    <3>1. steps[Min(decisive)] \in Owners /\ Cardinality(steps[Min(decisive)]) = 1
      BY <1>2, <2>2
    <3>2. Cardinality({}) = 0
      BY FS_EmptySet
    <3> DEFINE owners == steps[Min(decisive)]
    <3>3. owners \in Owners /\ Cardinality(owners) = 1
      BY <3>1
    <3> HIDE DEF owners
    <3>4. owners # {}
      BY <3>2, <3>3
    <3> QED
      BY <3>3, <3>4 DEF owners
  <2>4. Resolve(byMap, byDocs) = CHOOSE s \in steps[Min(decisive)] : TRUE
    BY <1>4 DEF Resolve, steps
  <2>5. Resolve(byMap, byDocs) \in Service
    BY <2>3, <2>4 DEF Owners
  <2> QED
    BY <2>5, RoutingAssumption DEF Named
<1> QED
  BY <1>3, <1>4

(* What a step that moves one request does to each part of the invariant.  *)
LEMMA MapMoves ==
    ASSUME MapInv, UNCHANGED <<mapFile, mapCache>>, NEW r \in Request, NEW v,
           request'[r] = v, \A q \in Request \ {r} : request'[q] = request[q],
           v.at \in {"read", "cache"} => v.sig <= mapFile.sig,
           v.at = "cache" /\ v.sig = mapFile.sig /\ mapFile.valid => v.owners = mapFile.owners
    PROVE  MapInv'
<1>1. (mapCache.sig <= mapFile.sig /\ MapCacheCoherent)'
  BY DEF MapInv, MapCacheCoherent
<1>2. ASSUME NEW q \in Request
      PROVE  /\ request'[q].at \in {"read", "cache"} => request'[q].sig <= mapFile'.sig
             /\ request'[q].at = "cache" /\ request'[q].sig = mapFile'.sig /\ mapFile'.valid
                    => request'[q].owners = mapFile'.owners
  <2>1. CASE q = r
    BY <2>1
  <2>2. CASE q # r
    BY <2>2 DEF MapInv
  <2> QED
    BY <2>1, <2>2
<1> QED
  BY <1>1, <1>2 DEF MapInv

LEMMA BlankMoves ==
    ASSUME BlankInv, UNCHANGED <<stored, logsFor, status3>>, NEW r \in Request, NEW v,
           request'[r] = v, \A q \in Request \ {r} : request'[q] = request[q],
           ~passed' => ~passed /\ v.at \in Early \cup {"gate"}
    PROVE  BlankInv'
BY DEF BlankInv

LEMMA ConcludedMoves ==
    ASSUME ConcludedInv, status3' = "COMPLETED" => status3 = "COMPLETED" \/ book3' = "COMPLETED",
           book3 = "COMPLETED" => book3' = "COMPLETED", NEW r \in Request, NEW v,
           request'[r] = v, \A q \in Request \ {r} : request'[q] = request[q],
           v.at = "done" => book3' = "COMPLETED"
    PROVE  ConcludedInv'
BY DEF ConcludedInv

LEMMA OneServiceMoves ==
    ASSUME OneServiceInv, UNCHANGED <<packet3, stored, logsFor, faults3>>, ~overlap3' => ~overlap3,
           \/ used' = used
           \/ Undisturbed => Ready /\ used' = used \cup {[pack |-> PackFor(stored), scope |-> Scope3(stored)]},
           NEW r \in Request, NEW v,
           request'[r] = v, \A q \in Request \ {r} : request'[q] = request[q],
           Undisturbed /\ v.stage = "fetch" => FetchIsStored(v),
           Undisturbed' /\ v.stage = "fetch" => request[r].stage = "fetch" \/ ~Busy3("fetch"),
           Undisturbed /\ v.stage = "analyse" => AnalysisIsStored(v),
           Undisturbed /\ queue3' > 0 => Ready
    PROVE  OneServiceInv'
<1> SUFFICES ASSUME Undisturbed'
             PROVE  (/\ \A p, q \in Request : request[p].stage = "fetch" /\ request[q].stage = "fetch" => p = q
                     /\ \A q \in Request : request[q].stage = "fetch" => FetchIsStored(request[q])
                     /\ \A q \in Request : request[q].stage = "analyse" => AnalysisIsStored(request[q])
                     /\ queue3 > 0 => Ready
                     /\ logsFor = "none" \/ Ready
                     /\ used \subseteq {[pack |-> PackFor(stored), scope |-> Scope3(stored)]}
                     /\ used # {} => Ready)'
  BY DEF OneServiceInv
<1>1. Undisturbed
  BY DEF Undisturbed
<1>2. Ready' = Ready /\ PackFor(stored)' = PackFor(stored) /\ Scope3(stored)' = Scope3(stored)
  BY DEF Ready, Scope3, PackFor, SkipReason, Registered
<1>3. \A p, q \in Request : request'[p].stage = "fetch" /\ request'[q].stage = "fetch" => p = q
  BY <1>1 DEF OneServiceInv, Busy3
<1>4. ASSUME NEW q \in Request, request'[q].stage = "fetch"
      PROVE  FetchIsStored(request[q])'
  <2>1. FetchIsStored(request'[q])
    BY <1>1, <1>4 DEF OneServiceInv
  <2> QED
    BY <1>2, <2>1 DEF FetchIsStored
<1>5. ASSUME NEW q \in Request, request'[q].stage = "analyse"
      PROVE  AnalysisIsStored(request[q])'
  <2>1. AnalysisIsStored(request'[q])
    BY <1>1, <1>5 DEF OneServiceInv
  <2> QED
    BY <1>2, <2>1 DEF AnalysisIsStored
<1>6. (/\ queue3 > 0 => Ready
       /\ logsFor = "none" \/ Ready
       /\ used \subseteq {[pack |-> PackFor(stored), scope |-> Scope3(stored)]}
       /\ used # {} => Ready)'
  BY <1>1, <1>2 DEF OneServiceInv
<1> QED
  BY <1>3, <1>4, <1>5, <1>6

LEMMA MoveKeeps ==
    ASSUME RoutingInv, NEW r \in Request, NEW v \in RequestRecord, RequestShape(v),
           request' = [request EXCEPT ![r] = v],
           UNCHANGED <<packet3, sources3, artifacts, used, faults3>>,
           ~passed' => ~passed /\ v.at \in Early \cup {"gate"},
           ~overlap3' => ~overlap3,
           v.at \in {"read", "cache"} => v.sig <= mapFile.sig,
           v.at = "cache" /\ v.sig = mapFile.sig /\ mapFile.valid => v.owners = mapFile.owners,
           v.at = "done" => book3 = "COMPLETED",
           Undisturbed /\ v.stage = "fetch" => FetchIsStored(v),
           Undisturbed' /\ v.stage = "fetch" => request[r].stage = "fetch" \/ ~Busy3("fetch"),
           Undisturbed /\ v.stage = "analyse" => AnalysisIsStored(v),
           Undisturbed /\ queue3' > 0 => Ready
    PROVE  RoutingInv'
<1>1. /\ request' \in [Request -> RequestRecord] /\ request'[r] = v
      /\ \A q \in Request \ {r} : request'[q] = request[q]
      /\ \A q \in Request : RequestShape(request'[q])
  BY RequestMoves DEF RoutingInv
<1>2. UNCHANGED <<packet3, mapFile, mapCache, docs3, stored, logsFor, status3, book3, used, faults3>>
  BY DEF sources3, artifacts
<1>3. RoutingTyped'
  BY <1>1, <1>2 DEF RoutingInv, RoutingTyped
<1>4. MapInv'
  BY <1>1, <1>2, MapMoves DEF RoutingInv
<1>5. BlankInv'
  BY <1>1, <1>2, BlankMoves DEF RoutingInv
<1>6. ConcludedInv'
  BY <1>1, <1>2, ConcludedMoves DEF RoutingInv
<1>7. OneServiceInv'
  BY <1>1, <1>2, OneServiceMoves DEF RoutingInv
<1> QED
  BY <1>3, <1>4, <1>5, <1>6, <1>7 DEF RoutingInv

(* The actions, one lemma each.  What a request is worth before the step,  *)
(* by its stage:                                                           *)
LEMMA AtStage ==
    ASSUME RoutingInv, NEW r \in Request
    PROVE  /\ request[r] \in RequestRecord /\ RequestShape(request[r])
           /\ Undisturbed /\ request[r].stage = "fetch" => FetchIsStored(request[r])
           /\ Undisturbed /\ request[r].stage = "analyse" => AnalysisIsStored(request[r])
           /\ Undisturbed /\ queue3 > 0 => Ready
           /\ ~passed => request[r].at \in Early \cup {"gate"}
BY DEF RoutingInv, RoutingTyped, OneServiceInv, BlankInv

LEMMA BeginFetchKeeps == ASSUME RoutingInv, NEW r \in Request, BeginFetch3(r) PROVE RoutingInv'
<1> DEFINE v == [NoRequest EXCEPT !.at = "load", !.stage = "fetch"]
<1>1. CASE request' = request
  <2>1. UNCHANGED <<packet3, sources3, artifacts, request, queue3, used, passed, faults3>>
    BY <1>1 DEF BeginFetch3
  <2>2. UNCHANGED <<packet3, mapFile, mapCache, docs3, stored, logsFor, status3, book3, request, queue3, used, passed, faults3>>
    BY <2>1 DEF sources3, artifacts
  <2>3. RoutingTyped' /\ MapInv' /\ BlankInv' /\ ConcludedInv'
    BY <2>2 DEF RoutingInv, RoutingTyped, MapInv, MapCacheCoherent, BlankInv, ConcludedInv
  <2>4. Undisturbed' => Undisturbed
    BY <2>2 DEF BeginFetch3, Undisturbed
  <2>5. OneServiceInv'
    BY <2>2, <2>4 DEF RoutingInv, OneServiceInv, FetchIsStored, AnalysisIsStored, Ready, PackFor, Scope3, SkipReason, Registered
  <2> QED
    BY <2>3, <2>5 DEF RoutingInv
<1>2. CASE request' = [request EXCEPT ![r] = v]
  <2>1. v \in RequestRecord /\ RequestShape(v) /\ v.at = "load" /\ v.stage = "fetch" /\ v.fresh # TRUE
    <3>1. NoRequest \in RequestRecord /\ NoRequest.service = "none" /\ NoRequest.fresh = FALSE
      BY NoRequestIs DEF NoRequest
    <3> QED
      BY <3>1 DEF RequestRecord, RequestShape, Early, Place3, Stage3
  <2>2. FetchIsStored(v)
    BY <2>1 DEF FetchIsStored, Resolving
  <2>3. Undisturbed' => ~Busy3("fetch")
    BY DEF BeginFetch3, Undisturbed
  <2> HIDE DEF v
  <2> QED
    BY <1>2, <2>1, <2>2, <2>3, AtStage, MoveKeeps DEF BeginFetch3, Early
<1> QED
  BY <1>1, <1>2 DEF BeginFetch3

LEMMA BeginAnalysisKeeps == ASSUME RoutingInv, NEW r \in Request, BeginAnalysis3(r) PROVE RoutingInv'
<1> DEFINE v == [NoRequest EXCEPT !.at = "load", !.stage = "analyse"]
<1>0. UNCHANGED <<packet3, sources3, artifacts, used, passed, faults3, overlap3>>
  BY DEF BeginAnalysis3, past
<1>1. CASE request' = request
  <2>2. UNCHANGED <<packet3, mapFile, mapCache, docs3, stored, logsFor, status3, book3, request, used, passed, faults3, overlap3>>
    BY <1>0, <1>1 DEF sources3, artifacts
  <2>3. RoutingTyped' /\ MapInv' /\ BlankInv' /\ ConcludedInv'
    BY <2>2 DEF RoutingInv, RoutingTyped, MapInv, MapCacheCoherent, BlankInv, ConcludedInv
  <2>4. (Undisturbed' => Undisturbed) /\ (queue3 > 0)
    BY <2>2 DEF BeginAnalysis3, Undisturbed
  <2>5. OneServiceInv'
    BY <2>2, <2>4 DEF RoutingInv, OneServiceInv, FetchIsStored, AnalysisIsStored, Ready, PackFor, Scope3, SkipReason, Registered
  <2> QED
    BY <2>3, <2>5 DEF RoutingInv
<1>2. CASE request' = [request EXCEPT ![r] = v]
  <2>1. v \in RequestRecord /\ RequestShape(v) /\ v.at = "load" /\ v.stage = "analyse" /\ v.fresh # TRUE
    <3>1. NoRequest \in RequestRecord /\ NoRequest.service = "none" /\ NoRequest.fresh = FALSE
      BY NoRequestIs DEF NoRequest
    <3> QED
      BY <3>1 DEF RequestRecord, RequestShape, Early, Place3, Stage3
  <2>2. Undisturbed => Ready
    BY AtStage DEF BeginAnalysis3
  <2>3. Undisturbed => AnalysisIsStored(v)
    BY <2>1, <2>2 DEF AnalysisIsStored, Resolving
  <2> HIDE DEF v
  <2> QED
    BY <1>0, <1>2, <2>1, <2>2, <2>3, MoveKeeps DEF Early
<1> QED
  BY <1>1, <1>2 DEF BeginAnalysis3

LEMMA LoadStoredKeeps ==
    ASSUME RoutingInv, NEW r \in Request, LoadStored(r), UNCHANGED faults3
    PROVE  RoutingInv'
<1> DEFINE v == IF stored = "none" THEN [request[r] EXCEPT !.at = Resolves]
                ELSE [request[r] EXCEPT !.at = "gate", !.service = stored]
<1>1. request[r].at = "load" /\ request' = [request EXCEPT ![r] = v]
  <2>1. faults3' # faults3 + 1
    BY DEF RoutingInv, RoutingTyped
  <2>2. CASE stored = "none"
    BY <2>1, <2>2 DEF LoadStored, At3, Goes3
  <2>3. CASE stored # "none"
    BY <2>1, <2>3 DEF LoadStored, At3, Goes3
  <2> QED
    BY <2>2, <2>3
<1>2. Resolves \in {"stat", "docs"}
  BY DEF Resolves
<1>3. /\ request[r] \in RequestRecord /\ RequestShape(request[r]) /\ request[r].fresh # TRUE
      /\ request[r].service = "none"
  BY <1>1, AtStage DEF RequestShape, Early
<1>4. stored \in Named
  BY DEF RoutingInv, RoutingTyped
<1>5. v \in RequestRecord /\ v.stage = request[r].stage /\ v.fresh # TRUE
  BY <1>2, <1>3, <1>4 DEF RequestRecord, Place3, Early
<1>6. \/ v.at \in {"stat", "docs"} /\ v.service = "none" /\ stored = "none"
      \/ v.at = "gate" /\ v.service = stored /\ stored # "none"
  <2>1. CASE stored = "none"
    BY <1>2, <1>3, <2>1 DEF RequestRecord
  <2>2. CASE stored # "none"
    BY <1>3, <2>2 DEF RequestRecord
  <2> QED
    BY <2>1, <2>2
<1>7. RequestShape(v)
  BY <1>1, <1>3, <1>5, <1>6 DEF RequestShape, Early
<1> HIDE DEF v
<1>8. FetchIsStored(v)
  BY <1>5, <1>6 DEF FetchIsStored, Resolving
<1>9. Ready => AnalysisIsStored(v)
  BY <1>5, <1>6 DEF AnalysisIsStored, Resolving, Ready
<1>10. Undisturbed /\ v.stage = "analyse" => AnalysisIsStored(v)
  BY <1>5, <1>9, AtStage DEF AnalysisIsStored
<1>11. UNCHANGED <<packet3, sources3, artifacts, queue3, used, passed, faults3, overlap3>>
  BY DEF LoadStored, past, flow
<1> QED
  BY <1>1, <1>5, <1>6, <1>7, <1>8, <1>10, <1>11, AtStage, MoveKeeps DEF Early

LEMMA LoadFailsKeeps ==
    ASSUME RoutingInv, NEW r \in Request, LoadStored(r), ~UNCHANGED faults3
    PROVE  RoutingInv'
<1> DEFINE v == [request[r] EXCEPT !.at = Resolves]
<1>1. request[r].at = "load" /\ request' = [request EXCEPT ![r] = v] /\ faults3' = faults3 + 1
  BY DEF LoadStored, At3, Goes3
<1>2. Resolves \in {"stat", "docs"}
  BY DEF Resolves
<1>3. /\ request[r] \in RequestRecord /\ RequestShape(request[r])
      /\ request[r].service = "none" /\ request[r].fresh # TRUE
  BY <1>1, AtStage DEF RequestShape, Early
<1>4. /\ v \in RequestRecord /\ v.at \in {"stat", "docs"} /\ v.stage = request[r].stage
      /\ v.service = "none" /\ v.fresh # TRUE
  BY <1>2, <1>3 DEF RequestRecord, Place3, Early
<1> HIDE DEF v
<1>5. RequestShape(v)
  BY <1>1, <1>3, <1>4 DEF RequestShape, Early
<1>6. /\ request' \in [Request -> RequestRecord] /\ request'[r] = v
      /\ \A q \in Request \ {r} : request'[q] = request[q]
      /\ \A q \in Request : RequestShape(request'[q])
  BY <1>1, <1>4, <1>5, RequestMoves DEF RoutingInv
<1>7. UNCHANGED <<packet3, mapFile, mapCache, docs3, stored, logsFor, status3, book3, passed>>
  BY DEF LoadStored, sources3, artifacts
<1>8. RoutingTyped' /\ ~Undisturbed'
  BY <1>1, <1>6, <1>7 DEF RoutingInv, RoutingTyped, Undisturbed
<1>9. MapInv'
  BY <1>4, <1>6, <1>7, MapMoves DEF RoutingInv
<1>10. BlankInv'
  BY <1>4, <1>6, <1>7, BlankMoves DEF RoutingInv, Early
<1>11. ConcludedInv'
  BY <1>4, <1>6, <1>7, ConcludedMoves DEF RoutingInv
<1> QED
  BY <1>8, <1>9, <1>10, <1>11 DEF RoutingInv, OneServiceInv

LEMMA StatMapKeeps == ASSUME RoutingInv, NEW r \in Request, StatMap(r) PROVE RoutingInv'
<1> DEFINE v == [request[r] EXCEPT !.sig = mapFile.sig, !.cached = mapCache.owners, !.owners = mapCache.owners,
                        !.at = IF mapFile.sig = mapCache.sig THEN "docs" ELSE "read"]
<1>1. request[r].at = "stat" /\ request' = [request EXCEPT ![r] = v]
  BY DEF StatMap, At3
<1>2. request[r] \in RequestRecord /\ RequestShape(request[r])
  BY AtStage
<1>3. mapFile.sig \in Nat /\ mapCache.owners \in Owners
  BY DEF RoutingInv, RoutingTyped
<1>4. /\ v \in RequestRecord /\ v.stage = request[r].stage /\ v.fresh = request[r].fresh
      /\ v.at \in {"docs", "read"} /\ v.service = request[r].service /\ v.sig = mapFile.sig
  BY <1>2, <1>3 DEF RequestRecord, Place3, Early
<1> HIDE DEF v
<1>5. RequestShape(v)
  BY <1>1, <1>2, <1>4 DEF RequestShape, Early
<1>6. Undisturbed /\ v.stage = "fetch" => FetchIsStored(v)
  BY <1>1, <1>4, AtStage DEF FetchIsStored, Resolving
<1>7. Undisturbed => v.stage # "analyse"
  BY <1>1, <1>4, AtStage DEF AnalysisIsStored, Resolving
<1>8. UNCHANGED <<packet3, sources3, artifacts, queue3, used, passed, faults3, overlap3>>
  BY DEF StatMap, past, flow
<1>9. v.sig <= mapFile.sig /\ v.at # "cache" /\ v.at # "done" /\ v.at \in Early
  BY <1>3, <1>4 DEF Early
<1> QED
  BY <1>1, <1>4, <1>5, <1>6, <1>7, <1>8, <1>9, AtStage, MoveKeeps

LEMMA ReadMapKeeps == ASSUME RoutingInv, NEW r \in Request, ReadMap(r) PROVE RoutingInv'
<1> DEFINE v == [request[r] EXCEPT !.at = "cache",
                        !.owners = IF mapFile.valid THEN mapFile.owners ELSE request[r].cached]
<1>1. request[r].at = "read" /\ request' = [request EXCEPT ![r] = v]
  BY DEF ReadMap, At3
<1>2. request[r] \in RequestRecord /\ RequestShape(request[r])
  BY AtStage
<1>3. mapFile.owners \in Owners /\ request[r].sig <= mapFile.sig
  BY <1>1 DEF RoutingInv, RoutingTyped, MapInv
<1>4. /\ v \in RequestRecord /\ v.stage = request[r].stage /\ v.fresh = request[r].fresh
      /\ v.at = "cache" /\ v.service = request[r].service /\ v.sig = request[r].sig
      /\ mapFile.valid => v.owners = mapFile.owners
  BY <1>2, <1>3 DEF RequestRecord, Place3, Early
<1> HIDE DEF v
<1>5. RequestShape(v)
  BY <1>1, <1>2, <1>4 DEF RequestShape, Early
<1>6. Undisturbed /\ v.stage = "fetch" => FetchIsStored(v)
  BY <1>1, <1>4, AtStage DEF FetchIsStored, Resolving
<1>7. Undisturbed => v.stage # "analyse"
  BY <1>1, <1>4, AtStage DEF AnalysisIsStored, Resolving
<1>8. UNCHANGED <<packet3, sources3, artifacts, queue3, used, passed, faults3, overlap3>>
  BY DEF ReadMap, past, flow
<1> QED
  BY <1>1, <1>3, <1>4, <1>5, <1>6, <1>7, <1>8, AtStage, MoveKeeps DEF Early

LEMMA ReadDocsKeeps == ASSUME RoutingInv, NEW r \in Request, ReadDocs(r) PROVE RoutingInv'
<1> DEFINE Found(stage, now, good) == [NoRequest EXCEPT !.at = "gate", !.stage = stage, !.fresh = TRUE,
                                                        !.service = now, !.good = good]
           v == Found(request[r].stage, Resolve(request[r].owners, Documented),
                      Resolve(request[r].owners, docs3.good))
<1>1. request[r].at = "docs" /\ request' = [request EXCEPT ![r] = v]
  BY DEF ReadDocs, At3
<1>2. request[r] \in RequestRecord /\ RequestShape(request[r])
  BY AtStage
<1>3. /\ Resolve(request[r].owners, Documented) \in Named \ {"none"}
      /\ Resolve(request[r].owners, docs3.good) \in Named \ {"none"}
  <2>1. docs3.good \in Owners /\ Documented \in Owners /\ packet3 \in Cases3 /\ request[r].owners \in Owners
    BY <1>2 DEF RoutingInv, RoutingTyped, Documented, Owners, RequestRecord, DocsRecord
  <2> QED
    BY <2>1, ResolveIs
<1>4. /\ v \in RequestRecord /\ v.stage = request[r].stage /\ v.fresh = TRUE
      /\ v.at = "gate" /\ v.service # "none"
  <2>1. NoRequest \in RequestRecord /\ TRUE \in Flag /\ "gate" \in Place3 /\ request[r].stage \in Stage3
    BY <1>2, NoRequestIs DEF Flag, Place3, RequestRecord
  <2>2. ASSUME NEW now \in Named \ {"none"}, NEW good \in Named, NEW stage \in Stage3
        PROVE  LET q == Found(stage, now, good)
               IN /\ q \in RequestRecord /\ q.stage = stage /\ q.fresh = TRUE
                  /\ q.at = "gate" /\ q.service # "none"
    BY <2>1 DEF RequestRecord
  <2> HIDE DEF Found
  <2> QED
    BY <1>3, <2>1, <2>2
<1> HIDE DEF v
<1>5. RequestShape(v)
  BY <1>1, <1>2, <1>4 DEF RequestShape, Early
<1>6. Undisturbed /\ v.stage = "fetch" => FetchIsStored(v)
  BY <1>1, <1>4, AtStage DEF FetchIsStored, Resolving
<1>7. Undisturbed => v.stage # "analyse"
  BY <1>1, <1>4, AtStage DEF AnalysisIsStored, Resolving
<1>8. UNCHANGED <<packet3, sources3, artifacts, queue3, used, passed, faults3, overlap3>>
  BY DEF ReadDocs, past, flow
<1> QED
  BY <1>1, <1>4, <1>5, <1>6, <1>7, <1>8, AtStage, MoveKeeps DEF Early

LEMMA GateKeeps == ASSUME RoutingInv, NEW r \in Request, Gate(r) PROVE RoutingInv'
<1>1. UNCHANGED <<packet3, sources3, artifacts, queue3, used, faults3, overlap3>> /\ request[r].at = "gate"
  BY DEF Gate, flow, At3
<1>2. CASE Ends3(r) /\ UNCHANGED passed
  <2>1. request' = [request EXCEPT ![r] = NoRequest]
    BY <1>2 DEF Ends3
  <2> QED
    BY <1>1, <1>2, <2>1, NoRequestIs, AtStage, MoveKeeps DEF Early
<1>3. CASE Passes(r) /\ passed' = TRUE
  <2> DEFINE v == [request[r] EXCEPT !.at = "pass", !.good = "none"]
  <2>1. request' = [request EXCEPT ![r] = v]
    BY <1>3 DEF Passes
  <2>2. request[r] \in RequestRecord /\ RequestShape(request[r])
    BY AtStage
  <2>3. /\ v \in RequestRecord /\ v.stage = request[r].stage /\ v.fresh = request[r].fresh
        /\ v.at = "pass" /\ v.service = request[r].service
    BY <2>2 DEF RequestRecord, Place3, Early, Named
  <2> HIDE DEF v
  <2>4. RequestShape(v)
    BY <1>1, <2>2, <2>3 DEF RequestShape, Early
  <2>5. Undisturbed /\ v.stage = "fetch" => FetchIsStored(v)
    BY <1>1, <2>3, AtStage DEF FetchIsStored, Resolving
  <2>6. Undisturbed /\ v.stage = "analyse" => AnalysisIsStored(v)
    BY <1>1, <2>3, AtStage DEF AnalysisIsStored, Resolving
  <2> QED
    BY <1>1, <1>3, <2>1, <2>3, <2>4, <2>5, <2>6, AtStage, MoveKeeps
<1> QED
  BY <1>2, <1>3 DEF Gate

LEMMA ReadStatusKeeps == ASSUME RoutingInv, NEW r \in Request, ReadStatus3(r) PROVE RoutingInv'
<1> DEFINE v == [request[r] EXCEPT !.at = "mark", !.status = status3]
<1>1. request[r].at = "status" /\ request' = [request EXCEPT ![r] = v]
  BY DEF ReadStatus3, At3
<1>2. request[r] \in RequestRecord /\ RequestShape(request[r]) /\ status3 \in Status3
  BY AtStage DEF RoutingInv, RoutingTyped
<1>3. /\ v \in RequestRecord /\ v.stage = request[r].stage /\ v.fresh = request[r].fresh
      /\ v.at = "mark" /\ v.service = request[r].service
  BY <1>2 DEF RequestRecord, Place3
<1> HIDE DEF v
<1>4. RequestShape(v) /\ v.stage = "fetch"
  BY <1>1, <1>2, <1>3 DEF RequestShape, Early
<1>5. Undisturbed => FetchIsStored(v)
  BY <1>1, <1>3, <1>4, AtStage DEF FetchIsStored, Resolving
<1>6. passed
  BY <1>1, AtStage DEF Early
<1>7. UNCHANGED <<packet3, sources3, artifacts, queue3, used, passed, faults3, overlap3>>
  BY DEF ReadStatus3, past, flow
<1> QED
  BY <1>1, <1>3, <1>4, <1>5, <1>6, <1>7, AtStage, MoveKeeps

LEMMA PublishKeeps == ASSUME RoutingInv, NEW r \in Request, Publish3(r) PROVE RoutingInv'
<1>1. request[r].at = "publish" /\ request' = [request EXCEPT ![r] = NoRequest]
  BY DEF Publish3, At3, Ends3
<1>2. request[r].stage = "fetch"
  BY <1>1, AtStage DEF RequestShape
<1>3. Undisturbed => Ready
  BY <1>1, <1>2, AtStage DEF FetchIsStored
<1>4. UNCHANGED <<packet3, sources3, artifacts, used, passed, faults3, overlap3>>
  BY DEF Publish3, past
<1> QED
  BY <1>1, <1>3, <1>4, NoRequestIs, AtStage, MoveKeeps DEF Early

(* The steps that move a request on, its service and stage being the same, *)
(* and write something as they do.                                         *)
LEMMA GoesOn ==
    ASSUME RoutingInv, NEW r \in Request, NEW place \in Place3 \ Early, Goes3(r, place),
           request[r].at \notin Early, request[r].fresh # TRUE \/ place \in {"gate", "pass"},
           place \in {"logs", "status", "mark", "publish"} => request[r].stage = "fetch",
           place \in {"run", "book", "done"} => request[r].stage = "analyse"
    PROVE  LET v == [request[r] EXCEPT !.at = place]
           IN /\ v \in RequestRecord /\ RequestShape(v) /\ v.at = place
              /\ v.stage = request[r].stage /\ v.service = request[r].service /\ v.fresh = request[r].fresh
              /\ request' \in [Request -> RequestRecord] /\ request'[r] = v
              /\ \A q \in Request \ {r} : request'[q] = request[q]
              /\ \A q \in Request : RequestShape(request'[q])
<1> DEFINE v == [request[r] EXCEPT !.at = place]
<1>1. request[r] \in RequestRecord /\ RequestShape(request[r])
  BY AtStage
<1>2. /\ v \in RequestRecord /\ v.at = place /\ v.stage = request[r].stage
      /\ v.service = request[r].service /\ v.fresh = request[r].fresh
  BY <1>1 DEF RequestRecord
<1>3. request' = [request EXCEPT ![r] = v]
  BY DEF Goes3
<1> HIDE DEF v
<1>4. RequestShape(v)
  BY <1>1, <1>2 DEF RequestShape, Early
<1>5. /\ request' \in [Request -> RequestRecord] /\ request'[r] = v
      /\ \A q \in Request \ {r} : request'[q] = request[q]
      /\ \A q \in Request : RequestShape(request'[q])
  BY <1>2, <1>3, <1>4, RequestMoves DEF RoutingInv
<1> QED
  BY <1>2, <1>4, <1>5 DEF v

LEMMA MarkFetchedKeeps == ASSUME RoutingInv, NEW r \in Request, MarkFetched3(r) PROVE RoutingInv'
<1> DEFINE v == [request[r] EXCEPT !.at = "publish"]
<1>1. request[r].at = "mark" /\ Goes3(r, "publish")
  BY DEF MarkFetched3, At3
<1>2. request[r].stage = "fetch" /\ request[r].fresh # TRUE /\ request[r].at \notin Early /\ passed
  BY <1>1, AtStage DEF RequestShape, Early
<1>3. /\ v \in RequestRecord /\ RequestShape(v) /\ v.at = "publish"
      /\ v.stage = request[r].stage /\ v.service = request[r].service /\ v.fresh = request[r].fresh
      /\ request' \in [Request -> RequestRecord] /\ request'[r] = v
      /\ \A q \in Request \ {r} : request'[q] = request[q]
      /\ \A q \in Request : RequestShape(request'[q])
  BY <1>1, <1>2, GoesOn DEF Place3, Early
<1> HIDE DEF v
<1>4. UNCHANGED <<packet3, mapFile, mapCache, docs3, stored, logsFor, book3, queue3, used, passed, faults3, overlap3>>
  BY DEF MarkFetched3, past, flow, sources3
<1>5. status3' \in {"LOGS_FETCHED", status3}
  BY DEF MarkFetched3
<1>6. RoutingTyped'
  BY <1>3, <1>4, <1>5 DEF RoutingInv, RoutingTyped, Status3
<1>7. MapInv'
  BY <1>3, <1>4, MapMoves DEF RoutingInv
<1>8. BlankInv'
  BY <1>2, <1>4 DEF BlankInv
<1>9. ConcludedInv'
  BY <1>3, <1>4, <1>5, ConcludedMoves DEF RoutingInv
<1>10. Undisturbed => FetchIsStored(v)
  BY <1>1, <1>2, <1>3, AtStage DEF FetchIsStored, Resolving
<1>11. OneServiceInv'
  BY <1>2, <1>3, <1>4, <1>10, AtStage, OneServiceMoves DEF RoutingInv
<1> QED
  BY <1>6, <1>7, <1>8, <1>9, <1>11 DEF RoutingInv

LEMMA SaveBookKeeps == ASSUME RoutingInv, NEW r \in Request, SaveBook3(r) PROVE RoutingInv'
<1> DEFINE v == [request[r] EXCEPT !.at = "done"]
<1>1. request[r].at = "book" /\ Goes3(r, "done")
  BY DEF SaveBook3, At3
<1>2. request[r].stage = "analyse" /\ request[r].fresh # TRUE /\ request[r].at \notin Early /\ passed
  BY <1>1, AtStage DEF RequestShape, Early
<1>3. /\ v \in RequestRecord /\ RequestShape(v) /\ v.at = "done"
      /\ v.stage = request[r].stage /\ v.service = request[r].service /\ v.fresh = request[r].fresh
      /\ request' \in [Request -> RequestRecord] /\ request'[r] = v
      /\ \A q \in Request \ {r} : request'[q] = request[q]
      /\ \A q \in Request : RequestShape(request'[q])
  BY <1>1, <1>2, GoesOn DEF Place3, Early
<1> HIDE DEF v
<1>4. UNCHANGED <<packet3, mapFile, mapCache, docs3, stored, logsFor, status3, queue3, used, passed, faults3, overlap3>>
  BY DEF SaveBook3, past, flow, sources3
<1>5. book3' = "COMPLETED"
  BY DEF SaveBook3
<1>6. RoutingTyped'
  BY <1>3, <1>4 DEF RoutingInv, RoutingTyped
<1>7. MapInv'
  BY <1>3, <1>4, MapMoves DEF RoutingInv
<1>8. BlankInv'
  BY <1>2, <1>4 DEF BlankInv
<1>9. ConcludedInv'
  BY <1>5 DEF ConcludedInv
<1>10. Undisturbed => AnalysisIsStored(v)
  BY <1>1, <1>2, <1>3, AtStage DEF AnalysisIsStored, Resolving
<1>11. OneServiceInv'
  BY <1>2, <1>3, <1>4, <1>10, AtStage, OneServiceMoves DEF RoutingInv
<1> QED
  BY <1>6, <1>7, <1>8, <1>9, <1>11 DEF RoutingInv

LEMMA SaveStatusKeeps == ASSUME RoutingInv, NEW r \in Request, SaveStatus3(r) PROVE RoutingInv'
<1>1. request[r].at = "done" /\ request' = [request EXCEPT ![r] = NoRequest]
  BY DEF SaveStatus3, At3, Ends3
<1>2. passed /\ book3 = "COMPLETED"
  BY <1>1, AtStage DEF RoutingInv, ConcludedInv, Early
<1>3. /\ request' \in [Request -> RequestRecord] /\ request'[r] = NoRequest
      /\ \A q \in Request \ {r} : request'[q] = request[q]
      /\ \A q \in Request : RequestShape(request'[q])
  BY <1>1, NoRequestIs, RequestMoves DEF RoutingInv
<1>4. UNCHANGED <<packet3, mapFile, mapCache, docs3, stored, logsFor, book3, queue3, used, passed, faults3, overlap3>>
  BY DEF SaveStatus3, past, flow, sources3
<1>5. status3' = "COMPLETED"
  BY DEF SaveStatus3
<1>6. RoutingTyped'
  BY <1>3, <1>4, <1>5 DEF RoutingInv, RoutingTyped, Status3
<1>7. MapInv'
  BY <1>3, <1>4, NoRequestIs, MapMoves DEF RoutingInv
<1>8. BlankInv'
  BY <1>2, <1>4 DEF BlankInv
<1>9. ConcludedInv'
  BY <1>2, <1>4 DEF ConcludedInv
<1>10. OneServiceInv'
  BY <1>3, <1>4, NoRequestIs, AtStage, OneServiceMoves DEF RoutingInv
<1> QED
  BY <1>6, <1>7, <1>8, <1>9, <1>10 DEF RoutingInv

LEMMA CacheMapKeeps == ASSUME RoutingInv, NEW r \in Request, CacheMap(r) PROVE RoutingInv'
<1> DEFINE v == [request[r] EXCEPT !.at = "docs"]
<1>1. request[r].at = "cache" /\ request' = [request EXCEPT ![r] = v]
  BY DEF CacheMap, At3, Goes3
<1>2. request[r] \in RequestRecord /\ RequestShape(request[r])
  BY AtStage
<1>3. /\ v \in RequestRecord /\ v.at = "docs" /\ v.stage = request[r].stage
      /\ v.service = request[r].service /\ v.fresh = request[r].fresh
  BY <1>2 DEF RequestRecord, Place3, Early
<1> HIDE DEF v
<1>4. RequestShape(v)
  BY <1>1, <1>2, <1>3 DEF RequestShape, Early
<1>5. /\ request' \in [Request -> RequestRecord] /\ request'[r] = v
      /\ \A q \in Request \ {r} : request'[q] = request[q]
      /\ \A q \in Request : RequestShape(request'[q])
  BY <1>1, <1>3, <1>4, RequestMoves DEF RoutingInv
<1>6. UNCHANGED <<packet3, mapFile, docs3, stored, logsFor, status3, book3, queue3, used, passed, faults3, overlap3>>
  BY DEF CacheMap, past, flow, artifacts
<1>7. mapCache' = [sig |-> request[r].sig, owners |-> request[r].owners]
  BY DEF CacheMap
<1>8. RoutingTyped'
  <2>1. mapCache' \in [sig : Nat, owners : Owners]
    BY <1>2, <1>7 DEF RequestRecord
  <2> QED
    BY <1>5, <1>6, <2>1 DEF RoutingInv, RoutingTyped
<1>9. MapInv'
  <2>1. (mapCache.sig <= mapFile.sig /\ MapCacheCoherent)'
    BY <1>1, <1>6, <1>7 DEF RoutingInv, MapInv, MapCacheCoherent
  <2> QED
    BY <1>3, <1>5, <1>6, <2>1 DEF RoutingInv, MapInv
<1>10. BlankInv'
  BY <1>3, <1>5, <1>6, BlankMoves DEF RoutingInv, Early
<1>11. ConcludedInv'
  BY <1>3, <1>5, <1>6, ConcludedMoves DEF RoutingInv
<1>12. Undisturbed /\ v.stage = "fetch" => FetchIsStored(v)
  BY <1>1, <1>3, AtStage DEF FetchIsStored, Resolving
<1>13. Undisturbed => v.stage # "analyse"
  BY <1>1, <1>3, AtStage DEF AnalysisIsStored, Resolving
<1>14. OneServiceInv'
  BY <1>3, <1>5, <1>6, <1>12, <1>13, AtStage, OneServiceMoves DEF RoutingInv
<1> QED
  BY <1>8, <1>9, <1>10, <1>11, <1>14 DEF RoutingInv

LEMMA PersistKeeps == ASSUME RoutingInv, NEW r \in Request, Persist(r) PROVE RoutingInv'
<1> DEFINE v == [request[r] EXCEPT !.at = IF request[r].stage = "fetch" THEN "logs" ELSE "run",
                                   !.fresh = FALSE]
<1>1. request[r].at = "pass" /\ request' = [request EXCEPT ![r] = v]
  BY DEF Persist, At3
<1>2. /\ request[r] \in RequestRecord /\ RequestShape(request[r]) /\ request[r].service \in Named
      /\ request[r].stage \in {"fetch", "analyse"} /\ passed /\ request[r].fresh \in BOOLEAN
      /\ request[r].service # "none"
  BY <1>1, AtStage DEF RequestRecord, RequestShape, Stage3, Early, Flag
<1>3. /\ v \in RequestRecord /\ v.stage = request[r].stage /\ v.service = request[r].service
      /\ v.at = (IF request[r].stage = "fetch" THEN "logs" ELSE "run") /\ v.fresh = FALSE
  <2>1. FALSE \in Flag
    BY DEF Flag
  <2> QED
    BY <1>2, <2>1 DEF RequestRecord, Place3
<1> HIDE DEF v
<1>4. RequestShape(v)
  BY <1>2, <1>3 DEF RequestShape, Early
<1>5. /\ request' \in [Request -> RequestRecord] /\ request'[r] = v
      /\ \A q \in Request \ {r} : request'[q] = request[q]
      /\ \A q \in Request : RequestShape(request'[q])
  BY <1>1, <1>3, <1>4, RequestMoves DEF RoutingInv
<1>6. UNCHANGED <<packet3, mapFile, mapCache, docs3, logsFor, status3, book3, queue3, used, passed, overlap3>>
  BY DEF Persist, sources3, flow
<1>7. /\ stored' \in {stored, request[r].service} /\ faults3' \in {faults3, faults3 + 1}
      /\ faults3 \in Nat /\ stored \in Named
  BY DEF Persist, RoutingInv, RoutingTyped
<1>8. RoutingTyped'
  <2>1. stored' \in Named /\ faults3' \in Nat
    BY <1>2, <1>7
  <2> QED
    BY <1>5, <1>6, <2>1 DEF RoutingInv, RoutingTyped
<1>9. MapInv'
  BY <1>3, <1>5, <1>6, MapMoves DEF RoutingInv
<1>10. BlankInv'
  BY <1>2, <1>6 DEF BlankInv
<1>11. ConcludedInv'
  BY <1>3, <1>5, <1>6, ConcludedMoves DEF RoutingInv
<1>12. ASSUME faults3' = faults3 + 1
       PROVE  OneServiceInv'
  BY <1>7, <1>12 DEF OneServiceInv, Undisturbed
<1>13. ASSUME stored' = stored, faults3' = faults3, request[r].fresh = FALSE
       PROVE  OneServiceInv'
  <2>1. Undisturbed /\ v.stage = "fetch" => FetchIsStored(v)
    BY <1>1, <1>3, <1>13, AtStage DEF FetchIsStored, Resolving
  <2>2. Undisturbed /\ v.stage = "analyse" => AnalysisIsStored(v)
    BY <1>1, <1>3, AtStage DEF AnalysisIsStored, Resolving
  <2> QED
    BY <1>3, <1>5, <1>6, <1>13, <2>1, <2>2, AtStage, OneServiceMoves DEF RoutingInv
<1>14. ASSUME stored' = request[r].service, faults3' = faults3, request[r].fresh = TRUE
       PROVE  OneServiceInv'
  <2> SUFFICES ASSUME Undisturbed'
               PROVE  OneServiceInv'
    BY DEF OneServiceInv
  <2>1. Undisturbed
    BY <1>6, <1>14 DEF Undisturbed
  <2>2. request[r].stage = "fetch" /\ stored = "none"
    BY <1>1, <1>2, <1>14, <2>1, AtStage DEF AnalysisIsStored, FetchIsStored
  <2>3. ~Ready
    BY <2>2 DEF Ready
  <2>4. /\ \A q \in Request : request[q].stage = "fetch" => q = r
        /\ \A q \in Request : request[q].stage # "analyse"
        /\ ~(queue3 > 0) /\ logsFor = "none" /\ used = {}
    BY <2>1, <2>2, <2>3 DEF RoutingInv, OneServiceInv, AnalysisIsStored
  <2>5. /\ \A q \in Request : request'[q].stage = "fetch" => q = r
        /\ \A q \in Request : request'[q].stage # "analyse"
        /\ ~(queue3' > 0) /\ logsFor' = "none" /\ used' = {}
    BY <1>3, <1>5, <1>6, <2>2, <2>4
  <2>6. FetchIsStored(request[r])'
    BY <1>3, <1>5, <1>14, <2>2 DEF FetchIsStored, Resolving
  <2> QED
    BY <2>5, <2>6 DEF OneServiceInv
<1>15. OneServiceInv'
  <2>1. \/ Stores(r) /\ stored' = request[r].service /\ faults3' = faults3
        \/ ~Stores(r) /\ stored' = stored /\ faults3' = faults3
        \/ faults3' = faults3 + 1
    BY DEF Persist
  <2>2. CASE ~Stores(r) /\ stored' = stored /\ faults3' = faults3 /\ request[r].fresh = TRUE
    <3>1. request[r].stage = "analyse"
      BY <2>2 DEF Stores
    <3>2. ~Undisturbed
      BY <2>2, <3>1, AtStage DEF AnalysisIsStored
    <3> QED
      BY <1>6, <2>2, <3>2 DEF OneServiceInv, Undisturbed
  <2>3. Stores(r) => request[r].fresh = TRUE
    BY <1>2 DEF Stores
  <2> QED
    BY <1>2, <1>12, <1>13, <1>14, <2>1, <2>2, <2>3
<1> QED
  BY <1>8, <1>9, <1>10, <1>11, <1>15 DEF RoutingInv

LEMMA ScopedFetchKeeps == ASSUME RoutingInv, NEW r \in Request, FetchLogs3(r) PROVE RoutingInv'
<1> DEFINE v == [request[r] EXCEPT !.at = "status"]
<1>1. request[r].at = "logs" /\ Goes3(r, "status")
  BY DEF FetchLogs3, At3
<1>2. /\ request[r].stage = "fetch" /\ request[r].fresh # TRUE /\ request[r].at \notin Early /\ passed
      /\ request[r].service # "none"
  BY <1>1, AtStage DEF RequestShape, Early
<1>3. /\ v \in RequestRecord /\ RequestShape(v) /\ v.at = "status"
      /\ v.stage = request[r].stage /\ v.service = request[r].service /\ v.fresh = request[r].fresh
      /\ request' \in [Request -> RequestRecord] /\ request'[r] = v
      /\ \A q \in Request \ {r} : request'[q] = request[q]
      /\ \A q \in Request : RequestShape(request'[q])
  BY <1>1, <1>2, GoesOn DEF Place3, Early
<1> HIDE DEF v
<1>4. UNCHANGED <<packet3, mapFile, mapCache, docs3, stored, status3, book3, queue3, used, passed, faults3, overlap3>>
  BY DEF FetchLogs3, past, flow, sources3
<1>5. RoutingTyped'
  BY <1>3, <1>4 DEF RoutingInv, RoutingTyped
<1>6. MapInv'
  BY <1>3, <1>4, MapMoves DEF RoutingInv
<1>7. BlankInv'
  BY <1>2, <1>4 DEF BlankInv
<1>8. ConcludedInv'
  BY <1>3, <1>4, ConcludedMoves DEF RoutingInv
<1>9. Undisturbed => request[r].service = stored
  BY <1>1, <1>2, AtStage DEF FetchIsStored
<1>10. ASSUME logsFor # "none"
       PROVE  OneServiceInv'
  <2>1. logsFor' = logsFor
    BY <1>10 DEF FetchLogs3
  <2>2. Undisturbed => Ready
    BY <1>10 DEF RoutingInv, OneServiceInv
  <2>3. Undisturbed => FetchIsStored(v)
    BY <1>2, <1>3, <1>9, <2>2 DEF FetchIsStored, Resolving
  <2> QED
    BY <1>2, <1>3, <1>4, <2>1, <2>3, AtStage, OneServiceMoves DEF RoutingInv
<1>11. ASSUME logsFor = "none"
       PROVE  OneServiceInv'
  <2> SUFFICES ASSUME Undisturbed'
               PROVE  OneServiceInv'
    BY DEF OneServiceInv
  <2>1. Undisturbed
    BY <1>4 DEF Undisturbed
  <2>2. stored # "none" /\ Scope3(stored) # "none" /\ logsFor' = Scope3(stored)
    BY <1>2, <1>9, <1>11, <2>1, ScopeIs DEF FetchLogs3
  <2>3. ~Ready /\ Ready'
    BY <1>4, <1>11, <2>2, SamePacket DEF Ready
  <2>4. /\ \A q \in Request : request[q].stage = "fetch" => q = r
        /\ \A q \in Request : request[q].stage # "analyse"
        /\ used = {}
    BY <1>2, <2>1, <2>3 DEF RoutingInv, OneServiceInv, AnalysisIsStored
  <2>5. /\ \A q \in Request : request'[q].stage = "fetch" => q = r
        /\ \A q \in Request : request'[q].stage # "analyse"
        /\ used' = {}
    BY <1>2, <1>3, <1>4, <2>4
  <2>6. FetchIsStored(request[r])'
    BY <1>2, <1>3, <1>4, <1>9, <2>1, <2>3 DEF FetchIsStored, Resolving
  <2> QED
    BY <2>3, <2>5, <2>6 DEF OneServiceInv
<1> QED
  BY <1>5, <1>6, <1>7, <1>8, <1>10, <1>11 DEF RoutingInv

LEMMA StartRunKeeps == ASSUME RoutingInv, NEW r \in Request, StartRun(r) PROVE RoutingInv'
<1> DEFINE v == [request[r] EXCEPT !.at = "book"]
<1>1. request[r].at = "run" /\ Goes3(r, "book")
  BY DEF StartRun, At3
<1>2. request[r].stage = "analyse" /\ request[r].fresh # TRUE /\ request[r].at \notin Early /\ passed
  BY <1>1, AtStage DEF RequestShape, Early
<1>3. /\ v \in RequestRecord /\ RequestShape(v) /\ v.at = "book"
      /\ v.stage = request[r].stage /\ v.service = request[r].service /\ v.fresh = request[r].fresh
      /\ request' \in [Request -> RequestRecord] /\ request'[r] = v
      /\ \A q \in Request \ {r} : request'[q] = request[q]
      /\ \A q \in Request : RequestShape(request'[q])
  BY <1>1, <1>2, GoesOn DEF Place3, Early
<1> HIDE DEF v
<1>4. UNCHANGED <<packet3, mapFile, mapCache, docs3, stored, logsFor, book3, queue3, passed, faults3, overlap3>>
  BY DEF StartRun, flow, sources3
<1>5. status3' \in {"IN_PROGRESS", status3}
  BY DEF StartRun
<1>6. RoutingTyped'
  BY <1>3, <1>4, <1>5 DEF RoutingInv, RoutingTyped, Status3
<1>7. MapInv'
  BY <1>3, <1>4, MapMoves DEF RoutingInv
<1>8. BlankInv'
  BY <1>2, <1>4 DEF BlankInv
<1>9. ConcludedInv'
  BY <1>3, <1>4, <1>5, ConcludedMoves DEF RoutingInv
<1>10. Undisturbed => Ready /\ AnalysisIsStored(v) /\ request[r].service = stored
  BY <1>1, <1>2, <1>3, AtStage DEF AnalysisIsStored, Resolving
<1>11. Undisturbed => used' = used \cup {[pack |-> PackFor(stored), scope |-> Scope3(stored)]}
  BY <1>10 DEF StartRun
<1>12. OneServiceInv'
  BY <1>2, <1>3, <1>4, <1>10, <1>11, AtStage, OneServiceMoves DEF RoutingInv
<1> QED
  BY <1>6, <1>7, <1>8, <1>9, <1>12 DEF RoutingInv

(* The map, the documentation and the process move under the requests.     *)
LEMMA OneServiceStays ==
    ASSUME OneServiceInv, UNCHANGED <<packet3, stored, logsFor, request, queue3, used, faults3, overlap3>>
    PROVE  OneServiceInv'
BY DEF OneServiceInv, Undisturbed, FetchIsStored, AnalysisIsStored, Ready, PackFor, Scope3, SkipReason, Registered

LEMMA NewMapKeeps == ASSUME RoutingInv, NewMap PROVE RoutingInv'
<1>1. UNCHANGED <<packet3, mapCache, docs3, stored, logsFor, status3, book3, request, queue3, used, passed, faults3, overlap3>>
  BY DEF NewMap, past, flow, artifacts
<1>2. \E b \in Flag, o \in Owners : mapFile' = [sig |-> mapFile.sig + 1, valid |-> b, owners |-> o]
  <2>1. TRUE \in Flag /\ FALSE \in Flag /\ {} \in Owners /\ Listings \subseteq Owners
    BY RoutingAssumption DEF Flag, Owners
  <2> QED
    BY <2>1 DEF NewMap
<1>3. PICK b \in Flag, o \in Owners : mapFile' = [sig |-> mapFile.sig + 1, valid |-> b, owners |-> o]
  BY <1>2
<1>4. /\ mapFile.sig \in Nat \ {0} /\ mapCache.sig \in Nat /\ request \in [Request -> RequestRecord]
  BY DEF RoutingInv, RoutingTyped
<1>5. mapFile' \in [sig : Nat \ {0}, valid : Flag, owners : Owners] /\ mapFile'.sig = mapFile.sig + 1
  BY <1>3, <1>4
<1>6. RoutingTyped'
  BY <1>1, <1>5 DEF RoutingInv, RoutingTyped
<1>7. MapInv'
  <2>1. (mapCache.sig <= mapFile.sig /\ MapCacheCoherent)'
    BY <1>1, <1>4, <1>5 DEF RoutingInv, MapInv, MapCacheCoherent
  <2>2. ASSUME NEW q \in Request, request[q].at \in {"read", "cache"}
        PROVE  request[q].sig <= mapFile'.sig /\ request[q].sig # mapFile'.sig
    <3>1. request[q].sig \in Nat /\ request[q].sig <= mapFile.sig
      BY <1>4, <2>2 DEF RoutingInv, MapInv, RequestRecord
    <3> QED
      BY <1>4, <1>5, <3>1
  <2> QED
    BY <1>1, <2>1, <2>2 DEF MapInv
<1>8. BlankInv' /\ ConcludedInv'
  BY <1>1 DEF RoutingInv, BlankInv, ConcludedInv
<1>9. OneServiceInv'
  BY <1>1, OneServiceStays DEF RoutingInv
<1> QED
  BY <1>6, <1>7, <1>8, <1>9 DEF RoutingInv

LEMMA SwapKeeps == ASSUME RoutingInv, SwapAway \/ SwapIn PROVE RoutingInv'
<1>1. UNCHANGED <<packet3, mapFile, mapCache, stored, logsFor, status3, book3, request, queue3, used, passed, faults3, overlap3>>
  BY DEF SwapAway, SwapIn, past, flow, artifacts
<1>2. docs3' \in DocsRecord
  <2>1. docs3 \in DocsRecord /\ Listings \subseteq Owners
    BY RoutingAssumption DEF RoutingInv, RoutingTyped, Owners
  <2>2. CASE SwapAway
    <3>1. docs3' = [docs3 EXCEPT !.place = "away", !.swaps = docs3.swaps + 1]
      BY <2>2 DEF SwapAway
    <3>2. docs3.swaps + 1 \in Nat
      BY <2>1 DEF DocsRecord
    <3> QED
      BY <2>1, <3>1, <3>2 DEF DocsRecord
  <2>3. CASE SwapIn
    BY <2>1, <2>3 DEF SwapIn, DocsRecord
  <2> QED
    BY <2>2, <2>3
<1>3. RoutingTyped'
  BY <1>1, <1>2 DEF RoutingInv, RoutingTyped
<1>4. MapInv' /\ BlankInv' /\ ConcludedInv'
  BY <1>1 DEF RoutingInv, MapInv, MapCacheCoherent, BlankInv, ConcludedInv
<1>5. OneServiceInv'
  BY <1>1, OneServiceStays DEF RoutingInv
<1> QED
  BY <1>3, <1>4, <1>5 DEF RoutingInv

LEMMA RoutingCrashKeeps == ASSUME RoutingInv, RoutingCrash PROVE RoutingInv'
<1>1. UNCHANGED <<packet3, mapFile, docs3, stored, logsFor, status3, book3, used, passed, overlap3>>
  BY DEF RoutingCrash, artifacts
<1>2. request' = [q \in Request |-> NoRequest]
  BY DEF RoutingCrash
<1>3. request' \in [Request -> RequestRecord] /\ \A q \in Request : request'[q] = NoRequest
  BY <1>2, NoRequestIs
<1>4. mapCache' \in [sig : Nat, owners : Owners] /\ mapCache'.sig = 0
  BY DEF RoutingCrash, Owners
<1>5. faults3' = faults3 + 1 /\ faults3 \in Nat /\ mapFile.sig \in Nat \ {0}
  BY DEF RoutingCrash, RoutingInv, RoutingTyped
<1>6. RoutingTyped'
  BY <1>1, <1>3, <1>4, <1>5, NoRequestIs DEF RoutingInv, RoutingTyped
<1>7. MapInv'
  BY <1>1, <1>3, <1>4, <1>5, NoRequestIs DEF MapInv, MapCacheCoherent
<1>8. BlankInv' /\ ConcludedInv'
  BY <1>1, <1>3, NoRequestIs DEF RoutingInv, BlankInv, ConcludedInv, Early
<1>9. OneServiceInv'
  BY <1>5 DEF OneServiceInv, Undisturbed
<1> QED
  BY <1>6, <1>7, <1>8, <1>9 DEF RoutingInv

LEMMA RoutingStutterKeeps == ASSUME RoutingInv, UNCHANGED routingVars PROVE RoutingInv'
<1>1. UNCHANGED <<packet3, mapFile, mapCache, docs3, stored, logsFor, status3, book3, request, queue3, used, passed, faults3, overlap3>>
  BY DEF routingVars
<1>2. RoutingTyped' /\ MapInv' /\ BlankInv' /\ ConcludedInv'
  BY <1>1 DEF RoutingInv, RoutingTyped, MapInv, MapCacheCoherent, BlankInv, ConcludedInv
<1> QED
  BY <1>1, <1>2, OneServiceStays DEF RoutingInv

LEMMA RoutingInvInvariant == RoutingSpec => []RoutingInv
<1>1. ASSUME RoutingInv, [RoutingNext]_routingVars
      PROVE  RoutingInv'
  <2>1. ASSUME NEW r \in Request,
               \/ BeginFetch3(r) \/ BeginAnalysis3(r) \/ LoadStored(r) \/ StatMap(r) \/ ReadMap(r)
               \/ CacheMap(r) \/ ReadDocs(r) \/ Gate(r)
        PROVE  RoutingInv'
    BY <1>1, <2>1, BeginFetchKeeps, BeginAnalysisKeeps, LoadStoredKeeps, LoadFailsKeeps, StatMapKeeps, ReadMapKeeps,
       CacheMapKeeps, ReadDocsKeeps, GateKeeps
  <2>2. ASSUME NEW r \in Request,
               \/ Persist(r) \/ FetchLogs3(r) \/ ReadStatus3(r) \/ MarkFetched3(r) \/ Publish3(r)
               \/ StartRun(r) \/ SaveBook3(r) \/ SaveStatus3(r)
        PROVE  RoutingInv'
    BY <1>1, <2>2, PersistKeeps, ScopedFetchKeeps, ReadStatusKeeps, MarkFetchedKeeps, PublishKeeps,
       StartRunKeeps, SaveBookKeeps, SaveStatusKeeps
  <2> QED
    BY <1>1, <2>1, <2>2, NewMapKeeps, SwapKeeps, RoutingCrashKeeps, RoutingStutterKeeps DEF RoutingNext
<1> QED
  BY <1>1, RoutingInvInit, PTL DEF RoutingSpec

LEMMA RoutingInvSafe == RoutingInv => RoutingIsSound
<1> SUFFICES ASSUME RoutingInv
             PROVE  RoutingIsSound
  OBVIOUS
<1>1. RoutingTypeOK
  <2>1. stored \in Service \cup {Unresolved, "none"} /\ status3 \in {"none", "LOGS_FETCHED", "IN_PROGRESS", "COMPLETED"}
    BY DEF RoutingInv, RoutingTyped, Named, Status3
  <2> QED
    BY <2>1, AtStage DEF RoutingTypeOK, RequestShape, Early
<1>2. MapCacheCoherent /\ SkipLeavesNothing
  BY DEF RoutingInv, MapInv, BlankInv, SkipLeavesNothing
<1>3. OneService
  <2> SUFFICES ASSUME Undisturbed
               PROVE  Cardinality(used) <= 1 /\ \A u \in used : u.scope = logsFor
    BY DEF OneService, Undisturbed
  <2> DEFINE only == [pack |-> PackFor(stored), scope |-> Scope3(stored)]
  <2>1. used \subseteq {only} /\ (used # {} => logsFor = only.scope)
    BY DEF RoutingInv, OneServiceInv, Ready
  <2> HIDE DEF only
  <2>2. IsFiniteSet({only}) /\ Cardinality({only}) = 1
    BY FS_Singleton
  <2>3. Cardinality(used) <= 1
    BY <2>1, <2>2, FS_Subset
  <2> QED
    BY <2>1, <2>3
<1> QED
  BY <1>1, <1>2, <1>3 DEF RoutingIsSound

(* For any number of requests, deliveries, services and replacements of    *)
(* the map and of the documentation (load_or_resolve, persist and the gate *)
(* of src/api/routes.py): a packet is fetched and analysed as one          *)
(* service's unless a fault or overlapping fetches part the two; the       *)
(* cached map is the one it is filed under; a skipped packet leaves        *)
(* nothing behind.                                                         *)
THEOREM RoutingsAreSound == RoutingSpec => []RoutingIsSound
BY RoutingInvInvariant, RoutingInvSafe, PTL

(* A fetch that is late with its status does not reopen a packet that has  *)
(* its verdict: the casebook holds it by then.                             *)
THEOREM VerdictOutlivesFetch == RoutingSpec => [][VerdictSurvivesFetch]_routingVars
<1>1. ASSUME RoutingInv, [RoutingNext]_routingVars
      PROVE  [VerdictSurvivesFetch]_routingVars
  <2>1. book3' \in {book3, "COMPLETED"}
    <3>1. CASE NewMap \/ SwapAway \/ SwapIn \/ RoutingCrash \/ UNCHANGED routingVars
      BY <3>1 DEF NewMap, SwapAway, SwapIn, RoutingCrash, routingVars, artifacts
    <3>2. ASSUME NEW r \in Request,
                 \/ BeginFetch3(r) \/ BeginAnalysis3(r) \/ LoadStored(r) \/ StatMap(r) \/ ReadMap(r)
                 \/ CacheMap(r) \/ ReadDocs(r) \/ Gate(r)
          PROVE  book3' = book3
      BY <3>2 DEF BeginFetch3, BeginAnalysis3, LoadStored, StatMap, ReadMap, CacheMap, ReadDocs, Gate, artifacts
    <3>3. ASSUME NEW r \in Request,
                 \/ Persist(r) \/ FetchLogs3(r) \/ ReadStatus3(r) \/ MarkFetched3(r) \/ Publish3(r)
                 \/ StartRun(r) \/ SaveBook3(r) \/ SaveStatus3(r)
          PROVE  book3' \in {book3, "COMPLETED"}
      BY <3>3 DEF Persist, FetchLogs3, ReadStatus3, MarkFetched3, Publish3, StartRun, SaveBook3, SaveStatus3,
                  artifacts
    <3> QED
      BY <1>1, <3>1, <3>2, <3>3 DEF RoutingNext
  <2>2. Settled3 => book3 = "COMPLETED"
    BY <1>1 DEF RoutingInv, ConcludedInv, Settled3
  <2> QED
    BY <2>1, <2>2 DEF VerdictSurvivesFetch, Settled3
<1> QED
  BY <1>1, RoutingInvInvariant, PTL DEF RoutingSpec
=============================================================================
