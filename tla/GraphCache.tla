----------------------------- MODULE GraphCache -----------------------------
(***************************************************************************)
(* The agent graph each lane keeps for its process, and what it is built   *)
(* from: the tool catalog (src/tools/mcp_client.py) and the prompt         *)
(* versions in use (src/utils/prompt_store.py).  get_agent and             *)
(* get_dlt_agent read the published graph without the lock and rebuild it  *)
(* when its catalog is due to be listed again or its prompts have moved.   *)
(*                                                                         *)
(* A catalog is full, or lacks a server that could not be listed: new      *)
(* until AGENT_MCP_RETRY_SECONDS have passed, due from then on.  A graph   *)
(* is what it was built from.                                              *)
(***************************************************************************)
EXTENDS Integers, FiniteSets

CONSTANTS Packet,        \* packets asking for the graph, each again and again
          MaxVersion,    \* prompt versions published, from 0
          Bad,           \* versions that fail their checks
          EarlyCatalog,  \* the builder publishes the catalog before the graph
          NoPacket

ASSUME CacheAssumption ==
    /\ MaxVersion \in Nat
    /\ Bad \subseteq 1..MaxVersion
    /\ EarlyCatalog \in BOOLEAN
    /\ NoPacket \notin Packet

VARIABLES
    label,         \* the version Langfuse serves under the label
    active,        \* _active: the version in use
    up,            \* every tool server answers
    catalog,       \* mcp_client._catalog
    agent,         \* _agent: the published graph
    agentCatalog,  \* _agent_catalog
    agentPrompts,  \* _agent_prompts
    lock,          \* who holds _agent_lock
    pc,            \* pc[p]
    snap,          \* snap[p]: the version p fetched, then the revision it goes by
    cat,           \* cat[p]: the catalog p judged fresh, or builds from
    got            \* got[p]: the graph p was given

cacheVars == <<label, active, up, catalog, agent, agentCatalog, agentPrompts, lock,
               pc, snap, cat, got>>
shared == <<label, active, up, catalog, agent, agentCatalog, agentPrompts, lock>>

NoGraph == [tools |-> "none", prompts |-> 0]

CacheTypeOK ==
    /\ active \in 0..MaxVersion /\ agentPrompts \in -1..MaxVersion
    /\ catalog \in {"none", "new", "due", "full"}
    /\ agentCatalog \in {"none", "new", "due", "full"}
    /\ lock \in Packet \cup {NoPacket}
    /\ lock # NoPacket => pc[lock] \in {"locked", "list", "compile", "publish", "seal"}

CacheInit ==
    /\ label = 0 /\ active = 0
    /\ up \in BOOLEAN
    /\ catalog = "none" /\ agent = NoGraph /\ agentCatalog = "none" /\ agentPrompts = -1
    /\ lock = NoPacket
    /\ pc = [p \in Packet |-> "idle"]
    /\ snap = [p \in Packet |-> 0]
    /\ cat = [p \in Packet |-> "none"]
    /\ got = [p \in Packet |-> NoGraph]

(* Langfuse and the tool servers; time. *)
Publish ==
    /\ label < MaxVersion /\ label' = label + 1
    /\ UNCHANGED <<active, up, catalog, agent, agentCatalog, agentPrompts, lock, pc, snap, cat, got>>

ServersChange ==
    /\ up' = ~up
    /\ UNCHANGED <<label, active, catalog, agent, agentCatalog, agentPrompts, lock, pc, snap, cat, got>>

Aged(c) == IF c = "new" THEN "due" ELSE c

RetryDue ==
    /\ "new" \in {catalog, agentCatalog}
    /\ catalog' = Aged(catalog) /\ agentCatalog' = Aged(agentCatalog)
    /\ cat' = [p \in Packet |-> Aged(cat[p])]
    /\ UNCHANGED <<label, active, up, agent, agentPrompts, lock, pc, snap, got>>

Moves(p, to) == pc' = [pc EXCEPT ![p] = to]

(* _fetch_snapshot, outside the lock.  One that cannot be fetched fails the packet. *)
Fetch(p) ==
    /\ pc[p] = "idle"
    /\ got' = [got EXCEPT ![p] = NoGraph]
    /\ cat' = [cat EXCEPT ![p] = "none"]
    /\ \/ Moves(p, "fetched") /\ snap' = [snap EXCEPT ![p] = label]
       \/ UNCHANGED <<pc, snap>>
    /\ UNCHANGED shared

(* Variant: a fetched version is put in use unchecked. *)
RefreshUnchecked(p) ==
    /\ pc[p] = "fetched"
    /\ active' = snap[p] /\ Moves(p, "asks")
    /\ snap' = [snap EXCEPT ![p] = active']
    /\ UNCHANGED <<label, up, catalog, agent, agentCatalog, agentPrompts, lock, cat, got>>

(* Variant: the versions in use are never replaced. *)
RefreshOnce(p) ==
    /\ pc[p] = "fetched"
    /\ Moves(p, "asks")
    /\ snap' = [snap EXCEPT ![p] = active]
    /\ UNCHANGED <<label, active, up, catalog, agent, agentCatalog, agentPrompts, lock, cat, got>>

(* refresh: a changed version is checked, then swapped in; one that fails  *)
(* its checks fails the packet and the version in use stays.               *)
Refresh(p) ==
    /\ pc[p] = "fetched"
    /\ \/ /\ snap[p] # active /\ snap[p] \in Bad
          /\ Moves(p, "idle") /\ UNCHANGED <<active, snap>>
       \/ /\ snap[p] = active \/ snap[p] \notin Bad
          /\ active' = snap[p] /\ Moves(p, "asks")
          /\ snap' = [snap EXCEPT ![p] = active']
    /\ UNCHANGED <<label, up, catalog, agent, agentCatalog, agentPrompts, lock, cat, got>>

(* Variant: an incomplete listing is kept until the process restarts. *)
IsStaleNever(c) == FALSE

IsStale(c) == c = "due"

Fresh(rev) == agent # NoGraph /\ ~IsStale(agentCatalog) /\ agentPrompts = rev

(* get_agent: the lock-free test. *)
Ask(p) ==
    /\ pc[p] = "asks"
    /\ IF Fresh(snap[p])
       THEN Moves(p, "take") /\ cat' = [cat EXCEPT ![p] = agentCatalog]
       ELSE Moves(p, "waits") /\ UNCHANGED cat
    /\ UNCHANGED shared /\ UNCHANGED <<snap, got>>

(* ... and the graph it returns, read again. *)
Take(p) ==
    /\ pc[p] = "take"
    /\ got' = [got EXCEPT ![p] = agent]
    /\ Moves(p, "runs")
    /\ UNCHANGED shared /\ UNCHANGED <<snap, cat>>

Lock(p) ==
    /\ pc[p] = "waits" /\ lock = NoPacket
    /\ lock' = p
    /\ snap' = [snap EXCEPT ![p] = active]
    /\ IF Fresh(active)
       THEN Moves(p, "locked") /\ cat' = [cat EXCEPT ![p] = agentCatalog]
       ELSE Moves(p, "list") /\ UNCHANGED cat
    /\ UNCHANGED <<label, active, up, catalog, agent, agentCatalog, agentPrompts, got>>

(* Variant: the second test's early return leaves the lock taken. *)
RecheckedKeepsLock(p) ==
    /\ pc[p] = "locked"
    /\ got' = [got EXCEPT ![p] = agent]
    /\ Moves(p, "runs")
    /\ UNCHANGED <<label, active, up, catalog, agent, agentCatalog, agentPrompts, lock, snap, cat>>

(* Another packet built it meanwhile. *)
Rechecked(p) ==
    /\ pc[p] = "locked"
    /\ got' = [got EXCEPT ![p] = agent]
    /\ lock' = NoPacket /\ Moves(p, "runs")
    /\ UNCHANGED <<label, active, up, catalog, agent, agentCatalog, agentPrompts, snap, cat>>

(* load_catalog: the servers that answer now. *)
LoadCatalog == IF up THEN "full" ELSE "new"

(* Variant: the catalog is published before the graph built from it. *)
ListToolsEarly(p) ==
    /\ pc[p] = "list"
    /\ catalog' = IF catalog = "none" \/ IsStale(catalog) THEN LoadCatalog ELSE catalog
    /\ cat' = [cat EXCEPT ![p] = catalog']
    /\ agentCatalog' = catalog'
    /\ Moves(p, "compile")
    /\ UNCHANGED <<label, active, up, agent, agentPrompts, lock, snap, got>>

(* current_catalog, and the snapshot the build is pinned to. *)
ListTools(p) ==
    /\ pc[p] = "list"
    /\ catalog' = IF catalog = "none" \/ IsStale(catalog) THEN LoadCatalog ELSE catalog
    /\ cat' = [cat EXCEPT ![p] = catalog']
    /\ agentCatalog' = IF EarlyCatalog THEN catalog' ELSE agentCatalog
    /\ Moves(p, "compile")
    /\ UNCHANGED <<label, active, up, agent, agentPrompts, lock, snap, got>>

Compile(p) ==
    /\ pc[p] = "compile"
    /\ agent' = [tools |-> IF cat[p] = "full" THEN "full" ELSE "partial", prompts |-> snap[p]]
    /\ Moves(p, "publish")
    /\ UNCHANGED <<label, active, up, catalog, agentCatalog, agentPrompts, lock, snap, cat, got>>

(* The graph's catalog, then its prompts' revision. *)
PublishedCatalog(p) ==
    /\ pc[p] = "publish"
    /\ agentCatalog' = cat[p]
    /\ Moves(p, "seal")
    /\ UNCHANGED <<label, active, up, catalog, agent, agentPrompts, lock, snap, cat, got>>

Seal(p) ==
    /\ pc[p] = "seal"
    /\ agentPrompts' = snap[p]
    /\ got' = [got EXCEPT ![p] = agent]
    /\ lock' = NoPacket /\ Moves(p, "runs")
    /\ UNCHANGED <<label, active, up, catalog, agent, agentCatalog, snap, cat>>

RunOnGraph(p) ==
    /\ pc[p] = "runs" /\ Moves(p, "idle")
    /\ got' = [got EXCEPT ![p] = NoGraph] /\ cat' = [cat EXCEPT ![p] = "none"]
    /\ UNCHANGED shared /\ UNCHANGED snap

CacheStep(p) ==
    \/ Refresh(p) \/ Ask(p) \/ Take(p) \/ Lock(p) \/ Rechecked(p) \/ ListTools(p)
    \/ Compile(p) \/ PublishedCatalog(p) \/ Seal(p) \/ RunOnGraph(p)

CacheNext ==
    \/ Publish \/ ServersChange \/ RetryDue
    \/ \E p \in Packet : Fetch(p) \/ CacheStep(p)

CacheSpec == CacheInit /\ [][CacheNext]_cacheVars

-----------------------------------------------------------------------------

(* A packet that found the catalog complete is given a graph with every    *)
(* tool: the lock-free path never pairs a fresh catalog with the graph     *)
(* built before it, while another packet is rebuilding.                    *)
FreshCatalogFreshGraph ==
    \A p \in Packet : pc[p] = "runs" /\ cat[p] = "full" => got[p].tools = "full"

(* No packet runs on, and no graph is built from, a prompt version that    *)
(* failed its checks, whichever packets fetched it and when.               *)
BadNeverUsed == active \notin Bad /\ agent.prompts \notin Bad

(* An outage of a tool server costs the packets that met it their tools,   *)
(* not every packet until a restart: once the servers answer for good and  *)
(* sound prompts are published, the graph gets the whole set back for as   *)
(* long as packets come.                                                   *)
ToolsReturn ==
    <>[](up /\ label \notin Bad) => \A p \in Packet :
        [](pc[p] = "asks" => <>(agent.tools = "full"))

(* A version published last under the label reaches the graph, although a  *)
(* slow fetch may put an older version back in use for a while.            *)
PromptsCatchUp ==
    MaxVersion \notin Bad => \A p \in Packet :
        [](label = MaxVersion /\ pc[p] = "asks" => <>(agent.prompts = MaxVersion))

(* The graph a packet is given is the one it asked for: complete when its  *)
(* catalog is, and never built from prompts that failed their checks,      *)
(* however lookups without the lock, rebuilds and refreshes overlap.       *)
GraphIsSound ==
    CacheTypeOK /\ FreshCatalogFreshGraph /\ BadNeverUsed

=============================================================================
