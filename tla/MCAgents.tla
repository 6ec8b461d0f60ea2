------------------------------ MODULE MCAgents ------------------------------
(***************************************************************************)
(* How a case is investigated, for TLC: fetching and reducing its trace,   *)
(* the agents' graph and its caches, the model calls, and the DLT lane's   *)
(* judgement.  They are checked side by side: a behaviour picks one part   *)
(* and moves only that one, the others staying in their initial states.    *)
(***************************************************************************)
EXTENDS AgentGraph, GraphCache, ModelCalls, LogFetch, LogReduce, DltFinding

CONSTANTS r1, r2, c1, c2, p1, p2, p3
CONSTANT Parts      \* the parts to move
VARIABLE part

Runs == {r1, r2}
OneRun == {r1}
Calls == {c1, c2}
Packets == {p1, p2}
Pods == {p1, p2, p3}

(* The agents: settings of the deployment and of the packet's service *)
Base == [harness |-> FALSE, filter |-> FALSE, mode |-> "off", allowed |-> TRUE,
         pilot |-> FALSE, pack |-> "own", rules |-> "rules_db", runbook |-> "none",
         agents |-> {}, mcp |-> FALSE, threshold |-> 0]
Settings ==
    {[Base EXCEPT !.threshold = 70],
     [Base EXCEPT !.harness = TRUE, !.agents = {"own"}],
     [Base EXCEPT !.harness = TRUE, !.mcp = TRUE, !.pilot = TRUE],
     [Base EXCEPT !.harness = TRUE, !.agents = {"default"}, !.mode = "serve",
                  !.allowed = FALSE, !.runbook = "unchanged"],
     [Base EXCEPT !.filter = TRUE, !.mode = "shadow", !.runbook = "unchanged"],
     [Base EXCEPT !.mode = "serve", !.runbook = "changed"],
     [Base EXCEPT !.mode = "serve", !.runbook = "unreadable"],
     [Base EXCEPT !.mode = "serve", !.runbook = "unchanged", !.pack = "_default"]}

(* The log fetch: what the cluster and Elasticsearch hold *)
Calm == [match |-> <<<<p1, p2>>, <<p3>>>>, pending |-> {}, restarted |-> {}, newer |-> {},
         late |-> {}, holds |-> {p1, p3}, maxPods |-> 2, maxTotal |-> 0,
         garbled |-> FALSE, anchored |-> TRUE, docs |-> 0,
         chain |-> <<"kubernetes", "elastic">>]
Worlds ==
    {[Calm EXCEPT !.restarted = {p1}, !.docs = 3],
     [Calm EXCEPT !.late = {p3}, !.newer = {p1}, !.pending = {p2}, !.docs = 5],
     [Calm EXCEPT !.match = <<<<p1, p2>>, <<p2, p3>>>>, !.late = {p2, p3},
                  !.maxTotal = 2, !.anchored = FALSE, !.garbled = TRUE],
     [Calm EXCEPT !.match = <<<<p1, p2, p3>>>>, !.docs = 2],
     [Calm EXCEPT !.match = <<<<p1, p2>>, <<p3>>>>, !.maxTotal = 2],
     [Calm EXCEPT !.holds = {}, !.match = <<<<p1>>>>, !.chain = <<"kubernetes">>],
     [Calm EXCEPT !.match = <<<<p2>>>>, !.docs = 3, !.chain = <<"elastic", "kubernetes">>]}

FewWorlds == {[Calm EXCEPT !.restarted = {p1}, !.docs = 3],
              [Calm EXCEPT !.match = <<<<p1>>>>, !.late = {p1}, !.docs = 5]}

(* The reduction: lines of a trace *)
L(l, t, h, d) == [level |-> l, template |-> t, hit |-> h, decides |-> d]
Lines == {L("DEBUG", "a", TRUE, FALSE), L("INFO", "a", TRUE, TRUE), L("INFO", "a", FALSE, TRUE),
          L("WARN", "b", FALSE, FALSE), L("ERROR", "b", TRUE, FALSE)}

(* The DLT finding: stack traces, the logs beside them, the ceilings *)
LineKinds == [opens : BOOLEAN, context : BOOLEAN, level : {"ERROR", "WARN"},
              names : {"root", "other", "chain"}]
Reads(ls, gap) == [kind |-> "lines", lines |-> ls, gap |-> gap]
FirstTexts ==
    {[kind |-> k, lines |-> <<>>, gap |-> FALSE] : k \in {"unread", "empty"}}
    \cup {Reads(<<a, b>>, FALSE) : a, b \in {l \in LineKinds : l.context => l.opens}}
Naming(n) == [opens |-> TRUE, context |-> FALSE, level |-> "ERROR", names |-> n]
LaterTexts ==
    {NoText, Reads(<<Naming("root")>>, TRUE), Reads(<<Naming("root")>>, FALSE),
     Reads(<<Naming("other")>>, FALSE)}
FewTexts == {NoText, Reads(<<Naming("root")>>, FALSE), Reads(<<Naming("other")>>, FALSE)}
Traces ==
    [parsed : {TRUE}, root : {"business", "other"}, code : {TRUE}, mentions : BOOLEAN,
     catalogC : BOOLEAN, known : {TRUE}]
    \cup [parsed : {TRUE}, root : {"defect", "technical", "mapped"}, code : {FALSE},
          mentions : {FALSE}, catalogC : {FALSE}, known : {FALSE}]
    \cup [parsed : {FALSE}, root : {"other"}, code : BOOLEAN, mentions : {FALSE},
          catalogC : {FALSE}, known : {FALSE}]
FewTraces == {t \in Traces : t.root = "business" /\ t.mentions}
DltCeilings ==
    [l \in Labels |-> CASE l \in {"class_b", "class_u"} -> 30
                        [] l \in {"logs_unavailable", "unreviewed"} -> 95
                        [] l \in {"logs_silent", "contradicted", "evidence_gap"} -> 60
                        [] l = "registry_miss" -> 50]

-----------------------------------------------------------------------------
vars == <<part, graphVars, cacheVars, callVars, fetchVars, reduceVars, findingVars>>

(* Parts that are not picked start in one state only *)
Init ==
    /\ part \in Parts
    /\ GraphInit /\ (part # "graph" => env = CHOOSE s \in Setting : TRUE)
    /\ CacheInit /\ (part # "cache" => up)
    /\ CallsInit
    /\ FetchInit /\ (part # "fetch" => world = CHOOSE w \in World : TRUE)
    /\ FindingInit /\ (part # "finding" => trace2 = CHOOSE t \in Trace : TRUE)
    /\ ReduceInit /\ (part # "reduce" => input = <<L("INFO", "a", TRUE, TRUE)>>)

(* The parts that have fairness; the reduction of the logs is stepped where *)
(* all parts are checked side by side                                       *)
Next ==
    \/ /\ part = "graph" /\ GraphNext
       /\ UNCHANGED <<part, cacheVars, callVars, fetchVars, reduceVars, findingVars>>
    \/ /\ part = "cache" /\ CacheNext
       /\ UNCHANGED <<part, graphVars, callVars, fetchVars, reduceVars, findingVars>>
    \/ /\ part = "calls" /\ CallsNext
       /\ UNCHANGED <<part, graphVars, cacheVars, fetchVars, reduceVars, findingVars>>
    \/ /\ part = "fetch" /\ FetchNext
       /\ UNCHANGED <<part, graphVars, cacheVars, callVars, reduceVars, findingVars>>
    \/ /\ part = "finding" /\ FindingNext
       /\ UNCHANGED <<part, graphVars, cacheVars, callVars, fetchVars, reduceVars>>

(* Threads are scheduled: what can go on goes on, and a thread waiting for *)
(* a lock or a slot that is freed again and again is given it.  Packets    *)
(* keep arriving and the prompt server answers some of them; timeouts and  *)
(* retry intervals pass.                                                   *)
Thread(t, first, second) == IF t = 1 THEN first ELSE second
moving == CASE part = "graph" -> graphVars [] part = "cache" -> cacheVars
            [] part = "calls" -> callVars [] part = "fetch" -> fetchVars
            [] part = "finding" -> findingVars [] part = "reduce" -> reduceVars
GoesOn(t) ==
    /\ UNCHANGED part
    /\ \/ part = "graph" /\ t = 1 /\ GraphStep(r1)
       \/ part = "cache" /\ CacheStep(Thread(t, p1, p2))
       \/ part = "calls" /\ CallStep(Thread(t, c1, c2))
       \/ part = "fetch" /\ t = 1 /\ FetchStep
       \/ part = "finding" /\ t = 1 /\ FindingStep
IsGranted(t) ==
    /\ UNCHANGED part
    /\ \/ part = "cache" /\ Lock(Thread(t, p1, p2))
       \/ part = "calls" /\ AcquireSlot(Thread(t, c1, c2))
Arrives(t) == part = "calls" /\ Admit(Thread(t, c1, c2)) /\ UNCHANGED part
IsFetched(t) ==
    LET p == Thread(t, p1, p2) IN
    part = "cache" /\ Fetch(p) /\ pc'[p] = "fetched" /\ UNCHANGED part
TimePasses ==
    /\ UNCHANGED part
    /\ \/ part = "cache" /\ RetryDue
       \/ part = "calls" /\ Elapse
       \/ part = "fetch" /\ Deadline

Fairness ==
    /\ \A t \in 1..2 : /\ WF_moving(GoesOn(t)) /\ SF_moving(IsGranted(t))
                       /\ WF_moving(Arrives(t)) /\ SF_moving(IsFetched(t))
    /\ WF_moving(TimePasses)

Spec == Init /\ [][Next]_vars
FairSpec == Spec /\ Fairness

(* Every investigation ends: the graph's run, each of its agent calls, its *)
(* fetch although pod reads hang, and a DLT case however often it is       *)
(* rejected.                                                               *)
EveryInvestigationEnds == RunEnds /\ AgentCallsEnd /\ FetchEnds /\ CaseConcludes

(* An outage costs the packets that meet it and no later ones: tools come  *)
(* back, new prompts are taken up and the circuit is tried again without a *)
(* restart.                                                                *)
OutagesPass == ToolsReturn /\ PromptsCatchUp /\ CircuitTriedAgain
=============================================================================
