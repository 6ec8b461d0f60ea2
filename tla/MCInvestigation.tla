--------------------------- MODULE MCInvestigation ---------------------------
(***************************************************************************)
(* MCAgents with two more parts beside its own: which service a packet     *)
(* belongs to, and what its agents are told of the rule.                   *)
(***************************************************************************)
EXTENDS MCAgents, ServiceRouting, RuleContext

CONSTANTS q1, q2

(* The configuration gives runs, calls and requests, of which a behaviour  *)
(* moves one kind only, the same two names: they are interchangeable.      *)
Symmetry == Permutations(Runs)

(* Routing: deliveries, the evidence each carries and the gate's settings *)
Requests == {q1, q2}
Shows(by) == [x \in Sources3 |-> IF x \in DOMAIN by THEN by[x] ELSE {}]
Case3(lane, enforce, default, by) ==
    [lane |-> lane, enforce |-> enforce, defaultPack |-> default, evidence |-> Shows(by)]
Both == {"bio", "demo"}
SomeCases ==
    {Case3("rejection", TRUE, FALSE, [stage |-> Both]),
     Case3("rejection", FALSE, FALSE, [topic |-> {"demo"}]),
     Case3("rejection", TRUE, TRUE, [topic |-> Both]),
     Case3("dlt", TRUE, FALSE, [group |-> Both, package |-> {"bio"}, topic |-> {"demo"}]),
     Case3("dlt", FALSE, FALSE, [original |-> {}])}
SomeListings == {{}, {"bio"}, {"old"}}

(* The rule: what the table and the files hold, and the packets *)
InOrder == <<"f1", "f2">>
SomeTables == {{}, {"N", "U", "any"}}
Written == {[file |-> "none", kind |-> "code", type |-> "any"],
            [file |-> "none", kind |-> "rule", type |-> "U"]}
SomeDocuments == {Torn, {}, Written}
SomeStores == {[f \in File7 |-> IF f = "f1" THEN Torn ELSE Written],
               [f \in File7 |-> IF f = "f1" THEN Written ELSE {}]}
Subject7(type, own, rulesDb, size, runbook) ==
    [type |-> type, own |-> own, rulesDb |-> rulesDb, logs |-> size, runbook |-> runbook]
SomeSubjects ==
    {[p \in Packet7 |-> IF p = "p1" THEN s ELSE Subject7("U", "f2", TRUE, 0, TRUE)] :
        s \in {Subject7("N", "f2", TRUE, 200, FALSE), Subject7("none", "none", FALSE, 30, FALSE)}}
    \cup {[p \in Packet7 |-> IF p = "p1" THEN Subject7("N", "f2", TRUE, 200, FALSE)
                            ELSE Subject7("U", "none", TRUE, 0, TRUE)]}

-----------------------------------------------------------------------------
caseVars3 == <<routingVars, contextVars>>

InitAll ==
    /\ Init
    /\ RoutingInit
    /\ part # "routing" => /\ packet3 = CHOOSE c \in Cases3 : TRUE
                           /\ docs3.good = {}
    /\ ContextInit
    /\ part # "rules" => /\ table7 = {} /\ store7["f1"].content = Torn
                         /\ run7["p1"].subject.rulesDb /\ run7["p2"].subject.own = "f2"

NextAll ==
    \/ Next /\ UNCHANGED caseVars3
    \/ /\ part = "reduce" /\ ReduceNext
       /\ UNCHANGED <<part, graphVars, cacheVars, callVars, fetchVars, findingVars, caseVars3>>
    \/ part = "routing" /\ RoutingNext /\ UNCHANGED <<vars, contextVars>>
    \/ part = "rules" /\ ContextNext /\ UNCHANGED <<vars, routingVars>>

SpecAll == InitAll /\ [][NextAll]_<<vars, caseVars3>>

(* A verdict is final: a run whose packet was recorded as timed out begins *)
(* no call that queues a replay or a rule from then on, and a fetch that   *)
(* read the packet's status before its verdict does not reopen it.         *)
VerdictIsFinal == [][AbandonedBeginsNoAct /\ VerdictSurvivesFetch]_<<vars, caseVars3>>
=============================================================================
