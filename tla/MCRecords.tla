------------------------------ MODULE MCRecords ------------------------------
(***************************************************************************)
(* What is kept of the cases and who changes it, for TLC: the DLT cases    *)
(* and their replays, the group documents in the store, the files and      *)
(* rules that outlive a case, and what the agents' tools read.  A          *)
(* behaviour picks one part and moves only that one.                       *)
(***************************************************************************)
EXTENDS DltCase, DltReplay, CaseStore, Knowledge, ProcessDb

CONSTANTS d1, d2, w1, w2
CONSTANT Parts      \* the parts to move
VARIABLE part

Refs == {d1, d2}
(* The interchangeable actors of a part: analysis workers, release workers *)
(* or pods                                                                 *)
Actors == {w1, w2}
Symmetry == Permutations(Actors)
Twice == [d \in Refs |-> IF d = d1 THEN 2 ELSE 1]

(* Findings the gate lets through, reviewed or not; and one where listings *)
(* are cached and nothing is parked                                        *)
Good == [action |-> "REDRIVE", confidence |-> "enough", unverified |-> FALSE,
         unreviewed |-> FALSE, ref |-> TRUE, gates |-> TRUE, parks |-> TRUE,
         caches |-> FALSE]
SomeFindings == {Good, [Good EXCEPT !.unreviewed = TRUE],
                 [Good EXCEPT !.parks = FALSE, !.caches = TRUE]}

(* The object stores there are: which conditional writes each accepts *)
SomeEndpoints ==
    {[backend |-> "s3", accepts |-> {"quoted", "bare"}, pinned |-> "auto"],
     [backend |-> "s3", accepts |-> {"bare"}, pinned |-> "auto"],
     [backend |-> "s3", accepts |-> {}, pinned |-> "auto"],
     [backend |-> "s3", accepts |-> {"quoted"}, pinned |-> "bare"],
     [backend |-> "local", accepts |-> {}, pinned |-> "auto"]}

(* The helper record the candidates come from: engine, candidate, score *)
Matched(m) == [shape |-> "matches", matches |-> m]
SomeRecords ==
    {[shape |-> "absent"], [shape |-> "other"], Matched(<<>>)}
    \cup {Matched(<<<<"x", "c1", a>>, <<"x", "c2", b>>, <<"y", "c1", c>>, <<"y", "c3", 1>>>>) :
             a \in {0, 2}, b \in {0, 1}, c \in {0, 2}}
    \cup {Matched(<<<<"x", "c1", a>>, <<"x", "c2", 1>>, <<"x", "c3", b>>, <<"y", "c4", 2>>>>) :
             a, b \in {0, 2}}

-----------------------------------------------------------------------------
vars == <<part, caseVars, replayVars, storeVars, knowledgeVars, processDbVars>>

(* Parts that are not picked start in one state only.  On the local        *)
(* backend each refId is delivered once, crashes apart, and only there is  *)
(* a service switched off.                                                 *)
Init ==
    /\ part \in Parts
    /\ CaseInit /\ (backend = "s3" => ~gated) /\ (part # "case" => backend = "s3")
    /\ inbox = (IF backend = "s3" THEN Deliveries ELSE [d \in Refs |-> 1])
    /\ ReplayInit
    /\ IF part = "replay" THEN baseline = {} => finding = Good
       ELSE finding = Good /\ baseline = {1} /\ listed = [f \in Listing |-> Unlisted]
    /\ StoreInit /\ (part # "store" => endpoint.backend = "local")
    /\ KnowledgeInit /\ (part # "knowledge" => topic5 = "rules" /\ local5)
    /\ ProcessDbInit /\ (part # "lookups" => tool6 = "stages" /\ enabled6)

(* Bounds: as above, and where listings are cached the packet is analysed  *)
(* once; other packets' analyses list files around it.                     *)
GatedLocallyOnly == backend = "s3" => ~gated'
CachedAnalysedOnce == finding.caches /\ place' = "failed" => analyses' = 0

Next ==
    \/ /\ part = "case" /\ CaseNext /\ GatedLocallyOnly
       /\ UNCHANGED <<part, replayVars, storeVars, knowledgeVars, processDbVars>>
    \/ /\ part = "replay" /\ ReplayNext /\ CachedAnalysedOnce
       /\ UNCHANGED <<part, caseVars, storeVars, knowledgeVars, processDbVars>>
    \/ /\ part = "store" /\ StoreNext
       /\ UNCHANGED <<part, caseVars, replayVars, knowledgeVars, processDbVars>>
    \/ /\ part = "knowledge" /\ KnowledgeNext
       /\ UNCHANGED <<part, caseVars, replayVars, storeVars, processDbVars>>
    \/ /\ part = "lookups" /\ ProcessDbNext
       /\ UNCHANGED <<part, caseVars, replayVars, storeVars, knowledgeVars>>

Spec == Init /\ [][Next]_vars

(* What is on record stands: no step hides a DLT verdict, prunes or reaps  *)
(* a casebook's record or its outcome, replaces a runbook by one of no     *)
(* higher version, or drops a proposed rule.                               *)
RecordsStand ==
    [][/\ SettledStaysSettled /\ PrunerKeepsOutcome /\ RecordNotReaped
       /\ VersionsGrow /\ NoRuleLost]_vars
=============================================================================
