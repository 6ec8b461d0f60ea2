----------------------------- MODULE DltFinding -----------------------------
(***************************************************************************)
(* How the finding of a dead-lettered record is made: classified           *)
(* (src/dlt/classify.py), compared with the logs (src/dlt/corroborate.py), *)
(* answered from a fixed text, from the group or by the three agents       *)
(* (src/dlt/reuse.py, src/dlt/canned.py, src/dlt/orchestrator.py), capped  *)
(* (src/models/dlt_synthesis.py), kept for the group when it holds nothing *)
(* of the packet (src/dlt/per_code.py), and judged for a replay            *)
(* (src/dlt/auto_replay.py).                                               *)
(*                                                                         *)
(* Occurrences of one failure follow each other; they share the trace and  *)
(* the group and differ in their logs.  What the model writes is any       *)
(* finding its contract allows.                                            *)
(***************************************************************************)
EXTENDS Integers, Sequences, FiniteSets, FiniteSetsExt

CONSTANTS Trace,          \* the traces to try
          Text, LaterText,  \* the logs to try, of the first and of later occurrences
          Ceiling,        \* label -> the most confidence it leaves
          Decay,          \* DLT_REUSE_DECAY, in percent
          Threshold,      \* DLT_REPLAY_CONFIDENCE_THRESHOLD, in percent
          DltMaxReviews,  \* DLT_MAX_INVESTIGATION_RETRIES
          MaxOccurrences  \* bound: occurrences of the failure

Labels == {"class_b", "class_u", "logs_unavailable", "logs_silent", "contradicted",
           "registry_miss", "unreviewed", "evidence_gap"}

(* The logs of an occurrence, as the comparison reads them: a line opens a *)
(* record or continues one, is context around the packet's own, and names  *)
(* the declared root, its code, a link of the chain or another exception.  *)
LogLine == [opens : BOOLEAN, context : BOOLEAN, level : {"ERROR", "WARN", "OTHER"},
            names : {"root", "code", "chain", "other", "none"}]
LogText == [kind : {"unread", "empty", "lines"}, lines : Seq(LogLine), gap : BOOLEAN]

ASSUME FindingAssumption ==
    /\ Text \cup LaterText \subseteq LogText
    /\ Trace \subseteq [parsed : BOOLEAN, root : {"business", "defect", "technical", "mapped", "other"},
                        code : BOOLEAN, mentions : BOOLEAN, catalogC : BOOLEAN, known : BOOLEAN]
    /\ Ceiling \in [Labels -> 0..100] /\ {Decay, Threshold} \subseteq 0..100
    /\ DltMaxReviews \in Nat \ {0} /\ MaxOccurrences \in Nat

VARIABLES
    trace2,     \* the parsed stack trace, its code and what the catalog says of it
    text,       \* the fetched logs
    stage2,     \* where the case is
    verdict,    \* what the logs say of the trace
    attempt,    \* investigations made
    approved,   \* the investigations the Reviewer approved
    reviews, feedback,
    finding2,   \* the finding, NoFinding before there is one
    provenance,
    group2,     \* the recommendation on file
    occurrences

findingVars == <<trace2, text, stage2, verdict, attempt, approved, reviews, feedback,
                 finding2, provenance, group2, occurrences>>
case2 == <<trace2, text, verdict, occurrences>>
loop == <<attempt, approved, reviews, feedback>>

NoFinding == [action |-> "none", confidence |-> -1, discrepancy |-> FALSE, reviewed |-> "none",
              labels |-> {}, identifier |-> FALSE, from |-> 0]
NoText == [kind |-> "unread", lines |-> <<>>, gap |-> FALSE]
NoVerdict == [says |-> "none", blind |-> FALSE]

FindingTypeOK ==
    /\ stage2 \in {"idle", "new", "corroborated", "investigate", "review", "routed", "synthesise", "repair",
                   "policy", "share", "judged", "failed", "abandoned"}
    /\ reviews \in 0..DltMaxReviews /\ approved \subseteq 1..attempt
    /\ verdict.says \in {"none", "CORROBORATED", "PARTIAL", "CONTRADICTED", "UNVERIFIABLE"}
    /\ finding2.confidence \in -1..100

FindingInit ==
    /\ trace2 \in Trace /\ text = NoText
    /\ stage2 = "idle" /\ verdict = NoVerdict
    /\ attempt = 0 /\ approved = {} /\ reviews = 0 /\ feedback = "none"
    /\ finding2 = NoFinding /\ provenance = "none" /\ group2 = NoFinding /\ occurrences = 0

-----------------------------------------------------------------------------
(* classify *)

ByCatalog(t) == IF t.catalogC THEN "C" ELSE "A"

ClassOf(t) ==
    CASE ~t.parsed -> IF t.code THEN ByCatalog(t) ELSE "U"
      [] t.parsed /\ t.root = "business" -> IF t.code THEN ByCatalog(t) ELSE "A"
      [] t.parsed /\ t.root = "defect" -> "B"
      [] t.parsed /\ t.root = "technical" -> "C"
      [] t.parsed /\ t.root = "mapped" -> "A"
      [] t.parsed /\ t.root = "other" -> IF t.code /\ t.mentions THEN ByCatalog(t) ELSE "U"

-----------------------------------------------------------------------------
(* corroborate *)

Scanned(ls) == {i \in 1..Len(ls) : ls[i].level \in {"ERROR", "WARN"}}

(* Variant: the mark is looked for on the line itself. *)
AttributedByLine(ls, i) == ~ls[i].context

(* _scan_lines: a continuation inherits its opener's mark. *)
Attributed(ls, i) ==
    LET openers == {j \in 1..i : ls[j].opens} IN openers = {} \/ ~ls[Max(openers)].context

Matched(ls) == \E i \in Scanned(ls) : ls[i].names \in {"root", "code"}

Unexplained(ls) ==
    \E i \in Scanned(ls) : Attributed(ls, i) /\ ls[i].level = "ERROR" /\ ls[i].names = "other"

Reading(x) ==
    LET ls == x.lines IN
    CASE x.kind = "unread" -> [says |-> "UNVERIFIABLE", blind |-> TRUE]
      [] x.kind = "empty" \/ (x.kind = "lines" /\ Scanned(ls) = {}) ->
            [says |-> "UNVERIFIABLE", blind |-> FALSE]
      [] OTHER -> [blind |-> FALSE,
                   says |-> IF Matched(ls)
                            THEN IF Unexplained(ls) THEN "PARTIAL" ELSE "CORROBORATED"
                            ELSE IF Unexplained(ls) THEN "CONTRADICTED" ELSE "UNVERIFIABLE"]

Disagrees(v) == v.says \in {"CONTRADICTED", "PARTIAL"}

Corroborate ==
    /\ stage2 = "new" /\ stage2' = "corroborated"
    /\ verdict' = Reading(text)
    /\ UNCHANGED <<trace2, text, loop, finding2, provenance, group2, occurrences>>

-----------------------------------------------------------------------------
(* The treatment; what is read of the logs from here on is whether they    *)
(* carry the banner of an evidence gap.                                    *)

Forget == text' = [text EXCEPT !.lines = <<>>]

(* canned.build: a fixed text, without a confidence. *)
Canned ==
    /\ stage2 = "corroborated" /\ ClassOf(trace2) # "A"
    /\ Forget /\ stage2' = "policy" /\ provenance' = "canned"
    /\ finding2' = [NoFinding EXCEPT !.action = CASE ClassOf(trace2) = "C" -> "REDRIVE"
                                                  [] ClassOf(trace2) = "B" -> "ROUTE_TO_DEV"
                                                  [] ClassOf(trace2) = "U" -> "MANUAL",
                                     !.discrepancy = Disagrees(verdict)]
    /\ UNCHANGED <<trace2, verdict, loop, group2, occurrences>>

Reuses == ClassOf(trace2) = "A" /\ ~Disagrees(verdict) /\ group2 # NoFinding

ReuseGroup ==
    /\ stage2 = "corroborated" /\ Reuses
    /\ Forget /\ stage2' = "policy" /\ provenance' = "group_reuse" /\ finding2' = group2
    /\ UNCHANGED <<trace2, verdict, loop, group2, occurrences>>

RunAgents ==
    /\ stage2 = "corroborated" /\ ClassOf(trace2) = "A" /\ ~Reuses
    /\ Forget /\ stage2' = "investigate" /\ provenance' = "agent"
    /\ attempt' = 0 /\ approved' = {} /\ reviews' = 0 /\ feedback' = "none"
    /\ UNCHANGED <<trace2, verdict, finding2, group2, occurrences>>

-----------------------------------------------------------------------------
(* The agents.  A harness that fails falls back to a direct call. *)

IsRetry == feedback = "rejected"

InvestigateTrace ==
    /\ stage2 = "investigate" /\ stage2' = "review"
    /\ attempt' = attempt + 1
    /\ UNCHANGED <<case2, approved, reviews, feedback, finding2, provenance, group2>>

(* A harness verdict of REJECTED may come without any feedback. *)
Review ==
    /\ stage2 = "review" /\ stage2' = "routed"
    /\ feedback' \in {"APPROVED", "rejected", "empty"}
    /\ reviews' = reviews + 1
    /\ approved' = (IF feedback' = "APPROVED" THEN approved \cup {attempt} ELSE approved)
    /\ UNCHANGED <<case2, attempt, finding2, provenance, group2>>

(* Variant: only a rejection the Investigator can act on is counted. *)
ReviewDecisionOnFeedback ==
    IF feedback = "APPROVED" THEN "approved"
    ELSE IF reviews >= DltMaxReviews /\ IsRetry THEN "exhausted" ELSE "retry"

DltReviewDecision ==
    IF feedback = "APPROVED" THEN "approved"
    ELSE IF reviews >= DltMaxReviews THEN "exhausted" ELSE "retry"

(* Variant: the graph has no edge for a case that is out of reviews. *)
CheckApprovalNoEdge ==
    /\ stage2 = "routed" /\ DltReviewDecision # "exhausted"
    /\ stage2' = (IF DltReviewDecision = "retry" THEN "investigate" ELSE "synthesise")
    /\ UNCHANGED <<case2, loop, finding2, provenance, group2>>

(* check_approval: a case that is out of reviews is synthesised anyway. *)
CheckApproval ==
    /\ stage2 = "routed"
    /\ stage2' = (IF DltReviewDecision = "retry" THEN "investigate" ELSE "synthesise")
    /\ UNCHANGED <<case2, loop, finding2, provenance, group2>>

(* Variant: what reaches the synthesis was approved, as its edge says. *)
StampApproved == "yes"

(* stamped: read from the last feedback, whatever the edge was called. *)
Stamp == IF feedback = "APPROVED" THEN "yes" ELSE "no"

Replies == [action : {"REDRIVE", "OTHER"}, confidence : {-1, 50, 100}, discrepancy : BOOLEAN,
            reviewed : {Stamp}, labels : {{}}, identifier : BOOLEAN, from : {attempt}]

(* A reply that breaks the contract is repaired once. *)
Synthesise ==
    /\ \/ /\ stage2 \in {"synthesise", "repair"} /\ stage2' = "policy"
          /\ finding2' \in Replies /\ UNCHANGED provenance
       \/ /\ stage2 = "synthesise" /\ stage2' = "repair"
          /\ UNCHANGED <<finding2, provenance>>
       \/ /\ stage2 = "repair" /\ stage2' = "policy" /\ provenance' = "failed_synthesis"
          /\ finding2' = [NoFinding EXCEPT !.action = "MANUAL", !.confidence = 0]
    /\ UNCHANGED <<case2, attempt, approved, reviews, feedback, group2>>

InRun == stage2 \in {"investigate", "review", "synthesise", "repair"}

(* A model call fails for good: the request fails. *)
DltModelFails ==
    /\ InRun /\ stage2' = "failed"
    /\ UNCHANGED <<case2, loop, finding2, provenance, group2>>

(* The budget is spent: the run is cancelled and refuses its next node. *)
AbandonFinding ==
    /\ InRun /\ stage2' = "abandoned"
    /\ UNCHANGED <<case2, loop, finding2, provenance, group2>>

-----------------------------------------------------------------------------
(* apply_dlt_confidence_policy *)

Triggered(f) ==
    {l \in Labels :
        \/ l = "class_b" /\ ClassOf(trace2) = "B"
        \/ l = "class_u" /\ ClassOf(trace2) = "U"
        \/ l = "logs_unavailable" /\ verdict.says = "UNVERIFIABLE" /\ verdict.blind
        \/ l = "logs_silent" /\ verdict.says = "UNVERIFIABLE" /\ ~verdict.blind
        \/ l = "contradicted" /\ verdict.says = "CONTRADICTED"
        \/ l = "registry_miss" /\ ClassOf(trace2) = "A" /\ ~trace2.known
        \/ l = "unreviewed" /\ f.reviewed = "no"
        \/ l = "evidence_gap" /\ text.gap}

Ceiled(f) ==
    IF f.confidence = -1 THEN -1
    ELSE LET own == IF provenance = "group_reuse" THEN (f.confidence * Decay) \div 100 ELSE f.confidence
         IN Min({own, 100} \cup {Ceiling[l] : l \in Triggered(f)})

Routed(f) ==
    IF ClassOf(trace2) \in {"B", "U"} /\ f.action \notin {"MANUAL", "ROUTE_TO_DEV"}
    THEN "MANUAL" ELSE f.action

(* Variant: the discrepancy is the model's to fill in. *)
ApplyPolicyTrusting(f) ==
    [f EXCEPT !.confidence = Ceiled(f), !.labels = Triggered(f), !.action = Routed(f)]

ApplyPolicy(f) ==
    [f EXCEPT !.confidence = Ceiled(f), !.labels = Triggered(f), !.action = Routed(f),
              !.discrepancy = @ /\ Disagrees(verdict)]

Policy ==
    /\ stage2 = "policy" /\ stage2' = "share"
    /\ finding2' = ApplyPolicy(finding2)
    /\ UNCHANGED <<case2, loop, provenance, group2>>

(* Variant: any finding of the agents is kept for the next occurrence. *)
ShareableAny == provenance = "agent"

(* per_code.check, and no sharing of a finding about a discrepancy *)
Shareable == provenance = "agent" /\ ~Disagrees(verdict) /\ ~finding2.identifier

(* attach_recommendation, which may fail *)
Share ==
    /\ stage2 = "share" /\ stage2' = "judged"
    /\ group2' \in {group2} \cup (IF Shareable THEN {finding2} ELSE {})
    /\ UNCHANGED <<case2, loop, finding2, provenance>>

(* auto_replay.decide, before the refId and the code check *)
Unverified(f) == f.labels \cap {"logs_unavailable", "logs_silent"} # {}

ReplayWorthy(f) ==
    /\ f.action = "REDRIVE" /\ f.confidence # -1 /\ f.confidence >= Threshold
    /\ ~Unverified(f) /\ "unreviewed" \notin f.labels

(* A record of the failure; a recommendation is served whoever made  *)
(* it, so what was approved goes with it.                                  *)
NextOccurrence ==
    /\ stage2 \in {"idle", "judged", "failed", "abandoned"} /\ occurrences < MaxOccurrences
    /\ occurrences' = occurrences + 1 /\ stage2' = "new"
    /\ text' \in (IF occurrences = 0 THEN Text ELSE LaterText) /\ verdict' = NoVerdict
    /\ finding2' = NoFinding /\ provenance' = "none"
    /\ UNCHANGED <<trace2, loop, group2>>

FindingNext ==
    \/ Corroborate \/ Canned \/ ReuseGroup \/ RunAgents \/ InvestigateTrace \/ Review \/ CheckApproval
    \/ Synthesise \/ DltModelFails \/ AbandonFinding \/ Policy \/ Share \/ NextOccurrence

FindingSpec == FindingInit /\ [][FindingNext]_findingVars

FindingStep == Corroborate \/ Canned \/ ReuseGroup \/ RunAgents \/ InvestigateTrace \/ Review
               \/ CheckApproval \/ Synthesise \/ Policy \/ Share

-----------------------------------------------------------------------------

OwnLines(ls) ==
    LET keep == {i \in 1..Len(ls) : \A j \in 1..i :
                    ls[j].opens /\ (\A k \in j + 1..i : ~ls[k].opens) => ~ls[j].context}
    IN [i \in 1..Cardinality(keep) |-> ls[CHOOSE k \in keep : Cardinality({j \in keep : j <= k}) = i]]

(* What a busy pod wrote about other packets never accuses this one's      *)
(* trace: the logs disagree with it exactly when they would with every     *)
(* record that does not carry the packet's identifier taken away, records  *)
(* that run over several lines included.                                   *)
NeighboursDoNotAccuse ==
    stage2 = "corroborated" /\ text.kind = "lines" =>
        (Disagrees(verdict) <=> Disagrees(Reading([text EXCEPT !.lines = OwnLines(text.lines)])))

(* A replay is earned: the finding that passes the gate was written by the *)
(* agents, in this or an earlier occurrence, from an investigation their   *)
(* Reviewer approved, and the logs of this very occurrence bear it out,    *)
(* whatever the ceilings are set to.                                       *)
ReplayEarned ==
    stage2 = "judged" /\ ReplayWorthy(finding2) =>
        /\ finding2.from > 0 /\ finding2.reviewed = "yes"
        /\ provenance = "agent" => finding2.from \in approved
        /\ verdict.says # "UNVERIFIABLE"

(* A casebook says its logs disagreed with its trace only when they did: a *)
(* recommendation made for another occurrence does not carry that one's    *)
(* discrepancy along.                                                      *)
DiscrepancyIsOwn ==
    stage2 \in {"share", "judged"} /\ finding2.discrepancy => Disagrees(verdict)

(* What one packet's finding tells another is about their failure: it      *)
(* holds no identifier of the packet it was made for, and was not made     *)
(* from logs that contradicted that packet's trace.                        *)
ReuseIsShareable ==
    provenance = "group_reuse" =>
        ~finding2.identifier /\ "contradicted" \notin group2.labels /\ ~group2.discrepancy

(* Every occurrence is concluded: with a finding, or failed or abandoned,  *)
(* however often the Reviewer rejects and whatever it leaves unsaid.       *)
CaseConcludes == (stage2 = "new") ~> (stage2 \in {"judged", "failed", "abandoned"})

(* A finding rests on its own occurrence's evidence, although neighbours   *)
(* share its logs and other occurrences its recommendation, and a replay   *)
(* only on an approved investigation.                                      *)
FindingIsSound ==
    /\ FindingTypeOK /\ NeighboursDoNotAccuse /\ ReplayEarned
    /\ DiscrepancyIsOwn /\ ReuseIsShareable

=============================================================================
