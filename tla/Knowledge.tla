----------------------------- MODULE Knowledge -----------------------------
(***************************************************************************)
(* What outlives an investigation, and the tools operators run on it while *)
(* the service works: casebooks and the verdicts recorded on them          *)
(* (src/utils/outcomes.py), their pruning (src/tools/prune_casesheets.py)  *)
(* and reaping (src/utils/case_cleanup.py), the runbooks drafted from them *)
(* (src/tools/build_runbooks.py), promoted (src/tools/promote_runbooks.py) *)
(* and served (src/utils/runbook_store.py), and the rules reviewers        *)
(* propose (src/tools/promote_rules.py).                                   *)
(*                                                                         *)
(* One service, reason code and enrolment type.  A text is a number; rule  *)
(* fingerprints are revisions of the rule.                                 *)
(***************************************************************************)
EXTENDS Integers, FiniteSets

CONSTANTS Event5,        \* events investigated
          LearningRule,  \* rules that reviewers propose
          Tool,          \* operators at a promotion tool
          MinSamples,    \* --min-samples
          MaxTexts,      \* bound: drafts written or edited
          MaxRevisions,  \* bound: changes of the rule
          MaxDeaths      \* bound: tools killed

ASSUME KnowledgeAssumption ==
    /\ MinSamples \in Nat \ {0} /\ {MaxTexts, MaxRevisions, MaxDeaths} \subseteq Nat

VARIABLES
    topic5,     \* what a behaviour is about: files, runbooks or rules
    local5,     \* the casebooks are kept on this disk
    disk,       \* the files of each event's directory
    aged,       \* directories not written to for long
    deleter,    \* the pruner's and the reaper's choice, between looking and deleting
    raced,      \* events written to in between
    judged,     \* events a verdict was recorded for
    judging,    \* an event whose casebook record_outcome has loaded
    rule5,      \* the rule's revision
    builder,    \* build_runbooks: the binding it has read
    draft, final,       \* the runbook files
    shown,      \* promote_runbooks: the draft shown to the operator, and the version it replaces
    dirty,      \* uncommitted changes
    cache5, served5,    \* the service's cached runbook, and the last one served
    accepted,   \* texts an operator has accepted
    texts,
    pending, learned,   \* pending_rules.jsonl; how often each rule was appended to a prompt
    promoter,   \* promote_rules: each tool's place, lines read and rules promoted
    torn, deaths

fileVars == <<disk, aged, deleter, raced, judged, judging>>
bookVars == <<rule5, builder, draft, final, shown, cache5, served5, accepted, texts>>
ruleVars == <<pending, learned, promoter, torn>>
knowledgeVars == <<topic5, local5, fileVars, bookVars, ruleVars, dirty, deaths>>

None5 == [text |-> 0, binding |-> 0, version |-> 0]
NoTool == [at |-> "idle", lines |-> {}, done |-> {}]

KnowledgeTypeOK ==
    /\ disk \in [Event5 -> SUBSET {"status", "casebook", "logs", "outcome"}]
    /\ pending \subseteq LearningRule /\ learned \in [LearningRule -> Nat]
    /\ \A t \in Tool : promoter[t].done \subseteq promoter[t].lines

KnowledgeInit ==
    /\ topic5 \in {"files", "runbooks", "rules"} /\ local5 \in BOOLEAN
    /\ disk = [e \in Event5 |-> {}] /\ aged = {} /\ raced = {} /\ judged = {} /\ judging = {}
    /\ deleter = [t \in {"prune", "reap"} |-> [at |-> "idle", on |-> {}, keep |-> {}]]
    /\ rule5 = 0 /\ builder = [at |-> "idle", binding |-> 0] /\ draft = None5 /\ final = None5
    /\ shown = [at |-> "idle", data |-> None5, version |-> 0] /\ dirty = FALSE
    /\ cache5 = None5 /\ served5 = None5 /\ accepted = {} /\ texts = 0
    /\ pending = {} /\ learned = [r \in LearningRule |-> 0]
    /\ promoter = [t \in Tool |-> NoTool] /\ torn = FALSE /\ deaths = 0

Kills == deaths < MaxDeaths /\ deaths' = deaths + 1

-----------------------------------------------------------------------------
(* Casebook directories.  A write makes a directory young again, which a   *)
(* deleter that has looked already does not see.                           *)

LastLook(t) == IF t = "prune" THEN "looked" ELSE "chosen"
Chosen == UNION {deleter[t].on : t \in {u \in DOMAIN deleter : deleter[u].at = LastLook(u)}}

WritesIn(e, names) ==
    /\ disk' = [disk EXCEPT ![e] = @ \cup names] /\ aged' = aged \ {e}
    /\ raced' = (IF e \in Chosen THEN raced \cup {e} ELSE raced)

(* A run's working files, and with the local backend its status. *)
WorkOn(e) ==
    /\ "casebook" \notin disk[e]
    /\ WritesIn(e, IF local5 THEN {"logs", "status"} ELSE {"logs"})
    /\ UNCHANGED <<deleter, judged, judging>>

ConcludeCase(e) ==
    /\ "logs" \in disk[e] /\ local5
    /\ WritesIn(e, {"casebook"})
    /\ UNCHANGED <<deleter, judged, judging>>

Ages(e) ==
    /\ e \notin aged /\ disk[e] # {} /\ aged' = aged \cup {e}
    /\ UNCHANGED <<disk, deleter, raced, judged, judging>>

(* cleanup_casebook_dir: the working directory of a finished case, unless  *)
(* it is the record.                                                       *)
IsLocalRecord(e) == local5 /\ disk[e] \cap {"casebook", "status"} # {}

CleanUp(e) ==
    /\ disk[e] # {} /\ ~IsLocalRecord(e)
    /\ local5 => "casebook" \in disk[e]    \* the case is terminal
    /\ disk' = [disk EXCEPT ![e] = {}]
    /\ UNCHANGED <<aged, deleter, raced, judged, judging>>

(* record_outcome: the casebook is loaded, then the verdict stored. *)
LoadCasebook(e) ==
    /\ "casebook" \in disk[e] /\ judging = {} /\ judging' = {e}
    /\ UNCHANGED <<disk, aged, deleter, raced, judged>>

SaveOutcome(e) ==
    /\ e \in judging /\ judging' = {} /\ judged' = judged \cup {e}
    /\ WritesIn(e, {"outcome"})
    /\ UNCHANGED deleter

(* Variant: the reaper goes by age alone. *)
ReapableByAge(e) == disk[e] # {} /\ e \in aged

Reapable(e) == disk[e] # {} /\ e \in aged /\ ~IsLocalRecord(e)

Prunable(e) == e \in aged /\ "casebook" \in disk[e]

Choose(t, e) ==
    /\ deleter[t].at = "idle"
    /\ IF t = "prune" THEN Prunable(e) ELSE Reapable(e)
    /\ deleter' = [deleter EXCEPT ![t] = [at |-> "chosen", on |-> {e}, keep |-> {}]]
    /\ UNCHANGED <<disk, aged, raced, judged, judging>>

(* Variant: nothing is preserved. *)
LookNowhere ==
    /\ deleter["prune"].at = "chosen"
    /\ deleter' = [deleter EXCEPT !["prune"].at = "looked"]
    /\ UNCHANGED <<disk, aged, raced, judged, judging>>

(* The pruner sees whether there is a verdict to preserve. *)
Look ==
    /\ deleter["prune"].at = "chosen"
    /\ deleter' = [deleter EXCEPT !["prune"].at = "looked",
                        !["prune"].keep = {n \in {"outcome"} : \E e \in deleter["prune"].on : n \in disk[e]}]
    /\ UNCHANGED <<disk, aged, raced, judged, judging>>

Delete(t) ==
    /\ deleter[t].at = LastLook(t)
    /\ disk' = [e \in Event5 |-> IF e \in deleter[t].on THEN disk[e] \cap deleter[t].keep ELSE disk[e]]
    /\ aged' = aged \ deleter[t].on    \* removing a file is a write to the directory
    /\ deleter' = [deleter EXCEPT ![t] = [at |-> "idle", on |-> {}, keep |-> {}]]
    /\ UNCHANGED <<raced, judged, judging>>

FileStep ==
    \/ \E e \in Event5 : WorkOn(e) \/ ConcludeCase(e) \/ Ages(e) \/ CleanUp(e) \/ LoadCasebook(e) \/ SaveOutcome(e)
    \/ \E e \in Event5, t \in {"prune", "reap"} : Choose(t, e)
    \/ Look
    \/ \E t \in {"prune", "reap"} : Delete(t)

-----------------------------------------------------------------------------
(* Runbooks.  The binding is read before the model writes the draft. *)

RuleChanges ==
    /\ rule5 < MaxRevisions /\ rule5' = rule5 + 1
    /\ UNCHANGED <<builder, draft, final, shown, cache5, served5, accepted, texts, dirty, deaths>>

Bind ==
    /\ builder.at = "idle" /\ Cardinality(Event5) >= MinSamples
    /\ builder' = [at |-> "bound", binding |-> rule5]
    /\ UNCHANGED <<rule5, draft, final, shown, cache5, served5, accepted, texts, dirty, deaths>>

(* The reply is a generic text, and becomes the draft, or it is dropped. *)
WriteDraft ==
    /\ builder.at = "bound" /\ builder' = [at |-> "idle", binding |-> 0]
    /\ \/ /\ texts < MaxTexts /\ texts' = texts + 1
          /\ draft' = [text |-> texts + 1, binding |-> builder.binding, version |-> 1]
       \/ UNCHANGED <<texts, draft>>
    /\ UNCHANGED <<rule5, final, shown, cache5, served5, accepted, dirty, deaths>>

EditDraft ==
    /\ draft # None5 /\ texts < MaxTexts /\ texts' = texts + 1
    /\ draft' = [draft EXCEPT !.text = texts + 1]
    /\ UNCHANGED <<rule5, builder, final, shown, cache5, served5, accepted, dirty, deaths>>

(* promote_runbooks: under its lock, on a clean tree, one draft is shown,  *)
(* with the version of the runbook in force: where there is none for the   *)
(* enrolment type, get_runbook answers with the one for any, if any.       *)
Show ==
    /\ shown.at = "idle" /\ ~dirty /\ draft # None5
    /\ \E version \in IF final = None5 THEN {0, 1} ELSE {final.version} :
           shown' = [at |-> "shown", data |-> draft, version |-> version]
    /\ UNCHANGED <<rule5, builder, draft, final, cache5, served5, accepted, texts, dirty, deaths>>

Decline ==
    /\ shown.at = "shown" /\ shown' = [at |-> "idle", data |-> None5, version |-> 0]
    /\ UNCHANGED <<rule5, builder, draft, final, cache5, served5, accepted, texts, dirty, deaths>>

(* Variant: what the draft file holds by now is promoted. *)
PromoteFile ==
    /\ shown.at = "shown" /\ draft # None5
    /\ final' = [draft EXCEPT !.version = shown.version + 1]
    /\ accepted' = accepted \cup {shown.data.text} /\ dirty' = TRUE
    /\ shown' = [shown EXCEPT !.at = "written"]
    /\ UNCHANGED <<rule5, builder, draft, cache5, served5, texts, deaths>>

(* Variant: a promoted runbook keeps its draft's version. *)
PromoteUnversioned ==
    /\ shown.at = "shown"
    /\ final' = shown.data
    /\ accepted' = accepted \cup {shown.data.text} /\ dirty' = TRUE
    /\ shown' = [shown EXCEPT !.at = "written"]
    /\ UNCHANGED <<rule5, builder, draft, cache5, served5, texts, deaths>>

Promote ==
    /\ shown.at = "shown"
    /\ final' = [shown.data EXCEPT !.version = shown.version + 1]
    /\ accepted' = accepted \cup {shown.data.text} /\ dirty' = TRUE
    /\ shown' = [shown EXCEPT !.at = "written"]
    /\ UNCHANGED <<rule5, builder, draft, cache5, served5, texts, deaths>>

(* The draft is removed, whatever it holds by now, and the tree committed. *)
FinishPromotion ==
    /\ shown.at = "written" /\ shown' = [at |-> "idle", data |-> None5, version |-> 0]
    /\ draft' = None5 /\ dirty' = FALSE
    /\ UNCHANGED <<rule5, builder, final, cache5, served5, accepted, texts, deaths>>

PromotionKilled ==
    /\ shown.at # "idle" /\ Kills /\ shown' = [at |-> "idle", data |-> None5, version |-> 0]
    /\ UNCHANGED <<rule5, builder, draft, final, cache5, served5, accepted, texts, dirty>>

CommitByHand == dirty /\ dirty' = FALSE

(* get_runbook: the cached runbook, or the file's. *)
Lookup == IF cache5 # None5 THEN cache5 ELSE final

(* A runbook is served while what it was derived from is unchanged. *)
MayServe(book) == book # None5 /\ book.binding = rule5

ServeRunbook ==
    /\ cache5' = Lookup
    /\ served5' = (IF MayServe(Lookup) THEN Lookup ELSE served5)
    /\ UNCHANGED <<rule5, builder, draft, final, shown, accepted, texts, dirty, deaths>>

CacheExpires ==
    /\ cache5 # None5 /\ cache5' = None5
    /\ UNCHANGED <<rule5, builder, draft, final, shown, served5, accepted, texts, dirty, deaths>>

BookStep ==
    \/ RuleChanges \/ Bind \/ WriteDraft \/ EditDraft \/ Show \/ Decline \/ Promote \/ FinishPromotion
    \/ PromotionKilled \/ ServeRunbook \/ CacheExpires
    \/ CommitByHand /\ UNCHANGED <<bookVars, deaths>>

-----------------------------------------------------------------------------
(* Learned rules.  The file of proposals is a tracked one, so that each is *)
(* a change to commit before a promotion starts.                           *)

Propose(r) ==
    /\ r \notin pending /\ learned[r] = 0 /\ \A t \in Tool : r \notin promoter[t].lines
    /\ pending' = pending \cup {r} /\ dirty' = TRUE
    /\ UNCHANGED <<learned, promoter, torn, deaths>>

(* Variant: tools do not exclude each other. *)
StartPromoterAtOnce(t) ==
    /\ promoter[t].at = "idle" /\ ~dirty /\ pending # {}
    /\ promoter' = [promoter EXCEPT ![t] = [at |-> "asking", lines |-> pending, done |-> {}]]
    /\ UNCHANGED <<pending, learned, torn, dirty, deaths>>

(* promote_rules: one tool at a time, on a clean tree; the lines are read. *)
StartPromoter(t) ==
    /\ promoter[t].at = "idle" /\ ~dirty /\ pending # {} /\ \A u \in Tool : promoter[u].at = "idle"
    /\ promoter' = [promoter EXCEPT ![t] = [at |-> "asking", lines |-> pending, done |-> {}]]
    /\ UNCHANGED <<pending, learned, torn, dirty, deaths>>

(* Variant: any rule is taken for one of the lines read. *)
PromoteRuleUnread(t, r) ==
    /\ promoter[t].at = "asking" /\ r \notin promoter[t].done
    /\ learned' = [learned EXCEPT ![r] = @ + 1] /\ dirty' = TRUE
    /\ promoter' = [promoter EXCEPT ![t].done = @ \cup {r}]
    /\ UNCHANGED <<pending, torn, deaths>>

PromoteRule(t, r) ==
    /\ promoter[t].at = "asking" /\ r \in promoter[t].lines \ promoter[t].done
    /\ learned' = [learned EXCEPT ![r] = @ + 1] /\ dirty' = TRUE
    /\ promoter' = [promoter EXCEPT ![t].done = @ \cup {r}]
    /\ UNCHANGED <<pending, torn, deaths>>

(* Variant: the file is written back from the lines read at the start. *)
RewritePendingAsRead(t) ==
    /\ promoter[t].at = "asking"
    /\ pending' = promoter[t].lines \ promoter[t].done
    /\ promoter' = [promoter EXCEPT ![t] = NoTool] /\ dirty' = (dirty \/ pending' # pending)
    /\ UNCHANGED <<learned, torn, deaths>>

(* The file is read again under its lock, and rewritten in place. *)
RewritePending(t) ==
    /\ promoter[t].at = "asking"
    /\ pending' = pending \ promoter[t].done
    /\ promoter' = [promoter EXCEPT ![t] = NoTool] /\ dirty' = (dirty \/ pending' # pending)
    /\ UNCHANGED <<learned, torn, deaths>>

(* Killed while asking, or with the file truncated. *)
PromoterKilled(t) ==
    /\ promoter[t].at = "asking" /\ Kills
    /\ promoter' = [promoter EXCEPT ![t] = NoTool]
    /\ \/ UNCHANGED <<pending, torn>>
       \/ torn' = TRUE /\ pending' = {}
    /\ dirty' = (dirty \/ pending' # pending)
    /\ UNCHANGED learned

RuleStep ==
    \/ \E r \in LearningRule : Propose(r)
    \/ \E t \in Tool : StartPromoter(t) \/ RewritePending(t) \/ PromoterKilled(t)
    \/ \E t \in Tool, r \in LearningRule : PromoteRule(t, r)
    \/ CommitByHand /\ UNCHANGED <<ruleVars, deaths>>

KnowledgeNext ==
    /\ UNCHANGED <<topic5, local5>>
    /\ \/ topic5 = "files" /\ FileStep /\ UNCHANGED <<bookVars, ruleVars, dirty, deaths>>
       \/ topic5 = "runbooks" /\ BookStep /\ UNCHANGED <<fileVars, ruleVars>>
       \/ topic5 = "rules" /\ RuleStep /\ UNCHANGED <<fileVars, bookVars>>

KnowledgeSpec == KnowledgeInit /\ [][KnowledgeNext]_knowledgeVars

-----------------------------------------------------------------------------

(* Disk hygiene never deletes a verdict (prune_casesheets.py:38-41), unless *)
(* it was recorded while the directory was being deleted.                  *)
OutcomeKept == \A e \in judged \ raced : "outcome" \in disk[e]

(* The pruner leaves a verdict where it finds one, though the verdict may  *)
(* have come after it chose the directory.                                 *)
PrunerKeepsOutcome ==
    \A e \in deleter["prune"].on \ raced :
            "outcome" \in disk[e] \ disk'[e] => e \in deleter["reap"].on

(* The reaper deletes working directories, never a record that was there   *)
(* when it looked.                                                         *)
RecordNotReaped ==
    \A e \in Event5 : "casebook" \in disk[e] /\ disk'[e] = {} /\ e \notin raced
            => e \in deleter["prune"].on

(* What is served is what an operator was shown and accepted, though the   *)
(* draft may be rewritten while they read it.                              *)
ServedWasAccepted == served5 # None5 => served5.text \in accepted

(* A promotion replaces a runbook by a higher version, so that the answers *)
(* of two texts can be told apart.                                         *)
VersionsGrow == final' # final => final'.version > final.version

(* A proposed rule waits or is in a prompt, whatever was proposed while an *)
(* operator went through the list, unless the file was cut short.          *)
NoRuleLost ==
    \A r \in pending : torn' \/ r \in pending' \/ learned'[r] > 0

(* A rule is put in a prompt once, unless a tool was killed. *)
LearnedOnce == deaths = 0 => \A r \in LearningRule : learned[r] <= 1

(* What the agents are taught was accepted by an operator, as shown, and   *)
(* once: runbooks rewritten and rules proposed during a review included.   *)
KnowledgeIsReviewed ==
    KnowledgeTypeOK /\ ServedWasAccepted /\ LearnedOnce

=============================================================================
