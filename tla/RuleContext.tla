---------------------------- MODULE RuleContext ----------------------------
(***************************************************************************)
(* What the agents are told about the rule behind a reason code: the       *)
(* documentation files (src/utils/reason_code_docs.py) and the rules       *)
(* database (src/tools/tool_registry.py), both cached by the process and   *)
(* both edited while packets are investigated, and the prompts and case    *)
(* files they are put into (src/core/rejection_context.py,                 *)
(* src/core/agent_orchestrator.py).                                        *)
(*                                                                         *)
(* One reason code, investigated for several packets at a time.  The graph *)
(* itself is AgentGraph's.                                                 *)
(***************************************************************************)
EXTENDS Integers, Sequences, FiniteSets, SequencesExt

CONSTANTS Packet7,        \* the packets under investigation
          File7,          \* the files of the store, one per service
          FileOrder,      \* the same, in the order of their names
          Tables,         \* what the rules table may hold: sets of enrolment types of rows
          Documents,      \* what a file may hold for the code: sets of entries
          Stores7,        \* the stores to begin with
          Subjects,       \* the packets to consider: type, own file, rules database, size
                          \* of the trace, and whether a runbook answers it
          PromptCap, MinLogRoom, MarkerBase, OmittedSize,   \* sizes, in one unit
          FrameSize, PieceSize,     \* the fixed sections, and one entry, row or finding
          MaxEvents7,     \* bound: edits, outages and deaths together
          MaxRetries7     \* bound: rejections by the Reviewer

AnyType == "any"
Torn == {[file |-> "none", kind |-> "torn", type |-> AnyType]}     \* a file that is not valid JSON
NoDocs == [outcome |-> "none", scope |-> "none", entries |-> {}]
NoRule == [found |-> "none", rows |-> {}]

(* What an earlier run of the packet left in its case directory *)
Earlier == [tools |-> {"earlier"}, doc |-> [NoDocs EXCEPT !.outcome = "hit", !.scope = "earlier"]]

ASSUME ContextAssumption ==
    /\ FileOrder \in Seq(File7) /\ Range(FileOrder) = File7 /\ IsInjective(FileOrder)
    /\ File7 # {} /\ "none" \notin File7
    /\ \A d \in Documents : IsFiniteSet(d) /\ \A e \in d : e = [file |-> "none", kind |-> e.kind, type |-> e.type]
    /\ \A t \in Tables : IsFiniteSet(t)
    /\ Stores7 \subseteq [File7 -> Documents]
    /\ \A s \in Subjects : \A p \in Packet7 :
           s[p].own \in File7 \cup {"none"} /\ s[p].rulesDb \in BOOLEAN /\ s[p].logs \in Nat
    /\ {PromptCap, MinLogRoom, MarkerBase, OmittedSize, FrameSize, PieceSize,
        MaxEvents7, MaxRetries7} \subseteq Nat
    /\ MarkerBase + 5 <= MinLogRoom /\ OmittedSize <= MinLogRoom

VARIABLES
    table7, dbUp,       \* the rules of the code, and whether the database answers
    ruleCache,          \* _rule_cache: the answer kept for the code
    store7,             \* the files: signature and content
    parsed7,            \* _parsed_cache: signature, content, and which version it was
    run7,               \* the investigations
    left7,              \* the local case directories: what each evidence file holds
    prompt7,            \* the last prompt, or case files, each role was given
    events7

contextVars == <<table7, dbUp, ruleCache, store7, parsed7, run7, left7, prompt7,
                 events7>>
world7 == <<table7, dbUp>>

InLookup(r) == r.at \in {"query", "keep"}
Event7 == events7 < MaxEvents7 /\ events7' = events7 + 1
NoPrompt == [rule |-> NoRule, doc |-> NoDocs, tools |-> {}, note |-> "none",
             skeleton |-> 0, logs |-> 0, kept |-> 0, size |-> 0, omitted |-> FALSE]

(* A packet at the node that resolves its documentation, runbook_lookup *)
Begin7(s) ==
    [at |-> "docs", subject |-> s, todo |-> <<>>, scope |-> "none", sig |-> 0,
     read |-> <<>>, began |-> [f \in File7 |-> 0], stale |-> FALSE,
     doc |-> NoDocs, rule |-> NoRule, down |-> FALSE, tools |-> {}, told |-> FALSE, pass |-> 0]

ContextInit ==
    /\ table7 \in Tables /\ dbUp = TRUE /\ ruleCache = NoRule
    /\ \E s \in Stores7 : store7 = [f \in File7 |-> [sig |-> 1, content |-> s[f]]]
    /\ parsed7 = [f \in File7 |-> [sig |-> 0, content |-> {}, version |-> 0]]
    /\ \E s \in Subjects : run7 = [p \in Packet7 |-> Begin7(s[p])]
    /\ left7 = [p \in Packet7 |-> Earlier]
    /\ prompt7 = [p \in Packet7 |-> [investigator |-> NoPrompt, reviewer |-> NoPrompt]]
    /\ events7 = 0

-----------------------------------------------------------------------------
(* The documentation: the packet's own file first; the others' only when   *)
(* that one says nothing of the code; every file when no service is known. *)

(* Variant: every file read at once, the service known or not. *)
ListFilesAll(p) ==
    /\ run7[p].at = "docs"
    /\ run7' = [run7 EXCEPT ![p].at = "stat", ![p].read = <<>>, ![p].stale = FALSE,
                            ![p].began = [f \in File7 |-> store7[f].sig],
                            ![p].scope = "all", ![p].todo = FileOrder]
    /\ UNCHANGED <<world7, ruleCache, store7, parsed7, left7, prompt7, events7>>

ListFiles(p) ==
    LET own == run7[p].subject.own IN
    /\ run7[p].at = "docs"
    /\ run7' = [run7 EXCEPT ![p].at = "stat", ![p].read = <<>>, ![p].stale = FALSE,
                            ![p].began = [f \in File7 |-> store7[f].sig],
                            ![p].scope = IF own = "none" THEN "all" ELSE "own",
                            ![p].todo = IF own = "none" THEN FileOrder ELSE <<own>>]
    /\ UNCHANGED <<world7, ruleCache, store7, parsed7, left7, prompt7, events7>>

(* The entries that hold for the packet's enrolment type: its own and the  *)
(* typeless ones, or the typeless ones alone.                              *)
Selected7(entries, type) == {e \in entries : e.type \in {AnyType, type}}

DocOf(r, entries) ==
    LET chosen == Selected7(entries, r.subject.type) IN
    IF chosen = {} THEN [NoDocs EXCEPT !.outcome = "miss"]
    ELSE [outcome |-> "hit", scope |-> r.scope, entries |-> chosen]

(* The entries of the files read, each told which one it is from *)
EntriesIn(read) == UNION {{[e EXCEPT !.file = g] : e \in read[g]} : g \in DOMAIN read}

OtherFiles(f) == RemoveAt(FileOrder, CHOOSE i \in DOMAIN FileOrder : FileOrder[i] = f)

(* The lookup with one more file read *)
WithFile(r, f, content, version) ==
    LET read == [g \in DOMAIN r.read \cup {f} |-> IF g = f THEN content ELSE r.read[g]]
        rest == Tail(r.todo)
        fed == [r EXCEPT !.read = read, !.todo = rest, !.at = "stat",
                         !.stale = @ \/ version < r.began[f]]
    IN IF rest # <<>> THEN fed
       ELSE IF EntriesIn(read) = {} /\ r.scope = "own" /\ OtherFiles(f) # <<>>
       THEN [fed EXCEPT !.scope = "other_service", !.todo = OtherFiles(f)]
       ELSE [fed EXCEPT !.at = "rule", !.doc = DocOf(r, EntriesIn(read)), !.sig = 0,
                        !.began = [g \in File7 |-> 0]]

(* Variant: a file parsed once is never parsed again. *)
StatFileOnce(p) ==
    LET r == run7[p] f == Head(r.todo) IN
    /\ r.at = "stat"
    /\ run7' = [run7 EXCEPT ![p] =
           IF parsed7[f].sig # 0 THEN WithFile(r, f, parsed7[f].content, parsed7[f].version)
           ELSE [r EXCEPT !.at = "load", !.sig = store7[f].sig]]
    /\ UNCHANGED <<world7, ruleCache, store7, parsed7, left7, prompt7, events7>>

StatFile(p) ==
    LET r == run7[p] f == Head(r.todo) IN
    /\ r.at = "stat"
    /\ run7' = [run7 EXCEPT ![p] =
           IF parsed7[f].sig = store7[f].sig
           THEN WithFile(r, f, parsed7[f].content, parsed7[f].version)
           ELSE [r EXCEPT !.at = "load", !.sig = store7[f].sig]]
    /\ UNCHANGED <<world7, ruleCache, store7, parsed7, left7, prompt7, events7>>

(* Variant: a file remembered before it is parsed. *)
LoadFileFirst(p) ==
    LET r == run7[p] f == Head(r.todo) IN
    /\ r.at = "load"
    /\ parsed7' = [parsed7 EXCEPT ![f] = [sig |-> r.sig, content |-> store7[f].content,
                                          version |-> store7[f].sig]]
    /\ run7' = [run7 EXCEPT ![p] =
           IF store7[f].content = Torn
           THEN [r EXCEPT !.at = "rule", !.doc = [NoDocs EXCEPT !.outcome = "error"]]
           ELSE WithFile(r, f, store7[f].content, store7[f].sig)]
    /\ UNCHANGED <<world7, ruleCache, store7, left7, prompt7, events7>>

(* A file that cannot be parsed ends the lookup: the state says error *)
LoadFile(p) ==
    LET r == run7[p] f == Head(r.todo) IN
    /\ r.at = "load"
    /\ IF store7[f].content = Torn
       THEN /\ run7' = [run7 EXCEPT ![p].at = "rule",
                                    ![p].doc = [NoDocs EXCEPT !.outcome = "error"]]
            /\ UNCHANGED parsed7
       ELSE /\ parsed7' = [parsed7 EXCEPT ![f] = [sig |-> r.sig, content |-> store7[f].content,
                                                  version |-> store7[f].sig]]
            /\ run7' = [run7 EXCEPT ![p] = WithFile(r, f, store7[f].content, store7[f].sig)]
    /\ UNCHANGED <<world7, ruleCache, store7, left7, prompt7, events7>>

EditFile ==
    /\ Event7
    /\ \E f \in File7 : \E d \in Documents \ {store7[f].content} :
           store7' = [store7 EXCEPT ![f] = [sig |-> @.sig + 1, content |-> d]]
    /\ UNCHANGED <<world7, ruleCache, parsed7, run7, left7, prompt7>>

-----------------------------------------------------------------------------
(* The rules database *)

(* A packet that a runbook answers needs no investigation *)
Informed(r, rule) ==
    [r EXCEPT !.at = IF r.subject.runbook THEN "done" ELSE "investigate", !.rule = rule]

(* The rows of the packet's type and the typeless ones, or every row *)
Filtered(rule, type) ==
    LET kept == {t \in rule.rows : t \in {AnyType, type}} IN
    IF type = "none" \/ kept = {} THEN rule ELSE [rule EXCEPT !.rows = kept]

(* Variant: failures kept like answers. *)
CacheableAnything(rule) == TRUE

Cacheable(rule) == rule.found # "failed"

ReadRuleCache(p) ==
    LET r == run7[p] IN
    /\ r.at = "rule"
    /\ run7' = [run7 EXCEPT ![p] =
           IF ~r.subject.rulesDb THEN Informed(r, NoRule)
           ELSE IF ruleCache # NoRule
           THEN Informed([r EXCEPT !.down = ~dbUp], Filtered(ruleCache, r.subject.type))
           ELSE [r EXCEPT !.at = "query", !.down = ~dbUp]]
    /\ UNCHANGED <<world7, ruleCache, store7, parsed7, left7, prompt7, events7>>

(* A query that fails is an answer like any other: neither the retries nor *)
(* the circuit breaker around it ever see an exception.                    *)
QueryRules(p) ==
    /\ run7[p].at = "query"
    /\ run7' = [run7 EXCEPT ![p].at = "keep",
           ![p].rule = IF ~dbUp THEN [found |-> "failed", rows |-> {}]
                       ELSE [found |-> IF table7 = {} THEN "not_found" ELSE "rows",
                             rows |-> table7]]
    /\ UNCHANGED <<world7, ruleCache, store7, parsed7, left7, prompt7, events7>>

KeepRule(p) ==
    LET r == run7[p] IN
    /\ r.at = "keep"
    /\ ruleCache' = IF Cacheable(r.rule) THEN r.rule ELSE ruleCache
    /\ run7' = [run7 EXCEPT ![p] = Informed(r, Filtered(r.rule, r.subject.type))]
    /\ UNCHANGED <<world7, store7, parsed7, left7, prompt7, events7>>

RuleExpires ==
    /\ ruleCache # NoRule /\ ruleCache' = NoRule
    /\ UNCHANGED <<world7, store7, parsed7, run7, left7, prompt7, events7>>

EditTable ==
    /\ Event7
    /\ table7' \in Tables \ {table7}
    /\ UNCHANGED <<dbUp, ruleCache, store7, parsed7, run7, left7, prompt7>>

RulesDbDown ==
    /\ dbUp /\ Event7
    /\ dbUp' = FALSE
    /\ run7' = [p \in Packet7 |-> [run7[p] EXCEPT !.down = @ \/ InLookup(run7[p])]]
    /\ UNCHANGED <<table7, ruleCache, store7, parsed7, left7, prompt7>>

RulesDbUp ==
    /\ ~dbUp /\ dbUp' = TRUE
    /\ UNCHANGED <<table7, ruleCache, store7, parsed7, run7, left7, prompt7, events7>>

-----------------------------------------------------------------------------
(* The prompts.  Only the trace is ever cut, and the marker that says how  *)
(* much of it is missing counts against the cap.                           *)

Digits(n) == IF n < 10 THEN 1 ELSE IF n < 100 THEN 2 ELSE 3
MarkerSize(n) == MarkerBase + Digits(n)

(* Variant: the marker not counted. *)
KeptHalfUnmarked(room, logs) == room \div 2

KeptHalf(room, logs) ==
    LET half == (room - MarkerSize(logs)) \div 2 IN IF half > 0 THEN half ELSE 0

(* What the trace becomes in the room left for it *)
Fit(skeleton, logs) ==
    LET room == PromptCap - skeleton
        half == KeptHalf(room, logs)
        gone == [kept |-> 0, size |-> skeleton + OmittedSize, omitted |-> TRUE]
    IN IF logs <= room THEN [kept |-> logs, size |-> skeleton + logs, omitted |-> FALSE]
       ELSE IF room < MinLogRoom \/ half = 0 THEN gone
       ELSE [kept |-> 2 * half, omitted |-> FALSE,
             size |-> skeleton + 2 * half + MarkerSize(logs - 2 * half)]

(* The sections around the trace; a retry adds the previous analysis and   *)
(* its feedback, a review the investigation.                               *)
Skeleton(r, pieces) ==
    FrameSize + PieceSize * (Cardinality(r.doc.entries) + Cardinality(r.rule.rows)
                             + Cardinality(r.tools) + pieces)

(* The provenance note: which of the two accounts the model is to follow.  *)
(* A failed query is not recognised as a miss.                             *)
RuleNote(r) ==
    IF ~r.subject.rulesDb THEN (IF r.doc.outcome = "hit" THEN "doc_only" ELSE "neither")
    ELSE IF r.doc.outcome = "hit"
    THEN (IF \E e \in r.doc.entries : e.kind = "rule" THEN "doc_from_rules" ELSE "doc_from_code")
    ELSE IF r.rule.found \in {"rows", "failed"} THEN "rule_only" ELSE "neither"

PromptOf(r, pieces) ==
    LET s == Skeleton(r, pieces)
        trace == Fit(s, r.subject.logs)
    IN [rule |-> r.rule, doc |-> r.doc, tools |-> r.tools, note |-> RuleNote(r),
        skeleton |-> s, logs |-> r.subject.logs,
        kept |-> trace.kept, size |-> trace.size, omitted |-> trace.omitted]

(* The pass ends with what the tools it used returned beside the earlier. *)
Investigated(p) ==
    \E used \in {{}, {run7[p].pass}} :
        run7' = [run7 EXCEPT ![p].at = "review", ![p].tools = @ \cup used, ![p].pass = @ + 1]

(* The Investigator, and its retry: the rule and the documentation are the *)
(* ones already in the graph's state.                                      *)
Investigate7(p) ==
    LET r == run7[p] IN
    /\ r.at = "investigate"
    /\ prompt7' = [prompt7 EXCEPT ![p].investigator =
                      IF r.told THEN PromptOf(r, 2) ELSE PromptOf([r EXCEPT !.tools = {}], 0)]
    /\ Investigated(p)
    /\ UNCHANGED <<world7, ruleCache, store7, parsed7, left7, events7>>

(* The Reviewer, given the same state in its own prompt *)
Review7(p, approved) ==
    LET r == run7[p] IN
    /\ r.at = "review"
    /\ approved \/ r.pass <= MaxRetries7
    /\ prompt7' = [prompt7 EXCEPT ![p].reviewer = PromptOf(r, 1)]
    /\ run7' = [run7 EXCEPT ![p].at = IF approved THEN "done" ELSE "investigate",
                            ![p].told = TRUE]
    /\ UNCHANGED <<world7, ruleCache, store7, parsed7, left7, events7>>

(* Variant: the tools' file left as it is when there is nothing to hold. *)
CaseFilesKept(p, tools) ==
    [tools |-> IF tools = {} THEN left7[p].tools ELSE tools,
     doc |-> IF run7[p].subject.rulesDb THEN NoDocs ELSE run7[p].doc]

(* Variant: the documentation's file left as it is beside a rules database. *)
CaseFilesDocKept(p, tools) ==
    [tools |-> tools, doc |-> IF run7[p].subject.rulesDb THEN left7[p].doc ELSE run7[p].doc]

(***************************************************************************)
(* The case directory a harness task is given: a file with nothing to hold *)
(* is removed, so that one of an earlier run does not outlive it.  The     *)
(* documentation, or a note that there is none, is written for a pack with *)
(* no rules database only: the others' tasks explore the corpus (D13).     *)
(***************************************************************************)
CaseFiles(p, tools) ==
    [tools |-> tools, doc |-> IF run7[p].subject.rulesDb THEN NoDocs ELSE run7[p].doc]

FilesPrompt(r, files) ==
    [NoPrompt EXCEPT !.rule = r.rule, !.doc = files.doc, !.tools = files.tools]

(* The Investigator on the harness, unless it answers the Reviewer.  What  *)
(* earlier passes looked up is not written for it.                         *)
HarnessInvestigate(p) ==
    LET r == run7[p] IN
    /\ r.at = "investigate" /\ ~r.told
    /\ left7' = [left7 EXCEPT ![p] = CaseFiles(p, {})]
    /\ prompt7' = [prompt7 EXCEPT ![p].investigator = FilesPrompt(r, left7'[p])]
    /\ Investigated(p)
    /\ UNCHANGED <<world7, ruleCache, store7, parsed7, events7>>

(* The Reviewer on the harness; its rejection may carry no text. *)
HarnessReview(p, approved) ==
    LET r == run7[p] IN
    /\ r.at = "review"
    /\ approved \/ r.pass <= MaxRetries7
    /\ left7' = [left7 EXCEPT ![p] = CaseFiles(p, r.tools)]
    /\ prompt7' = [prompt7 EXCEPT ![p].reviewer = FilesPrompt(r, left7'[p])]
    /\ \E text \in BOOLEAN :
           run7' = [run7 EXCEPT ![p].at = IF approved THEN "done" ELSE "investigate",
                                ![p].told = approved \/ text]
    /\ UNCHANGED <<world7, ruleCache, store7, parsed7, events7>>

(* The process dies: caches go, and a graph resumes at the node it was in, *)
(* with what the nodes before it returned.                                 *)
ResumedAt(r) ==
    CASE r.at \in {"docs", "stat", "load"} -> Begin7(r.subject)
      [] r.at \in {"rule", "query", "keep"} \/ (r.at = "investigate" /\ r.pass = 0) ->
             [r EXCEPT !.at = "rule", !.rule = NoRule, !.down = FALSE]
      [] OTHER -> r

Dies7 ==
    /\ Event7
    /\ ruleCache' = NoRule
    /\ parsed7' = [f \in File7 |-> [sig |-> 0, content |-> {}, version |-> 0]]
    /\ run7' = [p \in Packet7 |-> ResumedAt(run7[p])]
    /\ UNCHANGED <<world7, store7, left7, prompt7>>

-----------------------------------------------------------------------------
ContextNext ==
    \/ \E p \in Packet7 : ListFiles(p) \/ StatFile(p) \/ LoadFile(p) \/ ReadRuleCache(p)
                          \/ QueryRules(p) \/ KeepRule(p) \/ Investigate7(p)
                          \/ HarnessInvestigate(p)
    \/ \E p \in Packet7, b \in BOOLEAN : Review7(p, b) \/ HarnessReview(p, b)
    \/ EditFile \/ EditTable \/ RuleExpires \/ RulesDbDown \/ RulesDbUp \/ Dies7

ContextSpec == ContextInit /\ [][ContextNext]_contextVars

(* Every investigation is at a step of its own, and the cache of parsed    *)
(* files holds nothing that did not parse and nothing from the future.     *)
ContextTypeOK ==
    /\ table7 \in Tables /\ dbUp \in BOOLEAN /\ ruleCache.found \in {"none", "rows", "not_found", "failed"}
    /\ \A f \in File7 : parsed7[f].content # Torn /\ parsed7[f].sig <= store7[f].sig
    /\ \A p \in Packet7 :
           /\ run7[p].at \in {"docs", "stat", "load", "rule", "query", "keep",
                              "investigate", "review", "done"}
           /\ run7[p].at \in {"stat", "load"} <=> run7[p].todo # <<>> /\ run7[p].doc = NoDocs
    /\ events7 \in 0..MaxEvents7

(* A packet is told that the rules could not be read only if the database  *)
(* was down while they were read for it: one failure is never served to    *)
(* the packets after it (tool_registry.py:51).                             *)
FailureIsOwn == \A p \in Packet7 : run7[p].rule.found = "failed" => run7[p].down

(* A lookup never uses what a file held before it began: an edit of the    *)
(* documentation takes effect without a restart, whatever other threads    *)
(* parse at the same time (reason_code_docs.py:438).                       *)
DocsAreCurrent == \A p \in Packet7 : ~run7[p].stale

(* A packet whose own service documents its code is answered from that     *)
(* file alone, whatever the other services' files hold, and never with an  *)
(* entry for another enrolment type (reason_code_docs.py:795).             *)
DocIsPacketsOwn ==
    \A p \in Packet7 : LET r == run7[p] IN
        r.doc # NoDocs =>
            /\ r.subject.own \in DOMAIN r.read /\ r.read[r.subject.own] # {} =>
                   /\ r.doc.outcome # "error"
                   /\ \A e \in r.doc.entries : e.file = r.subject.own
            /\ \A e \in r.doc.entries : e.type \in {AnyType, r.subject.type}

(* The Reviewer is given the rule the investigation was reasoned from, the *)
(* results of the tools this run used and no other, and this packet's      *)
(* documentation, whichever of the two ran on the harness and through      *)
(* edits, retries and a restart in between.  The one exception is D13: a   *)
(* harness task of a pack with a rules database gets none, and none of an  *)
(* earlier run's (agent_orchestrator.py:220, :428).                        *)
SameEvidence ==
    \A p \in Packet7 : LET q == prompt7[p] r == run7[p] IN
        q.reviewer # NoPrompt /\ r.at = "done" =>
            /\ q.reviewer.rule = q.investigator.rule
            /\ q.reviewer.tools = r.tools
            /\ \A x \in {q.investigator, q.reviewer} :
                  x.doc = r.doc \/ (x.doc = NoDocs /\ x.note = "none" /\ r.subject.rulesDb)

(* No prompt is longer than the cap unless its other sections alone are,   *)
(* and a trace that fits is sent whole (rejection_context.py:332).         *)
PromptFits ==
    \A p \in Packet7 : \A q \in {prompt7[p].investigator, prompt7[p].reviewer} :
        q # NoPrompt =>
            /\ q.size <= PromptCap \/ q.omitted
            /\ q.skeleton + q.logs <= PromptCap => q.kept = q.logs

(* What an agent is told of the rule is true of its packet: no other       *)
(* packet's failure, no outdated or foreign documentation, for the         *)
(* Reviewer what the investigation it reads was reasoned from, within the  *)
(* cap.                                                                    *)
ContextIsSound ==
    /\ ContextTypeOK /\ FailureIsOwn /\ DocsAreCurrent /\ DocIsPacketsOwn
    /\ SameEvidence /\ PromptFits

=============================================================================
