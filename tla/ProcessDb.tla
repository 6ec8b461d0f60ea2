----------------------------- MODULE ProcessDb -----------------------------
(***************************************************************************)
(* The database tools of the agents: the shared read-only layer            *)
(* (src/tools/agent_tools/_database.py) and the tools of enu-biometric on  *)
(* it, the stage summary (stage_tracker.py) and the helper records         *)
(* (helper_cache.py).                                                      *)
(*                                                                         *)
(* Lookups of several investigations share an engine and a breaker, and    *)
(* read tables the pipeline is writing to.  The size of a reply is counted *)
(* in units: a candidate takes one, and one for each engine that scored it.*)
(***************************************************************************)
EXTENDS Integers, Sequences, FiniteSets

CONSTANTS Lookup6,       \* lookups under way
          SubStage,      \* substages of the pipeline
          RequestCopy,   \* substages that are copies of requests
          HelperRecords, \* what bio_helper_cache_store may hold for the packet
          SummaryMaxRows,  \* SUMMARY_MAX_ROWS
          ListLimit,     \* MAX_ROWS
          OutputCap,     \* MAX_OUTPUT_CHARS
          FailMax6,      \* fail_max of the breaker
          QueryAttempts, \* attempts of retry_transient
          MaxAttempts6,  \* bound: attempts of a substage
          MaxTracker,    \* bound: rows the pipeline writes
          MaxOutages     \* bound: times the database goes down

ASSUME ProcessDbAssumption ==
    /\ {SummaryMaxRows, ListLimit, OutputCap, FailMax6, QueryAttempts, MaxAttempts6} \subseteq Nat \ {0}
    /\ RequestCopy \subseteq SubStage /\ {MaxTracker, MaxOutages} \subseteq Nat
    /\ \A h \in HelperRecords :
           /\ h.shape \in {"absent", "other", "matches"}
           /\ h.shape = "matches" =>
                  /\ h.matches \in Seq({h.matches[i] : i \in DOMAIN h.matches})
                  /\ \A i \in DOMAIN h.matches : h.matches[i][3] \in Nat

VARIABLES
    tool6,      \* the tool a behaviour is about: the stage summary or the candidates
    enabled6,   \* ENABLED
    tracker,    \* the packet's rows of bio_stage_tracker, oldest first
    helper,     \* the packet's helper record
    up6, outages,
    engine6,    \* the engines built: the pool every lookup shares
    building,   \* the lookups that hold _engine_lock
    breaker6,   \* [state, fails]
    look        \* each lookup: its place, attempts, and reply

processDbVars == <<tool6, enabled6, tracker, helper, up6, outages, engine6, building, breaker6, look>>

NoReply == [kind |-> "none"]
NoLook == [at |-> "idle", tries |-> 0, reply |-> NoReply, asof |-> <<>>]

ProcessDbTypeOK ==
    /\ \A i \in DOMAIN tracker : tracker[i].sub \in SubStage /\ tracker[i].attempt \in 0..(MaxAttempts6 - 1)
    /\ breaker6.state \in {"closed", "open", "elapsed", "half"} /\ breaker6.fails \in Nat
    /\ breaker6.state = "closed" => breaker6.fails < FailMax6
    /\ Cardinality(building) <= 1

ProcessDbInit ==
    /\ enabled6 \in BOOLEAN /\ tool6 \in {"stages", "candidates"} /\ tracker = <<>>
    /\ helper \in (IF tool6 = "candidates" THEN HelperRecords ELSE {[shape |-> "absent"]})
    /\ up6 = TRUE /\ outages = 0 /\ engine6 = 0 /\ building = {}
    /\ breaker6 = [state |-> "closed", fails |-> 0]
    /\ look = [l \in Lookup6 |-> NoLook]

-----------------------------------------------------------------------------
(* The pipeline: an attempt of a substage is marked in progress, then      *)
(* completed; a replay starts the next attempt.                            *)

Row(s, a, status) == [sub |-> s, attempt |-> a, status |-> status]
Rows == {tracker[i] : i \in DOMAIN tracker}

StageWrites(s, a, status) ==
    /\ tool6 = "stages" /\ Len(tracker) < MaxTracker /\ Row(s, a, status) \notin Rows
    /\ a > 0 => \E r \in Rows : r.sub = s /\ r.attempt = a - 1
    /\ status = "COMPLETED" => Row(s, a, "IN PROGRESS") \in Rows
    /\ status = "IN PROGRESS" => Row(s, a, "COMPLETED") \notin Rows
    /\ tracker' = Append(tracker, Row(s, a, status))
    /\ UNCHANGED <<tool6, enabled6, helper, up6, outages, engine6, building, breaker6, look>>

GoesDown ==
    /\ up6 /\ outages < MaxOutages /\ outages' = outages + 1 /\ up6' = FALSE
    /\ UNCHANGED <<tool6, enabled6, tracker, helper, engine6, building, breaker6, look>>

ComesBack ==
    /\ ~up6 /\ up6' = TRUE
    /\ UNCHANGED <<tool6, enabled6, tracker, helper, outages, engine6, building, breaker6, look>>

-----------------------------------------------------------------------------
(* The stage summary, of the newest rows in time order *)

Newest(rs, n) == SubSeq(rs, (IF Len(rs) > n THEN Len(rs) - n + 1 ELSE 1), Len(rs))

AttemptsOf(rs, s) == {rs[i].attempt : i \in {j \in DOMAIN rs : rs[j].sub = s}}
LatestOf(rs, s) == CHOOSE a \in AttemptsOf(rs, s) : \A b \in AttemptsOf(rs, s) : b <= a

StatusesOf(rs, s, a) == {rs[i].status : i \in {j \in DOMAIN rs : rs[j].sub = s /\ rs[j].attempt = a}}

AttemptState(rs, s, a) ==
    IF "COMPLETED" \in StatusesOf(rs, s, a) THEN "completed"
    ELSE IF "IN PROGRESS" \in StatusesOf(rs, s, a) THEN "in_progress"
    ELSE "other"

OpenSubstages(rs) ==
    {s \in SubStage \ RequestCopy :
        AttemptsOf(rs, s) # {} /\ AttemptState(rs, s, LatestOf(rs, s)) = "in_progress"}

(* Variant: the oldest rows are read. *)
SummaryOfOldest(rs) ==
    [kind |-> IF rs = <<>> THEN "not_found" ELSE "summary",
     open |-> OpenSubstages(SubSeq(rs, 1, IF Len(rs) > SummaryMaxRows THEN SummaryMaxRows ELSE Len(rs))),
     truncated |-> Len(rs) > SummaryMaxRows]

Summary(rs) ==
    [kind |-> IF rs = <<>> THEN "not_found" ELSE "summary",
     open |-> OpenSubstages(Newest(rs, SummaryMaxRows)), truncated |-> Len(rs) > SummaryMaxRows]

-----------------------------------------------------------------------------
(* The candidates of a helper record: the matches <<engine, candidate,     *)
(* score>> in the order reported, score 0 for none.                        *)

Candidates(matches) == {matches[i][2] : i \in DOMAIN matches}
Scores(matches, c) == {matches[i][3] : i \in {j \in DOMAIN matches : matches[j][2] = c}}
SizeOf(matches, c) == 1 + Cardinality({i \in DOMAIN matches : matches[i][2] = c})
FirstAt(matches, c) == CHOOSE i \in DOMAIN matches : matches[i][2] = c /\ \A j \in 1..(i - 1) : matches[j][2] # c

(* Variant: a later engine's score replaces an earlier one's. *)
HighestScoreLast(matches, c) ==
    LET last == CHOOSE i \in DOMAIN matches :
                    matches[i][2] = c /\ \A j \in (i + 1)..Len(matches) : matches[j][2] # c
    IN  matches[last][3]

HighestScore(matches, c) == CHOOSE x \in Scores(matches, c) : \A y \in Scores(matches, c) : y <= x

(* Sorted by highest score, without one last; ties as first reported. *)
Outranks(matches, c, d) ==
    \/ HighestScore(matches, c) > HighestScore(matches, d)
    \/ HighestScore(matches, c) = HighestScore(matches, d) /\ FirstAt(matches, c) < FirstAt(matches, d)

Ranked(matches) ==
    [i \in 1..Cardinality(Candidates(matches)) |->
        CHOOSE c \in Candidates(matches) :
            Cardinality({d \in Candidates(matches) : Outranks(matches, d, c)}) = i - 1]

(* finish: what the first k entries take, with the note on those left out. *)
TotalOf(sizes, k) ==
    LET sum[i \in 0..k] == IF i = 0 THEN 0 ELSE sum[i - 1] + sizes[i] IN sum[k]

Fits(sizes, k) == TotalOf(sizes, k) + (IF k < Len(sizes) THEN 1 ELSE 0) <= OutputCap

(* Variant: the search stops one short. *)
ShrunkEarly(sizes) ==
    LET search[r \in (0..Len(sizes)) \X (0..Len(sizes))] ==
            LET low == r[1]  high == r[2]  middle == (low + high + 1) \div 2 IN
            IF low >= high - 1 THEN low
            ELSE IF Fits(sizes, middle) THEN search[<<middle, high>>] ELSE search[<<low, middle - 1>>]
    IN  search[<<0, Len(sizes) - 1>>]

(* The most entries that fit, found by bisection. *)
Shrunk(sizes) ==
    LET search[r \in (0..Len(sizes)) \X (0..Len(sizes))] ==
            LET low == r[1]  high == r[2]  middle == (low + high + 1) \div 2 IN
            IF low >= high THEN low
            ELSE IF Fits(sizes, middle) THEN search[<<middle, high>>] ELSE search[<<low, middle - 1>>]
    IN  search[<<0, Len(sizes) - 1>>]

(* The ranked candidates, at most MAX_ROWS of them, and of those as many   *)
(* as fit the output; a reply still too long is cut as text.               *)
Listed(matches) ==
    LET ranked == Ranked(matches)
        rows == SubSeq(ranked, 1, IF Len(ranked) > ListLimit THEN ListLimit ELSE Len(ranked))
        sizes == [i \in DOMAIN rows |-> SizeOf(matches, rows[i])]
        kept == IF Fits(sizes, Len(sizes)) THEN Len(sizes) ELSE Shrunk(sizes)
    IN  [kind |-> "candidates", count |-> Len(ranked), not_listed |-> Len(ranked) - Len(rows),
         left_out |-> Len(rows) - kept, candidates |-> SubSeq(rows, 1, kept)]

CandidatesReply(record) ==
    CASE record.shape = "absent" -> [kind |-> "not_found"]
      [] record.shape = "other"  -> [kind |-> "unrecognised"]
      [] OTHER -> Listed(record.matches)

-----------------------------------------------------------------------------
(* run_lookup *)

At6(l, at) == look[l].at = at
Goto6(l, at) == look' = [look EXCEPT ![l].at = at]
Gap == [kind |-> "gap"]
(* asof: the table as it was when the lookup was answered *)
Answer(l, reply) == look' = [look EXCEPT ![l].at = "done", ![l].reply = reply, ![l].asof = tracker]

StartLookup(l) ==
    /\ look[l].at \in {"idle", "done"}
    /\ look' = [look EXCEPT ![l] = [at |-> IF enabled6 THEN "admit" ELSE "done",
                                    tries |-> 0, reply |-> IF enabled6 THEN NoReply ELSE Gap,
                                    asof |-> <<>>]]
    /\ UNCHANGED <<tool6, enabled6, tracker, helper, up6, outages, engine6, building, breaker6>>

BreakerElapses ==
    /\ breaker6.state = "open" /\ breaker6' = [breaker6 EXCEPT !.state = "elapsed"]
    /\ UNCHANGED <<tool6, enabled6, tracker, helper, up6, outages, engine6, building, look>>

AdmitLookup(l) ==
    /\ At6(l, "admit")
    /\ \/ breaker6.state = "open" /\ Answer(l, Gap) /\ UNCHANGED breaker6
       \/ /\ breaker6.state # "open" /\ Goto6(l, IF engine6 = 0 THEN "lock" ELSE "query")
          /\ breaker6' = [breaker6 EXCEPT !.state = IF @ = "elapsed" THEN "half" ELSE @]
    /\ UNCHANGED <<tool6, enabled6, tracker, helper, up6, outages, engine6, building>>

(* Variant: the engine is built without its lock. *)
LockEngineFreely(l) ==
    /\ At6(l, "lock") /\ building' = building \cup {l} /\ Goto6(l, "build")
    /\ UNCHANGED <<tool6, enabled6, tracker, helper, up6, outages, engine6, breaker6>>

(* get_engine, having seen none: under the lock, looked at again. *)
LockEngine(l) ==
    /\ At6(l, "lock") /\ building = {} /\ building' = {l} /\ Goto6(l, "build")
    /\ UNCHANGED <<tool6, enabled6, tracker, helper, up6, outages, engine6, breaker6>>

(* Variant: the engine is not looked at again. *)
BuildEngineUnseen(l) ==
    /\ At6(l, "build") /\ building' = {} /\ engine6' = engine6 + 1
    /\ Goto6(l, "query")
    /\ UNCHANGED <<tool6, enabled6, tracker, helper, up6, outages, breaker6>>

BuildEngine(l) ==
    /\ At6(l, "build") /\ building' = {} /\ engine6' = (IF engine6 = 0 THEN 1 ELSE engine6)
    /\ Goto6(l, "query")
    /\ UNCHANGED <<tool6, enabled6, tracker, helper, up6, outages, breaker6>>

Reply(l) == IF tool6 = "stages" THEN Summary(tracker) ELSE CandidatesReply(helper)

QueryAnswers(l) ==
    /\ At6(l, "query") /\ up6
    /\ Answer(l, Reply(l))
    /\ breaker6' = [state |-> IF breaker6.state = "half" THEN "closed" ELSE breaker6.state, fails |-> 0]
    /\ UNCHANGED <<tool6, enabled6, tracker, helper, up6, outages, engine6, building>>

QueryRetried(l) ==
    /\ At6(l, "query") /\ ~up6 /\ look[l].tries + 1 < QueryAttempts
    /\ look' = [look EXCEPT ![l].tries = @ + 1]
    /\ UNCHANGED <<tool6, enabled6, tracker, helper, up6, outages, engine6, building, breaker6>>

(* A lookup whose every attempt failed is one failure of the breaker. *)
Failed ==
    LET fails == IF breaker6.fails < FailMax6 THEN breaker6.fails + 1 ELSE breaker6.fails
        trips == breaker6.state = "half" \/ (breaker6.state = "closed" /\ fails >= FailMax6)
    IN  [state |-> IF trips THEN "open" ELSE breaker6.state, fails |-> fails]

(* Variant: a failed lookup reads as an empty table. *)
QueryFailsEmpty(l) ==
    /\ At6(l, "query") /\ ~up6 /\ look[l].tries + 1 = QueryAttempts
    /\ Answer(l, [kind |-> "not_found"]) /\ breaker6' = Failed
    /\ UNCHANGED <<tool6, enabled6, tracker, helper, up6, outages, engine6, building>>

QueryFails(l) ==
    /\ At6(l, "query") /\ ~up6 /\ look[l].tries + 1 = QueryAttempts
    /\ Answer(l, Gap) /\ breaker6' = Failed
    /\ UNCHANGED <<tool6, enabled6, tracker, helper, up6, outages, engine6, building>>

ProcessDbNext ==
    \/ \E s \in SubStage, a \in 0..(MaxAttempts6 - 1), status \in {"IN PROGRESS", "COMPLETED"} : StageWrites(s, a, status)
    \/ GoesDown \/ ComesBack \/ BreakerElapses
    \/ \E l \in Lookup6 :
        \/ StartLookup(l) \/ AdmitLookup(l) \/ LockEngine(l)
        \/ BuildEngine(l) \/ QueryAnswers(l) \/ QueryRetried(l) \/ QueryFails(l)

ProcessDbSpec == ProcessDbInit /\ [][ProcessDbNext]_processDbVars

-----------------------------------------------------------------------------

Replies == {look[l] : l \in {m \in Lookup6 : At6(m, "done")}}

(* A failure never reads like an empty result: "not found" is said only of *)
(* a table that was read and had nothing.                                  *)
NotFoundIsTrue ==
    \A k \in Replies : k.reply.kind = "not_found" =>
        IF tool6 = "stages" THEN k.asof = <<>> ELSE helper.shape = "absent"

(* A substage reported open was open in the whole table, though only its   *)
(* newest rows were read: its latest attempt had not completed.            *)
OpenIsOpen ==
    \A k \in Replies : k.reply.kind = "summary" => k.reply.open \subseteq OpenSubstages(k.asof)

(* Candidates are dropped from the end, as few as the caps require, and    *)
(* every one of them is counted.                                           *)
ListingIsWhole ==
    \A k \in Replies : k.reply.kind = "candidates" =>
        LET n == Len(k.reply.candidates)
            sizes == [i \in 1..(n + k.reply.left_out) |-> SizeOf(helper.matches, Ranked(helper.matches)[i])]
        IN  /\ n + k.reply.left_out + k.reply.not_listed = k.reply.count
            /\ k.reply.left_out > 0 => \A m \in (n + 1)..Len(sizes) : ~Fits(sizes, m)

(* No candidate left out was scored higher by any engine than one shown.   *)
BestAreShown ==
    \A k \in Replies : k.reply.kind = "candidates" =>
        LET shown6 == {k.reply.candidates[i] : i \in DOMAIN k.reply.candidates}
        IN  \A c \in shown6, d \in Candidates(helper.matches) \ shown6 :
                \A y \in Scores(helper.matches, d) : \E x \in Scores(helper.matches, c) : x >= y

(* Every lookup uses one engine, and so one pool. *)
OneEngine == engine6 <= 1

(* A reply of the database tools is evidence: absence was read and not     *)
(* failed, open means open, lists are cut from the end and counted, and    *)
(* the lookups share one engine.                                           *)
RepliesAreTrue ==
    /\ ProcessDbTypeOK /\ NotFoundIsTrue /\ OpenIsOpen /\ ListingIsWhole
    /\ BestAreShown /\ OneEngine

=============================================================================
