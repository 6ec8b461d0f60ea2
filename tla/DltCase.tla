------------------------------ MODULE DltCase ------------------------------
(***************************************************************************)
(* One dead-lettered record through both lanes (src/api/dlt_routes.py):    *)
(* fetched by /fetch-dlt-logs, claimed, queued, analysed by /analyze-dlt   *)
(* and recorded.  The record may arrive under several refIds, each with a  *)
(* storage key of its own (src/dlt/identity.py); the claim on its case id  *)
(* (src/dlt/claims.py) is what they share.  Deliveries are retried, the    *)
(* analysis consumer gives up at its own timeout while the API works on,   *)
(* the process may die between any two steps, and on the local backend a   *)
(* claim's file is there before its text is (src/storage/local.py).        *)
(*                                                                         *)
(* The group, the single flight and the model's answer are DltGroup's and  *)
(* DltFinding's; here an analysis takes time and ends.                     *)
(***************************************************************************)
EXTENDS Integers, FiniteSets

CONSTANTS Ref,          \* refIds the record arrives under
          Worker,       \* analysis workers
          NoRef,
          Deliveries,   \* refId -> how often the fetch lane gets it at most (bound)
          MaxCaseFaults \* bound: deaths of the process and claim store failures

ASSUME DltCaseAssumption ==
    /\ NoRef \notin Ref /\ Ref # {}
    /\ IsFiniteSet(Worker)
    /\ Deliveries \in [Ref -> 1..2]
    /\ MaxCaseFaults \in Nat

VARIABLES
    backend,    \* of the storage: "s3" or "local"
    gated,      \* the service gate skips the record
    inbox,      \* refId -> deliveries the fetch lane still gets
    queue,      \* refId -> messages on the analysis queue
    claim,      \* whether it was made, who it names, and whether it is
                \* older than its TTL
    status,     \* refId -> status.json
    book,       \* refId -> casebook.json
    logs,       \* refId -> fetched_logs.txt exists
    fetch,      \* refId -> the fetch request: where it is and what it read
    work,       \* worker -> the analysis: its refId, where it is, and the
                \* consumer's own place once it has given up
    analysed,   \* refIds the model was run for
    ended,      \* how deliveries ended: skipped by the gate, dead-lettered
    crashes, claimFaults, expired

caseVars == <<backend, gated, inbox, queue, claim, status, book, logs, fetch, work, analysed,
              ended, crashes, claimFaults, expired>>
setting == <<backend, gated>>
files == <<status, book, logs>>
history == <<analysed, ended>>
faults == <<crashes, claimFaults, expired>>

NoClaim == [made |-> FALSE, holder |-> NoRef, old |-> FALSE]
ClaimOf(d) == [made |-> TRUE, holder |-> d, old |-> FALSE]
NoFetch == [at |-> "idle", holder |-> NoRef, old |-> FALSE, status |-> "none"]
NoWork == [ref |-> NoRef, at |-> "idle", gaveUp |-> "no"]

(* The verdict of an analysis, NEEDS_MANUAL_REVIEW or COMPLETED, and the   *)
(* one recorded for it by others.                                          *)
Terminals == {"COMPLETED", "FAILED_TIMEOUT"}
Protected == {"FAILED_TIMEOUT"}

CaseTypeOK ==
    /\ inbox \in [Ref -> 0..2 + MaxCaseFaults]
    /\ claim \in [made : BOOLEAN, holder : Ref \cup {NoRef}, old : BOOLEAN]
    /\ claim.holder # NoRef => claim.made
    /\ status \in [Ref -> {"none", "LOGS_FETCHED"} \cup Terminals]
    /\ book \in [Ref -> {"none"} \cup Terminals]
    /\ \A w \in Worker : work[w].at = "idle" <=> work[w].ref = NoRef
    /\ \A w \in Worker : work[w].ref # NoRef => logs[work[w].ref]

CaseInit ==
    /\ backend \in {"s3", "local"} /\ gated \in BOOLEAN
    /\ inbox \in [Ref -> 1..2] /\ (\A d \in Ref : inbox[d] <= Deliveries[d])
    /\ queue = [d \in Ref |-> 0]
    /\ claim = NoClaim
    /\ status = [d \in Ref |-> "none"] /\ book = [d \in Ref |-> "none"]
    /\ logs = [d \in Ref |-> FALSE]
    /\ fetch = [d \in Ref |-> NoFetch] /\ work = [w \in Worker |-> NoWork]
    /\ analysed = {} /\ ended = {}
    /\ crashes = 0 /\ claimFaults = 0 /\ expired = FALSE

(* storage.terminal_status reads status.json and then casebook.json. *)
TerminalStatus(d) ==
    IF status[d] \in Terminals THEN status[d]
    ELSE IF book[d] \in Terminals THEN book[d] ELSE "none"

Finished(d) == TerminalStatus(d) # "none"

-----------------------------------------------------------------------------
(* /fetch-dlt-logs *)

FetchAt(d, place) == fetch[d].at = place
FetchGoes(d, place) == fetch' = [fetch EXCEPT ![d].at = place]
FetchEnds(d) == fetch' = [fetch EXCEPT ![d] = NoFetch]

(* DltAdapter.should_skip, and the route's first check again *)
Skips(d) == Finished(d)

DeliverFetch(d) ==
    /\ FetchAt(d, "idle") /\ inbox[d] > 0
    /\ inbox' = [inbox EXCEPT ![d] = @ - 1]
    /\ IF Skips(d) THEN UNCHANGED fetch ELSE FetchGoes(d, "gate")
    /\ UNCHANGED <<setting, queue, claim, files, work, history, faults>>

FetchGate(d) ==
    /\ FetchAt(d, "gate")
    /\ IF gated THEN FetchEnds(d) /\ ended' = ended \cup {"skipped"}
       ELSE FetchGoes(d, "claim") /\ UNCHANGED ended
    /\ UNCHANGED <<setting, inbox, queue, claim, files, work, analysed, faults>>

(* create_json never shows an empty file. *)
AtomicCreate == backend = "s3"

(* _claim: create the claim, or find it there.  The alias beside it is for *)
(* operators only.                                                         *)
CreateClaim(d) ==
    /\ FetchAt(d, "claim")
    /\ \/ claim.made /\ UNCHANGED claim /\ FetchGoes(d, "load")
       \/ /\ ~claim.made
          /\ claim' = ClaimOf(IF AtomicCreate THEN d ELSE NoRef)
          /\ FetchGoes(d, IF AtomicCreate THEN "evidence" ELSE "write")
    /\ UNCHANGED <<setting, inbox, queue, files, work, history, faults>>

(* The text of a file just created.  One that was replaced meanwhile keeps *)
(* its replacement.                                                        *)
WriteClaim(d) ==
    /\ FetchAt(d, "write")
    /\ claim' = (IF claim.holder = NoRef THEN ClaimOf(d) ELSE claim)
    /\ FetchGoes(d, "evidence")
    /\ UNCHANGED <<setting, inbox, queue, files, work, history, faults>>

(* claim_case fails open.  A text that cannot be written takes the file,   *)
(* whosever it is by now, with it.                                         *)
ClaimStoreFails(d) ==
    /\ fetch[d].at \in {"claim", "write", "load", "takeover"}
    /\ crashes + claimFaults < MaxCaseFaults /\ claimFaults' = claimFaults + 1
    /\ claim' = (IF FetchAt(d, "write") THEN NoClaim ELSE claim)
    /\ FetchGoes(d, "evidence")
    /\ UNCHANGED <<setting, inbox, queue, files, work, history, crashes, expired>>

(* Storage answers None for a claim without its text, for one that is gone *)
(* and, on S3, for one it could not read.                                  *)
LoadClaim(d) ==
    /\ FetchAt(d, "load")
    /\ \/ /\ fetch' = [fetch EXCEPT ![d].at = "judge", ![d].holder = claim.holder,
                                     ![d].old = claim.old]
          /\ UNCHANGED claimFaults
       \/ /\ crashes + claimFaults < MaxCaseFaults /\ claimFaults' = claimFaults + 1
          /\ fetch' = [fetch EXCEPT ![d].at = "judge", ![d].holder = NoRef, ![d].old = FALSE]
    /\ UNCHANGED <<setting, inbox, queue, claim, files, work, history, crashes, expired>>

(* Variant: a holder that has not finished is presumed dead. *)
JudgeClaimImpatient(d) ==
    LET holder == fetch[d].holder IN
    /\ FetchAt(d, "judge")
    /\ IF holder = d THEN FetchGoes(d, "evidence")
       ELSE IF holder = NoRef \/ ~Finished(holder) THEN FetchGoes(d, "takeover")
       ELSE FetchEnds(d)
    /\ UNCHANGED <<setting, inbox, queue, claim, files, work, history, faults>>

(* Variant: a delivery that finds its own claim takes it for a duplicate's. *)
JudgeClaimOnce(d) ==
    LET holder == fetch[d].holder IN
    /\ FetchAt(d, "judge")
    /\ IF holder = NoRef \/ (fetch[d].old /\ ~Finished(holder)) THEN FetchGoes(d, "takeover")
       ELSE FetchEnds(d)
    /\ UNCHANGED <<setting, inbox, queue, claim, files, work, history, faults>>

(* A claim that names nobody is taken over whatever its age. *)
JudgeClaim(d) ==
    LET holder == fetch[d].holder IN
    /\ FetchAt(d, "judge")
    /\ IF holder = d THEN FetchGoes(d, "evidence")
       ELSE IF holder = NoRef \/ (fetch[d].old /\ ~Finished(holder)) THEN FetchGoes(d, "takeover")
       ELSE FetchEnds(d)
    /\ UNCHANGED <<setting, inbox, queue, claim, files, work, history, faults>>

(* A plain write: two deliveries that judged the same claim dead both make *)
(* it.                                                                     *)
TakeOver(d) ==
    /\ FetchAt(d, "takeover")
    /\ claim' = ClaimOf(d)
    /\ FetchGoes(d, "evidence")
    /\ UNCHANGED <<setting, inbox, queue, files, work, history, faults>>

(* Headers, trace, payload summary and service; then the logs, or a note   *)
(* of why there are none; then the running build.                          *)
PersistEvidence(d) ==
    /\ FetchAt(d, "evidence")
    /\ logs' = [logs EXCEPT ![d] = TRUE]
    /\ FetchGoes(d, "status")
    /\ UNCHANGED <<setting, inbox, queue, claim, status, book, work, history, faults>>

ReadStatus(d) ==
    /\ FetchAt(d, "status")
    /\ fetch' = [fetch EXCEPT ![d].at = "mark", ![d].status = status[d]]
    /\ UNCHANGED <<setting, inbox, queue, claim, files, work, history, faults>>

MarkFetched(d) ==
    /\ FetchAt(d, "mark")
    /\ status' = (IF fetch[d].status \in {"none", "LOGS_FETCHED"}
                  THEN [status EXCEPT ![d] = "LOGS_FETCHED"] ELSE status)
    /\ FetchGoes(d, "publish")
    /\ UNCHANGED <<setting, inbox, queue, claim, book, logs, work, history, faults>>

(* Variant: the message is published before its evidence is stored. *)
PublishFirst(d) ==
    /\ fetch[d].at \in {"evidence", "publish"} /\ queue[d] = 0
    /\ queue' = [queue EXCEPT ![d] = @ + 1]
    /\ FetchEnds(d)
    /\ UNCHANGED <<setting, inbox, claim, files, work, history, faults>>

Publish(d) ==
    /\ FetchAt(d, "publish")
    /\ queue' = [queue EXCEPT ![d] = @ + 1]
    /\ FetchEnds(d)
    /\ UNCHANGED <<setting, inbox, claim, files, work, history, faults>>

(* A storage or broker error fails the request; the consumer dead-letters  *)
(* the record.                                                             *)
FetchFails(d) ==
    /\ fetch[d].at \in {"evidence", "publish"}
    /\ FetchEnds(d) /\ ended' = ended \cup {"dead-lettered"}
    /\ UNCHANGED <<setting, inbox, queue, claim, files, work, analysed, faults>>

-----------------------------------------------------------------------------
(* /analyze-dlt *)

WorkAt(w, place) == work[w].at = place
WorkGoes(w, place) == work' = [work EXCEPT ![w].at = place]

(* The request ends; the worker is free unless its consumer thread is      *)
(* still recording the timeout.                                            *)
WorkEnds(w) == work' = [work EXCEPT ![w] = NoWork]

DeliverAnalysis(w) ==
    /\ WorkAt(w, "idle")
    /\ \E d \in Ref :
        /\ queue[d] > 0
        /\ queue' = [queue EXCEPT ![d] = @ - 1]
        /\ work' = (IF Skips(d) THEN work
                    ELSE [work EXCEPT ![w] = [ref |-> d, at |-> "holder", gaveUp |-> "no"]])
    /\ UNCHANGED <<setting, inbox, claim, files, fetch, history, faults>>

(* holder_of: the delivery itself, or an unclaimed record, is no obstacle. *)
HeldByOther(d) == claim.holder \notin {NoRef, d}

(* Another delivery of the record holds it, or the claim cannot be read.   *)
CheckHolder(w) ==
    LET d == work[w].ref IN
    /\ WorkAt(w, "holder")
    /\ \/ ~HeldByOther(d) /\ WorkGoes(w, "gate") /\ UNCHANGED claimFaults
       \/ HeldByOther(d) /\ WorkEnds(w) /\ UNCHANGED claimFaults
       \/ /\ crashes + claimFaults < MaxCaseFaults /\ claimFaults' = claimFaults + 1
          /\ WorkGoes(w, "gate")
    /\ UNCHANGED <<setting, inbox, queue, claim, files, fetch, history, crashes, expired>>

(* dlt_gate again, for a service switched off while its records waited. *)
AnalysisGate(w) ==
    /\ WorkAt(w, "gate")
    /\ \/ gated /\ WorkEnds(w) /\ ended' = ended \cup {"skipped"} /\ UNCHANGED analysed
       \/ /\ ~gated /\ WorkGoes(w, "running") /\ analysed' = analysed \cup {work[w].ref}
          /\ UNCHANGED ended
    /\ UNCHANGED <<setting, inbox, queue, claim, files, fetch, faults>>

(* The finding is there; the replay and parking gates (DltReplay) follow. *)
Analysed(w) ==
    /\ WorkAt(w, "running")
    /\ WorkGoes(w, "guard")
    /\ UNCHANGED <<setting, inbox, queue, claim, files, fetch, history, faults>>

LateGuard(w) ==
    /\ WorkAt(w, "guard")
    /\ IF TerminalStatus(work[w].ref) \in Protected THEN WorkEnds(w) ELSE WorkGoes(w, "book")
    /\ UNCHANGED <<setting, inbox, queue, claim, files, fetch, history, faults>>

(* Variant: status.json is written first. *)
SaveBookAfterStatus(w) ==
    /\ WorkAt(w, "book")
    /\ status' = [status EXCEPT ![work[w].ref] = "COMPLETED"]
    /\ WorkGoes(w, "status")
    /\ UNCHANGED <<setting, inbox, queue, claim, book, logs, fetch, history, faults>>

(* save_dlt_casebook: checked against the contract, then casebook.json and *)
(* then status.json.                                                       *)
SaveBook(w) ==
    /\ WorkAt(w, "book")
    /\ book' = [book EXCEPT ![work[w].ref] = "COMPLETED"]
    /\ WorkGoes(w, "status")
    /\ UNCHANGED <<setting, inbox, queue, claim, status, logs, fetch, history, faults>>

SaveStatus(w) ==
    /\ WorkAt(w, "status")
    /\ status' = [status EXCEPT ![work[w].ref] = "COMPLETED"]
    /\ WorkEnds(w)
    /\ UNCHANGED <<setting, inbox, queue, claim, book, logs, fetch, history, faults>>

AnalysisFails(w) ==
    /\ work[w].at \in {"running", "book"} /\ work[w].gaveUp = "no"
    /\ WorkEnds(w) /\ ended' = ended \cup {"dead-lettered"}
    /\ UNCHANGED <<setting, inbox, queue, claim, files, fetch, analysed, faults>>

(* The server's budget ends first: the same two writes, and the offset is  *)
(* done with.                                                              *)
ServerTimeout(w) ==
    /\ WorkAt(w, "running") /\ work[w].gaveUp = "no"
    /\ book' = [book EXCEPT ![work[w].ref] = "FAILED_TIMEOUT"]
    /\ WorkGoes(w, "timeout")
    /\ UNCHANGED <<setting, inbox, queue, claim, status, logs, fetch, history, faults>>

ServerTimeoutStatus(w) ==
    /\ WorkAt(w, "timeout")
    /\ status' = [status EXCEPT ![work[w].ref] = "FAILED_TIMEOUT"]
    /\ WorkEnds(w)
    /\ UNCHANGED <<setting, inbox, queue, claim, book, logs, fetch, history, faults>>

(* The consumer's client timeout: it records FAILED_TIMEOUT and then       *)
(* dead-letters the message, while the request goes on.                    *)
ClientTimeout(w) ==
    /\ work[w].at \in {"running", "guard", "book"}
    /\ \/ /\ work[w].gaveUp = "no"
          /\ book' = [book EXCEPT ![work[w].ref] = "FAILED_TIMEOUT"]
          /\ work' = [work EXCEPT ![w].gaveUp = "status"]
          /\ UNCHANGED <<status, ended>>
       \/ /\ work[w].gaveUp = "status"
          /\ status' = [status EXCEPT ![work[w].ref] = "FAILED_TIMEOUT"]
          /\ work' = [work EXCEPT ![w].gaveUp = "yes"]
          /\ ended' = ended \cup {"dead-lettered"} /\ UNCHANGED book
    /\ UNCHANGED <<setting, inbox, queue, claim, logs, fetch, analysed, faults>>

-----------------------------------------------------------------------------

(* The DLT lane is switched off for the record's service. *)
SwitchOff ==
    /\ ~gated /\ gated' = TRUE
    /\ UNCHANGED <<backend, inbox, queue, claim, files, fetch, work, history, faults>>

ClaimExpires ==
    /\ claim.holder # NoRef /\ ~claim.old
    /\ claim' = [claim EXCEPT !.old = TRUE] /\ expired' = TRUE
    /\ UNCHANGED <<setting, inbox, queue, files, fetch, work, history, crashes, claimFaults>>

(* The process dies; what it had not answered is delivered again. *)
CaseCrash ==
    /\ crashes + claimFaults < MaxCaseFaults /\ crashes' = crashes + 1
    /\ inbox' = [d \in Ref |-> inbox[d] + (IF FetchAt(d, "idle") THEN 0 ELSE 1)]
    /\ queue' = [d \in Ref |-> queue[d] + Cardinality({w \in Worker :
                     work[w].ref = d /\ work[w].gaveUp # "yes"})]
    /\ fetch' = [d \in Ref |-> NoFetch] /\ work' = [w \in Worker |-> NoWork]
    /\ UNCHANGED <<setting, claim, files, history, claimFaults, expired>>

CaseNext ==
    \/ \E d \in Ref : \/ DeliverFetch(d) \/ FetchGate(d) \/ CreateClaim(d) \/ WriteClaim(d)
                      \/ ClaimStoreFails(d) \/ LoadClaim(d) \/ JudgeClaim(d) \/ TakeOver(d)
                      \/ PersistEvidence(d) \/ ReadStatus(d) \/ MarkFetched(d) \/ Publish(d)
                      \/ FetchFails(d)
    \/ \E w \in Worker : \/ DeliverAnalysis(w) \/ CheckHolder(w) \/ AnalysisGate(w)
                         \/ Analysed(w) \/ LateGuard(w) \/ SaveBook(w) \/ SaveStatus(w)
                         \/ AnalysisFails(w) \/ ServerTimeout(w) \/ ServerTimeoutStatus(w)
                         \/ ClientTimeout(w)
    \/ SwitchOff \/ ClaimExpires \/ CaseCrash

CaseSpec == CaseInit /\ [][CaseNext]_caseVars

-----------------------------------------------------------------------------

(* On S3 a record that arrives under several refIds is analysed under one  *)
(* of them, unless a claim outlived its TTL or the claim store failed: the *)
(* claim the fetch lane takes, and the holder the analysis lane checks.    *)
OneAnalysis ==
    AtomicCreate /\ ~expired /\ claimFaults = 0 => Cardinality(analysed) <= 1

(* Not checked, and false: the same on the local backend.  A claim read    *)
(* before its text is there is taken over from a live holder               *)
(* (src/dlt/claims.py:131).                                                *)
OneAnalysisLocally ==
    ~expired /\ claimFaults = 0 => Cardinality(analysed) <= 1

(* When every delivery has been answered and both queues are empty, the    *)
(* record has a verdict under some key, was dead-lettered, or was skipped  *)
(* by its service's gate: of the deliveries dropped as duplicates, however *)
(* their takeovers raced, one was always carried through.                  *)
DropsCovered ==
    (\A d \in Ref : inbox[d] = 0 /\ queue[d] = 0 /\ FetchAt(d, "idle"))
    /\ (\A w \in Worker : WorkAt(w, "idle"))
        => ended # {} \/ \E d \in Ref : Finished(d)

(* A verdict once visible stays visible: a redelivered fetch that read the *)
(* status earlier may write LOGS_FETCHED over it, and the casebook still   *)
(* shows it.                                                               *)
SettledStaysSettled == \A d \in Ref : Finished(d) => Finished(d)'

(* A record that arrives under several refIds is analysed under one of     *)
(* them on S3, and on either backend its deliveries dropped as duplicates  *)
(* are covered by one that was carried through, however claims and         *)
(* takeovers race.                                                         *)
RecordCarriedThrough ==
    CaseTypeOK /\ OneAnalysis /\ DropsCovered

=============================================================================
