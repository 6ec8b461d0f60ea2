----------------------------- MODULE CaseStore -----------------------------
(***************************************************************************)
(* The storage both lanes share: read-modify-write of a group record       *)
(* (CasebookStorage.update_json) and create-only writes (create_json), on  *)
(* S3 with conditional writes (src/storage/s3.py) or on a local disk under *)
(* a file lock (src/storage/local.py), as src/dlt/groups.py uses them.     *)
(*                                                                         *)
(* One group record, one claim, several processes.  An entity tag is the   *)
(* revision it names: every write carries a time stamp, so no two are      *)
(* equal.  The S3 client may repeat a request whose answer was lost.       *)
(***************************************************************************)
EXTENDS Integers, Sequences, FiniteSets, FiniteSetsExt, SequencesExt

CONSTANTS Pod,             \* processes
          Case4,           \* dead-letter records of the group
          MemberCap,       \* member_cap
          MaxAttempts4,    \* UPDATE_MAX_ATTEMPTS
          Endpoints,       \* the stores to consider: backend, tag forms accepted, pinned form
          MaxJobs,         \* bound: calls
          MaxStoreFaults   \* bound: failed reads, lost answers and corrupt records

ASSUME StoreAssumption ==
    /\ MemberCap \in Nat \ {0} /\ MaxAttempts4 \in Nat \ {0} /\ {MaxJobs, MaxStoreFaults} \subseteq Nat
    /\ Endpoints \subseteq [backend : {"s3", "local"}, accepts : SUBSET {"quoted", "bare"},
                            pinned : {"auto", "quoted", "bare"}]

VARIABLES endpoint,    \* the store
          record,      \* group.json: its revision, whether it parses, its document
          made,        \* who created the claim
          style,       \* the tag form each process has latched
          call,        \* the call each process is in
          ended4,      \* the calls that have ended, and how
          rebuilt,     \* the record was corrupt once
          jobs, faults4

storeVars == <<endpoint, record, made, style, call, ended4, rebuilt, jobs, faults4>>

NoDoc == [count |-> 0, members |-> <<>>, kept |-> {}]    \* kept: whose updates it includes
NoCall == [at |-> "idle", case |-> "none", attempt |-> 0, etag |-> 0, doc |-> NoDoc,
           refused |-> 0, forms |-> <<>>, from |-> 0]

StoreTypeOK ==
    /\ record.doc.count \in Nat /\ Len(record.doc.members) <= MemberCap
    /\ record.rev = 0 => record.doc = NoDoc
    /\ \A p \in Pod : call[p].attempt \in 0..(MaxAttempts4 - 1)
    /\ Cardinality({p \in Pod : call[p].at = "locked"}) <= 1

StoreInit ==
    /\ endpoint \in Endpoints
    /\ record = [rev |-> 0, valid |-> TRUE, doc |-> NoDoc] /\ made = {}
    /\ style = [p \in Pod |-> endpoint.pinned]
    /\ call = [p \in Pod |-> NoCall] /\ ended4 = {} /\ rebuilt = FALSE
    /\ jobs = 0 /\ faults4 = 0

At4(p, place) == call[p].at = place
Fault4 == faults4 < MaxStoreFaults /\ faults4' = faults4 + 1
S3 == endpoint.backend = "s3"

Ends4(p, how) ==
    /\ call' = [call EXCEPT ![p] = NoCall]
    /\ ended4' = ended4 \cup {[case |-> call[p].case, how |-> how, lost |-> record.rev - call[p].from]}

-----------------------------------------------------------------------------
(* The startup probe latches the form the endpoint accepts. *)

Probe(p) ==
    /\ S3 /\ At4(p, "idle") /\ style[p] = "auto" /\ endpoint.accepts # {}
    /\ style' = [style EXCEPT ![p] = IF "quoted" \in endpoint.accepts THEN "quoted" ELSE "bare"]
    /\ UNCHANGED <<endpoint, record, made, call, ended4, rebuilt, jobs, faults4>>

(* _etag_forms: the server returns tags quoted. *)
Forms(p) == IF style[p] = "auto" THEN <<"quoted", "bare">> ELSE <<style[p]>>

Begin4(p, op, case) ==
    /\ At4(p, "idle") /\ jobs < MaxJobs /\ jobs' = jobs + 1
    /\ call' = [call EXCEPT ![p] = [NoCall EXCEPT !.case = case, !.from = record.rev,
                    !.at = IF op = "create" THEN "create" ELSE IF S3 THEN "load" ELSE "lock"]]
    /\ UNCHANGED <<endpoint, record, made, style, ended4, rebuilt, faults4>>

-----------------------------------------------------------------------------
(* groups.record_occurrence: a case is counted once while it is a member. *)

LastN(n, s) == SubSeq(s, Max({1, Len(s) - n + 1}), Len(s))

(* Variant: every delivery counts. *)
MutateBlindly(doc, case) ==
    [count |-> doc.count + 1, members |-> LastN(MemberCap, Append(doc.members, case)),
     kept |-> doc.kept \cup {case}]

Mutate(doc, case) ==
    IF Contains(doc.members, case) THEN doc
    ELSE [count |-> doc.count + 1, members |-> LastN(MemberCap, Append(doc.members, case)),
          kept |-> doc.kept \cup {case}]

(* A corrupt record reads as none, and is replaced under its own tag. *)
Readable == IF record.valid THEN record.doc ELSE NoDoc

Write(doc) == record' = [rev |-> record.rev + 1, valid |-> TRUE, doc |-> doc]

(* Variant: a record that cannot be read is taken for one that is absent. *)
LoadFailsAsAbsent(p) ==
    /\ At4(p, "load") /\ Fault4
    /\ call' = [call EXCEPT ![p].at = "put", ![p].etag = 0, ![p].doc = NoDoc, ![p].forms = Forms(p)]
    /\ UNCHANGED <<endpoint, record, made, style, ended4, rebuilt, jobs>>

(* update_json on S3.  The read fails for another reason than absence. *)
LoadFails(p) ==
    /\ At4(p, "load") /\ Fault4 /\ Ends4(p, "unreadable")
    /\ UNCHANGED <<endpoint, record, made, style, rebuilt, jobs>>

(* Tag 0 stands for an absent record, to be created only. *)
LoadWithEtag(p) ==
    /\ At4(p, "load")
    /\ call' = [call EXCEPT ![p].at = "put", ![p].etag = record.rev, ![p].doc = Readable,
                            ![p].forms = IF record.rev = 0 THEN <<"none">> ELSE Forms(p)]
    /\ UNCHANGED <<endpoint, record, made, style, ended4, rebuilt, jobs, faults4>>

(* Variant: the write carries no precondition. *)
AcceptedAlways(p) == Head(call[p].forms) \in endpoint.accepts \cup {"none"}

(* The store takes a write whose precondition holds. *)
Accepted(p) == Head(call[p].forms) \in endpoint.accepts \cup {"none"} /\ call[p].etag = record.rev

Latch(p) ==
    style' = (IF style[p] = "auto" /\ Head(call[p].forms) # "none"
              THEN [style EXCEPT ![p] = Head(call[p].forms)] ELSE style)

PutLands(p) ==
    /\ At4(p, "put") /\ call[p].forms # <<>> /\ Accepted(p)
    /\ Write(Mutate(call[p].doc, call[p].case)) /\ Latch(p) /\ Ends4(p, "updated")
    /\ UNCHANGED <<endpoint, made, rebuilt, jobs, faults4>>

(* The write is applied and its answer lost: the call fails, or the client *)
(* repeats the request and is refused, its own write having changed the tag.*)
PutLandsUnanswered(p) ==
    /\ At4(p, "put") /\ call[p].forms # <<>> /\ Accepted(p) /\ Fault4
    /\ Write(Mutate(call[p].doc, call[p].case))
    /\ \/ Ends4(p, "raised")
       \/ call' = [call EXCEPT ![p].forms = Tail(@)] /\ UNCHANGED ended4
    /\ UNCHANGED <<endpoint, made, style, rebuilt, jobs>>

PutRefused(p) ==
    /\ At4(p, "put") /\ call[p].forms # <<>> /\ ~Accepted(p)
    /\ call' = [call EXCEPT ![p].forms = Tail(@)]
    /\ UNCHANGED <<endpoint, record, made, style, ended4, rebuilt, jobs, faults4>>

(* Variant: the first refusal is taken for a store without conditional writes. *)
UnsupportedAtOnce(p) == call[p].etag # 0

(* Two refusals of one tag: no retry can help. *)
Unsupported(p) == call[p].etag # 0 /\ call[p].etag = call[p].refused

NextAttempt(p) ==
    /\ At4(p, "put") /\ call[p].forms = <<>>
    /\ \/ Unsupported(p) /\ Ends4(p, "unsupported")
       \/ ~Unsupported(p) /\ call[p].attempt + 1 = MaxAttempts4 /\ Ends4(p, "exhausted")
       \/ /\ ~Unsupported(p) /\ call[p].attempt + 1 < MaxAttempts4
          /\ call' = [call EXCEPT ![p].at = "load", ![p].attempt = @ + 1, ![p].refused = call[p].etag,
                                  ![p].doc = NoDoc]
          /\ UNCHANGED ended4
    /\ UNCHANGED <<endpoint, record, made, style, rebuilt, jobs, faults4>>

-----------------------------------------------------------------------------
(* update_json on a disk: the file's lock is held from the read to the     *)
(* replacement, which may fail.                                            *)

(* Variant: the lock is not waited for. *)
LocalLockAtOnce(p) ==
    /\ At4(p, "lock")
    /\ call' = [call EXCEPT ![p].at = "locked", ![p].doc = Readable]
    /\ UNCHANGED <<endpoint, record, made, style, ended4, rebuilt, jobs, faults4>>

LocalLock(p) ==
    /\ At4(p, "lock") /\ \A q \in Pod : ~At4(q, "locked")
    /\ call' = [call EXCEPT ![p].at = "locked", ![p].doc = Readable]
    /\ UNCHANGED <<endpoint, record, made, style, ended4, rebuilt, jobs, faults4>>

LocalReplace(p) ==
    /\ At4(p, "locked")
    /\ \/ Write(Mutate(call[p].doc, call[p].case)) /\ Ends4(p, "updated") /\ UNCHANGED faults4
       \/ Fault4 /\ Ends4(p, "raised") /\ UNCHANGED record
    /\ UNCHANGED <<endpoint, made, style, rebuilt, jobs>>

(* The lock is not had in time. *)
LockTimesOut(p) ==
    /\ At4(p, "lock") /\ \E q \in Pod : At4(q, "locked")
    /\ Ends4(p, "raised")
    /\ UNCHANGED <<endpoint, record, made, style, rebuilt, jobs, faults4>>

-----------------------------------------------------------------------------
(* create_json: If-None-Match, or O_EXCL. *)

(* Variant: whoever writes first or last is told it created the record. *)
CreateBlindly(p) ==
    /\ At4(p, "create") /\ made' = made \cup {p} /\ Ends4(p, "created")
    /\ UNCHANGED <<endpoint, record, style, rebuilt, jobs, faults4>>

Create(p) ==
    /\ At4(p, "create")
    /\ \/ made = {} /\ made' = {p} /\ Ends4(p, "created") /\ UNCHANGED faults4
       \/ made # {} /\ Ends4(p, "exists") /\ UNCHANGED <<made, faults4>>
       \/ made = {} /\ S3 /\ Fault4 /\ made' = {p} /\ \E how \in {"raised", "exists"} : Ends4(p, how)
    /\ UNCHANGED <<endpoint, record, style, rebuilt, jobs>>

(* Something else leaves the record unparsable. *)
Corrupt ==
    /\ record.rev > 0 /\ record.valid /\ Fault4
    /\ record' = [record EXCEPT !.rev = @ + 1, !.valid = FALSE] /\ rebuilt' = TRUE
    /\ UNCHANGED <<endpoint, made, style, call, ended4, jobs>>

StoreNext ==
    \/ Corrupt
    \/ \E p \in Pod :
        \/ Probe(p) \/ LoadFails(p) \/ LoadWithEtag(p) \/ PutLands(p) \/ PutLandsUnanswered(p)
        \/ PutRefused(p) \/ NextAttempt(p) \/ LocalLock(p) \/ LocalReplace(p) \/ LockTimesOut(p)
        \/ Create(p) \/ Begin4(p, "create", "none")
        \/ \E c \in Case4 : Begin4(p, "update", c)

StoreSpec == StoreInit /\ [][StoreNext]_storeVars

-----------------------------------------------------------------------------

(* An update that was reported is in the record, however many processes    *)
(* wrote it at once and whatever answers were lost.                        *)
UpdatesKept ==
    ~rebuilt => \A e \in ended4 : e.how = "updated" => e.case \in record.doc.kept

(* A case counts once: redelivered, or applied twice because the answer to *)
(* its first write was lost, unless members were dropped at the cap.       *)
CountedOnce ==
    Cardinality(record.doc.kept) <= MemberCap => record.doc.count = Cardinality(record.doc.kept)

CanOverwrite == IF endpoint.pinned = "auto" THEN endpoint.accepts # {} ELSE endpoint.pinned \in endpoint.accepts

(* A store is said not to support conditional writes only if it accepts    *)
(* none of the forms a call may present: contention is not taken for it.   *)
UnsupportedIsTrue ==
    CanOverwrite => \A e \in ended4 : e.how # "unsupported"

(* An update that gives up has lost as many rounds as it had: the record   *)
(* was written that often meanwhile, or cannot be overwritten at all.      *)
GivesUpForCause ==
    CanOverwrite => \A e \in ended4 : e.how = "exhausted" => e.lost >= MaxAttempts4

(* One create-only write of a name is told that it made it. *)
CreatedOnce == Cardinality(made) <= 1

(* update_json and create_json keep their promise on every store: a        *)
(* reported update is in the record and counts once, one creator wins, and *)
(* an update that gives up was out of rounds or could not be written at    *)
(* all.                                                                    *)
UpdatesAreAtomic ==
    /\ StoreTypeOK /\ UpdatesKept /\ CountedOnce /\ UnsupportedIsTrue
    /\ GivesUpForCause /\ CreatedOnce

=============================================================================
