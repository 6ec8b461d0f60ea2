--------------------------- MODULE KafkaConsumer ---------------------------
(***************************************************************************)
(* The consumer process of src/utils/kafkaConsumer.py, run by several      *)
(* members of one consumer group.  Every role (fast, slow, dlt,            *)
(* dlt_analysis) runs this same loop; the roles differ only in what        *)
(* message_adapters.py calls poison, skippable and terminal.               *)
(*                                                                         *)
(* Threads of a member: the poll loop (pc, hand) and the worker pool       *)
(* (slot).  They share the OffsetTracker (dispatched, completed) and the   *)
(* semaphore (sem).  The broker (committed, owner, dlq), the internal      *)
(* endpoint (acked) and the case storage (cases) are environment.          *)
(*                                                                         *)
(* A partition's backlog is the interval head .. pos-1: poll() returns a   *)
(* partition's records in order and the deque is popped oldest first, so   *)
(* the undispatched records of one partition are always contiguous.  The   *)
(* order in which the deque interleaves partitions is left open.           *)
(***************************************************************************)
EXTENDS Integers, FiniteSets

CONSTANTS Member,          \* consumer processes of one group
          Partition,       \* topic partitions
          LogLen,          \* messages per partition
          Poison,          \* messages parse() rejects
          SkipRule,        \* messages should_skip() refuses on their status alone
          MaxConcurrent,   \* MAX_CONCURRENT_INVESTIGATIONS
          MaxPollRecords,  \* KAFKA_MAX_POLL_RECORDS
          NoMember,        \* owner of a partition nobody has been assigned
          MaxFaults,       \* bound: crashes, evictions, rebalances, shutdowns
          MaxCommitFaults, \* bound: commits the broker refuses or loses
          MaxDlqFaults     \* bound: DLQ publishes that raise

Offset == 0 .. LogLen - 1
Msg == Partition \X Offset
Slot == 1 .. MaxConcurrent

ASSUME ConstantsAssumption ==
    /\ LogLen \in Nat
    /\ MaxConcurrent \in Nat
    /\ MaxPollRecords \in Nat
    /\ MaxFaults \in Nat
    /\ MaxCommitFaults \in Nat
    /\ MaxDlqFaults \in Nat
    /\ Poison \subseteq Msg
    /\ SkipRule \subseteq Msg
    /\ NoMember \notin Member

VARIABLES
    committed,   \* broker: the group's committed position, per partition
    owner,       \* broker: the member the current generation gave a partition to
    dlq,         \* broker: messages on the dead-letter queue
    acked,       \* endpoint: messages it answered 2xx
    cases,       \* storage: "none", "settled" by the endpoint, or "timeout"
    pc,          \* poll loop: where _poll_once / _drain_and_commit stands
    hand,        \* poll loop: the message _handle_one_message is holding
    assigned,    \* consumer.assignment()
    head,        \* first undispatched offset of the backlog
    pos,         \* next offset to fetch
    dispatched,  \* OffsetTracker._dispatched
    completed,   \* OffsetTracker._completed
    pend,        \* commits taken from the tracker; 0 means no entry
    sem,         \* _queue_semaphore
    slot,        \* _worker_pool: what each worker thread is doing
    shutdown,    \* _shutdown
    faults, commitFaults, dlqFaults

brokerVars == <<committed, owner>>
loopVars == <<pc, assigned, head, pos, pend, shutdown>>
trackerVars == <<dispatched, completed>>
budgets == <<faults, commitFaults, dlqFaults>>
vars == <<brokerVars, dlq, acked, cases, loopVars, hand, trackerVars,
          sem, slot, budgets>>

WorkerPc == {"forward", "save", "dlqTimeout", "dlqError",
             "complete", "abandon", "release"}
Idle == [pc |-> "idle"]
SlotState == {Idle} \cup [pc : WorkerPc, p : Partition, o : Offset]
LoopPc == {"take", "send", "dispatch", "poll", "redispatch",
           "drain", "drainSend", "closed"}

\* Well-typed states.
TypeOK ==
    /\ committed \in [Partition -> 0 .. LogLen]
    /\ owner \in [Partition -> Member \cup {NoMember}]
    /\ dlq \in SUBSET Msg
    /\ acked \in SUBSET Msg
    /\ cases \in [Msg -> {"none", "settled", "timeout"}]
    /\ pc \in [Member -> LoopPc]
    /\ hand \in [Member -> SUBSET Msg]
    /\ assigned \in [Member -> SUBSET Partition]
    /\ head \in [Member -> [Partition -> 0 .. LogLen]]
    /\ pos \in [Member -> [Partition -> 0 .. LogLen]]
    /\ dispatched \in [Member -> [Partition -> SUBSET Offset]]
    /\ completed \in [Member -> [Partition -> SUBSET Offset]]
    /\ pend \in [Member -> [Partition -> 0 .. LogLen]]
    /\ sem \in [Member -> Nat]
    /\ slot \in [Member -> [Slot -> SlotState]]
    /\ shutdown \in [Member -> BOOLEAN]
    /\ faults \in 0 .. MaxFaults
    /\ commitFaults \in 0 .. MaxCommitFaults
    /\ dlqFaults \in 0 .. MaxDlqFaults

NoOffsets == [p \in Partition |-> {}]
ZeroOffsets == [p \in Partition |-> 0]

Init ==
    /\ committed = ZeroOffsets
    /\ owner = [p \in Partition |-> NoMember]
    /\ dlq = {}
    /\ acked = {}
    /\ cases = [x \in Msg |-> "none"]
    /\ pc = [m \in Member |-> "take"]
    /\ hand = [m \in Member |-> {}]
    /\ assigned = [m \in Member |-> {}]
    /\ head = [m \in Member |-> ZeroOffsets]
    /\ pos = [m \in Member |-> ZeroOffsets]
    /\ dispatched = [m \in Member |-> NoOffsets]
    /\ completed = [m \in Member |-> NoOffsets]
    /\ pend = [m \in Member |-> ZeroOffsets]
    /\ sem = [m \in Member |-> MaxConcurrent]
    /\ slot = [m \in Member |-> [s \in Slot |-> Idle]]
    /\ shutdown = [m \in Member |-> FALSE]
    /\ faults = 0 /\ commitFaults = 0 /\ dlqFaults = 0

----------------------------------------------------------------------------
(* Failure budgets. *)

SpendFault ==
    /\ faults < MaxFaults
    /\ faults' = faults + 1
    /\ UNCHANGED <<commitFaults, dlqFaults>>

SpendCommitFault ==
    /\ commitFaults < MaxCommitFaults
    /\ commitFaults' = commitFaults + 1
    /\ UNCHANGED <<faults, dlqFaults>>

(* publish_to_dlq(x): raises when the broker cannot be reached. *)
DlqAccepts(x) == dlq' = dlq \cup {x} /\ UNCHANGED budgets

DlqRaises ==
    /\ dlqFaults < MaxDlqFaults
    /\ dlqFaults' = dlqFaults + 1
    /\ UNCHANGED <<dlq, faults, commitFaults>>

----------------------------------------------------------------------------
(* class OffsetTracker.  Every method runs under the tracker's lock, so    *)
(* each is one step.                                                       *)

(* dispatched(tp, offset) *)
TrackDispatched(m, p, o) ==
    /\ dispatched' = [dispatched EXCEPT ![m][p] = @ \cup {o}]
    /\ UNCHANGED completed

(* Mutant: a late completion re-creates the partition's state. *)
TrackCompletedUnguarded(m, p, o) ==
    /\ completed' = [completed EXCEPT ![m][p] = @ \cup {o}]
    /\ UNCHANGED dispatched

(* completed(tp, offset): dropped unless the offset is dispatched here. *)
TrackCompleted(m, p, o) ==
    /\ completed' = [completed EXCEPT ![m][p] =
                        IF o \in dispatched[m][p] THEN @ \cup {o} ELSE @]
    /\ UNCHANGED dispatched

(* Mutant: the failed offset is left dispatched. *)
TrackAbandonedNever(m, p, o) == UNCHANGED trackerVars

(* abandoned(tp, offset) *)
TrackAbandoned(m, p, o) ==
    /\ dispatched' = [dispatched EXCEPT ![m][p] = @ \ {o}]
    /\ completed' = [completed EXCEPT ![m][p] = @ \ {o}]

(* Mutant: every completed offset is offered, out of order. *)
CommittableOutOfOrder(m, p) == completed[m][p]

(* The completed offsets below the lowest one still running. *)
Committable(m, p) ==
    {o \in completed[m][p] :
        \A r \in dispatched[m][p] \ completed[m][p] : o < r}

(* Mutant: the next offset is counted twice. *)
CommitFloorOffByOne(m, p, c) ==
    IF Committable(m, p) = {}
    THEN c = 0
    ELSE \E top \in Committable(m, p) :
            /\ \A o \in Committable(m, p) : o <= top
            /\ c = IF top + 2 > LogLen THEN LogLen ELSE top + 2

(* c is what the tracker offers to commit for p: one past the highest      *)
(* committable offset, or 0 for no entry.                                  *)
CommitFloor(m, p, c) ==
    IF Committable(m, p) = {}
    THEN c = 0
    ELSE \E top \in Committable(m, p) :
            /\ \A o \in Committable(m, p) : o <= top
            /\ c = top + 1

(* take_committable(): hands out the floors and retires their offsets from *)
(* both sets, before anything has been committed.                          *)
TakeAll(m, floors) ==
    /\ \A p \in Partition : CommitFloor(m, p, floors[p])
    /\ dispatched' = [dispatched EXCEPT ![m] =
                        [p \in Partition |-> @[p] \ Committable(m, p)]]
    /\ completed' = [completed EXCEPT ![m] =
                        [p \in Partition |-> @[p] \ Committable(m, p)]]

(* forget(partitions) *)
Forget(m, lost) ==
    /\ dispatched' = [dispatched EXCEPT ![m] =
                        [p \in Partition |-> IF p \in lost THEN {} ELSE @[p]]]
    /\ completed' = [completed EXCEPT ![m] =
                        [p \in Partition |-> IF p \in lost THEN {} ELSE @[p]]]

----------------------------------------------------------------------------
(* The poll loop: _poll_once is take, send, dispatch, poll, redispatch.    *)

Backlogged(m, p) == head[m][p] < pos[m][p]
BacklogEmpty(m) == \A p \in Partition : ~Backlogged(m, p)

(* _commit_ready_offsets, first half: take_committable().  At shutdown the *)
(* same call runs from _drain_and_commit, whose bounded wait may end with  *)
(* work still in flight.                                                   *)
TakeCommittable(m) ==
    /\ pc[m] \in {"take", "drain"}
    /\ \E floors \in [Partition -> 0 .. LogLen] :
          /\ TakeAll(m, floors)
          /\ pend' = [pend EXCEPT ![m] = floors]
          /\ pc' = [pc EXCEPT ![m] =
                        IF @ = "drain" THEN "drainSend"
                        ELSE IF floors = ZeroOffsets THEN "dispatch"
                        ELSE "send"]
    /\ UNCHANGED <<brokerVars, dlq, acked, cases, hand, assigned, head, pos,
                   sem, slot, shutdown, budgets>>

(* The broker takes an offset commit only from a member of the current     *)
(* generation.                                                             *)
BrokerTakes(m, floors) == \A p \in Partition : floors[p] # 0 => owner[p] = m

Advance(floors) ==
    committed' = [p \in Partition |->
                    IF floors[p] # 0 THEN floors[p] ELSE committed[p]]

(* consumer.close() leaves the group. *)
LeaveGroup(m) == owner' = [p \in Partition |->
                              IF owner[p] = m THEN NoMember ELSE owner[p]]

AfterSend(m) ==
    /\ pend' = [pend EXCEPT ![m] = ZeroOffsets]
    /\ IF pc[m] = "send"
       THEN /\ pc' = [pc EXCEPT ![m] = "dispatch"]
            /\ UNCHANGED owner
       ELSE /\ pc' = [pc EXCEPT ![m] = "closed"]
            /\ LeaveGroup(m)
    /\ UNCHANGED <<dlq, acked, cases, hand, assigned, head, pos, trackerVars,
                   sem, slot, shutdown>>

(* _commit_ready_offsets, second half: consumer.commit(commits); an        *)
(* exception is logged and nothing is put back into the tracker.           *)
CommitAccepted(m) ==
    /\ pc[m] \in {"send", "drainSend"}
    /\ BrokerTakes(m, pend[m])
    /\ Advance(pend[m])
    /\ AfterSend(m)
    /\ UNCHANGED budgets

CommitRaises(m) ==
    /\ pc[m] \in {"send", "drainSend"}
    /\ pend[m] # ZeroOffsets
    /\ IF BrokerTakes(m, pend[m]) THEN SpendCommitFault ELSE UNCHANGED budgets
    /\ UNCHANGED committed
    /\ AfterSend(m)

(* Mutant: the result of acquire(blocking=False) is not looked at. *)
PopBacklogAnyway(m) ==
    /\ pc[m] \in {"dispatch", "redispatch"}
    /\ hand[m] = {}
    /\ ~shutdown[m]
    /\ sem' = [sem EXCEPT ![m] = @ - 1]
    /\ \E p \in Partition :
          /\ Backlogged(m, p)
          /\ hand' = [hand EXCEPT ![m] = {<<p, head[m][p]>>}]
          /\ head' = [head EXCEPT ![m][p] = @ + 1]
          /\ TrackDispatched(m, p, head[m][p])
    /\ UNCHANGED <<brokerVars, dlq, acked, cases, pc, assigned, pos, pend,
                   slot, shutdown, budgets>>

(* _dispatch_backlog: acquire a permit without blocking, pop the oldest    *)
(* record, and enter _handle_one_message, which registers the offset.      *)
PopBacklog(m) ==
    /\ pc[m] \in {"dispatch", "redispatch"}
    /\ hand[m] = {}
    /\ ~shutdown[m]
    /\ sem[m] > 0
    /\ sem' = [sem EXCEPT ![m] = @ - 1]
    /\ \E p \in Partition :
          /\ Backlogged(m, p)
          /\ hand' = [hand EXCEPT ![m] = {<<p, head[m][p]>>}]
          /\ head' = [head EXCEPT ![m][p] = @ + 1]
          /\ TrackDispatched(m, p, head[m][p])
    /\ UNCHANGED <<brokerVars, dlq, acked, cases, pc, assigned, pos, pend,
                   slot, shutdown, budgets>>

DispatchReturns(m) ==
    /\ pc[m] \in {"dispatch", "redispatch"}
    /\ hand[m] = {}
    /\ shutdown[m] \/ sem[m] = 0 \/ BacklogEmpty(m)
    /\ pc' = [pc EXCEPT ![m] = IF @ = "dispatch" THEN "poll"
                               ELSE IF shutdown[m] THEN "drain" ELSE "take"]
    /\ UNCHANGED <<brokerVars, dlq, acked, cases, hand, assigned, head, pos,
                   pend, trackerVars, sem, slot, shutdown, budgets>>

Fetched(m, next) ==
    {x \in Msg : pos[m][x[1]] <= x[2] /\ x[2] < next[x[1]]}

(* consumer.poll(): returns records only when the backlog was empty, since *)
(* _set_fetching paused the partitions otherwise.                          *)
PollRecords(m) ==
    /\ pc[m] = "poll"
    /\ BacklogEmpty(m)
    /\ \E next \in [Partition -> 0 .. LogLen] :
          /\ \A p \in Partition : IF p \in assigned[m] THEN next[p] >= pos[m][p]
                                                      ELSE next[p] = pos[m][p]
          /\ Cardinality(Fetched(m, next)) \in 1 .. MaxPollRecords
          /\ pos' = [pos EXCEPT ![m] = next]
    /\ pc' = [pc EXCEPT ![m] = "redispatch"]
    /\ UNCHANGED <<brokerVars, dlq, acked, cases, hand, assigned, head, pend,
                   trackerVars, sem, slot, shutdown, budgets>>

PollNothing(m) ==
    /\ pc[m] = "poll"
    /\ pc' = [pc EXCEPT ![m] = "redispatch"]
    /\ UNCHANGED <<brokerVars, dlq, acked, cases, hand, assigned, head, pos,
                   pend, trackerVars, sem, slot, shutdown, budgets>>

----------------------------------------------------------------------------
(* _handle_one_message, from parse() to its finally.  The permit is given  *)
(* back unless the message was submitted.                                  *)

(* Mutant: the permit of a message that was not submitted is lost. *)
LeaveHandlerNoRelease(m) ==
    /\ hand' = [hand EXCEPT ![m] = {}]
    /\ UNCHANGED <<brokerVars, acked, cases, loopVars, slot, sem>>

LeaveHandler(m) ==
    /\ hand' = [hand EXCEPT ![m] = {}]
    /\ sem' = [sem EXCEPT ![m] = @ + 1]
    /\ UNCHANGED <<brokerVars, acked, cases, loopVars, slot>>

(* parsed.is_poison: publish, then complete; a failed publish holds the    *)
(* offset.                                                                 *)
HandlePoison(m, p, o) ==
    /\ <<p, o>> \in hand[m]
    /\ <<p, o>> \in Poison
    /\ \/ DlqAccepts(<<p, o>>) /\ TrackCompleted(m, p, o)
       \/ DlqRaises /\ UNCHANGED trackerVars
    /\ LeaveHandler(m)

(* should_skip: a status rule, or a terminal casebook already on record. *)
ShouldSkip(x) == x \in SkipRule \/ cases[x] # "none"

HandleSkip(m, p, o) ==
    /\ <<p, o>> \in hand[m]
    /\ <<p, o>> \notin Poison
    /\ ShouldSkip(<<p, o>>)
    /\ TrackCompleted(m, p, o)
    /\ LeaveHandler(m)
    /\ UNCHANGED <<dlq, budgets>>

(* should_skip raised on a storage fault: _dlq_and_abandon. *)
HandleStorageFault(m, p, o) ==
    /\ <<p, o>> \in hand[m]
    /\ <<p, o>> \notin Poison \cup SkipRule
    /\ \/ DlqAccepts(<<p, o>>) /\ TrackAbandoned(m, p, o)
       \/ DlqRaises /\ UNCHANGED trackerVars
    /\ LeaveHandler(m)

(* _worker_pool.submit: the pool has as many threads as the semaphore has  *)
(* permits, so a thread is free.                                           *)
HandleSubmit(m, p, o) ==
    /\ <<p, o>> \in hand[m]
    /\ <<p, o>> \notin Poison
    /\ ~ShouldSkip(<<p, o>>)
    /\ \E s \in Slot :
          /\ slot[m][s].pc = "idle"
          /\ slot' = [slot EXCEPT ![m][s] =
                         [pc |-> "forward", p |-> p, o |-> o]]
    /\ hand' = [hand EXCEPT ![m] = {}]
    /\ UNCHANGED <<brokerVars, dlq, acked, cases, loopVars, trackerVars, sem,
                   budgets>>

HandleMessage(m) ==
    \E p \in Partition, o \in Offset :
        \/ HandlePoison(m, p, o)
        \/ HandleSkip(m, p, o)
        \/ HandleStorageFault(m, p, o)
        \/ HandleSubmit(m, p, o)

----------------------------------------------------------------------------
(* _process_and_commit on worker thread s. *)

WorkerAt(m, s, at) == slot[m][s].pc = at
WorkerMsg(m, s) == <<slot[m][s].p, slot[m][s].o>>
WorkerGoto(m, s, next) ==
    slot' = [slot EXCEPT ![m][s] =
                [pc |-> next, p |-> slot[m][s].p, o |-> slot[m][s].o]]

(* The endpoint may have written the terminal casebook by the time the     *)
(* worker stops waiting for its answer, or not (the fetch stages never     *)
(* do, and a run may outlive the request).                                 *)
EndpointMaySettle(x) ==
    \/ UNCHANGED cases
    \/ /\ cases[x] = "none"
       /\ cases' = [cases EXCEPT ![x] = "settled"]

(* The endpoint answers 2xx. *)
ForwardSucceeds(m, s) ==
    /\ WorkerAt(m, s, "forward")
    /\ acked' = acked \cup {WorkerMsg(m, s)}
    /\ EndpointMaySettle(WorkerMsg(m, s))
    /\ WorkerGoto(m, s, "complete")
    /\ UNCHANGED <<brokerVars, dlq, loopVars, hand, trackerVars, sem, budgets>>

(* requests.exceptions.Timeout, or any other exception. *)
ForwardFails(m, s) ==
    /\ WorkerAt(m, s, "forward")
    /\ \/ WorkerGoto(m, s, "save")
       \/ WorkerGoto(m, s, "dlqError")
    /\ EndpointMaySettle(WorkerMsg(m, s))
    /\ UNCHANGED <<brokerVars, dlq, acked, loopVars, hand, trackerVars,
                   sem, budgets>>

(* Mutant: a failed terminal write escapes the handler. *)
SaveTimeoutEscapes(m, s) ==
    /\ WorkerAt(m, s, "save")
    /\ \/ /\ UNCHANGED cases
          /\ WorkerGoto(m, s, "release")
       \/ /\ cases' = [cases EXCEPT ![WorkerMsg(m, s)] = "timeout"]
          /\ WorkerGoto(m, s, "dlqTimeout")
    /\ UNCHANGED <<brokerVars, dlq, acked, loopVars, hand, trackerVars, sem,
                   budgets>>

(* _adapter.save_terminal(FAILED_TIMEOUT): best effort, unconditional. *)
SaveTimeout(m, s) ==
    /\ WorkerAt(m, s, "save")
    /\ \/ UNCHANGED cases
       \/ cases' = [cases EXCEPT ![WorkerMsg(m, s)] = "timeout"]
    /\ WorkerGoto(m, s, "dlqTimeout")
    /\ UNCHANGED <<brokerVars, dlq, acked, loopVars, hand, trackerVars, sem,
                   budgets>>

(* publish_to_dlq after a timeout completes the offset; after any other    *)
(* failure it abandons it.  A publish that raises holds it either way.     *)
WorkerDlq(m, s) ==
    /\ \/ /\ WorkerAt(m, s, "dlqTimeout")
          /\ DlqAccepts(WorkerMsg(m, s))
          /\ WorkerGoto(m, s, "complete")
       \/ /\ WorkerAt(m, s, "dlqError")
          /\ DlqAccepts(WorkerMsg(m, s))
          /\ WorkerGoto(m, s, "abandon")
       \/ /\ WorkerAt(m, s, "dlqTimeout") \/ WorkerAt(m, s, "dlqError")
          /\ DlqRaises
          /\ WorkerGoto(m, s, "release")
    /\ UNCHANGED <<brokerVars, acked, cases, loopVars, hand, trackerVars, sem>>

(* _record_completion / _record_abandonment, then the finally's release. *)
WorkerEnds(m, s) ==
    /\ \/ /\ WorkerAt(m, s, "complete")
          /\ TrackCompleted(m, slot[m][s].p, slot[m][s].o)
       \/ /\ WorkerAt(m, s, "abandon")
          /\ TrackAbandoned(m, slot[m][s].p, slot[m][s].o)
       \/ /\ WorkerAt(m, s, "release")
          /\ UNCHANGED trackerVars
    /\ slot' = [slot EXCEPT ![m][s] = Idle]
    /\ sem' = [sem EXCEPT ![m] = @ + 1]
    /\ UNCHANGED <<brokerVars, dlq, acked, cases, loopVars, hand, budgets>>

Worker(m, s) ==
    \/ ForwardSucceeds(m, s)
    \/ ForwardFails(m, s)
    \/ SaveTimeout(m, s)
    \/ WorkerDlq(m, s)
    \/ WorkerEnds(m, s)

----------------------------------------------------------------------------
(* Group membership.  The listener's callbacks run inside poll(). *)

(* on_partitions_revoked: drop the backlog, commit the safe floor while    *)
(* the partitions are still ours (the commit may be refused: we may have   *)
(* been evicted already), then forget the partitions.                      *)
OnPartitionsRevoked(m) ==
    /\ pc[m] = "poll"
    /\ assigned[m] # {}
    /\ \E floors \in [Partition -> 0 .. LogLen] :
          /\ \A p \in Partition :
                IF p \in assigned[m] THEN CommitFloor(m, p, floors[p])
                                     ELSE floors[p] = 0
          /\ \/ BrokerTakes(m, floors) /\ Advance(floors)
             \/ UNCHANGED committed
    /\ Forget(m, assigned[m])
    /\ LeaveGroup(m)
    /\ assigned' = [assigned EXCEPT ![m] = {}]
    /\ head' = [head EXCEPT ![m] = pos[m]]
    /\ UNCHANGED <<dlq, acked, cases, pc, hand, pos, pend, sem, slot, shutdown>>

Evicted(m) == \E p \in assigned[m] : owner[p] # m

(* The group rebalances, or the member learns that it was evicted. *)
Revoke(m) ==
    /\ OnPartitionsRevoked(m)
    /\ SpendFault

LearnEviction(m) ==
    /\ Evicted(m)
    /\ OnPartitionsRevoked(m)
    /\ UNCHANGED budgets

(* on_partitions_assigned: forget stale state; fetching starts at the      *)
(* committed position.                                                     *)
Assign(m) ==
    /\ pc[m] = "poll"
    /\ assigned[m] = {}
    /\ \E given \in SUBSET {p \in Partition : owner[p] = NoMember} :
          /\ given # {}
          /\ owner' = [p \in Partition |->
                          IF p \in given THEN m ELSE owner[p]]
          /\ assigned' = [assigned EXCEPT ![m] = given]
          /\ head' = [head EXCEPT ![m] = [p \in Partition |->
                          IF p \in given THEN committed[p] ELSE @[p]]]
          /\ pos' = [pos EXCEPT ![m] = [p \in Partition |->
                          IF p \in given THEN committed[p] ELSE @[p]]]
          /\ Forget(m, given)
    /\ UNCHANGED <<committed, dlq, acked, cases, pc, hand, pend, sem, slot,
                   shutdown, budgets>>

(* The broker drops a member whose heartbeat or poll interval expired; the *)
(* member finds out at its next poll.                                      *)
Evict(m) ==
    /\ \E p \in Partition : owner[p] = m
    /\ SpendFault
    /\ LeaveGroup(m)
    /\ UNCHANGED <<committed, dlq, acked, cases, loopVars, hand, trackerVars,
                   sem, slot>>

----------------------------------------------------------------------------
(* Shutdown, and the process going away. *)

(* request_shutdown *)
RequestShutdown(m) ==
    /\ ~shutdown[m]
    /\ SpendFault
    /\ shutdown' = [shutdown EXCEPT ![m] = TRUE]
    /\ UNCHANGED <<brokerVars, dlq, acked, cases, pc, hand, assigned, head,
                   pos, pend, trackerVars, sem, slot>>

(* A fresh process of the same deployment: every module global is as the   *)
(* import leaves it, and the broker has dropped the old member id.         *)
FreshProcess(m) ==
    /\ LeaveGroup(m)
    /\ pc' = [pc EXCEPT ![m] = "take"]
    /\ hand' = [hand EXCEPT ![m] = {}]
    /\ assigned' = [assigned EXCEPT ![m] = {}]
    /\ head' = [head EXCEPT ![m] = ZeroOffsets]
    /\ pos' = [pos EXCEPT ![m] = ZeroOffsets]
    /\ dispatched' = [dispatched EXCEPT ![m] = NoOffsets]
    /\ completed' = [completed EXCEPT ![m] = NoOffsets]
    /\ pend' = [pend EXCEPT ![m] = ZeroOffsets]
    /\ sem' = [sem EXCEPT ![m] = MaxConcurrent]
    /\ slot' = [slot EXCEPT ![m] = [s \in Slot |-> Idle]]
    /\ shutdown' = [shutdown EXCEPT ![m] = FALSE]
    /\ UNCHANGED <<committed, dlq, acked, cases>>

(* SIGKILL, or the pod is lost. *)
Crash(m) == SpendFault /\ FreshProcess(m)

(* After _drain_and_commit the interpreter joins the pool's threads and    *)
(* exits; the supervisor starts the process again.                         *)
Restart(m) ==
    /\ pc[m] = "closed"
    /\ \A s \in Slot : WorkerAt(m, s, "idle")
    /\ FreshProcess(m)
    /\ UNCHANGED budgets

----------------------------------------------------------------------------
PollLoop(m) ==
    \/ TakeCommittable(m)
    \/ CommitAccepted(m)
    \/ CommitRaises(m)
    \/ PopBacklog(m)
    \/ DispatchReturns(m)
    \/ HandleMessage(m)
    \/ PollRecords(m)
    \/ PollNothing(m)
    \/ LearnEviction(m)
    \/ Assign(m)

Environment(m) ==
    \/ Revoke(m)
    \/ Evict(m)
    \/ RequestShutdown(m)
    \/ Crash(m)
    \/ Restart(m)

Next ==
    \E m \in Member :
        \/ PollLoop(m)
        \/ Environment(m)
        \/ \E s \in Slot : Worker(m, s)

Spec == Init /\ [][Next]_vars

(***************************************************************************)
(* Fairness.  Both kinds of thread run: the poll loop is a `while` that    *)
(* blocks only in bounded calls, and every call a worker makes has a       *)
(* timeout.  poll() returns records, and the coordinator hands out         *)
(* partitions, when it is asked often enough; a closed process is          *)
(* restarted by its supervisor.                                            *)
(***************************************************************************)
FairSpec ==
    /\ Spec
    /\ \A m \in Member :
          /\ WF_vars(PollLoop(m))
          /\ SF_vars(PollRecords(m))
          /\ SF_vars(LearnEviction(m))
          /\ SF_vars(Assign(m))
          /\ WF_vars(Restart(m))
          /\ \A s \in Slot : WF_vars(Worker(m, s))

----------------------------------------------------------------------------
(* Properties. *)

(* What stands behind a message the group has moved past: the endpoint     *)
(* answered for it, it is on the DLQ, a status rule skips it, or a         *)
(* terminal casebook for it is on record.                                  *)
Accounted(x) ==
    x \in acked \/ x \in dlq \/ x \in SkipRule \/ cases[x] # "none"

\* The commit is a safe low-water mark (OffsetTracker, F3): no message below
\* the committed position is unaccounted for, whatever order the workers
\* finish in and whoever owned the partition when they did.
CommittedAccounted ==
    \A p \in Partition, o \in Offset :
        o < committed[p] => Accounted(<<p, o>>)

\* A member keeps no offset state for partitions it does not own (forget, and
\* completed dropping late reports), so it cannot commit for another owner (G7).
NoForeignTracking ==
    \A m \in Member, p \in Partition :
        p \notin assigned[m] => dispatched[m][p] = {} /\ completed[m][p] = {}

\* No permit of the worker semaphore is ever lost or given back twice, on any
\* path through _handle_one_message and _process_and_commit.
PermitsBalance ==
    \A m \in Member :
        sem[m] + Cardinality({s \in Slot : ~WorkerAt(m, s, "idle")})
               + Cardinality(hand[m]) = MaxConcurrent

InHands(m, x) ==
    \/ x \in hand[m]
    \/ \E s \in Slot : ~WorkerAt(m, s, "idle") /\ WorkerMsg(m, s) = x

\* As long as the DLQ has taken every publish, an offset that is dispatched and
\* not completed is in some thread's hands: nothing is stranded in _dispatched
\* where it would pin the partition's commit floor for good (G1).
NoStrandedOffset ==
    dlqFaults = 0 =>
        \A m \in Member, p \in Partition :
            \A o \in dispatched[m][p] \ completed[m][p] : InHands(m, <<p, o>>)

\* Nothing leaks out of the consumer's books, on any path through the handler and
\* the workers: no permit of the semaphore and no dispatched offset.
NothingLeaks == PermitsBalance /\ NoStrandedOffset

\* The group consumes each partition at least once, in order: its position only
\* moves forward, and only past messages that are accounted for.
AtLeastOnceView ==
    INSTANCE AtLeastOnce WITH
        position <- committed,
        settled <- {x \in Msg : Accounted(x)}

ImplementsAtLeastOnce == AtLeastOnceView!Spec

\* Every message is eventually accounted for.
EveryMessageAccounted ==
    \A x \in Msg : <>Accounted(x)

\* An offset the tracker holds as completed is eventually covered by the
\* group's committed position, unless the partition moves on or another worker
\* dead-letters the same message and retires it.
CompletedReachesBroker ==
    \A m \in Member, p \in Partition, o \in Offset :
        (o \in completed[m][p]) ~>
            (committed[p] > o \/ p \notin assigned[m] \/ <<p, o>> \in dlq)

\* A message is committed only if the endpoint answered for it, it is on the
\* DLQ, a rule skips it, or the endpoint settled its case: it never exists
\* nowhere but in the FAILED_TIMEOUT record this consumer wrote.
NeverNowhere ==
    \A p \in Partition, o \in Offset :
        o < committed[p] =>
            \/ <<p, o>> \in acked \cup dlq \cup SkipRule
            \/ cases[<<p, o>>] = "settled"

----------------------------------------------------------------------------
(* The inductive invariant behind CommittedAccounted.                      *)

(* Completed offsets are dispatched ones that are accounted for, and only  *)
(* offsets already popped from the backlog are dispatched.                 *)
TrackerSound ==
    \A m \in Member, p \in Partition :
        /\ completed[m][p] \subseteq dispatched[m][p]
        /\ \A o \in completed[m][p] : Accounted(<<p, o>>)
        /\ \A o \in dispatched[m][p] : o < head[m][p]

(* An owner has passed over nothing: below its backlog everything is       *)
(* accounted for or still dispatched.                                      *)
NothingPassedOver ==
    \A m \in Member : \A p \in assigned[m], o \in Offset :
        o < head[m][p] => Accounted(<<p, o>>) \/ o \in dispatched[m][p]

BacklogOwned ==
    \A m \in Member, p \in Partition :
        Backlogged(m, p) => p \in assigned[m]

PendingSound ==
    \A m \in Member, p \in Partition, o \in Offset :
        o < pend[m][p] => Accounted(<<p, o>>)

WorkersSound ==
    \A m \in Member, s \in Slot :
        slot[m][s].pc \in {"complete", "abandon"} => Accounted(WorkerMsg(m, s))

SafeInv ==
    /\ CommittedAccounted
    /\ NoForeignTracking
    /\ TrackerSound
    /\ NothingPassedOver
    /\ BacklogOwned
    /\ PendingSound
    /\ WorkersSound

(* What keeps the committed position from moving backwards: the broker's   *)
(* owner of a partition works only at or above the position.               *)
PendOnlySending ==
    \A m \in Member : pc[m] \notin {"send", "drainSend"} => pend[m] = ZeroOffsets

PendBelowTracked ==
    \A m \in Member, p \in Partition :
        /\ pend[m][p] <= head[m][p]
        /\ \A o \in dispatched[m][p] : pend[m][p] <= o

OwnerAhead ==
    \A m \in Member, p \in Partition :
        owner[p] = m =>
            /\ committed[p] <= head[m][p]
            /\ \A o \in dispatched[m][p] : committed[p] <= o
            /\ pend[m][p] # 0 => committed[p] <= pend[m][p]

ForwardInv == PendOnlySending /\ PendBelowTracked /\ OwnerAhead
=============================================================================
