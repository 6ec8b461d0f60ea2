------------------------ MODULE KafkaConsumerProofs ------------------------
(***************************************************************************)
(* TLAPS proofs about KafkaConsumer, for any number of members, partitions *)
(* and messages and any fault budget; the last part that its books balance *)
(* and that the group implements AtLeastOnce.                              *)
(***************************************************************************)
EXTENDS KafkaConsumer, FiniteSetTheorems, TLAPS

(* The whole next-state relation, one disjunct per action. *)
LEMMA NextCases ==
    ASSUME Next
    PROVE  \E m \in Member :
              \/ TakeCommittable(m) \/ CommitAccepted(m) \/ CommitRaises(m)
              \/ PopBacklog(m) \/ DispatchReturns(m)
              \/ PollRecords(m) \/ PollNothing(m)
              \/ LearnEviction(m) \/ Assign(m) \/ Revoke(m) \/ Evict(m)
              \/ RequestShutdown(m) \/ Crash(m) \/ Restart(m)
              \/ \E p \in Partition, o \in Offset :
                    \/ HandlePoison(m, p, o) \/ HandleSkip(m, p, o)
                    \/ HandleStorageFault(m, p, o) \/ HandleSubmit(m, p, o)
              \/ \E s \in Slot :
                    \/ ForwardSucceeds(m, s) \/ ForwardFails(m, s)
                    \/ SaveTimeout(m, s) \/ WorkerDlq(m, s)
                    \/ WorkerEnds(m, s)
BY DEF Next, PollLoop, Environment, Worker, HandleMessage

----------------------------------------------------------------------------
(* Type correctness. *)

(* A worker that is not idle holds a message. *)
LEMMA BusyWorker ==
    ASSUME TypeOK, NEW m \in Member, NEW s \in Slot, slot[m][s].pc # "idle"
    PROVE  /\ slot[m][s] \in [pc : WorkerPc, p : Partition, o : Offset]
           /\ WorkerMsg(m, s) \in Msg
<1>1. slot[m][s] \in SlotState
  BY DEF TypeOK
<1>2. slot[m][s] # Idle
  BY DEF Idle
<1>3. slot[m][s] \in [pc : WorkerPc, p : Partition, o : Offset]
  BY <1>1, <1>2 DEF SlotState
<1> QED
  BY <1>3 DEF WorkerMsg, Msg

(* The tracker's methods keep the tracker well typed. *)
LEMMA TrackerTypes ==
    ASSUME TypeOK, NEW m \in Member, NEW p \in Partition, NEW o \in Offset,
           \/ TrackCompleted(m, p, o)
           \/ TrackAbandoned(m, p, o)
           \/ UNCHANGED trackerVars
    PROVE  /\ dispatched' \in [Member -> [Partition -> SUBSET Offset]]
           /\ completed' \in [Member -> [Partition -> SUBSET Offset]]
<1>1. CASE TrackCompleted(m, p, o)
  <2>1. CASE o \in dispatched[m][p]
    BY <1>1, <2>1 DEF TypeOK, TrackCompleted
  <2>2. CASE o \notin dispatched[m][p]
    BY <1>1, <2>2 DEF TypeOK, TrackCompleted
  <2> QED
    BY <2>1, <2>2
<1>2. CASE TrackAbandoned(m, p, o)
  BY <1>2 DEF TypeOK, TrackAbandoned
<1>3. CASE UNCHANGED trackerVars
  BY <1>3 DEF TypeOK, trackerVars
<1> QED
  BY <1>1, <1>2, <1>3

LEMMA TypeInit == Init => TypeOK
BY ConstantsAssumption
   DEF Init, TypeOK, ZeroOffsets, NoOffsets, LoopPc, SlotState, Msg, Offset

LEMMA TypeStep ==
    ASSUME TypeOK, [Next]_vars
    PROVE  TypeOK'
<1> USE ConstantsAssumption
<1>1. CASE UNCHANGED vars
  BY <1>1 DEF TypeOK, vars, brokerVars, loopVars, trackerVars, budgets
<1>2. ASSUME NEW m \in Member, TakeCommittable(m)
      PROVE  TypeOK'
  BY <1>2 DEF TypeOK, TakeCommittable, TakeAll, Committable, LoopPc,
              brokerVars, budgets
<1>3. ASSUME NEW m \in Member, CommitAccepted(m) \/ CommitRaises(m)
      PROVE  TypeOK'
  <2>1. AfterSend(m)
    BY <1>3 DEF CommitAccepted, CommitRaises
  <2>2. committed' \in [Partition -> 0 .. LogLen]
    <3>1. Advance(pend[m]) \/ UNCHANGED committed
      BY <1>3 DEF CommitAccepted, CommitRaises
    <3>2. CASE Advance(pend[m])
      BY <3>2 DEF TypeOK, Advance
    <3>3. CASE UNCHANGED committed
      BY <3>3 DEF TypeOK
    <3> QED
      BY <3>1, <3>2, <3>3
  <2>3. /\ faults' \in 0 .. MaxFaults
        /\ commitFaults' \in 0 .. MaxCommitFaults
        /\ dlqFaults' \in 0 .. MaxDlqFaults
    BY <1>3 DEF TypeOK, CommitAccepted, CommitRaises, SpendCommitFault, budgets
  <2>4. owner' \in [Partition -> Member \cup {NoMember}]
    BY <2>1 DEF TypeOK, AfterSend, LeaveGroup
  <2>5. pc' \in [Member -> LoopPc]
    <3>1. pc' = [pc EXCEPT ![m] = "dispatch"] \/ pc' = [pc EXCEPT ![m] = "closed"]
      BY <2>1 DEF AfterSend
    <3> QED
      BY <3>1 DEF TypeOK, LoopPc
  <2>6. pend' \in [Member -> [Partition -> 0 .. LogLen]]
    BY <2>1 DEF TypeOK, AfterSend, ZeroOffsets
  <2> QED
    BY <2>1, <2>2, <2>3, <2>4, <2>5, <2>6 DEF TypeOK, AfterSend, trackerVars
<1>4. ASSUME NEW m \in Member, PopBacklog(m)
      PROVE  TypeOK'
  <2>1. PICK p \in Partition :
           /\ head[m][p] < pos[m][p]
           /\ hand' = [hand EXCEPT ![m] = {<<p, head[m][p]>>}]
           /\ head' = [head EXCEPT ![m][p] = @ + 1]
           /\ dispatched' = [dispatched EXCEPT ![m][p] = @ \cup {head[m][p]}]
           /\ UNCHANGED completed
    BY <1>4 DEF PopBacklog, Backlogged, TrackDispatched
  <2>2. head[m][p] \in Offset /\ head[m][p] + 1 \in 0 .. LogLen
    BY <2>1 DEF TypeOK, Offset
  <2> QED
    BY <1>4, <2>1, <2>2 DEF TypeOK, PopBacklog, Msg, brokerVars, budgets
<1>5. ASSUME NEW m \in Member, DispatchReturns(m) \/ PollNothing(m)
      PROVE  TypeOK'
  BY <1>5 DEF TypeOK, DispatchReturns, PollNothing, LoopPc, brokerVars,
              trackerVars, budgets
<1>6. ASSUME NEW m \in Member, PollRecords(m)
      PROVE  TypeOK'
  BY <1>6 DEF TypeOK, PollRecords, LoopPc, brokerVars, trackerVars, budgets
<1>7. ASSUME NEW m \in Member, Revoke(m) \/ LearnEviction(m)
      PROVE  TypeOK'
  <2>1. OnPartitionsRevoked(m)
    BY <1>7 DEF Revoke, LearnEviction
  <2>2. /\ faults' \in 0 .. MaxFaults
        /\ commitFaults' \in 0 .. MaxCommitFaults
        /\ dlqFaults' \in 0 .. MaxDlqFaults
    BY <1>7 DEF TypeOK, Revoke, LearnEviction, SpendFault, budgets
  <2>3. committed' \in [Partition -> 0 .. LogLen]
    BY <2>1 DEF TypeOK, OnPartitionsRevoked, Advance
  <2>4. /\ dispatched' \in [Member -> [Partition -> SUBSET Offset]]
        /\ completed' \in [Member -> [Partition -> SUBSET Offset]]
    BY <2>1 DEF TypeOK, OnPartitionsRevoked, Forget
  <2>5. owner' \in [Partition -> Member \cup {NoMember}]
    BY <2>1 DEF TypeOK, OnPartitionsRevoked, LeaveGroup
  <2>6. /\ assigned' \in [Member -> SUBSET Partition]
        /\ head' \in [Member -> [Partition -> 0 .. LogLen]]
    BY <2>1 DEF TypeOK, OnPartitionsRevoked
  <2> QED
    BY <2>1, <2>2, <2>3, <2>4, <2>5, <2>6 DEF TypeOK, OnPartitionsRevoked
<1>8. ASSUME NEW m \in Member, Assign(m)
      PROVE  TypeOK'
  BY <1>8 DEF TypeOK, Assign, Forget, budgets
<1>9. ASSUME NEW m \in Member, Evict(m) \/ RequestShutdown(m)
      PROVE  TypeOK'
  <2>1. SpendFault
    BY <1>9 DEF Evict, RequestShutdown
  <2>2. /\ faults' \in 0 .. MaxFaults
        /\ commitFaults' \in 0 .. MaxCommitFaults
        /\ dlqFaults' \in 0 .. MaxDlqFaults
    BY <2>1 DEF TypeOK, SpendFault
  <2>3. owner' \in [Partition -> Member \cup {NoMember}]
    BY <1>9 DEF TypeOK, Evict, RequestShutdown, LeaveGroup, brokerVars
  <2>4. shutdown' \in [Member -> BOOLEAN]
    BY <1>9 DEF TypeOK, Evict, RequestShutdown, loopVars
  <2> QED
    BY <1>9, <2>2, <2>3, <2>4 DEF TypeOK, Evict, RequestShutdown,
       brokerVars, loopVars, trackerVars
<1>10. ASSUME NEW m \in Member, Crash(m) \/ Restart(m)
       PROVE  TypeOK'
  <2>1. FreshProcess(m)
    BY <1>10 DEF Crash, Restart
  <2>2. /\ faults' \in 0 .. MaxFaults
        /\ commitFaults' \in 0 .. MaxCommitFaults
        /\ dlqFaults' \in 0 .. MaxDlqFaults
    BY <1>10 DEF TypeOK, Crash, Restart, SpendFault, budgets
  <2>3. /\ owner' \in [Partition -> Member \cup {NoMember}]
        /\ pc' \in [Member -> LoopPc]
        /\ hand' \in [Member -> SUBSET Msg]
        /\ assigned' \in [Member -> SUBSET Partition]
    BY <2>1 DEF TypeOK, FreshProcess, LeaveGroup, LoopPc
  <2>4. /\ head' \in [Member -> [Partition -> 0 .. LogLen]]
        /\ pos' \in [Member -> [Partition -> 0 .. LogLen]]
        /\ pend' \in [Member -> [Partition -> 0 .. LogLen]]
    BY <2>1 DEF TypeOK, FreshProcess, ZeroOffsets
  <2>5. /\ dispatched' \in [Member -> [Partition -> SUBSET Offset]]
        /\ completed' \in [Member -> [Partition -> SUBSET Offset]]
    BY <2>1 DEF TypeOK, FreshProcess, NoOffsets
  <2>6. /\ sem' \in [Member -> Nat]
        /\ slot' \in [Member -> [Slot -> SlotState]]
        /\ shutdown' \in [Member -> BOOLEAN]
    BY <2>1 DEF TypeOK, FreshProcess, SlotState
  <2> QED
    BY <2>1, <2>2, <2>3, <2>4, <2>5, <2>6 DEF TypeOK, FreshProcess
<1>11. ASSUME NEW m \in Member, NEW p \in Partition, NEW o \in Offset,
              \/ HandlePoison(m, p, o) \/ HandleSkip(m, p, o)
              \/ HandleStorageFault(m, p, o)
       PROVE  TypeOK'
  <2>1. LeaveHandler(m)
    BY <1>11 DEF HandlePoison, HandleSkip, HandleStorageFault
  <2>2. /\ DlqAccepts(<<p, o>>) \/ DlqRaises \/ UNCHANGED <<dlq, budgets>>
        /\ TrackCompleted(m, p, o) \/ TrackAbandoned(m, p, o)
           \/ UNCHANGED trackerVars
    BY <1>11 DEF HandlePoison, HandleSkip, HandleStorageFault
  <2>3. /\ dlq' \in SUBSET Msg
        /\ faults' \in 0 .. MaxFaults
        /\ commitFaults' \in 0 .. MaxCommitFaults
        /\ dlqFaults' \in 0 .. MaxDlqFaults
    BY <2>2 DEF TypeOK, DlqAccepts, DlqRaises, Msg, budgets
  <2>4. /\ dispatched' \in [Member -> [Partition -> SUBSET Offset]]
        /\ completed' \in [Member -> [Partition -> SUBSET Offset]]
    BY <2>2, TrackerTypes
  <2> QED
    <3>1. hand' \in [Member -> SUBSET Msg] /\ sem' \in [Member -> Nat]
      BY <2>1 DEF TypeOK, LeaveHandler
    <3> QED
      BY <2>1, <2>3, <2>4, <3>1 DEF TypeOK, LeaveHandler, brokerVars, loopVars
<1>12. ASSUME NEW m \in Member, NEW p \in Partition, NEW o \in Offset,
              HandleSubmit(m, p, o)
       PROVE  TypeOK'
  BY <1>12 DEF TypeOK, HandleSubmit, SlotState, WorkerPc, brokerVars,
               loopVars, trackerVars, budgets
<1>13. ASSUME NEW m \in Member, NEW s \in Slot,
              \/ ForwardSucceeds(m, s) \/ ForwardFails(m, s)
              \/ SaveTimeout(m, s) \/ WorkerDlq(m, s)
       PROVE  TypeOK'
  <2>1. slot[m][s].pc # "idle"
    BY <1>13 DEF ForwardSucceeds, ForwardFails, SaveTimeout, WorkerDlq, WorkerAt
  <2>2. /\ slot[m][s] \in [pc : WorkerPc, p : Partition, o : Offset]
        /\ WorkerMsg(m, s) \in Msg
    BY <2>1, BusyWorker
  <2>3. slot' \in [Member -> [Slot -> SlotState]]
    <3>1. PICK next \in WorkerPc : WorkerGoto(m, s, next)
      BY <1>13 DEF ForwardSucceeds, ForwardFails, SaveTimeout, WorkerDlq,
         WorkerPc
    <3> QED
      BY <2>2, <3>1 DEF TypeOK, WorkerGoto, SlotState
  <2>4. cases' \in [Msg -> {"none", "settled", "timeout"}]
    BY <1>13, <2>2 DEF TypeOK, ForwardSucceeds, ForwardFails, SaveTimeout,
       WorkerDlq, EndpointMaySettle
  <2>5. dlq' \in SUBSET Msg /\ acked' \in SUBSET Msg
    BY <1>13, <2>2 DEF TypeOK, ForwardSucceeds, ForwardFails, SaveTimeout,
       WorkerDlq, DlqAccepts, DlqRaises
  <2> QED
    BY <1>13, <2>3, <2>4, <2>5 DEF TypeOK, ForwardSucceeds, ForwardFails,
       SaveTimeout, WorkerDlq, DlqAccepts, DlqRaises, brokerVars, loopVars,
       trackerVars, budgets
<1>14. ASSUME NEW m \in Member, NEW s \in Slot, WorkerEnds(m, s)
       PROVE  TypeOK'
  <2>1. slot[m][s].pc # "idle"
    BY <1>14 DEF WorkerEnds, WorkerAt
  <2>2. slot[m][s] \in [pc : WorkerPc, p : Partition, o : Offset]
    BY <2>1, BusyWorker
  <2>3. PICK p \in Partition, o \in Offset :
           \/ TrackCompleted(m, p, o)
           \/ TrackAbandoned(m, p, o)
           \/ UNCHANGED trackerVars
    <3>1. slot[m][s].p \in Partition /\ slot[m][s].o \in Offset
      BY <2>2
    <3> QED
      BY <1>14, <3>1, Zenon DEF WorkerEnds
  <2>4. /\ dispatched' \in [Member -> [Partition -> SUBSET Offset]]
        /\ completed' \in [Member -> [Partition -> SUBSET Offset]]
    BY <2>3, TrackerTypes
  <2>5. slot' \in [Member -> [Slot -> SlotState]]
    BY <1>14 DEF TypeOK, WorkerEnds, SlotState
  <2>6. sem' \in [Member -> Nat]
    BY <1>14 DEF TypeOK, WorkerEnds
  <2> QED
    BY <1>14, <2>4, <2>5, <2>6 DEF TypeOK, WorkerEnds, brokerVars, loopVars,
       budgets
<1> QED
  BY <1>1, <1>2, <1>3, <1>4, <1>5, <1>6, <1>7, <1>8, <1>9, <1>10, <1>11,
     <1>12, <1>13, <1>14, NextCases

\* Every reachable state of the consumer group is well typed, for any number of
\* members, partitions, messages, worker threads and faults.
THEOREM TypeCorrect == Spec => []TypeOK
<1>1. Init => TypeOK
  BY TypeInit
<1>2. TypeOK /\ [Next]_vars => TypeOK'
  BY TypeStep
<1> QED
  BY <1>1, <1>2, PTL DEF Spec

----------------------------------------------------------------------------
(* The committed position is a safe low-water mark. *)

(* Nothing takes back what accounts for a message: the DLQ and the         *)
(* endpoint's answers only grow, and a casebook on record stays on record. *)
LEMMA AccountedStable ==
    ASSUME TypeOK, [Next]_vars, NEW x \in Msg, Accounted(x)
    PROVE  Accounted(x)'
<1>1. CASE UNCHANGED vars
  BY <1>1 DEF Accounted, vars
<1>2. ASSUME NEW m \in Member,
             \/ TakeCommittable(m) \/ CommitAccepted(m) \/ CommitRaises(m)
             \/ PopBacklog(m) \/ DispatchReturns(m)
             \/ PollRecords(m) \/ PollNothing(m)
             \/ LearnEviction(m) \/ Assign(m) \/ Revoke(m) \/ Evict(m)
             \/ RequestShutdown(m) \/ Crash(m) \/ Restart(m)
      PROVE  Accounted(x)'
  <2>1. UNCHANGED <<dlq, acked, cases>>
    BY <1>2 DEF TakeCommittable, CommitAccepted, CommitRaises, AfterSend,
       PopBacklog, DispatchReturns, PollRecords, PollNothing, LearnEviction,
       Revoke, OnPartitionsRevoked, Assign, Evict, RequestShutdown, Crash,
       Restart, FreshProcess
  <2> QED
    BY <2>1 DEF Accounted
<1>3. ASSUME NEW m \in Member, NEW p \in Partition, NEW o \in Offset,
             \/ HandlePoison(m, p, o) \/ HandleSkip(m, p, o)
             \/ HandleStorageFault(m, p, o) \/ HandleSubmit(m, p, o)
      PROVE  Accounted(x)'
  <2>1. UNCHANGED <<acked, cases>> /\ dlq \subseteq dlq'
    BY <1>3 DEF HandlePoison, HandleSkip, HandleStorageFault, HandleSubmit,
       LeaveHandler, DlqAccepts, DlqRaises
  <2> QED
    BY <2>1 DEF Accounted
<1>4. ASSUME NEW m \in Member, NEW s \in Slot,
             \/ ForwardSucceeds(m, s) \/ ForwardFails(m, s)
             \/ SaveTimeout(m, s) \/ WorkerDlq(m, s) \/ WorkerEnds(m, s)
      PROVE  Accounted(x)'
  <2>1. acked \subseteq acked' /\ dlq \subseteq dlq'
    BY <1>4 DEF ForwardSucceeds, ForwardFails, SaveTimeout, WorkerDlq,
       WorkerEnds, DlqAccepts, DlqRaises
  <2>2. \/ UNCHANGED cases
        \/ cases' = [cases EXCEPT ![WorkerMsg(m, s)] = "settled"]
        \/ cases' = [cases EXCEPT ![WorkerMsg(m, s)] = "timeout"]
    BY <1>4 DEF ForwardSucceeds, ForwardFails, SaveTimeout, WorkerDlq,
       WorkerEnds, EndpointMaySettle
  <2>3. cases[x] # "none" => cases'[x] # "none"
    BY <2>2 DEF TypeOK
  <2> QED
    BY <2>1, <2>3 DEF Accounted
<1> QED
  BY <1>1, <1>2, <1>3, <1>4, NextCases

(* What the tracker offers to commit is accounted for, and lies below the  *)
(* backlog; this is the argument of OffsetTracker's docstring.             *)
LEMMA FloorSound ==
    ASSUME TypeOK, SafeInv,
           NEW m \in Member, NEW p \in Partition,
           NEW c \in 0 .. LogLen, CommitFloor(m, p, c)
    PROVE  /\ c <= head[m][p]
           /\ \A o \in Offset : o < c => Accounted(<<p, o>>)
<1>1. CASE Committable(m, p) = {}
  BY <1>1 DEF CommitFloor, TypeOK, Offset
<1>2. CASE Committable(m, p) # {}
  <2>1. PICK top \in Committable(m, p) :
           /\ \A o \in Committable(m, p) : o <= top
           /\ c = top + 1
    BY <1>2 DEF CommitFloor
  <2>2. /\ top \in completed[m][p]
        /\ top \in dispatched[m][p]
        /\ top \in Offset
        /\ top < head[m][p]
        /\ \A r \in dispatched[m][p] \ completed[m][p] : top < r
    BY <2>1 DEF Committable, SafeInv, TrackerSound, TypeOK
  <2>3. p \in assigned[m]
    BY <2>2 DEF SafeInv, NoForeignTracking
  <2>4. ASSUME NEW o \in Offset, o < c
        PROVE  Accounted(<<p, o>>)
    <3>1. o <= top /\ o < head[m][p]
      BY <2>1, <2>2, <2>4 DEF Offset, TypeOK
    <3>2. Accounted(<<p, o>>) \/ o \in dispatched[m][p]
      BY <2>3, <3>1 DEF SafeInv, NothingPassedOver
    <3>3. o \in dispatched[m][p] => o \in completed[m][p]
      BY <2>2, <3>1 DEF Offset
    <3> QED
      BY <3>2, <3>3 DEF SafeInv, TrackerSound
  <2>5. c <= head[m][p]
    BY <2>1, <2>2 DEF Offset, TypeOK
  <2> QED
    BY <2>4, <2>5
<1> QED
  BY <1>1, <1>2

LEMMA SafeInit == Init => SafeInv
<1> SUFFICES ASSUME Init PROVE SafeInv
  OBVIOUS
<1>1. CommittedAccounted /\ NoForeignTracking /\ PendingSound
  BY DEF Init, CommittedAccounted, NoForeignTracking, PendingSound, Offset,
         ZeroOffsets, NoOffsets
<1>2. TrackerSound /\ NothingPassedOver /\ BacklogOwned
  BY DEF Init, TrackerSound, NothingPassedOver, BacklogOwned, Backlogged,
         ZeroOffsets, NoOffsets
<1>3. WorkersSound
  BY DEF Init, WorkersSound, Idle
<1> QED
  BY <1>1, <1>2, <1>3 DEF SafeInv

(* A tracker method that retires or completes an accounted-for message     *)
(* keeps the tracker's part of the invariant.                              *)
LEMMA TrackerStep ==
    ASSUME TypeOK, SafeInv, [Next]_vars,
           NEW m \in Member, NEW p \in Partition, NEW o \in Offset,
           \/ /\ TrackCompleted(m, p, o) \/ TrackAbandoned(m, p, o)
              /\ Accounted(<<p, o>>)'
           \/ UNCHANGED trackerVars,
           UNCHANGED <<head, assigned>>
    PROVE  TrackerSound' /\ NothingPassedOver' /\ NoForeignTracking'
<1>1. \A n \in Member, q \in Partition :
         /\ dispatched'[n][q] \subseteq dispatched[n][q]
         /\ completed'[n][q] \subseteq dispatched'[n][q]
         /\ \A r \in completed'[n][q] :
               r \in completed[n][q] \/ Accounted(<<q, r>>)'
         /\ \A r \in dispatched[n][q] :
               r \in dispatched'[n][q] \/ Accounted(<<q, r>>)'
  <2>1. CASE TrackCompleted(m, p, o) /\ Accounted(<<p, o>>)'
    <3>1. \A n \in Member, q \in Partition :
            completed'[n][q] = IF n = m /\ q = p /\ o \in dispatched[m][p]
                               THEN completed[n][q] \cup {o}
                               ELSE completed[n][q]
      BY <2>1 DEF TrackCompleted, TypeOK
    <3> QED
      BY <2>1, <3>1 DEF TrackCompleted, SafeInv, TrackerSound
  <2>2. CASE TrackAbandoned(m, p, o) /\ Accounted(<<p, o>>)'
    <3>1. \A n \in Member, q \in Partition :
            /\ completed'[n][q] = IF n = m /\ q = p
                                  THEN completed[n][q] \ {o}
                                  ELSE completed[n][q]
            /\ dispatched'[n][q] = IF n = m /\ q = p
                                   THEN dispatched[n][q] \ {o}
                                   ELSE dispatched[n][q]
      BY <2>2 DEF TrackAbandoned, TypeOK
    <3> SUFFICES ASSUME NEW n \in Member, NEW q \in Partition
                 PROVE  /\ dispatched'[n][q] \subseteq dispatched[n][q]
                        /\ completed'[n][q] \subseteq dispatched'[n][q]
                        /\ \A r \in completed'[n][q] :
                              r \in completed[n][q] \/ Accounted(<<q, r>>)'
                        /\ \A r \in dispatched[n][q] :
                              r \in dispatched'[n][q] \/ Accounted(<<q, r>>)'
      OBVIOUS
    <3>2. completed[n][q] \subseteq dispatched[n][q]
      BY DEF SafeInv, TrackerSound
    <3>3. CASE n = m /\ q = p
      BY <2>2, <3>1, <3>2, <3>3
    <3>4. CASE ~(n = m /\ q = p)
      BY <3>1, <3>2, <3>4
    <3> QED
      BY <3>3, <3>4
  <2>3. CASE UNCHANGED trackerVars
    BY <2>3 DEF trackerVars, SafeInv, TrackerSound
  <2> QED
    BY <2>1, <2>2, <2>3
<1>2. \A q \in Partition, r \in Offset :
         Accounted(<<q, r>>) => Accounted(<<q, r>>)'
  BY AccountedStable DEF Msg
<1>3. TrackerSound'
  <2> SUFFICES ASSUME NEW n \in Member, NEW q \in Partition
               PROVE  /\ completed'[n][q] \subseteq dispatched'[n][q]
                      /\ \A r \in completed'[n][q] : Accounted(<<q, r>>)'
                      /\ \A r \in dispatched'[n][q] : r < head'[n][q]
    BY DEF TrackerSound
  <2>1. \A r \in completed[n][q] : r \in Offset /\ Accounted(<<q, r>>)
    BY DEF SafeInv, TrackerSound, TypeOK
  <2> QED
    BY <1>1, <1>2, <2>1 DEF SafeInv, TrackerSound
<1>4. NothingPassedOver'
  BY <1>1, <1>2 DEF SafeInv, NothingPassedOver, TypeOK
<1>5. NoForeignTracking'
  BY <1>1 DEF SafeInv, NoForeignTracking
<1> QED
  BY <1>3, <1>4, <1>5

(* A member that drops all it knew of its partitions, with an empty        *)
(* backlog, keeps the tracker's part of the invariant.                     *)
LEMMA OneMemberDropped ==
    ASSUME TypeOK, TypeOK', SafeInv, [Next]_vars, NEW m \in Member,
           \A n \in Member, q \in Partition :
               \/ /\ n # m
                  /\ assigned'[n] = assigned[n]
                  /\ head'[n][q] = head[n][q]
                  /\ pos'[n][q] = pos[n][q]
                  /\ dispatched'[n][q] = dispatched[n][q]
                  /\ completed'[n][q] = completed[n][q]
               \/ /\ n = m
                  /\ assigned'[n] = {}
                  /\ head'[n][q] = pos'[n][q]
                  /\ dispatched'[n][q] = {}
                  /\ completed'[n][q] = {}
    PROVE  TrackerSound' /\ NothingPassedOver' /\ NoForeignTracking'
           /\ BacklogOwned'
<1>a. \A q \in Partition, r \in Offset :
         Accounted(<<q, r>>) => Accounted(<<q, r>>)'
  BY AccountedStable DEF Msg
<1>1. TrackerSound'
  <2> SUFFICES ASSUME NEW n \in Member, NEW q \in Partition
               PROVE  /\ completed'[n][q] \subseteq dispatched'[n][q]
                      /\ \A r \in completed'[n][q] : Accounted(<<q, r>>)'
                      /\ \A r \in dispatched'[n][q] : r < head'[n][q]
    BY DEF TrackerSound
  <2>1. \A r \in completed[n][q] : r \in Offset /\ Accounted(<<q, r>>)
    BY DEF SafeInv, TrackerSound, TypeOK
  <2>2. CASE n = m
    BY <2>2
  <2>3. CASE n # m
    BY <2>1, <2>3, <1>a DEF SafeInv, TrackerSound
  <2> QED
    BY <2>2, <2>3
<1>2. NothingPassedOver'
  <2> SUFFICES ASSUME NEW n \in Member, NEW q \in assigned'[n],
                      NEW r \in Offset, r < head'[n][q]
               PROVE  Accounted(<<q, r>>)' \/ r \in dispatched'[n][q]
    BY DEF NothingPassedOver
  <2>1. q \in Partition
    BY DEF TypeOK
  <2> QED
    BY <2>1, <1>a DEF SafeInv, NothingPassedOver
<1>3. NoForeignTracking'
  BY DEF SafeInv, NoForeignTracking
<1>4. BacklogOwned'
  <2> SUFFICES ASSUME NEW n \in Member, NEW q \in Partition,
                      head'[n][q] < pos'[n][q]
               PROVE  q \in assigned'[n]
    BY DEF BacklogOwned, Backlogged
  <2>1. pos'[n][q] \in Int
    BY DEF TypeOK
  <2> QED
    BY <2>1 DEF SafeInv, BacklogOwned, Backlogged
<1> QED
  BY <1>1, <1>2, <1>3, <1>4

LEMMA SafeStep ==
    ASSUME TypeOK, TypeOK', SafeInv, [Next]_vars
    PROVE  SafeInv'
<1> USE ConstantsAssumption
<1>a. \A q \in Partition, r \in Offset :
         Accounted(<<q, r>>) => Accounted(<<q, r>>)'
  BY AccountedStable DEF Msg
<1>b. \A n \in Member, s \in Slot :
         slot[n][s].pc \in {"complete", "abandon"}
         => WorkerMsg(n, s) \in Msg /\ Accounted(WorkerMsg(n, s))
  BY BusyWorker DEF SafeInv, WorkersSound
<1>c. UNCHANGED committed => CommittedAccounted'
  BY <1>a DEF SafeInv, CommittedAccounted
<1>d. UNCHANGED pend => PendingSound'
  BY <1>a DEF SafeInv, PendingSound
<1>e. UNCHANGED slot => WorkersSound'
  <2> SUFFICES ASSUME UNCHANGED slot, NEW n \in Member, NEW s \in Slot,
                      slot[n][s].pc \in {"complete", "abandon"}
               PROVE  Accounted(WorkerMsg(n, s))'
    BY DEF WorkersSound
  <2>1. WorkerMsg(n, s)' = WorkerMsg(n, s)
    BY DEF WorkerMsg
  <2>2. Accounted(<<slot[n][s].p, slot[n][s].o>>)'
    BY <1>a, <1>b DEF WorkerMsg, Msg
  <2> QED
    BY <2>2 DEF WorkerMsg, Accounted
<1>f. UNCHANGED <<head, pos, assigned>> => BacklogOwned'
  BY DEF SafeInv, BacklogOwned, Backlogged
<1>g. UNCHANGED <<head, assigned, trackerVars>>
      => TrackerSound' /\ NothingPassedOver' /\ NoForeignTracking'
  <2> SUFFICES ASSUME UNCHANGED <<head, assigned, trackerVars>>
               PROVE  TrackerSound' /\ NothingPassedOver' /\ NoForeignTracking'
    OBVIOUS
  <2>1. TrackerSound'
    BY <1>a DEF SafeInv, TrackerSound, trackerVars, TypeOK
  <2>2. NothingPassedOver'
    BY <1>a DEF SafeInv, NothingPassedOver, trackerVars, TypeOK
  <2>3. NoForeignTracking'
    BY DEF SafeInv, NoForeignTracking, trackerVars
  <2> QED
    BY <2>1, <2>2, <2>3
<1>1. CASE UNCHANGED vars
  BY <1>1, <1>c, <1>d, <1>e, <1>f, <1>g
     DEF SafeInv, vars, brokerVars, loopVars, trackerVars
<1>2. ASSUME NEW m \in Member, TakeCommittable(m)
      PROVE  SafeInv'
  <2>1. PICK floors \in [Partition -> 0 .. LogLen] :
           /\ TakeAll(m, floors)
           /\ pend' = [pend EXCEPT ![m] = floors]
    BY <1>2 DEF TakeCommittable
  <2>2. UNCHANGED <<committed, slot, head, pos, assigned, dlq, acked, cases>>
    BY <1>2 DEF TakeCommittable, brokerVars
  <2>3. \A n \in Member, q \in Partition :
           /\ dispatched'[n][q] = IF n = m
                                  THEN dispatched[n][q] \ Committable(m, q)
                                  ELSE dispatched[n][q]
           /\ completed'[n][q] = IF n = m
                                 THEN completed[n][q] \ Committable(m, q)
                                 ELSE completed[n][q]
    <3>1. /\ dispatched \in [Member -> [Partition -> SUBSET Offset]]
          /\ completed \in [Member -> [Partition -> SUBSET Offset]]
      BY DEF TypeOK
    <3>2. /\ dispatched' = [dispatched EXCEPT ![m] =
                            [q \in Partition |-> @[q] \ Committable(m, q)]]
          /\ completed' = [completed EXCEPT ![m] =
                            [q \in Partition |-> @[q] \ Committable(m, q)]]
      BY <2>1 DEF TakeAll
    <3> QED
      BY <3>1, <3>2
  <2>4. \A n \in Member, q \in Partition :
           /\ dispatched'[n][q] \subseteq dispatched[n][q]
           /\ completed'[n][q] \subseteq completed[n][q]
           /\ completed'[n][q] \subseteq dispatched'[n][q]
           /\ \A r \in dispatched[n][q] :
                 r \in dispatched'[n][q] \/ r \in completed[n][q]
    <3> SUFFICES ASSUME NEW n \in Member, NEW q \in Partition
                 PROVE  /\ dispatched'[n][q] \subseteq dispatched[n][q]
                        /\ completed'[n][q] \subseteq completed[n][q]
                        /\ completed'[n][q] \subseteq dispatched'[n][q]
                        /\ \A r \in dispatched[n][q] :
                              r \in dispatched'[n][q] \/ r \in completed[n][q]
      OBVIOUS
    <3>1. completed[n][q] \subseteq dispatched[n][q]
      BY DEF SafeInv, TrackerSound
    <3>2. Committable(m, q) \subseteq completed[m][q]
      BY DEF Committable
    <3>3. CASE n = m
      <4>1. /\ dispatched'[n][q] = dispatched[n][q] \ Committable(m, q)
            /\ completed'[n][q] = completed[n][q] \ Committable(m, q)
        BY <2>3, <3>3
      <4>2. Committable(m, q) \subseteq completed[n][q]
        BY <3>2, <3>3
      <4> QED
        BY <3>1, <4>1, <4>2
    <3>4. CASE n # m
      BY <2>3, <3>1, <3>4
    <3> QED
      BY <3>3, <3>4
  <2>5. PendingSound'
    <3> SUFFICES ASSUME NEW n \in Member, NEW q \in Partition,
                        NEW r \in Offset, r < pend'[n][q]
                 PROVE  Accounted(<<q, r>>)'
      BY DEF PendingSound
    <3>1. CASE n = m
      <4>1. CommitFloor(m, q, floors[q]) /\ floors[q] \in 0 .. LogLen
        BY <2>1 DEF TakeAll
      <4>2. r < floors[q]
        BY <2>1, <3>1 DEF TypeOK
      <4> QED
        BY <4>1, <4>2, <1>a, FloorSound
    <3>2. CASE n # m
      BY <2>1, <3>2, <1>a DEF TypeOK, SafeInv, PendingSound
    <3> QED
      BY <3>1, <3>2
  <2>6. NoForeignTracking'
    BY <2>2, <2>4 DEF SafeInv, NoForeignTracking
  <2>7. TrackerSound'
    <3> SUFFICES ASSUME NEW n \in Member, NEW q \in Partition
                 PROVE  /\ completed'[n][q] \subseteq dispatched'[n][q]
                        /\ \A r \in completed'[n][q] : Accounted(<<q, r>>)'
                        /\ \A r \in dispatched'[n][q] : r < head'[n][q]
      BY DEF TrackerSound
    <3>1. \A r \in completed[n][q] : r \in Offset /\ Accounted(<<q, r>>)
      BY DEF SafeInv, TrackerSound, TypeOK
    <3> QED
      BY <2>2, <2>4, <3>1, <1>a DEF SafeInv, TrackerSound
  <2>8. NothingPassedOver'
    <3> SUFFICES ASSUME NEW n \in Member, NEW q \in assigned[n],
                        NEW r \in Offset, r < head[n][q]
                 PROVE  Accounted(<<q, r>>)' \/ r \in dispatched'[n][q]
      BY <2>2 DEF NothingPassedOver
    <3>1. q \in Partition
      BY DEF TypeOK
    <3>2. Accounted(<<q, r>>) \/ r \in dispatched[n][q]
      BY DEF SafeInv, NothingPassedOver
    <3>3. r \in completed[n][q] => Accounted(<<q, r>>)
      BY <3>1 DEF SafeInv, TrackerSound
    <3> QED
      BY <2>4, <3>1, <3>2, <3>3, <1>a
  <2> QED
    BY <2>2, <2>5, <2>6, <2>7, <2>8, <1>c, <1>e, <1>f DEF SafeInv
<1>3. ASSUME NEW m \in Member, CommitAccepted(m) \/ CommitRaises(m)
      PROVE  SafeInv'
  <2>1. AfterSend(m) /\ (Advance(pend[m]) \/ UNCHANGED committed)
    BY <1>3 DEF CommitAccepted, CommitRaises
  <2>2. CommittedAccounted'
    <3>1. CASE Advance(pend[m])
      <4>1. \A q \in Partition, r \in Offset :
               r < committed'[q] => r < committed[q] \/ r < pend[m][q]
        BY <3>1 DEF Advance
      <4> QED
        BY <4>1, <1>a DEF SafeInv, CommittedAccounted, PendingSound
    <3> QED
      BY <2>1, <3>1, <1>c
  <2>3. PendingSound'
    <3>1. \A n \in Member, q \in Partition :
             pend'[n][q] = IF n = m THEN 0 ELSE pend[n][q]
      BY <2>1 DEF AfterSend, ZeroOffsets, TypeOK
    <3>2. \A r \in Offset : ~(r < 0)
      BY DEF Offset
    <3> QED
      BY <3>1, <3>2, <1>a DEF SafeInv, PendingSound
  <2> QED
    BY <2>1, <2>2, <2>3, <1>e, <1>f, <1>g DEF AfterSend, SafeInv
<1>4. ASSUME NEW m \in Member, PopBacklog(m)
      PROVE  SafeInv'
  <2>1. PICK p \in Partition :
           /\ Backlogged(m, p)
           /\ head' = [head EXCEPT ![m][p] = @ + 1]
           /\ dispatched' = [dispatched EXCEPT ![m][p] = @ \cup {head[m][p]}]
           /\ UNCHANGED completed
    BY <1>4 DEF PopBacklog, TrackDispatched
  <2>2. /\ UNCHANGED <<committed, pend, slot, pos, assigned>>
        /\ p \in assigned[m]
    BY <1>4, <2>1 DEF PopBacklog, brokerVars, SafeInv, BacklogOwned
  <2>3. \A n \in Member, q \in Partition :
           /\ head[n][q] \in 0 .. LogLen
           /\ head'[n][q] \in 0 .. LogLen
           /\ n = m /\ q = p =>
                 /\ head'[n][q] = head[n][q] + 1
                 /\ dispatched'[n][q] = dispatched[n][q] \cup {head[n][q]}
           /\ ~(n = m /\ q = p) =>
                 /\ head'[n][q] = head[n][q]
                 /\ dispatched'[n][q] = dispatched[n][q]
    <3> SUFFICES ASSUME NEW n \in Member, NEW q \in Partition
                 PROVE  /\ head[n][q] \in 0 .. LogLen
                        /\ head'[n][q] \in 0 .. LogLen
                        /\ n = m /\ q = p =>
                              /\ head'[n][q] = head[n][q] + 1
                              /\ dispatched'[n][q] =
                                    dispatched[n][q] \cup {head[n][q]}
                        /\ ~(n = m /\ q = p) =>
                              /\ head'[n][q] = head[n][q]
                              /\ dispatched'[n][q] = dispatched[n][q]
      OBVIOUS
    <3>1. head[n][q] \in 0 .. LogLen /\ head'[n][q] \in 0 .. LogLen
      BY DEF TypeOK
    <3>2. CASE n = m /\ q = p
      BY <2>1, <3>1, <3>2 DEF TypeOK
    <3>3. CASE ~(n = m /\ q = p)
      BY <2>1, <3>1, <3>3 DEF TypeOK
    <3> QED
      BY <3>1, <3>2, <3>3
  <2>4. TrackerSound'
    <3> SUFFICES ASSUME NEW n \in Member, NEW q \in Partition
                 PROVE  /\ completed'[n][q] \subseteq dispatched'[n][q]
                        /\ \A r \in completed'[n][q] : Accounted(<<q, r>>)'
                        /\ \A r \in dispatched'[n][q] : r < head'[n][q]
      BY DEF TrackerSound
    <3>1. \A r \in completed[n][q] : r \in Offset /\ Accounted(<<q, r>>)
      BY DEF SafeInv, TrackerSound, TypeOK
    <3>2. \A r \in dispatched[n][q] : r \in Offset /\ r < head[n][q]
      BY DEF SafeInv, TrackerSound, TypeOK
    <3>3. completed[n][q] \subseteq dispatched[n][q]
      BY DEF SafeInv, TrackerSound
    <3> QED
      BY <2>1, <2>3, <3>1, <3>2, <3>3, <1>a DEF Offset
  <2>5. NothingPassedOver'
    <3> SUFFICES ASSUME NEW n \in Member, NEW q \in assigned[n],
                        NEW r \in Offset, r < head'[n][q]
                 PROVE  Accounted(<<q, r>>)' \/ r \in dispatched'[n][q]
      BY <2>2 DEF NothingPassedOver
    <3>1. q \in Partition
      BY DEF TypeOK
    <3>2. r < head[n][q] \/ (n = m /\ q = p /\ r = head[n][q])
      BY <2>3, <3>1 DEF Offset
    <3>3. r < head[n][q] => Accounted(<<q, r>>) \/ r \in dispatched[n][q]
      BY DEF SafeInv, NothingPassedOver
    <3> QED
      BY <2>3, <3>1, <3>2, <3>3, <1>a
  <2>6. NoForeignTracking'
    BY <2>1, <2>2, <2>3 DEF SafeInv, NoForeignTracking
  <2>7. BacklogOwned'
    <3>1. \A n \in Member, q \in Partition :
             Backlogged(n, q)' => Backlogged(n, q)
      <4> SUFFICES ASSUME NEW n \in Member, NEW q \in Partition,
                          head'[n][q] < pos[n][q]
                   PROVE  head[n][q] < pos[n][q]
        BY <2>2 DEF Backlogged
      <4>1. head[n][q] \in Int /\ pos[n][q] \in Int
        BY DEF TypeOK
      <4> QED
        BY <2>3, <4>1
    <3> QED
      BY <2>2, <3>1 DEF SafeInv, BacklogOwned
  <2> QED
    BY <2>2, <2>4, <2>5, <2>6, <2>7, <1>c, <1>d, <1>e DEF SafeInv
<1>5. ASSUME NEW m \in Member,
             DispatchReturns(m) \/ PollNothing(m) \/ Evict(m)
             \/ RequestShutdown(m)
      PROVE  SafeInv'
  <2>1. UNCHANGED <<committed, pend, slot, head, pos, assigned, trackerVars>>
    BY <1>5 DEF DispatchReturns, PollNothing, Evict, RequestShutdown,
       brokerVars, loopVars
  <2> QED
    BY <2>1, <1>c, <1>d, <1>e, <1>f, <1>g DEF SafeInv
<1>6. ASSUME NEW m \in Member, PollRecords(m)
      PROVE  SafeInv'
  <2>1. UNCHANGED <<committed, pend, slot, head, assigned, trackerVars>>
    BY <1>6 DEF PollRecords, brokerVars
  <2>2. BacklogOwned'
    <3>1. PICK next \in [Partition -> 0 .. LogLen] :
             /\ \A p \in Partition : p \notin assigned[m] => next[p] = pos[m][p]
             /\ pos' = [pos EXCEPT ![m] = next]
      BY <1>6 DEF PollRecords
    <3>2. \A n \in Member, q \in Partition :
             pos'[n][q] = pos[n][q] \/ q \in assigned[n]
      BY <3>1 DEF TypeOK
    <3> QED
      BY <2>1, <3>2 DEF SafeInv, BacklogOwned, Backlogged
  <2> QED
    BY <2>1, <2>2, <1>c, <1>d, <1>e, <1>g DEF SafeInv
<1>7. ASSUME NEW m \in Member, Revoke(m) \/ LearnEviction(m)
      PROVE  SafeInv'
  <2>1. OnPartitionsRevoked(m)
    BY <1>7 DEF Revoke, LearnEviction
  <2>2. /\ UNCHANGED <<pos, pend, slot>>
        /\ assigned' = [assigned EXCEPT ![m] = {}]
        /\ head' = [head EXCEPT ![m] = pos[m]]
        /\ Forget(m, assigned[m])
    BY <2>1 DEF OnPartitionsRevoked
  <2>3. CommittedAccounted'
    <3>1. PICK floors \in [Partition -> 0 .. LogLen] :
             /\ \A p \in Partition :
                   IF p \in assigned[m] THEN CommitFloor(m, p, floors[p])
                                        ELSE floors[p] = 0
             /\ Advance(floors) \/ UNCHANGED committed
      BY <2>1 DEF OnPartitionsRevoked
    <3>2. CASE Advance(floors)
      <4> SUFFICES ASSUME NEW q \in Partition, NEW r \in Offset,
                          r < committed'[q]
                   PROVE  Accounted(<<q, r>>)'
        BY DEF CommittedAccounted
      <4>1. CASE floors[q] = 0
        BY <3>2, <4>1, <1>a DEF Advance, SafeInv, CommittedAccounted
      <4>2. CASE floors[q] # 0
        <5>1. CommitFloor(m, q, floors[q])
          BY <3>1, <4>2
        <5>2. r < floors[q]
          BY <3>2, <4>2 DEF Advance
        <5> QED
          BY <5>1, <5>2, <1>a, FloorSound
      <4> QED
        BY <4>1, <4>2
    <3> QED
      BY <3>1, <3>2, <1>c
  <2>4. \A n \in Member, q \in Partition :
           \/ /\ n # m
              /\ assigned'[n] = assigned[n]
              /\ head'[n][q] = head[n][q]
              /\ pos'[n][q] = pos[n][q]
              /\ dispatched'[n][q] = dispatched[n][q]
              /\ completed'[n][q] = completed[n][q]
           \/ /\ n = m
              /\ assigned'[n] = {}
              /\ head'[n][q] = pos'[n][q]
              /\ dispatched'[n][q] = {}
              /\ completed'[n][q] = {}
    <3> SUFFICES ASSUME NEW n \in Member, NEW q \in Partition
                 PROVE  \/ /\ n # m
                           /\ assigned'[n] = assigned[n]
                           /\ head'[n][q] = head[n][q]
                           /\ pos'[n][q] = pos[n][q]
                           /\ dispatched'[n][q] = dispatched[n][q]
                           /\ completed'[n][q] = completed[n][q]
                        \/ /\ n = m
                           /\ assigned'[n] = {}
                           /\ head'[n][q] = pos'[n][q]
                           /\ dispatched'[n][q] = {}
                           /\ completed'[n][q] = {}
      OBVIOUS
    <3>1. CASE n # m
      BY <2>2, <3>1 DEF TypeOK, Forget
    <3>2. CASE n = m
      <4>1. q \notin assigned[m] =>
               dispatched[m][q] = {} /\ completed[m][q] = {}
        BY DEF SafeInv, NoForeignTracking
      <4>2. dispatched'[m][q] = {} /\ completed'[m][q] = {}
        BY <2>2, <4>1 DEF TypeOK, Forget
      <4> QED
        BY <2>2, <3>2, <4>2 DEF TypeOK
    <3> QED
      BY <3>1, <3>2
  <2>5. TrackerSound' /\ NothingPassedOver' /\ NoForeignTracking'
        /\ BacklogOwned'
    BY <2>2, <2>4, OneMemberDropped
  <2> QED
    BY <2>2, <2>3, <2>5, <1>d, <1>e DEF SafeInv
<1>8. ASSUME NEW m \in Member, Assign(m)
      PROVE  SafeInv'
  <2>1. PICK given \in SUBSET {p \in Partition : owner[p] = NoMember} :
           /\ assigned' = [assigned EXCEPT ![m] = given]
           /\ head' = [head EXCEPT ![m] = [p \in Partition |->
                          IF p \in given THEN committed[p] ELSE @[p]]]
           /\ pos' = [pos EXCEPT ![m] = [p \in Partition |->
                          IF p \in given THEN committed[p] ELSE @[p]]]
           /\ Forget(m, given)
    BY <1>8 DEF Assign
  <2>2. assigned[m] = {} /\ UNCHANGED <<committed, pend, slot>>
    BY <1>8 DEF Assign
  <2>3. \A q \in Partition : dispatched[m][q] = {} /\ completed[m][q] = {}
    BY <2>2 DEF SafeInv, NoForeignTracking
  <2>4. \A q \in Partition : dispatched'[m][q] = {} /\ completed'[m][q] = {}
    BY <2>1, <2>3 DEF Forget, TypeOK
  <2>5. /\ assigned'[m] = given
        /\ \A q \in given : /\ q \in Partition
                             /\ head'[m][q] = committed[q]
                             /\ pos'[m][q] = committed[q]
        /\ \A q \in Partition \ given : /\ head'[m][q] = head[m][q]
                                         /\ pos'[m][q] = pos[m][q]
    BY <2>1 DEF TypeOK
  <2>6. \A n \in Member \ {m}, q \in Partition :
           /\ assigned'[n] = assigned[n]
           /\ head'[n][q] = head[n][q]
           /\ pos'[n][q] = pos[n][q]
           /\ dispatched'[n][q] = dispatched[n][q]
           /\ completed'[n][q] = completed[n][q]
    BY <2>1 DEF TypeOK, Forget
  <2>7. TrackerSound'
    <3> SUFFICES ASSUME NEW n \in Member, NEW q \in Partition
                 PROVE  /\ completed'[n][q] \subseteq dispatched'[n][q]
                        /\ \A r \in completed'[n][q] : Accounted(<<q, r>>)'
                        /\ \A r \in dispatched'[n][q] : r < head'[n][q]
      BY DEF TrackerSound
    <3>1. CASE n = m
      BY <2>4, <3>1
    <3>2. CASE n # m
      <4>1. \A r \in completed[n][q] : r \in Offset /\ Accounted(<<q, r>>)
        BY DEF SafeInv, TrackerSound, TypeOK
      <4> QED
        BY <2>6, <3>2, <4>1, <1>a DEF SafeInv, TrackerSound
    <3> QED
      BY <3>1, <3>2
  <2>8. NothingPassedOver'
    <3> SUFFICES ASSUME NEW n \in Member, NEW q \in assigned'[n],
                        NEW r \in Offset, r < head'[n][q]
                 PROVE  Accounted(<<q, r>>)' \/ r \in dispatched'[n][q]
      BY DEF NothingPassedOver
    <3>1. q \in Partition
      BY DEF TypeOK
    <3>2. CASE n = m
      BY <2>5, <3>1, <3>2, <1>a DEF SafeInv, CommittedAccounted
    <3>3. CASE n # m
      BY <2>6, <3>1, <3>3, <1>a DEF SafeInv, NothingPassedOver
    <3> QED
      BY <3>2, <3>3
  <2>9. NoForeignTracking'
    <3> SUFFICES ASSUME NEW n \in Member, NEW q \in Partition,
                        q \notin assigned'[n]
                 PROVE  dispatched'[n][q] = {} /\ completed'[n][q] = {}
      BY DEF NoForeignTracking
    <3>1. CASE n = m
      BY <2>4, <3>1
    <3>2. CASE n # m
      BY <2>6, <3>2 DEF SafeInv, NoForeignTracking
    <3> QED
      BY <3>1, <3>2
  <2>10. BacklogOwned'
    <3> SUFFICES ASSUME NEW n \in Member, NEW q \in Partition,
                        head'[n][q] < pos'[n][q]
                 PROVE  q \in assigned'[n]
      BY DEF BacklogOwned, Backlogged
    <3>1. CASE n = m
      <4>1. ~(head[m][q] < pos[m][q])
        BY <2>2 DEF SafeInv, BacklogOwned, Backlogged
      <4> QED
        BY <2>5, <3>1, <4>1
    <3>2. CASE n # m
      BY <2>6, <3>2 DEF SafeInv, BacklogOwned, Backlogged
    <3> QED
      BY <3>1, <3>2
  <2> QED
    BY <2>2, <2>7, <2>8, <2>9, <2>10, <1>c, <1>d, <1>e DEF SafeInv
<1>9. ASSUME NEW m \in Member, Crash(m) \/ Restart(m)
      PROVE  SafeInv'
  <2>1. FreshProcess(m)
    BY <1>9 DEF Crash, Restart
  <2>2. UNCHANGED committed
    BY <2>1 DEF FreshProcess
  <2>3. \A n \in Member, q \in Partition :
           \/ /\ n # m
              /\ assigned'[n] = assigned[n]
              /\ head'[n][q] = head[n][q]
              /\ pos'[n][q] = pos[n][q]
              /\ dispatched'[n][q] = dispatched[n][q]
              /\ completed'[n][q] = completed[n][q]
           \/ /\ n = m
              /\ assigned'[n] = {}
              /\ head'[n][q] = pos'[n][q]
              /\ dispatched'[n][q] = {}
              /\ completed'[n][q] = {}
    BY <2>1 DEF FreshProcess, TypeOK, ZeroOffsets, NoOffsets
  <2>4. TrackerSound' /\ NothingPassedOver' /\ NoForeignTracking'
        /\ BacklogOwned'
    BY <2>3, OneMemberDropped
  <2>5. PendingSound'
    <3>1. \A n \in Member, q \in Partition :
             pend'[n][q] = IF n = m THEN 0 ELSE pend[n][q]
      BY <2>1 DEF FreshProcess, ZeroOffsets, TypeOK
    <3>2. \A r \in Offset : ~(r < 0)
      BY DEF Offset
    <3> QED
      BY <3>1, <3>2, <1>a DEF SafeInv, PendingSound
  <2>6. WorkersSound'
    <3> SUFFICES ASSUME NEW n \in Member, NEW s \in Slot,
                        slot'[n][s].pc \in {"complete", "abandon"}
                 PROVE  Accounted(WorkerMsg(n, s))'
      BY DEF WorkersSound
    <3>1. n # m
      BY <2>1 DEF FreshProcess, TypeOK, Idle
    <3>2. slot'[n][s] = slot[n][s]
      BY <2>1, <3>1 DEF FreshProcess, TypeOK
    <3>3. Accounted(<<slot[n][s].p, slot[n][s].o>>)'
      BY <3>2, <1>a, <1>b DEF WorkerMsg, Msg
    <3> QED
      BY <3>2, <3>3 DEF WorkerMsg, Accounted
  <2> QED
    BY <2>2, <2>4, <2>5, <2>6, <1>c DEF SafeInv
<1>10. ASSUME NEW m \in Member, NEW p \in Partition, NEW o \in Offset,
              \/ HandlePoison(m, p, o) \/ HandleSkip(m, p, o)
              \/ HandleStorageFault(m, p, o)
       PROVE  SafeInv'
  <2>1. UNCHANGED <<committed, pend, slot, head, pos, assigned>>
    BY <1>10 DEF HandlePoison, HandleSkip, HandleStorageFault, LeaveHandler,
       brokerVars, loopVars
  <2>2. \/ /\ TrackCompleted(m, p, o) \/ TrackAbandoned(m, p, o)
           /\ Accounted(<<p, o>>)'
        \/ UNCHANGED trackerVars
    <3>1. CASE HandlePoison(m, p, o) \/ HandleStorageFault(m, p, o)
      BY <3>1 DEF HandlePoison, HandleStorageFault, DlqAccepts, Accounted
    <3>2. CASE HandleSkip(m, p, o)
      <4>1. Accounted(<<p, o>>)
        BY <3>2 DEF HandleSkip, ShouldSkip, Accounted
      <4> QED
        BY <3>2, <4>1, <1>a DEF HandleSkip
    <3> QED
      BY <1>10, <3>1, <3>2
  <2>3. TrackerSound' /\ NothingPassedOver' /\ NoForeignTracking'
    BY <2>1, <2>2, TrackerStep
  <2> QED
    BY <2>1, <2>3, <1>c, <1>d, <1>e, <1>f DEF SafeInv
<1>11. ASSUME NEW m \in Member, NEW p \in Partition, NEW o \in Offset,
              HandleSubmit(m, p, o)
       PROVE  SafeInv'
  <2>1. UNCHANGED <<committed, pend, head, pos, assigned, trackerVars>>
    BY <1>11 DEF HandleSubmit, brokerVars, loopVars
  <2>2. PICK s \in Slot :
           slot' = [slot EXCEPT ![m][s] = [pc |-> "forward", p |-> p, o |-> o]]
    BY <1>11 DEF HandleSubmit
  <2>3. WorkersSound'
    <3> SUFFICES ASSUME NEW n \in Member, NEW t \in Slot,
                        slot'[n][t].pc \in {"complete", "abandon"}
                 PROVE  Accounted(WorkerMsg(n, t))'
      BY DEF WorkersSound
    <3>1. slot'[n][t] = slot[n][t]
      BY <2>2 DEF TypeOK
    <3>2. Accounted(<<slot[n][t].p, slot[n][t].o>>)'
      BY <3>1, <1>a, <1>b DEF WorkerMsg, Msg
    <3> QED
      BY <3>1, <3>2 DEF WorkerMsg, Accounted
  <2> QED
    BY <2>1, <2>3, <1>c, <1>d, <1>f, <1>g DEF SafeInv
<1>12. ASSUME NEW m \in Member, NEW s \in Slot,
              \/ ForwardSucceeds(m, s) \/ ForwardFails(m, s)
              \/ SaveTimeout(m, s) \/ WorkerDlq(m, s)
       PROVE  SafeInv'
  <2>1. UNCHANGED <<committed, pend, head, pos, assigned, trackerVars>>
    BY <1>12 DEF ForwardSucceeds, ForwardFails, SaveTimeout, WorkerDlq,
       brokerVars, loopVars
  <2>2. PICK next \in WorkerPc :
           /\ WorkerGoto(m, s, next)
           /\ next \in {"complete", "abandon"} =>
                 WorkerMsg(m, s) \in acked' \cup dlq'
    BY <1>12 DEF ForwardSucceeds, ForwardFails, SaveTimeout, WorkerDlq,
       DlqAccepts, WorkerPc
  <2>3. WorkersSound'
    <3> SUFFICES ASSUME NEW n \in Member, NEW t \in Slot,
                        slot'[n][t].pc \in {"complete", "abandon"}
                 PROVE  Accounted(WorkerMsg(n, t))'
      BY DEF WorkersSound
    <3>1. CASE n = m /\ t = s
      <4>1. slot'[n][t] = [pc |-> next, p |-> slot[m][s].p, o |-> slot[m][s].o]
        BY <2>2, <3>1 DEF WorkerGoto, TypeOK
      <4>2. WorkerMsg(n, t)' = WorkerMsg(m, s)
        BY <4>1 DEF WorkerMsg
      <4>3. WorkerMsg(n, t)' \in acked' \cup dlq'
        BY <2>2, <4>1, <4>2
      <4> QED
        BY <4>3 DEF Accounted
    <3>2. CASE ~(n = m /\ t = s)
      <4>1. slot'[n][t] = slot[n][t]
        BY <2>2, <3>2 DEF WorkerGoto, TypeOK
      <4>2. Accounted(<<slot[n][t].p, slot[n][t].o>>)'
        BY <4>1, <1>a, <1>b DEF WorkerMsg, Msg
      <4> QED
        BY <4>1, <4>2 DEF WorkerMsg, Accounted
    <3> QED
      BY <3>1, <3>2
  <2> QED
    BY <2>1, <2>3, <1>c, <1>d, <1>f, <1>g DEF SafeInv
<1>13. ASSUME NEW m \in Member, NEW s \in Slot, WorkerEnds(m, s)
       PROVE  SafeInv'
  <2>1. /\ UNCHANGED <<committed, pend, head, pos, assigned>>
        /\ slot' = [slot EXCEPT ![m][s] = Idle]
    BY <1>13 DEF WorkerEnds, brokerVars, loopVars
  <2>2. slot[m][s] \in [pc : WorkerPc, p : Partition, o : Offset]
    BY <1>13, BusyWorker DEF WorkerEnds, WorkerAt
  <2>3. PICK p \in Partition, o \in Offset :
           \/ /\ TrackCompleted(m, p, o) \/ TrackAbandoned(m, p, o)
              /\ Accounted(<<p, o>>)'
           \/ UNCHANGED trackerVars
    <3>1. PICK p \in Partition, o \in Offset :
             slot[m][s].p = p /\ slot[m][s].o = o
      BY <2>2
    <3>2. \/ /\ TrackCompleted(m, p, o) \/ TrackAbandoned(m, p, o)
             /\ slot[m][s].pc \in {"complete", "abandon"}
          \/ UNCHANGED trackerVars
      BY <1>13, <3>1 DEF WorkerEnds, WorkerAt
    <3>3. slot[m][s].pc \in {"complete", "abandon"} => Accounted(<<p, o>>)'
      BY <3>1, <1>a, <1>b DEF WorkerMsg
    <3> QED
      BY <3>2, <3>3
  <2>4. TrackerSound' /\ NothingPassedOver' /\ NoForeignTracking'
    BY <2>1, <2>3, TrackerStep
  <2>5. WorkersSound'
    <3> SUFFICES ASSUME NEW n \in Member, NEW t \in Slot,
                        slot'[n][t].pc \in {"complete", "abandon"}
                 PROVE  Accounted(WorkerMsg(n, t))'
      BY DEF WorkersSound
    <3>1. slot'[n][t] = slot[n][t]
      BY <2>1 DEF TypeOK, Idle
    <3>2. Accounted(<<slot[n][t].p, slot[n][t].o>>)'
      BY <3>1, <1>a, <1>b DEF WorkerMsg, Msg
    <3> QED
      BY <3>1, <3>2 DEF WorkerMsg, Accounted
  <2> QED
    BY <2>1, <2>4, <2>5, <1>c, <1>d, <1>f DEF SafeInv
<1> QED
  BY <1>1, <1>2, <1>3, <1>4, <1>5, <1>6, <1>7, <1>8, <1>9, <1>10, <1>11,
     <1>12, <1>13, NextCases

LEMMA SafeInvariant == Spec => [](TypeOK /\ SafeInv)
<1>1. Init => TypeOK /\ SafeInv
  BY TypeInit, SafeInit
<1>2. TypeOK /\ SafeInv /\ [Next]_vars => (TypeOK /\ SafeInv)'
  BY TypeStep, SafeStep
<1> QED
  BY <1>1, <1>2, PTL DEF Spec

\* No message below the committed position of its partition is unaccounted for:
\* OffsetTracker's low-water mark is safe under any interleaving of workers,
\* rebalances, evictions, crashes, refused commits and failed DLQ publishes.
THEOREM CommitIsSafe == Spec => []CommittedAccounted
<1>1. SafeInv => CommittedAccounted
  BY DEF SafeInv
<1> QED
  BY <1>1, SafeInvariant, PTL

\* A member never holds offset state for a partition it does not own, so a
\* worker that reports late cannot make it commit for another owner.
THEOREM OwnPartitionsOnly == Spec => []NoForeignTracking
<1>1. SafeInv => NoForeignTracking
  BY DEF SafeInv
<1> QED
  BY <1>1, SafeInvariant, PTL

-----------------------------------------------------------------------------
(* The books of a member, and the group as AtLeastOnce. *)

(* The poll loop holds at most one message outside its backlog. *)
HandHolds == \A m \in Member : hand[m] = {} \/ \E x \in Msg : hand[m] = {x}

(* The worker threads that are not waiting for work. *)
Busy(m) == {s \in Slot : ~WorkerAt(m, s, "idle")}

LEMMA BusyFinite ==
    ASSUME NEW m \in Member
    PROVE  IsFiniteSet(Busy(m)) /\ Cardinality(Busy(m)) \in Nat
<1>1. IsFiniteSet(Slot)
  BY ConstantsAssumption, FS_Interval DEF Slot
<1>2. Busy(m) \in SUBSET Slot
  BY DEF Busy
<1> QED
  BY <1>1, <1>2, FS_Subset, FS_CardinalityType

LEMMA BalanceOf ==
    PermitsBalance <=>
        \A m \in Member :
            sem[m] + Cardinality(Busy(m)) + Cardinality(hand[m]) = MaxConcurrent
BY DEF PermitsBalance, Busy

LEMMA HandCount ==
    ASSUME HandHolds, NEW m \in Member
    PROVE  /\ Cardinality(hand[m]) = IF hand[m] = {} THEN 0 ELSE 1
BY FS_EmptySet, FS_Singleton DEF HandHolds

----------------------------------------------------------------------------
(* The semaphore's permits. *)

(* A step of one member that keeps that member's balance keeps everyone's. *)
LEMMA OneMemberBalance ==
    ASSUME PermitsBalance, NEW m \in Member,
           \A n \in Member \ {m} : /\ sem'[n] = sem[n]
                                   /\ slot'[n] = slot[n]
                                   /\ hand'[n] = hand[n],
           sem'[m] + Cardinality(Busy(m)') + Cardinality(hand'[m]) = MaxConcurrent
    PROVE  PermitsBalance'
<1> SUFFICES ASSUME NEW n \in Member
             PROVE  sem'[n] + Cardinality(Busy(n)') + Cardinality(hand'[n])
                       = MaxConcurrent
  BY DEF PermitsBalance, Busy
<1>1. CASE n = m
  BY <1>1
<1>2. CASE n # m
  <2>1. Busy(n)' = Busy(n)
    BY <1>2 DEF Busy, WorkerAt
  <2> QED
    BY <1>2, <2>1, BalanceOf
<1> QED
  BY <1>1, <1>2

LEMMA PermitsStep ==
    ASSUME TypeOK, HandHolds, PermitsBalance, [Next]_vars
    PROVE  HandHolds' /\ PermitsBalance'
<1> USE DEF brokerVars, loopVars, trackerVars, budgets
<1>a. /\ hand \in [Member -> SUBSET Msg] /\ sem \in [Member -> Nat]
      /\ slot \in [Member -> [Slot -> SlotState]] /\ MaxConcurrent \in Nat
  BY ConstantsAssumption DEF TypeOK
<1>b. \A m \in Member :
         sem[m] + Cardinality(Busy(m)) + Cardinality(hand[m]) = MaxConcurrent
  BY BalanceOf
<1>c. \A m \in Member : Cardinality(Busy(m)) \in Nat /\ IsFiniteSet(Busy(m))
  BY BusyFinite
<1>d. \A m \in Member : Cardinality(hand[m]) = IF hand[m] = {} THEN 0 ELSE 1
  BY HandCount
<1>e. Cardinality({}) = 0 /\ \A x : Cardinality({x}) = 1
  BY FS_EmptySet, FS_Singleton
<1>1. ASSUME UNCHANGED <<hand, sem, slot>>
      PROVE  HandHolds' /\ PermitsBalance'
  BY <1>1 DEF HandHolds, PermitsBalance, WorkerAt
<1>2. CASE UNCHANGED vars
  BY <1>1, <1>2 DEF vars
<1>3. ASSUME NEW m \in Member,
             \/ TakeCommittable(m) \/ CommitAccepted(m) \/ CommitRaises(m)
             \/ DispatchReturns(m) \/ PollRecords(m) \/ PollNothing(m)
             \/ LearnEviction(m) \/ Assign(m) \/ Revoke(m) \/ Evict(m)
             \/ RequestShutdown(m)
      PROVE  UNCHANGED <<hand, sem, slot>>
  BY <1>3 DEF TakeCommittable, CommitAccepted, CommitRaises, AfterSend,
     DispatchReturns, PollRecords, PollNothing, LearnEviction, Assign, Revoke,
     OnPartitionsRevoked, Evict, RequestShutdown
<1>4. ASSUME NEW m \in Member, PopBacklog(m)
      PROVE  HandHolds' /\ PermitsBalance'
  <2>1. PICK p \in Partition :
           /\ Backlogged(m, p)
           /\ hand' = [hand EXCEPT ![m] = {<<p, head[m][p]>>}]
    BY <1>4 DEF PopBacklog
  <2>2. /\ hand[m] = {} /\ sem[m] > 0 /\ UNCHANGED slot
        /\ sem' = [sem EXCEPT ![m] = sem[m] - 1]
    BY <1>4 DEF PopBacklog
  <2>3. <<p, head[m][p]>> \in Msg
    BY <2>1, ConstantsAssumption DEF TypeOK, Backlogged, Msg, Offset
  <2>4. HandHolds'
    BY <2>1, <2>3, <1>a DEF HandHolds
  <2>5. Busy(m)' = Busy(m)
    BY <2>2 DEF Busy, WorkerAt
  <2>6. sem'[m] = sem[m] - 1 /\ Cardinality(hand'[m]) = 1
    BY <2>1, <2>2, <1>a, <1>e
  <2>7. sem'[m] + Cardinality(Busy(m)') + Cardinality(hand'[m]) = MaxConcurrent
    BY <2>2, <2>5, <2>6, <1>a, <1>b, <1>c, <1>d
  <2> QED
    BY <2>1, <2>2, <2>4, <2>7, <1>a, OneMemberBalance
<1>5. ASSUME NEW m \in Member, NEW p \in Partition, NEW o \in Offset,
             \/ HandlePoison(m, p, o) \/ HandleSkip(m, p, o)
             \/ HandleStorageFault(m, p, o)
      PROVE  HandHolds' /\ PermitsBalance'
  <2>1. /\ <<p, o>> \in hand[m] /\ UNCHANGED slot
        /\ hand' = [hand EXCEPT ![m] = {}]
        /\ sem' = [sem EXCEPT ![m] = sem[m] + 1]
    BY <1>5 DEF HandlePoison, HandleSkip, HandleStorageFault, LeaveHandler
  <2>2. HandHolds'
    BY <2>1, <1>a DEF HandHolds
  <2>3. Busy(m)' = Busy(m)
    BY <2>1 DEF Busy, WorkerAt
  <2>4. sem'[m] = sem[m] + 1 /\ Cardinality(hand'[m]) = 0 /\ Cardinality(hand[m]) = 1
    BY <2>1, <1>a, <1>d, <1>e
  <2>5. sem'[m] + Cardinality(Busy(m)') + Cardinality(hand'[m]) = MaxConcurrent
    BY <2>3, <2>4, <1>a, <1>b, <1>c
  <2> QED
    BY <2>1, <2>2, <2>5, <1>a, OneMemberBalance
<1>6. ASSUME NEW m \in Member, NEW p \in Partition, NEW o \in Offset,
             HandleSubmit(m, p, o)
      PROVE  HandHolds' /\ PermitsBalance'
  <2>1. /\ <<p, o>> \in hand[m] /\ UNCHANGED sem
        /\ hand' = [hand EXCEPT ![m] = {}]
    BY <1>6 DEF HandleSubmit
  <2>2. PICK s \in Slot :
           /\ slot[m][s].pc = "idle"
           /\ slot' = [slot EXCEPT ![m][s] = [pc |-> "forward", p |-> p, o |-> o]]
    BY <1>6 DEF HandleSubmit
  <2>3. HandHolds'
    BY <2>1, <1>a DEF HandHolds
  <2>4. Busy(m)' = Busy(m) \cup {s} /\ s \notin Busy(m)
    BY <2>2, <1>a DEF Busy, WorkerAt
  <2>5. Cardinality(Busy(m)') = Cardinality(Busy(m)) + 1
    BY <2>4, <1>c, FS_AddElement
  <2>6. Cardinality(hand'[m]) = 0 /\ Cardinality(hand[m]) = 1
    BY <2>1, <1>a, <1>d, <1>e
  <2>7. sem'[m] + Cardinality(Busy(m)') + Cardinality(hand'[m]) = MaxConcurrent
    BY <2>1, <2>5, <2>6, <1>a, <1>b, <1>c
  <2> QED
    BY <2>1, <2>2, <2>3, <2>7, <1>a, OneMemberBalance
<1>7. ASSUME NEW m \in Member, NEW s \in Slot,
             \/ ForwardSucceeds(m, s) \/ ForwardFails(m, s)
             \/ SaveTimeout(m, s) \/ WorkerDlq(m, s)
      PROVE  HandHolds' /\ PermitsBalance'
  <2>1. PICK next \in WorkerPc : WorkerGoto(m, s, next)
    BY <1>7 DEF ForwardSucceeds, ForwardFails, SaveTimeout, WorkerDlq, WorkerPc
  <2>2. slot[m][s].pc # "idle" /\ UNCHANGED <<hand, sem>>
    BY <1>7 DEF ForwardSucceeds, ForwardFails, SaveTimeout, WorkerDlq, WorkerAt
  <2>3. next # "idle"
    BY DEF WorkerPc
  <2>4. Busy(m)' = Busy(m)
    BY <2>1, <2>2, <2>3, <1>a DEF Busy, WorkerAt, WorkerGoto
  <2>5. HandHolds'
    BY <2>2 DEF HandHolds
  <2>6. \A n \in Member \ {m} : slot'[n] = slot[n]
    BY <2>1, <1>a DEF WorkerGoto
  <2> QED
    BY <2>2, <2>4, <2>5, <2>6, <1>b, OneMemberBalance
<1>8. ASSUME NEW m \in Member, NEW s \in Slot, WorkerEnds(m, s)
      PROVE  HandHolds' /\ PermitsBalance'
  <2>1. /\ slot[m][s].pc # "idle" /\ UNCHANGED hand
        /\ slot' = [slot EXCEPT ![m][s] = Idle]
        /\ sem' = [sem EXCEPT ![m] = sem[m] + 1]
    BY <1>8 DEF WorkerEnds, WorkerAt
  <2>2. Busy(m)' = Busy(m) \ {s} /\ s \in Busy(m)
    BY <2>1, <1>a DEF Busy, WorkerAt, Idle
  <2>3. Cardinality(Busy(m)') = Cardinality(Busy(m)) - 1
    BY <2>2, <1>c, FS_RemoveElement
  <2>4. sem'[m] = sem[m] + 1
    BY <2>1, <1>a
  <2>5. Cardinality(hand[m]) \in Nat
    BY <1>d
  <2>6. sem'[m] + Cardinality(Busy(m)') + Cardinality(hand'[m]) = MaxConcurrent
    BY <2>1, <2>3, <2>4, <2>5, <1>a, <1>b, <1>c
  <2>7. HandHolds'
    BY <2>1 DEF HandHolds
  <2> QED
    BY <2>1, <2>6, <2>7, <1>a, OneMemberBalance
<1>9. ASSUME NEW m \in Member, Crash(m) \/ Restart(m)
      PROVE  HandHolds' /\ PermitsBalance'
  <2>1. /\ hand' = [hand EXCEPT ![m] = {}]
        /\ sem' = [sem EXCEPT ![m] = MaxConcurrent]
        /\ slot' = [slot EXCEPT ![m] = [s \in Slot |-> Idle]]
    BY <1>9 DEF Crash, Restart, FreshProcess
  <2>2. Busy(m)' = {}
    BY <2>1, <1>a DEF Busy, WorkerAt, Idle
  <2>3. sem'[m] = MaxConcurrent /\ hand'[m] = {}
    BY <2>1, <1>a
  <2>4. sem'[m] + Cardinality(Busy(m)') + Cardinality(hand'[m]) = MaxConcurrent
    BY <2>2, <2>3, <1>a, <1>e
  <2>5. HandHolds'
    BY <2>1, <1>a DEF HandHolds
  <2> QED
    BY <2>1, <2>4, <2>5, <1>a, OneMemberBalance
<1> QED
  BY <1>1, <1>2, <1>3, <1>4, <1>5, <1>6, <1>7, <1>8, <1>9, NextCases

LEMMA PermitsInvariant == Spec => [](HandHolds /\ PermitsBalance)
<1>1. Init => HandHolds /\ PermitsBalance
  <2> SUFFICES ASSUME Init PROVE HandHolds /\ PermitsBalance
    OBVIOUS
  <2>1. \A m \in Member : Busy(m) = {} /\ hand[m] = {} /\ sem[m] = MaxConcurrent
    BY DEF Init, Busy, WorkerAt, Idle
  <2>2. Cardinality({}) = 0 /\ MaxConcurrent \in Nat
    BY FS_EmptySet, ConstantsAssumption
  <2>3. \A m \in Member :
           sem[m] + Cardinality(Busy(m)) + Cardinality(hand[m]) = MaxConcurrent
    BY <2>1, <2>2
  <2> QED
    BY <2>1, <2>3, BalanceOf DEF HandHolds
<1>2. TypeOK /\ HandHolds /\ PermitsBalance /\ [Next]_vars
         => (HandHolds /\ PermitsBalance)'
  BY PermitsStep
<1> QED
  BY <1>1, <1>2, TypeCorrect, PTL DEF Spec

----------------------------------------------------------------------------
(* The tracker's offsets. *)

(* A worker gives up a message without a word to the tracker only when the *)
(* DLQ refused it.                                                         *)
HoldsAfterFault ==
    dlqFaults = 0 => \A m \in Member, s \in Slot : slot[m][s].pc # "release"

(* Offsets the tracker waits for. *)
Running(m, p) == dispatched[m][p] \ completed[m][p]

(* Whoever reports an offset is no longer waited for. *)
LEMMA RunningShrinks ==
    ASSUME TypeOK, NEW m \in Member, NEW p \in Partition, NEW o \in Offset,
           TrackCompleted(m, p, o) \/ TrackAbandoned(m, p, o)
    PROVE  /\ \A n \in Member, q \in Partition :
                 Running(n, q)' \subseteq Running(n, q)
           /\ o \notin Running(m, p)'
<1>a. /\ dispatched \in [Member -> [Partition -> SUBSET Offset]]
      /\ completed \in [Member -> [Partition -> SUBSET Offset]]
  BY DEF TypeOK
<1>1. CASE TrackCompleted(m, p, o)
  <2>1. /\ UNCHANGED dispatched
        /\ \A n \in Member, q \in Partition :
              completed'[n][q] = IF n = m /\ q = p /\ o \in dispatched[m][p]
                                 THEN completed[n][q] \cup {o}
                                 ELSE completed[n][q]
    BY <1>1, <1>a DEF TrackCompleted
  <2> QED
    BY <2>1 DEF Running
<1>2. CASE TrackAbandoned(m, p, o)
  <2>1. \A n \in Member, q \in Partition :
           /\ completed'[n][q] = IF n = m /\ q = p THEN completed[n][q] \ {o}
                                                   ELSE completed[n][q]
           /\ dispatched'[n][q] = IF n = m /\ q = p THEN dispatched[n][q] \ {o}
                                                    ELSE dispatched[n][q]
    BY <1>2, <1>a DEF TrackAbandoned
  <2>2. o \notin Running(m, p)'
    BY <2>1 DEF Running
  <2>3. ASSUME NEW n \in Member, NEW q \in Partition
        PROVE  Running(n, q)' \subseteq Running(n, q)
    <3>1. CASE n = m /\ q = p
      <4>1. /\ completed'[n][q] = completed[n][q] \ {o}
            /\ dispatched'[n][q] = dispatched[n][q] \ {o}
        BY <2>1, <3>1
      <4> QED
        BY <4>1 DEF Running
    <3>2. CASE ~(n = m /\ q = p)
      <4>1. completed'[n][q] = completed[n][q] /\ dispatched'[n][q] = dispatched[n][q]
        BY <2>1, <3>2
      <4> QED
        BY <4>1 DEF Running
    <3> QED
      BY <3>1, <3>2
  <2> QED
    BY <2>2, <2>3
<1> QED
  BY <1>1, <1>2

LEMMA DlqFaultsStay ==
    ASSUME TypeOK, [Next]_vars, dlqFaults' = 0
    PROVE  dlqFaults = 0
<1>a. dlqFaults \in Nat
  BY ConstantsAssumption DEF TypeOK
<1>b. dlqFaults' = dlqFaults \/ dlqFaults' = dlqFaults + 1
  <2> USE DEF budgets
  <2>1. CASE UNCHANGED vars
    BY <2>1 DEF vars
  <2>2. ASSUME NEW m \in Member,
               \/ TakeCommittable(m) \/ CommitAccepted(m) \/ CommitRaises(m)
               \/ PopBacklog(m) \/ DispatchReturns(m)
               \/ PollRecords(m) \/ PollNothing(m)
               \/ LearnEviction(m) \/ Assign(m) \/ Revoke(m) \/ Evict(m)
               \/ RequestShutdown(m) \/ Crash(m) \/ Restart(m)
        PROVE  dlqFaults' = dlqFaults
    BY <2>2 DEF TakeCommittable, CommitAccepted, CommitRaises, SpendCommitFault,
       PopBacklog, DispatchReturns, PollRecords, PollNothing, LearnEviction,
       Revoke, Assign, Evict, RequestShutdown, Crash, Restart, SpendFault
  <2>3. ASSUME NEW m \in Member, NEW p \in Partition, NEW o \in Offset,
               \/ HandlePoison(m, p, o) \/ HandleSkip(m, p, o)
               \/ HandleStorageFault(m, p, o) \/ HandleSubmit(m, p, o)
        PROVE  dlqFaults' = dlqFaults \/ dlqFaults' = dlqFaults + 1
    BY <2>3 DEF HandlePoison, HandleSkip, HandleStorageFault, HandleSubmit,
       DlqAccepts, DlqRaises
  <2>4. ASSUME NEW m \in Member, NEW s \in Slot,
               \/ ForwardSucceeds(m, s) \/ ForwardFails(m, s)
               \/ SaveTimeout(m, s) \/ WorkerDlq(m, s) \/ WorkerEnds(m, s)
        PROVE  dlqFaults' = dlqFaults \/ dlqFaults' = dlqFaults + 1
    BY <2>4 DEF ForwardSucceeds, ForwardFails, SaveTimeout, WorkerDlq,
       WorkerEnds, DlqAccepts, DlqRaises
  <2> QED
    BY <2>1, <2>2, <2>3, <2>4, NextCases
<1> QED
  BY <1>a, <1>b

LEMMA NothingStrandedStep ==
    ASSUME TypeOK, HandHolds, HoldsAfterFault, NoStrandedOffset, [Next]_vars
    PROVE  HoldsAfterFault' /\ NoStrandedOffset'
<1> USE DEF brokerVars, loopVars, trackerVars, budgets
<1> SUFFICES ASSUME dlqFaults' = 0
             PROVE  /\ \A m \in Member, s \in Slot : slot'[m][s].pc # "release"
                    /\ \A m \in Member, p \in Partition :
                          \A o \in Running(m, p)' : InHands(m, <<p, o>>)'
  BY DEF HoldsAfterFault, NoStrandedOffset, Running
<1>a. /\ hand \in [Member -> SUBSET Msg]
      /\ slot \in [Member -> [Slot -> SlotState]]
      /\ dispatched \in [Member -> [Partition -> SUBSET Offset]]
      /\ completed \in [Member -> [Partition -> SUBSET Offset]]
      /\ head \in [Member -> [Partition -> 0 .. LogLen]]
      /\ dlqFaults \in Nat
  BY ConstantsAssumption DEF TypeOK
<1>b. dlqFaults = 0
  BY DlqFaultsStay
<1>c. \A m \in Member, s \in Slot : slot[m][s].pc # "release"
  BY <1>b DEF HoldsAfterFault
<1>d. \A m \in Member, p \in Partition :
         \A o \in Running(m, p) : InHands(m, <<p, o>>)
  BY <1>b DEF NoStrandedOffset, Running
(* Where the messages in hand stay there, the tracker may only wait for    *)
(* less.                                                                   *)
<1>e. ASSUME UNCHANGED <<hand, slot>>,
             \A m \in Member, p \in Partition : Running(m, p)' \subseteq Running(m, p)
      PROVE  /\ \A m \in Member, s \in Slot : slot'[m][s].pc # "release"
             /\ \A m \in Member, p \in Partition :
                   \A o \in Running(m, p)' : InHands(m, <<p, o>>)'
  BY <1>c, <1>d, <1>e DEF InHands, WorkerAt, WorkerMsg
<1>1. CASE UNCHANGED vars
  BY <1>1, <1>e DEF vars, Running
<1>2. ASSUME NEW m \in Member,
             \/ CommitAccepted(m) \/ CommitRaises(m) \/ DispatchReturns(m)
             \/ PollRecords(m) \/ PollNothing(m) \/ Evict(m)
             \/ RequestShutdown(m)
      PROVE  UNCHANGED <<hand, slot, dispatched, completed>>
  BY <1>2 DEF CommitAccepted, CommitRaises, AfterSend, DispatchReturns,
     PollRecords, PollNothing, Evict, RequestShutdown
<1>3. ASSUME NEW m \in Member, TakeCommittable(m)
      PROVE  /\ UNCHANGED <<hand, slot>>
             /\ \A n \in Member, p \in Partition :
                   Running(n, p)' \subseteq Running(n, p)
  <2>1. UNCHANGED <<hand, slot>>
    BY <1>3 DEF TakeCommittable
  <2>2. /\ dispatched' = [dispatched EXCEPT ![m] =
                             [p \in Partition |-> @[p] \ Committable(m, p)]]
        /\ completed' = [completed EXCEPT ![m] =
                             [p \in Partition |-> @[p] \ Committable(m, p)]]
    BY <1>3 DEF TakeCommittable, TakeAll
  <2> QED
    BY <2>1, <2>2, <1>a DEF Running
<1>4. ASSUME NEW m \in Member, LearnEviction(m) \/ Revoke(m) \/ Assign(m)
      PROVE  /\ UNCHANGED <<hand, slot>>
             /\ \A n \in Member, p \in Partition :
                   Running(n, p)' \subseteq Running(n, p)
  <2>1. PICK lost \in SUBSET Partition : Forget(m, lost)
    <3>1. assigned[m] \in SUBSET Partition
      BY DEF TypeOK
    <3> QED
      BY <1>4, <3>1 DEF LearnEviction, Revoke, OnPartitionsRevoked, Assign
  <2>2. UNCHANGED <<hand, slot>>
    BY <1>4 DEF LearnEviction, Revoke, OnPartitionsRevoked, Assign
  <2> QED
    BY <2>1, <2>2, <1>a DEF Forget, Running
<1>5. ASSUME NEW m \in Member, Crash(m) \/ Restart(m)
      PROVE  /\ \A n \in Member, s \in Slot : slot'[n][s].pc # "release"
             /\ \A n \in Member, p \in Partition :
                   \A o \in Running(n, p)' : InHands(n, <<p, o>>)'
  <2>1. FreshProcess(m)
    BY <1>5 DEF Crash, Restart
  <2>2. \A n \in Member \ {m} :
           /\ hand'[n] = hand[n] /\ slot'[n] = slot[n]
           /\ dispatched'[n] = dispatched[n] /\ completed'[n] = completed[n]
    BY <2>1, <1>a DEF FreshProcess
  <2>3. \A p \in Partition : Running(m, p)' = {}
    BY <2>1, <1>a DEF FreshProcess, NoOffsets, Running
  <2>4. \A s \in Slot : slot'[m][s].pc # "release"
    BY <2>1, <1>a DEF FreshProcess, Idle
  <2>5. \A n \in Member \ {m}, p \in Partition :
           \A o \in Running(n, p)' : InHands(n, <<p, o>>)'
    <3>1. \A n \in Member \ {m}, p \in Partition : Running(n, p)' = Running(n, p)
      BY <2>2 DEF Running
    <3>2. \A n \in Member \ {m}, p \in Partition : \A o :
             InHands(n, <<p, o>>) => InHands(n, <<p, o>>)'
      BY <2>2 DEF InHands, WorkerAt, WorkerMsg
    <3> QED
      BY <3>1, <3>2, <1>d
  <2>6. \A n \in Member, s \in Slot : slot'[n][s].pc # "release"
    BY <2>2, <2>4, <1>c
  <2>7. ASSUME NEW n \in Member, NEW p \in Partition, NEW o \in Running(n, p)'
        PROVE  InHands(n, <<p, o>>)'
    <3>1. n # m
      BY <2>3
    <3> QED
      BY <2>5, <3>1
  <2> QED
    BY <2>6, <2>7
<1>6. ASSUME NEW m \in Member, PopBacklog(m)
      PROVE  \A n \in Member, p \in Partition :
                \A o \in Running(n, p)' : InHands(n, <<p, o>>)'
  <2>1. PICK p \in Partition, h \in 0 .. LogLen :
           /\ hand' = [hand EXCEPT ![m] = {<<p, h>>}]
           /\ dispatched' = [dispatched EXCEPT ![m][p] = @ \cup {h}]
           /\ UNCHANGED completed
    <3>1. PICK p \in Partition :
             /\ hand' = [hand EXCEPT ![m] = {<<p, head[m][p]>>}]
             /\ dispatched' = [dispatched EXCEPT ![m][p] = @ \cup {head[m][p]}]
             /\ UNCHANGED completed
      BY <1>6 DEF PopBacklog, TrackDispatched
    <3>2. PICK h \in 0 .. LogLen : h = head[m][p]
      BY <1>a
    <3> QED
      BY <3>1, <3>2
  <2>2. hand[m] = {} /\ UNCHANGED slot
    BY <1>6 DEF PopBacklog
  <2>3. \A n \in Member, q \in Partition : \A o \in Running(n, q)' :
           o \in Running(n, q) \/ (n = m /\ q = p /\ o = h)
    BY <2>1, <1>a DEF Running
  <2>4. \A n \in Member, x \in Msg : InHands(n, x) => InHands(n, x)'
    BY <2>1, <2>2, <1>a DEF InHands, WorkerAt, WorkerMsg
  <2>5. InHands(m, <<p, h>>)'
    BY <2>1, <1>a DEF InHands
  <2> SUFFICES ASSUME NEW n \in Member, NEW q \in Partition, NEW o \in Running(n, q)'
               PROVE  InHands(n, <<q, o>>)'
    OBVIOUS
  <2>6. CASE n = m /\ q = p /\ o = h
    BY <2>5, <2>6
  <2>7. CASE o \in Running(n, q)
    <3>1. <<q, o>> \in Msg
      BY <2>7, <1>a DEF Running, Msg
    <3> QED
      BY <2>4, <2>7, <3>1, <1>d
  <2> QED
    BY <2>3, <2>6, <2>7
<1>7. ASSUME NEW m \in Member, NEW p \in Partition, NEW o \in Offset,
             \/ HandlePoison(m, p, o) \/ HandleSkip(m, p, o)
             \/ HandleStorageFault(m, p, o)
      PROVE  /\ UNCHANGED slot
             /\ \A n \in Member, q \in Partition :
                   \A r \in Running(n, q)' : InHands(n, <<q, r>>)'
  <2>1. /\ <<p, o>> \in hand[m] /\ UNCHANGED slot
        /\ hand' = [hand EXCEPT ![m] = {}]
    BY <1>7 DEF HandlePoison, HandleSkip, HandleStorageFault, LeaveHandler
  <2>2. TrackCompleted(m, p, o) \/ TrackAbandoned(m, p, o)
    BY <1>7, <1>b DEF HandlePoison, HandleSkip, HandleStorageFault, DlqRaises
  <2>3. hand[m] = {<<p, o>>}
    BY <2>1 DEF HandHolds
  <2>4. \A n \in Member, q \in Partition : Running(n, q)' \subseteq Running(n, q)
    BY <2>2, RunningShrinks
  <2>5. o \notin Running(m, p)'
    BY <2>2, RunningShrinks
  <2> SUFFICES ASSUME NEW n \in Member, NEW q \in Partition, NEW r \in Running(n, q)'
               PROVE  InHands(n, <<q, r>>)'
    BY <2>1
  <2>6. InHands(n, <<q, r>>)
    BY <2>4, <1>d
  <2>7. n = m => <<q, r>> # <<p, o>>
    BY <2>5
  <2>8. \/ n # m /\ <<q, r>> \in hand[n]
        \/ \E s \in Slot : ~WorkerAt(n, s, "idle") /\ WorkerMsg(n, s) = <<q, r>>
    BY <2>3, <2>6, <2>7 DEF InHands
  <2> QED
    BY <2>1, <2>8, <1>a DEF InHands, WorkerAt, WorkerMsg
<1>8. ASSUME NEW m \in Member, NEW p \in Partition, NEW o \in Offset,
             HandleSubmit(m, p, o)
      PROVE  /\ \A n \in Member, s \in Slot : slot'[n][s].pc # "release"
             /\ \A n \in Member, q \in Partition :
                   \A r \in Running(n, q)' : InHands(n, <<q, r>>)'
  <2>1. /\ <<p, o>> \in hand[m] /\ UNCHANGED <<dispatched, completed>>
        /\ hand' = [hand EXCEPT ![m] = {}]
    BY <1>8 DEF HandleSubmit
  <2>2. PICK s \in Slot :
           /\ slot[m][s].pc = "idle"
           /\ slot' = [slot EXCEPT ![m][s] = [pc |-> "forward", p |-> p, o |-> o]]
    BY <1>8 DEF HandleSubmit
  <2>3. hand[m] = {<<p, o>>}
    BY <2>1 DEF HandHolds
  <2>4. \A n \in Member, t \in Slot :
           slot'[n][t] = IF n = m /\ t = s
                         THEN [pc |-> "forward", p |-> p, o |-> o]
                         ELSE slot[n][t]
    BY <2>2, <1>a
  <2>5. \A n \in Member, t \in Slot : slot'[n][t].pc # "release"
    BY <2>4, <1>c
  <2>6. InHands(m, <<p, o>>)'
    BY <2>4 DEF InHands, WorkerAt, WorkerMsg
  <2>7. ASSUME NEW n \in Member, NEW x, InHands(n, x)
        PROVE  InHands(n, x)'
    <3>1. CASE x \in hand[n] /\ n = m
      BY <2>3, <2>6, <3>1
    <3>2. CASE x \in hand[n] /\ n # m
      BY <2>1, <3>2, <1>a DEF InHands
    <3>3. CASE \E t \in Slot : ~WorkerAt(n, t, "idle") /\ WorkerMsg(n, t) = x
      <4>1. PICK t \in Slot : slot[n][t].pc # "idle" /\ WorkerMsg(n, t) = x
        BY <3>3 DEF WorkerAt
      <4>2. slot'[n][t] = slot[n][t]
        BY <2>2, <2>4, <4>1
      <4> QED
        BY <4>1, <4>2 DEF InHands, WorkerAt, WorkerMsg
    <3> QED
      BY <2>7, <3>1, <3>2, <3>3 DEF InHands
  <2>8. \A n \in Member, q \in Partition : Running(n, q)' = Running(n, q)
    BY <2>1 DEF Running
  <2> QED
    BY <2>5, <2>7, <2>8, <1>d
<1>9. ASSUME NEW m \in Member, NEW s \in Slot,
             \/ ForwardSucceeds(m, s) \/ ForwardFails(m, s)
             \/ SaveTimeout(m, s) \/ WorkerDlq(m, s)
      PROVE  /\ \A n \in Member, t \in Slot : slot'[n][t].pc # "release"
             /\ \A n \in Member, q \in Partition :
                   \A r \in Running(n, q)' : InHands(n, <<q, r>>)'
  <2>1. PICK next \in WorkerPc \ {"release"} : WorkerGoto(m, s, next)
    BY <1>9, <1>b DEF ForwardSucceeds, ForwardFails, SaveTimeout, WorkerDlq,
       DlqRaises, WorkerPc
  <2>2. slot[m][s].pc # "idle" /\ UNCHANGED <<hand, dispatched, completed>>
    BY <1>9 DEF ForwardSucceeds, ForwardFails, SaveTimeout, WorkerDlq, WorkerAt
  <2>3. \A n \in Member, t \in Slot :
           slot'[n][t] = IF n = m /\ t = s
                         THEN [pc |-> next, p |-> slot[m][s].p, o |-> slot[m][s].o]
                         ELSE slot[n][t]
    BY <2>1, <1>a DEF WorkerGoto
  <2>4. next \notin {"idle", "release"}
    BY DEF WorkerPc
  <2>5. \A n \in Member, t \in Slot :
           /\ slot'[n][t].pc # "release"
           /\ slot[n][t].pc # "idle" => slot'[n][t].pc # "idle"
           /\ slot'[n][t].p = slot[n][t].p /\ slot'[n][t].o = slot[n][t].o
    BY <2>3, <2>4, <1>c
  <2>6. \A n \in Member, x \in Msg : InHands(n, x) => InHands(n, x)'
    BY <2>2, <2>5 DEF InHands, WorkerAt, WorkerMsg
  <2>7. \A n \in Member, q \in Partition :
           /\ Running(n, q)' = Running(n, q)
           /\ Running(n, q) \subseteq Offset
    BY <2>2, <1>a DEF Running
  <2> QED
    BY <2>5, <2>6, <2>7, <1>d DEF Msg
<1>10. ASSUME NEW m \in Member, NEW s \in Slot, WorkerEnds(m, s)
       PROVE  /\ \A n \in Member, t \in Slot : slot'[n][t].pc # "release"
              /\ \A n \in Member, q \in Partition :
                    \A r \in Running(n, q)' : InHands(n, <<q, r>>)'
  <2>1. /\ UNCHANGED hand
        /\ slot' = [slot EXCEPT ![m][s] = Idle]
    BY <1>10 DEF WorkerEnds
  <2>2. slot[m][s] \in [pc : WorkerPc, p : Partition, o : Offset]
    BY <1>10, BusyWorker DEF WorkerEnds, WorkerAt
  <2>3. PICK p \in Partition, o \in Offset : slot[m][s].p = p /\ slot[m][s].o = o
    BY <2>2
  <2>4. TrackCompleted(m, p, o) \/ TrackAbandoned(m, p, o)
    BY <1>10, <1>c, <2>3 DEF WorkerEnds, WorkerAt
  <2>5. \A n \in Member, q \in Partition : Running(n, q)' \subseteq Running(n, q)
    BY <2>4, RunningShrinks
  <2>6. o \notin Running(m, p)'
    BY <2>4, RunningShrinks
  <2>7. \A n \in Member, t \in Slot :
           slot'[n][t] = IF n = m /\ t = s THEN Idle ELSE slot[n][t]
    BY <2>1, <1>a
  <2>8. \A n \in Member, t \in Slot : slot'[n][t].pc # "release"
    BY <2>7, <1>c DEF Idle
  <2> SUFFICES ASSUME NEW n \in Member, NEW q \in Partition, NEW r \in Running(n, q)'
               PROVE  InHands(n, <<q, r>>)'
    BY <2>8
  <2>9. InHands(n, <<q, r>>)
    BY <2>5, <1>d
  <2>10. n = m => <<q, r>> # WorkerMsg(m, s)
    BY <2>3, <2>6 DEF WorkerMsg
  <2> QED
    BY <2>1, <2>7, <2>9, <2>10 DEF InHands, WorkerAt, WorkerMsg
<1>11. ASSUME NEW m \in Member, PopBacklog(m)
       PROVE  UNCHANGED slot
  BY <1>11 DEF PopBacklog
<1>12. UNCHANGED slot => \A m \in Member, s \in Slot : slot'[m][s].pc # "release"
  BY <1>c
<1>13. ASSUME UNCHANGED <<hand, slot, dispatched, completed>>
       PROVE  \A n \in Member, p \in Partition :
                 Running(n, p)' \subseteq Running(n, p)
  BY <1>13 DEF Running
<1> QED
  BY <1>e, <1>1, <1>2, <1>3, <1>4, <1>5, <1>6, <1>7, <1>8, <1>9, <1>10, <1>11,
     <1>12, <1>13, NextCases

LEMMA NothingStrandedInvariant == Spec => [](HoldsAfterFault /\ NoStrandedOffset)
<1>1. Init => HoldsAfterFault /\ NoStrandedOffset
  BY DEF Init, HoldsAfterFault, NoStrandedOffset, NoOffsets, Idle
<1>2. /\ TypeOK /\ HandHolds /\ HoldsAfterFault /\ NoStrandedOffset /\ [Next]_vars
      => (HoldsAfterFault /\ NoStrandedOffset)'
  BY NothingStrandedStep
<1> QED
  BY <1>1, <1>2, TypeCorrect, PermitsInvariant, PTL DEF Spec

\* No path through _handle_one_message and _process_and_commit loses a permit or
\* gives one back twice, and none leaves an offset dispatched that no thread
\* holds, unless the DLQ refused its message.
THEOREM BooksBalance == Spec => []NothingLeaks
<1>1. PermitsBalance /\ NoStrandedOffset => NothingLeaks
  BY DEF NothingLeaks
<1> QED
  BY <1>1, PermitsInvariant, NothingStrandedInvariant, PTL

\* _worker_pool.submit never queues: whenever the poll loop holds a message, a
\* worker thread is free, since the message came with a permit.
THEOREM SubmitFindsThread ==
    Spec => [](\A m \in Member :
                  hand[m] # {} => \E s \in Slot : WorkerAt(m, s, "idle"))
<1>1. TypeOK /\ HandHolds /\ PermitsBalance =>
         \A m \in Member : hand[m] # {} => \E s \in Slot : WorkerAt(m, s, "idle")
  <2> SUFFICES ASSUME TypeOK, HandHolds, PermitsBalance,
                      NEW m \in Member, hand[m] # {},
                      Busy(m) = Slot
               PROVE  FALSE
    BY DEF Busy
  <2>1. Cardinality(Slot) = MaxConcurrent /\ MaxConcurrent \in Nat
    BY ConstantsAssumption, FS_Interval DEF Slot
  <2>2. sem[m] \in Nat /\ Cardinality(hand[m]) = 1
    BY HandCount DEF TypeOK
  <2>3. sem[m] + Cardinality(Busy(m)) + Cardinality(hand[m]) = MaxConcurrent
    BY BalanceOf
  <2> QED
    BY <2>1, <2>2, <2>3
<1> QED
  BY <1>1, TypeCorrect, PermitsInvariant, PTL

----------------------------------------------------------------------------
(* The committed position only moves forward. *)

(* A step that gives nobody a partition, an offset or a pending commit     *)
(* keeps the owners at or above the position; so does one that leaves a    *)
(* member with nothing and its backlog at the position, if it owns any.    *)
LEMMA ForwardKept ==
    ASSUME TypeOK, TypeOK', ForwardInv,
           \A n \in Member, q \in Partition :
               \/ /\ head'[n][q] = head[n][q]
                  /\ dispatched'[n][q] \subseteq dispatched[n][q]
                  /\ pend'[n][q] \in {0, pend[n][q]}
                  /\ owner'[q] = n => /\ owner[q] = n
                                      /\ committed'[q] = committed[q]
               \/ /\ dispatched'[n][q] = {}
                  /\ pend'[n][q] = 0
                  /\ owner'[q] = n => committed'[q] = head'[n][q]
    PROVE  PendBelowTracked' /\ OwnerAhead'
<1>a. /\ head \in [Member -> [Partition -> 0 .. LogLen]]
      /\ head' \in [Member -> [Partition -> 0 .. LogLen]]
      /\ dispatched \in [Member -> [Partition -> SUBSET Offset]]
      /\ committed \in [Partition -> 0 .. LogLen] /\ LogLen \in Nat
  BY ConstantsAssumption DEF TypeOK
<1>b. /\ \A n \in Member, q \in Partition : head'[n][q] \in Nat
      /\ \A n \in Member, q \in Partition : \A o \in dispatched[n][q] : o \in Nat
  BY <1>a DEF Offset
<1>1. PendBelowTracked'
  <2> SUFFICES ASSUME NEW n \in Member, NEW q \in Partition
               PROVE  /\ pend'[n][q] <= head'[n][q]
                      /\ \A o \in dispatched'[n][q] : pend'[n][q] <= o
    BY DEF PendBelowTracked
  <2> QED
    BY <1>b DEF ForwardInv, PendBelowTracked
<1>2. OwnerAhead'
  <2> SUFFICES ASSUME NEW n \in Member, NEW q \in Partition, owner'[q] = n
               PROVE  /\ committed'[q] <= head'[n][q]
                      /\ \A o \in dispatched'[n][q] : committed'[q] <= o
                      /\ pend'[n][q] # 0 => committed'[q] <= pend'[n][q]
    BY DEF OwnerAhead
  <2> QED
    BY <1>b DEF ForwardInv, OwnerAhead
<1> QED
  BY <1>1, <1>2

(* A floor the tracker offers an owner is not below the position, and the  *)
(* offsets it leaves behind are not below the floor.                       *)
LEMMA FloorAhead ==
    ASSUME TypeOK, SafeInv, ForwardInv, NEW m \in Member, NEW p \in Partition,
           NEW c \in 0 .. LogLen, CommitFloor(m, p, c)
    PROVE  /\ owner[p] = m /\ c # 0 => committed[p] <= c
           /\ \A o \in dispatched[m][p] \ Committable(m, p) : c <= o
<1>a. /\ \A o \in dispatched[m][p] : o \in Nat
      /\ committed[p] \in Nat
      /\ Committable(m, p) \subseteq completed[m][p]
      /\ completed[m][p] \subseteq dispatched[m][p]
  BY ConstantsAssumption DEF TypeOK, Offset, Committable, SafeInv, TrackerSound
<1>1. CASE Committable(m, p) = {}
  BY <1>1, <1>a DEF CommitFloor
<1>2. CASE Committable(m, p) # {}
  <2>1. PICK top \in Committable(m, p) : c = top + 1
    BY <1>2 DEF CommitFloor
  <2>2. /\ top \in dispatched[m][p] /\ top \in Nat
        /\ \A r \in dispatched[m][p] \ completed[m][p] : top < r
    BY <2>1, <1>a DEF Committable
  <2>3. owner[p] = m => committed[p] <= top
    BY <2>2 DEF ForwardInv, OwnerAhead
  <2>4. ASSUME NEW o \in dispatched[m][p] \ Committable(m, p)
        PROVE  top < o
    <3>1. CASE o \notin completed[m][p]
      BY <2>2, <3>1
    <3>2. CASE o \in completed[m][p]
      <4>1. PICK r \in dispatched[m][p] \ completed[m][p] : ~(o < r)
        BY <3>2 DEF Committable
      <4> QED
        BY <2>2, <4>1, <1>a
    <3> QED
      BY <3>1, <3>2
  <2> QED
    BY <2>1, <2>2, <2>3, <2>4, <1>a
<1> QED
  BY <1>1, <1>2

LEMMA PendOnlySendingStep ==
    ASSUME TypeOK, PendOnlySending, [Next]_vars
    PROVE  PendOnlySending'
<1> USE DEF PendOnlySending, loopVars
<1>a. pc \in [Member -> LoopPc] /\ pend \in [Member -> [Partition -> 0 .. LogLen]]
  BY DEF TypeOK
<1>1. CASE UNCHANGED vars
  BY <1>1 DEF vars
<1>2. ASSUME NEW m \in Member, TakeCommittable(m)
      PROVE  PendOnlySending'
  BY <1>2, <1>a DEF TakeCommittable
<1>3. ASSUME NEW m \in Member, CommitAccepted(m) \/ CommitRaises(m)
      PROVE  PendOnlySending'
  BY <1>3, <1>a DEF CommitAccepted, CommitRaises, AfterSend
<1>4. ASSUME NEW m \in Member,
             \/ PopBacklog(m) \/ LearnEviction(m) \/ Assign(m) \/ Revoke(m)
             \/ Evict(m) \/ RequestShutdown(m)
      PROVE  PendOnlySending'
  BY <1>4 DEF PopBacklog, LearnEviction, Assign, Revoke, OnPartitionsRevoked,
     Evict, RequestShutdown
<1>5. ASSUME NEW m \in Member,
             DispatchReturns(m) \/ PollRecords(m) \/ PollNothing(m)
      PROVE  PendOnlySending'
  BY <1>5, <1>a DEF DispatchReturns, PollRecords, PollNothing
<1>6. ASSUME NEW m \in Member, Crash(m) \/ Restart(m)
      PROVE  PendOnlySending'
  BY <1>6, <1>a DEF Crash, Restart, FreshProcess
<1>7. ASSUME NEW m \in Member, NEW p \in Partition, NEW o \in Offset,
             \/ HandlePoison(m, p, o) \/ HandleSkip(m, p, o)
             \/ HandleStorageFault(m, p, o) \/ HandleSubmit(m, p, o)
      PROVE  PendOnlySending'
  BY <1>7 DEF HandlePoison, HandleSkip, HandleStorageFault, HandleSubmit,
     LeaveHandler
<1>8. ASSUME NEW m \in Member, NEW s \in Slot,
             \/ ForwardSucceeds(m, s) \/ ForwardFails(m, s)
             \/ SaveTimeout(m, s) \/ WorkerDlq(m, s) \/ WorkerEnds(m, s)
      PROVE  PendOnlySending'
  BY <1>8 DEF ForwardSucceeds, ForwardFails, SaveTimeout, WorkerDlq, WorkerEnds
<1> QED
  BY <1>1, <1>2, <1>3, <1>4, <1>5, <1>6, <1>7, <1>8, NextCases

LEMMA ReportShrinks ==
    ASSUME TypeOK, NEW m \in Member, NEW p \in Partition, NEW o \in Offset,
           TrackCompleted(m, p, o) \/ TrackAbandoned(m, p, o)
              \/ UNCHANGED dispatched
    PROVE  \A n \in Member, q \in Partition :
              dispatched'[n][q] \subseteq dispatched[n][q]
<1>a. dispatched \in [Member -> [Partition -> SUBSET Offset]]
  BY DEF TypeOK
<1>1. CASE UNCHANGED dispatched
  BY <1>1
<1>2. CASE TrackCompleted(m, p, o)
  BY <1>2 DEF TrackCompleted
<1>3. CASE TrackAbandoned(m, p, o)
  <2>1. \A n \in Member, q \in Partition :
           dispatched'[n][q] = IF n = m /\ q = p THEN dispatched[n][q] \ {o}
                                                 ELSE dispatched[n][q]
    BY <1>3, <1>a DEF TrackAbandoned
  <2> QED
    BY <2>1
<1> QED
  BY <1>1, <1>2, <1>3

LEMMA ForwardStep ==
    ASSUME TypeOK, SafeInv, ForwardInv, [Next]_vars
    PROVE  ForwardInv'
<1> USE DEF brokerVars, loopVars, trackerVars, budgets
<1>t. TypeOK'
  BY TypeStep
<1>p. PendOnlySending'
  BY PendOnlySendingStep DEF ForwardInv
<1> SUFFICES PendBelowTracked' /\ OwnerAhead'
  BY <1>p DEF ForwardInv
<1>a. /\ head \in [Member -> [Partition -> 0 .. LogLen]]
      /\ pend \in [Member -> [Partition -> 0 .. LogLen]]
      /\ dispatched \in [Member -> [Partition -> SUBSET Offset]]
      /\ completed \in [Member -> [Partition -> SUBSET Offset]]
      /\ committed \in [Partition -> 0 .. LogLen] /\ LogLen \in Nat
      /\ owner \in [Partition -> Member \cup {NoMember}]
      /\ assigned \in [Member -> SUBSET Partition]
      /\ NoMember \notin Member
  BY ConstantsAssumption DEF TypeOK
<1>b. /\ \A n \in Member, q \in Partition : /\ head[n][q] \in Nat
                                            /\ pend[n][q] \in Nat
      /\ \A n \in Member, q \in Partition : \A o \in dispatched[n][q] : o \in Nat
      /\ \A q \in Partition : committed[q] \in Nat
  BY <1>a DEF Offset
<1>1. CASE UNCHANGED vars
  <2>1. UNCHANGED <<committed, owner, head, dispatched, pend>>
    BY <1>1 DEF vars
  <2> QED
    BY <2>1, <1>t, ForwardKept
<1>2. ASSUME NEW m \in Member,
             \/ DispatchReturns(m) \/ PollRecords(m) \/ PollNothing(m)
             \/ RequestShutdown(m) \/ Evict(m)
      PROVE  PendBelowTracked' /\ OwnerAhead'
  <2>1. UNCHANGED <<committed, head, dispatched, pend>>
    BY <1>2 DEF DispatchReturns, PollRecords, PollNothing, RequestShutdown, Evict
  <2>2. \A q \in Partition : owner'[q] \in Member => owner'[q] = owner[q]
    BY <1>2, <1>a DEF DispatchReturns, PollRecords, PollNothing, RequestShutdown,
       Evict, LeaveGroup
  <2> QED
    BY <2>1, <2>2, <1>t, ForwardKept
<1>3. ASSUME NEW m \in Member, NEW p \in Partition, NEW o \in Offset,
             \/ HandlePoison(m, p, o) \/ HandleSkip(m, p, o)
             \/ HandleStorageFault(m, p, o) \/ HandleSubmit(m, p, o)
      PROVE  PendBelowTracked' /\ OwnerAhead'
  <2>1. UNCHANGED <<committed, owner, head, pend>>
    BY <1>3 DEF HandlePoison, HandleSkip, HandleStorageFault, HandleSubmit,
       LeaveHandler
  <2>2. \/ TrackCompleted(m, p, o) \/ TrackAbandoned(m, p, o)
        \/ UNCHANGED dispatched
    BY <1>3 DEF HandlePoison, HandleSkip, HandleStorageFault, HandleSubmit
  <2>3. \A n \in Member, q \in Partition : dispatched'[n][q] \subseteq dispatched[n][q]
    BY <2>2, ReportShrinks
  <2> QED
    BY <2>1, <2>3, <1>t, ForwardKept
<1>4. ASSUME NEW m \in Member, NEW s \in Slot,
             \/ ForwardSucceeds(m, s) \/ ForwardFails(m, s)
             \/ SaveTimeout(m, s) \/ WorkerDlq(m, s)
      PROVE  PendBelowTracked' /\ OwnerAhead'
  <2>1. UNCHANGED <<committed, owner, head, pend, dispatched>>
    BY <1>4 DEF ForwardSucceeds, ForwardFails, SaveTimeout, WorkerDlq
  <2> QED
    BY <2>1, <1>t, ForwardKept
<1>5. ASSUME NEW m \in Member, NEW s \in Slot, WorkerEnds(m, s)
      PROVE  PendBelowTracked' /\ OwnerAhead'
  <2>1. UNCHANGED <<committed, owner, head, pend>>
    BY <1>5 DEF WorkerEnds
  <2>2. PICK p \in Partition, o \in Offset : slot[m][s].p = p /\ slot[m][s].o = o
    BY <1>5, BusyWorker DEF WorkerEnds, WorkerAt
  <2>3. \/ TrackCompleted(m, p, o) \/ TrackAbandoned(m, p, o)
        \/ UNCHANGED dispatched
    BY <1>5, <2>2 DEF WorkerEnds
  <2>4. \A n \in Member, q \in Partition : dispatched'[n][q] \subseteq dispatched[n][q]
    BY <2>3, ReportShrinks
  <2> QED
    BY <2>1, <2>4, <1>t, ForwardKept
<1>6. ASSUME NEW m \in Member, PopBacklog(m)
      PROVE  PendBelowTracked' /\ OwnerAhead'
  <2>1. PICK p \in Partition, h \in Nat :
           /\ h = head[m][p]
           /\ head' = [head EXCEPT ![m][p] = h + 1]
           /\ dispatched' = [dispatched EXCEPT ![m][p] = @ \cup {h}]
    <3>1. PICK p \in Partition :
             /\ head' = [head EXCEPT ![m][p] = @ + 1]
             /\ dispatched' = [dispatched EXCEPT ![m][p] = @ \cup {head[m][p]}]
      BY <1>6 DEF PopBacklog, TrackDispatched
    <3>2. PICK h \in Nat : h = head[m][p]
      BY <1>b
    <3> QED
      BY <3>1, <3>2, <1>a
  <2>2. UNCHANGED <<committed, owner, pend>>
    BY <1>6 DEF PopBacklog
  <2>3. \A n \in Member, q \in Partition :
           /\ head'[n][q] = IF n = m /\ q = p THEN h + 1 ELSE head[n][q]
           /\ dispatched'[n][q] = IF n = m /\ q = p THEN dispatched[n][q] \cup {h}
                                                    ELSE dispatched[n][q]
    BY <2>1, <1>a
  <2>4. pend[m][p] <= h /\ (owner[p] = m => committed[p] <= h)
    BY <2>1 DEF ForwardInv, PendBelowTracked, OwnerAhead
  <2>5. PendBelowTracked'
    <3> SUFFICES ASSUME NEW n \in Member, NEW q \in Partition
                 PROVE  /\ pend[n][q] <= head'[n][q]
                        /\ \A o \in dispatched'[n][q] : pend[n][q] <= o
      BY <2>2 DEF PendBelowTracked
    <3> QED
      BY <2>1, <2>3, <2>4, <1>b DEF ForwardInv, PendBelowTracked
  <2>6. OwnerAhead'
    <3> SUFFICES ASSUME NEW n \in Member, NEW q \in Partition, owner[q] = n
                 PROVE  /\ committed[q] <= head'[n][q]
                        /\ \A o \in dispatched'[n][q] : committed[q] <= o
                        /\ pend[n][q] # 0 => committed[q] <= pend[n][q]
      BY <2>2 DEF OwnerAhead
    <3> QED
      BY <2>1, <2>3, <2>4, <1>b DEF ForwardInv, OwnerAhead
  <2> QED
    BY <2>5, <2>6
<1>7. ASSUME NEW m \in Member, TakeCommittable(m)
      PROVE  PendBelowTracked' /\ OwnerAhead'
  <2>1. PICK floors \in [Partition -> 0 .. LogLen] :
           TakeAll(m, floors) /\ pend' = [pend EXCEPT ![m] = floors]
    BY <1>7 DEF TakeCommittable
  <2>2. UNCHANGED <<committed, owner, head>>
    BY <1>7 DEF TakeCommittable
  <2>3. \A q \in Partition :
           /\ floors[q] \in Nat
           /\ floors[q] <= head[m][q]
           /\ owner[q] = m /\ floors[q] # 0 => committed[q] <= floors[q]
           /\ \A o \in dispatched[m][q] \ Committable(m, q) : floors[q] <= o
    <3>1. \A q \in Partition : CommitFloor(m, q, floors[q]) /\ floors[q] \in 0 .. LogLen
      BY <2>1 DEF TakeAll
    <3> QED
      BY <3>1, FloorSound, FloorAhead
  <2>4. \A n \in Member, q \in Partition :
           /\ pend'[n][q] = IF n = m THEN floors[q] ELSE pend[n][q]
           /\ dispatched'[n][q] = IF n = m THEN dispatched[n][q] \ Committable(m, q)
                                           ELSE dispatched[n][q]
    BY <2>1, <1>a DEF TakeAll
  <2>5. PendBelowTracked'
    <3> SUFFICES ASSUME NEW n \in Member, NEW q \in Partition
                 PROVE  /\ pend'[n][q] <= head[n][q]
                        /\ \A o \in dispatched'[n][q] : pend'[n][q] <= o
      BY <2>2 DEF PendBelowTracked
    <3>1. CASE n = m
      BY <2>3, <2>4, <3>1
    <3>2. CASE n # m
      BY <2>4, <3>2 DEF ForwardInv, PendBelowTracked
    <3> QED
      BY <3>1, <3>2
  <2>6. OwnerAhead'
    <3> SUFFICES ASSUME NEW n \in Member, NEW q \in Partition, owner[q] = n
                 PROVE  /\ committed[q] <= head[n][q]
                        /\ \A o \in dispatched'[n][q] : committed[q] <= o
                        /\ pend'[n][q] # 0 => committed[q] <= pend'[n][q]
      BY <2>2 DEF OwnerAhead
    <3>1. /\ committed[q] <= head[n][q]
          /\ \A o \in dispatched[n][q] : committed[q] <= o
          /\ pend[n][q] # 0 => committed[q] <= pend[n][q]
      BY DEF ForwardInv, OwnerAhead
    <3>2. dispatched'[n][q] \subseteq dispatched[n][q]
      BY <2>4
    <3> QED
      BY <2>3, <2>4, <3>1, <3>2
  <2> QED
    BY <2>5, <2>6
<1>8. ASSUME NEW m \in Member, CommitAccepted(m)
      PROVE  PendBelowTracked' /\ OwnerAhead'
  <2>1. /\ BrokerTakes(m, pend[m]) /\ Advance(pend[m])
        /\ pend' = [pend EXCEPT ![m] = ZeroOffsets]
        /\ UNCHANGED <<head, dispatched>>
    BY <1>8 DEF CommitAccepted, AfterSend
  <2>2. \A q \in Partition : owner'[q] \in Member => owner'[q] = owner[q]
    BY <1>8, <1>a DEF CommitAccepted, AfterSend, LeaveGroup
  <2>3. \A n \in Member, q \in Partition :
           pend'[n][q] = IF n = m THEN 0 ELSE pend[n][q]
    BY <2>1, <1>a DEF ZeroOffsets
  <2>4. \A q \in Partition :
           \/ committed'[q] = committed[q]
           \/ owner[q] = m /\ committed'[q] = pend[m][q]
    BY <2>1 DEF Advance, BrokerTakes
  <2>5. PendBelowTracked'
    BY <2>1, <2>3, <1>b DEF ForwardInv, PendBelowTracked
  <2>6. OwnerAhead'
    <3> SUFFICES ASSUME NEW n \in Member, NEW q \in Partition, owner'[q] = n
                 PROVE  /\ committed'[q] <= head[n][q]
                        /\ \A o \in dispatched[n][q] : committed'[q] <= o
                        /\ pend'[n][q] # 0 => committed'[q] <= pend'[n][q]
      BY <2>1 DEF OwnerAhead
    <3>1. owner[q] = n
      BY <2>2
    <3>2. CASE committed'[q] = committed[q]
      BY <2>3, <3>1, <3>2 DEF ForwardInv, OwnerAhead
    <3>3. CASE n = m /\ committed'[q] = pend[m][q]
      BY <2>3, <3>3 DEF ForwardInv, PendBelowTracked
    <3> QED
      BY <2>4, <3>1, <3>2, <3>3
  <2> QED
    BY <2>5, <2>6
<1>9. ASSUME NEW m \in Member, CommitRaises(m)
      PROVE  PendBelowTracked' /\ OwnerAhead'
  <2>1. /\ pend' = [pend EXCEPT ![m] = ZeroOffsets]
        /\ UNCHANGED <<committed, head, dispatched>>
    BY <1>9 DEF CommitRaises, AfterSend
  <2>2. \A q \in Partition : owner'[q] \in Member => owner'[q] = owner[q]
    BY <1>9, <1>a DEF CommitRaises, AfterSend, LeaveGroup
  <2>3. \A n \in Member, q \in Partition : pend'[n][q] \in {0, pend[n][q]}
    BY <2>1, <1>a DEF ZeroOffsets
  <2> QED
    BY <2>1, <2>2, <2>3, <1>t, ForwardKept
<1>10. ASSUME NEW m \in Member, LearnEviction(m) \/ Revoke(m)
       PROVE  PendBelowTracked' /\ OwnerAhead'
  <2>1. OnPartitionsRevoked(m)
    BY <1>10 DEF LearnEviction, Revoke
  <2>2. PICK floors \in [Partition -> 0 .. LogLen] :
           (BrokerTakes(m, floors) /\ Advance(floors)) \/ UNCHANGED committed
    BY <2>1 DEF OnPartitionsRevoked
  <2>3. /\ UNCHANGED pend /\ Forget(m, assigned[m]) /\ LeaveGroup(m)
        /\ head' = [head EXCEPT ![m] = pos[m]]
    BY <2>1 DEF OnPartitionsRevoked
  <2>4. pend[m] = ZeroOffsets
    BY <2>1 DEF OnPartitionsRevoked, ForwardInv, PendOnlySending
  <2>5. \A q \in Partition : dispatched'[m][q] = {} /\ owner'[q] # m /\ pend'[m][q] = 0
    <3>1. \A q \in Partition : q \notin assigned[m] => dispatched[m][q] = {}
      BY DEF SafeInv, NoForeignTracking
    <3> QED
      BY <2>3, <2>4, <3>1, <1>a DEF Forget, LeaveGroup, ZeroOffsets
  <2>6. \A n \in Member \ {m}, q \in Partition :
           /\ head'[n][q] = head[n][q] /\ dispatched'[n][q] = dispatched[n][q]
           /\ owner'[q] = n => owner[q] = n
    BY <2>3, <1>a DEF Forget, LeaveGroup
  <2>7. \A n \in Member \ {m}, q \in Partition :
           owner[q] = n => committed'[q] = committed[q]
    BY <2>2, <1>a DEF BrokerTakes, Advance
  <2> QED
    BY <2>3, <2>5, <2>6, <2>7, <1>t, ForwardKept
<1>11. ASSUME NEW m \in Member, Assign(m)
       PROVE  PendBelowTracked' /\ OwnerAhead'
  <2>1. PICK given \in SUBSET {q \in Partition : owner[q] = NoMember} :
           /\ owner' = [q \in Partition |-> IF q \in given THEN m ELSE owner[q]]
           /\ head' = [head EXCEPT ![m] = [q \in Partition |->
                          IF q \in given THEN committed[q] ELSE @[q]]]
           /\ Forget(m, given)
    BY <1>11 DEF Assign
  <2>2. UNCHANGED <<committed, pend>> /\ pend[m] = ZeroOffsets
    BY <1>11 DEF Assign, ForwardInv, PendOnlySending
  <2>3. \A q \in given : /\ q \in Partition /\ owner[q] = NoMember
                         /\ dispatched'[m][q] = {} /\ pend'[m][q] = 0
                         /\ head'[m][q] = committed'[q]
    BY <2>1, <2>2, <1>a DEF Forget, ZeroOffsets
  <2>4. \A n \in Member, q \in Partition :
           ~(n = m /\ q \in given) =>
              /\ head'[n][q] = head[n][q]
              /\ dispatched'[n][q] \subseteq dispatched[n][q]
              /\ owner'[q] = n => owner[q] = n
    BY <2>1, <1>a DEF Forget
  <2> QED
    BY <2>2, <2>3, <2>4, <1>t, ForwardKept
<1>12. ASSUME NEW m \in Member, Crash(m) \/ Restart(m)
       PROVE  PendBelowTracked' /\ OwnerAhead'
  <2>1. FreshProcess(m)
    BY <1>12 DEF Crash, Restart
  <2>2. \A q \in Partition : dispatched'[m][q] = {} /\ owner'[q] # m /\ pend'[m][q] = 0
    BY <2>1, <1>a DEF FreshProcess, LeaveGroup, NoOffsets, ZeroOffsets
  <2>3. \A n \in Member \ {m}, q \in Partition :
           /\ head'[n][q] = head[n][q] /\ dispatched'[n][q] = dispatched[n][q]
           /\ pend'[n][q] = pend[n][q]
           /\ owner'[q] = n => owner[q] = n
    BY <2>1, <1>a DEF FreshProcess, LeaveGroup
  <2>4. UNCHANGED committed
    BY <2>1 DEF FreshProcess
  <2> QED
    BY <2>2, <2>3, <2>4, <1>t, ForwardKept
<1> QED
  BY <1>1, <1>2, <1>3, <1>4, <1>5, <1>6, <1>7, <1>8, <1>9, <1>10, <1>11, <1>12,
     NextCases

LEMMA ForwardInvariant == Spec => []ForwardInv
<1>1. Init => ForwardInv
  BY ConstantsAssumption
     DEF Init, ForwardInv, PendOnlySending, PendBelowTracked, OwnerAhead,
         ZeroOffsets, NoOffsets
<1>2. TypeOK /\ SafeInv /\ ForwardInv /\ [Next]_vars => ForwardInv'
  BY ForwardStep
<1> QED
  BY <1>1, <1>2, SafeInvariant, PTL DEF Spec

(* The commits of the poll loop and of the revocation callback: the only   *)
(* steps that move the position.                                           *)
LEMMA CommitMovesForward ==
    ASSUME TypeOK, SafeInv, ForwardInv, [Next]_vars
    PROVE  \/ UNCHANGED committed
           \/ /\ UNCHANGED <<dlq, acked, cases>>
              /\ \A p \in Partition : committed'[p] >= committed[p]
<1> USE DEF brokerVars, loopVars, trackerVars, budgets
<1>a. \A q \in Partition : committed[q] \in Nat
  BY ConstantsAssumption DEF TypeOK
<1>1. CASE UNCHANGED vars
  BY <1>1 DEF vars
<1>2. ASSUME NEW m \in Member,
             \/ TakeCommittable(m) \/ CommitRaises(m) \/ PopBacklog(m)
             \/ DispatchReturns(m) \/ PollRecords(m) \/ PollNothing(m)
             \/ Assign(m) \/ Evict(m) \/ RequestShutdown(m) \/ Crash(m)
             \/ Restart(m)
      PROVE  UNCHANGED committed
  BY <1>2 DEF TakeCommittable, CommitRaises, PopBacklog, DispatchReturns,
     PollRecords, PollNothing, Assign, Evict, RequestShutdown, Crash, Restart,
     FreshProcess
<1>3. ASSUME NEW m \in Member, NEW p \in Partition, NEW o \in Offset,
             \/ HandlePoison(m, p, o) \/ HandleSkip(m, p, o)
             \/ HandleStorageFault(m, p, o) \/ HandleSubmit(m, p, o)
      PROVE  UNCHANGED committed
  BY <1>3 DEF HandlePoison, HandleSkip, HandleStorageFault, HandleSubmit,
     LeaveHandler
<1>4. ASSUME NEW m \in Member, NEW s \in Slot,
             \/ ForwardSucceeds(m, s) \/ ForwardFails(m, s)
             \/ SaveTimeout(m, s) \/ WorkerDlq(m, s) \/ WorkerEnds(m, s)
      PROVE  UNCHANGED committed
  BY <1>4 DEF ForwardSucceeds, ForwardFails, SaveTimeout, WorkerDlq, WorkerEnds
<1>5. ASSUME NEW m \in Member, CommitAccepted(m)
      PROVE  /\ UNCHANGED <<dlq, acked, cases>>
             /\ \A p \in Partition : committed'[p] >= committed[p]
  <2>1. BrokerTakes(m, pend[m]) /\ Advance(pend[m]) /\ UNCHANGED <<dlq, acked, cases>>
    BY <1>5 DEF CommitAccepted, AfterSend
  <2>2. \A p \in Partition :
           pend[m][p] # 0 => committed[p] <= pend[m][p] /\ committed'[p] = pend[m][p]
    BY <2>1 DEF BrokerTakes, Advance, ForwardInv, OwnerAhead
  <2>3. \A p \in Partition : pend[m][p] = 0 => committed'[p] = committed[p]
    BY <2>1 DEF Advance
  <2>4. \A p \in Partition : pend[m][p] \in Nat
    BY ConstantsAssumption DEF TypeOK
  <2> QED
    BY <2>1, <2>2, <2>3, <2>4, <1>a
<1>6. ASSUME NEW m \in Member, LearnEviction(m) \/ Revoke(m)
      PROVE  \/ UNCHANGED committed
             \/ /\ UNCHANGED <<dlq, acked, cases>>
                /\ \A p \in Partition : committed'[p] >= committed[p]
  <2>1. PICK floors \in [Partition -> 0 .. LogLen] :
           /\ \A p \in Partition :
                 IF p \in assigned[m] THEN CommitFloor(m, p, floors[p])
                                      ELSE floors[p] = 0
           /\ (BrokerTakes(m, floors) /\ Advance(floors)) \/ UNCHANGED committed
           /\ UNCHANGED <<dlq, acked, cases>>
    BY <1>6 DEF LearnEviction, Revoke, OnPartitionsRevoked
  <2>2. CASE BrokerTakes(m, floors) /\ Advance(floors)
    <3>1. ASSUME NEW p \in Partition
          PROVE  committed'[p] >= committed[p]
      <4>1. floors[p] = 0 => committed'[p] = committed[p]
        BY <2>2 DEF Advance
      <4>2. CASE floors[p] # 0
        <5>1. CommitFloor(m, p, floors[p]) /\ owner[p] = m /\ floors[p] \in 0 .. LogLen
          BY <2>1, <2>2, <4>2 DEF BrokerTakes
        <5>2. committed[p] <= floors[p]
          BY <4>2, <5>1, FloorAhead
        <5>3. committed'[p] = floors[p] /\ floors[p] \in Nat
          BY <2>2, <4>2, <5>1, ConstantsAssumption DEF Advance
        <5> QED
          BY <5>2, <5>3, <1>a
      <4> QED
        BY <4>1, <4>2, <1>a
    <3> QED
      BY <2>1, <3>1
  <2> QED
    BY <2>1, <2>2
<1> QED
  BY <1>1, <1>2, <1>3, <1>4, <1>5, <1>6, NextCases

(* The step of the group that the abstract specification sees.             *)
LEMMA GroupSteps ==
    ASSUME TypeOK, SafeInv, ForwardInv, [Next]_vars
    PROVE  AtLeastOnceView!Settle \/ AtLeastOnceView!Commit
<1>t. TypeOK' /\ SafeInv'
  BY TypeStep, SafeStep
<1>m. AtLeastOnceView!Messages = Msg
  BY DEF AtLeastOnceView!Messages, Msg, Offset
<1>1. CASE UNCHANGED committed
  <2>1. {x \in Msg : Accounted(x)} \subseteq {x \in Msg : Accounted(x)'}
    BY AccountedStable
  <2> QED
    BY <1>1, <1>m, <2>1 DEF AtLeastOnceView!Settle
<1>2. CASE /\ UNCHANGED <<dlq, acked, cases>>
           /\ \A p \in Partition : committed'[p] >= committed[p]
  <2>1. {x \in Msg : Accounted(x)'} = {x \in Msg : Accounted(x)}
    BY <1>2 DEF Accounted
  <2>2. \A p \in Partition, o \in Offset : o < committed'[p] => Accounted(<<p, o>>)
    BY <1>2, <1>t DEF SafeInv, CommittedAccounted, Accounted
  <2>3. committed' \in [Partition -> 0 .. LogLen]
    BY <1>t DEF TypeOK
  <2>4. \A p \in Partition, o \in 0 .. LogLen - 1 :
           o < committed'[p] => <<p, o>> \in {x \in Msg : Accounted(x)}
    BY <2>2 DEF Msg, Offset
  <2> QED
    BY <1>2, <2>1, <2>3, <2>4 DEF AtLeastOnceView!Commit, AtLeastOnceView!PastSettled
<1> QED
  BY <1>1, <1>2, CommitMovesForward

\* The consumer group implements AtLeastOnce: through any rebalance, crash,
\* refused commit or late worker its position moves only forward, and only past
\* messages that are accounted for.
THEOREM GroupImplementsAtLeastOnce == Spec => ImplementsAtLeastOnce
<1>1. Init => AtLeastOnceView!Init
  BY DEF Init, AtLeastOnceView!Init, AtLeastOnceView!Messages, ZeroOffsets, Msg,
     Offset
<1>2. TypeOK /\ SafeInv /\ ForwardInv /\ [Next]_vars
         => AtLeastOnceView!Settle \/ AtLeastOnceView!Commit
  BY GroupSteps
<1> QED
  BY <1>1, <1>2, SafeInvariant, ForwardInvariant, PTL
     DEF Spec, ImplementsAtLeastOnce, AtLeastOnceView!Spec
=============================================================================
