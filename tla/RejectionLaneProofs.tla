------------------------ MODULE RejectionLaneProofs ------------------------
(***************************************************************************)
(* TLAPS proofs about RejectionLane, for any set of deliveries, any        *)
(* timeouts and any fault budget.                                          *)
(***************************************************************************)
EXTENDS RejectionLane, FiniteSetTheorems, TLAPS

(* The whole next-state relation, one disjunct per action. *)
LEMMA NextCases ==
    ASSUME Next
    PROVE  \/ Tick
           \/ \E d \in Delivery :
                 \/ Deliver(d) \/ SkipDelivery(d) \/ SendRequest(d)
                 \/ RequestAnswered(d) \/ RequestFails(d) \/ RequestTimesOut(d)
                 \/ ConsumerSaves(d) \/ ConsumerDlq(d)
                 \/ LoadCase(d) \/ LoadStatus(d) \/ ServiceGateSkips(d)
                 \/ GetState(d) \/ AwaitRunInFlight(d) \/ CreateClaim(d)
                 \/ FillClaim(d) \/ ReadClaim(d) \/ JudgeAbandoned(d)
                 \/ JudgeFinished(d) \/ TakeOverClaim(d) \/ StartRun(d)
                 \/ BudgetExpires(d) \/ LateResultGuard(d) \/ SaveVerdict(d)
                 \/ ApiDlq(d)
                 \/ GraphCheckpoints(d) \/ GraphEnds(d) \/ CancelledRunStops(d)
                 \/ ClaimFailsOpen(d) \/ SaveFails(d) \/ RequestRaises(d)
                 \/ BeginDrain(d) \/ DrainStraggler(d) \/ ProcessExits(d)
                 \/ ApiCrash(d) \/ ConsumerCrash(d)
BY DEF Next, Consumer, Request, Graph, StorageFault, Process

----------------------------------------------------------------------------
(* Type correctness. *)

LEMMA TypeInit == Init => TypeOK
<1> SUFFICES ASSUME Init PROVE TypeOK
  OBVIOUS
<1>1. NothingSeen \in Seen
  BY DEF NothingSeen, Seen, Terminal
<1>2. /\ cons \in [Delivery -> ConsPc] /\ api \in [Delivery -> ApiPc]
      /\ drain \in [Delivery -> DrainPc] /\ graph \in [Delivery -> BOOLEAN]
  BY DEF Init, ConsPc, ApiPc, DrainPc
<1>3. /\ seen \in [Delivery -> Seen] /\ clock \in [Delivery -> Nat]
      /\ waited \in [Delivery -> Nat]
  BY <1>1 DEF Init
<1>4. /\ claimNewer \in BOOLEAN /\ checkpoint \in BOOLEAN /\ inDlq \in BOOLEAN
      /\ gated \in BOOLEAN /\ released \in BOOLEAN
  BY DEF Init
<1>5. /\ casebook = "none" /\ status = "none" /\ started = 0 /\ claimAge = 0
      /\ claim = "absent"
      /\ crashes = 0 /\ shutdowns = 0 /\ claimErrors = 0 /\ dlqFaults = 0
  BY DEF Init
<1> QED
  BY <1>2, <1>3, <1>4, <1>5, LaneAssumption DEF TypeOK

(* What a request remembers stays well typed. *)
LEMMA SeenTypes ==
    ASSUME TypeOK, NEW d \in Delivery,
           NEW f \in {"busy", "resume", "old", "newer", "after"}, NEW b \in BOOLEAN
    PROVE  [seen EXCEPT ![d][f] = b] \in [Delivery -> Seen]
<1>1. seen[d] \in Seen
  BY DEF TypeOK
<1>2. [seen[d] EXCEPT ![f] = b] \in Seen
  BY <1>1 DEF Seen
<1> QED
  BY <1>2 DEF TypeOK

LEMMA VerdictTypes ==
    ASSUME TypeOK, NEW d \in Delivery, NEW v \in Terminal
    PROVE  [seen EXCEPT ![d]["verdict"] = v] \in [Delivery -> Seen]
<1>1. seen[d] \in Seen
  BY DEF TypeOK
<1>2. [seen[d] EXCEPT !["verdict"] = v] \in Seen
  BY <1>1 DEF Seen
<1> QED
  BY <1>2 DEF TypeOK

LEMMA TypeStep ==
    ASSUME TypeOK, [Next]_vars
    PROVE  TypeOK'
<1> USE LaneAssumption DEF caseVars, claimVars, consVars, budgets
<1>1. CASE UNCHANGED vars
  BY <1>1 DEF TypeOK, vars
<1>2. CASE Tick
  BY <1>2 DEF TypeOK, Tick, Older
<1>3. ASSUME NEW d \in Delivery, Deliver(d) \/ SkipDelivery(d)
      PROVE  TypeOK'
  BY <1>3 DEF TypeOK, Deliver, SkipDelivery, ConsGoto, ConsOnly, ConsPc
<1>4. ASSUME NEW d \in Delivery, SendRequest(d)
      PROVE  TypeOK'
  BY <1>4 DEF TypeOK, SendRequest, ConsGoto, ConsPc, ApiPc, ShortApiPc
<1>5. ASSUME NEW d \in Delivery, RequestAnswered(d) \/ RequestFails(d) \/ RequestTimesOut(d)
      PROVE  TypeOK'
  <2>1. CASE RequestAnswered(d)
    BY <2>1 DEF TypeOK, RequestAnswered, ConsGoto, ConsOnly, ConsPc
  <2>2. CASE RequestFails(d)
    BY <2>2 DEF TypeOK, RequestFails, ConsGoto, ConsOnly, ConsPc
  <2>3. CASE RequestTimesOut(d)
    BY <2>3 DEF TypeOK, RequestTimesOut, ConsGoto, ConsOnly, ConsPc
  <2> QED
    BY <1>5, <2>1, <2>2, <2>3
<1>6. ASSUME NEW d \in Delivery, ConsumerSaves(d)
      PROVE  TypeOK'
  BY <1>6 DEF TypeOK, ConsumerSaves, ConsGoto, ConsOnly, ConsPc, WriteCasebook,
              WriteStatus, Terminal, Protected
<1>7. ASSUME NEW d \in Delivery, LoadCase(d) \/ AwaitRunInFlight(d)
      PROVE  TypeOK'
  BY <1>7 DEF TypeOK, LoadCase, AwaitRunInFlight, Moves, ApiGoto, ApiOnly,
              ApiPc, ShortApiPc
<1>8. ASSUME NEW d \in Delivery, ServiceGateSkips(d)
      PROVE  TypeOK'
  BY <1>8 DEF TypeOK, ServiceGateSkips, ApiGoto, ApiOnly, ApiPc
<1>9. ASSUME NEW d \in Delivery, JudgeAbandoned(d) \/ JudgeFinished(d)
      PROVE  TypeOK'
  BY <1>9 DEF TypeOK, JudgeAbandoned, JudgeFinished, Moves, ApiGoto, ApiOnly,
              ApiPc, ShortApiPc
<1>10. ASSUME NEW d \in Delivery, LateResultGuard(d) \/ RequestRaises(d)
       PROVE  TypeOK'
  BY <1>10 DEF TypeOK, LateResultGuard, RequestRaises, Moves, ApiGoto, ApiOnly,
               ApiPc, ShortApiPc
<1>11. ASSUME NEW d \in Delivery, GetState(d)
       PROVE  TypeOK'
  BY <1>11 DEF TypeOK, GetState, Remember, ApiGoto, ApiOnly, ApiPc, ShortApiPc,
               Seen
<1>12. ASSUME NEW d \in Delivery, FillClaim(d) \/ TakeOverClaim(d)
       PROVE  TypeOK'
  BY <1>12 DEF TypeOK, FillClaim, TakeOverClaim, WriteClaim, ClaimOnly,
               ApiGoto, ApiOnly, ApiPc, ShortApiPc, Seen
<1>13. ASSUME NEW d \in Delivery, BudgetExpires(d)
       PROVE  TypeOK'
  BY <1>13 DEF TypeOK, BudgetExpires, Remember, ApiGoto, ApiOnly, ApiPc,
               ShortApiPc, Seen, Terminal, Protected
<1>14. ASSUME NEW d \in Delivery, SaveVerdict(d)
       PROVE  TypeOK'
  BY <1>14 DEF TypeOK, SaveVerdict, WriteCasebook, WriteStatus, ApiGoto,
               ApiOnly, ApiPc, ShortApiPc, Seen
<1>15. ASSUME NEW d \in Delivery, GraphCheckpoints(d) \/ CancelledRunStops(d)
       PROVE  TypeOK'
  BY <1>15 DEF TypeOK, GraphCheckpoints, CancelledRunStops, ApiOnly
<1>16. ASSUME NEW d \in Delivery, ClaimFailsOpen(d)
       PROVE  TypeOK'
  BY <1>16 DEF TypeOK, ClaimFailsOpen, ClaimOnly, ApiGoto, ApiOnly, ApiPc,
               ShortApiPc
<1>17. ASSUME NEW d \in Delivery, BeginDrain(d)
       PROVE  TypeOK'
  BY <1>17 DEF TypeOK, BeginDrain, DrainPc
<1>18. ASSUME NEW d \in Delivery, ProcessExits(d)
       PROVE  TypeOK'
  BY <1>18 DEF TypeOK, ProcessExits, KillRequest, ApiPc, DrainPc
<1>19. ASSUME NEW d \in Delivery, ApiCrash(d)
       PROVE  TypeOK'
  BY <1>19 DEF TypeOK, ApiCrash, KillRequest, SpendCrash, ApiPc, DrainPc
<1>20. ASSUME NEW d \in Delivery, ConsumerCrash(d)
       PROVE  TypeOK'
  BY <1>20 DEF TypeOK, ConsumerCrash, SpendCrash, ConsGoto, ConsOnly, ConsPc
<1>21. ASSUME NEW d \in Delivery, ConsumerDlq(d)
       PROVE  TypeOK'
  <2>1. /\ ConsGoto(d, "done")
        /\ released' = TRUE \/ released' = released
        /\ DlqAccepts \/ DlqRaises
        /\ ConsOnly /\ UNCHANGED <<caseVars, waited>>
    BY <1>21 DEF ConsumerDlq
  <2>2. inDlq' \in BOOLEAN
    BY <2>1 DEF TypeOK, DlqAccepts, DlqRaises
  <2>3. /\ crashes' \in 0 .. MaxCrashes /\ shutdowns' \in 0 .. MaxShutdowns
        /\ claimErrors' \in 0 .. MaxClaimErrors
        /\ dlqFaults' \in 0 .. MaxDlqFaults
    BY <2>1 DEF TypeOK, DlqAccepts, DlqRaises
  <2> QED
    BY <2>1, <2>2, <2>3 DEF TypeOK, ConsGoto, ConsOnly, ConsPc
<1>22. ASSUME NEW d \in Delivery, ApiDlq(d)
       PROVE  TypeOK'
  <2>1. /\ DlqAccepts \/ DlqRaises
        /\ UNCHANGED <<caseVars, claimVars, consVars, checkpoint, gated, clock,
                       seen, graph, drain>>
    BY <1>22 DEF ApiDlq, ApiOnly
  <2>2. api' \in [Delivery -> ApiPc]
    BY <1>22 DEF TypeOK, ApiDlq, ApiGoto, ApiPc, ShortApiPc
  <2>3. inDlq' \in BOOLEAN
    BY <2>1 DEF TypeOK, DlqAccepts, DlqRaises
  <2>4. /\ crashes' \in 0 .. MaxCrashes /\ shutdowns' \in 0 .. MaxShutdowns
        /\ claimErrors' \in 0 .. MaxClaimErrors
        /\ dlqFaults' \in 0 .. MaxDlqFaults
    BY <2>1 DEF TypeOK, DlqAccepts, DlqRaises
  <2> QED
    BY <2>1, <2>2, <2>3, <2>4 DEF TypeOK
<1>23. ASSUME NEW d \in Delivery, LoadStatus(d)
       PROVE  TypeOK'
  <2>1. seen' \in [Delivery -> Seen]
    <3>1. (status = "IN_PROGRESS" /\ started <= StaleAge) \in BOOLEAN
      OBVIOUS
    <3> QED
      BY <1>23, <3>1, SeenTypes DEF LoadStatus, Remember
  <2> QED
    BY <1>23, <2>1 DEF TypeOK, LoadStatus, ApiGoto, ApiOnly, ApiPc, ShortApiPc
<1>24. ASSUME NEW d \in Delivery, CreateClaim(d)
       PROVE  TypeOK'
  <2>1. seen' \in [Delivery -> Seen]
    BY <1>24, SeenTypes DEF CreateClaim, Remember
  <2>2. claim' \in {"absent", "empty", "full"} /\ claimAge' \in 0 .. ClaimTtl + 1
    BY <1>24 DEF TypeOK, CreateClaim
  <2>5. claimNewer' \in BOOLEAN
    BY <1>24 DEF TypeOK, CreateClaim
  <2>3. api' \in [Delivery -> ApiPc]
    BY <1>24 DEF TypeOK, CreateClaim, ApiGoto, ApiPc, ShortApiPc
  <2>4. UNCHANGED <<caseVars, checkpoint, inDlq, gated, consVars, clock, graph,
                    drain, budgets>>
    BY <1>24 DEF CreateClaim, ClaimOnly, ApiOnly
  <2> QED
    BY <2>1, <2>2, <2>3, <2>4, <2>5 DEF TypeOK
<1>25. ASSUME NEW d \in Delivery, ReadClaim(d)
       PROVE  TypeOK'
  <2>1. seen' \in [Delivery -> Seen]
    <3>1. PICK old \in BOOLEAN, newer \in BOOLEAN :
             seen' = [seen EXCEPT ![d].old = old, ![d].newer = newer]
      BY <1>25 DEF ReadClaim
    <3>2. seen[d] \in Seen
      BY DEF TypeOK
    <3>3. seen'[d] = [seen[d] EXCEPT !.old = old, !.newer = newer]
      BY <3>1 DEF TypeOK
    <3>4. seen'[d] \in Seen
      BY <3>2, <3>3 DEF Seen
    <3> QED
      BY <3>1, <3>4 DEF TypeOK
  <2> QED
    BY <1>25, <2>1 DEF TypeOK, ReadClaim, ClaimOnly, ApiGoto, ApiOnly, ApiPc,
                     ShortApiPc
<1>26. ASSUME NEW d \in Delivery, StartRun(d)
       PROVE  TypeOK'
  <2>1. checkpoint' \in BOOLEAN
    BY <1>26 DEF TypeOK, StartRun, Seen
  <2>2. /\ status' = "IN_PROGRESS" /\ started' = 0
        /\ graph' = [graph EXCEPT ![d] = TRUE]
        /\ clock' = [clock EXCEPT ![d] = 0]
        /\ api' = [api EXCEPT ![d] = "running"]
        /\ UNCHANGED <<casebook, claimVars, consVars, inDlq, gated, seen, drain,
                       budgets>>
    BY <1>26 DEF StartRun, ApiGoto, ApiOnly
  <2> QED
    BY <2>1, <2>2 DEF TypeOK, ApiPc
<1>27. ASSUME NEW d \in Delivery, GraphEnds(d) \/ SaveFails(d)
       PROVE  TypeOK'
  <2>1. seen' \in [Delivery -> Seen]
    <3>1. {"COMPLETED", "DLQ"} \subseteq Terminal
      BY DEF Terminal, Protected
    <3>2. seen' = seen \/ \E v \in Terminal : Remember(d, "verdict", v)
      BY <1>27, <3>1 DEF GraphEnds, SaveFails
    <3> QED
      BY <3>2, VerdictTypes DEF Remember, TypeOK
  <2>2. checkpoint' \in BOOLEAN /\ graph' \in [Delivery -> BOOLEAN]
    BY <1>27 DEF TypeOK, GraphEnds, SaveFails
  <2>3. api' \in [Delivery -> ApiPc]
    BY <1>27 DEF TypeOK, GraphEnds, SaveFails, ApiGoto, ApiPc, ShortApiPc
  <2>4. UNCHANGED <<caseVars, claimVars, inDlq, gated, consVars, clock, drain,
                    budgets>>
    BY <1>27 DEF GraphEnds, SaveFails, ApiOnly
  <2> QED
    BY <2>1, <2>2, <2>3, <2>4 DEF TypeOK
<1>28. ASSUME NEW d \in Delivery, DrainStraggler(d)
       PROVE  TypeOK'
  <2>1. seen' \in [Delivery -> Seen]
    <3>1. CASE UNCHANGED seen
      BY <3>1 DEF TypeOK
    <3>2. CASE seen' = [e \in Delivery |->
                          [seen[e] EXCEPT !.newer = FALSE, !.after = FALSE]]
      <4>1. ASSUME NEW e \in Delivery
            PROVE  [seen[e] EXCEPT !.newer = FALSE, !.after = FALSE] \in Seen
        <5>1. seen[e] \in Seen
          BY DEF TypeOK
        <5> QED
          BY <5>1 DEF Seen
      <4> QED
        BY <3>2, <4>1
    <3> QED
      BY <1>28, <3>1, <3>2 DEF DrainStraggler
  <2>2. /\ casebook' \in Terminal \cup {"none"}
        /\ status' \in Terminal \cup {"none", "IN_PROGRESS"}
        /\ started' = started
    BY <1>28 DEF TypeOK, DrainStraggler, WriteCasebook, WriteStatus, Terminal,
                Redeliverable
  <2>3. claimNewer' \in BOOLEAN /\ drain' \in [Delivery -> DrainPc]
    BY <1>28 DEF TypeOK, DrainStraggler, DrainPc
  <2>4. UNCHANGED <<claim, claimAge, checkpoint, inDlq, gated, consVars, api,
                    clock, graph, budgets>>
    BY <1>28 DEF DrainStraggler
  <2> QED
    BY <2>1, <2>2, <2>3, <2>4 DEF TypeOK
<1> QED
  BY <1>1, <1>2, <1>3, <1>4, <1>5, <1>6, <1>7, <1>8, <1>9, <1>10, <1>11, <1>12,
     <1>13, <1>14, <1>15, <1>16, <1>17, <1>18, <1>19, <1>20, <1>21, <1>22,
     <1>23, <1>24, <1>25, <1>26, <1>27, <1>28, NextCases

\* Every behaviour of the lane is well typed; in particular no age outgrows the
\* point where its test saturates and no fault budget is overspent.
THEOREM TypeCorrect == Spec => []TypeOK
<1>1. Init => TypeOK
  BY TypeInit
<1>2. TypeOK /\ [Next]_vars => TypeOK'
  BY TypeStep
<1> QED
  BY <1>1, <1>2, PTL DEF Spec
----------------------------------------------------------------------------
(* What is on record. *)

(* Who is between the two writes of a save, or past both, has written      *)
(* casebook.json.                                                          *)
SavesInOrder ==
    \A d \in Delivery :
        /\ api[d] \in {"save2", "dlqThenOk"} => casebook \in Terminal
        /\ cons[d] = "save2" => casebook \in Terminal
        /\ drain[d] = "save2" => casebook \in Terminal

(* A request that was answered with 2xx has a verdict behind it, or the    *)
(* gate.                                                                   *)
AnswersRecorded ==
    \A d \in Delivery : api[d] = "ok" => casebook \in Terminal \/ gated

RecordInv ==
    /\ StatusImpliesCasebook
    /\ SavesInOrder
    /\ AnswersRecorded
    /\ CommittedRecorded

LEMMA RecordInit == Init => RecordInv
BY DEF Init, RecordInv, StatusImpliesCasebook, SavesInOrder, AnswersRecorded,
       CommittedRecorded, Terminal, Protected, Redeliverable

LEMMA RecordStep ==
    ASSUME TypeOK, RecordInv, [Next]_vars
    PROVE  RecordInv'
<1> USE DEF RecordInv, StatusImpliesCasebook, SavesInOrder, AnswersRecorded,
            CommittedRecorded, caseVars, claimVars, consVars, budgets
<1>a. /\ api \in [Delivery -> ApiPc] /\ cons \in [Delivery -> ConsPc]
      /\ drain \in [Delivery -> DrainPc]
      /\ \A d \in Delivery : seen[d].verdict \in Terminal
      /\ casebook \in Terminal \cup {"none"}
  BY DEF TypeOK, Seen
<1>1. CASE UNCHANGED vars
  BY <1>1 DEF vars
<1>2. CASE Tick
  BY <1>2 DEF Tick
<1>3. ASSUME NEW d \in Delivery,
             \/ Deliver(d) \/ RequestFails(d) \/ RequestTimesOut(d)
             \/ ConsumerCrash(d)
      PROVE  RecordInv'
  BY <1>3, <1>a DEF Deliver, RequestFails, RequestTimesOut, ConsumerCrash,
     ConsGoto, ConsOnly
<1>4. ASSUME NEW d \in Delivery, SkipDelivery(d) \/ RequestAnswered(d)
      PROVE  RecordInv'
  BY <1>4, <1>a DEF SkipDelivery, RequestAnswered, ConsAt, ConsGoto, ConsOnly
<1>5. ASSUME NEW d \in Delivery, SendRequest(d)
      PROVE  RecordInv'
  BY <1>5, <1>a DEF SendRequest, ConsGoto
<1>6. ASSUME NEW d \in Delivery, ConsumerSaves(d)
      PROVE  RecordInv'
  BY <1>6, <1>a DEF ConsumerSaves, ConsAt, ConsGoto, ConsOnly, WriteCasebook,
     WriteStatus, Terminal, Protected
<1>7. ASSUME NEW d \in Delivery, ConsumerDlq(d)
      PROVE  RecordInv'
  BY <1>7, <1>a DEF ConsumerDlq, ConsGoto, ConsOnly, DlqAccepts, DlqRaises
<1>8. ASSUME NEW d \in Delivery,
             \/ LoadCase(d) \/ AwaitRunInFlight(d) \/ JudgeAbandoned(d)
             \/ LateResultGuard(d) \/ RequestRaises(d)
      PROVE  RecordInv'
  <2>1. PICK next : /\ Moves(d, next)
                    /\ next \notin {"save2", "dlqThenOk"}
                    /\ next = "ok" => casebook \in Terminal
    BY <1>8, <1>a DEF LoadCase, AwaitRunInFlight, JudgeAbandoned, LateResultGuard,
       RequestRaises, TerminalStatus, IsTerminal, Terminal
  <2> QED
    BY <2>1, <1>a DEF Moves, ApiGoto, ApiOnly
<1>9. ASSUME NEW d \in Delivery, JudgeFinished(d)
      PROVE  RecordInv'
  BY <1>9, <1>a DEF JudgeFinished, ApiGoto, ApiOnly, TerminalStatus, Terminal
<1>10. ASSUME NEW d \in Delivery, ServiceGateSkips(d)
       PROVE  RecordInv'
  BY <1>10, <1>a DEF ServiceGateSkips, ApiGoto, ApiOnly
<1>11. ASSUME NEW d \in Delivery,
              \/ LoadStatus(d) \/ GetState(d) \/ BudgetExpires(d)
              \/ CreateClaim(d) \/ FillClaim(d) \/ ReadClaim(d)
              \/ TakeOverClaim(d) \/ ClaimFailsOpen(d)
              \/ GraphCheckpoints(d) \/ GraphEnds(d) \/ CancelledRunStops(d)
              \/ SaveFails(d)
       PROVE  RecordInv'
  <2>1. UNCHANGED <<caseVars, inDlq, gated, consVars, drain>>
    BY <1>11 DEF LoadStatus, GetState, BudgetExpires, CreateClaim, FillClaim,
       ReadClaim, TakeOverClaim, ClaimFailsOpen, GraphCheckpoints, GraphEnds,
       CancelledRunStops, SaveFails, ClaimOnly, ApiOnly
  <2>2. \A e \in Delivery :
           api'[e] \in {"ok", "save2", "dlqThenOk"} => api'[e] = api[e]
    BY <1>11, <1>a DEF LoadStatus, GetState, BudgetExpires, CreateClaim,
       FillClaim, ReadClaim, TakeOverClaim, ClaimFailsOpen, GraphCheckpoints,
       GraphEnds, CancelledRunStops, SaveFails, ApiGoto
  <2> QED
    BY <2>1, <2>2
<1>12. ASSUME NEW d \in Delivery, StartRun(d)
       PROVE  RecordInv'
  BY <1>12, <1>a DEF StartRun, ApiGoto, ApiOnly, Terminal, Protected, Redeliverable
<1>13. ASSUME NEW d \in Delivery, SaveVerdict(d)
       PROVE  RecordInv'
  BY <1>13, <1>a DEF SaveVerdict, ApiAt, ApiGoto, ApiOnly, WriteCasebook,
     WriteStatus
<1>14. ASSUME NEW d \in Delivery, ApiDlq(d)
       PROVE  RecordInv'
  BY <1>14, <1>a DEF ApiDlq, ApiAt, ApiGoto, ApiOnly, DlqAccepts, DlqRaises
<1>15. ASSUME NEW d \in Delivery, BeginDrain(d)
       PROVE  RecordInv'
  BY <1>15, <1>a DEF BeginDrain
<1>16. ASSUME NEW d \in Delivery, ProcessExits(d) \/ ApiCrash(d)
       PROVE  RecordInv'
  BY <1>16, <1>a DEF ProcessExits, ApiCrash, KillRequest, InFlight
<1>17. ASSUME NEW d \in Delivery, DrainStraggler(d)
       PROVE  RecordInv'
  BY <1>17, <1>a DEF DrainStraggler, WriteCasebook, WriteStatus, Terminal,
     Redeliverable
<1> QED
  BY <1>1, <1>2, <1>3, <1>4, <1>5, <1>6, <1>7, <1>8, <1>9, <1>10, <1>11, <1>12,
     <1>13, <1>14, <1>15, <1>16, <1>17, NextCases

LEMMA RecordInvariant == Spec => [](TypeOK /\ RecordInv)
<1>1. Init => TypeOK /\ RecordInv
  BY TypeInit, RecordInit
<1>2. TypeOK /\ RecordInv /\ [Next]_vars => (TypeOK /\ RecordInv)'
  BY TypeStep, RecordStep
<1> QED
  BY <1>1, <1>2, PTL DEF Spec

\* No crash, drain or failed save leaves a terminal status.json without a
\* terminal casebook.json: save_terminal writes in that order everywhere.
THEOREM StatusHasCasebook == Spec => []StatusImpliesCasebook
<1>1. RecordInv => StatusImpliesCasebook
  BY DEF RecordInv
<1> QED
  BY <1>1, RecordInvariant, PTL

\* The consumer commits the packet only after casebook.json, the DLQ or the
\* service gate has taken it, whatever crashes, drains and redeliveries.
THEOREM CommitIsRecorded == Spec => []CommittedRecorded
<1>1. RecordInv => CommittedRecorded
  BY DEF RecordInv
<1> QED
  BY <1>1, RecordInvariant, PTL
----------------------------------------------------------------------------
(* Without a drain no verdict is FAILED_SHUTDOWN, so that every terminal   *)
(* casebook is a final one.                                                *)
NoAbandonment ==
    /\ \A d \in Delivery : seen[d].verdict # "FAILED_SHUTDOWN"
    /\ shutdowns = 0 => /\ casebook # "FAILED_SHUTDOWN"
                        /\ \A d \in Delivery : drain[d] = "no"

LEMMA NoAbandonmentStep ==
    ASSUME TypeOK, NoAbandonment, [Next]_vars
    PROVE  NoAbandonment'
<1> USE DEF NoAbandonment, caseVars, claimVars, consVars, budgets
<1>a. /\ seen \in [Delivery -> Seen] /\ drain \in [Delivery -> DrainPc]
      /\ shutdowns \in Nat
  BY LaneAssumption DEF TypeOK
<1>1. CASE UNCHANGED vars
  BY <1>1 DEF vars
<1>2. CASE Tick
  BY <1>2 DEF Tick
<1>3. ASSUME NEW d \in Delivery,
             \/ Deliver(d) \/ SkipDelivery(d) \/ SendRequest(d)
             \/ RequestAnswered(d) \/ RequestFails(d) \/ RequestTimesOut(d)
             \/ ConsumerDlq(d) \/ ConsumerCrash(d)
             \/ LoadCase(d) \/ AwaitRunInFlight(d) \/ JudgeAbandoned(d)
             \/ JudgeFinished(d) \/ LateResultGuard(d) \/ RequestRaises(d)
             \/ ServiceGateSkips(d) \/ FillClaim(d) \/ TakeOverClaim(d)
             \/ ClaimFailsOpen(d) \/ StartRun(d) \/ ApiDlq(d)
             \/ GraphCheckpoints(d) \/ CancelledRunStops(d)
      PROVE  NoAbandonment'
  <2>1. UNCHANGED <<casebook, seen, shutdowns, drain>>
    BY <1>3 DEF Deliver, SkipDelivery, SendRequest, RequestAnswered, RequestFails,
       RequestTimesOut, ConsumerDlq, ConsumerCrash, LoadCase, AwaitRunInFlight,
       JudgeAbandoned, JudgeFinished, LateResultGuard, RequestRaises,
       ServiceGateSkips, FillClaim, TakeOverClaim, ClaimFailsOpen, StartRun,
       ApiDlq, GraphCheckpoints, CancelledRunStops, ConsOnly, ApiOnly, ClaimOnly,
       Moves, DlqAccepts, DlqRaises, SpendCrash
  <2> QED
    BY <2>1
<1>4. ASSUME NEW d \in Delivery, ConsumerSaves(d)
      PROVE  NoAbandonment'
  BY <1>4 DEF ConsumerSaves, ConsOnly, WriteCasebook, WriteStatus
<1>5. ASSUME NEW d \in Delivery,
             LoadStatus(d) \/ GetState(d) \/ CreateClaim(d) \/ ReadClaim(d)
      PROVE  NoAbandonment'
  <2>1. UNCHANGED <<casebook, shutdowns, drain>>
    BY <1>5 DEF LoadStatus, GetState, CreateClaim, ReadClaim, ClaimOnly, ApiOnly
  <2>2. \A e \in Delivery : seen'[e].verdict = seen[e].verdict
    BY <1>5, <1>a DEF LoadStatus, GetState, CreateClaim, ReadClaim, Remember, Seen
  <2> QED
    BY <2>1, <2>2
<1>6. ASSUME NEW d \in Delivery, BudgetExpires(d) \/ GraphEnds(d) \/ SaveFails(d)
      PROVE  NoAbandonment'
  <2>1. UNCHANGED <<casebook, shutdowns, drain>>
    BY <1>6 DEF BudgetExpires, GraphEnds, SaveFails, ApiOnly
  <2>2. \A e \in Delivery :
           \/ seen'[e].verdict = seen[e].verdict
           \/ seen'[e].verdict \in {"FAILED_TIMEOUT", "COMPLETED", "DLQ"}
    BY <1>6, <1>a DEF BudgetExpires, GraphEnds, SaveFails, Remember, Seen
  <2> QED
    BY <2>1, <2>2
<1>7. ASSUME NEW d \in Delivery, SaveVerdict(d)
      PROVE  NoAbandonment'
  BY <1>7 DEF SaveVerdict, ApiOnly, WriteCasebook, WriteStatus
<1>8. ASSUME NEW d \in Delivery, BeginDrain(d)
      PROVE  NoAbandonment'
  BY <1>8, <1>a DEF BeginDrain
<1>9. ASSUME NEW d \in Delivery, ProcessExits(d) \/ ApiCrash(d)
      PROVE  NoAbandonment'
  BY <1>9, <1>a DEF ProcessExits, ApiCrash, KillRequest, SpendCrash
<1>10. ASSUME NEW d \in Delivery, DrainStraggler(d)
       PROVE  NoAbandonment'
  <2>1. shutdowns # 0 /\ shutdowns' = shutdowns
    BY <1>10 DEF DrainStraggler
  <2>2. \A e \in Delivery : seen'[e].verdict = seen[e].verdict
    <3>1. \A e \in Delivery :
             [seen[e] EXCEPT !.newer = FALSE, !.after = FALSE].verdict
                = seen[e].verdict
      BY <1>a DEF Seen
    <3>2. \/ UNCHANGED seen
          \/ seen' = [e \in Delivery |->
                         [seen[e] EXCEPT !.newer = FALSE, !.after = FALSE]]
      BY <1>10 DEF DrainStraggler
    <3> QED
      BY <3>1, <3>2
  <2> QED
    BY <2>1, <2>2
<1> QED
  BY <1>1, <1>2, <1>3, <1>4, <1>5, <1>6, <1>7, <1>8, <1>9, <1>10, NextCases

LEMMA NoAbandonmentInvariant == Spec => []NoAbandonment
<1>1. Init => NoAbandonment
  BY DEF Init, NoAbandonment, NothingSeen
<1>2. TypeOK /\ NoAbandonment /\ [Next]_vars => NoAbandonment'
  BY NoAbandonmentStep
<1> QED
  BY <1>1, <1>2, TypeCorrect, PTL DEF Spec

\* As long as no process has been drained, a 2xx of /analyze-rejection means a
\* final verdict on record, or the gate.  (A drain breaks it: a duplicate that
\* waits is answered when FAILED_SHUTDOWN is recorded.)
THEOREM AnswerIsSettled == Spec => [](shutdowns = 0 => AnswerMeansSettled)
<1>1. RecordInv /\ NoAbandonment => (shutdowns = 0 => AnswerMeansSettled)
  BY DEF RecordInv, AnswersRecorded, NoAbandonment, AnswerMeansSettled, Settled,
     Redeliverable, ApiAt
<1> QED
  BY <1>1, RecordInvariant, NoAbandonmentInvariant, PTL
----------------------------------------------------------------------------
(* One run at a time. *)

(* From the write of the claim until its run starts no time passes, and    *)
(* the run has at most its budget: as long as the claim store answers, the *)
(* claim is never older than the time a live run has been executing.  A    *)
(* later claim of another request only makes it younger.                   *)
ClaimOfLiveRun ==
    claimErrors = 0 =>
        \A d \in Delivery :
            /\ api[d] \in {"fillClaim", "stub"} => claimAge = 0
            /\ api[d] = "running" => clock[d] <= Budget
            /\ graph[d] => claimAge <= Budget
            /\ graph[d] /\ api[d] = "running" => claimAge <= clock[d]

LEMMA ClaimOfLiveRunStep ==
    ASSUME TypeOK, ClaimOfLiveRun, [Next]_vars
    PROVE  ClaimOfLiveRun'
<1> USE DEF ClaimOfLiveRun, caseVars, claimVars, consVars, budgets
<1>a. /\ api \in [Delivery -> ApiPc] /\ graph \in [Delivery -> BOOLEAN]
      /\ clock \in [Delivery -> Nat] /\ claimAge \in Nat /\ claimErrors \in Nat
      /\ Budget \in Nat /\ ClaimTtl \in Nat
  BY LaneAssumption DEF TypeOK
<1>1. CASE UNCHANGED vars
  BY <1>1 DEF vars
<1>2. CASE Tick
  <2>1. UNCHANGED <<api, graph, claimErrors>> /\ claimAge' <= claimAge + 1
    BY <1>2, <1>a DEF Tick, Older
  <2>2. claimAge' \in Nat
    BY <1>2, <1>a DEF Tick, Older
  <2> SUFFICES ASSUME claimErrors = 0, NEW d \in Delivery
               PROVE  /\ api[d] \in {"fillClaim", "stub"} => claimAge' = 0
                      /\ api[d] = "running" => clock'[d] <= Budget
                      /\ graph[d] => claimAge' <= Budget
                      /\ graph[d] /\ api[d] = "running" => claimAge' <= clock'[d]
    BY <2>1
  <2>3. /\ api[d] \notin {"fillClaim", "stub"}
        /\ graph[d] => api[d] = "running"
        /\ api[d] = "running" => clock[d] < Budget /\ clock'[d] = clock[d] + 1
    BY <1>2 DEF Tick, ShortApiPc, ApiAt
  <2> QED
    BY <2>1, <2>2, <2>3, <1>a
<1>3. ASSUME NEW d \in Delivery,
             \/ Deliver(d) \/ SkipDelivery(d) \/ RequestAnswered(d)
             \/ RequestFails(d) \/ RequestTimesOut(d) \/ ConsumerSaves(d)
             \/ ConsumerDlq(d) \/ ConsumerCrash(d) \/ GraphCheckpoints(d)
             \/ BeginDrain(d) \/ DrainStraggler(d)
      PROVE  ClaimOfLiveRun'
  <2>1. UNCHANGED <<api, graph, clock, claimAge, claimErrors>>
    BY <1>3 DEF Deliver, SkipDelivery, RequestAnswered, RequestFails,
       RequestTimesOut, ConsumerSaves, ConsumerDlq, ConsumerCrash,
       GraphCheckpoints, BeginDrain, DrainStraggler, ConsOnly, ApiOnly,
       DlqAccepts, DlqRaises, SpendCrash
  <2> QED
    BY <2>1
<1>4. ASSUME NEW d \in Delivery,
             \/ SendRequest(d) \/ LoadCase(d) \/ LoadStatus(d)
             \/ ServiceGateSkips(d) \/ AwaitRunInFlight(d) \/ JudgeAbandoned(d)
             \/ ReadClaim(d) \/ BudgetExpires(d) \/ LateResultGuard(d)
             \/ RequestRaises(d) \/ SaveVerdict(d) \/ SaveFails(d) \/ ApiDlq(d)
      PROVE  ClaimOfLiveRun'
  <2>1. UNCHANGED <<graph, clock, claimAge, claimErrors>>
    BY <1>4 DEF SendRequest, LoadCase, LoadStatus, ServiceGateSkips,
       AwaitRunInFlight, JudgeAbandoned, ReadClaim, BudgetExpires,
       LateResultGuard, RequestRaises, SaveVerdict, SaveFails, ApiDlq, Moves,
       ClaimOnly, ApiOnly, DlqAccepts, DlqRaises
  <2>2. \A e \in Delivery :
           api'[e] \in {"fillClaim", "stub", "running"} => api'[e] = api[e]
    BY <1>4, <1>a DEF SendRequest, LoadCase, LoadStatus, ServiceGateSkips,
       AwaitRunInFlight, JudgeAbandoned, ReadClaim, BudgetExpires,
       LateResultGuard, RequestRaises, SaveVerdict, SaveFails, ApiDlq, Moves,
       ApiGoto
  <2> QED
    BY <2>1, <2>2
<1>5. ASSUME NEW d \in Delivery, GetState(d) \/ JudgeFinished(d)
      PROVE  ClaimOfLiveRun'
  BY <1>5, <1>a DEF GetState, JudgeFinished, ApiGoto, ApiOnly
<1>6. ASSUME NEW d \in Delivery,
             CreateClaim(d) \/ FillClaim(d) \/ TakeOverClaim(d)
      PROVE  ClaimOfLiveRun'
  <2>1. UNCHANGED <<graph, clock, claimErrors>>
    BY <1>6 DEF CreateClaim, FillClaim, TakeOverClaim, ClaimOnly
  <2>2. \A e \in Delivery : api'[e] = "running" => api[e] = "running"
    BY <1>6, <1>a DEF CreateClaim, FillClaim, TakeOverClaim, ApiGoto
  <2>3. \/ claimAge' = 0
        \/ /\ claimAge' = claimAge
           /\ \A e \in Delivery :
                 api'[e] \in {"fillClaim", "stub"} => api'[e] = api[e]
    BY <1>6, <1>a DEF CreateClaim, FillClaim, TakeOverClaim, WriteClaim, ApiGoto
  <2> QED
    BY <2>1, <2>2, <2>3, <1>a
<1>7. ASSUME NEW d \in Delivery, ClaimFailsOpen(d)
      PROVE  ClaimOfLiveRun'
  BY <1>7, <1>a DEF ClaimFailsOpen
<1>8. ASSUME NEW d \in Delivery, StartRun(d)
      PROVE  ClaimOfLiveRun'
  BY <1>8, <1>a DEF StartRun, ApiAt, ApiGoto, ApiOnly
<1>9. ASSUME NEW d \in Delivery, GraphEnds(d) \/ CancelledRunStops(d)
      PROVE  ClaimOfLiveRun'
  BY <1>9, <1>a DEF GraphEnds, CancelledRunStops, ApiGoto, ApiOnly
<1>10. ASSUME NEW d \in Delivery, ProcessExits(d) \/ ApiCrash(d)
       PROVE  ClaimOfLiveRun'
  BY <1>10, <1>a DEF ProcessExits, ApiCrash, KillRequest, SpendCrash
<1> QED
  BY <1>1, <1>2, <1>3, <1>4, <1>5, <1>6, <1>7, <1>8, <1>9, <1>10, NextCases

LEMMA ClaimOfLiveRunInvariant == Spec => []ClaimOfLiveRun
<1>1. Init => ClaimOfLiveRun
  BY DEF Init, ClaimOfLiveRun
<1>2. TypeOK /\ ClaimOfLiveRun /\ [Next]_vars => ClaimOfLiveRun'
  BY ClaimOfLiveRunStep
<1> QED
  BY <1>1, <1>2, TypeCorrect, PTL DEF Spec

\* A claim past its TTL has no live run behind it, in any of the lane's faults
\* but a failing claim store, as long as the TTL is not shorter than the run
\* budget.  The default is twice the budget; PACKET_CLAIM_TTL_SECONDS may set
\* another.
THEOREM ExpiredClaimHasNoRun ==
    ASSUME Budget <= ClaimTtl
    PROVE  Spec => []ExpiredClaimIsDead
<1>1. TypeOK /\ ClaimOfLiveRun => ExpiredClaimIsDead
  <2> SUFFICES ASSUME TypeOK, ClaimOfLiveRun, claimErrors = 0,
                      claimAge > ClaimTtl, NEW d \in Delivery, graph[d]
               PROVE  FALSE
    BY DEF ExpiredClaimIsDead
  <2>1. claimAge \in Nat /\ Budget \in Nat /\ ClaimTtl \in Nat
    BY LaneAssumption DEF TypeOK
  <2>2. claimAge <= Budget
    BY DEF ClaimOfLiveRun
  <2>3. Budget <= ClaimTtl
    OBVIOUS
  <2> QED
    BY <2>1, <2>2, <2>3
<1> QED
  BY <1>1, TypeCorrect, ClaimOfLiveRunInvariant, PTL

(* The requests of the packet, as the claim tells them apart: those that   *)
(* are past the claim, those that hold it with a run to come or under way, *)
(* those that found it held, and those that will take it over.             *)
Claimed == {"fillClaim", "stub", "running", "guard", "save1", "save2",
            "dlqThenSave", "dlqThenOk", "ok", "err", "dead"}
Active(d) == graph[d] \/ api[d] = "stub"
ReadsClaim(d) == api[d] \in {"readClaim", "judgeAbandoned", "judgeFinished",
                             "takeOver"}
TakesOver(d) ==
    \/ api[d] = "takeOver"
    \/ api[d] \in {"judgeAbandoned", "judgeFinished"} /\ seen[d].old

(* A delivery makes one request; a store that creates atomically never     *)
(* shows a claim that is not written.                                      *)
OneRequestEach ==
    \A d \in Delivery :
        /\ cons[d] \in {"unsent", "check"} => api[d] = "none"
        /\ AtomicCreate => api[d] # "fillClaim"

(* A claim, once there, was made by a request that is past it, and stays:  *)
(* whoever acts on it finds it.                                            *)
ClaimHeld ==
    claimErrors = 0 =>
        /\ AtomicCreate => claim # "empty"
        /\ claim # "absent" => \E f \in Delivery : api[f] \in Claimed
        /\ \A d \in Delivery : Active(d) \/ ReadsClaim(d) => claim # "absent"

(* While a request is active no other is, nor is any about to take over.   *)
OneActive ==
    claimErrors = 0 /\ shutdowns = 0 =>
        \A d, e \in Delivery :
            d # e /\ Active(d) => ~Active(e) /\ ~TakesOver(e)

LEMMA OneRequestStep ==
    ASSUME TypeOK, OneRequestEach, [Next]_vars
    PROVE  OneRequestEach'
<1> USE DEF OneRequestEach, claimVars, consVars
<1>a. api \in [Delivery -> ApiPc] /\ cons \in [Delivery -> ConsPc]
  BY DEF TypeOK
<1>1. CASE UNCHANGED vars
  BY <1>1 DEF vars
<1>2. CASE Tick
  BY <1>2 DEF Tick
<1>3. ASSUME NEW d \in Delivery,
             \/ Deliver(d) \/ SkipDelivery(d) \/ RequestAnswered(d)
             \/ RequestFails(d) \/ RequestTimesOut(d) \/ ConsumerSaves(d)
             \/ ConsumerDlq(d) \/ ConsumerCrash(d)
      PROVE  OneRequestEach'
  <2>1. UNCHANGED api
    BY <1>3 DEF Deliver, SkipDelivery, RequestAnswered, RequestFails,
       RequestTimesOut, ConsumerSaves, ConsumerDlq, ConsumerCrash, ConsOnly
  <2>2. \A e \in Delivery :
           cons'[e] \in {"unsent", "check"} => cons[e] \in {"unsent", "check"}
    BY <1>3, <1>a DEF Deliver, SkipDelivery, RequestAnswered, RequestFails,
       RequestTimesOut, ConsumerSaves, ConsumerDlq, ConsumerCrash, ConsAt, ConsGoto
  <2> QED
    BY <2>1, <2>2
<1>4. ASSUME NEW d \in Delivery, SendRequest(d)
      PROVE  OneRequestEach'
  BY <1>4, <1>a DEF SendRequest, ConsGoto
<1>5. ASSUME NEW d \in Delivery,
             \/ GraphCheckpoints(d) \/ CancelledRunStops(d) \/ BeginDrain(d)
             \/ DrainStraggler(d)
      PROVE  OneRequestEach'
  BY <1>5 DEF GraphCheckpoints, CancelledRunStops, BeginDrain, DrainStraggler,
     ApiOnly
<1>6. ASSUME NEW d \in Delivery,
             \/ LoadCase(d) \/ LoadStatus(d) \/ ServiceGateSkips(d)
             \/ GetState(d) \/ AwaitRunInFlight(d) \/ CreateClaim(d)
             \/ FillClaim(d) \/ ReadClaim(d) \/ JudgeAbandoned(d)
             \/ JudgeFinished(d) \/ TakeOverClaim(d) \/ StartRun(d)
             \/ BudgetExpires(d) \/ LateResultGuard(d) \/ SaveVerdict(d)
             \/ ApiDlq(d) \/ GraphEnds(d) \/ ClaimFailsOpen(d) \/ SaveFails(d)
             \/ RequestRaises(d)
      PROVE  OneRequestEach'
  <2>1. UNCHANGED cons
    BY <1>6 DEF LoadCase, LoadStatus, ServiceGateSkips, GetState,
       AwaitRunInFlight, CreateClaim, FillClaim, ReadClaim, JudgeAbandoned,
       JudgeFinished, TakeOverClaim, StartRun, BudgetExpires, LateResultGuard,
       SaveVerdict, ApiDlq, GraphEnds, ClaimFailsOpen, SaveFails, RequestRaises,
       Moves, ClaimOnly, ApiOnly
  <2>2. \A e \in Delivery : api[e] = "none" => api'[e] = "none"
    BY <1>6, <1>a DEF LoadCase, LoadStatus, ServiceGateSkips, GetState,
       AwaitRunInFlight, CreateClaim, FillClaim, ReadClaim, JudgeAbandoned,
       JudgeFinished, TakeOverClaim, StartRun, BudgetExpires, LateResultGuard,
       SaveVerdict, ApiDlq, GraphEnds, ClaimFailsOpen, SaveFails, RequestRaises,
       Moves, ApiAt, ApiGoto
  <2>3. \A e \in Delivery :
           AtomicCreate /\ api'[e] = "fillClaim" => api[e] = "fillClaim"
    BY <1>6, <1>a DEF LoadCase, LoadStatus, ServiceGateSkips, GetState,
       AwaitRunInFlight, CreateClaim, FillClaim, ReadClaim, JudgeAbandoned,
       JudgeFinished, TakeOverClaim, StartRun, BudgetExpires, LateResultGuard,
       SaveVerdict, ApiDlq, GraphEnds, ClaimFailsOpen, SaveFails, RequestRaises,
       Moves, ApiAt, ApiGoto
  <2> QED
    BY <2>1, <2>2, <2>3
<1>7. ASSUME NEW d \in Delivery, ProcessExits(d) \/ ApiCrash(d)
      PROVE  OneRequestEach'
  BY <1>7, <1>a DEF ProcessExits, ApiCrash, KillRequest, InFlight
<1> QED
  BY <1>1, <1>2, <1>3, <1>4, <1>5, <1>6, <1>7, NextCases

(* No fault is ever taken back. *)
LEMMA FaultsStay ==
    ASSUME TypeOK, [Next]_vars
    PROVE  /\ claimErrors' = 0 => claimErrors = 0
           /\ shutdowns' = 0 => shutdowns = 0
<1>a. claimErrors \in Nat /\ shutdowns \in Nat
  BY LaneAssumption DEF TypeOK
<1>b. \/ UNCHANGED <<claimErrors, shutdowns>>
      \/ claimErrors' = claimErrors + 1 /\ UNCHANGED shutdowns
      \/ shutdowns' = shutdowns + 1 /\ UNCHANGED claimErrors
  <2> USE DEF budgets
  <2>1. CASE UNCHANGED vars
    BY <2>1 DEF vars
  <2>2. CASE Tick
    BY <2>2 DEF Tick
  <2>3. ASSUME NEW d \in Delivery,
               \/ Deliver(d) \/ SkipDelivery(d) \/ SendRequest(d)
               \/ RequestAnswered(d) \/ RequestFails(d) \/ RequestTimesOut(d)
               \/ ConsumerSaves(d) \/ LoadCase(d) \/ LoadStatus(d)
               \/ ServiceGateSkips(d) \/ GetState(d) \/ AwaitRunInFlight(d)
               \/ CreateClaim(d) \/ FillClaim(d) \/ ReadClaim(d)
               \/ JudgeAbandoned(d) \/ JudgeFinished(d) \/ TakeOverClaim(d)
               \/ StartRun(d) \/ BudgetExpires(d) \/ LateResultGuard(d)
               \/ SaveVerdict(d) \/ GraphCheckpoints(d) \/ GraphEnds(d)
               \/ CancelledRunStops(d) \/ SaveFails(d) \/ RequestRaises(d)
               \/ DrainStraggler(d) \/ ProcessExits(d)
        PROVE  UNCHANGED <<claimErrors, shutdowns>>
    BY <2>3 DEF Deliver, SkipDelivery, SendRequest, RequestAnswered,
       RequestFails, RequestTimesOut, ConsumerSaves, LoadCase, LoadStatus,
       ServiceGateSkips, GetState, AwaitRunInFlight, CreateClaim, FillClaim,
       ReadClaim, JudgeAbandoned, JudgeFinished, TakeOverClaim, StartRun,
       BudgetExpires, LateResultGuard, SaveVerdict, GraphCheckpoints, GraphEnds,
       CancelledRunStops, SaveFails, RequestRaises, DrainStraggler, ProcessExits,
       Moves
  <2>4. ASSUME NEW d \in Delivery,
               ConsumerDlq(d) \/ ApiDlq(d) \/ ApiCrash(d) \/ ConsumerCrash(d)
        PROVE  UNCHANGED <<claimErrors, shutdowns>>
    BY <2>4 DEF ConsumerDlq, ApiDlq, ApiCrash, ConsumerCrash, DlqAccepts,
       DlqRaises, SpendCrash
  <2>5. ASSUME NEW d \in Delivery, ClaimFailsOpen(d)
        PROVE  claimErrors' = claimErrors + 1 /\ UNCHANGED shutdowns
    BY <2>5 DEF ClaimFailsOpen
  <2>6. ASSUME NEW d \in Delivery, BeginDrain(d)
        PROVE  shutdowns' = shutdowns + 1 /\ UNCHANGED claimErrors
    BY <2>6 DEF BeginDrain
  <2> QED
    BY <2>1, <2>2, <2>3, <2>4, <2>5, <2>6, NextCases
<1> QED
  BY <1>a, <1>b

(* A request that is past the claim never comes back to it. *)
LEMMA ClaimedStays ==
    ASSUME TypeOK, OneRequestEach, [Next]_vars, NEW f \in Delivery,
           api[f] \in Claimed
    PROVE  api'[f] \in Claimed
<1> USE DEF Claimed
<1>a. api \in [Delivery -> ApiPc]
  BY DEF TypeOK
<1>1. CASE UNCHANGED vars
  BY <1>1 DEF vars
<1>2. CASE Tick
  BY <1>2 DEF Tick
<1>3. ASSUME NEW d \in Delivery,
             \/ Deliver(d) \/ SkipDelivery(d) \/ RequestAnswered(d)
             \/ RequestFails(d) \/ RequestTimesOut(d) \/ ConsumerSaves(d)
             \/ ConsumerDlq(d) \/ ConsumerCrash(d) \/ GraphCheckpoints(d)
             \/ CancelledRunStops(d) \/ BeginDrain(d) \/ DrainStraggler(d)
      PROVE  UNCHANGED api
  BY <1>3 DEF Deliver, SkipDelivery, RequestAnswered, RequestFails,
     RequestTimesOut, ConsumerSaves, ConsumerDlq, ConsumerCrash, ConsOnly,
     GraphCheckpoints, CancelledRunStops, BeginDrain, DrainStraggler
<1>4. ASSUME NEW d \in Delivery, SendRequest(d)
      PROVE  api'[f] \in Claimed
  BY <1>4, <1>a DEF SendRequest, ConsAt, OneRequestEach
<1>5. ASSUME NEW d \in Delivery,
             \/ LoadCase(d) \/ LoadStatus(d) \/ ServiceGateSkips(d)
             \/ GetState(d) \/ AwaitRunInFlight(d) \/ CreateClaim(d)
             \/ ReadClaim(d) \/ JudgeAbandoned(d) \/ JudgeFinished(d)
      PROVE  api'[f] \in Claimed
  BY <1>5, <1>a DEF LoadCase, LoadStatus, ServiceGateSkips, GetState,
     AwaitRunInFlight, CreateClaim, ReadClaim, JudgeAbandoned, JudgeFinished,
     Moves, ApiAt, ApiGoto
<1>6. ASSUME NEW d \in Delivery,
             \/ FillClaim(d) \/ TakeOverClaim(d) \/ StartRun(d)
             \/ BudgetExpires(d) \/ LateResultGuard(d) \/ SaveVerdict(d)
             \/ ApiDlq(d) \/ GraphEnds(d) \/ ClaimFailsOpen(d) \/ SaveFails(d)
             \/ RequestRaises(d)
      PROVE  api'[f] \in Claimed
  BY <1>6, <1>a DEF FillClaim, TakeOverClaim, StartRun, BudgetExpires,
     LateResultGuard, SaveVerdict, ApiDlq, GraphEnds, ClaimFailsOpen, SaveFails,
     RequestRaises, Moves, ApiAt, ApiGoto
<1>7. ASSUME NEW d \in Delivery, ProcessExits(d) \/ ApiCrash(d)
      PROVE  api'[f] \in Claimed
  BY <1>7, <1>a DEF ProcessExits, ApiCrash, KillRequest
<1> QED
  BY <1>1, <1>2, <1>3, <1>4, <1>5, <1>6, <1>7, NextCases

LEMMA ClaimHeldStep ==
    ASSUME TypeOK, OneRequestEach, ClaimHeld, [Next]_vars
    PROVE  ClaimHeld'
<1> SUFFICES ASSUME claimErrors' = 0
             PROVE  /\ AtomicCreate => claim' # "empty"
                    /\ claim' # "absent" => \E f \in Delivery : api'[f] \in Claimed
                    /\ \A d \in Delivery :
                          Active(d)' \/ ReadsClaim(d)' => claim' # "absent"
  BY DEF ClaimHeld
<1>a. api \in [Delivery -> ApiPc] /\ graph \in [Delivery -> BOOLEAN]
  BY DEF TypeOK
<1>b. claimErrors = 0
  BY FaultsStay
<1>c. /\ AtomicCreate => claim # "empty"
      /\ claim # "absent" => \E f \in Delivery : api[f] \in Claimed
      /\ \A d \in Delivery : Active(d) \/ ReadsClaim(d) => claim # "absent"
  BY <1>b DEF ClaimHeld
<1> DEFINE NoneNew == \A e \in Delivery : Active(e)' \/ ReadsClaim(e)'
                                             => Active(e) \/ ReadsClaim(e)
<1> USE DEF claimVars, consVars
<1>d. SUFFICES ASSUME ~(claim' = claim /\ NoneNew)
               PROVE  /\ claim' # "absent"
                      /\ AtomicCreate => claim' # "empty"
                      /\ \E f \in Delivery : api'[f] \in Claimed
  <2>1. CASE claim' = claim /\ NoneNew
    BY <1>c, <2>1, ClaimedStays
  <2> QED
    BY <2>1
<1>1. CASE UNCHANGED vars
  BY <1>1, <1>d DEF vars, Active, ReadsClaim
<1>2. CASE Tick
  BY <1>2, <1>d DEF Tick, Active, ReadsClaim
<1>3. ASSUME NEW d \in Delivery,
             \/ Deliver(d) \/ SkipDelivery(d) \/ RequestAnswered(d)
             \/ RequestFails(d) \/ RequestTimesOut(d) \/ ConsumerSaves(d)
             \/ ConsumerDlq(d) \/ ConsumerCrash(d) \/ BeginDrain(d)
             \/ DrainStraggler(d) \/ GraphCheckpoints(d)
      PROVE  FALSE
  <2>1. UNCHANGED <<claim, api, graph>>
    BY <1>3 DEF Deliver, SkipDelivery, RequestAnswered, RequestFails,
       RequestTimesOut, ConsumerSaves, ConsumerDlq, ConsumerCrash, ConsOnly,
       BeginDrain, DrainStraggler, GraphCheckpoints
  <2> QED
    BY <2>1, <1>d DEF Active, ReadsClaim
<1>4. ASSUME NEW d \in Delivery,
             \/ SendRequest(d) \/ LoadCase(d) \/ LoadStatus(d)
             \/ ServiceGateSkips(d) \/ GetState(d) \/ AwaitRunInFlight(d)
             \/ ReadClaim(d) \/ JudgeAbandoned(d) \/ JudgeFinished(d)
             \/ BudgetExpires(d) \/ LateResultGuard(d) \/ SaveVerdict(d)
             \/ ApiDlq(d) \/ SaveFails(d) \/ RequestRaises(d)
      PROVE  FALSE
  <2>1. UNCHANGED <<claim, graph>>
    BY <1>4 DEF SendRequest, LoadCase, LoadStatus, ServiceGateSkips, GetState,
       AwaitRunInFlight, ReadClaim, JudgeAbandoned, JudgeFinished,
       BudgetExpires, LateResultGuard, SaveVerdict, ApiDlq, SaveFails,
       RequestRaises, Moves, ClaimOnly
  <2>2. \A e \in Delivery :
           /\ api'[e] = "stub" => api[e] = "stub"
           /\ ReadsClaim(e)' => ReadsClaim(e)
    BY <1>4, <1>a DEF SendRequest, LoadCase, LoadStatus, ServiceGateSkips,
       GetState, AwaitRunInFlight, ReadClaim, JudgeAbandoned, JudgeFinished,
       BudgetExpires, LateResultGuard, SaveVerdict, ApiDlq, SaveFails,
       RequestRaises, Moves, ApiAt, ApiGoto, ReadsClaim
  <2> QED
    BY <2>1, <2>2, <1>d DEF Active
<1>5. ASSUME NEW d \in Delivery, CreateClaim(d)
      PROVE  /\ claim' # "absent"
             /\ AtomicCreate => claim' # "empty"
             /\ \E f \in Delivery : api'[f] \in Claimed
  <2>1. CASE claim = "absent"
    BY <1>5, <1>a, <2>1 DEF CreateClaim, ApiGoto, Claimed
  <2>2. CASE claim # "absent"
    BY <1>5, <1>c, <2>2, ClaimedStays DEF CreateClaim
  <2> QED
    BY <2>1, <2>2
<1>6. ASSUME NEW d \in Delivery, FillClaim(d) \/ TakeOverClaim(d)
      PROVE  /\ claim' = "full"
             /\ \E f \in Delivery : api'[f] \in Claimed
  BY <1>6, <1>a DEF FillClaim, TakeOverClaim, WriteClaim, ApiGoto, Claimed
<1>7. ASSUME NEW d \in Delivery, StartRun(d)
      PROVE  FALSE
  BY <1>7, <1>a, <1>d DEF StartRun, ApiAt, ApiGoto, Active, ReadsClaim
<1>8. ASSUME NEW d \in Delivery, ClaimFailsOpen(d)
      PROVE  FALSE
  BY <1>8, <1>b DEF ClaimFailsOpen
<1>9. ASSUME NEW d \in Delivery,
             \/ GraphEnds(d) \/ CancelledRunStops(d) \/ ProcessExits(d)
             \/ ApiCrash(d)
      PROVE  FALSE
  <2>1. UNCHANGED claim
    BY <1>9 DEF GraphEnds, CancelledRunStops, ProcessExits, ApiCrash, KillRequest
  <2>2. \A e \in Delivery :
           /\ graph'[e] => graph[e]
           /\ api'[e] = "stub" => api[e] = "stub"
           /\ ReadsClaim(e)' => ReadsClaim(e)
    BY <1>9, <1>a DEF GraphEnds, CancelledRunStops, ProcessExits, ApiCrash,
       KillRequest, ApiGoto, ReadsClaim
  <2> QED
    BY <2>1, <2>2, <1>d DEF Active
<1> QED
  BY <1>1, <1>2, <1>3, <1>4, <1>5, <1>6, <1>7, <1>8, <1>9, NextCases

(* With two deliveries: a request about to take over leaves room for       *)
(* neither a second one nor an active one, since the claim it found was    *)
(* made by a request that is past it.                                      *)
LEMMA OneActiveStep ==
    ASSUME TypeOK, NoAbandonment, ClaimOfLiveRun, OneRequestEach, ClaimHeld,
           OneActive, [Next]_vars,
           AtomicCreate, Budget <= ClaimTtl,
           \A a, b, c \in Delivery : a = b \/ b = c \/ a = c
    PROVE  OneActive'
<1> SUFFICES ASSUME claimErrors' = 0, shutdowns' = 0
             PROVE  \A d, e \in Delivery :
                       d # e /\ Active(d)' => ~Active(e)' /\ ~TakesOver(e)'
  BY DEF OneActive
<1>a. /\ api \in [Delivery -> ApiPc] /\ graph \in [Delivery -> BOOLEAN]
      /\ seen \in [Delivery -> Seen] /\ claimAge \in Nat
      /\ Budget \in Nat /\ ClaimTtl \in Nat
  BY LaneAssumption DEF TypeOK
<1>b. claimErrors = 0 /\ shutdowns = 0
  BY FaultsStay
<1>c. \A d, e \in Delivery : d # e /\ Active(d) => ~Active(e) /\ ~TakesOver(e)
  BY <1>b DEF OneActive
<1>d. /\ claim # "empty"
      /\ claim # "absent" => \E f \in Delivery : api[f] \in Claimed
      /\ \A d \in Delivery : Active(d) \/ ReadsClaim(d) => claim # "absent"
  BY <1>b DEF ClaimHeld
<1> DEFINE NoneNew == \A e \in Delivery : /\ Active(e)' => Active(e)
                                          /\ TakesOver(e)' => TakesOver(e)
<1>e. ASSUME NoneNew
      PROVE  \A d, e \in Delivery :
                d # e /\ Active(d)' => ~Active(e)' /\ ~TakesOver(e)'
  BY <1>c, <1>e
<1> USE DEF claimVars, consVars
<1>1. CASE UNCHANGED vars
  BY <1>1, <1>e DEF vars, Active, TakesOver
<1>2. CASE Tick
  BY <1>2, <1>e DEF Tick, Active, TakesOver
<1>3. ASSUME NEW d \in Delivery,
             \/ Deliver(d) \/ SkipDelivery(d) \/ RequestAnswered(d)
             \/ RequestFails(d) \/ RequestTimesOut(d) \/ ConsumerSaves(d)
             \/ ConsumerDlq(d) \/ ConsumerCrash(d) \/ BeginDrain(d)
             \/ GraphCheckpoints(d)
      PROVE  NoneNew
  <2>1. UNCHANGED <<api, graph, seen>>
    BY <1>3 DEF Deliver, SkipDelivery, RequestAnswered, RequestFails,
       RequestTimesOut, ConsumerSaves, ConsumerDlq, ConsumerCrash, ConsOnly,
       BeginDrain, GraphCheckpoints
  <2> QED
    BY <2>1 DEF Active, TakesOver
<1>4. ASSUME NEW d \in Delivery, DrainStraggler(d)
      PROVE  NoneNew
  BY <1>4, <1>b DEF NoAbandonment, DrainStraggler
<1>5. ASSUME NEW d \in Delivery,
             \/ SendRequest(d) \/ LoadCase(d) \/ LoadStatus(d)
             \/ ServiceGateSkips(d) \/ GetState(d) \/ AwaitRunInFlight(d)
             \/ BudgetExpires(d) \/ LateResultGuard(d) \/ SaveVerdict(d)
             \/ ApiDlq(d) \/ SaveFails(d) \/ RequestRaises(d)
             \/ GraphEnds(d) \/ CancelledRunStops(d) \/ ProcessExits(d)
             \/ ApiCrash(d)
      PROVE  NoneNew
  <2>1. \A e \in Delivery : graph'[e] => graph[e]
    BY <1>5, <1>a DEF SendRequest, LoadCase, LoadStatus, ServiceGateSkips, GetState,
       AwaitRunInFlight, BudgetExpires, LateResultGuard, SaveVerdict, ApiDlq,
       SaveFails, RequestRaises, Moves, GraphEnds, CancelledRunStops,
       ProcessExits, ApiCrash, KillRequest
  <2>2. \A e \in Delivery :
           api'[e] \in {"stub", "takeOver", "judgeAbandoned", "judgeFinished"}
              => api'[e] = api[e]
    BY <1>5, <1>a DEF SendRequest, LoadCase, LoadStatus, ServiceGateSkips,
       GetState, AwaitRunInFlight, BudgetExpires, LateResultGuard, SaveVerdict,
       ApiDlq, SaveFails, RequestRaises, Moves, ApiGoto, GraphEnds,
       CancelledRunStops, ProcessExits, ApiCrash, KillRequest
  <2>3. \A e \in Delivery : seen'[e].old = seen[e].old
    BY <1>5, <1>a DEF SendRequest, LoadCase, LoadStatus, ServiceGateSkips,
       GetState, AwaitRunInFlight, BudgetExpires, LateResultGuard, SaveVerdict,
       ApiDlq, SaveFails, RequestRaises, Moves, GraphEnds, CancelledRunStops,
       ProcessExits, ApiCrash, KillRequest, Remember, Seen
  <2> QED
    BY <2>1, <2>2, <2>3 DEF Active, TakesOver
<1>6. ASSUME NEW d \in Delivery, JudgeAbandoned(d) \/ JudgeFinished(d)
      PROVE  NoneNew
  <2>1. UNCHANGED <<graph, seen>>
    BY <1>6 DEF JudgeAbandoned, JudgeFinished, Moves
  <2>2. casebook \notin Redeliverable
    BY <1>b DEF NoAbandonment, Redeliverable
  <2>3. \A e \in Delivery :
           /\ api'[e] = "stub" => api[e] = "stub"
           /\ TakesOver(e)' => TakesOver(e)
    BY <1>6, <1>a, <2>1, <2>2 DEF JudgeAbandoned, JudgeFinished, Moves, ApiAt,
       ApiGoto, TakesOver
  <2> QED
    BY <2>1, <2>3 DEF Active
<1>7. ASSUME NEW d \in Delivery, StartRun(d)
      PROVE  NoneNew
  BY <1>7, <1>a DEF StartRun, ApiAt, ApiGoto, Active, TakesOver
<1>8. ASSUME NEW d \in Delivery, FillClaim(d) \/ ClaimFailsOpen(d)
      PROVE  FALSE
  BY <1>8, <1>b DEF FillClaim, ClaimFailsOpen, OneRequestEach, ApiAt
<1>9. ASSUME NEW d \in Delivery, ReadClaim(d)
      PROVE  \A a, b \in Delivery :
                a # b /\ Active(a)' => ~Active(b)' /\ ~TakesOver(b)'
  <2>1. UNCHANGED graph
    BY <1>9 DEF ReadClaim, ClaimOnly
  <2>2. \A e \in Delivery : /\ api'[e] = "stub" => api[e] = "stub"
                            /\ e # d /\ TakesOver(e)' => TakesOver(e)
                            /\ Active(e)' => Active(e)
    BY <1>9, <1>a, <2>1 DEF ReadClaim, ApiGoto, TakesOver, Active
  <2>3. TakesOver(d)' => claimAge > ClaimTtl
    BY <1>9, <1>a, <1>d DEF ReadClaim, ApiGoto, TakesOver, Seen
  <2>4. claimAge > ClaimTtl => \A e \in Delivery : ~Active(e)
    BY <1>a, <1>b DEF ClaimOfLiveRun, Active
  <2> QED
    BY <1>c, <2>2, <2>3, <2>4
<1>10. ASSUME NEW d \in Delivery, CreateClaim(d)
       PROVE  \A a, b \in Delivery :
                 a # b /\ Active(a)' => ~Active(b)' /\ ~TakesOver(b)'
  <2>0. UNCHANGED graph /\ \A e \in Delivery : seen'[e].old = seen[e].old
    BY <1>10, <1>a DEF CreateClaim, ClaimOnly, Remember, Seen
  <2>1. CASE claim = "absent"
    <3>1. \A e \in Delivery : ~Active(e) /\ ~ReadsClaim(e)
      BY <1>d, <2>1
    <3>2. \A e \in Delivery : e # d => ~Active(e)' /\ ~TakesOver(e)'
      BY <1>10, <1>a, <2>0, <3>1 DEF CreateClaim, ApiGoto, Active, ReadsClaim,
         TakesOver
    <3>3. ~TakesOver(d)'
      BY <1>10, <1>a, <2>1 DEF CreateClaim, ApiGoto, TakesOver
    <3> QED
      BY <3>2, <3>3
  <2>2. CASE claim # "absent"
    <3>1. \A e \in Delivery :
             api'[e] \in {"stub", "takeOver", "judgeAbandoned", "judgeFinished"}
                => api'[e] = api[e]
      BY <1>10, <1>a, <2>2 DEF CreateClaim, ApiGoto
    <3>2. NoneNew
      BY <2>0, <3>1 DEF Active, TakesOver
    <3> QED
      BY <3>2, <1>e
  <2> QED
    BY <2>1, <2>2
<1>11. ASSUME NEW d \in Delivery, TakeOverClaim(d)
       PROVE  \A a, b \in Delivery :
                 a # b /\ Active(a)' => ~Active(b)' /\ ~TakesOver(b)'
  <2>1. api[d] = "takeOver" /\ UNCHANGED <<graph, seen>>
    BY <1>11 DEF TakeOverClaim, ApiAt, ClaimOnly
  <2>2. PICK f \in Delivery : api[f] \in Claimed
    BY <1>d, <2>1 DEF ReadsClaim
  <2>3. \A e \in Delivery : e # d => e = f
    BY <2>1, <2>2 DEF Claimed
  <2>4. \A e \in Delivery : e # d => ~TakesOver(e)
    BY <2>2, <2>3 DEF TakesOver, Claimed
  <2>5. \A e \in Delivery : e # d => ~Active(e)
    BY <1>c, <2>1 DEF TakesOver
  <2>6. \A e \in Delivery : e # d => ~Active(e)' /\ ~TakesOver(e)'
    BY <1>11, <1>a, <2>1, <2>4, <2>5 DEF TakeOverClaim, ApiGoto, Active, TakesOver
  <2>7. ~TakesOver(d)'
    BY <1>11, <1>a DEF TakeOverClaim, ApiGoto, TakesOver
  <2> QED
    BY <2>6, <2>7
<1> QED
  BY <1>1, <1>2, <1>3, <1>4, <1>5, <1>6, <1>7, <1>8, <1>9, <1>10, <1>11, <1>e,
     NextCases

LEMMA ClaimHeldInvariant == Spec => [](OneRequestEach /\ ClaimHeld)
<1>1. Init => OneRequestEach /\ ClaimHeld
  BY DEF Init, OneRequestEach, ClaimHeld, Active, ReadsClaim
<1>2. TypeOK /\ OneRequestEach /\ ClaimHeld /\ [Next]_vars
         => (OneRequestEach /\ ClaimHeld)'
  BY OneRequestStep, ClaimHeldStep
<1> QED
  BY <1>1, <1>2, TypeCorrect, PTL DEF Spec

\* Of two overlapping deliveries of a packet at most one has its agent run
\* executing, whatever crashes, timeouts and takeovers, as long as the claim
\* store answers, creates atomically and no process is drained, and a claim
\* outlives the run budget.  (With a third delivery two could take over a dead
\* run's claim at once; a drained run is not stopped.)
THEOREM InvestigatedOnce ==
    ASSUME AtomicCreate, Budget <= ClaimTtl,
           \A a, b, c \in Delivery : a = b \/ b = c \/ a = c
    PROVE  Spec => [](shutdowns = 0 => OneInvestigation)
<1>1. Init => OneActive
  BY DEF Init, OneActive, Active
<1>2. /\ TypeOK /\ NoAbandonment /\ ClaimOfLiveRun /\ OneRequestEach /\ ClaimHeld
      /\ OneActive /\ [Next]_vars
      => OneActive'
  BY OneActiveStep
<1>3. OneActive => (shutdowns = 0 => OneInvestigation)
  BY DEF OneActive, OneInvestigation, Active
<1> QED
  BY <1>1, <1>2, <1>3, TypeCorrect, NoAbandonmentInvariant,
     ClaimOfLiveRunInvariant, ClaimHeldInvariant, PTL DEF Spec

============================================================================
