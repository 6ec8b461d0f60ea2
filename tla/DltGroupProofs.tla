--------------------------- MODULE DltGroupProofs ---------------------------
(***************************************************************************)
(* TLAPS proofs about the single-flight gate and the burst that passes it, *)
(* for any finite set of requests and any number of store failures.        *)
(***************************************************************************)
EXTENDS DltGroup, FiniteSetTheorems, TLAPS

(* The requests whose block refers to entry e. *)
Users(e) == {r \in Request : entry[r] = e}

(* What makes the gate a mutex: everybody inside uses the entry the table  *)
(* holds, and the reference count says when nobody does.                   *)
GateInv ==
    /\ GateTypeOK
    /\ \A r \in Request : entry[r] = NoEntry <=> flight[r] = "none"
    /\ \A r \in Request : entry[r] # NoEntry => entry[r] = entries
    /\ \A e \in Request : refs[e] = Cardinality(Users(e))
    /\ \A r \in Request : flight[r] = "acquired" => locked[entry[r]]
    /\ OneLeader
    /\ GateReleased

LEMMA UsersFinite ==
    ASSUME NEW e
    PROVE  IsFiniteSet(Users(e))
BY RequestAssumption, FS_Subset DEF Users

(* The gate starts empty. *)
LEMMA GateInitInv == GateInit => GateInv
<1> SUFFICES ASSUME GateInit PROVE GateInv
  OBVIOUS
<1>1. \A e \in Request : Users(e) = {}
  BY RequestAssumption DEF GateInit, Users
<1>2. \A e \in Request : refs[e] = Cardinality(Users(e))
  BY <1>1, FS_EmptySet DEF GateInit
<1> QED
  BY <1>2, RequestAssumption
  DEF GateInit, GateInv, GateTypeOK, OneLeader, GateReleased

(* A request that enters is counted, in a new entry or the one in use. *)
LEMMA EnterInv ==
    ASSUME GateInv, NEW r \in Request, Enter(r)
    PROVE  GateInv'
<1> USE RequestAssumption DEF GateInv, GateTypeOK
<1>1. entry[r] = NoEntry
  BY DEF Enter
<1>2. CASE entries = NoEntry
  <2>1. /\ entries' = r
        /\ refs' = [refs EXCEPT ![r] = 1]
        /\ locked' = [locked EXCEPT ![r] = FALSE]
        /\ entry' = [entry EXCEPT ![r] = r]
        /\ flight' = [flight EXCEPT ![r] = "waiting"]
    BY <1>2 DEF Enter
  <2>2. \A q \in Request : entry[q] = NoEntry /\ flight[q] = "none"
    BY <1>2
  <2>3. \A e \in Request : Users(e)' = IF e = r THEN {r} ELSE {}
    BY <2>1, <2>2 DEF Users
  <2>4. \A e \in Request : Users(e) = {}
    BY <2>2 DEF Users
  <2>5. \A e \in Request : refs'[e] = Cardinality(Users(e)')
    <3> SUFFICES ASSUME NEW e \in Request
                 PROVE  refs'[e] = Cardinality(Users(e)')
      OBVIOUS
    <3>1. CASE e = r
      BY <3>1, <2>1, <2>3, FS_Singleton
    <3>2. CASE e # r
      <4>1. refs'[e] = refs[e]
        BY <3>2, <2>1
      <4>2. refs[e] = Cardinality({})
        BY <2>4
      <4> QED
        BY <4>1, <4>2, <3>2, <2>3
    <3> QED
      BY <3>1, <3>2
  <2>6. GateTypeOK'
    BY <2>1
  <2> QED
    BY <2>1, <2>2, <2>5, <2>6 DEF OneLeader, GateReleased
<1>3. CASE entries # NoEntry
  <2>1. /\ entries' = entries /\ locked' = locked
        /\ refs' = [refs EXCEPT ![entries] = @ + 1]
        /\ entry' = [entry EXCEPT ![r] = entries]
        /\ flight' = [flight EXCEPT ![r] = "waiting"]
        /\ flight[r] = "none"
    BY <1>3 DEF Enter
  <2>2. entries \in Request
    BY <1>3
  <2>3. \A e \in Request :
           Users(e)' = IF e = entries THEN Users(e) \cup {r} ELSE Users(e)
    BY <1>1, <2>1, <2>2 DEF Users
  <2>4. r \notin Users(entries)
    BY <1>1, <1>3 DEF Users
  <2>5. Cardinality(Users(entries) \cup {r}) = Cardinality(Users(entries)) + 1
    BY <2>4, UsersFinite, FS_AddElement
  <2>6. \A e \in Request : refs'[e] = Cardinality(Users(e)')
    BY <2>1, <2>2, <2>3, <2>5
  <2>7. GateTypeOK'
    BY <2>1, <2>2
  <2>8. OneLeader'
    BY <2>1 DEF OneLeader
  <2>9. GateReleased'
    BY <2>1, <1>1 DEF GateReleased
  <2> QED
    BY <2>1, <2>2, <2>6, <2>7, <2>8, <2>9
<1> QED
  BY <1>2, <1>3

(* A free lock goes to one request: whoever held it would have it locked. *)
LEMMA AcquireInv ==
    ASSUME GateInv, NEW r \in Request, Acquire(r)
    PROVE  GateInv'
<1> USE RequestAssumption DEF GateInv, GateTypeOK
<1>1. /\ flight[r] = "waiting" /\ ~locked[entry[r]]
      /\ locked' = [locked EXCEPT ![entry[r]] = TRUE]
      /\ flight' = [flight EXCEPT ![r] = "acquired"]
      /\ entries' = entries /\ refs' = refs /\ entry' = entry
  BY DEF Acquire
<1>2. entry[r] = entries /\ entries \in Request
  BY <1>1
<1>3. \A q \in Request : flight[q] # "acquired"
  BY <1>1, <1>2
<1>4. OneLeader'
  BY <1>1, <1>3 DEF OneLeader
<1>5. GateReleased'
  BY <1>1, <1>2 DEF GateReleased
<1>6. \A e \in Request : Users(e)' = Users(e)
  BY <1>1 DEF Users
<1> QED
  BY <1>1, <1>2, <1>4, <1>5, <1>6

(* Giving up changes nobody else's standing. *)
LEMMA GiveUpInv ==
    ASSUME GateInv, NEW r \in Request, GiveUp(r)
    PROVE  GateInv'
<1> USE RequestAssumption DEF GateInv, GateTypeOK
<1>1. /\ flight[r] = "waiting"
      /\ flight' = [flight EXCEPT ![r] = "timeout"]
      /\ entries' = entries /\ refs' = refs /\ entry' = entry
      /\ locked' = locked
  BY DEF GiveUp
<1>2. OneLeader'
  BY <1>1 DEF OneLeader
<1>3. GateReleased'
  BY <1>1 DEF GateReleased
<1>4. \A e \in Request : Users(e)' = Users(e)
  BY <1>1 DEF Users
<1> QED
  BY <1>1, <1>2, <1>3, <1>4

(* The entry goes with its last user, and only then. *)
LEMMA LeaveGateInv ==
    ASSUME GateInv, NEW r \in Request, LeaveGate(r)
    PROVE  GateInv'
<1> USE RequestAssumption DEF GateInv, GateTypeOK
<1> DEFINE e0 == entry[r]
<1>1. /\ flight[r] \in {"acquired", "timeout"}
      /\ flight' = [flight EXCEPT ![r] = "none"]
      /\ entry' = [entry EXCEPT ![r] = NoEntry]
      /\ locked' = IF flight[r] = "acquired"
                     THEN [locked EXCEPT ![e0] = FALSE] ELSE locked
      /\ refs' = [refs EXCEPT ![e0] = @ - 1]
      /\ entries' = IF refs'[e0] <= 0 /\ entries = e0
                      THEN NoEntry ELSE entries
  BY DEF LeaveGate
<1>2. e0 = entries /\ e0 \in Request
  BY <1>1
<1>3. r \in Users(e0)
  BY DEF Users
<1>4. \A e \in Request :
         Users(e)' = IF e = e0 THEN Users(e) \ {r} ELSE Users(e)
  BY <1>1, <1>2 DEF Users
<1>5. Cardinality(Users(e0) \ {r}) = Cardinality(Users(e0)) - 1
  BY <1>3, UsersFinite, FS_RemoveElement
<1>6. \A e \in Request : refs'[e] = Cardinality(Users(e)')
  BY <1>1, <1>2, <1>4, <1>5
<1>7. Cardinality(Users(e0)) \in Nat /\ Cardinality(Users(e0)) # 0
  BY <1>3, UsersFinite, FS_CardinalityType, FS_EmptySet
<1>8. IsFiniteSet(Users(e0) \ {r})
  BY UsersFinite, FS_RemoveElement
<1>9. refs'[e0] = Cardinality(Users(e0) \ {r}) /\ refs'[e0] \in Nat
  <2>1. refs'[e0] = refs[e0] - 1
    BY <1>1, <1>2
  <2>2. refs[e0] = Cardinality(Users(e0))
    BY <1>2
  <2> QED
    BY <2>1, <2>2, <1>5, <1>7
<1>10. refs'[e0] <= 0 <=> Users(e0) \ {r} = {}
  BY <1>8, <1>9, FS_EmptySet
<1>11. GateTypeOK'
  BY <1>1, <1>2, <1>9
<1>12. \A q \in Request : q # r /\ entry[q] # NoEntry => entries' = entries
  BY <1>1, <1>2, <1>10 DEF Users
<1>13. OneLeader'
  BY <1>1 DEF OneLeader
<1>14. \A q \in Request : flight'[q] = "acquired" => locked'[entry'[q]]
  BY <1>1, <1>2 DEF OneLeader
<1>15. GateReleased'
  <2> SUFFICES ASSUME entries' # NoEntry
               PROVE  /\ \E q \in Request : entry'[q] = entries'
                      /\ locked'[entries'] => \E q \in Request :
                            flight'[q] = "acquired" /\ entry'[q] = entries'
    BY DEF GateReleased
  <2>1. entries' = e0 /\ Users(e0) \ {r} # {}
    BY <1>1, <1>2, <1>10
  <2>2. PICK q \in Request : q # r /\ entry[q] = e0
    BY <2>1 DEF Users
  <2>3. entry'[q] = entries'
    BY <2>1, <2>2, <1>1
  <2>4. ASSUME locked'[entries']
        PROVE  \E p \in Request : flight'[p] = "acquired" /\ entry'[p] = entries'
    <3>1. flight[r] # "acquired" /\ locked[e0]
      BY <2>1, <2>4, <1>1, <1>2
    <3>2. PICK p \in Request : flight[p] = "acquired" /\ entry[p] = e0
      BY <3>1, <1>2 DEF GateReleased
    <3>3. flight'[p] = "acquired" /\ entry'[p] = entries'
      BY <3>1, <3>2, <2>1, <1>1
    <3> QED
      BY <3>3
  <2> QED
    BY <2>3, <2>4
<1>16. \A q \in Request : entry'[q] = NoEntry <=> flight'[q] = "none"
  BY <1>1
<1>17. \A q \in Request : entry'[q] # NoEntry => entry'[q] = entries'
  BY <1>1, <1>12
<1> QED
  BY <1>6, <1>11, <1>13, <1>14, <1>15, <1>16, <1>17

(* A step that leaves the gate alone. *)
LEMMA GateStutter ==
    ASSUME GateInv, UNCHANGED gateVars
    PROVE  GateInv'
BY DEF GateInv, gateVars, GateTypeOK, OneLeader, GateReleased, Users

(* Whatever its users do in the block, the gate has one leader at a time.  *)
THEOREM GateIsMutex == GateSpec => [](OneLeader /\ GateReleased)
<1>1. GateInit => GateInv
  BY GateInitInv
<1>2. GateInv /\ [GateNext]_gateVars => GateInv'
  BY EnterInv, AcquireInv, GiveUpInv, LeaveGateInv, GateStutter DEF GateNext
<1>3. GateInv => OneLeader /\ GateReleased
  BY DEF GateInv
<1> QED
  BY <1>1, <1>2, <1>3, PTL DEF GateSpec

----------------------------------------------------------------------------
(* The burst uses the gate as SingleFlight describes it. *)

(* The whole next-state relation, one disjunct per action. *)
LEMMA NextCases ==
    ASSUME Next
    PROVE  \/ CacheExpires
           \/ \E r \in Request :
                 \/ CreateOccurrence(r) \/ SaveMeta(r) \/ RecordRaises(r)
                 \/ CacheHit(r) \/ CacheMiss(r) \/ ReadGroup(r) \/ CachePut(r)
                 \/ LoadRaises(r) \/ SkipCheck(r) \/ AttachCodeCheck(r)
                 \/ EnterGate(r) \/ GetGate(r) \/ GateTimeout(r)
                 \/ SpendBudget(r) \/ Serve(r) \/ RunEnds(r) \/ RunTimesOut(r)
                 \/ SaveRecommendation(r) \/ SaveRaises(r) \/ Invalidate(r)
                 \/ LeaveBlock(r)
BY DEF Next, Step

LEMMA GateStep ==
    ASSUME [Next]_vars
    PROVE  [GateNext]_gateVars
<1>1. CASE UNCHANGED vars
  BY <1>1 DEF vars
<1>2. CASE CacheExpires
  BY <1>2 DEF CacheExpires
<1>3. ASSUME NEW r \in Request,
             \/ EnterGate(r) \/ GetGate(r) \/ GateTimeout(r) \/ LeaveBlock(r)
      PROVE  [GateNext]_gateVars
  BY <1>3 DEF EnterGate, GetGate, GateTimeout, LeaveBlock, GateNext
<1>4. ASSUME NEW r \in Request,
             \/ CreateOccurrence(r) \/ SaveMeta(r) \/ RecordRaises(r)
             \/ CacheHit(r) \/ CacheMiss(r) \/ ReadGroup(r) \/ CachePut(r)
             \/ LoadRaises(r) \/ SkipCheck(r) \/ AttachCodeCheck(r)
      PROVE  UNCHANGED gateVars
  BY <1>4 DEF CreateOccurrence, SaveMeta, RecordRaises, CacheHit, CacheMiss,
              ReadGroup, CachePut, LoadRaises, SkipCheck, AttachCodeCheck
<1>5. ASSUME NEW r \in Request,
             \/ SpendBudget(r) \/ Serve(r) \/ RunEnds(r) \/ RunTimesOut(r)
             \/ SaveRecommendation(r) \/ SaveRaises(r) \/ Invalidate(r)
      PROVE  UNCHANGED gateVars
  BY <1>5 DEF SpendBudget, Serve, RunEnds, RunTimesOut, RunOver,
              SaveRecommendation, SaveRaises, Invalidate
<1> QED
  BY <1>1, <1>2, <1>3, <1>4, <1>5, NextCases

LEMMA GateInvariant == Spec => []GateInv
<1>1. Init => GateInv
  BY GateInitInv DEF Init
<1>2. GateInv /\ [Next]_vars => GateInv'
  BY GateStep, EnterInv, AcquireInv, GiveUpInv, LeaveGateInv, GateStutter
  DEF GateNext
<1> QED
  BY <1>1, <1>2, PTL DEF Spec

(* In any burst, whatever fails and whoever gives up, at most one request  *)
(* investigates under the gate.                                            *)
THEOREM BurstHasOneLeader == Spec => []OneLeader
<1>1. GateInv => OneLeader
  BY DEF GateInv
<1> QED
  BY <1>1, GateInvariant, PTL

(* The gate's table is empty, and its lock free, once nobody uses them. *)
THEOREM BurstReleasesGate == Spec => []GateReleased
<1>1. GateInv => GateReleased
  BY DEF GateInv
<1> QED
  BY <1>1, GateInvariant, PTL

----------------------------------------------------------------------------
(* Type correctness of the burst. *)

LEMMA ReturnsType ==
    ASSUME TypeOK, NEW r \in Request, NEW g \in Group, Returns(r, g)
    PROVE  (pc' \in [Request -> Label] /\ ret' \in [Request -> Call]
            /\ group' \in [Request -> View] /\ decision' \in [Request -> Choice]
            /\ counted' \subseteq Request)
<1> USE DEF TypeOK, Label, Choice, Call, Goto
<1>1. See(r, g) \in View /\ Newer(r, g) \in View
  BY DEF See, Newer, Group, View
<1>2. \A v : Decide(r, v) \in Choice
  BY DEF Decide, Kind
<1>3. \A d : Treatment(d) \in Label
  BY DEF Treatment
<1>4. CASE ret[r] = "recorded" /\ g = NoGroup
  BY <1>4 DEF Returns, Load
<1>5. CASE ret[r] = "reread" \/ (ret[r] = "recorded" /\ g # NoGroup)
  BY <1>5, <1>1, <1>2 DEF Returns
<1>6. CASE ret[r] = "checked"
  BY <1>6, <1>1, <1>3 DEF Returns, AfterCheck
<1>7. CASE ret[r] = "fresh"
  BY <1>7, <1>1, <1>2, <1>3 DEF Returns
<1>8. CASE ret[r] = "attached"
  BY <1>8, <1>1 DEF Returns
<1> QED
  BY <1>4, <1>5, <1>6, <1>7, <1>8 DEF Returns

(* A cached entry is a group. *)
LEMMA CacheType ==
    ASSUME TypeOK, cache # <<>>
    PROVE  cache[1] \in Group
BY DEF TypeOK

LEMMA TypeStep ==
    ASSUME TypeOK, GateTypeOK', [Next]_vars
    PROVE  TypeOK'
<1> USE GroupAssumption DEF TypeOK, Goto, Load, Call, Label, Choice
<1>1. CASE UNCHANGED vars
  BY <1>1 DEF vars, storeVars, localVars, histVars
<1>2. CASE CacheExpires
  BY <1>2 DEF CacheExpires, storeVars, localVars, histVars
<1>3. ASSUME NEW r \in Request, CreateOccurrence(r) PROVE TypeOK'
  BY <1>3 DEF CreateOccurrence, localVars, histVars
<1>4. ASSUME NEW r \in Request, SaveMeta(r) PROVE TypeOK'
  BY <1>4 DEF SaveMeta, storeVars, localVars, histVars
<1>5. ASSUME NEW r \in Request, RecordRaises(r) PROVE TypeOK'
  BY <1>5 DEF RecordRaises, Fault, storeVars, histVars
<1>6. ASSUME NEW r \in Request, CacheHit(r) PROVE TypeOK'
  BY <1>6, CacheType, ReturnsType DEF CacheHit, storeVars, histVars
<1>7. ASSUME NEW r \in Request, CacheMiss(r) PROVE TypeOK'
  BY <1>7 DEF CacheMiss, storeVars, localVars, histVars
<1>8. ASSUME NEW r \in Request, ReadGroup(r) PROVE TypeOK'
  BY <1>8 DEF ReadGroup, storeVars, localVars, histVars, Group
<1>9. ASSUME NEW r \in Request, CachePut(r) PROVE TypeOK'
  <2>1. read[r] \in Group /\ NoGroup \in Group
    BY DEF Group, NoGroup
  <2>2. lost' \in Group
    BY <1>9, <2>1 DEF CachePut, Group
  <2> QED
    BY <1>9, <2>1, <2>2, ReturnsType DEF CachePut, storeVars
<1>10. ASSUME NEW r \in Request, LoadRaises(r) PROVE TypeOK'
  <2>1. NoGroup \in Group
    BY DEF Group, NoGroup
  <2> QED
    BY <1>10, <2>1, ReturnsType DEF LoadRaises, Fault, storeVars, histVars
<1>11. ASSUME NEW r \in Request, SkipCheck(r) PROVE TypeOK'
  BY <1>11 DEF SkipCheck, AfterCheck, Treatment, Fault, storeVars, histVars
<1>12. ASSUME NEW r \in Request, AttachCodeCheck(r) PROVE TypeOK'
  BY <1>12 DEF AttachCodeCheck, storeVars, localVars, histVars
<1>13. ASSUME NEW r \in Request, EnterGate(r) PROVE TypeOK'
  BY <1>13 DEF EnterGate, storeVars, localVars, histVars
<1>14. ASSUME NEW r \in Request, GetGate(r) PROVE TypeOK'
  BY <1>14 DEF GetGate, storeVars, localVars
<1>15. ASSUME NEW r \in Request, GateTimeout(r) PROVE TypeOK'
  BY <1>15 DEF GateTimeout, storeVars, localVars, histVars
<1>16. ASSUME NEW r \in Request, SpendBudget(r) PROVE TypeOK'
  BY <1>16 DEF SpendBudget, storeVars, localVars, histVars
<1>17. ASSUME NEW r \in Request, Serve(r) \/ RunEnds(r) \/ RunTimesOut(r)
       PROVE  TypeOK'
  BY <1>17 DEF Serve, RunEnds, RunTimesOut, RunOver, storeVars, localVars,
               histVars
<1>18. ASSUME NEW r \in Request, SaveRecommendation(r) PROVE TypeOK'
  BY <1>18 DEF SaveRecommendation, localVars, histVars
<1>19. ASSUME NEW r \in Request, SaveRaises(r) PROVE TypeOK'
  BY <1>19 DEF SaveRaises, Fault, storeVars, localVars, histVars
<1>20. ASSUME NEW r \in Request, Invalidate(r) PROVE TypeOK'
  BY <1>20 DEF Invalidate, storeVars, localVars
<1>21. ASSUME NEW r \in Request, LeaveBlock(r) PROVE TypeOK'
  <2>1. See(r, NoGroup) \in View
    BY DEF See, NoGroup, View
  <2>2. lost' \in Group
    BY <1>21 DEF LeaveBlock, Group
  <2> QED
    BY <1>21, <2>1, <2>2 DEF LeaveBlock, storeVars
<1> QED
  BY <1>1, <1>2, <1>3, <1>4, <1>5, <1>6, <1>7, <1>8, <1>9, <1>10, <1>11,
     <1>12, <1>13, <1>14, <1>15, <1>16, <1>17, <1>18, <1>19, <1>20, <1>21,
     NextCases

LEMMA InitType == Init => TypeOK
<1>1. NoGroup \in Group /\ \A r \in Request : See(r, NoGroup) \in View
  BY DEF NoGroup, Group, See, View
<1> SUFFICES ASSUME Init PROVE TypeOK
  OBVIOUS
<1>2. GateTypeOK
  BY GateInitInv DEF Init, GateInv
<1>3. group \in [Request -> View] /\ read \in [Request -> Group]
  BY <1>1 DEF Init
<1>4. /\ pc \in [Request -> Label] /\ ret \in [Request -> Call]
      /\ decision \in [Request -> Choice]
  BY DEF Init, Call, Label, Choice
<1>5. faults \in 0 .. MaxFaults
  BY GroupAssumption DEF Init
<1>6. lost \in Group
  BY <1>1 DEF Init
<1> QED
  BY <1>2, <1>3, <1>4, <1>5, <1>6 DEF Init, TypeOK

(* Every reachable state of any burst is well typed; in particular no      *)
(* entry's reference count goes below zero.                                *)
THEOREM TypeCorrect == Spec => []TypeOK
<1>1. Init => TypeOK
  BY InitType
<1>2. GateInv => GateTypeOK
  BY DEF GateInv
<1>3. TypeOK /\ GateTypeOK' /\ [Next]_vars => TypeOK'
  BY TypeStep
<1> QED
  BY <1>1, <1>2, <1>3, GateInvariant, PTL DEF Spec

----------------------------------------------------------------------------
(* What the invariants about the cache rest on. *)

(* r has a group it decided on, and keeps if a later load answers nothing. *)
Holds(r) ==
    \/ pc[r] \in {"check", "enter", "gate", "llm", "serve", "save",
                   "invalidate", "leave"}
    \/ ret[r] \in {"checked", "fresh", "attached"}

(* A counted case is in the store from its creation on, and, once its      *)
(* writer has invalidated, in whatever is cached, unless a late put lost   *)
(* it.                                                                     *)
OwnInv == \A r \in Request : r \in counted =>
    /\ pc[r] # "done"
    /\ pc[r] # "create" => r \in occurrences
    /\ pc[r] \notin {"create", "meta"} /\ cache # <<>>
          => r \in cache[1].members \/ r \in lost.members
    /\ pc[r] = "put" => r \in read[r].members
    /\ Holds(r) => group[r].own \/ r \in lost.members

(* After a recommendation has been invalidated, whatever is cached has it, *)
(* unless a late put lost it; a request that got the gate after that is on *)
(* its way to be served.                                                   *)
PublishedInv ==
    /\ published => recommendation
    /\ published /\ cache # <<>> => cache[1].rec \/ lost.rec
    /\ \A r \in Request :
          /\ pc[r] = "invalidate" => recommendation
          /\ decision[r] = "awaits" => kind[r] = "plain"
          /\ pc[r] \in {"enter", "gate"} => kind[r] = "plain"
          /\ r \in onFile => published /\ kind[r] = "plain"
          /\ r \in onFile => \/ lost.rec \/ faults > 0
                             \/ pc[r] \in {"serve", "leave"}
                             \/ pc[r] \in {"get", "read"} /\ ret[r] = "fresh"
                             \/ pc[r] = "put" /\ ret[r] = "fresh" /\ read[r].rec

(* A recommendation once read is on file; a request that decided to reuse  *)
(* it keeps it through the reload of attach_code_check, unless a late put  *)
(* lost it.                                                                *)
ReuseInv ==
    /\ cache # <<>> /\ cache[1].rec => recommendation
    /\ \A r \in Request :
          /\ read[r].rec \/ group[r].rec => recommendation
          /\ decision[r] = "reuse" => group[r].rec \/ lost.rec
          /\ decision[r] = "reuse" => recommendation
          /\ pc[r] \in {"enter", "gate", "llm", "save", "invalidate"}
                => decision[r] # "reuse"
          /\ ret[r] = "attached" => decision[r] # "reuse"
          /\ decision[r] = "reuse" /\ ret[r] = "checked" /\ cache # <<>>
                => cache[1].rec \/ lost.rec
          /\ decision[r] = "reuse" /\ ret[r] = "checked" /\ pc[r] = "put"
                => read[r].rec

(* A load's answer concerns only the request that asked for it. *)
LEMMA ReturnsOthers ==
    ASSUME TypeOK, NEW r \in Request, NEW g, Returns(r, g),
           NEW q \in Request, q # r
    PROVE  /\ pc'[q] = pc[q] /\ ret'[q] = ret[q] /\ group'[q] = group[q]
           /\ decision'[q] = decision[q]
           /\ q \in counted' <=> q \in counted
BY DEF TypeOK, Returns, Load, AfterCheck, Goto

(* The request goes on with the answer, or, if that is empty, with the     *)
(* group it had.                                                           *)
LEMMA ReturnsOwn ==
    ASSUME TypeOK, NEW r \in Request, NEW g \in Group, Returns(r, g),
           r \in counted'
    PROVE  /\ r \in counted
           /\ pc'[r] \notin {"create", "meta", "put", "done"}
           /\ Holds(r)' => \/ group'[r] = See(r, g)
                           \/ Holds(r) /\ group'[r] = group[r]
<1> USE DEF TypeOK, Goto, Holds
<1>1. CASE ret[r] = "recorded" /\ g = NoGroup
  BY <1>1 DEF Returns, Load
<1>2. CASE ret[r] = "reread" \/ (ret[r] = "recorded" /\ g # NoGroup)
  <2>1. /\ pc'[r] = "check" /\ group'[r] = See(r, g)
        /\ counted' \subseteq counted
    BY <1>2 DEF Returns
  <2>2. r \in counted
    BY <2>1
  <2>3. pc'[r] \notin {"create", "meta", "put", "done"}
    BY <2>1
  <2>4. group'[r] = See(r, g)
    BY <2>1
  <2> HIDE DEF Holds, TypeOK
  <2> QED
    BY <2>2, <2>3, <2>4
<1>3. CASE ret[r] = "checked"
  <2>1. /\ pc'[r] \in {"enter", "serve", "llm"} /\ group'[r] = Newer(r, g)
        /\ counted' = counted
    BY <1>3 DEF Returns, AfterCheck, Treatment
  <2> QED
    BY <2>1, <1>3 DEF Newer
<1>4. CASE ret[r] = "fresh"
  <2>1. /\ pc'[r] \in {"serve", "llm"} /\ group'[r] = Newer(r, g)
        /\ counted' = counted
    BY <1>4 DEF Returns, Treatment
  <2> QED
    BY <2>1, <1>4 DEF Newer
<1>5. CASE ret[r] = "attached"
  <2>1. /\ pc'[r] = "leave" /\ group'[r] = Newer(r, g) /\ counted' = counted
    BY <1>5 DEF Returns
  <2> QED
    BY <2>1, <1>5 DEF Newer
<1> QED
  BY <1>1, <1>2, <1>3, <1>4, <1>5 DEF Returns

(* OwnInv is inductive. *)
LEMMA OwnStep ==
    ASSUME TypeOK, OwnInv, [Next]_vars
    PROVE  OwnInv'
<1> USE GroupAssumption DEF TypeOK, OwnInv, Holds, Goto, Group, View, Label,
    Choice, Call
<1>1. CASE UNCHANGED vars
  BY <1>1 DEF vars, storeVars, localVars, histVars
<1>2. CASE CacheExpires
  BY <1>2 DEF CacheExpires, storeVars, localVars, histVars
<1>3. ASSUME NEW r \in Request, CreateOccurrence(r) PROVE OwnInv'
  BY <1>3 DEF CreateOccurrence, localVars, histVars
<1>4. ASSUME NEW r \in Request, SaveMeta(r) PROVE OwnInv'
  BY <1>4 DEF SaveMeta, Load, storeVars, localVars, histVars
<1>5. ASSUME NEW r \in Request, RecordRaises(r) PROVE OwnInv'
  BY <1>5 DEF RecordRaises, Load, Fault, storeVars, histVars
<1>6. ASSUME NEW r \in Request, CacheMiss(r) PROVE OwnInv'
  BY <1>6 DEF CacheMiss, storeVars, localVars, histVars
<1>7. ASSUME NEW r \in Request, ReadGroup(r) PROVE OwnInv'
  BY <1>7 DEF ReadGroup, storeVars, localVars, histVars
<1>8. ASSUME NEW r \in Request, SkipCheck(r) PROVE OwnInv'
  BY <1>8 DEF SkipCheck, AfterCheck, Treatment, Fault, storeVars, histVars
<1>9. ASSUME NEW r \in Request, AttachCodeCheck(r) PROVE OwnInv'
  BY <1>9 DEF AttachCodeCheck, Load, storeVars, localVars, histVars
<1>10. ASSUME NEW r \in Request, EnterGate(r) PROVE OwnInv'
  BY <1>10 DEF EnterGate, storeVars, localVars, histVars
<1>11. ASSUME NEW r \in Request, GetGate(r) PROVE OwnInv'
  BY <1>11 DEF GetGate, Load, storeVars, localVars
<1>12. ASSUME NEW r \in Request, GateTimeout(r) PROVE OwnInv'
  BY <1>12 DEF GateTimeout, Load, storeVars, localVars, histVars
<1>13. ASSUME NEW r \in Request, SpendBudget(r) PROVE OwnInv'
  BY <1>13 DEF SpendBudget, storeVars, localVars, histVars
<1>14. ASSUME NEW r \in Request, Serve(r) PROVE OwnInv'
  BY <1>14 DEF Serve, RunOver, storeVars, localVars, histVars
<1>15. ASSUME NEW r \in Request, RunEnds(r) PROVE OwnInv'
  BY <1>15 DEF RunEnds, RunOver, storeVars, localVars, histVars
<1>16. ASSUME NEW r \in Request, RunTimesOut(r) PROVE OwnInv'
  BY <1>16 DEF RunTimesOut, RunOver, storeVars, localVars, histVars
<1>17. ASSUME NEW r \in Request, SaveRecommendation(r) PROVE OwnInv'
  BY <1>17 DEF SaveRecommendation, localVars, histVars
<1>18. ASSUME NEW r \in Request, SaveRaises(r) PROVE OwnInv'
  BY <1>18 DEF SaveRaises, Fault, storeVars, localVars, histVars
<1>19. ASSUME NEW r \in Request, Invalidate(r) PROVE OwnInv'
  BY <1>19 DEF Invalidate, Load, storeVars, localVars
<1>20. ASSUME NEW r \in Request, LeaveBlock(r) PROVE OwnInv'
  BY <1>20 DEF LeaveBlock, storeVars, See, NoGroup
<1>21. ASSUME NEW r \in Request, CacheHit(r) PROVE OwnInv'
  <2>1. /\ pc[r] = "get" /\ cache # <<>> /\ Returns(r, cache[1])
        /\ cache' = cache /\ occurrences' = occurrences /\ read' = read
        /\ lost' = lost
    BY <1>21 DEF CacheHit, storeVars, histVars
  <2>2. cache[1] \in Group
    BY <2>1, CacheType
  <2>3. r \in counted' => See(r, cache[1]).own \/ r \in lost.members
    BY <2>1, <2>2, ReturnsOwn DEF See
  <2> QED
    BY <2>1, <2>2, <2>3, ReturnsOwn, ReturnsOthers
<1>22. ASSUME NEW r \in Request, CachePut(r) PROVE OwnInv'
  <2>1. /\ pc[r] = "put" /\ Returns(r, read[r])
        /\ cache' = <<read[r]>> /\ occurrences' = occurrences
        /\ read' = [read EXCEPT ![r] = NoGroup]
        /\ lost'.members = lost.members
                             \cup {q \in occurrences \ read[r].members :
                                       pc[q] # "done"}
    BY <1>22 DEF CachePut, storeVars
  <2>2. cache' # <<>> /\ cache'[1] = read[r] /\ read[r] \in Group
    BY <2>1
  <2>3. r \in counted' => See(r, read[r]).own
    BY <2>1, <2>2, ReturnsOwn DEF See
  <2>4. \A q \in Request : q \in counted' /\ pc[q] # "create"
           => q \in read[r].members \/ q \in lost'.members
    BY <2>1, <2>2, ReturnsOwn, ReturnsOthers
  <2> QED
    BY <2>1, <2>2, <2>3, <2>4, ReturnsOwn, ReturnsOthers
<1>23. ASSUME NEW r \in Request, LoadRaises(r) PROVE OwnInv'
  BY <1>23 DEF LoadRaises, Fault, storeVars, histVars, Returns, Load,
      AfterCheck, Newer, See, NoGroup, Decide, Treatment
<1> QED
  BY <1>1, <1>2, <1>3, <1>4, <1>5, <1>6, <1>7, <1>8, <1>9, <1>10, <1>11, <1>12,
      <1>13, <1>14, <1>15, <1>16, <1>17, <1>18, <1>19, <1>20, <1>21, <1>22,
      <1>23, NextCases

(* PublishedInv is inductive. *)
LEMMA PublishedStep ==
    ASSUME TypeOK, PublishedInv, [Next]_vars
    PROVE  PublishedInv'
<1> USE GroupAssumption DEF TypeOK, PublishedInv, Goto, Group, View, Label,
    Choice, Call, Kind
<1>1. CASE UNCHANGED vars
  BY <1>1 DEF vars, storeVars, localVars, histVars
<1>2. CASE CacheExpires
  BY <1>2 DEF CacheExpires, storeVars, localVars, histVars
<1>3. ASSUME NEW r \in Request, CreateOccurrence(r) PROVE PublishedInv'
  BY <1>3 DEF CreateOccurrence, localVars, histVars
<1>4. ASSUME NEW r \in Request, SaveMeta(r) PROVE PublishedInv'
  BY <1>4 DEF SaveMeta, Load, storeVars, localVars, histVars
<1>5. ASSUME NEW r \in Request, RecordRaises(r) PROVE PublishedInv'
  BY <1>5 DEF RecordRaises, Load, Fault, storeVars, histVars
<1>6. ASSUME NEW r \in Request, CacheMiss(r) PROVE PublishedInv'
  BY <1>6 DEF CacheMiss, storeVars, localVars, histVars
<1>7. ASSUME NEW r \in Request, ReadGroup(r) PROVE PublishedInv'
  BY <1>7 DEF ReadGroup, storeVars, localVars, histVars
<1>8. ASSUME NEW r \in Request, SkipCheck(r) PROVE PublishedInv'
  BY <1>8 DEF SkipCheck, AfterCheck, Treatment, Fault, storeVars, histVars
<1>9. ASSUME NEW r \in Request, AttachCodeCheck(r) PROVE PublishedInv'
  BY <1>9 DEF AttachCodeCheck, Load, storeVars, localVars, histVars
<1>10. ASSUME NEW r \in Request, EnterGate(r) PROVE PublishedInv'
  BY <1>10 DEF EnterGate, storeVars, localVars, histVars
<1>11. ASSUME NEW r \in Request, GetGate(r) PROVE PublishedInv'
  BY <1>11 DEF GetGate, Load, storeVars, localVars
<1>12. ASSUME NEW r \in Request, GateTimeout(r) PROVE PublishedInv'
  BY <1>12 DEF GateTimeout, Load, storeVars, localVars, histVars
<1>13. ASSUME NEW r \in Request, SpendBudget(r) PROVE PublishedInv'
  BY <1>13 DEF SpendBudget, storeVars, localVars, histVars
<1>14. ASSUME NEW r \in Request, Serve(r) PROVE PublishedInv'
  BY <1>14 DEF Serve, RunOver, storeVars, localVars, histVars
<1>15. ASSUME NEW r \in Request, RunEnds(r) PROVE PublishedInv'
  BY <1>15 DEF RunEnds, RunOver, storeVars, localVars, histVars
<1>16. ASSUME NEW r \in Request, RunTimesOut(r) PROVE PublishedInv'
  BY <1>16 DEF RunTimesOut, RunOver, storeVars, localVars, histVars
<1>17. ASSUME NEW r \in Request, SaveRecommendation(r) PROVE PublishedInv'
  BY <1>17 DEF SaveRecommendation, localVars, histVars
<1>18. ASSUME NEW r \in Request, SaveRaises(r) PROVE PublishedInv'
  BY <1>18 DEF SaveRaises, Fault, storeVars, localVars, histVars
<1>19. ASSUME NEW r \in Request, Invalidate(r) PROVE PublishedInv'
  BY <1>19 DEF Invalidate, Load, storeVars, localVars
<1>20. ASSUME NEW r \in Request, LeaveBlock(r) PROVE PublishedInv'
  BY <1>20 DEF LeaveBlock, storeVars, See, NoGroup
<1>21. ASSUME NEW r \in Request, CacheHit(r) PROVE PublishedInv'
  BY <1>21, CacheType DEF CacheHit, storeVars, histVars, Returns, Load,
      AfterCheck, Newer, See, NoGroup, Decide, Treatment
<1>22. ASSUME NEW r \in Request, CachePut(r) PROVE PublishedInv'
  BY <1>22 DEF CachePut, storeVars, Returns, Load, AfterCheck, Newer, See,
      NoGroup, Decide, Treatment
<1>23. ASSUME NEW r \in Request, LoadRaises(r) PROVE PublishedInv'
  BY <1>23 DEF LoadRaises, Fault, storeVars, histVars, Returns, Load,
      AfterCheck, Newer, See, NoGroup, Decide, Treatment
<1> QED
  BY <1>1, <1>2, <1>3, <1>4, <1>5, <1>6, <1>7, <1>8, <1>9, <1>10, <1>11, <1>12,
      <1>13, <1>14, <1>15, <1>16, <1>17, <1>18, <1>19, <1>20, <1>21, <1>22,
      <1>23, NextCases

(* ReuseInv is inductive. *)
LEMMA ReuseStep ==
    ASSUME TypeOK, ReuseInv, [Next]_vars
    PROVE  ReuseInv'
<1> USE GroupAssumption DEF TypeOK, ReuseInv, Goto, Group, View, Label, Choice,
    Call, Kind
<1>1. CASE UNCHANGED vars
  BY <1>1 DEF vars, storeVars, localVars, histVars
<1>2. CASE CacheExpires
  BY <1>2 DEF CacheExpires, storeVars, localVars, histVars
<1>3. ASSUME NEW r \in Request, CreateOccurrence(r) PROVE ReuseInv'
  BY <1>3 DEF CreateOccurrence, localVars, histVars
<1>4. ASSUME NEW r \in Request, SaveMeta(r) PROVE ReuseInv'
  BY <1>4 DEF SaveMeta, Load, storeVars, localVars, histVars
<1>5. ASSUME NEW r \in Request, RecordRaises(r) PROVE ReuseInv'
  BY <1>5 DEF RecordRaises, Load, Fault, storeVars, histVars
<1>6. ASSUME NEW r \in Request, CacheMiss(r) PROVE ReuseInv'
  BY <1>6 DEF CacheMiss, storeVars, localVars, histVars
<1>7. ASSUME NEW r \in Request, ReadGroup(r) PROVE ReuseInv'
  BY <1>7 DEF ReadGroup, storeVars, localVars, histVars
<1>8. ASSUME NEW r \in Request, SkipCheck(r) PROVE ReuseInv'
  BY <1>8 DEF SkipCheck, AfterCheck, Treatment, Fault, storeVars, histVars
<1>9. ASSUME NEW r \in Request, AttachCodeCheck(r) PROVE ReuseInv'
  BY <1>9 DEF AttachCodeCheck, Load, storeVars, localVars, histVars
<1>10. ASSUME NEW r \in Request, EnterGate(r) PROVE ReuseInv'
  BY <1>10 DEF EnterGate, storeVars, localVars, histVars
<1>11. ASSUME NEW r \in Request, GetGate(r) PROVE ReuseInv'
  BY <1>11 DEF GetGate, Load, storeVars, localVars
<1>12. ASSUME NEW r \in Request, GateTimeout(r) PROVE ReuseInv'
  BY <1>12 DEF GateTimeout, Load, storeVars, localVars, histVars
<1>13. ASSUME NEW r \in Request, SpendBudget(r) PROVE ReuseInv'
  BY <1>13 DEF SpendBudget, storeVars, localVars, histVars
<1>14. ASSUME NEW r \in Request, Serve(r) PROVE ReuseInv'
  BY <1>14 DEF Serve, RunOver, storeVars, localVars, histVars
<1>15. ASSUME NEW r \in Request, RunEnds(r) PROVE ReuseInv'
  BY <1>15 DEF RunEnds, RunOver, storeVars, localVars, histVars
<1>16. ASSUME NEW r \in Request, RunTimesOut(r) PROVE ReuseInv'
  BY <1>16 DEF RunTimesOut, RunOver, storeVars, localVars, histVars
<1>17. ASSUME NEW r \in Request, SaveRecommendation(r) PROVE ReuseInv'
  BY <1>17 DEF SaveRecommendation, localVars, histVars
<1>18. ASSUME NEW r \in Request, SaveRaises(r) PROVE ReuseInv'
  BY <1>18 DEF SaveRaises, Fault, storeVars, localVars, histVars
<1>19. ASSUME NEW r \in Request, Invalidate(r) PROVE ReuseInv'
  BY <1>19 DEF Invalidate, Load, storeVars, localVars
<1>20. ASSUME NEW r \in Request, LeaveBlock(r) PROVE ReuseInv'
  BY <1>20 DEF LeaveBlock, storeVars, See, NoGroup
<1>21. ASSUME NEW r \in Request, CacheHit(r) PROVE ReuseInv'
  BY <1>21, CacheType DEF CacheHit, storeVars, histVars, Returns, Load,
      AfterCheck, Newer, See, NoGroup, Decide, Treatment
<1>22. ASSUME NEW r \in Request, CachePut(r) PROVE ReuseInv'
  BY <1>22 DEF CachePut, storeVars, Returns, Load, AfterCheck, Newer, See,
      NoGroup, Decide, Treatment
<1>23. ASSUME NEW r \in Request, LoadRaises(r) PROVE ReuseInv'
  <2>1. /\ Returns(r, NoGroup) /\ pc[r] = "read"
        /\ UNCHANGED <<cache, recommendation, read, lost, kind>>
    BY <1>23 DEF LoadRaises, storeVars, histVars
  <2>2. CASE ret[r] = "recorded"
    <3>1. /\ pc' = [pc EXCEPT ![r] = "get"]
          /\ ret' = [ret EXCEPT ![r] = "reread"]
          /\ UNCHANGED <<group, decision>>
      BY <2>1, <2>2 DEF Returns, Load
    <3> QED
      BY <2>1, <3>1
  <2>3. CASE ret[r] = "reread"
    <3>1. /\ pc' = [pc EXCEPT ![r] = "check"]
          /\ ret' = [ret EXCEPT ![r] = "none"]
          /\ group' = [group EXCEPT ![r] = See(r, NoGroup)]
          /\ decision' = [decision EXCEPT ![r] = Decide(r, See(r, NoGroup))]
      BY <2>1, <2>3 DEF Returns
    <3>2. Decide(r, See(r, NoGroup)) # "reuse" /\ ~See(r, NoGroup).rec
      BY DEF Decide, See, NoGroup
    <3> QED
      BY <2>1, <3>1, <3>2
  <2>4. CASE ret[r] = "checked"
    BY <2>1, <2>4 DEF Returns, AfterCheck, Newer, Treatment
  <2>5. CASE ret[r] = "fresh"
    BY <2>1, <2>5 DEF Returns, Newer, Decide, Treatment
  <2>6. CASE ret[r] = "attached"
    <3>1. /\ pc' = [pc EXCEPT ![r] = "leave"]
          /\ ret' = [ret EXCEPT ![r] = "none"]
          /\ group' = [group EXCEPT ![r] = Newer(r, NoGroup)]
          /\ UNCHANGED decision
      BY <2>1, <2>6 DEF Returns
    <3>2. Newer(r, NoGroup) = group[r]
      BY DEF Newer
    <3> QED
      BY <2>1, <2>6, <3>1, <3>2
  <2> QED
    BY <2>1, <2>2, <2>3, <2>4, <2>5, <2>6 DEF Returns
<1> QED
  BY <1>1, <1>2, <1>3, <1>4, <1>5, <1>6, <1>7, <1>8, <1>9, <1>10, <1>11, <1>12,
      <1>13, <1>14, <1>15, <1>16, <1>17, <1>18, <1>19, <1>20, <1>21, <1>22,
      <1>23, NextCases

(* However many requests of one group record, read and cache at once, the  *)
(* group load_group hands to each counts the case record_occurrence wrote  *)
(* for it, but for the late _cache_put that lost remembers.                *)
THEOREM BurstCountsOwnCase == Spec => []OwnCaseCounted
<1>1. Init => OwnInv
  BY DEF Init, OwnInv, Holds
<1>2. TypeOK /\ OwnInv /\ [Next]_vars => OwnInv'
  BY OwnStep
<1>3. OwnInv => OwnCaseCounted
  BY DEF OwnInv, OwnCaseCounted, Holds
<1> QED
  BY <1>1, <1>2, <1>3, TypeCorrect, PTL DEF Spec

(* A request that takes the gate of _single_flight_gate after a leader's   *)
(* attach_recommendation is served from it and runs no investigation,      *)
(* unless the store raised or a late _cache_put hid the recommendation.    *)
THEOREM BurstReusesLeader == Spec => []WaiterReuses
<1>1. Init => PublishedInv
  BY DEF Init, PublishedInv, NoGroup, See
<1>2. TypeOK /\ PublishedInv /\ [Next]_vars => PublishedInv'
  BY PublishedStep
<1>3. PublishedInv => WaiterReuses
  BY DEF PublishedInv, WaiterReuses
<1> QED
  BY <1>1, <1>2, <1>3, TypeCorrect, PTL DEF Spec

(* What decide promised to reuse is still in the group that                *)
(* attach_code_check's reload returned, unless a late _cache_put hid it.   *)
THEOREM BurstReuseHasText == Spec => []ReuseHasText
<1>1. Init => ReuseInv
  BY DEF Init, ReuseInv, NoGroup, See
<1>2. TypeOK /\ ReuseInv /\ [Next]_vars => ReuseInv'
  BY ReuseStep
<1>3. ReuseInv => ReuseHasText
  BY DEF ReuseInv, ReuseHasText
<1> QED
  BY <1>1, <1>2, <1>3, TypeCorrect, PTL DEF Spec
=============================================================================
