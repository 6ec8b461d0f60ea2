-------------------------- MODULE ModelCallsProofs --------------------------
(***************************************************************************)
(* TLAPS proofs about the calls to the models: the slots and the circuit   *)
(* breaker around them (ModelCalls), and what their prompts say of the     *)
(* rule behind the reason code (RuleContext).                              *)
(***************************************************************************)
EXTENDS ModelCalls, RuleContext, FiniteSetTheorems, SequenceTheorems, TLAPS

(* A call on its way to the model has not used up the model calls of its   *)
(* run, and no call has used up its attempts.                              *)
AskedWithinLimit ==
    \A c \in Call : At(c, "slot") \/ At(c, "calling") => made[c] < MaxModelCalls
RetriesLeft == \A c \in Call : tries[c] < Attempts

(* The parts of the invariant: where the calls are, the breaker, the slots. *)
PlacesInv ==
    /\ call \in [Call -> {"idle", "check", "slot", "calling", "backoff"}]
    /\ made \in [Call -> 0..MaxModelCalls]
    /\ tries \in [Call -> 0..Attempts]
    /\ gone \in SUBSET Call
    /\ AskedWithinLimit
    /\ RetriesLeft

BreakerInv ==
    /\ breaker \in {"closed", "open", "half_open"}
    /\ fails \in 0..FailMax /\ genuine \in 0..FailMax /\ elapsed \in BOOLEAN
    /\ OpensOnFailures

CallsInv ==
    /\ PlacesInv /\ BreakerInv
    /\ SlotsBalance /\ free \in 0..Slots /\ modelUp \in BOOLEAN

LEMMA InvTypes == CallsInv => CallsTypeOK
BY DEF CallsInv, PlacesInv, BreakerInv, CallsTypeOK

Calling == {c \in Call : At(c, "calling")}

----------------------------------------------------------------------------
(* The slots. *)

LEMMA CallingFinite == IsFiniteSet(Calling) /\ Cardinality(Calling) \in Nat
<1>1. Calling \in SUBSET Call
  BY DEF Calling
<1> QED
  BY <1>1, CallsAssumption, FS_Subset, FS_CardinalityType

LEMMA BalanceOfSlots == SlotsBalance <=> free + Cardinality(Calling) = Slots
BY DEF SlotsBalance, Calling

(* A call that moves from one place to another moves into the model, out   *)
(* of it, or past it.                                                      *)
LEMMA SlotMoves ==
    ASSUME CallsTypeOK, SlotsBalance, NEW c \in Call, NEW place, Goes(c, place),
           IF At(c, "calling") THEN place # "calling" /\ free' = free + 1
           ELSE IF place = "calling" THEN free > 0 /\ free' = free - 1
           ELSE free' = free
    PROVE  SlotsBalance' /\ free' \in 0..Slots
<1>a. free \in Nat /\ Slots \in Nat /\ free + Cardinality(Calling) = Slots
  BY CallsAssumption, BalanceOfSlots DEF CallsTypeOK
<1>b. IsFiniteSet(Calling) /\ Cardinality(Calling) \in Nat
  BY CallingFinite
<1>c. /\ call'[c] = place
      /\ \A d \in Call \ {c} : call'[d] = call[d]
  BY DEF Goes, CallsTypeOK
<1>1. CASE At(c, "calling")
  <2>1. Calling' = Calling \ {c} /\ c \in Calling
    BY <1>1, <1>c DEF Calling, At
  <2>2. Cardinality(Calling') = Cardinality(Calling) - 1
    BY <2>1, <1>b, FS_RemoveElement
  <2>3. free' + Cardinality(Calling') = Slots /\ Cardinality(Calling') \in Nat
    <3>1. Cardinality(Calling) # 0
      BY <2>1, <1>b, FS_EmptySet
    <3> QED
      BY <3>1, <2>2, <1>a, <1>b, <1>1
  <2>4. free' \in 0..Slots
    BY <2>3, <1>a, <1>1
  <2> QED
    BY <2>3, <2>4 DEF SlotsBalance, Calling
<1>2. CASE ~At(c, "calling") /\ place = "calling"
  <2>1. Calling' = Calling \cup {c} /\ c \notin Calling
    BY <1>2, <1>c DEF Calling, At
  <2>2. Cardinality(Calling') = Cardinality(Calling) + 1 /\ IsFiniteSet(Calling')
    BY <2>1, <1>b, FS_AddElement
  <2>3. free' + Cardinality(Calling') = Slots
    BY <2>2, <1>a, <1>b, <1>2
  <2>4. free' \in 0..Slots
    BY <1>a, <1>2, CallsAssumption DEF CallsTypeOK
  <2> QED
    BY <2>3, <2>4 DEF SlotsBalance, Calling
<1>3. CASE ~At(c, "calling") /\ place # "calling"
  <2>1. Calling' = Calling
    BY <1>3, <1>c DEF Calling, At
  <2> QED
    BY <2>1, <1>a, <1>3 DEF SlotsBalance, Calling, CallsTypeOK
<1> QED
  BY <1>1, <1>2, <1>3

----------------------------------------------------------------------------
(* The breaker's counters. *)

LEMMA CappedBounds ==
    ASSUME NEW n \in 0..FailMax
    PROVE  /\ Capped(n + 1) \in 0..FailMax /\ Capped(n + 1) > 0
           /\ \A k \in 0..FailMax : k <= n => Capped(k + 1) <= Capped(n + 1)
BY CallsAssumption DEF Capped

(* An abandoned run counts as a success, whatever the circuit. *)
LEMMA SuccessKeepsBreaker ==
    ASSUME BreakerInv, CountsSuccess,
           genuine' = genuine \/ genuine' = IF breaker = "open" THEN genuine ELSE 0
    PROVE  BreakerInv'
BY CallsAssumption DEF BreakerInv, OpensOnFailures, CountsSuccess

LEMMA FailureKeepsBreaker ==
    ASSUME BreakerInv, CountsFailure, genuine' = Capped(genuine + 1)
    PROVE  BreakerInv'
<1>1. /\ fails' \in 0..FailMax /\ genuine' \in 0..FailMax /\ genuine' > 0
      /\ fails' <= genuine'
  BY CappedBounds DEF BreakerInv, OpensOnFailures, CountsFailure
<1> QED
  BY <1>1 DEF BreakerInv, OpensOnFailures, CountsFailure

----------------------------------------------------------------------------
(* The calls. *)

LEMMA EndKeepsPlaces ==
    ASSUME PlacesInv, NEW c \in Call, CallEnds(c)
    PROVE  PlacesInv'
BY CallsAssumption
   DEF PlacesInv, CallEnds, Goes, AskedWithinLimit, RetriesLeft, At

(* A call that ends leaves its slot, if it has one. *)
LEMMA EndKeepsInv ==
    ASSUME CallsInv, NEW c \in Call,
           Answers(c) \/ Fails(c) \/ Cancels(c),
           free' = IF At(c, "calling") THEN free + 1 ELSE free
    PROVE  CallsInv'
<1>1. CallEnds(c) /\ BreakerInv'
  <2>1. CASE Answers(c)
    BY <2>1, SuccessKeepsBreaker DEF CallsInv, Answers
  <2>2. CASE Fails(c)
    BY <2>2, FailureKeepsBreaker DEF CallsInv, Fails
  <2>3. CASE Cancels(c)
    BY <2>3, SuccessKeepsBreaker DEF CallsInv, Cancels
  <2> QED
    BY <2>1, <2>2, <2>3
<1>2. PlacesInv' /\ modelUp' \in BOOLEAN
  BY <1>1, EndKeepsPlaces DEF CallsInv, CallEnds
<1>3. SlotsBalance' /\ free' \in 0..Slots
  BY <1>1, SlotMoves, InvTypes DEF CallEnds, CallsInv
<1> QED
  BY <1>1, <1>2, <1>3 DEF CallsInv

----------------------------------------------------------------------------
LEMMA CallsInvInit == CallsInit => CallsInv
<1> SUFFICES ASSUME CallsInit PROVE CallsInv
  OBVIOUS
<1>1. PlacesInv /\ free \in 0..Slots
  BY CallsAssumption DEF CallsInit, PlacesInv, AskedWithinLimit, RetriesLeft, At
<1>b. elapsed \in BOOLEAN /\ modelUp \in BOOLEAN
  BY DEF CallsInit
<1>c. breaker = "closed" /\ fails = 0 /\ genuine = 0
  BY DEF CallsInit
<1>d. BreakerInv
  BY <1>b, <1>c, CallsAssumption DEF BreakerInv, OpensOnFailures
<1>2. Calling = {}
  BY DEF CallsInit, Calling, At
<1>3. SlotsBalance
  BY <1>2, FS_EmptySet, CallsAssumption, BalanceOfSlots DEF CallsInit
<1> QED
  BY <1>1, <1>b, <1>d, <1>3 DEF CallsInv

LEMMA CallsInvStep ==
    ASSUME CallsInv, [CallsNext]_callVars
    PROVE  CallsInv'
<1> USE DEF CallsInv, breakerVars
<1>s. ASSUME NEW c \in Call, NEW place, CallsTypeOK, SlotsBalance, Goes(c, place),
             free' = free, ~At(c, "calling"), place # "calling"
      PROVE  SlotsBalance' /\ free' \in 0..Slots
  BY <1>s, SlotMoves
<1>t. CallsTypeOK
  BY InvTypes
<1>1. CASE UNCHANGED callVars
  BY <1>1 DEF callVars, PlacesInv, BreakerInv, AskedWithinLimit, RetriesLeft,
              SlotsBalance, OpensOnFailures, At
<1>2. CASE ServerChanges \/ Elapse
  <2>1. PlacesInv' /\ BreakerInv'
    BY <1>2 DEF ServerChanges, Elapse, PlacesInv, BreakerInv, OpensOnFailures,
                AskedWithinLimit, RetriesLeft, At
  <2>2. SlotsBalance' /\ free' \in 0..Slots /\ modelUp' \in BOOLEAN
    BY <1>2 DEF ServerChanges, Elapse, SlotsBalance, At
  <2> QED
    BY <2>1, <2>2
<1>3. ASSUME NEW c \in Call, AbandonRun(c)
      PROVE  CallsInv'
  <2>1. PlacesInv' /\ BreakerInv'
    BY <1>3 DEF AbandonRun, PlacesInv, BreakerInv, OpensOnFailures,
                AskedWithinLimit, RetriesLeft, At
  <2>2. SlotsBalance' /\ free' \in 0..Slots /\ modelUp' \in BOOLEAN
    BY <1>3 DEF AbandonRun, SlotsBalance, At
  <2> QED
    BY <2>1, <2>2
<1>4. ASSUME NEW c \in Call, Admit(c)
      PROVE  CallsInv'
  <2>1. PlacesInv'
    BY <1>4 DEF Admit, PlacesInv, AskedWithinLimit, RetriesLeft, At, Goes
  <2>2. BreakerInv'
    BY <1>4 DEF Admit, BreakerInv, OpensOnFailures
  <2>3. SlotsBalance' /\ free' \in 0..Slots /\ modelUp' \in BOOLEAN
    BY <1>4, <1>s, <1>t DEF Admit, At
  <2> QED
    BY <2>1, <2>2, <2>3
<1>5. ASSUME NEW c \in Call, CheckModelCall(c)
      PROVE  CallsInv'
  <2>0. ~At(c, "calling") /\ free' = free
    BY <1>5 DEF CheckModelCall, At
  <2>1. CASE Fails(c) \/ Cancels(c)
    BY <2>0, <2>1, EndKeepsInv
  <2>2. CASE /\ made[c] < MaxModelCalls /\ Goes(c, "slot")
             /\ UNCHANGED <<breakerVars, modelUp, made, tries, gone>>
    <3>1. PlacesInv'
      BY <2>2 DEF PlacesInv, AskedWithinLimit, RetriesLeft, At, Goes
    <3>2. BreakerInv' /\ modelUp' \in BOOLEAN
      BY <2>2 DEF BreakerInv, OpensOnFailures
    <3>3. SlotsBalance' /\ free' \in 0..Slots
      BY <2>0, <2>2, <1>s, <1>t
    <3> QED
      BY <3>1, <3>2, <3>3
  <2> QED
    BY <1>5, <2>1, <2>2 DEF CheckModelCall
<1>6. ASSUME NEW c \in Call, AcquireSlot(c)
      PROVE  CallsInv'
  <2>1. PlacesInv'
    BY <1>6 DEF AcquireSlot, PlacesInv, AskedWithinLimit, RetriesLeft, At, Goes
  <2>2. BreakerInv' /\ modelUp' \in BOOLEAN
    BY <1>6 DEF AcquireSlot, BreakerInv, OpensOnFailures
  <2>3. SlotsBalance' /\ free' \in 0..Slots
    BY <1>6, <1>t, SlotMoves DEF AcquireSlot, At
  <2> QED
    BY <2>1, <2>2, <2>3
<1>7. ASSUME NEW c \in Call, StopWaiting(c)
      PROVE  CallsInv'
  BY <1>7, EndKeepsInv DEF StopWaiting, At
<1>8. ASSUME NEW c \in Call, ModelReplies(c)
      PROVE  CallsInv'
  <2>0. At(c, "calling") /\ free' = free + 1
    BY <1>8 DEF ModelReplies
  <2>1. CASE Answers(c)
    BY <2>0, <2>1, EndKeepsInv
  <2>2. CASE /\ Goes(c, "check") /\ made' = [made EXCEPT ![c] = @ + 1]
             /\ UNCHANGED <<breakerVars, modelUp, tries, gone>>
    <3>1. made[c] < MaxModelCalls
      BY <2>0 DEF PlacesInv, AskedWithinLimit
    <3>2. PlacesInv'
      BY <2>2, <3>1, CallsAssumption DEF PlacesInv, AskedWithinLimit, RetriesLeft, At, Goes
    <3>3. BreakerInv' /\ modelUp' \in BOOLEAN
      BY <2>2 DEF BreakerInv, OpensOnFailures
    <3>4. SlotsBalance' /\ free' \in 0..Slots
      BY <2>0, <2>2, <1>t, SlotMoves
    <3> QED
      BY <3>2, <3>3, <3>4
  <2> QED
    BY <1>8, <2>1, <2>2 DEF ModelReplies
<1>9. ASSUME NEW c \in Call, ModelFails(c)
      PROVE  CallsInv'
  <2>0. At(c, "calling") /\ free' = free + 1
    BY <1>9 DEF ModelFails
  <2>1. CASE Fails(c)
    BY <2>0, <2>1, EndKeepsInv
  <2>2. CASE /\ tries[c] + 1 < Attempts
             /\ tries' = [tries EXCEPT ![c] = @ + 1] /\ Goes(c, "backoff")
             /\ UNCHANGED <<breakerVars, modelUp, made, gone>>
    <3>1. PlacesInv'
      BY <2>2, CallsAssumption DEF PlacesInv, AskedWithinLimit, RetriesLeft, At, Goes
    <3>2. BreakerInv' /\ modelUp' \in BOOLEAN
      BY <2>2 DEF BreakerInv, OpensOnFailures
    <3>3. SlotsBalance' /\ free' \in 0..Slots
      BY <2>0, <2>2, <1>t, SlotMoves
    <3> QED
      BY <3>1, <3>2, <3>3
  <2> QED
    BY <1>9, <2>1, <2>2 DEF ModelFails
<1>10. ASSUME NEW c \in Call, RetryCall(c)
       PROVE  CallsInv'
  <2>1. PlacesInv'
    BY <1>10, CallsAssumption
       DEF RetryCall, PlacesInv, AskedWithinLimit, RetriesLeft, At, Goes
  <2>2. BreakerInv' /\ modelUp' \in BOOLEAN
    BY <1>10 DEF RetryCall, BreakerInv, OpensOnFailures
  <2>3. SlotsBalance' /\ free' \in 0..Slots
    BY <1>10, <1>s, <1>t DEF RetryCall, At
  <2> QED
    BY <2>1, <2>2, <2>3
<1> QED
  BY <1>1, <1>2, <1>3, <1>4, <1>5, <1>6, <1>7, <1>8, <1>9, <1>10 DEF CallsNext, CallStep

(* Whatever the number of calls, the slots, the attempts and the limits:   *)
(* a slot of the pool is held for each model call in flight and for        *)
(* nothing else, on every way out of a call (an answer, a limit, a failed  *)
(* attempt, an abandoned run), and the circuit opens on failures alone.    *)
THEOREM GuardsHold == CallsSpec => []CallsGuarded
<1>1. CallsInv => CallsGuarded
  BY InvTypes DEF CallsInv, BreakerInv, CallsGuarded
<1> QED
  BY <1>1, CallsInvInit, CallsInvStep, PTL DEF CallsSpec

----------------------------------------------------------------------------
(* RuleContext: what the agents are told of the rule.  The invariant says  *)
(* what the lookup of a packet has read so far, what it may find there     *)
(* while the files and the database change, and what its prompts hold.     *)

Flag == BOOLEAN

InDocs == {"docs", "stat", "load"}
BeforeRule == InDocs \cup {"rule", "query", "keep"}
Place7 == BeforeRule \cup {"investigate", "review", "done"}
Scope7 == {"none", "own", "all", "other_service"}
Entry7 == {[file |-> g, kind |-> e.kind, type |-> e.type] : e \in UNION Documents, g \in File7}
Content7 == Documents \cup {{}}
Reads7 == UNION {[D -> Content7] : D \in SUBSET File7}
DocRecord == [outcome : {"none", "hit", "miss", "error"}, scope : Scope7, entries : SUBSET Entry7]
RuleRecord == [found : {"none", "rows", "not_found", "failed"}, rows : SUBSET UNION Tables]
Packets7 == UNION {{s[p] : p \in Packet7} : s \in Subjects}
FileList == Seq(File7)
Begun == [File7 -> Nat]
ToolRuns == SUBSET Nat
RunRecord ==
    [at : Place7, subject : Packets7, todo : FileList, scope : Scope7, sig : Nat, read : Reads7,
     began : Begun, stale : Flag, doc : DocRecord, rule : RuleRecord, down : Flag,
     tools : ToolRuns, told : Flag, pass : Nat]

(* The packet's own file is read first; the others only when it says       *)
(* nothing, and never again among them.                                    *)
OwnFirst(r) ==
    LET own == r.subject.own IN
    \/ r.scope = "own" /\ own \in File7 /\ r.todo = <<own>> /\ DOMAIN r.read = {}
    \/ r.scope = "all" /\ own = "none"
    \/ /\ r.scope = "other_service" /\ own \in DOMAIN r.read /\ r.read[own] = {}
       /\ \A i \in DOMAIN r.todo : r.todo[i] # own

DocIsOwn(r) ==
    /\ r.subject.own \in DOMAIN r.read /\ r.read[r.subject.own] # {} =>
           /\ r.doc.outcome # "error"
           /\ \A e \in r.doc.entries : e.file = r.subject.own
    /\ \A e \in r.doc.entries : e.type \in {AnyType, r.subject.type}

LookupShape(r) ==
    /\ r.at = "docs" => r.todo = <<>> /\ r.doc = NoDocs
    /\ r.at \in {"stat", "load"} => r.todo # <<>> /\ r.doc = NoDocs /\ OwnFirst(r)
    /\ r.at \notin InDocs => r.doc # NoDocs /\ DocIsOwn(r)
    /\ IsFiniteSet(r.doc.entries) /\ IsFiniteSet(r.rule.rows) /\ IsFiniteSet(r.tools)

(* Signatures grow: what is read of a file from here on is not older than  *)
(* what was there when the lookup began.                                   *)
LookupCurrent(r) ==
    /\ r.stale = FALSE
    /\ \A f \in File7 : r.began[f] <= store7[f].sig
    /\ r.at = "load" => r.sig <= store7[Head(r.todo)].sig

FailureOwn(r) ==
    /\ r.rule.found = "failed" => r.down = TRUE
    /\ r.at \in {"docs", "stat", "load", "rule", "query"} => r.rule.found # "failed"
    /\ InLookup(r) /\ dbUp # TRUE => r.down = TRUE

StoreTyped ==
    /\ table7 \in Tables /\ dbUp \in Flag
    /\ ruleCache \in RuleRecord /\ ruleCache.found # "failed" /\ IsFiniteSet(ruleCache.rows)
    /\ store7 \in [File7 -> [sig : Nat \ {0}, content : Documents]]
    /\ parsed7 \in [File7 -> [sig : Nat, content : Content7, version : Nat]]
    /\ \A f \in File7 :
           /\ parsed7[f].sig <= store7[f].sig /\ parsed7[f].sig <= parsed7[f].version
           /\ parsed7[f].content # Torn
    /\ events7 \in 0..MaxEvents7

RunsInv ==
    /\ run7 \in [Packet7 -> RunRecord]
    /\ \A p \in Packet7 : LookupShape(run7[p]) /\ LookupCurrent(run7[p]) /\ FailureOwn(run7[p])

(* Prompts *)
Note7 == {"none", "doc_only", "neither", "doc_from_rules", "doc_from_code", "rule_only"}
PromptRecord ==
    [rule : RuleRecord, doc : DocRecord, tools : ToolRuns, note : Note7, skeleton : Nat, logs : Nat,
     kept : Nat, size : Nat, omitted : Flag]
FitsCap(q) ==
    /\ q.size <= PromptCap \/ q.omitted = TRUE
    /\ q.skeleton + q.logs <= PromptCap => q.kept = q.logs
Files7 == [tools : ToolRuns \cup {{"earlier"}}, doc : DocRecord \cup {Earlier.doc}]
(* The documentation a role was shown: this packet's, or, on the harness   *)
(* beside a rules database, none.                                          *)
DocShown(r, x) == x.doc = r.doc \/ (x.doc = NoDocs /\ x.note = "none" /\ r.subject.rulesDb)
Evidence(r, q) ==
    /\ r.at \in BeforeRule \/ (r.at = "investigate" /\ r.pass = 0) => r.pass = 0 /\ q.reviewer = NoPrompt
    /\ r.at = "review" => r.pass > 0 /\ q.investigator.rule = r.rule /\ DocShown(r, q.investigator)
    /\ r.at = "done" /\ q.reviewer # NoPrompt =>
           /\ q.reviewer.rule = q.investigator.rule /\ q.reviewer.tools = r.tools
           /\ DocShown(r, q.investigator) /\ DocShown(r, q.reviewer)
PromptsInv ==
    /\ prompt7 \in [Packet7 -> [investigator : PromptRecord, reviewer : PromptRecord]]
    /\ \A p \in Packet7 : FitsCap(prompt7[p].investigator) /\ FitsCap(prompt7[p].reviewer)
    /\ \A p \in Packet7 : Evidence(run7[p], prompt7[p])
    /\ left7 \in [Packet7 -> Files7]

ContextInv == StoreTyped /\ RunsInv /\ PromptsInv

LEMMA EmptyThings ==
    /\ NoRule \in RuleRecord /\ NoRule.found = "none" /\ NoRule.rows = {}
    /\ NoDocs \in DocRecord /\ NoDocs.outcome = "none" /\ NoDocs.entries = {}
    /\ NoPrompt \in PromptRecord /\ FitsCap(NoPrompt)
    /\ IsFiniteSet({}) /\ TRUE \in Flag /\ FALSE \in Flag /\ <<>> \in FileList /\ <<>> \in Reads7
<1>1. NoRule \in RuleRecord /\ NoRule.found = "none" /\ NoRule.rows = {}
  BY DEF NoRule, RuleRecord
<1>2. NoDocs \in DocRecord /\ NoDocs.outcome = "none" /\ NoDocs.entries = {}
  BY DEF NoDocs, DocRecord, Scope7
<1>3. TRUE \in Flag /\ FALSE \in Flag /\ <<>> \in FileList /\ IsFiniteSet({})
  BY FS_EmptySet DEF Flag, FileList
<1>4. <<>> \in Reads7
  <2>1. <<>> \in [{} -> Content7]
    OBVIOUS
  <2> QED
    BY <2>1 DEF Reads7
<1>5. NoPrompt \in PromptRecord /\ NoPrompt.size = 0 /\ NoPrompt.logs = 0 /\ NoPrompt.kept = 0
  <2>1. {} \in ToolRuns /\ "none" \in Note7
    BY DEF ToolRuns, Note7
  <2> QED
    BY <1>1, <1>2, <1>3, <2>1 DEF NoPrompt, PromptRecord
<1>6. FitsCap(NoPrompt)
  BY <1>5, ContextAssumption DEF FitsCap
<1> QED
  BY <1>1, <1>2, <1>3, <1>4, <1>5, <1>6

LEMMA SubjectIs ==
    ASSUME NEW s \in Packets7
    PROVE  s.own \in File7 \cup {"none"} /\ s.rulesDb \in BOOLEAN /\ s.logs \in Nat
BY ContextAssumption DEF Packets7

LEMMA BeginIs ==
    ASSUME NEW s \in Packets7, StoreTyped
    PROVE  /\ Begin7(s) \in RunRecord /\ LookupShape(Begin7(s)) /\ LookupCurrent(Begin7(s))
           /\ FailureOwn(Begin7(s)) /\ Begin7(s).at = "docs" /\ Begin7(s).pass = 0
<1>1. Begin7(s) \in RunRecord
  <2>1. /\ "docs" \in Place7 /\ "none" \in Scope7 /\ {} \in ToolRuns /\ [f \in File7 |-> 0] \in Begun
        /\ 0 \in Nat
    BY DEF Place7, BeforeRule, InDocs, Scope7, ToolRuns, Begun
  <2> QED
    BY <2>1, EmptyThings DEF Begin7, RunRecord
<1>2. LookupShape(Begin7(s))
  BY EmptyThings DEF Begin7, LookupShape, InDocs
<1>3. LookupCurrent(Begin7(s))
  BY DEF Begin7, LookupCurrent, StoreTyped
<1>4. FailureOwn(Begin7(s))
  BY EmptyThings DEF Begin7, FailureOwn, InLookup
<1> QED
  BY <1>1, <1>2, <1>3, <1>4 DEF Begin7

LEMMA ContextInvInit == ContextInit => ContextInv
<1> SUFFICES ASSUME ContextInit
             PROVE  ContextInv
  OBVIOUS
<1>1. StoreTyped
  <2>0. MaxEvents7 \in Nat
    BY ContextAssumption
  <2>1. table7 \in Tables /\ dbUp \in Flag /\ ruleCache = NoRule /\ events7 \in 0..MaxEvents7
    BY <2>0 DEF ContextInit, Flag
  <2>2. store7 \in [File7 -> [sig : Nat \ {0}, content : Documents]]
    BY ContextAssumption DEF ContextInit
  <2>3. /\ parsed7 \in [File7 -> [sig : Nat, content : Content7, version : Nat]]
        /\ \A f \in File7 : parsed7[f].sig = 0 /\ parsed7[f].version = 0 /\ parsed7[f].content = {}
    BY DEF ContextInit, Content7
  <2>4. {} # Torn
    BY DEF Torn
  <2>5. ruleCache \in RuleRecord /\ ruleCache.found # "failed" /\ IsFiniteSet(ruleCache.rows)
    BY <2>1, EmptyThings
  <2>6. \A f \in File7 : parsed7[f].sig <= store7[f].sig
    BY <2>2, <2>3
  <2> QED
    BY <2>1, <2>2, <2>3, <2>4, <2>5, <2>6 DEF StoreTyped
<1>2. PICK s \in Subjects : run7 = [p \in Packet7 |-> Begin7(s[p])]
  BY DEF ContextInit
<1>3. \A p \in Packet7 : s[p] \in Packets7
  BY DEF Packets7
<1>4. RunsInv
  BY <1>1, <1>2, <1>3, BeginIs DEF RunsInv
<1>5. PromptsInv
  <2>1. /\ prompt7 \in [Packet7 -> [investigator : PromptRecord, reviewer : PromptRecord]]
        /\ \A p \in Packet7 : prompt7[p].investigator = NoPrompt /\ prompt7[p].reviewer = NoPrompt
    BY EmptyThings DEF ContextInit
  <2>2. \A p \in Packet7 : run7[p].at = "docs" /\ run7[p].pass = 0
    BY <1>1, <1>2, <1>3, BeginIs
  <2>3. left7 \in [Packet7 -> Files7]
    BY DEF ContextInit, Earlier, Files7
  <2> QED
    BY <2>1, <2>2, <2>3, EmptyThings DEF PromptsInv, Evidence
<1> QED
  BY <1>1, <1>4, <1>5 DEF ContextInv

LEMMA FilesAreFinite == IsFiniteSet(File7)
<1>0. FileOrder \in Seq(File7) /\ Range(FileOrder) = File7
  BY ContextAssumption
<1>1. FileOrder \in Surjection(1..Len(FileOrder), File7)
  BY <1>0 DEF Surjection, Range
<1>2. IsFiniteSet(1..Len(FileOrder))
  BY <1>0, FS_Interval
<1> QED
  BY <1>1, <1>2, FS_Surjection

LEMMA EntryIs ==
    ASSUME NEW read \in Reads7, NEW g \in DOMAIN read, NEW e \in read[g]
    PROVE  /\ [e EXCEPT !.file = g] = [file |-> g, kind |-> e.kind, type |-> e.type]
           /\ [file |-> g, kind |-> e.kind, type |-> e.type] \in Entry7
<1>1. PICK D \in SUBSET File7 : read \in [D -> Content7]
  BY DEF Reads7
<1>2. g \in File7 /\ e \in UNION Documents
  BY <1>1 DEF Content7
<1>3. e = [file |-> "none", kind |-> e.kind, type |-> e.type]
  BY <1>2, ContextAssumption
<1>4. [e EXCEPT !.file = g] = [file |-> g, kind |-> e.kind, type |-> e.type]
  BY <1>3
<1>5. [file |-> g, kind |-> e.kind, type |-> e.type] \in Entry7
  <2> DEFINE All == UNION Documents
  <2>1. e \in All /\ Entry7 = {[file |-> h, kind |-> d.kind, type |-> d.type] : d \in All, h \in File7}
    BY <1>2 DEF Entry7
  <2> HIDE DEF All
  <2> QED
    BY <1>2, <2>1
<1> QED
  BY <1>4, <1>5

LEMMA EntriesAre ==
    ASSUME NEW read \in Reads7
    PROVE  /\ EntriesIn(read) \in SUBSET Entry7 /\ IsFiniteSet(EntriesIn(read))
           /\ \A e \in EntriesIn(read) : e.file \in DOMAIN read /\ read[e.file] # {}
           /\ (\E g \in DOMAIN read : read[g] # {}) => EntriesIn(read) # {}
<1> DEFINE Of(g) == {[e EXCEPT !.file = g] : e \in read[g]}
           parts == {Of(g) : g \in DOMAIN read}
<1>1. EntriesIn(read) = UNION parts
  BY DEF EntriesIn
<1>2. PICK D \in SUBSET File7 : read \in [D -> Content7]
  BY DEF Reads7
<1>3. IsFiniteSet(DOMAIN read)
  BY <1>2, FilesAreFinite, FS_Subset
<1>4. ASSUME NEW g \in DOMAIN read
      PROVE  IsFiniteSet(Of(g))
  <2>1. IsFiniteSet(read[g])
    BY <1>2, ContextAssumption, FS_EmptySet DEF Content7
  <2> DEFINE tell == [e \in read[g] |-> [e EXCEPT !.file = g]]
  <2>2. tell \in Surjection(read[g], Of(g))
    BY DEF Surjection
  <2> HIDE DEF tell
  <2> QED
    BY <2>1, <2>2, FS_Surjection
<1>5. IsFiniteSet(parts)
  <2> DEFINE each == [g \in DOMAIN read |-> Of(g)]
  <2> HIDE DEF Of
  <2>1. each \in Surjection(DOMAIN read, parts)
    BY DEF Surjection
  <2> HIDE DEF each, parts
  <2> QED
    BY <1>3, <2>1, FS_Surjection
<1>6. IsFiniteSet(UNION parts)
  <2>1. \A T \in parts : IsFiniteSet(T)
    BY <1>4
  <2> HIDE DEF parts
  <2> QED
    BY <1>5, <2>1, FS_UNION
<1>7. ASSUME NEW e \in UNION parts
      PROVE  e \in Entry7 /\ e.file \in DOMAIN read /\ read[e.file] # {}
  <2>1. PICK g \in DOMAIN read : e \in Of(g)
    BY <1>7
  <2>2. PICK d \in read[g] : e = [d EXCEPT !.file = g]
    BY <2>1
  <2>3. e = [file |-> g, kind |-> d.kind, type |-> d.type] /\ e \in Entry7
    BY <2>2, EntryIs
  <2> QED
    BY <2>3
<1>8. ASSUME NEW g \in DOMAIN read, read[g] # {}
      PROVE  UNION parts # {}
  <2>1. PICK d : d \in read[g]
    BY <1>8
  <2>2. [d EXCEPT !.file = g] \in Of(g) /\ Of(g) \in parts
    BY <2>1
  <2> HIDE DEF parts, Of
  <2> QED
    BY <2>2
<1> HIDE DEF parts
<1> QED
  BY <1>1, <1>6, <1>7, <1>8

ReadWith(read, f, content) ==
    [g \in DOMAIN read \cup {f} |-> IF g = f THEN content ELSE read[g]]

LEMMA ReadWithIs ==
    ASSUME NEW read \in Reads7, NEW f \in File7, NEW content \in Content7
    PROVE  LET new == ReadWith(read, f, content)
           IN /\ new \in Reads7 /\ DOMAIN new = DOMAIN read \cup {f} /\ new[f] = content
              /\ \A g \in DOMAIN read : g # f => new[g] = read[g]
<1>1. PICK D \in SUBSET File7 : read \in [D -> Content7]
  BY DEF Reads7
<1>2. [g \in D \cup {f} |-> IF g = f THEN content ELSE read[g]] \in [D \cup {f} -> Content7]
  BY <1>1
<1>3. D \cup {f} \in SUBSET File7
  OBVIOUS
<1> QED
  BY <1>1, <1>2, <1>3 DEF Reads7, ReadWith

LEMMA OthersAre ==
    ASSUME NEW f \in File7
    PROVE  OtherFiles(f) \in FileList /\ \A i \in DOMAIN OtherFiles(f) : OtherFiles(f)[i] # f
<1> DEFINE k == CHOOSE i \in DOMAIN FileOrder : FileOrder[i] = f
<1>1. FileOrder \in Seq(File7) /\ \E i \in DOMAIN FileOrder : FileOrder[i] = f
  BY ContextAssumption DEF Range
<1>2. k \in 1..Len(FileOrder) /\ FileOrder[k] = f
  BY <1>1
<1> HIDE DEF k
<1> DEFINE left == SubSeq(FileOrder, 1, k - 1)
           right == SubSeq(FileOrder, k + 1, Len(FileOrder))
<1>3. /\ left \in Seq(File7) /\ Len(left) = k - 1
      /\ \A i \in 1..(k - 1) : left[i] = FileOrder[i]
  BY <1>1, <1>2
<1>4. /\ right \in Seq(File7) /\ Len(right) = Len(FileOrder) - k
      /\ \A i \in 1..(Len(FileOrder) - k) : right[i] = FileOrder[k + i]
  BY <1>1, <1>2
<1>5. \A i \in 1..Len(FileOrder) : i # k => FileOrder[i] # f
  BY <1>1, <1>2, ContextAssumption DEF IsInjective
<1>6. OtherFiles(f) = left \o right
  BY DEF OtherFiles, RemoveAt, k
<1> HIDE DEF left, right
<1>7. left \o right \in Seq(File7) /\ Len(left \o right) = Len(left) + Len(right)
  BY <1>3, <1>4
<1>8. \A i \in 1..Len(left \o right) :
         (left \o right)[i] = IF i <= Len(left) THEN left[i] ELSE right[i - Len(left)]
  BY <1>3, <1>4, ConcatProperties
<1>9. ASSUME NEW i \in 1..Len(left \o right)
      PROVE  (left \o right)[i] # f
  <2>1. CASE i <= k - 1
    BY <1>2, <1>3, <1>5, <1>7, <1>8, <2>1
  <2>2. CASE i > k - 1
    <3>1. i - (k - 1) \in 1..(Len(FileOrder) - k) /\ k + (i - (k - 1)) = i + 1 /\ i + 1 \in 1..Len(FileOrder)
      BY <1>1, <1>2, <1>3, <1>4, <1>7, <2>2
    <3>2. (left \o right)[i] = FileOrder[i + 1]
      BY <1>2, <1>3, <1>4, <1>8, <2>2, <3>1
    <3> QED
      BY <1>2, <1>5, <2>2, <3>1, <3>2
  <2> QED
    BY <1>2, <2>1, <2>2
<1> QED
  BY <1>6, <1>7, <1>9 DEF FileList

LEMMA DocOfIs ==
    ASSUME NEW r \in RunRecord, NEW entries \in SUBSET Entry7, IsFiniteSet(entries)
    PROVE  LET d == DocOf(r, entries)
           IN /\ d \in DocRecord /\ d # NoDocs /\ d.outcome # "error" /\ IsFiniteSet(d.entries)
              /\ d.entries \subseteq entries
              /\ \A e \in d.entries : e.type \in {AnyType, r.subject.type}
<1> DEFINE chosen == Selected7(entries, r.subject.type)
<1>1. /\ chosen \subseteq entries /\ \A e \in chosen : e.type \in {AnyType, r.subject.type}
      /\ chosen \in SUBSET Entry7 /\ r.scope \in Scope7
  BY DEF Selected7, RunRecord
<1>2. IsFiniteSet(chosen)
  BY <1>1, FS_Subset
<1> HIDE DEF chosen
<1>3. CASE chosen = {}
  <2>1. DocOf(r, entries) = [NoDocs EXCEPT !.outcome = "miss"]
    BY <1>3 DEF DocOf, chosen
  <2>2. /\ [NoDocs EXCEPT !.outcome = "miss"] \in DocRecord
        /\ [NoDocs EXCEPT !.outcome = "miss"].outcome = "miss"
        /\ [NoDocs EXCEPT !.outcome = "miss"].entries = {}
    BY EmptyThings DEF DocRecord
  <2> QED
    BY <2>1, <2>2, EmptyThings
<1>4. CASE chosen # {}
  <2>1. DocOf(r, entries) = [outcome |-> "hit", scope |-> r.scope, entries |-> chosen]
    BY <1>4 DEF DocOf, chosen
  <2> QED
    BY <1>1, <1>2, <2>1, EmptyThings DEF DocRecord
<1> QED
  BY <1>3, <1>4

LEMMA WithFileIs ==
    ASSUME StoreTyped, NEW r \in RunRecord, LookupShape(r), LookupCurrent(r), FailureOwn(r),
           r.at \in {"stat", "load"}, NEW content \in Content7, NEW version \in Nat,
           r.began[Head(r.todo)] <= version
    PROVE  LET v == WithFile(r, Head(r.todo), content, version)
           IN /\ v \in RunRecord /\ LookupShape(v) /\ LookupCurrent(v) /\ FailureOwn(v)
              /\ v.at \in {"stat", "rule"} /\ v.pass = r.pass
<1> DEFINE f == Head(r.todo)
           own == r.subject.own
           rest == Tail(r.todo)
           read == ReadWith(r.read, f, content)
           entries == EntriesIn(read)
           stale == r.stale \/ version < r.began[f]
           Fed(rd, td, st) == [r EXCEPT !.read = rd, !.todo = td, !.at = "stat", !.stale = st]
           fed == Fed(read, rest, stale)
           v == WithFile(r, f, content, version)
<1>1. /\ r.todo \in Seq(File7) /\ r.todo # <<>> /\ r.read \in Reads7 /\ r.doc = NoDocs
      /\ r.subject \in Packets7 /\ OwnFirst(r)
  BY DEF RunRecord, FileList, LookupShape
<1>2a. f \in File7 /\ f = r.todo[1] /\ 1 \in DOMAIN r.todo /\ Len(r.todo) \in Nat
  BY <1>1
<1>2b. rest \in FileList /\ Len(rest) = Len(r.todo) - 1
  BY <1>1 DEF FileList
<1>2c. \A i \in 1..Len(rest) : i + 1 \in 1..Len(r.todo) /\ rest[i] = r.todo[i + 1]
  BY <1>1
<1>2d. Len(r.todo) = 1 => rest = <<>>
  <2>1. \A q \in Seq(File7) : Len(q) = 0 => q = <<>>
    OBVIOUS
  <2> HIDE DEF rest
  <2> QED
    BY <1>1, <1>2b, <2>1 DEF FileList
<1>3. own \in File7 \cup {"none"} /\ "none" \notin File7
  BY <1>1, SubjectIs, ContextAssumption
<1> HIDE DEF f, rest
<1>2. /\ f \in File7 /\ f = r.todo[1] /\ 1 \in DOMAIN r.todo /\ rest \in FileList
      /\ Len(r.todo) = 1 => rest = <<>>
      /\ \A i \in DOMAIN rest : i + 1 \in DOMAIN r.todo /\ rest[i] = r.todo[i + 1]
  <2>1. DOMAIN rest = 1..Len(rest) /\ DOMAIN r.todo = 1..Len(r.todo)
    BY <1>1, <1>2b DEF FileList
  <2> QED
    BY <1>2a, <1>2b, <1>2c, <1>2d, <2>1
<1>4. /\ read \in Reads7 /\ DOMAIN read = DOMAIN r.read \cup {f} /\ read[f] = content
      /\ \A g \in DOMAIN r.read : g # f => read[g] = r.read[g]
  <2>1. r.read \in Reads7 /\ f \in File7 /\ content \in Content7
    BY <1>1, <1>2
  <2> DEFINE old == r.read
  <2> HIDE DEF old
  <2>2. old \in Reads7 /\ read = ReadWith(old, f, content)
    BY <2>1 DEF old
  <2> HIDE DEF read
  <2>3. /\ read \in Reads7 /\ DOMAIN read = DOMAIN old \cup {f} /\ read[f] = content
        /\ \A g \in DOMAIN old : g # f => read[g] = old[g]
    BY <2>1, <2>2, ReadWithIs
  <2> QED
    BY <2>3 DEF old
<1>5. DOMAIN r.read \subseteq File7
  BY <1>1 DEF Reads7
<1>6. stale = FALSE
  <2>1. r.stale = FALSE /\ r.began[f] \in Nat
    BY <1>2 DEF LookupCurrent, RunRecord, Begun
  <2> QED
    BY <2>1 DEF f
<1> HIDE DEF read, stale
<1>7. /\ entries \in SUBSET Entry7 /\ IsFiniteSet(entries)
      /\ \A e \in entries : e.file \in DOMAIN read /\ read[e.file] # {}
      /\ (\E g \in DOMAIN read : read[g] # {}) => entries # {}
  BY <1>4, EntriesAre
<1> HIDE DEF entries
<1>8. /\ fed \in RunRecord /\ fed.at = "stat" /\ fed.subject = r.subject /\ fed.todo = rest
      /\ fed.scope = r.scope /\ fed.read = read /\ fed.began = r.began /\ fed.stale = stale
      /\ fed.doc = NoDocs /\ fed.rule = r.rule /\ fed.down = r.down /\ fed.tools = r.tools
      /\ fed.pass = r.pass
  <2>1. ASSUME NEW rd \in Reads7, NEW td \in FileList, NEW st \in Flag
        PROVE  LET w == Fed(rd, td, st)
               IN /\ w \in RunRecord /\ w.at = "stat" /\ w.subject = r.subject /\ w.todo = td
                  /\ w.scope = r.scope /\ w.read = rd /\ w.began = r.began /\ w.stale = st
                  /\ w.doc = r.doc /\ w.rule = r.rule /\ w.down = r.down /\ w.tools = r.tools
                  /\ w.pass = r.pass
    <3>1. "stat" \in Place7
      BY DEF Place7, BeforeRule, InDocs
    <3> QED
      BY <3>1 DEF RunRecord
  <2>2. stale \in Flag
    BY <1>6, EmptyThings
  <2> HIDE DEF Fed
  <2> QED
    BY <1>1, <1>2, <1>4, <2>1, <2>2
<1>9. v = (IF rest # <<>> THEN fed
           ELSE IF entries = {} /\ r.scope = "own" /\ OtherFiles(f) # <<>>
           THEN [fed EXCEPT !.scope = "other_service", !.todo = OtherFiles(f)]
           ELSE [fed EXCEPT !.at = "rule", !.doc = DocOf(r, entries), !.sig = 0,
                            !.began = [g \in File7 |-> 0]])
  BY DEF WithFile, ReadWith, read, entries, rest, stale, fed
<1> HIDE DEF fed, v
<1>10. LookupCurrent(fed) /\ FailureOwn(fed)
  BY <1>6, <1>8 DEF LookupCurrent, FailureOwn, InLookup
<1>11. CASE rest # <<>>
  <2>1. OwnFirst(fed)
    <3>1. r.scope # "own" \/ r.todo # <<own>>
      <4>1. Len(<<own>>) = 1
        OBVIOUS
      <4> QED
        BY <1>2, <1>11, <4>1
    <3>2. CASE r.scope = "all" /\ own = "none"
      BY <1>8, <3>2 DEF OwnFirst
    <3>3. CASE /\ r.scope = "other_service" /\ own \in DOMAIN r.read /\ r.read[own] = {}
               /\ \A i \in DOMAIN r.todo : r.todo[i] # own
      <4>1. own \in DOMAIN read /\ read[own] = {} /\ \A i \in DOMAIN rest : rest[i] # own
        BY <1>2, <1>4, <3>3
      <4> QED
        BY <1>8, <3>3, <4>1 DEF OwnFirst
    <3> QED
      BY <1>1, <3>1, <3>2, <3>3 DEF OwnFirst
  <2>2. LookupShape(fed)
    BY <1>8, <1>11, <2>1, EmptyThings DEF LookupShape, InDocs
  <2> QED
    BY <1>8, <1>9, <1>10, <1>11, <2>2 DEF v, f
<1>12. CASE rest = <<>> /\ entries = {} /\ r.scope = "own" /\ OtherFiles(f) # <<>>
  <2>1. OtherFiles(f) \in FileList /\ \A i \in DOMAIN OtherFiles(f) : OtherFiles(f)[i] # f
    BY <1>2, OthersAre
  <2>2. f = own /\ own \in DOMAIN read /\ read[own] = {}
    BY <1>1, <1>2, <1>4, <1>7, <1>12 DEF OwnFirst
  <2>3. /\ v \in RunRecord /\ v.at = "stat" /\ v.subject = r.subject /\ v.todo = OtherFiles(f)
        /\ v.scope = "other_service" /\ v.read = read /\ v.began = r.began /\ v.stale = stale
        /\ v.doc = NoDocs /\ v.rule = r.rule /\ v.down = r.down /\ v.tools = r.tools
        /\ v.pass = r.pass
    <3>1. v = [fed EXCEPT !.scope = "other_service", !.todo = OtherFiles(f)]
      BY <1>9, <1>12
    <3> QED
      BY <1>8, <2>1, <3>1 DEF RunRecord, Scope7
  <2>4. OwnFirst(v)
    BY <2>1, <2>2, <2>3 DEF OwnFirst
  <2>5. LookupShape(v)
    BY <1>12, <2>3, <2>4, EmptyThings DEF LookupShape, InDocs
  <2>6. LookupCurrent(v) /\ FailureOwn(v)
    BY <1>6, <2>3 DEF LookupCurrent, FailureOwn, InLookup
  <2> QED
    BY <2>3, <2>5, <2>6 DEF v, f
<1>13. CASE rest = <<>> /\ ~(entries = {} /\ r.scope = "own" /\ OtherFiles(f) # <<>>)
  <2> DEFINE doc == DocOf(r, entries)
  <2>1. /\ doc \in DocRecord /\ doc # NoDocs /\ doc.outcome # "error" /\ IsFiniteSet(doc.entries)
        /\ doc.entries \subseteq entries
        /\ \A e \in doc.entries : e.type \in {AnyType, r.subject.type}
    BY <1>7, DocOfIs
  <2> HIDE DEF doc
  <2> DEFINE zeros == [g \in File7 |-> 0]
  <2>2. zeros \in Begun /\ \A g \in File7 : zeros[g] = 0
    BY DEF Begun
  <2> HIDE DEF zeros
  <2>3. /\ v \in RunRecord /\ v.at = "rule" /\ v.subject = r.subject
        /\ v.read = read /\ v.began = zeros /\ v.stale = stale
        /\ v.doc = doc /\ v.rule = r.rule /\ v.down = r.down /\ v.tools = r.tools
        /\ v.pass = r.pass
    <3>1. v = [fed EXCEPT !.at = "rule", !.doc = doc, !.sig = 0, !.began = zeros]
      BY <1>9, <1>13 DEF doc, zeros
    <3>2. "rule" \in Place7
      BY DEF Place7, BeforeRule
    <3> QED
      BY <1>8, <2>1, <2>2, <3>1, <3>2 DEF RunRecord
  <2>4. ASSUME own \in DOMAIN read, read[own] # {}
        PROVE  \A e \in doc.entries : e.file = own
    <3>1. r.scope = "own" /\ r.todo = <<own>> /\ DOMAIN r.read = {}
      <4>1. own # "none"
        BY <1>2, <1>3, <1>4, <1>5, <2>4
      <4>2. ~(/\ r.scope = "other_service" /\ own \in DOMAIN r.read /\ r.read[own] = {}
              /\ \A i \in DOMAIN r.todo : r.todo[i] # own)
        BY <1>2, <1>4, <2>4
      <4> QED
        BY <1>1, <4>1, <4>2 DEF OwnFirst
    <3>2. DOMAIN read = {own}
      BY <1>2, <1>4, <3>1
    <3> QED
      BY <1>7, <2>1, <3>2
  <2>5. DocIsOwn(v)
    BY <2>1, <2>3, <2>4 DEF DocIsOwn
  <2>6. LookupShape(v)
    BY <2>1, <2>3, <2>5 DEF LookupShape, InDocs
  <2>7. LookupCurrent(v) /\ FailureOwn(v)
    <3>1. \A g \in File7 : zeros[g] <= store7[g].sig
      BY <2>2 DEF StoreTyped
    <3> QED
      BY <1>6, <2>3, <3>1 DEF LookupCurrent, FailureOwn, InLookup
  <2> QED
    BY <2>3, <2>6, <2>7 DEF v, f
<1> QED
  BY <1>11, <1>12, <1>13

Sound(r) == r \in RunRecord /\ LookupShape(r) /\ LookupCurrent(r) /\ FailureOwn(r)

(* One investigation moves, the store and the database stay as they are. *)
LEMMA RunMoves ==
    ASSUME RunsInv, NEW p \in Packet7, NEW w, Sound(w), run7' = [run7 EXCEPT ![p] = w],
           UNCHANGED <<store7, dbUp>>
    PROVE  RunsInv'
<1>1. run7' \in [Packet7 -> RunRecord]
  BY DEF RunsInv, Sound
<1>2. ASSUME NEW q \in Packet7
      PROVE  Sound(run7'[q])
  BY DEF RunsInv, Sound
<1>3. ASSUME NEW q \in Packet7
      PROVE  LookupShape(run7'[q]) /\ LookupCurrent(run7[q])' /\ FailureOwn(run7[q])'
  BY <1>2 DEF Sound, LookupCurrent, FailureOwn
<1> QED
  BY <1>1, <1>3 DEF RunsInv, LookupShape, OwnFirst, DocIsOwn

LEMMA PromptsWait ==
    ASSUME PromptsInv, RunsInv, NEW p \in Packet7, NEW w \in RunRecord,
           run7' = [run7 EXCEPT ![p] = w], UNCHANGED <<prompt7, left7>>,
           run7[p].at \in BeforeRule, w.pass = run7[p].pass, w.at # "review"
    PROVE  PromptsInv'
<1>1. \A q \in Packet7 : run7'[q] = IF q = p THEN w ELSE run7[q]
  BY DEF RunsInv
<1>2. Evidence(run7[p], prompt7[p])
  BY DEF PromptsInv
<1>3. Evidence(w, prompt7[p])
  BY <1>2 DEF Evidence
<1>4. \A q \in Packet7 : Evidence(run7'[q], prompt7'[q])
  BY <1>1, <1>3 DEF PromptsInv
<1> QED
  BY <1>4 DEF PromptsInv, Evidence, FitsCap

LEMMA StoreStands ==
    ASSUME StoreTyped, UNCHANGED <<table7, dbUp, ruleCache, store7, parsed7, events7>>
    PROVE  StoreTyped'
BY DEF StoreTyped

LEMMA ListFilesKeeps ==
    ASSUME ContextInv, NEW p \in Packet7, ListFiles(p)
    PROVE  ContextInv'
<1> DEFINE r == run7[p]
           own == r.subject.own
           sigs == [f \in File7 |-> store7[f].sig]
           scope == IF own = "none" THEN "all" ELSE "own"
           todo == IF own = "none" THEN FileOrder ELSE <<own>>
           no == FALSE
           Opened(rd, st, bg, sc, td) ==
               [r EXCEPT !.at = "stat", !.read = rd, !.stale = st, !.began = bg,
                         !.scope = sc, !.todo = td]
           nothing == <<>>
           w == Opened(nothing, no, sigs, scope, todo)
<1>1. /\ r \in RunRecord /\ r.at = "docs" /\ r.doc = NoDocs /\ Sound(r)
      /\ run7' = [run7 EXCEPT ![p] = w]
      /\ UNCHANGED <<table7, dbUp, ruleCache, store7, parsed7, events7, prompt7, left7>>
  <2>1. r \in RunRecord /\ Sound(r) /\ r.at = "docs"
    BY DEF ContextInv, RunsInv, ListFiles, Sound
  <2>2. r.doc = NoDocs
    BY <2>1 DEF Sound, LookupShape
  <2>3. run7' = [run7 EXCEPT ![p] = w]
    BY DEF ListFiles, ContextInv, RunsInv
  <2> QED
    BY <2>1, <2>2, <2>3 DEF ListFiles, world7
<1>2. own \in File7 \cup {"none"}
  <2>1. r.subject \in Packets7
    BY <1>1 DEF RunRecord
  <2> QED
    BY <2>1, SubjectIs
<1>3. /\ sigs \in Begun /\ \A f \in File7 : sigs[f] = store7[f].sig /\ store7[f].sig \in Nat
  BY DEF ContextInv, StoreTyped, Begun
<1>4. todo \in FileList /\ todo # <<>>
  <2>1. FileOrder \in Seq(File7) /\ FileOrder # <<>>
    <3>1. FileOrder \in Seq(File7) /\ Range(FileOrder) = File7 /\ File7 # {}
      BY ContextAssumption
    <3> QED
      BY <3>1 DEF Range
  <2>2. own \in File7 => <<own>> \in Seq(File7) /\ <<own>> # <<>>
    OBVIOUS
  <2> QED
    BY <1>2, <2>1, <2>2 DEF FileList
<1>5. scope \in Scope7 /\ (own = "none" => scope = "all") /\ (own # "none" => scope = "own" /\ todo = <<own>>)
  BY DEF Scope7
<1> HIDE DEF sigs, scope, todo
<1>6. /\ w \in RunRecord /\ w.at = "stat" /\ w.subject = r.subject /\ w.todo = todo
      /\ w.scope = scope /\ w.read = nothing /\ w.began = sigs /\ w.stale = no
      /\ w.doc = NoDocs /\ w.rule = r.rule /\ w.down = r.down /\ w.tools = r.tools
      /\ w.pass = r.pass
  <2>1. ASSUME NEW rd \in Reads7, NEW st \in Flag, NEW bg \in Begun, NEW sc \in Scope7,
               NEW td \in FileList
        PROVE  LET x == Opened(rd, st, bg, sc, td)
               IN /\ x \in RunRecord /\ x.at = "stat" /\ x.subject = r.subject /\ x.todo = td
                  /\ x.scope = sc /\ x.read = rd /\ x.began = bg /\ x.stale = st
                  /\ x.doc = r.doc /\ x.rule = r.rule /\ x.down = r.down /\ x.tools = r.tools
                  /\ x.pass = r.pass
    <3>1. "stat" \in Place7
      BY DEF Place7, BeforeRule, InDocs
    <3> HIDE DEF r
    <3> QED
      BY <1>1, <3>1 DEF RunRecord
  <2>2. nothing \in Reads7
    BY EmptyThings
  <2>3. r.doc = NoDocs
    BY <1>1
  <2>4. no \in Flag /\ sigs \in Begun /\ scope \in Scope7 /\ todo \in FileList
    BY <1>3, <1>4, <1>5, EmptyThings
  <2> HIDE DEF Opened, nothing, no, own, r
  <2> QED
    BY <2>1, <2>2, <2>3, <2>4
<1> HIDE DEF w
<1>7. OwnFirst(w)
  <2>1. DOMAIN w.read = {}
    BY <1>6
  <2> QED
    BY <1>2, <1>5, <1>6, <2>1 DEF OwnFirst
<1>8. LookupShape(w)
  BY <1>1, <1>4, <1>6, <1>7 DEF LookupShape, InDocs, Sound
<1>9. LookupCurrent(w) /\ FailureOwn(w)
  BY <1>1, <1>3, <1>6 DEF LookupCurrent, FailureOwn, InLookup, Sound
<1>10. Sound(w)
  BY <1>6, <1>8, <1>9 DEF Sound
<1>11. RunsInv'
  <2> HIDE DEF r
  <2> QED
    BY <1>1, <1>10, RunMoves DEF ContextInv
<1>12. PromptsInv'
  <2>1. r.at \in BeforeRule
    BY <1>1 DEF BeforeRule, InDocs
  <2> QED
    BY <1>1, <1>6, <2>1, PromptsWait DEF ContextInv
<1> QED
  BY <1>1, <1>11, <1>12, StoreStands DEF ContextInv

LEMMA RunGoes ==
    ASSUME ContextInv, NEW p \in Packet7, NEW w, Sound(w), run7' = [run7 EXCEPT ![p] = w],
           UNCHANGED <<store7, dbUp, prompt7, left7>>,
           run7[p].at \in BeforeRule, w.pass = run7[p].pass, w.at # "review"
    PROVE  RunsInv' /\ PromptsInv'
BY RunMoves, PromptsWait DEF ContextInv, Sound

LEMMA RunIs ==
    ASSUME ContextInv, NEW p \in Packet7
    PROVE  Sound(run7[p]) /\ StoreTyped
BY DEF ContextInv, RunsInv, Sound

LEMMA HeadIs ==
    ASSUME NEW r, Sound(r), r.at \in {"stat", "load"}
    PROVE  Head(r.todo) \in File7
<1>1. r.todo \in Seq(File7) /\ r.todo # <<>>
  BY DEF Sound, RunRecord, FileList, LookupShape
<1> QED
  BY <1>1

(* A file that changed is to be parsed. *)
LEMMA OpensFile ==
    ASSUME NEW r, Sound(r), StoreTyped, r.at = "stat"
    PROVE  LET w == [r EXCEPT !.at = "load", !.sig = store7[Head(r.todo)].sig]
           IN Sound(w) /\ w.at = "load" /\ w.pass = r.pass
<1> DEFINE f == Head(r.todo)
           n == store7[f].sig
           w == [r EXCEPT !.at = "load", !.sig = n]
<1>1. f \in File7
  BY HeadIs
<1>2. n \in Nat
  BY <1>1 DEF StoreTyped
<1> HIDE DEF n
<1>3. /\ w \in RunRecord /\ w.at = "load" /\ w.subject = r.subject /\ w.todo = r.todo
      /\ w.scope = r.scope /\ w.read = r.read /\ w.began = r.began /\ w.stale = r.stale
      /\ w.doc = r.doc /\ w.rule = r.rule /\ w.down = r.down /\ w.tools = r.tools
      /\ w.pass = r.pass /\ w.sig = n
  <2>1. "load" \in Place7
    BY DEF Place7, BeforeRule, InDocs
  <2> QED
    BY <1>2, <2>1 DEF Sound, RunRecord
<1> HIDE DEF w
<1>4. LookupShape(w)
  BY <1>3 DEF Sound, LookupShape, OwnFirst, InDocs
<1>5. LookupCurrent(w) /\ FailureOwn(w)
  BY <1>2, <1>3 DEF Sound, LookupCurrent, FailureOwn, InLookup, n
<1> QED
  BY <1>3, <1>4, <1>5 DEF Sound, w, n

LEMMA StatFileKeeps ==
    ASSUME ContextInv, NEW p \in Packet7, StatFile(p)
    PROVE  ContextInv'
<1> DEFINE r == run7[p]
           f == Head(r.todo)
<1>1. Sound(r) /\ StoreTyped /\ r.at = "stat"
  BY RunIs DEF StatFile
<1>2. f \in File7
  BY <1>1, HeadIs
<1>3. ASSUME NEW w, Sound(w), w.pass = r.pass, w.at # "review", run7' = [run7 EXCEPT ![p] = w]
      PROVE  ContextInv'
  <2>1. r.at \in BeforeRule
    BY <1>1 DEF BeforeRule, InDocs
  <2>2. UNCHANGED <<table7, dbUp, ruleCache, store7, parsed7, events7, prompt7, left7>>
    BY DEF StatFile, world7
  <2> QED
    BY <1>1, <1>3, <2>1, <2>2, RunGoes, StoreStands DEF ContextInv
<1>4. CASE parsed7[f].sig = store7[f].sig
  <2> DEFINE v == WithFile(r, f, parsed7[f].content, parsed7[f].version)
  <2>1. /\ parsed7[f].content \in Content7 /\ parsed7[f].version \in Nat
        /\ parsed7[f].sig <= parsed7[f].version /\ store7[f].sig \in Nat
    BY <1>1, <1>2 DEF StoreTyped
  <2>2. r.began[f] \in Nat /\ r.began[f] <= parsed7[f].version
    BY <1>1, <1>2, <1>4, <2>1 DEF Sound, RunRecord, Begun, LookupCurrent
  <2>3. Sound(v) /\ v.at \in {"stat", "rule"} /\ v.pass = r.pass
    BY <1>1, <2>1, <2>2, WithFileIs DEF Sound
  <2>4. run7' = [run7 EXCEPT ![p] = v]
    BY <1>4 DEF StatFile
  <2> HIDE DEF v
  <2> QED
    BY <1>3, <2>3, <2>4
<1>5. CASE parsed7[f].sig # store7[f].sig
  <2> DEFINE w == [r EXCEPT !.at = "load", !.sig = store7[f].sig]
  <2>1. Sound(w) /\ w.at = "load" /\ w.pass = r.pass
    BY <1>1, OpensFile
  <2>2. run7' = [run7 EXCEPT ![p] = w]
    BY <1>5 DEF StatFile
  <2> HIDE DEF w
  <2> QED
    BY <1>3, <2>1, <2>2
<1> QED
  BY <1>4, <1>5

(* A file that does not parse ends the lookup. *)
LEMMA TornIs ==
    ASSUME NEW r, Sound(r), r.at = "load"
    PROVE  LET w == [r EXCEPT !.at = "rule", !.doc = [NoDocs EXCEPT !.outcome = "error"]]
           IN Sound(w) /\ w.at = "rule" /\ w.pass = r.pass
<1> DEFINE d == [NoDocs EXCEPT !.outcome = "error"]
           w == [r EXCEPT !.at = "rule", !.doc = d]
<1>1. d \in DocRecord /\ d # NoDocs /\ d.outcome = "error" /\ d.entries = {}
  BY EmptyThings DEF DocRecord
<1> HIDE DEF d
<1>2. /\ w \in RunRecord /\ w.at = "rule" /\ w.subject = r.subject /\ w.read = r.read
      /\ w.began = r.began /\ w.stale = r.stale /\ w.doc = d /\ w.rule = r.rule
      /\ w.down = r.down /\ w.tools = r.tools /\ w.pass = r.pass
  <2>1. "rule" \in Place7
    BY DEF Place7, BeforeRule
  <2> QED
    BY <1>1, <2>1 DEF Sound, RunRecord
<1> HIDE DEF w
<1>3. ~(r.subject.own \in DOMAIN r.read /\ r.read[r.subject.own] # {})
  <2>1. OwnFirst(r) /\ r.read \in Reads7
    BY DEF Sound, LookupShape, RunRecord
  <2>2. DOMAIN r.read \subseteq File7 /\ "none" \notin File7
    BY <2>1, ContextAssumption DEF Reads7
  <2> QED
    BY <2>1, <2>2 DEF OwnFirst
<1>4. LookupShape(w)
  <2>1. DocIsOwn(w)
    BY <1>1, <1>2, <1>3 DEF DocIsOwn
  <2> QED
    BY <1>1, <1>2, <2>1, EmptyThings DEF Sound, LookupShape, InDocs
<1>5. LookupCurrent(w) /\ FailureOwn(w)
  BY <1>2 DEF Sound, LookupCurrent, FailureOwn, InLookup
<1> QED
  BY <1>2, <1>4, <1>5 DEF Sound, w, d

LEMMA LoadFileKeeps ==
    ASSUME ContextInv, NEW p \in Packet7, LoadFile(p)
    PROVE  ContextInv'
<1> DEFINE r == run7[p]
           f == Head(r.todo)
           c == store7[f].content
           n == store7[f].sig
<1>1. Sound(r) /\ StoreTyped /\ r.at = "load"
  BY RunIs DEF LoadFile
<1>2. f \in File7
  BY <1>1, HeadIs
<1>3. /\ c \in Documents /\ c \in Content7 /\ n \in Nat /\ r.sig \in Nat /\ r.sig <= n
      /\ r.began[f] <= n
  <2>1. c \in Documents /\ n \in Nat
    BY <1>1, <1>2 DEF StoreTyped
  <2>2. r.sig \in Nat /\ r.sig <= n /\ r.began[f] <= n
    BY <1>1, <1>2 DEF Sound, RunRecord, LookupCurrent
  <2> QED
    BY <2>1, <2>2 DEF Content7
<1>4. /\ r.at \in BeforeRule
      /\ UNCHANGED <<table7, dbUp, ruleCache, store7, events7, prompt7, left7>>
  BY <1>1 DEF LoadFile, BeforeRule, InDocs, world7
<1>5. CASE c = Torn
  <2> DEFINE w == [r EXCEPT !.at = "rule", !.doc = [NoDocs EXCEPT !.outcome = "error"]]
  <2>1. Sound(w) /\ w.at = "rule" /\ w.pass = r.pass
    BY <1>1, TornIs
  <2>2. run7' = [run7 EXCEPT ![p] = w] /\ UNCHANGED parsed7
    <3>1. run7' = [run7 EXCEPT ![p].at = "rule", ![p].doc = [NoDocs EXCEPT !.outcome = "error"]]
      BY <1>5 DEF LoadFile
    <3> QED
      BY <1>5, <3>1 DEF LoadFile, ContextInv, RunsInv
  <2> HIDE DEF w
  <2> QED
    BY <1>1, <1>4, <2>1, <2>2, RunGoes, StoreStands DEF ContextInv
<1>6. CASE c # Torn
  <2> DEFINE v == WithFile(r, f, c, n)
             k == [sig |-> r.sig, content |-> c, version |-> n]
  <2>1. Sound(v) /\ v.at \in {"stat", "rule"} /\ v.pass = r.pass
    BY <1>1, <1>3, WithFileIs DEF Sound
  <2>2. run7' = [run7 EXCEPT ![p] = v] /\ parsed7' = [parsed7 EXCEPT ![f] = k]
    BY <1>6 DEF LoadFile
  <2> HIDE DEF v
  <2>3. StoreTyped'
    <3>1. /\ k \in [sig : Nat, content : Content7, version : Nat]
          /\ k.sig <= n /\ k.sig <= k.version /\ k.content # Torn
      BY <1>3, <1>6
    <3>2. \A g \in File7 : parsed7'[g] = IF g = f THEN k ELSE parsed7[g]
      BY <1>1, <2>2 DEF StoreTyped
    <3> HIDE DEF k
    <3>3. parsed7' \in [File7 -> [sig : Nat, content : Content7, version : Nat]]
      BY <1>1, <2>2, <3>1 DEF StoreTyped
    <3>4. \A g \in File7 :
              /\ parsed7'[g].sig <= store7[g].sig /\ parsed7'[g].sig <= parsed7'[g].version
              /\ parsed7'[g].content # Torn
      BY <1>1, <3>1, <3>2 DEF StoreTyped
    <3> QED
      BY <1>1, <1>4, <3>3, <3>4 DEF StoreTyped
  <2> QED
    BY <1>1, <1>4, <2>1, <2>2, <2>3, RunGoes DEF ContextInv
<1> QED
  BY <1>5, <1>6

(* The rules of a packet *)
AnyRule(rule) == rule \in RuleRecord /\ IsFiniteSet(rule.rows)

LEMMA FilteredIs ==
    ASSUME NEW rule, AnyRule(rule), NEW type
    PROVE  AnyRule(Filtered(rule, type)) /\ Filtered(rule, type).found = rule.found
<1> DEFINE kept == {t \in rule.rows : t \in {AnyType, type}}
<1>1. kept \subseteq rule.rows /\ rule.rows \in SUBSET UNION Tables
  BY DEF AnyRule, RuleRecord
<1>2. IsFiniteSet(kept)
  BY <1>1, FS_Subset DEF AnyRule
<1> HIDE DEF kept
<1>3. AnyRule([rule EXCEPT !.rows = kept]) /\ [rule EXCEPT !.rows = kept].found = rule.found
  BY <1>1, <1>2 DEF AnyRule, RuleRecord
<1>4. Filtered(rule, type) = rule \/ Filtered(rule, type) = [rule EXCEPT !.rows = kept]
  BY DEF Filtered, kept
<1> QED
  BY <1>3, <1>4

LEMMA InformedIs ==
    ASSUME StoreTyped, NEW r \in RunRecord, LookupShape(r), LookupCurrent(r),
           r.at \in {"rule", "keep"}, NEW rule, AnyRule(rule),
           rule.found = "failed" => r.down = TRUE
    PROVE  LET w == Informed(r, rule)
           IN Sound(w) /\ w.at \in {"investigate", "done"} /\ w.pass = r.pass
<1> DEFINE at == IF r.subject.runbook THEN "done" ELSE "investigate"
           w == [r EXCEPT !.at = at, !.rule = rule]
<1>1. at \in {"investigate", "done"} /\ at \in Place7 /\ rule \in RuleRecord
  BY DEF Place7, AnyRule
<1> HIDE DEF at
<1>2. /\ w \in RunRecord /\ w.at = at /\ w.subject = r.subject /\ w.read = r.read
      /\ w.began = r.began /\ w.stale = r.stale /\ w.doc = r.doc /\ w.rule = rule
      /\ w.down = r.down /\ w.tools = r.tools /\ w.pass = r.pass
  BY <1>1 DEF RunRecord
<1>3. Informed(r, rule) = w
  BY DEF Informed, at
<1> HIDE DEF w
<1>4. LookupShape(w)
  BY <1>1, <1>2 DEF LookupShape, DocIsOwn, InDocs, AnyRule
<1>5. LookupCurrent(w) /\ FailureOwn(w)
  BY <1>1, <1>2 DEF LookupCurrent, FailureOwn, InLookup
<1> QED
  BY <1>1, <1>2, <1>3, <1>4, <1>5 DEF Sound

(* Whether the database is down is noted. *)
LEMMA NotedIs ==
    ASSUME NEW r, Sound(r), r.at = "rule", NEW b \in Flag
    PROVE  LET w == [r EXCEPT !.down = b]
           IN /\ w \in RunRecord /\ LookupShape(w) /\ LookupCurrent(w)
              /\ w.at = "rule" /\ w.pass = r.pass
<1> DEFINE w == [r EXCEPT !.down = b]
<1>1. /\ w \in RunRecord /\ w.at = "rule" /\ w.subject = r.subject /\ w.read = r.read
      /\ w.began = r.began /\ w.stale = r.stale /\ w.doc = r.doc /\ w.rule = r.rule
      /\ w.tools = r.tools /\ w.pass = r.pass
  BY DEF Sound, RunRecord
<1> HIDE DEF w
<1>2. LookupShape(w) /\ LookupCurrent(w)
  BY <1>1 DEF Sound, LookupShape, DocIsOwn, InDocs, LookupCurrent
<1> QED
  BY <1>1, <1>2 DEF w

LEMMA AsksIs ==
    ASSUME NEW r, Sound(r), r.at = "rule", NEW b \in Flag, dbUp # TRUE => b = TRUE
    PROVE  LET w == [r EXCEPT !.at = "query", !.down = b]
           IN Sound(w) /\ w.at = "query" /\ w.pass = r.pass
<1> DEFINE w == [r EXCEPT !.at = "query", !.down = b]
<1>1. /\ w \in RunRecord /\ w.at = "query" /\ w.subject = r.subject /\ w.read = r.read
      /\ w.began = r.began /\ w.stale = r.stale /\ w.doc = r.doc /\ w.rule = r.rule
      /\ w.tools = r.tools /\ w.pass = r.pass /\ w.down = b
  <2>1. "query" \in Place7
    BY DEF Place7, BeforeRule
  <2> QED
    BY <2>1 DEF Sound, RunRecord
<1> HIDE DEF w
<1>2. LookupShape(w) /\ LookupCurrent(w)
  BY <1>1 DEF Sound, LookupShape, DocIsOwn, InDocs, LookupCurrent
<1>3. FailureOwn(w)
  BY <1>1 DEF Sound, FailureOwn
<1> QED
  BY <1>1, <1>2, <1>3 DEF Sound, w

LEMMA ReadRuleCacheKeeps ==
    ASSUME ContextInv, NEW p \in Packet7, ReadRuleCache(p)
    PROVE  ContextInv'
<1> DEFINE r == run7[p]
           down == ~dbUp
           noted == [r EXCEPT !.down = down]
<1>1. Sound(r) /\ StoreTyped /\ r.at = "rule"
  BY RunIs DEF ReadRuleCache
<1>2. down \in Flag /\ (dbUp # TRUE => down = TRUE)
  BY <1>1 DEF StoreTyped, Flag
<1>3. ASSUME NEW w, Sound(w), w.pass = r.pass, w.at # "review", run7' = [run7 EXCEPT ![p] = w]
      PROVE  ContextInv'
  <2>1. r.at \in BeforeRule
    BY <1>1 DEF BeforeRule
  <2>2. UNCHANGED <<table7, dbUp, ruleCache, store7, parsed7, events7, prompt7, left7>>
    BY DEF ReadRuleCache, world7
  <2> QED
    BY <1>1, <1>3, <2>1, <2>2, RunGoes, StoreStands DEF ContextInv
<1> HIDE DEF down
<1>4. /\ noted \in RunRecord /\ LookupShape(noted) /\ LookupCurrent(noted)
      /\ noted.at = "rule" /\ noted.pass = r.pass
  BY <1>1, <1>2, NotedIs
<1> HIDE DEF noted
<1>5. CASE ~r.subject.rulesDb
  <2> DEFINE w == Informed(r, NoRule)
  <2>1. AnyRule(NoRule) /\ NoRule.found # "failed"
    BY EmptyThings DEF AnyRule
  <2>2. Sound(w) /\ w.at \in {"investigate", "done"} /\ w.pass = r.pass
    BY <1>1, <2>1, InformedIs DEF Sound
  <2>3. run7' = [run7 EXCEPT ![p] = w]
    BY <1>5 DEF ReadRuleCache
  <2> HIDE DEF w
  <2> QED
    BY <1>3, <2>2, <2>3
<1>6. CASE r.subject.rulesDb /\ ruleCache # NoRule
  <2> DEFINE w == Informed(noted, Filtered(ruleCache, r.subject.type))
  <2>1. /\ AnyRule(Filtered(ruleCache, r.subject.type))
        /\ Filtered(ruleCache, r.subject.type).found # "failed"
    BY <1>1, FilteredIs DEF StoreTyped, AnyRule
  <2>2. Sound(w) /\ w.at \in {"investigate", "done"} /\ w.pass = r.pass
    BY <1>1, <1>4, <2>1, InformedIs
  <2>3. run7' = [run7 EXCEPT ![p] = w]
    BY <1>6 DEF ReadRuleCache, noted, down
  <2> HIDE DEF w
  <2> QED
    BY <1>3, <2>2, <2>3
<1>7. CASE r.subject.rulesDb /\ ruleCache = NoRule
  <2> DEFINE w == [r EXCEPT !.at = "query", !.down = down]
  <2>1. Sound(w) /\ w.at = "query" /\ w.pass = r.pass
    BY <1>1, <1>2, AsksIs
  <2>2. run7' = [run7 EXCEPT ![p] = w]
    BY <1>7 DEF ReadRuleCache, down
  <2> HIDE DEF w
  <2> QED
    BY <1>3, <2>1, <2>2
<1> QED
  BY <1>5, <1>6, <1>7

LEMMA QueryRulesKeeps ==
    ASSUME ContextInv, NEW p \in Packet7, QueryRules(p)
    PROVE  ContextInv'
<1> DEFINE r == run7[p]
           answer == IF ~dbUp THEN [found |-> "failed", rows |-> {}]
                     ELSE [found |-> IF table7 = {} THEN "not_found" ELSE "rows", rows |-> table7]
           w == [r EXCEPT !.at = "keep", !.rule = answer]
<1>1. Sound(r) /\ StoreTyped /\ r.at = "query"
  BY RunIs DEF QueryRules
<1>2. AnyRule(answer) /\ (answer.found = "failed" => dbUp # TRUE)
  <2>1. table7 \in SUBSET UNION Tables /\ IsFiniteSet(table7)
    BY <1>1, ContextAssumption DEF StoreTyped
  <2> QED
    BY <1>1, <2>1, EmptyThings DEF AnyRule, RuleRecord, StoreTyped, Flag
<1>3. run7' = [run7 EXCEPT ![p] = w]
  <2>1. run7' = [run7 EXCEPT ![p].at = "keep", ![p].rule = answer]
    BY DEF QueryRules
  <2> HIDE DEF answer
  <2> QED
    BY <2>1 DEF ContextInv, RunsInv
<1> HIDE DEF answer
<1>4. /\ w \in RunRecord /\ w.at = "keep" /\ w.subject = r.subject /\ w.read = r.read
      /\ w.began = r.began /\ w.stale = r.stale /\ w.doc = r.doc /\ w.rule = answer
      /\ w.tools = r.tools /\ w.pass = r.pass /\ w.down = r.down
  <2>1. "keep" \in Place7
    BY DEF Place7, BeforeRule
  <2> QED
    BY <1>1, <1>2, <2>1 DEF Sound, RunRecord, AnyRule
<1> HIDE DEF w
<1>5. LookupShape(w) /\ LookupCurrent(w)
  BY <1>1, <1>2, <1>4 DEF Sound, LookupShape, DocIsOwn, InDocs, LookupCurrent, AnyRule
<1>6. FailureOwn(w)
  <2>1. dbUp # TRUE => r.down = TRUE
    BY <1>1 DEF Sound, FailureOwn, InLookup
  <2> QED
    BY <1>2, <1>4, <2>1 DEF FailureOwn
<1>7. Sound(w)
  BY <1>4, <1>5, <1>6 DEF Sound
<1>8. r.at \in BeforeRule
  BY <1>1 DEF BeforeRule
<1>9. UNCHANGED <<table7, dbUp, ruleCache, store7, parsed7, events7, prompt7, left7>>
  BY DEF QueryRules, world7
<1> QED
  BY <1>1, <1>3, <1>4, <1>7, <1>8, <1>9, RunGoes, StoreStands DEF ContextInv

LEMMA KeepRuleKeeps ==
    ASSUME ContextInv, NEW p \in Packet7, KeepRule(p)
    PROVE  ContextInv'
<1> DEFINE r == run7[p]
           answer == Filtered(r.rule, r.subject.type)
           w == Informed(r, answer)
<1>1. Sound(r) /\ StoreTyped /\ r.at = "keep"
  BY RunIs DEF KeepRule
<1>2. AnyRule(r.rule)
  BY <1>1 DEF Sound, RunRecord, LookupShape, AnyRule
<1>3. AnyRule(answer) /\ answer.found = r.rule.found
  BY <1>2, FilteredIs
<1>4. r.rule.found = "failed" => r.down = TRUE
  BY <1>1 DEF Sound, FailureOwn
<1> HIDE DEF answer
<1>5. Sound(w) /\ w.at \in {"investigate", "done"} /\ w.pass = r.pass
  BY <1>1, <1>3, <1>4, InformedIs DEF Sound
<1>6. run7' = [run7 EXCEPT ![p] = w]
  BY DEF KeepRule, answer
<1>7. StoreTyped'
  <2>1. UNCHANGED <<table7, dbUp, store7, parsed7, events7>>
    BY DEF KeepRule, world7
  <2>2. ruleCache' \in RuleRecord /\ ruleCache'.found # "failed" /\ IsFiniteSet(ruleCache'.rows)
    BY <1>1, <1>2 DEF KeepRule, Cacheable, AnyRule, StoreTyped
  <2> QED
    BY <1>1, <2>1, <2>2 DEF StoreTyped
<1>8. r.at \in BeforeRule
  BY <1>1 DEF BeforeRule
<1>9. UNCHANGED <<dbUp, store7, prompt7, left7>>
  BY DEF KeepRule, world7
<1> HIDE DEF w
<1> QED
  BY <1>5, <1>6, <1>7, <1>8, <1>9, RunGoes DEF ContextInv

(* The world around the investigations *)
LEMMA EventIs ==
    ASSUME StoreTyped, Event7
    PROVE  events7' \in 0..MaxEvents7
<1>1. MaxEvents7 \in Nat
  BY ContextAssumption
<1>2. events7 \in 0..MaxEvents7
  BY DEF StoreTyped
<1> QED
  BY <1>1, <1>2 DEF Event7

LEMMA EditFileKeeps ==
    ASSUME ContextInv, EditFile
    PROVE  ContextInv'
<1>1. PICK f \in File7, d \in Documents :
         store7' = [store7 EXCEPT ![f] = [sig |-> @.sig + 1, content |-> d]]
  BY DEF EditFile
<1>2. UNCHANGED <<table7, dbUp, ruleCache, parsed7, run7, left7, prompt7>>
  BY DEF EditFile, world7
<1> DEFINE n == store7[f].sig + 1
<1>3. n \in Nat \ {0} /\ store7[f].sig <= n /\ store7[f].sig \in Nat
  BY DEF ContextInv, StoreTyped
<1>4. store7' = [store7 EXCEPT ![f] = [sig |-> n, content |-> d]]
  BY <1>1
<1> HIDE DEF n
<1>5. store7' \in [File7 -> [sig : Nat \ {0}, content : Documents]]
  BY <1>3, <1>4 DEF ContextInv, StoreTyped
<1>6. \A g \in File7 : store7[g].sig <= store7'[g].sig /\ store7[g].sig \in Nat /\ store7'[g].sig \in Nat
  BY <1>3, <1>4 DEF ContextInv, StoreTyped
<1>7. StoreTyped'
  <2>1. \A g \in File7 : parsed7[g].sig <= store7'[g].sig
    BY <1>6 DEF ContextInv, StoreTyped
  <2>2. events7' \in 0..MaxEvents7
    BY EventIs DEF EditFile, ContextInv
  <2> QED
    BY <1>2, <1>5, <2>1, <2>2 DEF ContextInv, StoreTyped
<1>8. RunsInv'
  <2>1. ASSUME NEW p \in Packet7
        PROVE  LookupShape(run7[p])' /\ LookupCurrent(run7[p])' /\ FailureOwn(run7[p])'
    <3>1. Sound(run7[p])
      BY RunIs
    <3>2. \A g \in File7 : run7[p].began[g] \in Nat
      BY <3>1 DEF Sound, RunRecord, Begun
    <3>3. run7[p].at = "load" => Head(run7[p].todo) \in File7 /\ run7[p].sig \in Nat
      BY <3>1, HeadIs DEF Sound, RunRecord
    <3>4. LookupCurrent(run7[p])'
      BY <1>2, <1>6, <3>1, <3>2, <3>3 DEF Sound, LookupCurrent
    <3>5. LookupShape(run7[p])' /\ FailureOwn(run7[p])'
      BY <1>2, <3>1 DEF Sound, LookupShape, OwnFirst, DocIsOwn, FailureOwn, InLookup
    <3> QED
      BY <3>4, <3>5
  <2> QED
    BY <1>2, <2>1 DEF ContextInv, RunsInv
<1>9. PromptsInv'
  BY <1>2 DEF ContextInv, PromptsInv, Evidence, FitsCap
<1> QED
  BY <1>7, <1>8, <1>9 DEF ContextInv

LEMMA RunsStand ==
    ASSUME ContextInv, UNCHANGED <<store7, run7>>, dbUp' = dbUp \/ dbUp' = TRUE
    PROVE  RunsInv'
<1>1. ASSUME NEW p \in Packet7
      PROVE  LookupShape(run7[p])' /\ LookupCurrent(run7[p])' /\ FailureOwn(run7[p])'
  <2>1. LookupShape(run7[p])'
    BY RunIs DEF Sound, LookupShape, OwnFirst, DocIsOwn
  <2>2. LookupCurrent(run7[p])'
    BY RunIs DEF Sound, LookupCurrent
  <2>3. FailureOwn(run7[p])'
    BY RunIs DEF Sound, FailureOwn, InLookup
  <2> QED
    BY <2>1, <2>2, <2>3
<1> QED
  BY <1>1 DEF ContextInv, RunsInv

LEMMA PromptsStand ==
    ASSUME ContextInv, UNCHANGED <<run7, prompt7, left7>>
    PROVE  PromptsInv'
BY DEF ContextInv, PromptsInv, Evidence, FitsCap

LEMMA TableKeeps ==
    ASSUME ContextInv, EditTable \/ RuleExpires
    PROVE  ContextInv'
<1>1. UNCHANGED <<dbUp, store7, parsed7, run7, left7, prompt7>>
  BY DEF EditTable, RuleExpires, world7
<1>2. table7' \in Tables /\ events7' \in 0..MaxEvents7
  BY EventIs DEF EditTable, RuleExpires, world7, ContextInv, StoreTyped
<1>3. ruleCache' \in RuleRecord /\ ruleCache'.found # "failed" /\ IsFiniteSet(ruleCache'.rows)
  BY EmptyThings DEF EditTable, RuleExpires, ContextInv, StoreTyped
<1>4. StoreTyped'
  BY <1>1, <1>2, <1>3 DEF ContextInv, StoreTyped
<1> QED
  BY <1>1, <1>4, RunsStand, PromptsStand DEF ContextInv

LEMMA RulesDbUpKeeps ==
    ASSUME ContextInv, RulesDbUp
    PROVE  ContextInv'
<1>1. /\ UNCHANGED <<table7, ruleCache, store7, parsed7, run7, left7, prompt7, events7>>
      /\ dbUp' = TRUE
  BY DEF RulesDbUp
<1>2. StoreTyped'
  BY <1>1, EmptyThings DEF ContextInv, StoreTyped
<1> QED
  BY <1>1, <1>2, RunsStand, PromptsStand DEF ContextInv

LEMMA RulesDbDownKeeps ==
    ASSUME ContextInv, RulesDbDown
    PROVE  ContextInv'
<1> DEFINE Down(p) == run7[p].down \/ InLookup(run7[p])
           Noted(r, b) == [r EXCEPT !.down = b]
<1>1. /\ UNCHANGED <<table7, ruleCache, store7, parsed7, left7, prompt7>>
      /\ dbUp' = FALSE /\ run7' = [p \in Packet7 |-> Noted(run7[p], Down(p))]
  BY DEF RulesDbDown
<1>2. StoreTyped'
  <2>1. events7' \in 0..MaxEvents7
    BY EventIs DEF RulesDbDown, ContextInv
  <2> QED
    BY <1>1, <2>1, EmptyThings DEF ContextInv, StoreTyped
<1>3. ASSUME NEW r, Sound(r), NEW b \in Flag
      PROVE  LET w == Noted(r, b)
             IN /\ w \in RunRecord /\ LookupShape(w) /\ LookupCurrent(w)
                /\ w.at = r.at /\ w.pass = r.pass /\ w.rule = r.rule /\ w.doc = r.doc
                /\ w.tools = r.tools /\ w.subject = r.subject /\ w.down = b
  <2> DEFINE w == Noted(r, b)
  <2>1. /\ w \in RunRecord /\ w.at = r.at /\ w.subject = r.subject /\ w.todo = r.todo
        /\ w.scope = r.scope /\ w.sig = r.sig /\ w.read = r.read
        /\ w.began = r.began /\ w.stale = r.stale /\ w.doc = r.doc /\ w.rule = r.rule
        /\ w.tools = r.tools /\ w.pass = r.pass /\ w.down = b
    BY <1>3 DEF Sound, RunRecord
  <2> HIDE DEF w
  <2>2. LookupShape(w)
    BY <1>3, <2>1 DEF Sound, LookupShape, OwnFirst, DocIsOwn
  <2>3. LookupCurrent(w)
    BY <1>3, <2>1 DEF Sound, LookupCurrent
  <2> QED
    BY <2>1, <2>2, <2>3 DEF w
<1>4. ASSUME NEW p \in Packet7
      PROVE  Down(p) \in Flag /\ (run7[p].down = TRUE => Down(p) = TRUE)
             /\ (InLookup(run7[p]) => Down(p) = TRUE)
  BY RunIs DEF Sound, RunRecord, Flag
<1> HIDE DEF Down, Noted
<1>5. ASSUME NEW p \in Packet7
      PROVE  /\ run7'[p] \in RunRecord /\ LookupShape(run7'[p]) /\ LookupCurrent(run7'[p])
             /\ run7'[p].at = run7[p].at /\ run7'[p].pass = run7[p].pass
             /\ run7'[p].rule = run7[p].rule /\ run7'[p].doc = run7[p].doc
             /\ run7'[p].tools = run7[p].tools /\ run7'[p].subject = run7[p].subject
             /\ run7'[p].down = Down(p)
  BY <1>1, <1>3, <1>4, RunIs
<1>6. RunsInv'
  <2>1. run7' \in [Packet7 -> RunRecord]
    BY <1>1, <1>5
  <2>2. ASSUME NEW p \in Packet7
        PROVE  LookupCurrent(run7[p])'
    BY <1>1, <1>5 DEF LookupCurrent
  <2>3. ASSUME NEW p \in Packet7
        PROVE  FailureOwn(run7[p])'
    <3>1. FailureOwn(run7[p])
      BY RunIs DEF Sound
    <3> QED
      BY <1>4, <1>5, <3>1 DEF FailureOwn, InLookup
  <2>4. ASSUME NEW p \in Packet7
        PROVE  LookupShape(run7[p])'
    BY <1>5 DEF LookupShape, OwnFirst, DocIsOwn
  <2> QED
    BY <2>1, <2>2, <2>3, <2>4 DEF RunsInv
<1>7. PromptsInv'
  <2>1. ASSUME NEW p \in Packet7
        PROVE  Evidence(run7[p], prompt7[p])'
    BY <1>1, <1>5 DEF ContextInv, PromptsInv, Evidence, DocShown
  <2> QED
    BY <1>1, <2>1 DEF ContextInv, PromptsInv, FitsCap
<1> QED
  BY <1>2, <1>6, <1>7 DEF ContextInv

(* A graph resumes where it was. *)
LEMMA ResumedIs ==
    ASSUME NEW r, Sound(r), StoreTyped
    PROVE  LET w == ResumedAt(r)
           IN /\ Sound(w) /\ w.pass = (IF r.at \in InDocs THEN 0 ELSE r.pass)
              /\ IF r.at \in BeforeRule \/ (r.at = "investigate" /\ r.pass = 0)
                 THEN w.at \in {"docs", "rule"} ELSE w = r
<1> DEFINE again == [r EXCEPT !.at = "rule", !.rule = NoRule, !.down = FALSE]
<1>1. r.subject \in Packets7 /\ r.at \in Place7
  BY DEF Sound, RunRecord
<1>2. CASE r.at \in InDocs
  <2> DEFINE w == Begin7(r.subject)
  <2>1. Sound(w) /\ w.at = "docs" /\ w.pass = 0
    BY <1>1, BeginIs DEF Sound
  <2>2. ResumedAt(r) = w
    BY <1>2 DEF ResumedAt, InDocs
  <2> HIDE DEF w
  <2> QED
    BY <1>2, <2>1, <2>2 DEF BeforeRule
<1>3. CASE r.at \notin InDocs /\ (r.at \in BeforeRule \/ (r.at = "investigate" /\ r.pass = 0))
  <2>1. ResumedAt(r) = again
    BY <1>3 DEF ResumedAt, BeforeRule, InDocs
  <2>2. /\ again \in RunRecord /\ again.at = "rule" /\ again.subject = r.subject
        /\ again.read = r.read /\ again.began = r.began /\ again.stale = r.stale
        /\ again.doc = r.doc /\ again.rule = NoRule
        /\ again.tools = r.tools /\ again.pass = r.pass
    <3>1. "rule" \in Place7
      BY DEF Place7, BeforeRule
    <3> QED
      BY <3>1, EmptyThings DEF Sound, RunRecord
  <2> HIDE DEF again
  <2>3. LookupShape(again) /\ LookupCurrent(again) /\ FailureOwn(again)
    BY <1>3, <2>2, EmptyThings
       DEF Sound, LookupShape, DocIsOwn, InDocs, LookupCurrent, FailureOwn, InLookup
  <2> QED
    BY <1>3, <2>1, <2>2, <2>3 DEF Sound
<1>4. CASE ~(r.at \in BeforeRule \/ (r.at = "investigate" /\ r.pass = 0))
  <2>1. ResumedAt(r) = r
    BY <1>4 DEF ResumedAt, BeforeRule, InDocs
  <2> QED
    BY <1>4, <2>1 DEF BeforeRule
<1> QED
  BY <1>2, <1>3, <1>4 DEF BeforeRule

LEMMA Dies7Keeps ==
    ASSUME ContextInv, Dies7
    PROVE  ContextInv'
<1>1. /\ UNCHANGED <<table7, dbUp, store7, left7, prompt7>> /\ ruleCache' = NoRule
      /\ parsed7' = [f \in File7 |-> [sig |-> 0, content |-> {}, version |-> 0]]
      /\ run7' = [p \in Packet7 |-> ResumedAt(run7[p])]
  BY DEF Dies7, world7
<1>2. StoreTyped'
  <2>1. events7' \in 0..MaxEvents7
    BY EventIs DEF Dies7, ContextInv
  <2>2. ruleCache' \in RuleRecord /\ ruleCache'.found # "failed" /\ IsFiniteSet(ruleCache'.rows)
    BY <1>1, EmptyThings
  <2>3. parsed7' \in [File7 -> [sig : Nat, content : Content7, version : Nat]]
    BY <1>1 DEF Content7
  <2>4. \A f \in File7 : /\ parsed7'[f].sig = 0 /\ parsed7'[f].version = 0
                          /\ parsed7'[f].content = {} /\ store7[f].sig \in Nat
    BY <1>1 DEF ContextInv, StoreTyped
  <2>5. {} # Torn
    BY DEF Torn
  <2> QED
    BY <1>1, <2>1, <2>2, <2>3, <2>4, <2>5 DEF ContextInv, StoreTyped
<1>3. ASSUME NEW p \in Packet7
      PROVE  LET r == run7[p] w == run7'[p]
             IN /\ Sound(r) /\ Sound(w) /\ w.pass = (IF r.at \in InDocs THEN 0 ELSE r.pass)
                /\ IF r.at \in BeforeRule \/ (r.at = "investigate" /\ r.pass = 0)
                   THEN w.at \in {"docs", "rule"} ELSE w = r
  BY <1>1, RunIs, ResumedIs
<1>4. RunsInv'
  <2>1. run7' \in [Packet7 -> RunRecord]
    BY <1>1, <1>3 DEF Sound
  <2>2. ASSUME NEW p \in Packet7
        PROVE  LookupShape(run7[p])' /\ LookupCurrent(run7[p])' /\ FailureOwn(run7[p])'
    <3>1. Sound(run7'[p])
      BY <1>3
    <3> QED
      BY <1>1, <3>1 DEF Sound, LookupShape, OwnFirst, DocIsOwn, LookupCurrent, FailureOwn, InLookup
  <2> QED
    BY <2>1, <2>2 DEF RunsInv
<1>5. PromptsInv'
  <2>1. ASSUME NEW p \in Packet7
        PROVE  Evidence(run7[p], prompt7[p])'
    <3>1. Evidence(run7[p], prompt7[p])
      BY DEF ContextInv, PromptsInv
    <3>2. CASE run7[p].at \in BeforeRule \/ (run7[p].at = "investigate" /\ run7[p].pass = 0)
      <4>1. run7[p].pass = 0 /\ prompt7[p].reviewer = NoPrompt
        BY <3>1, <3>2 DEF Evidence
      <4>2. run7'[p].pass = 0 /\ run7'[p].at \in {"docs", "rule"}
        BY <1>3, <3>2, <4>1
      <4> QED
        BY <1>1, <4>1, <4>2 DEF Evidence
    <3>3. CASE ~(run7[p].at \in BeforeRule \/ (run7[p].at = "investigate" /\ run7[p].pass = 0))
      <4>1. run7'[p] = run7[p]
        BY <1>3, <3>3
      <4> QED
        BY <1>1, <3>1, <4>1 DEF Evidence
    <3> QED
      BY <3>2, <3>3
  <2> QED
    BY <1>1, <2>1 DEF ContextInv, PromptsInv, FitsCap
<1> QED
  BY <1>2, <1>4, <1>5 DEF ContextInv

(* The prompts: what is cut, and what is left of the trace *)
LEMMA FitIs ==
    ASSUME NEW skeleton \in Nat, NEW logs \in Nat
    PROVE  LET t == Fit(skeleton, logs)
           IN /\ t.kept \in Nat /\ t.size \in Nat /\ t.omitted \in Flag
              /\ t.size <= PromptCap \/ t.omitted = TRUE
              /\ skeleton + logs <= PromptCap => t.kept = logs
<1> DEFINE room == PromptCap - skeleton
           half == KeptHalf(room, logs)
           omission == [kept |-> 0, size |-> skeleton + OmittedSize, omitted |-> TRUE]
           cut == skeleton + 2 * half + MarkerSize(logs - 2 * half)
           t == Fit(skeleton, logs)
<1>1. /\ PromptCap \in Nat /\ MarkerBase \in Nat /\ OmittedSize \in Nat /\ room \in Int
  BY ContextAssumption
<1>2. half \in Nat /\ (half > 0 => 2 * half + MarkerSize(logs) <= room)
  <2>1. Digits(logs) \in Nat
    BY DEF Digits
  <2> HIDE DEF room
  <2>2. ASSUME NEW m \in Int
        PROVE  m \div 2 \in Int /\ 2 * (m \div 2) <= m
    OBVIOUS
  <2>3. MarkerSize(logs) \in Nat
    BY <1>1, <2>1 DEF MarkerSize
  <2> DEFINE h == (room - MarkerSize(logs)) \div 2
  <2>4. h \in Int /\ 2 * h <= room - MarkerSize(logs)
    BY <1>1, <2>2, <2>3
  <2>5. half = IF h > 0 THEN h ELSE 0
    BY DEF KeptHalf
  <2> HIDE DEF h, half
  <2> QED
    BY <1>1, <2>3, <2>4, <2>5
<1> HIDE DEF half
<1>3. t =
         IF logs <= room THEN [kept |-> logs, size |-> skeleton + logs, omitted |-> FALSE]
         ELSE IF room < MinLogRoom \/ half = 0 THEN omission
         ELSE [kept |-> 2 * half, omitted |-> FALSE, size |-> cut]
  BY DEF Fit, half
<1> HIDE DEF t
<1>4. CASE logs <= room
  <2>1. t = [kept |-> logs, size |-> skeleton + logs, omitted |-> FALSE]
    BY <1>3, <1>4
  <2>2. skeleton + logs \in Nat /\ skeleton + logs <= PromptCap
    BY <1>1, <1>4
  <2>3. t.kept = logs /\ t.size = skeleton + logs /\ t.omitted = FALSE
    BY <2>1
  <2> QED
    BY <2>2, <2>3, EmptyThings DEF t
<1>5. CASE ~(logs <= room) /\ (room < MinLogRoom \/ half = 0)
  <2>1. t = omission
    BY <1>3, <1>5
  <2>2. skeleton + OmittedSize \in Nat /\ ~(skeleton + logs <= PromptCap)
    BY <1>1, <1>5
  <2>3. t.kept = 0 /\ t.size = skeleton + OmittedSize /\ t.omitted = TRUE
    BY <2>1
  <2>4. t.kept \in Nat /\ t.size \in Nat /\ t.omitted \in Flag
    <3>1. t.kept \in Nat /\ t.size \in Nat
      BY <2>2, <2>3
    <3>2. t.omitted \in Flag
      BY <2>3, EmptyThings
    <3> QED
      BY <3>1, <3>2
  <2>5. t.size <= PromptCap \/ t.omitted = TRUE
    BY <2>3
  <2> QED
    BY <2>2, <2>4, <2>5 DEF t
<1>6. CASE ~(logs <= room) /\ ~(room < MinLogRoom \/ half = 0)
  <2>1. t = [kept |-> 2 * half, omitted |-> FALSE, size |-> cut]
    BY <1>3, <1>6
  <2>2. 2 * half + MarkerSize(logs) <= room /\ 2 * half <= logs
    <3>1. MarkerSize(logs) \in Nat
      BY <1>1 DEF MarkerSize, Digits
    <3> QED
      BY <1>1, <1>2, <1>6, <3>1
  <2>3. /\ MarkerSize(logs - 2 * half) \in Nat /\ MarkerSize(logs) \in Nat
        /\ MarkerSize(logs - 2 * half) <= MarkerSize(logs)
    BY <1>1, <1>2, <2>2 DEF MarkerSize, Digits
  <2>4. cut \in Nat /\ cut <= PromptCap
    BY <1>1, <1>2, <2>2, <2>3
  <2> HIDE DEF cut
  <2>5. t.kept = 2 * half /\ t.size = cut /\ t.omitted = FALSE
    BY <2>1
  <2>6. 2 * half \in Nat /\ ~(skeleton + logs <= PromptCap)
    BY <1>1, <1>2, <1>6
  <2> QED
    BY <2>4, <2>5, <2>6, EmptyThings DEF t
<1> QED
  BY <1>4, <1>5, <1>6

LEMMA PromptIs ==
    ASSUME NEW r, Sound(r), NEW pieces \in Nat
    PROVE  LET q == PromptOf(r, pieces)
           IN /\ q \in PromptRecord /\ FitsCap(q)
              /\ q.rule = r.rule /\ q.doc = r.doc /\ q.tools = r.tools
<1> DEFINE s == Skeleton(r, pieces)
           logs == r.subject.logs
           t == Fit(s, logs)
           note == RuleNote(r)
           q == PromptOf(r, pieces)
<1>1. logs \in Nat /\ r.rule \in RuleRecord /\ r.doc \in DocRecord /\ r.tools \in ToolRuns
  <2>1. /\ r.subject \in Packets7 /\ r.rule \in RuleRecord /\ r.doc \in DocRecord
        /\ r.tools \in ToolRuns
    BY DEF Sound, RunRecord
  <2> QED
    BY <2>1, SubjectIs
<1>2. s \in Nat
  <2> DEFINE n == Cardinality(r.doc.entries) + Cardinality(r.rule.rows) + Cardinality(r.tools) + pieces
  <2>1. n \in Nat
    <3>1. IsFiniteSet(r.doc.entries) /\ IsFiniteSet(r.rule.rows) /\ IsFiniteSet(r.tools)
      BY DEF Sound, LookupShape
    <3>2. /\ Cardinality(r.doc.entries) \in Nat /\ Cardinality(r.rule.rows) \in Nat
          /\ Cardinality(r.tools) \in Nat
      BY <3>1, FS_CardinalityType
    <3> QED
      BY <3>2
  <2>2. s = FrameSize + PieceSize * n
    BY DEF Skeleton
  <2>3. FrameSize \in Nat /\ PieceSize \in Nat
    BY ContextAssumption
  <2> HIDE DEF n, s
  <2>4. PieceSize * n \in Nat
    BY <2>1, <2>3
  <2> QED
    BY <2>2, <2>3, <2>4
<1> HIDE DEF logs, s
<1>3. /\ t.kept \in Nat /\ t.size \in Nat /\ t.omitted \in Flag
      /\ t.size <= PromptCap \/ t.omitted = TRUE
      /\ s + logs <= PromptCap => t.kept = logs
  BY <1>1, <1>2, FitIs
<1>4. note \in Note7
  BY DEF RuleNote, Note7
<1>5. q = [rule |-> r.rule, doc |-> r.doc, tools |-> r.tools, note |-> note,
           skeleton |-> s, logs |-> logs, kept |-> t.kept, size |-> t.size, omitted |-> t.omitted]
  BY DEF PromptOf, s, logs
<1> HIDE DEF q, note, t
<1>6. ASSUME NEW k \in Nat, NEW z \in Nat, NEW o \in Flag
      PROVE  [rule |-> r.rule, doc |-> r.doc, tools |-> r.tools, note |-> note,
              skeleton |-> s, logs |-> logs, kept |-> k, size |-> z, omitted |-> o] \in PromptRecord
  BY <1>1, <1>2, <1>4 DEF PromptRecord
<1>7. q \in PromptRecord
  BY <1>3, <1>5, <1>6
<1>8. /\ q.rule = r.rule /\ q.doc = r.doc /\ q.tools = r.tools /\ q.skeleton = s
      /\ q.logs = logs /\ q.kept = t.kept /\ q.size = t.size
  BY <1>5
<1>9. q.omitted = t.omitted
  BY <1>5
<1>10. FitsCap(q)
  BY <1>3, <1>8, <1>9 DEF FitsCap
<1> QED
  BY <1>7, <1>8, <1>10 DEF q

LEMMA InvestigateRunIs ==
    ASSUME NEW r, Sound(r), r.at = "investigate", NEW used, used \in {{}, {r.pass}}
    PROVE  LET w == [r EXCEPT !.at = "review", !.tools = r.tools \cup used, !.pass = r.pass + 1]
           IN /\ Sound(w) /\ w.at = "review" /\ w.pass = r.pass + 1 /\ w.rule = r.rule
              /\ w.doc = r.doc /\ w.subject = r.subject /\ r.pass \in Nat
<1> DEFINE tools == r.tools \cup used
           next == r.pass + 1
           w == [r EXCEPT !.at = "review", !.tools = tools, !.pass = next]
<1>1. r.pass \in Nat /\ r.tools \in ToolRuns /\ IsFiniteSet(r.tools)
  BY DEF Sound, RunRecord, LookupShape
<1>2. next \in Nat /\ tools \in ToolRuns
  BY <1>1 DEF ToolRuns
<1>3. IsFiniteSet(tools)
  <2>1. IsFiniteSet(used)
    <3>1. IsFiniteSet({}) /\ IsFiniteSet({r.pass})
      BY FS_EmptySet, FS_Singleton
    <3>2. used = {} \/ used = {r.pass}
      OBVIOUS
    <3> QED
      BY <3>1, <3>2
  <2> QED
    BY <1>1, <2>1, FS_Union
<1> HIDE DEF tools, next
<1>4. /\ w \in RunRecord /\ w.at = "review" /\ w.subject = r.subject
      /\ w.read = r.read /\ w.began = r.began /\ w.stale = r.stale
      /\ w.doc = r.doc /\ w.rule = r.rule /\ w.tools = tools /\ w.pass = next
      /\ w.down = r.down
  <2>1. "review" \in Place7
    BY DEF Place7
  <2> QED
    BY <1>2, <2>1 DEF Sound, RunRecord
<1> HIDE DEF w
<1>5. LookupShape(w)
  BY <1>3, <1>4 DEF Sound, LookupShape, DocIsOwn, InDocs
<1>6. LookupCurrent(w) /\ FailureOwn(w)
  BY <1>4 DEF Sound, LookupCurrent, FailureOwn, InLookup
<1> QED
  BY <1>1, <1>4, <1>5, <1>6 DEF Sound, w, next, tools

PromptPair == [investigator : PromptRecord, reviewer : PromptRecord]

(* One packet's run and prompts move together. *)
LEMMA PromptMoves ==
    ASSUME ContextInv, NEW p \in Packet7, NEW w, Sound(w), NEW q \in PromptPair,
           FitsCap(q.investigator), FitsCap(q.reviewer), Evidence(w, q),
           run7' = [run7 EXCEPT ![p] = w], prompt7' = [prompt7 EXCEPT ![p] = q],
           left7' \in [Packet7 -> Files7],
           UNCHANGED <<table7, dbUp, ruleCache, store7, parsed7, events7>>
    PROVE  ContextInv'
<1>1. StoreTyped' /\ RunsInv'
  BY StoreStands, RunMoves DEF ContextInv
<1>2. /\ run7'[p] = w /\ prompt7'[p] = q
      /\ \A o \in Packet7 \ {p} : run7'[o] = run7[o] /\ prompt7'[o] = prompt7[o]
  BY DEF ContextInv, RunsInv, PromptsInv
<1>3. prompt7' \in [Packet7 -> PromptPair]
  BY DEF ContextInv, PromptsInv, PromptPair
<1>4. ASSUME NEW o \in Packet7
      PROVE  /\ FitsCap(prompt7'[o].investigator) /\ FitsCap(prompt7'[o].reviewer)
             /\ Evidence(run7'[o], prompt7'[o])
  BY <1>2 DEF ContextInv, PromptsInv
<1>5. PromptsInv'
  BY <1>3, <1>4 DEF PromptsInv, PromptPair, FitsCap, Evidence
<1> QED
  BY <1>1, <1>5 DEF ContextInv

(* The first pass is not told what earlier ones looked up. *)
LEMMA UntoldIs ==
    ASSUME NEW r, Sound(r), r.at = "investigate"
    PROVE  LET w == [r EXCEPT !.tools = {}]
           IN Sound(w) /\ w.rule = r.rule /\ w.doc = r.doc
<1> DEFINE w == [r EXCEPT !.tools = {}]
<1>1. /\ w \in RunRecord /\ w.at = "investigate" /\ w.subject = r.subject
      /\ w.read = r.read /\ w.began = r.began /\ w.stale = r.stale
      /\ w.doc = r.doc /\ w.rule = r.rule /\ w.tools = {} /\ w.pass = r.pass
      /\ w.down = r.down
  <2>1. {} \in ToolRuns
    BY DEF ToolRuns
  <2> QED
    BY <2>1 DEF Sound, RunRecord
<1> HIDE DEF w
<1>2. LookupShape(w)
  BY <1>1, EmptyThings DEF Sound, LookupShape, DocIsOwn, InDocs
<1>3. LookupCurrent(w) /\ FailureOwn(w)
  BY <1>1 DEF Sound, LookupCurrent, FailureOwn, InLookup
<1> QED
  BY <1>1, <1>2, <1>3 DEF Sound, w

(* What a harness task is given of its packet *)
LEMMA FilesPromptIs ==
    ASSUME NEW p \in Packet7, Sound(run7[p]), NEW tools \in ToolRuns
    PROVE  LET r == run7[p]
               new == FilesPrompt(r, CaseFiles(p, tools))
           IN /\ new \in PromptRecord /\ FitsCap(new) /\ new.rule = r.rule /\ DocShown(r, new)
              /\ new.tools = tools /\ CaseFiles(p, tools) \in Files7
<1> DEFINE r == run7[p]
           doc == IF r.subject.rulesDb THEN NoDocs ELSE r.doc
           new == [NoPrompt EXCEPT !.rule = r.rule, !.doc = doc, !.tools = tools]
<1>1. r.rule \in RuleRecord /\ r.doc \in DocRecord
  BY DEF Sound, RunRecord
<1>2. doc \in DocRecord /\ (doc = r.doc \/ (doc = NoDocs /\ r.subject.rulesDb))
  BY <1>1, EmptyThings
<1>3. CaseFiles(p, tools) = [tools |-> tools, doc |-> doc]
  BY DEF CaseFiles
<1>4. FilesPrompt(r, CaseFiles(p, tools)) = new
  BY <1>3 DEF FilesPrompt
<1> HIDE DEF doc
<1>5. /\ new \in PromptRecord /\ new.rule = r.rule /\ new.doc = doc /\ new.tools = tools
      /\ new.note = "none"
  <2>1. NoPrompt.note = "none"
    BY DEF NoPrompt
  <2> QED
    BY <1>1, <1>2, <2>1, EmptyThings DEF PromptRecord
<1>6. FitsCap(new)
  BY ContextAssumption DEF FitsCap, NoPrompt
<1>7. [tools |-> tools, doc |-> doc] \in Files7
  BY <1>2 DEF Files7
<1> HIDE DEF new
<1> QED
  BY <1>2, <1>3, <1>4, <1>5, <1>6, <1>7 DEF DocShown

(* A pass of the Investigator, whatever prompt or case files it was given *)
LEMMA InvestigationMoves ==
    ASSUME ContextInv, NEW p \in Packet7, run7[p].at = "investigate", Investigated(p),
           NEW new \in PromptRecord, FitsCap(new), new.rule = run7[p].rule,
           DocShown(run7[p], new),
           prompt7' = [prompt7 EXCEPT ![p].investigator = new], left7' \in [Packet7 -> Files7],
           UNCHANGED <<table7, dbUp, ruleCache, store7, parsed7, events7>>
    PROVE  ContextInv'
<1> DEFINE r == run7[p]
           q == [prompt7[p] EXCEPT !.investigator = new]
<1>1. Sound(r)
  BY RunIs
<1>2. PICK used \in {{}, {r.pass}} :
         run7' = [run7 EXCEPT ![p].at = "review", ![p].tools = @ \cup used, ![p].pass = @ + 1]
  BY DEF Investigated
<1> DEFINE w == [r EXCEPT !.at = "review", !.tools = r.tools \cup used, !.pass = r.pass + 1]
<1>3. run7' = [run7 EXCEPT ![p] = w]
  BY <1>2 DEF ContextInv, RunsInv
<1>4. /\ Sound(w) /\ w.at = "review" /\ w.pass = r.pass + 1 /\ w.rule = r.rule
      /\ w.doc = r.doc /\ w.subject = r.subject /\ r.pass \in Nat /\ r.at = "investigate"
  <2>1. r.at = "investigate"
    OBVIOUS
  <2> HIDE DEF r
  <2> QED
    BY <1>1, <2>1, InvestigateRunIs
<1> HIDE DEF w
<1>5. prompt7' = [prompt7 EXCEPT ![p] = q]
  BY DEF ContextInv, PromptsInv
<1>6. q \in PromptPair /\ q.investigator = new /\ FitsCap(q.reviewer)
  BY DEF ContextInv, PromptsInv, PromptPair
<1> HIDE DEF q
<1>7. Evidence(w, q)
  BY <1>4, <1>6 DEF Evidence, DocShown, BeforeRule, InDocs
<1> QED
  BY <1>3, <1>4, <1>5, <1>6, <1>7, PromptMoves

LEMMA Investigate7Keeps ==
    ASSUME ContextInv, NEW p \in Packet7, Investigate7(p)
    PROVE  ContextInv'
<1> DEFINE r == run7[p]
           new == IF r.told THEN PromptOf(r, 2) ELSE PromptOf([r EXCEPT !.tools = {}], 0)
<1>1. Sound(r) /\ r.at = "investigate"
  BY RunIs DEF Investigate7
<1>2. new \in PromptRecord /\ FitsCap(new) /\ new.rule = r.rule /\ new.doc = r.doc
  <2> HIDE DEF r
  <2>1. CASE r.told
    BY <1>1, <2>1, PromptIs
  <2>2. CASE ~r.told
    BY <1>1, <2>2, UntoldIs, PromptIs
  <2> QED
    BY <2>1, <2>2
<1>3. /\ prompt7' = [prompt7 EXCEPT ![p].investigator = new] /\ Investigated(p)
      /\ UNCHANGED <<table7, dbUp, ruleCache, store7, parsed7, events7>>
      /\ left7' \in [Packet7 -> Files7]
  BY DEF Investigate7, world7, ContextInv, PromptsInv
<1> HIDE DEF new
<1> QED
  BY <1>1, <1>2, <1>3, InvestigationMoves DEF DocShown

LEMMA HarnessInvestigateKeeps ==
    ASSUME ContextInv, NEW p \in Packet7, HarnessInvestigate(p)
    PROVE  ContextInv'
<1> DEFINE files == CaseFiles(p, {})
           new == FilesPrompt(run7[p], files)
<1>1. /\ run7[p].at = "investigate" /\ left7' = [left7 EXCEPT ![p] = files]
      /\ prompt7' = [prompt7 EXCEPT ![p].investigator = FilesPrompt(run7[p], left7'[p])]
      /\ Investigated(p)
      /\ UNCHANGED <<table7, dbUp, ruleCache, store7, parsed7, events7>>
  BY DEF HarnessInvestigate, world7
<1>2. {} \in ToolRuns
  BY DEF ToolRuns
<1>3. /\ new \in PromptRecord /\ FitsCap(new) /\ new.rule = run7[p].rule
      /\ DocShown(run7[p], new) /\ files \in Files7
  BY <1>2, RunIs, FilesPromptIs
<1>4. left7'[p] = files /\ left7' \in [Packet7 -> Files7]
  BY <1>1, <1>3 DEF ContextInv, PromptsInv
<1>5. prompt7' = [prompt7 EXCEPT ![p].investigator = new]
  BY <1>1, <1>4
<1> HIDE DEF new, files
<1> QED
  BY <1>1, <1>3, <1>4, <1>5, InvestigationMoves

(* A review, whatever prompt or case files it was given, says what it was  *)
(* given of the rule, the documentation and the tools.                     *)
LEMMA ReviewMoves ==
    ASSUME ContextInv, NEW p \in Packet7, NEW at \in {"done", "investigate"}, NEW t \in Flag,
           run7[p].at = "review",
           NEW new \in PromptRecord, FitsCap(new), new.rule = run7[p].rule,
           DocShown(run7[p], new), new.tools = run7[p].tools,
           prompt7' = [prompt7 EXCEPT ![p].reviewer = new],
           run7' = [run7 EXCEPT ![p].at = at, ![p].told = t],
           left7' \in [Packet7 -> Files7],
           UNCHANGED <<table7, dbUp, ruleCache, store7, parsed7, events7>>
    PROVE  ContextInv'
<1>1. PICK r : r = run7[p] /\ Sound(r) /\ r.at = "review"
  BY RunIs
<1>2. PICK w : w = [r EXCEPT !.at = at, !.told = t]
  OBVIOUS
<1> DEFINE q == [prompt7[p] EXCEPT !.reviewer = new]
<1>3. /\ Sound(w) /\ w.at = at /\ w.pass = r.pass /\ w.rule = r.rule
      /\ w.doc = r.doc /\ w.tools = r.tools /\ w.subject = r.subject
  <2> HIDE DEF q
  <2>1. /\ w \in RunRecord /\ w.at = at /\ w.subject = r.subject
        /\ w.read = r.read /\ w.began = r.began /\ w.stale = r.stale
        /\ w.doc = r.doc /\ w.rule = r.rule /\ w.tools = r.tools /\ w.pass = r.pass
        /\ w.down = r.down
    <3>1. at \in Place7
      BY DEF Place7
    <3> QED
      BY <1>1, <1>2, <3>1 DEF Sound, RunRecord
  <2>2. LookupShape(w)
    BY <1>1, <2>1 DEF Sound, LookupShape, DocIsOwn, InDocs
  <2>3. LookupCurrent(w) /\ FailureOwn(w)
    BY <1>1, <2>1 DEF Sound, LookupCurrent, FailureOwn, InLookup
  <2> QED
    BY <2>1, <2>2, <2>3 DEF Sound
<1>4. run7' = [run7 EXCEPT ![p] = w]
  BY <1>1, <1>2 DEF ContextInv, RunsInv
<1>5. prompt7' = [prompt7 EXCEPT ![p] = q]
  BY DEF ContextInv, PromptsInv
<1>6. /\ q \in PromptPair /\ q.investigator = prompt7[p].investigator /\ q.reviewer = new
      /\ FitsCap(q.investigator)
  BY DEF ContextInv, PromptsInv, PromptPair
<1>7. r.pass > 0 /\ q.investigator.rule = r.rule /\ DocShown(r, q.investigator)
  BY <1>1, <1>6 DEF ContextInv, PromptsInv, Evidence
<1>8. r.pass \in Nat /\ DocShown(r, new) /\ new.rule = r.rule /\ new.tools = r.tools
  BY <1>1 DEF Sound, RunRecord
<1> HIDE DEF q
<1>9. Evidence(w, q)
  BY <1>3, <1>6, <1>7, <1>8 DEF Evidence, DocShown, BeforeRule, InDocs
<1> QED
  BY <1>3, <1>4, <1>5, <1>6, <1>9, PromptMoves

LEMMA Review7Keeps ==
    ASSUME ContextInv, NEW p \in Packet7, NEW b \in BOOLEAN, Review7(p, b)
    PROVE  ContextInv'
<1> DEFINE new == PromptOf(run7[p], 1)
<1>1. new \in PromptRecord /\ FitsCap(new) /\ new.rule = run7[p].rule
      /\ new.doc = run7[p].doc /\ new.tools = run7[p].tools
  BY RunIs, PromptIs
<1>2. /\ run7[p].at = "review" /\ prompt7' = [prompt7 EXCEPT ![p].reviewer = new]
      /\ run7' = [run7 EXCEPT ![p].at = IF b THEN "done" ELSE "investigate", ![p].told = TRUE]
      /\ left7' = left7 /\ UNCHANGED <<table7, dbUp, ruleCache, store7, parsed7, events7>>
  BY DEF Review7, world7
<1>3. left7' \in [Packet7 -> Files7] /\ b \in Flag /\ TRUE \in Flag
  BY <1>2 DEF ContextInv, PromptsInv, Flag
<1>4. DocShown(run7[p], new)
  BY <1>1 DEF DocShown
<1> DEFINE at == IF b THEN "done" ELSE "investigate"
<1>5. at \in {"done", "investigate"} /\ run7' = [run7 EXCEPT ![p].at = at, ![p].told = TRUE]
  BY <1>2
<1> HIDE DEF new, at
<1> QED
  BY <1>1, <1>2, <1>3, <1>4, <1>5, ReviewMoves

LEMMA HarnessReviewKeeps ==
    ASSUME ContextInv, NEW p \in Packet7, NEW b \in BOOLEAN, HarnessReview(p, b)
    PROVE  ContextInv'
<1> DEFINE r == run7[p]
           files == CaseFiles(p, r.tools)
           new == FilesPrompt(r, files)
<1>1. /\ r.at = "review" /\ left7' = [left7 EXCEPT ![p] = files]
      /\ prompt7' = [prompt7 EXCEPT ![p].reviewer = FilesPrompt(r, left7'[p])]
      /\ UNCHANGED <<table7, dbUp, ruleCache, store7, parsed7, events7>>
  BY DEF HarnessReview, world7
<1>2. PICK text \in BOOLEAN :
         run7' = [run7 EXCEPT ![p].at = IF b THEN "done" ELSE "investigate",
                              ![p].told = b \/ text]
  BY DEF HarnessReview
<1>3. Sound(r) /\ r.tools \in ToolRuns
  BY RunIs DEF Sound, RunRecord
<1>4. /\ new \in PromptRecord /\ FitsCap(new) /\ new.rule = r.rule /\ DocShown(r, new)
      /\ new.tools = r.tools /\ files \in Files7
  BY <1>3, FilesPromptIs
<1>5. left7'[p] = files /\ left7' \in [Packet7 -> Files7]
  BY <1>1, <1>4 DEF ContextInv, PromptsInv
<1>6. prompt7' = [prompt7 EXCEPT ![p].reviewer = new]
  BY <1>1, <1>5
<1>7. b \in Flag /\ (b \/ text) \in Flag
  BY DEF Flag
<1> DEFINE at == IF b THEN "done" ELSE "investigate"
<1>8. /\ at \in {"done", "investigate"}
      /\ run7' = [run7 EXCEPT ![p].at = at, ![p].told = b \/ text]
  BY <1>2
<1> HIDE DEF new, files, at
<1> QED
  BY <1>1, <1>2, <1>4, <1>5, <1>6, <1>7, <1>8, ReviewMoves

LEMMA ContextInvSound == ContextInv => ContextIsSound
<1> SUFFICES ASSUME ContextInv
             PROVE  ContextIsSound
  OBVIOUS
<1>1. ContextTypeOK
  <2>1. /\ table7 \in Tables /\ dbUp \in BOOLEAN /\ events7 \in 0..MaxEvents7
        /\ ruleCache.found \in {"none", "rows", "not_found", "failed"}
        /\ \A f \in File7 : parsed7[f].content # Torn /\ parsed7[f].sig <= store7[f].sig
    BY DEF ContextInv, StoreTyped, RuleRecord, Flag
  <2>2. ASSUME NEW p \in Packet7
        PROVE  /\ run7[p].at \in {"docs", "stat", "load", "rule", "query", "keep",
                                  "investigate", "review", "done"}
               /\ run7[p].at \in {"stat", "load"} <=> run7[p].todo # <<>> /\ run7[p].doc = NoDocs
    <3>1. run7[p].at \in Place7 /\ LookupShape(run7[p])
      BY RunIs DEF Sound, RunRecord
    <3>2. run7[p].at \in {"docs", "stat", "load", "rule", "query", "keep",
                          "investigate", "review", "done"}
      BY <3>1 DEF Place7, BeforeRule, InDocs
    <3>3. run7[p].at \in {"stat", "load"} <=> run7[p].todo # <<>> /\ run7[p].doc = NoDocs
      BY <3>1, <3>2 DEF LookupShape, InDocs
    <3> QED
      BY <3>2, <3>3
  <2> QED
    BY <2>1, <2>2 DEF ContextTypeOK
<1>2. FailureIsOwn
  <2>1. ASSUME NEW p \in Packet7, run7[p].rule.found = "failed"
        PROVE  run7[p].down
    <3>1. run7[p].down = TRUE
      BY <2>1, RunIs DEF Sound, FailureOwn
    <3> QED
      BY <3>1
  <2> QED
    BY <2>1 DEF FailureIsOwn
<1>3. DocsAreCurrent
  <2>1. ASSUME NEW p \in Packet7
        PROVE  ~run7[p].stale
    <3>1. run7[p].stale = FALSE
      BY RunIs DEF Sound, LookupCurrent
    <3> QED
      BY <3>1
  <2> QED
    BY <2>1 DEF DocsAreCurrent
<1>4. DocIsPacketsOwn
  <2>1. ASSUME NEW p \in Packet7, run7[p].doc # NoDocs
        PROVE  DocIsOwn(run7[p])
    <3>1. LookupShape(run7[p]) /\ run7[p].at \in Place7
      BY RunIs DEF Sound, RunRecord
    <3>2. run7[p].at \notin InDocs
      BY <2>1, <3>1 DEF LookupShape, InDocs
    <3> QED
      BY <3>1, <3>2 DEF LookupShape
  <2> QED
    BY <2>1 DEF DocIsPacketsOwn, DocIsOwn
<1>5. SameEvidence
  BY DEF ContextInv, PromptsInv, Evidence, DocShown, SameEvidence
<1>6. PromptFits
  <2>1. ASSUME NEW p \in Packet7, NEW q \in {prompt7[p].investigator, prompt7[p].reviewer}
        PROVE  /\ q.size <= PromptCap \/ q.omitted
               /\ q.skeleton + q.logs <= PromptCap => q.kept = q.logs
    <3>1. FitsCap(q)
      BY DEF ContextInv, PromptsInv
    <3>2. q.omitted = TRUE => q.omitted
      OBVIOUS
    <3> QED
      BY <3>1, <3>2 DEF FitsCap
  <2> QED
    BY <2>1 DEF PromptFits
<1> QED
  BY <1>1, <1>2, <1>3, <1>4, <1>5, <1>6 DEF ContextIsSound

LEMMA ContextInvStep == ContextInv /\ [ContextNext]_contextVars => ContextInv'
<1> SUFFICES ASSUME ContextInv, [ContextNext]_contextVars
             PROVE  ContextInv'
  OBVIOUS
<1>1. ASSUME NEW p \in Packet7, ListFiles(p) \/ StatFile(p) \/ LoadFile(p)
      PROVE  ContextInv'
  BY <1>1, ListFilesKeeps, StatFileKeeps, LoadFileKeeps
<1>2. ASSUME NEW p \in Packet7, ReadRuleCache(p) \/ QueryRules(p) \/ KeepRule(p)
      PROVE  ContextInv'
  BY <1>2, ReadRuleCacheKeeps, QueryRulesKeeps, KeepRuleKeeps
<1>3. ASSUME NEW p \in Packet7, Investigate7(p) \/ HarnessInvestigate(p)
      PROVE  ContextInv'
  BY <1>3, Investigate7Keeps, HarnessInvestigateKeeps
<1>4. ASSUME NEW p \in Packet7, NEW b \in BOOLEAN, Review7(p, b) \/ HarnessReview(p, b)
      PROVE  ContextInv'
  BY <1>4, Review7Keeps, HarnessReviewKeeps
<1>5. CASE EditFile
  BY <1>5, EditFileKeeps
<1>6. CASE EditTable \/ RuleExpires
  BY <1>6, TableKeeps
<1>7. CASE RulesDbDown \/ RulesDbUp
  BY <1>7, RulesDbDownKeeps, RulesDbUpKeeps
<1>8. CASE Dies7
  BY <1>8, Dies7Keeps
<1>9. CASE UNCHANGED contextVars
  <2>1. UNCHANGED <<table7, dbUp, ruleCache, store7, parsed7, run7, left7, prompt7, events7>>
    BY <1>9 DEF contextVars
  <2> QED
    BY <2>1, StoreStands, RunsStand, PromptsStand DEF ContextInv
<1> QED
  BY <1>1, <1>2, <1>3, <1>4, <1>5, <1>6, <1>7, <1>8, <1>9 DEF ContextNext

(* What an agent is told of the rule is true of its packet: no other       *)
(* packet's failure, no outdated or foreign documentation, for the         *)
(* Reviewer the rule and the tool results behind what it reads and the     *)
(* documentation unless D13 withholds it, and no prompt over the cap       *)
(* (reason_code_docs.py, tool_registry.py, rejection_context.py,           *)
(* _write_harness_case_files).                                             *)
THEOREM PromptsAreTrue == ContextSpec => []ContextIsSound
<1>1. ContextInit => ContextInv
  BY ContextInvInit
<1>2. ContextInv /\ [ContextNext]_contextVars => ContextInv'
  BY ContextInvStep
<1>3. ContextInv => ContextIsSound
  BY ContextInvSound
<1> QED
  BY <1>1, <1>2, <1>3, PTL DEF ContextSpec
=============================================================================
