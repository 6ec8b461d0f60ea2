----------------------------- MODULE ModelCalls -----------------------------
(***************************************************************************)
(* The agent calls of one process and what guards them: the circuit        *)
(* breaker on the model server and its retries (src/utils/resilience.py),  *)
(* the model-call slots every agent of both lanes shares, the limit on the *)
(* model calls of one agent run (src/core/agent_factory.py), and the       *)
(* cancellation of a run nobody waits for (src/core/run_control.py).       *)
(*                                                                         *)
(* A call c is one agent call of a node: llm_breaker around                *)
(* retry_transient around an agent run, which asks the model again and     *)
(* again until it answers.                                                 *)
(***************************************************************************)
EXTENDS Integers, FiniteSets

CONSTANTS Call,           \* agent calls, each made again and again
          Slots,          \* LLM_MAX_CONCURRENT_CALLS
          FailMax,        \* fail_max of the breaker
          Attempts,       \* stop_after_attempt
          MaxModelCalls   \* AGENT_MAX_MODEL_CALLS

ASSUME CallsAssumption ==
    /\ IsFiniteSet(Call)
    /\ Slots \in Nat \ {0} /\ FailMax \in Nat \ {0}
    /\ Attempts \in Nat \ {0} /\ MaxModelCalls \in Nat \ {0}

VARIABLES
    breaker,    \* "closed", "open" or "half_open"
    fails,      \* its failure counter, capped
    elapsed,    \* reset_timeout has passed since it opened
    free,       \* model-call slots not taken
    modelUp,    \* the model server answers
    call,       \* call[c]: where the call is
    made,       \* made[c]: model calls of this attempt
    tries,      \* tries[c]: attempts that failed
    gone,       \* calls of a run that has been abandoned
    genuine     \* failures of the model or of a run since the last answer that
                \* closed the circuit or found it closed; capped

callVars == <<breaker, fails, elapsed, free, modelUp, call, made, tries, gone, genuine>>
breakerVars == <<breaker, fails, elapsed, genuine>>

Capped(n) == IF n > FailMax THEN FailMax ELSE n

CallsTypeOK ==
    /\ breaker \in {"closed", "open", "half_open"}
    /\ fails \in 0..FailMax /\ free \in 0..Slots
    /\ call \in [Call -> {"idle", "check", "slot", "calling", "backoff"}]
    /\ made \in [Call -> 0..MaxModelCalls] /\ tries \in [Call -> 0..Attempts]
    /\ gone \subseteq Call

CallsInit ==
    /\ breaker = "closed" /\ fails = 0 /\ elapsed = FALSE /\ genuine = 0
    /\ free = Slots /\ modelUp = TRUE
    /\ call = [c \in Call |-> "idle"]
    /\ made = [c \in Call |-> 0] /\ tries = [c \in Call |-> 0]
    /\ gone = {}

At(c, place) == call[c] = place
Goes(c, place) == call' = [call EXCEPT ![c] = place]

(* The model server, the clock, and the route that stops waiting. *)
ServerChanges ==
    /\ modelUp' = ~modelUp
    /\ UNCHANGED <<breakerVars, free, call, made, tries, gone>>

Elapse ==
    /\ breaker = "open" /\ ~elapsed /\ elapsed' = TRUE
    /\ UNCHANGED <<breaker, fails, genuine, free, modelUp, call, made, tries, gone>>

AbandonRun(c) ==
    /\ ~At(c, "idle") /\ c \notin gone
    /\ gone' = gone \cup {c}
    /\ UNCHANGED <<breakerVars, free, modelUp, call, made, tries>>

(***************************************************************************)
(* The breaker's bookkeeping.  A call that ends while the breaker is open  *)
(* is counted and changes nothing else.                                    *)
(***************************************************************************)
CountsSuccess ==
    /\ fails' = 0
    /\ breaker' = IF breaker = "half_open" THEN "closed" ELSE breaker
    /\ UNCHANGED elapsed

CountsFailure ==
    LET opens == \/ breaker = "half_open"
                 \/ breaker = "closed" /\ fails + 1 >= FailMax IN
    /\ fails' = Capped(fails + 1)
    /\ breaker' = IF opens THEN "open" ELSE breaker
    /\ elapsed' = IF opens THEN FALSE ELSE elapsed

CallEnds(c) ==
    /\ Goes(c, "idle")
    /\ made' = [made EXCEPT ![c] = 0] /\ tries' = [tries EXCEPT ![c] = 0]
    /\ gone' = gone \ {c}
    /\ UNCHANGED modelUp

Answers(c) ==
    /\ CountsSuccess /\ CallEnds(c)
    /\ genuine' = IF breaker = "open" THEN genuine ELSE 0
Fails(c) == CountsFailure /\ genuine' = Capped(genuine + 1) /\ CallEnds(c)

(* Variant: an abandoned run is a failure like any other. *)
CancelsCounted(c) == CountsFailure /\ UNCHANGED genuine /\ CallEnds(c)

(* RunCancelled is excluded: the breaker takes it for a success. *)
Cancels(c) == CountsSuccess /\ UNCHANGED genuine /\ CallEnds(c)

(* Variant: an open circuit is never tried again. *)
AdmitClosed(c) ==
    /\ At(c, "idle") /\ breaker # "open"
    /\ Goes(c, "check")
    /\ UNCHANGED <<breakerVars, free, modelUp, made, tries, gone>>

(* _admit: a call is refused while the circuit is open and young, and goes *)
(* ahead as a trial from then on, with those that come before it ends.     *)
Admit(c) ==
    /\ At(c, "idle") /\ (breaker = "open" => elapsed)
    /\ Goes(c, "check")
    /\ breaker' = IF breaker = "open" THEN "half_open" ELSE breaker
    /\ UNCHANGED <<fails, elapsed, genuine, free, modelUp, made, tries, gone>>

(* The limits and the cancellation, before each model call. *)
CheckModelCall(c) ==
    /\ At(c, "check")
    /\ \/ made[c] = MaxModelCalls /\ Fails(c)
       \/ made[c] < MaxModelCalls /\ c \in gone /\ Cancels(c)
       \/ /\ made[c] < MaxModelCalls /\ c \notin gone
          /\ Goes(c, "slot")
          /\ UNCHANGED <<breakerVars, modelUp, made, tries, gone>>
    /\ UNCHANGED free

(* Variant: a call goes ahead without waiting for a slot. *)
AcquireSlotAnyway(c) ==
    /\ At(c, "slot")
    /\ free' = free - 1 /\ Goes(c, "calling")
    /\ UNCHANGED <<breakerVars, modelUp, made, tries, gone>>

(* acquire_model_call_slot looks at the cancellation only between waits: a *)
(* run abandoned while it waits still takes a slot that is free.           *)
AcquireSlot(c) ==
    /\ At(c, "slot") /\ free > 0
    /\ free' = free - 1 /\ Goes(c, "calling")
    /\ UNCHANGED <<breakerVars, modelUp, made, tries, gone>>

StopWaiting(c) ==
    /\ At(c, "slot") /\ free = 0 /\ c \in gone
    /\ Cancels(c)
    /\ UNCHANGED free

(* Variant: the limit counts the calls of no run. *)
ModelRepliesUncounted(c) ==
    /\ At(c, "calling") /\ modelUp
    /\ free' = free + 1
    /\ \/ Answers(c)
       \/ Goes(c, "check") /\ UNCHANGED <<breakerVars, modelUp, made, tries, gone>>

(* The model answers, or asks for a tool and will be asked again. *)
ModelReplies(c) ==
    /\ At(c, "calling") /\ modelUp
    /\ free' = free + 1
    /\ \/ Answers(c)
       \/ /\ Goes(c, "check")
          /\ made' = [made EXCEPT ![c] = @ + 1]
          /\ UNCHANGED <<breakerVars, modelUp, tries, gone>>

(* Variant: an error keeps its slot. *)
ModelFailsKeepingSlot(c) ==
    /\ At(c, "calling") /\ ~modelUp
    /\ UNCHANGED free
    /\ Fails(c)

(* A transient error: the whole agent run is made again, after a backoff,  *)
(* and the last one is one failure of the breaker.                         *)
ModelFails(c) ==
    /\ At(c, "calling") /\ ~modelUp
    /\ free' = free + 1
    /\ \/ tries[c] + 1 = Attempts /\ Fails(c)
       \/ /\ tries[c] + 1 < Attempts
          /\ tries' = [tries EXCEPT ![c] = @ + 1]
          /\ Goes(c, "backoff")
          /\ UNCHANGED <<breakerVars, modelUp, made, gone>>

RetryCall(c) ==
    /\ At(c, "backoff") /\ Goes(c, "check")
    /\ made' = [made EXCEPT ![c] = 0]
    /\ UNCHANGED <<breakerVars, free, modelUp, tries, gone>>

CallStep(c) ==
    \/ CheckModelCall(c) \/ AcquireSlot(c) \/ StopWaiting(c) \/ ModelReplies(c)
    \/ ModelFails(c) \/ RetryCall(c)

CallsNext ==
    \/ ServerChanges \/ Elapse
    \/ \E c \in Call : AbandonRun(c) \/ Admit(c) \/ CallStep(c)

CallsSpec == CallsInit /\ [][CallsNext]_callVars

-----------------------------------------------------------------------------

(* A slot is held for each model call in flight and for nothing else: not  *)
(* across a retry's backoff, not by a run that failed, was refused by its  *)
(* limit or was abandoned.                                                 *)
SlotsBalance == free + Cardinality({c \in Call : At(c, "calling")}) = Slots

(* The circuit opens on failures alone: however many runs are abandoned,   *)
(* they never count towards refusing every other packet.                   *)
OpensOnFailures ==
    /\ fails <= genuine
    /\ breaker = "open" => genuine > 0

(* Every agent call comes to an end: a model that keeps asking for tools,  *)
(* an outage in mid-call and a queue for the slots included.               *)
AgentCallsEnd == \A c \in Call : ~At(c, "idle") ~> At(c, "idle")

(* After an outage calls are tried again without a restart: the circuit is *)
(* never left open for good.                                               *)
CircuitTriedAgain == []<>(breaker # "open")

(* The guards around the model hold on every way out of a call: slots are  *)
(* held by calls in flight and by nothing else, and the circuit opens on   *)
(* failures alone.                                                         *)
CallsGuarded ==
    CallsTypeOK /\ SlotsBalance /\ OpensOnFailures

=============================================================================
