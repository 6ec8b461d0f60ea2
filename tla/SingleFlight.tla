---------------------------- MODULE SingleFlight ----------------------------
(***************************************************************************)
(* src/dlt/single_flight.py: the gate that lets one request at a time      *)
(* investigate a fingerprint.  The table _entries is seen at one key, the  *)
(* (event loop, fingerprint) pair of the requests modelled here.           *)
(*                                                                         *)
(* An _Entry object is named by the request that made it, so that an entry *)
(* deleted from the table and its successor are different objects, as they *)
(* are for the requests that still hold a reference.  Everything between   *)
(* two awaits runs on the event loop and is one step.                      *)
(***************************************************************************)
EXTENDS Integers, FiniteSets

CONSTANTS Request,   \* requests for one fingerprint in one API process
          NoEntry    \* the key is absent from _entries

ASSUME RequestAssumption ==
    /\ IsFiniteSet(Request)
    /\ NoEntry \notin Request

VARIABLES
    entries,   \* the _Entry the table holds for the key, or NoEntry
    refs,      \* refs[e]: _Entry.refs
    locked,    \* locked[e]: the entry's asyncio.Lock is held
    entry,     \* entry[r]: the object request r's block refers to
    flight     \* flight[r]: where r stands with the gate

gateVars == <<entries, refs, locked, entry, flight>>

GateTypeOK ==
    /\ entries \in Request \cup {NoEntry}
    /\ refs \in [Request -> Nat]
    /\ locked \in [Request -> BOOLEAN]
    /\ entry \in [Request -> Request \cup {NoEntry}]
    /\ flight \in [Request -> {"none", "waiting", "acquired", "timeout"}]

GateInit ==
    /\ entries = NoEntry
    /\ refs = [e \in Request |-> 0]
    /\ locked = [e \in Request |-> FALSE]
    /\ entry = [r \in Request |-> NoEntry]
    /\ flight = [r \in Request |-> "none"]

(* Variant: the table is not consulted. *)
EnterAlwaysNew(r) ==
    /\ flight[r] = "none"
    /\ flight' = [flight EXCEPT ![r] = "waiting"]
    /\ entries' = r
    /\ refs' = [refs EXCEPT ![r] = 1]
    /\ locked' = [locked EXCEPT ![r] = FALSE]
    /\ entry' = [entry EXCEPT ![r] = r]

(* The first request makes the entry, a later one joins the one it finds. *)
Enter(r) ==
    /\ flight[r] = "none"
    /\ flight' = [flight EXCEPT ![r] = "waiting"]
    /\ \/ /\ entries = NoEntry
          /\ entries' = r
          /\ refs' = [refs EXCEPT ![r] = 1]
          /\ locked' = [locked EXCEPT ![r] = FALSE]
          /\ entry' = [entry EXCEPT ![r] = r]
       \/ /\ entries # NoEntry
          /\ refs' = [refs EXCEPT ![entries] = @ + 1]
          /\ entry' = [entry EXCEPT ![r] = entries]
          /\ UNCHANGED <<entries, locked>>

(* asyncio.Lock.acquire.  The lock's first-in first-out order is left out. *)
Acquire(r) ==
    /\ flight[r] = "waiting"
    /\ ~locked[entry[r]]
    /\ locked' = [locked EXCEPT ![entry[r]] = TRUE]
    /\ flight' = [flight EXCEPT ![r] = "acquired"]
    /\ UNCHANGED <<entries, refs, entry>>

(* wait_for raises TimeoutError: the block runs without the gate. *)
GiveUp(r) ==
    /\ flight[r] = "waiting"
    /\ flight' = [flight EXCEPT ![r] = "timeout"]
    /\ UNCHANGED <<entries, refs, locked, entry>>

(* Variant: the clean-up is skipped when the wait timed out. *)
LeaveGateLeaks(r) ==
    /\ flight[r] \in {"acquired", "timeout"}
    /\ flight' = [flight EXCEPT ![r] = "none"]
    /\ entry' = [entry EXCEPT ![r] = NoEntry]
    /\ IF flight[r] = "acquired"
         THEN /\ locked' = [locked EXCEPT ![entry[r]] = FALSE]
              /\ refs' = [refs EXCEPT ![entry[r]] = @ - 1]
              /\ entries' = IF refs[entry[r]] = 1 /\ entries = entry[r]
                              THEN NoEntry ELSE entries
         ELSE UNCHANGED <<entries, refs, locked>>

(* Variant: a wait that timed out gives its reference back twice. *)
LeaveGateTwice(r) ==
    /\ flight[r] \in {"acquired", "timeout"}
    /\ flight' = [flight EXCEPT ![r] = "none"]
    /\ entry' = [entry EXCEPT ![r] = NoEntry]
    /\ locked' = IF flight[r] = "acquired"
                   THEN [locked EXCEPT ![entry[r]] = FALSE] ELSE locked
    /\ refs' = [refs EXCEPT ![entry[r]] =
                               IF flight[r] = "acquired" THEN @ - 1 ELSE @ - 2]
    /\ entries' = IF refs'[entry[r]] <= 0 /\ entries = entry[r]
                    THEN NoEntry ELSE entries

(* The finally clause, on every way out of the block. *)
LeaveGate(r) ==
    /\ flight[r] \in {"acquired", "timeout"}
    /\ flight' = [flight EXCEPT ![r] = "none"]
    /\ entry' = [entry EXCEPT ![r] = NoEntry]
    /\ locked' = IF flight[r] = "acquired"
                   THEN [locked EXCEPT ![entry[r]] = FALSE] ELSE locked
    /\ refs' = [refs EXCEPT ![entry[r]] = @ - 1]
    /\ entries' = IF refs'[entry[r]] <= 0 /\ entries = entry[r]
                    THEN NoEntry ELSE entries

GateNext == \E r \in Request :
    Enter(r) \/ Acquire(r) \/ GiveUp(r) \/ LeaveGate(r)

GateSpec == GateInit /\ [][GateNext]_gateVars

----------------------------------------------------------------------------

(* flight() yields acquired=True to one request at a time, although        *)
(* requests come and go, give up, and entries are deleted and made again.  *)
OneLeader == \A r, s \in Request :
    flight[r] = "acquired" /\ flight[s] = "acquired" => r = s

(* No request leaves the table holding an entry nobody refers to, or a     *)
(* lock nobody will release: either would stall, or grow, the process.     *)
GateReleased == entries # NoEntry =>
    /\ \E r \in Request : entry[r] = entries
    /\ locked[entries] => \E r \in Request :
          flight[r] = "acquired" /\ entry[r] = entries
=============================================================================
