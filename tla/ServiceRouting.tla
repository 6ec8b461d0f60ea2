--------------------------- MODULE ServiceRouting ---------------------------
(***************************************************************************)
(* Which service a packet belongs to, and what the fetch and the analysis  *)
(* stage of a lane do about it (src/api/routes.py, src/api/dlt_routes.py): *)
(* they resolve it (src/utils/service_registry.py) from the reason-code    *)
(* map (src/utils/reason_code_service_map.py), the packet and the          *)
(* documentation store (src/utils/reason_code_docs.py), both of which are  *)
(* downloaded again while requests are served, pass or skip it at the      *)
(* gate, and share its status and artifacts.                               *)
(*                                                                         *)
(* One packet, delivered several times.  The claims and the investigation  *)
(* are RejectionLane's and DltCase's.                                      *)
(***************************************************************************)
EXTENDS Integers, Sequences, FiniteSets, FiniteSetsExt

CONSTANTS Service, Broken,      \* services with a pack, those whose pack has errors
          Enabled,              \* services switched on, pilots included
          PreRegistry,          \* the service whose pack every packet had before packs
          Listings,             \* sets of services a map or a store may list the code under
          Cases3,              \* the packets and settings to consider, one per behaviour
          Request,              \* request threads
          MaxDeliveries,        \* bound: deliveries to /fetch-logs
          MaxReloads,     \* bound: new maps and new documentation stores, together
          MaxRouteFaults        \* bound: failed reads and writes of a stored resolution, and
                                \* deaths of the process

Unresolved == "unresolved"

(* What can point at a service, besides the map and the documentation *)
Sources3 == {"stage", "topic", "group", "original", "package"}

ASSUME RoutingAssumption ==
    /\ Broken \subseteq Service /\ Enabled \subseteq Service
    /\ Unresolved \notin Service /\ "none" \notin Service
    /\ PreRegistry \in Service /\ Listings \subseteq SUBSET Service
    /\ Cases3 \subseteq [lane : {"rejection", "dlt"}, enforce : BOOLEAN, defaultPack : BOOLEAN,
                          evidence : [Sources3 -> SUBSET (Service \ Broken)]]
    /\ {MaxDeliveries, MaxReloads, MaxRouteFaults} \subseteq Nat

VARIABLES
    packet3,    \* its lane, the gate's mode and policy, the services each source matches
    mapFile,    \* the map on disk: its signature and the services it lists the code under
    mapCache,   \* the map this process last read
    docs3,      \* the services that document the code, and whether the store is in place
    stored,     \* service_resolution.json
    logsFor,    \* the scope fetched_logs.txt was fetched for
    status3, book3,     \* status.json and casebook.json
    request,    \* the requests
    inbox3, queue3,     \* deliveries to come to each stage
    skips,      \* packets skipped: as what, and what the last good store says
    used,       \* the packs it was analysed with, each with the scope of its logs
    passed,     \* some delivery passed the gate
    faults3, overlap3

routingVars == <<packet3, mapFile, mapCache, docs3, stored, logsFor, status3, book3,
                 request, inbox3, queue3, skips, used, passed, faults3, overlap3>>
sources3 == <<mapFile, mapCache, docs3>>
artifacts == <<stored, logsFor, status3, book3>>
flow == <<inbox3, queue3>>
past == <<skips, used, passed, faults3, overlap3>>

NoRequest == [at |-> "idle", stage |-> "none", sig |-> 0, owners |-> {}, cached |-> {},
              service |-> "none", fresh |-> FALSE, status |-> "none", good |-> "none"]
RoutingTypeOK ==
    /\ stored \in Service \cup {Unresolved, "none"}
    /\ status3 \in {"none", "LOGS_FETCHED", "IN_PROGRESS", "COMPLETED"}
    /\ \A r \in Request : request[r].at = "idle" <=> request[r].stage = "none"
    /\ \A r \in Request :
        /\ request[r].at \in {"logs", "status", "mark", "publish"} => request[r].stage = "fetch"
        /\ request[r].at \in {"run", "book", "done"} => request[r].stage = "analyse"
        /\ request[r].service = "none" <=> request[r].at \in {"idle", "load", "stat", "read", "cache", "docs"}

RoutingInit ==
    /\ packet3 \in Cases3
    /\ mapFile = [sig |-> 1, valid |-> TRUE, owners |-> {}]
    /\ mapCache = [sig |-> 0, owners |-> {}]
    /\ \E good \in Listings : docs3 = [good |-> good, place |-> "in", swaps |-> 0]
    /\ stored = "none" /\ logsFor = "none" /\ status3 = "none" /\ book3 = "none"
    /\ request = [r \in Request |-> NoRequest]
    /\ inbox3 = MaxDeliveries /\ queue3 = 0
    /\ skips = {} /\ used = {} /\ passed = FALSE /\ faults3 = 0 /\ overlap3 = FALSE

-----------------------------------------------------------------------------
Reloads == (mapFile.sig - 1) + docs3.swaps

(* The map on disk: a download is validated and then replaces it in one    *)
(* rename; a hand edit may leave it invalid.  A missing file is read as an *)
(* empty map.                                                              *)

NewMap ==
    /\ Reloads < MaxReloads
    /\ \/ \E owners \in Listings : mapFile' = [sig |-> mapFile.sig + 1, valid |-> TRUE, owners |-> owners]
       \/ mapFile' = [sig |-> mapFile.sig + 1, valid |-> FALSE, owners |-> {}]
    /\ UNCHANGED <<packet3, mapCache, docs3, artifacts, request, flow, past>>

(* _swap_in: the old store is renamed away and the new one renamed in; if  *)
(* that fails the old one is put back.                                     *)
SwapAway ==
    /\ docs3.place = "in" /\ Reloads < MaxReloads
    /\ docs3' = [docs3 EXCEPT !.place = "away", !.swaps = @ + 1]
    /\ UNCHANGED <<packet3, mapFile, mapCache, artifacts, request, flow, past>>

SwapIn ==
    /\ docs3.place = "away"
    /\ \E good \in {docs3.good} \cup Listings : docs3' = [docs3 EXCEPT !.place = "in", !.good = good]
    /\ UNCHANGED <<packet3, mapFile, mapCache, artifacts, request, flow, past>>

-----------------------------------------------------------------------------
(* resolve, resolve_dlt: the first evidence that names one service decides. *)

Registered == Service \ Broken

Order(byMap, byDocs) ==
    LET e == packet3.evidence
    IN IF packet3.lane = "rejection" THEN <<byMap, e["stage"], e["topic"], byDocs>>
       ELSE <<e["group"], e["stage"], e["original"], e["package"], e["topic"], byDocs>>

Resolve(byMap, byDocs) ==
    LET steps == Order(byMap, byDocs)
        decisive == {i \in DOMAIN steps : Cardinality(steps[i]) = 1}
    IN IF decisive = {} THEN Unresolved ELSE CHOOSE s \in steps[Min(decisive)] : TRUE

Documented == IF docs3.place = "in" THEN docs3.good ELSE {}

SkipReason(service) ==
    CASE service = Unresolved -> IF packet3.lane = "rejection" /\ packet3.defaultPack
                                 THEN "none" ELSE "unresolved"
      [] service \in Broken -> "not_registered"
      [] service \in Registered -> IF service \in Enabled THEN "none" ELSE "not_enabled"

Gated(service) == packet3.enforce /\ SkipReason(service) # "none"

(* The pack: the service's own; a packet only recorded as to be skipped    *)
(* has the one from before there were packs.                               *)
PackFor(service) ==
    IF SkipReason(service) = "none"
    THEN IF service = Unresolved THEN "_default" ELSE service
    ELSE IF packet3.lane = "dlt" THEN "none"
         ELSE IF PreRegistry \in Registered THEN PreRegistry ELSE "_default"

(* service_to_search *)
Scope3(service) ==
    IF PackFor(service) \in {service, "_default"} THEN PackFor(service) ELSE "unscoped"

-----------------------------------------------------------------------------
(* Requests *)

At3(r, place) == request[r].at = place
Goes3(r, place) == request' = [request EXCEPT ![r].at = place]
Ends3(r) == request' = [request EXCEPT ![r] = NoRequest]

Passes(r) == request' = [request EXCEPT ![r].at = "pass", ![r].good = "none"]

Settled3 == "COMPLETED" \in {status3, book3}

Busy3(stage) == \E r \in Request : request[r].stage = stage

(* Both stages begin by asking for a verdict; /analyze-rejection looks at  *)
(* the casebook alone.                                                     *)
Concluded3 == IF packet3.lane = "rejection" THEN book3 = "COMPLETED" ELSE Settled3

BeginFetch3(r) ==
    /\ At3(r, "idle") /\ inbox3 > 0 /\ inbox3' = inbox3 - 1
    /\ overlap3' = (overlap3 \/ Busy3("fetch"))
    /\ request' = (IF Settled3 THEN request
                   ELSE [request EXCEPT ![r] = [NoRequest EXCEPT !.at = "load", !.stage = "fetch"]])
    /\ UNCHANGED <<packet3, sources3, artifacts, queue3, skips, used, passed, faults3>>

BeginAnalysis3(r) ==
    /\ At3(r, "idle") /\ queue3 > 0 /\ queue3' = queue3 - 1
    /\ ~Busy3("analyse")
    /\ request' = (IF Concluded3 THEN request
                   ELSE [request EXCEPT ![r] = [NoRequest EXCEPT !.at = "load", !.stage = "analyse"]])
    /\ UNCHANGED <<packet3, sources3, artifacts, inbox3, past>>

(* Only the rejection lane looks its code up in the map. *)
Resolves == IF packet3.lane = "rejection" THEN "stat" ELSE "docs"

(* Variant: the registry in force decides. *)
LoadStoredNever(r) ==
    /\ At3(r, "load") /\ Goes3(r, Resolves)
    /\ UNCHANGED <<packet3, sources3, artifacts, flow, past>>

(* load_or_resolve: the stored resolution wins, unless it cannot be read. *)
LoadStored(r) ==
    /\ At3(r, "load")
    /\ \/ stored = "none" /\ Goes3(r, Resolves) /\ UNCHANGED faults3
       \/ /\ stored # "none" /\ UNCHANGED faults3
          /\ request' = [request EXCEPT ![r].at = "gate", ![r].service = stored]
       \/ /\ stored # "none" /\ faults3 < MaxRouteFaults /\ faults3' = faults3 + 1
          /\ Goes3(r, Resolves)
    /\ UNCHANGED <<packet3, sources3, artifacts, flow, skips, used, passed, overlap3>>

(* reason_code_service_map.current: the signature is taken, and the cache  *)
(* answers if it has that one; else the file is read.                      *)
StatMap(r) ==
    /\ At3(r, "stat")
    /\ request' = [request EXCEPT ![r].sig = mapFile.sig, ![r].cached = mapCache.owners,
                        ![r].owners = mapCache.owners,
                        ![r].at = IF mapFile.sig = mapCache.sig THEN "docs" ELSE "read"]
    /\ UNCHANGED <<packet3, sources3, artifacts, flow, past>>

ReadMap(r) ==
    /\ At3(r, "read")
    /\ request' = [request EXCEPT ![r].at = "cache",
                        ![r].owners = IF mapFile.valid THEN mapFile.owners ELSE request[r].cached]
    /\ UNCHANGED <<packet3, sources3, artifacts, flow, past>>

(* Variant: what was read is filed under the signature the file has now. *)
CacheMapNow(r) ==
    /\ At3(r, "cache") /\ Goes3(r, "docs")
    /\ mapCache' = [sig |-> mapFile.sig, owners |-> request[r].owners]
    /\ UNCHANGED <<packet3, mapFile, docs3, artifacts, flow, past>>

CacheMap(r) ==
    /\ At3(r, "cache") /\ Goes3(r, "docs")
    /\ mapCache' = [sig |-> request[r].sig, owners |-> request[r].owners]
    /\ UNCHANGED <<packet3, mapFile, docs3, artifacts, flow, past>>

(* _documented_by, and the resolution from all of it *)
ReadDocs(r) ==
    /\ At3(r, "docs")
    /\ request' = [request EXCEPT ![r] =
                        [NoRequest EXCEPT !.at = "gate", !.stage = request[r].stage, !.fresh = TRUE,
                             !.service = Resolve(request[r].owners, Documented),
                             !.good = Resolve(request[r].owners, docs3.good)]]
    /\ UNCHANGED <<packet3, sources3, artifacts, flow, past>>

(* Variant: the resolution is stored before the gate is asked. *)
GateAfterPersist(r) ==
    /\ At3(r, "gate")
    /\ stored' = request[r].service
    /\ \/ /\ Gated(request[r].service) /\ Ends3(r)
          /\ skips' = skips \cup {[as |-> request[r].service, good |-> request[r].good]}
          /\ UNCHANGED passed
       \/ ~Gated(request[r].service) /\ Passes(r) /\ passed' = TRUE /\ UNCHANGED skips
    /\ UNCHANGED <<packet3, sources3, logsFor, status3, book3, flow, used, faults3, overlap3>>

(* A skipped packet is answered like a processed one. *)
Gate(r) ==
    /\ At3(r, "gate")
    /\ \/ /\ Gated(request[r].service) /\ Ends3(r)
          /\ skips' = skips \cup {[as |-> request[r].service, good |-> request[r].good]}
          /\ UNCHANGED passed
       \/ ~Gated(request[r].service) /\ Passes(r) /\ passed' = TRUE /\ UNCHANGED skips
    /\ UNCHANGED <<packet3, sources3, artifacts, flow, used, faults3, overlap3>>

(* Variant: every packet that passed is fetched next. *)
PersistThenFetch(r) ==
    /\ At3(r, "pass") /\ Goes3(r, "logs") /\ stored' = request[r].service
    /\ UNCHANGED <<packet3, sources3, logsFor, status3, book3, flow, past>>

(* persist, best effort; the dead-letter lane only at the fetch. *)
Stores(r) == request[r].fresh /\ ~(packet3.lane = "dlt" /\ request[r].stage = "analyse")

Persist(r) ==
    /\ At3(r, "pass")
    /\ request' = [request EXCEPT ![r].at = IF request[r].stage = "fetch" THEN "logs" ELSE "run",
                                  ![r].fresh = FALSE]
    /\ \/ Stores(r) /\ stored' = request[r].service /\ UNCHANGED faults3
       \/ ~Stores(r) /\ UNCHANGED <<stored, faults3>>
       \/ /\ Stores(r) /\ faults3 < MaxRouteFaults /\ faults3' = faults3 + 1
          /\ UNCHANGED stored
    /\ UNCHANGED <<packet3, sources3, logsFor, status3, book3, flow, skips, used, passed, overlap3>>

FetchLogs3(r) ==
    /\ At3(r, "logs") /\ Goes3(r, "status")
    /\ logsFor' = (IF logsFor = "none" THEN Scope3(request[r].service) ELSE logsFor)
    /\ UNCHANGED <<packet3, sources3, stored, status3, book3, flow, past>>

ReadStatus3(r) ==
    /\ At3(r, "status")
    /\ request' = [request EXCEPT ![r].at = "mark", ![r].status = status3]
    /\ UNCHANGED <<packet3, sources3, artifacts, flow, past>>

MarkFetched3(r) ==
    /\ At3(r, "mark") /\ Goes3(r, "publish")
    /\ status3' = (IF request[r].status \in {"none", "LOGS_FETCHED"} THEN "LOGS_FETCHED" ELSE status3)
    /\ UNCHANGED <<packet3, sources3, stored, logsFor, book3, flow, past>>

Publish3(r) ==
    /\ At3(r, "publish") /\ Ends3(r)
    /\ queue3' = queue3 + 1
    /\ UNCHANGED <<packet3, sources3, artifacts, inbox3, past>>

(* The investigation: the rejection lane marks it in progress; both record *)
(* it in two writes.                                                       *)
StartRun(r) ==
    /\ At3(r, "run") /\ Goes3(r, "book")
    /\ status3' = (IF packet3.lane = "rejection" THEN "IN_PROGRESS" ELSE status3)
    /\ used' = used \cup {[pack |-> PackFor(request[r].service), scope |-> Scope3(request[r].service)]}
    /\ UNCHANGED <<packet3, sources3, stored, logsFor, book3, flow, skips, passed, faults3, overlap3>>

(* Variant: status.json alone says that the packet is finished. *)
SaveBookNever(r) ==
    /\ At3(r, "book") /\ Goes3(r, "done")
    /\ UNCHANGED <<packet3, sources3, artifacts, flow, past>>

SaveBook3(r) ==
    /\ At3(r, "book") /\ Goes3(r, "done")
    /\ book3' = "COMPLETED"
    /\ UNCHANGED <<packet3, sources3, stored, logsFor, status3, flow, past>>

SaveStatus3(r) ==
    /\ At3(r, "done") /\ Ends3(r)
    /\ status3' = "COMPLETED"
    /\ UNCHANGED <<packet3, sources3, stored, logsFor, book3, flow, past>>

(* The process dies; unanswered messages are delivered again, and the      *)
(* store is downloaded again.                                              *)
RoutingCrash ==
    /\ faults3 < MaxRouteFaults /\ faults3' = faults3 + 1
    /\ inbox3' = inbox3 + Cardinality({r \in Request : request[r].stage = "fetch"})
    /\ queue3' = queue3 + Cardinality({r \in Request : request[r].stage = "analyse"})
    /\ request' = [r \in Request |-> NoRequest] /\ mapCache' = [sig |-> 0, owners |-> {}]
    /\ UNCHANGED <<packet3, mapFile, docs3, artifacts, skips, used, passed, overlap3>>

RoutingNext ==
    \/ NewMap \/ SwapAway \/ SwapIn \/ RoutingCrash
    \/ \E r \in Request :
        \/ BeginFetch3(r) \/ BeginAnalysis3(r) \/ LoadStored(r) \/ StatMap(r) \/ ReadMap(r)
        \/ CacheMap(r) \/ ReadDocs(r) \/ Gate(r) \/ Persist(r) \/ FetchLogs3(r) \/ ReadStatus3(r)
        \/ MarkFetched3(r) \/ Publish3(r) \/ StartRun(r) \/ SaveBook3(r) \/ SaveStatus3(r)

RoutingSpec == RoutingInit /\ [][RoutingNext]_routingVars

-----------------------------------------------------------------------------

(* A cached map filed under the signature of the file on disk is that      *)
(* file's: whatever the requests and the download interleave, a stale map  *)
(* is not served once the file has settled.                                *)
MapCacheCoherent ==
    mapCache.sig = mapFile.sig /\ mapFile.valid => mapCache.owners = mapFile.owners

(* Both stages act on one service, though the map and the documentation    *)
(* were replaced between them: a packet is analysed with one pack, on logs *)
(* fetched for that pack, unless a resolution could not be stored or read, *)
(* the process died, or two deliveries were fetched at once.               *)
OneService ==
    faults3 = 0 /\ ~overlap3 => Cardinality(used) <= 1 /\ \A u \in used : u.scope = logsFor

(* A packet that only ever met a closed gate has left nothing behind, so   *)
(* that it can be analysed in full once its service is switched on.        *)
SkipLeavesNothing ==
    skips # {} /\ ~passed => stored = "none" /\ logsFor = "none" /\ status3 = "none"

(* A packet with a verdict keeps it: a fetch that read its status earlier, *)
(* and now writes LOGS_FETCHED over it, does not reopen it.                *)
VerdictSurvivesFetch == Settled3 => Settled3'

(* A packet is skipped for what it is: a documentation store that cannot   *)
(* be read costs one way of resolving its service, never the packet        *)
(* (src/utils/reason_code_docs.py:618).                                    *)
SkippedForCause ==
    \A k \in skips : k.as = Unresolved /\ k.good # "none" => k.good = Unresolved

(* A packet is treated as one service's in both stages while the map and   *)
(* the documentation are replaced under it; the cached map is the file's   *)
(* it is filed under, and a packet the gate skipped has left nothing       *)
(* behind.                                                                 *)
RoutingIsSound ==
    RoutingTypeOK /\ MapCacheCoherent /\ OneService /\ SkipLeavesNothing

=============================================================================
