------------------------------ MODULE LogFetch ------------------------------
(***************************************************************************)
(* Fetching one packet's logs (src/log_pipeline): the chain of sources,    *)
(* the Kubernetes source with its discovery, its parallel pod reads under  *)
(* one deadline, its evidence gaps and its snapshot, the Elasticsearch     *)
(* source with its paging, and the trace the model is shown.               *)
(*                                                                         *)
(* A fetch may be repeated: a later attempt finds what an earlier one, or  *)
(* a process that died in the middle of one, left in the case storage.     *)
(* Records are abstracted to <<pod, label, instance>>, the lines about the *)
(* packet of one container instance, with the instance they are labelled   *)
(* with; a moment to whether it lies after the start of the span the trace *)
(* must cover.                                                             *)
(***************************************************************************)
EXTENDS Integers, Sequences, FiniteSets, SequencesExt

CONSTANTS Pod,         \* pods of the cluster
          World,       \* clusters and indices a fetch may meet
          Concurrency, \* K8S_FETCH_CONCURRENCY
          PageSize,    \* hits per Elasticsearch page
          MaxDocs,     \* LOG_MAX_DOCUMENTS
          MaxFetches   \* bound: attempts

(* A world: the pods each service's match finds, newest first; the pods    *)
(* that are pending, restarted, started after the span began (newer), whose *)
(* logs begin after it (late), which hold lines of the packet (holds); the *)
(* caps on pods; whether the level parser understands the lines; whether   *)
(* the window is anchored on a rejection; the documents Elasticsearch has; *)
(* and LOG_SOURCE, the sources in order.                                   *)
WorldType ==
    [match : Seq(Seq(Pod)), pending : SUBSET Pod, restarted : SUBSET Pod,
     newer : SUBSET Pod, late : SUBSET Pod, holds : SUBSET Pod, maxPods : Nat,
     maxTotal : Nat, garbled : BOOLEAN, anchored : BOOLEAN, docs : Nat,
     chain : Seq({"kubernetes", "elastic"}) \ {<<>>}]

ASSUME FetchAssumption ==
    /\ World \subseteq WorldType
    /\ {Concurrency, PageSize, MaxDocs, MaxFetches} \subseteq Nat \ {0}

VARIABLES
    world,     \* the cluster and index of this behaviour
    fetches,   \* attempts begun
    place,     \* where the fetch is
    src,       \* index into Chain of the source being asked
    skipped,   \* sources tried without success
    looked,    \* sources that looked and answered
    targets,   \* pods to read
    reads,     \* reads[p]: how far the read of p is
    lines,     \* records the pod reads returned
    raw,       \* those of them that are not redacted yet
    gaps,      \* evidence gaps collected
    note,      \* the LOG COVERAGE line is given
    docs,      \* documents read from Elasticsearch
    snapshot,      \* the snapshot in the case storage
    trace      \* fetched_logs.txt, or NoTrace

fetchVars == <<world, fetches, place, src, skipped, looked, targets, reads, lines,
               raw, gaps, note, docs, snapshot, trace>>

Chain == world.chain

GapType == {"LOG_ROTATION", "POD_REPLACED", "TRUNCATED", "POD_VANISHED",
            "LEVEL_PARSE_DEGRADED", "SOURCE_FALLBACK", "SERVICE_UNAVAILABLE"}
SpanGaps == {"LOG_ROTATION", "POD_REPLACED", "TRUNCATED", "POD_VANISHED",
             "SERVICE_UNAVAILABLE"}

NoSnap == [records |-> {}, raw |-> FALSE, meta |-> FALSE, gaps |-> {}, targets |-> {},
           reads |-> [p \in Pod |-> "unread"]]
NoTrace == [records |-> {}, gaps |-> {}, note |-> FALSE, from |-> "nothing",
            reads |-> [p \in Pod |-> "unread"]]

FetchTypeOK ==
    /\ place \in {"idle", "ask", "read", "saveRecords", "saveMeta", "page", "answered",
                  "failed", "render", "done"}
    /\ src \in 1..Len(Chain) /\ skipped \subseteq 1..Len(Chain) /\ looked \subseteq 1..Len(Chain)
    /\ reads \in [Pod -> {"unread", "previous", "current", "ok", "vanished", "error"}]
    /\ gaps \subseteq GapType /\ raw \subseteq lines
    /\ Cardinality({p \in Pod : reads[p] \in {"previous", "current"}}) <= Concurrency
    /\ docs \in 0..MaxDocs

FetchInit ==
    /\ world \in World
    /\ fetches = 0 /\ place = "idle" /\ src = 1
    /\ skipped = {} /\ looked = {}
    /\ targets = {} /\ reads = [p \in Pod |-> "unread"]
    /\ lines = {} /\ raw = {} /\ gaps = {} /\ note = FALSE /\ docs = 0
    /\ snapshot = NoSnap /\ trace = NoTrace

-----------------------------------------------------------------------------
(* Discovery. *)

(* The k first of a set of pods, where key[p] says how late p comes. *)
Rank(key, p) == Cardinality({q \in DOMAIN key : key[q] <= key[p]})
First(key, k) == {p \in DOMAIN key : Rank(key, p) <= k}

(* discover_for_service: what is not Pending, the newest-started kept. *)
Eligible(s) == ToSet(world.match[s]) \ world.pending
ListedAt(s) ==
    [p \in Eligible(s) |-> CHOOSE i \in DOMAIN world.match[s] : world.match[s][i] = p]
PodsOf(s) == First(ListedAt(s), world.maxPods)

(* Variant: the cap on pods cuts in silence. *)
OverCapNever(s) == FALSE

OverCap(s) == Cardinality(Eligible(s)) > world.maxPods

Services == 1..Len(world.match)
Found(up) == UNION {PodsOf(s) : s \in up}

(* Variant: each service's pods are taken whole, in the order configured. *)
TurnInOrder(s, p) == s * Cardinality(Pod) + Rank(ListedAt(s), p)

(* _merge_round_robin: the first pod of each service, then the second... *)
Turn(s, p) == Rank(ListedAt(s), p) * Len(world.match) + s

(* ... each pod once, at the first of its turns. *)
FirstTurn(up) ==
    [p \in Found(up) |->
        CHOOSE n \in {Turn(s, p) : s \in {u \in up : p \in PodsOf(u)}} :
            \A s \in up : p \in PodsOf(s) => n <= Turn(s, p)]

TotalCapped(up) == world.maxTotal > 0 /\ Cardinality(Found(up)) > world.maxTotal

Targets(up) ==
    IF TotalCapped(up) THEN First(FirstTurn(up), world.maxTotal) ELSE Found(up)

DiscoveryGaps(up) ==
    (IF up # Services THEN {"SERVICE_UNAVAILABLE"} ELSE {})
    \cup (IF TotalCapped(up) \/ \E s \in up : OverCap(s) THEN {"TRUNCATED"} ELSE {})

-----------------------------------------------------------------------------
(* The chain of sources, and the Kubernetes source. *)

Unfinished == place \notin {"idle", "done"}
Asks(name) == place = "ask" /\ Chain[src] = name
Goes1(to) == place' = to

(* A source starts its own result: nothing of an earlier source's is in it. *)
NewResult ==
    /\ lines' = {} /\ raw' = {} /\ note' = FALSE
    /\ reads' = [p \in Pod |-> "unread"]

(* fetch_and_persist_logs -> fetch_logs_for -> reduce_logs, unless an      *)
(* earlier attempt left its artifact.                                      *)
BeginFetch ==
    /\ place \in {"idle", "done"} /\ trace = NoTrace /\ fetches < MaxFetches
    /\ fetches' = fetches + 1
    /\ Goes1("ask") /\ src' = 1 /\ skipped' = {} /\ looked' = {}
    /\ targets' = {} /\ NewResult /\ gaps' = {} /\ docs' = 0
    /\ UNCHANGED <<world, snapshot, trace>>

(* The process dies: the storage alone survives. *)
FetchCrash ==
    /\ Unfinished /\ fetches < MaxFetches
    /\ Goes1("idle")
    /\ UNCHANGED <<world, fetches, src, skipped, looked, targets, reads, lines, raw, gaps,
                   note, docs, snapshot, trace>>

(* k8s_breaker refuses, or no service could be listed: could not look. *)
K8sUnavailable ==
    /\ Asks("kubernetes")
    /\ Goes1("failed") /\ NewResult /\ gaps' = {} /\ targets' = {}
    /\ UNCHANGED <<world, fetches, src, skipped, looked, docs, snapshot, trace>>

(* Gaps of the spans, anchored on the rejection and judged pod by pod, or  *)
(* judged by the oldest line of all.                                       *)
RotationGap(ps, rd) ==
    LET seen == {p \in ps : rd[p] = "ok"} IN
    IF world.anchored
    THEN \E p \in seen : p \in world.late /\ p \notin world.newer
    ELSE seen # {} /\ seen \subseteq world.late /\ ~(seen \subseteq world.newer)

SpanGapsOf(ps, rd) ==
    (IF RotationGap(ps, rd) THEN {"LOG_ROTATION"} ELSE {})
    \cup (IF ps \cap world.newer # {} THEN {"POD_REPLACED"} ELSE {})

(* coverage_note *)
CoverageNote(ps, rd, gs) ==
    /\ world.anchored
    /\ gs \cap SpanGaps = {}
    /\ \E p \in ps : rd[p] = "ok"

(* Variant: a reused snapshot drops the gaps it would judge again. *)
RejudgedAway(s) == s.gaps \ {"LOG_ROTATION", "POD_REPLACED"}

(* rejudge_for_anchor: the spans it kept are judged again. *)
Rejudged(s) ==
    IF world.anchored
    THEN RejudgedAway(s) \cup (IF s.meta THEN SpanGapsOf(s.targets, s.reads) ELSE {})
    ELSE s.gaps

(* The first capture is reused; one whose meta was never written has no    *)
(* gaps and no spans.                                                      *)
ReuseSnapshot ==
    /\ Asks("kubernetes") /\ snapshot.records # {}
    /\ gaps' = Rejudged(snapshot)
    /\ note' = (snapshot.meta /\ CoverageNote(snapshot.targets, snapshot.reads, gaps'))
    /\ lines' = snapshot.records /\ raw' = (IF snapshot.raw THEN snapshot.records ELSE {})
    /\ reads' = snapshot.reads /\ targets' = {}
    /\ Goes1("answered")
    /\ UNCHANGED <<world, fetches, src, skipped, looked, docs, snapshot, trace>>

(* discover_targets: a service that cannot be searched is a gap; none that *)
(* can is a failure; nothing to read is an answer.                         *)
Discover ==
    /\ Asks("kubernetes") /\ snapshot.records = {}
    /\ \E up \in SUBSET Services \ {{}} :
        /\ targets' = Targets(up)
        /\ gaps' = DiscoveryGaps(up)
        /\ Goes1(IF Targets(up) = {} THEN "answered" ELSE "read")
    /\ NewResult
    /\ UNCHANGED <<world, fetches, src, skipped, looked, docs, snapshot, trace>>

Busy == {p \in Pod : reads[p] \in {"previous", "current"}}
IsTarget(p) == p \in targets

(* Variant: every pod is read at once. *)
StartReadAtOnce(p) ==
    /\ place = "read" /\ IsTarget(p) /\ reads[p] = "unread"
    /\ reads' = [reads EXCEPT ![p] = IF p \in world.restarted THEN "previous" ELSE "current"]
    /\ UNCHANGED <<world, fetches, place, src, skipped, looked, targets, lines, raw, gaps,
                   note, docs, snapshot, trace>>

(* A worker takes the next pod; a restarted one is read twice. *)
StartRead(p) ==
    /\ place = "read" /\ IsTarget(p) /\ reads[p] = "unread"
    /\ Cardinality(Busy) < Concurrency
    /\ reads' = [reads EXCEPT ![p] = IF p \in world.restarted THEN "previous" ELSE "current"]
    /\ UNCHANGED <<world, fetches, place, src, skipped, looked, targets, lines, raw, gaps,
                   note, docs, snapshot, trace>>

(* _open_stream does not pass `previous` to read_namespaced_pod_log: both  *)
(* reads return the lines of the current instance.                         *)
Holds(p, label) == IF p \in world.holds THEN {<<p, label, "current">>} ELSE {}

(* The read of the previous instance; a failure is ignored. *)
ReadPrevious(p) ==
    /\ place = "read" /\ reads[p] = "previous"
    /\ \/ lines' = lines \cup Holds(p, "previous") /\ raw' = raw \cup Holds(p, "previous")
       \/ UNCHANGED <<lines, raw>>
    /\ reads' = [reads EXCEPT ![p] = "current"]
    /\ UNCHANGED <<world, fetches, place, src, skipped, looked, targets, gaps, note, docs,
                   snapshot, trace>>

RecordsOf(p) == {r \in lines : r[1] = p}

(* Variant: redaction at the end of the happy path only. *)
ReadCurrentRedactedLast(p) ==
    /\ place = "read" /\ reads[p] = "current"
    /\ \/ /\ lines' = lines \cup Holds(p, "current")
          /\ reads' = [reads EXCEPT ![p] = "ok"]
          /\ raw' = raw \ (RecordsOf(p) \cup Holds(p, "current"))
          /\ UNCHANGED gaps
       \/ /\ reads' = [reads EXCEPT ![p] = "error"]
          /\ UNCHANGED <<lines, raw, gaps>>
    /\ UNCHANGED <<world, fetches, place, src, skipped, looked, targets, note, docs, snapshot, trace>>

(* read_pod_logs: 404 is a gap, the byte cap is a gap, any other error     *)
(* leaves none; what was read is redacted in every case.                   *)
ReadCurrent(p) ==
    /\ place = "read" /\ reads[p] = "current"
    /\ \/ /\ lines' = lines \cup Holds(p, "current")
          /\ reads' = [reads EXCEPT ![p] = "ok"]
          /\ gaps' \in {gaps, gaps \cup {"TRUNCATED"}}
       \/ /\ reads' = [reads EXCEPT ![p] = "vanished"]
          /\ gaps' = gaps \cup {"POD_VANISHED"}
          /\ UNCHANGED lines
       \/ /\ reads' = [reads EXCEPT ![p] = "error"]
          /\ UNCHANGED <<lines, gaps>>
    /\ raw' = raw \ (RecordsOf(p) \cup Holds(p, "current"))
    /\ UNCHANGED <<world, fetches, place, src, skipped, looked, targets, note, docs, snapshot, trace>>

Finished == {p \in Pod : reads[p] \in {"ok", "vanished", "error"}}

(* Variant: a read that raised is counted as failed and not as queried. *)
EveryPodFailedMiscounted == Finished # {} /\ {p \in Pod : reads[p] = "vanished"} = Finished

(* pods_failed = pods_queried > 0 *)
EveryPodFailed == Finished # {} /\ {p \in Pod : reads[p] = "ok"} = {}

(* The end of _fetch, over the reads that finished in time. *)
Judge(cut) ==
    LET ps == targets
        got == {r \in lines : r[1] \in Finished}
        parse == IF world.garbled /\ got # {} THEN {"LEVEL_PARSE_DEGRADED"} ELSE {}
        all == gaps \cup cut \cup SpanGapsOf(ps, reads) \cup parse IN
    /\ gaps' = all
    /\ lines' = got /\ raw' = raw \cap got
    /\ note' = CoverageNote(ps, reads, all)
    /\ reads' = [p \in Pod |-> IF p \in Finished THEN reads[p] ELSE "unread"]
    /\ Goes1(IF EveryPodFailed /\ got = {} THEN "failed"
             ELSE IF got = {} THEN "answered" ELSE "saveRecords")
    /\ UNCHANGED <<world, fetches, src, skipped, looked, targets, docs, snapshot, trace>>

AllRead ==
    /\ place = "read" /\ targets \subseteq Finished
    /\ Judge({})

(* Variant: the clock is looked at only when a read completes. *)
DeadlineOnCompletion ==
    /\ place = "read" /\ ~(targets \subseteq Finished) /\ Finished # {}
    /\ Judge({"TRUNCATED"})

(* as_completed(timeout): the pods still unread are left behind. *)
Deadline ==
    /\ place = "read" /\ ~(targets \subseteq Finished)
    /\ Judge({"TRUNCATED"})

(* snapshot.save: the records, then the meta; a failure leaves the rest out. *)
SaveRecords ==
    /\ place = "saveRecords"
    /\ \/ /\ snapshot' = [NoSnap EXCEPT !.records = lines, !.raw = (raw # {}), !.reads = reads]
          /\ Goes1("saveMeta")
       \/ Goes1("answered") /\ UNCHANGED snapshot
    /\ UNCHANGED <<world, fetches, src, skipped, looked, targets, reads, lines, raw, gaps,
                   note, docs, trace>>

SaveMeta ==
    /\ place = "saveMeta"
    /\ \/ snapshot' = [snapshot EXCEPT !.meta = TRUE, !.gaps = gaps, !.targets = targets]
       \/ UNCHANGED snapshot
    /\ Goes1("answered")
    /\ UNCHANGED <<world, fetches, src, skipped, looked, targets, reads, lines, raw, gaps,
                   note, docs, trace>>

-----------------------------------------------------------------------------
(* The Elasticsearch source, the fallback, the trace. *)

EsBegin ==
    /\ Asks("elastic")
    /\ docs' = 0 /\ Goes1("page") /\ NewResult /\ gaps' = {} /\ targets' = {}
    /\ UNCHANGED <<world, fetches, src, skipped, looked, snapshot, trace>>

(* Variant: a full last page below the cap ends the query. *)
EsPageStopsEarly ==
    /\ place = "page"
    /\ docs' = (IF world.docs < PageSize THEN world.docs ELSE PageSize)
    /\ UNCHANGED gaps
    /\ Goes1("answered")
    /\ lines' = (IF docs' > 0 THEN {<<"index", "document", "document">>} ELSE {})
    /\ UNCHANGED <<world, fetches, src, skipped, looked, targets, reads, raw, note, snapshot, trace>>

(* One page, the newest first; the cap keeps the newest and says so. *)
EsPage ==
    /\ place = "page"
    /\ LET hits == IF world.docs - docs < PageSize THEN world.docs - docs ELSE PageSize
           capped == hits > 0 /\ docs + hits >= MaxDocs IN
        /\ docs' = (IF capped THEN MaxDocs ELSE docs + hits)
        /\ gaps' = (IF capped THEN {"TRUNCATED"} ELSE gaps)
        /\ Goes1(IF capped \/ hits < PageSize THEN "answered" ELSE "page")
    /\ lines' = (IF docs' > 0 THEN {<<"index", "document", "document">>} ELSE {})
    /\ UNCHANGED <<world, fetches, src, skipped, looked, targets, reads, raw, note, snapshot, trace>>

(* A search that raises, or a breaker that refuses, is not caught by the   *)
(* source: the last of the chain ends the fetch without a trace.           *)
EsRaises ==
    /\ place = "page" \/ Asks("elastic")
    /\ IF src = Len(Chain)
       THEN Goes1("done") /\ UNCHANGED <<src, skipped>>
       ELSE Goes1("ask") /\ src' = src + 1 /\ skipped' = skipped \cup {src}
    /\ UNCHANGED <<world, fetches, looked, targets, reads, lines, raw, gaps, note, docs, snapshot, trace>>

(* fetch_with_fallback: the first source with records wins. *)
Won ==
    /\ place = "answered" /\ lines # {}
    /\ looked' = looked \cup {src}
    /\ gaps' = (IF skipped = {} THEN gaps ELSE gaps \cup {"SOURCE_FALLBACK"})
    /\ Goes1("render")
    /\ UNCHANGED <<world, fetches, src, skipped, targets, reads, lines, raw, note, docs, snapshot, trace>>

Reported(ok) == Len(Chain) > 1 \/ ~ok

(* ... and one without falls through to the next, or out of the chain. *)
FallsThrough ==
    /\ place = "failed" \/ (place = "answered" /\ lines = {})
    /\ looked' = (IF place = "answered" THEN looked \cup {src} ELSE looked)
    /\ skipped' = skipped \cup {src}
    /\ IF src < Len(Chain)
       THEN src' = src + 1 /\ Goes1("ask") /\ UNCHANGED gaps
       ELSE /\ gaps' = (IF Reported(place = "answered") THEN gaps \cup {"SOURCE_FALLBACK"} ELSE gaps)
            /\ Goes1("render") /\ UNCHANGED src
    /\ lines' = {} /\ raw' = {}
    /\ UNCHANGED <<world, fetches, targets, reads, note, docs, snapshot, trace>>

(* reduce_logs puts the banner first, then redacts again; the artifact is  *)
(* written, whatever it says.                                              *)
Render ==
    /\ place = "render"
    /\ trace' = [records |-> lines, gaps |-> gaps, note |-> note, from |-> Chain[src],
                 reads |-> reads]
    /\ Goes1("done")
    /\ UNCHANGED <<world, fetches, src, skipped, looked, targets, reads, lines, raw, gaps,
                   note, docs, snapshot>>

FetchStep ==
    \/ ReuseSnapshot \/ Discover \/ K8sUnavailable \/ AllRead \/ SaveRecords \/ SaveMeta
    \/ EsBegin \/ EsPage \/ EsRaises \/ Won \/ FallsThrough \/ Render

FetchNext ==
    \/ BeginFetch \/ FetchCrash \/ Deadline \/ FetchStep
    \/ \E p \in Pod : StartRead(p) \/ ReadPrevious(p) \/ ReadCurrent(p)

FetchSpec == FetchInit /\ [][FetchNext]_fetchVars

-----------------------------------------------------------------------------

(* The pods a trace leaves out, but for those whose read failed. *)
Missing(rd) ==
    {p \in UNION {Eligible(s) : s \in Services} : rd[p] \notin {"ok", "error"}}

(* Every pod a trace leaves out is announced above it: pods beyond a cap,  *)
(* of a service that could not be listed, vanished, or unread when the     *)
(* budget ran out.  A pod whose read failed is the exception, and so is a  *)
(* reused snapshot (no targets) whose second write was lost.               *)
UnreadAnnounced ==
    trace.from = "kubernetes" /\ trace.records # {} /\ (snapshot.meta \/ targets # {})
        => (Missing(trace.reads) # {} => trace.gaps # {})

(* A fetch that could not look is never told as one that looked and found  *)
(* nothing: an empty trace without a banner means every source answered,   *)
(* the Kubernetes one from a pod it did read.                              *)
AbsenceConfirmed ==
    trace # NoTrace /\ trace.records = {} /\ trace.gaps = {} =>
        /\ looked = 1..Len(Chain)
        /\ targets # {} => \E p \in targets : trace.reads[p] = "ok"

(* Nothing reaches durable storage unredacted, whichever of a container's  *)
(* two reads failed and whenever the budget ran out.                       *)
StoredIsRedacted == ~snapshot.raw

(* A total cap is used up whatever the services share, and trims them      *)
(* evenly: none loses a pod while another, whose pods it does not share,   *)
(* keeps two more.                                                         *)
FairDiscovery ==
    place = "read" /\ "SERVICE_UNAVAILABLE" \notin gaps =>
        /\ targets # Found(Services) => Cardinality(targets) = world.maxTotal
        /\ \A s, t \in Services :
            LET kept(u) == Cardinality(PodsOf(u) \cap targets) IN
            /\ kept(s) < Cardinality(PodsOf(s))
            /\ \A u \in Services \ {t} : PodsOf(u) \cap PodsOf(t) = {}
            => kept(t) <= kept(s) + 1

(* A trace from a reused snapshot announces what the capture found, and    *)
(* claims no coverage the capture could not.                               *)
ReuseKeepsGaps ==
    trace.from = "kubernetes" /\ trace.records # {} /\ snapshot.meta =>
        /\ snapshot.gaps \subseteq trace.gaps
        /\ trace.note => snapshot.gaps \cap SpanGaps = {}

(* Every document Elasticsearch has is read, up to the cap, and a query    *)
(* cut at the cap says so.                                                 *)
PagesComplete ==
    trace.from = "elastic" =>
        /\ docs = IF world.docs < MaxDocs THEN world.docs ELSE MaxDocs
        /\ world.docs > MaxDocs => "TRUNCATED" \in trace.gaps

(* A fetch ends although pod reads hang. *)
FetchEnds == Unfinished ~> ~Unfinished

(* What a doc says: the LOG COVERAGE line is given only when every pod     *)
(* found was read.  A read that failed for any reason but 404 leaves no    *)
(* gap, and the line claims the trace is complete.                         *)
CoverageTrue == trace.note => \A p \in targets : trace.reads[p] = "ok"

(* What a doc says: after a restart the previous instance's logs are read, *)
(* so that the evidence from before the crash is not lost.                 *)
PreviousIsPrevious ==
    \A r \in trace.records : r[2] = "previous" => r[3] = "previous"

(* A trace says what it lacks, and what is stored is redacted: whichever   *)
(* reads failed, hung or hit a cap, and from whichever snapshot it was     *)
(* rebuilt.                                                                *)
TraceIsHonest ==
    /\ FetchTypeOK /\ UnreadAnnounced /\ AbsenceConfirmed
    /\ StoredIsRedacted /\ FairDiscovery /\ ReuseKeepsGaps /\ PagesComplete

=============================================================================
