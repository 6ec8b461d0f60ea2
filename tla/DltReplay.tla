----------------------------- MODULE DltReplay -----------------------------
(***************************************************************************)
(* From a finding to a replay.  The code check (src/dlt/code_check.py)     *)
(* compares what the repository says of the failing call path with what    *)
(* the pods run (src/dlt/deployed.py, src/dlt/versions.py); the replay     *)
(* gate (src/dlt/auto_replay.py) may be vetoed by it; a replay withheld    *)
(* only for its version is parked (src/dlt/parked.py) and released by the  *)
(* operator's worker (src/tools/release_parked_replays.py).                *)
(*                                                                         *)
(* One packet, one service, one repository, and the process-wide cache of  *)
(* the repository's answers (src/dlt/bitbucket.py).  While the packet      *)
(* waits, commits land, versions are cut and pods roll forward.  A version *)
(* is a number, 0 one that cannot be parsed; a build of version v holds    *)
(* the commits up to the one that cut v.                                   *)
(***************************************************************************)
EXTENDS Integers, Sequences, FiniteSets, FiniteSetsExt

CONSTANTS File,         \* files of the call path, as the frames map to them
          Releaser,     \* release workers
          Finding,      \* the findings to try
          Ttl,          \* ticks for which a listing of commits is served from the cache
          NegativeTtl,  \* and an empty one
          MaxTicks,     \* bound: ticks after the failure
          MaxCommits,   \* bound: commits after the failure
          MaxAnalyses,  \* bound: analyses of the packet, redeliveries included
          MaxSends,     \* bound: replays queued by releases
          MaxReplayFaults       \* bound: failed marks, deaths of a worker and runs
                                \* of it that overlap

ASSUME ReplayAssumption ==
    /\ Finding \subseteq [action : {"REDRIVE", "OTHER"}, confidence : {"none", "low", "enough"},
                          unverified : BOOLEAN, unreviewed : BOOLEAN, ref : BOOLEAN,
                          gates : BOOLEAN, parks : BOOLEAN, caches : BOOLEAN]
    /\ {Ttl, NegativeTtl, MaxTicks, MaxCommits, MaxAnalyses, MaxSends,
        MaxReplayFaults} \subseteq Nat
    /\ "version" \notin File

VARIABLES
    now,        \* ticks since the failure
    commits,    \* commits since the failure: what each touches, whether it
                \* changes the version file, and when it landed
    listed,     \* the cached listings of commits: how many of those since the
                \* failure each knows of, and until when it is served
    pods,       \* versions running
    reading,    \* the cached reading of them, {} for none
    baseline,   \* versions running when the packet failed
    finding,    \* the finding and the switches it is judged under, among
                \* them whether listings are cached
    check,      \* the code check of the last analysis
    place,      \* of the analysis: "failed", "checked", "replayed", "done"
    analyses,   \* analyses begun
    entry,      \* the parked entry
    direct,     \* a replay was queued by the analysis
    sends,      \* replays queued by a release
    releaser,   \* worker -> its place and the entry and version it read
    faults2

replayVars == <<now, commits, listed, pods, reading, baseline, finding, check, place, analyses,
                entry, sends, direct, releaser, faults2>>
world == <<now, commits, listed, pods, reading, baseline, finding>>
analysis == <<check, place, analyses, direct>>
release == <<releaser, faults2>>

Listing == File \cup {"version"}     \* the call path's files, and the version file
Unlisted == [upto |-> 0, until |-> 0]

(* cache_ttl_seconds; 0 when the cache is switched off. *)
Lifetime == IF finding.caches THEN Ttl ELSE 0

NoCheck == [verdict |-> "UNKNOWN", required |-> 0, touched |-> {}, seen |-> 0, at |-> 0]
NoEntry == [status |-> "none", required |-> 0]
NoRelease == [at |-> "idle", entry |-> NoEntry, running |-> 0]

ReplayTypeOK ==
    /\ check.verdict \in {"NO_CHANGE", "NOT_DEPLOYED", "FIX_DEPLOYED", "UNKNOWN"}
    /\ entry.status \in {"none", "parked", "released", "expired"}
    /\ entry.status = "parked" => entry.required > 0
    /\ place \in {"failed", "checked", "replayed", "done"}

ReplayInit ==
    /\ now = 0 /\ commits = <<>> /\ pods = {1} /\ reading = {}
    /\ baseline \in {{}, {1}} /\ finding \in Finding
    /\ listed \in [Listing -> {Unlisted} \cup [upto : {0}, until : 1..Lifetime]]
    /\ check = NoCheck /\ place = "failed" /\ analyses = 0
    /\ entry = NoEntry /\ sends = 0 /\ direct = FALSE
    /\ releaser = [x \in Releaser |-> NoRelease] /\ faults2 = 0

-----------------------------------------------------------------------------
(* The repository and the cluster; commits that touch neither the call    *)
(* path nor the version file are left out.                                 *)

Bumps(n) == Cardinality({i \in 1..n : commits[i].bump})
VersionAt(i) == 1 + Bumps(i)

Commit ==
    /\ Len(commits) < MaxCommits
    /\ \E touch \in {{}} \cup {{f} : f \in File}, bump \in BOOLEAN :
        /\ touch # {} \/ bump
        /\ commits' = Append(commits, [touch |-> touch, bump |-> bump, at |-> now])
    /\ UNCHANGED <<now, listed, pods, reading, baseline, finding, analysis, entry, sends, release>>

(* A rollout: the new pods come up beside the old, and then replace them. *)
Deploy ==
    /\ \/ /\ Cardinality(pods) = 1
          /\ \E v \in 1..VersionAt(Len(commits)) : v > Max(pods) /\ pods' = pods \cup {v}
       \/ Cardinality(pods) = 2 /\ pods' = {Max(pods)}
    /\ UNCHANGED <<now, commits, listed, reading, baseline, finding, analysis, entry, sends,
                   release>>

(* running_version serves a reading from its cache until the TTL has       *)
(* passed; a reading that failed is not kept.                              *)
ReadPods ==
    /\ place = "failed" /\ reading # pods
    /\ reading' \in {{}, pods}
    /\ UNCHANGED <<now, commits, listed, pods, baseline, finding, analysis, entry, sends, release>>

-----------------------------------------------------------------------------
(* bitbucket.commits_touching: a listing is the file's whole history, kept *)
(* under its path alone, and cut to the commits since the failure only     *)
(* after it is read.                                                       *)

(* Variant: served for one tick more. *)
ServedToTheEnd(f, t) == t <= listed[f].until

(* _cached *)
Served(f, t) == t < listed[f].until

(* How many of the commits since the failure a file's listing knows of *)
Known(f) == IF Served(f, now) THEN listed[f].upto ELSE Len(commits)

(* The commits of a file's history; 0 stands for those before the failure, *)
(* of which a file of the call path has some.                              *)
History(f) == {0} \cup {i \in 1..Len(commits) : IF f = "version" THEN commits[i].bump
                                                ELSE f \in commits[i].touch}

(* negative_cache_ttl_seconds: never more than the other. *)
TtlOf(f) == IF History(f) = {} /\ NegativeTtl < Lifetime THEN NegativeTtl ELSE Lifetime

(* The files are listed, the cached ones excepted. *)
Lists(files) ==
    listed' = [f \in Listing |->
        IF f \in files /\ ~Served(f, now) /\ TtlOf(f) > 0
        THEN [upto |-> Len(commits), until |-> now + TtlOf(f)] ELSE listed[f]]

(* The analysis of another packet *)
ListCommits(f) ==
    /\ place = "failed" /\ Lifetime > 0 /\ ~Served(f, now)
    /\ Lists({f})
    /\ UNCHANGED <<now, commits, pods, reading, baseline, finding, analysis, entry, sends, release>>

(* Time passes, which the cache alone is about; a listing that is served   *)
(* no longer is as good as none.                                           *)
Tick ==
    /\ Lifetime > 0 /\ now < MaxTicks /\ analyses < MaxAnalyses
    /\ now' = now + 1
    /\ listed' = [f \in Listing |-> IF Served(f, now + 1) THEN listed[f] ELSE Unlisted]
    /\ UNCHANGED <<commits, pods, reading, baseline, finding, analysis, entry, sends, release>>

(* versions.lowest: nothing when one of them cannot be parsed. *)
Lowest(vs) == IF vs = {} \/ 0 \in vs THEN 0 ELSE Min(vs)

-----------------------------------------------------------------------------
(* code_check._evaluate *)

(* Variant: the version the file shows at the commit. *)
FirstContainingThere(i) == VersionAt(i)

(* _first_containing_version: cut by the commit itself, or by the next     *)
(* listed commit that changes the version file; 0 when none has.           *)
FirstContaining(i) ==
    LET cuts == {j \in i..Len(commits) :
                    commits[j].bump /\ (j = i \/ j <= Known("version"))} IN
    IF cuts = {} THEN 0 ELSE VersionAt(Min(cuts))

(* Variant: only the file the exception was thrown in. *)
TouchingSite == {i \in 1..Len(commits) : "site" \in commits[i].touch /\ i <= Known("site")}

(* The commits since the failure that a listing shows. *)
Touching == {i \in 1..Len(commits) : \E f \in commits[i].touch : i <= Known(f)}

(* The highest of the versions found; 0 when none has been cut.  Commits   *)
(* in unresolved could not be read.                                        *)
RequiredOf(unresolved) ==
    LET found == {FirstContaining(i) : i \in Touching \ unresolved} IN
    IF found = {} THEN 0 ELSE Max(found)

Verdict(running, unresolved) ==
    LET required == RequiredOf(unresolved)
        base == Lowest(baseline) IN
    CASE Touching = {} -> "NO_CHANGE"
      [] Touching # {} /\ Touching \subseteq unresolved -> "UNKNOWN"
      [] ~(Touching \subseteq unresolved) /\ required = 0 -> "NOT_DEPLOYED"
      [] required > 0 /\ (running = 0 \/ (base > 0 /\ required <= base)) -> "UNKNOWN"
      [] required > 0 /\ running > 0 /\ running < required
           /\ (base > 0 => required > base) -> "NOT_DEPLOYED"
      [] OTHER -> IF base = 0 THEN "UNKNOWN" ELSE "FIX_DEPLOYED"

(* The verdict.  The version file is listed only for a commit that did not *)
(* cut a version itself.  An unreadable file of the call path, or the      *)
(* check switched off, is UNKNOWN too.                                     *)
Evaluate ==
    /\ place = "failed" /\ analyses < MaxAnalyses
    /\ analyses' = analyses + 1
    /\ \/ \E unresolved \in SUBSET Touching :
            /\ check' = [verdict |-> Verdict(Lowest(reading), unresolved),
                         required |-> RequiredOf(unresolved),
                         touched |-> Touching, seen |-> Len(commits), at |-> now]
            /\ Lists(File \cup (IF \A i \in Touching : commits[i].bump THEN {} ELSE {"version"}))
       \/ check' = NoCheck /\ \E files \in SUBSET File : Lists(files)
    /\ place' = "checked"
    /\ UNCHANGED <<now, commits, pods, reading, baseline, finding, direct, entry, sends, release>>

-----------------------------------------------------------------------------
(* auto_replay *)

(* decide, without the precheck *)
WouldReplay(f) ==
    f.action = "REDRIVE" /\ f.confidence = "enough" /\ ~f.unverified /\ ~f.unreviewed /\ f.ref

(* Variant: a change that is not running yet is worth a try. *)
VetoedNoChange == finding.gates /\ check.verdict = "NO_CHANGE"

(* _code_check_veto *)
Vetoed == finding.gates /\ check.verdict \in {"NO_CHANGE", "NOT_DEPLOYED"}

(* maybe_replay *)
MaybeReplay ==
    /\ place = "checked" /\ place' = "replayed"
    /\ direct' = (direct \/ (WouldReplay(finding) /\ ~Vetoed))
    /\ UNCHANGED <<world, check, analyses, entry, sends, release>>

-----------------------------------------------------------------------------
(* parked *)

(* Variant: whatever the precheck withheld is parked. *)
MayParkAnything == finding.parks /\ finding.ref /\ finding.gates /\ check.verdict = "NOT_DEPLOYED"

(* maybe_park, would_replay_but_for_the_version *)
MayPark ==
    /\ finding.parks /\ finding.ref /\ finding.gates
    /\ check.verdict = "NOT_DEPLOYED" /\ WouldReplay(finding)

(* Variant: written whatever is there. *)
ParkBlindly ==
    /\ place = "replayed" /\ place' = "done"
    /\ \/ /\ MayPark /\ check.required > 0
          /\ entry' = [status |-> "parked", required |-> check.required]
       \/ (~MayPark \/ check.required = 0) /\ UNCHANGED entry
    /\ UNCHANGED <<world, check, analyses, direct, sends, release>>

(* Variant: a verdict without a version is parked too. *)
ParkUnversioned ==
    /\ place = "replayed" /\ place' = "done"
    /\ \/ /\ MayPark /\ entry.status = "none"
          /\ entry' = [status |-> "parked", required |-> check.required]
       \/ UNCHANGED entry
    /\ UNCHANGED <<world, check, analyses, direct, sends, release>>

(* park: create-only, refused without a version to wait for or at the cap. *)
Park ==
    /\ place = "replayed" /\ place' = "done"
    /\ \/ /\ MayPark /\ check.required > 0 /\ entry.status = "none"
          /\ entry' = [status |-> "parked", required |-> check.required]
       \/ UNCHANGED entry
    /\ UNCHANGED <<world, check, analyses, direct, sends, release>>

(* The message is delivered again before the case is recorded, to this     *)
(* process or to one that was just started.                                *)
Redeliver ==
    /\ place = "done" /\ analyses < MaxAnalyses /\ place' = "failed"
    /\ listed' \in {listed, [f \in Listing |-> Unlisted]}
    /\ UNCHANGED <<now, commits, pods, reading, baseline, finding, check, analyses, direct, entry,
                   sends, release>>

-----------------------------------------------------------------------------
(* release_ready *)

Releases(x, place2) == releaser' = [releaser EXCEPT ![x].at = place2]

(* The running version is read, or cannot be; then the parked entries are  *)
(* listed.                                                                 *)
ListParked(x) ==
    /\ releaser[x].at = "idle" /\ entry.status = "parked"
    /\ \E running \in {0, Lowest(pods)} :
        releaser' = [releaser EXCEPT ![x] = [at |-> "judge", entry |-> entry, running |-> running]]
    /\ \/ (\A y \in Releaser : releaser[y].at = "idle") /\ UNCHANGED faults2
       \/ /\ \E y \in Releaser : releaser[y].at # "idle"
          /\ faults2 < MaxReplayFaults /\ faults2' = faults2 + 1
    /\ UNCHANGED <<world, analysis, entry, sends>>

ExpireParked(x) ==
    /\ releaser[x].at = "judge"
    /\ entry' = [releaser[x].entry EXCEPT !.status = "expired"]
    /\ releaser' = [releaser EXCEPT ![x] = NoRelease]
    /\ UNCHANGED <<world, analysis, sends, faults2>>

Satisfied(x) == releaser[x].running > 0 /\ releaser[x].running >= releaser[x].entry.required

LeaveParked(x) ==
    /\ releaser[x].at = "judge" /\ ~Satisfied(x)
    /\ releaser' = [releaser EXCEPT ![x] = NoRelease]
    /\ UNCHANGED <<world, analysis, entry, sends, faults2>>

Attempt(x) ==
    /\ releaser[x].at = "judge" /\ Satisfied(x)
    /\ \/ sends < MaxSends /\ sends' = sends + 1 /\ Releases(x, "queued")
       \/ UNCHANGED sends /\ Releases(x, "failed")
    /\ UNCHANGED <<world, analysis, entry, faults2>>

(* Variant: tried is released. *)
MarkTried(x) ==
    /\ releaser[x].at \in {"queued", "failed"}
    /\ entry' = [releaser[x].entry EXCEPT !.status = "released"]
    /\ releaser' = [releaser EXCEPT ![x] = NoRelease]
    /\ UNCHANGED <<world, analysis, sends, faults2>>

(* _mark: the entry as it was listed, with its new status. *)
Mark(x) ==
    /\ releaser[x].at \in {"queued", "failed"}
    /\ entry' = [releaser[x].entry EXCEPT
                    !.status = IF releaser[x].at = "queued" THEN "released" ELSE @]
    /\ releaser' = [releaser EXCEPT ![x] = NoRelease]
    /\ UNCHANGED <<world, analysis, sends, faults2>>

(* The mark cannot be written, which is logged, or the worker dies. *)
MarkLost(x) ==
    /\ releaser[x].at # "idle" /\ faults2 < MaxReplayFaults
    /\ faults2' = faults2 + 1
    /\ releaser' = [releaser EXCEPT ![x] = NoRelease]
    /\ UNCHANGED <<world, analysis, entry, sends>>

ReplayNext ==
    \/ Commit \/ Deploy \/ ReadPods \/ Tick \/ Evaluate \/ MaybeReplay \/ Park \/ Redeliver
    \/ \E f \in Listing : ListCommits(f)
    \/ \E x \in Releaser : \/ ListParked(x) \/ ExpireParked(x) \/ LeaveParked(x)
                           \/ Attempt(x) \/ Mark(x) \/ MarkLost(x)

ReplaySpec == ReplayInit /\ [][ReplayNext]_replayVars

-----------------------------------------------------------------------------

(* A build of version v holds commit i when some commit up to the one that *)
(* cut v is i.                                                             *)
Holds2(v, i) == \E j \in i..Len(commits) : commits[j].bump /\ VersionAt(j) <= v

(* FIX_DEPLOYED: a change to the call path made after the failure is in    *)
(* every build now running, under either habit of cutting versions, in the *)
(* middle of a rollout, with a reading of the pods from one cache and      *)
(* listings of different ages from another.                                *)
FixIsRunning ==
    check.verdict = "FIX_DEPLOYED" =>
        \E i \in check.touched : commits[i].touch # {} /\ \A v \in pods : Holds2(v, i)

(* NO_CHANGE: no commit between the failure and the check, or a TTL before *)
(* it where listings are cached, touched any file of the call path, not    *)
(* only the one the exception was thrown in, whatever was listed for this  *)
(* packet or another before or since the failure (bitbucket.py:341).       *)
NoChangeIsTrue ==
    check.verdict = "NO_CHANGE" =>
        \A i \in 1..check.seen : commits[i].at + Lifetime <= check.at => commits[i].touch = {}

(* Not checked, and false when the shorter time is shorter: what is cached *)
(* is never the empty list that becomes NO_CHANGE, so that one is reused   *)
(* for the longer time too (src/dlt/bitbucket.py:178, :361).               *)
NoChangeIsRecent ==
    check.verdict = "NO_CHANGE" =>
        \A i \in 1..check.seen : commits[i].at + NegativeTtl <= check.at => commits[i].touch = {}

(* Not checked, and false: a commit that landed since the files were       *)
(* listed reads as no change.                                              *)
NoChangeIsCurrent ==
    check.verdict = "NO_CHANGE" => \A i \in 1..check.seen : commits[i].touch = {}

(* The release worker is no second way around the replay gate: what it     *)
(* sends, the gate would have sent but for the version, and the pods have  *)
(* since come to hold a change to the call path.                           *)
ReleasedWasWorthy ==
    sends > 0 => /\ WouldReplay(finding)
                 /\ \E i \in 1..Len(commits) : commits[i].touch # {} /\ \A v \in pods : Holds2(v, i)

(* A packet marked released was replayed: a replay that was not queued     *)
(* leaves its entry parked.                                                *)
ReleasedWasSent == entry.status = "released" => sends > 0

(* Worker runs that do not overlap, and whose marks are written, replay a  *)
(* packet once, however often its analysis is delivered again.             *)
ReleasedOnce == faults2 = 0 => sends <= 1

(* One analysis either replays the packet or parks it, never both: the     *)
(* precheck that parks is the one that withheld the replay.                *)
NeverBoth == analyses = 1 /\ direct => entry.status = "none"

(* FIX_DEPLOYED waits for every commit that touched the call path, since   *)
(* which one is the fix cannot be told (src/dlt/code_check.py:45).         *)
WaitsForAll ==
    check.verdict = "FIX_DEPLOYED" =>
        \A i \in check.touched : \A v \in pods : Holds2(v, i)

(* A replay happens for a reason and once: the code check's verdicts are   *)
(* true of the repository and the pods, and parking, releasing and         *)
(* expiring a packet neither bypass the gate nor send it twice.            *)
ReplayIsSafe ==
    /\ ReplayTypeOK /\ FixIsRunning /\ NoChangeIsTrue /\ ReleasedWasWorthy
    /\ ReleasedWasSent /\ ReleasedOnce /\ NeverBoth

=============================================================================
