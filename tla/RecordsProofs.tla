---------------------------- MODULE RecordsProofs ----------------------------
(***************************************************************************)
(* TLAPS proofs about what is kept of the DLT cases: that a replay happens *)
(* for a reason and once (DltReplay), that a failure's record is carried   *)
(* through from its claim to its verdict (DltCase), that what outlives the *)
(* cases was reviewed and stands (Knowledge), and that a finding rests on  *)
(* its own evidence (DltFinding).                                          *)
(***************************************************************************)
EXTENDS DltCase, DltReplay, DltFinding, Knowledge, FiniteSetTheorems, WellFoundedInduction, TLAPS

(* Sets of numbers: an empty set apart, they have a least member, and a    *)
(* greatest when they are bounded.                                         *)

LEMMA LeastNatural ==
    ASSUME NEW S \in SUBSET Nat, S # {}
    PROVE  \E x \in S : \A y \in S : x <= y
<1> DEFINE Less == {ss \in Nat \X Nat : ss[1] < ss[2]}
<1>1. IsWellFoundedOn(Less, Nat)
  BY NatLessThanWellFounded, Zenon DEF OpToRel
<1>2. \E x \in S : \A y \in S : ~(<<y, x>> \in Less)
  <2> HIDE DEF Less
  <2> QED
    BY <1>1, WFMin
<1>3. \A x, y \in Nat : y < x => <<y, x>> \in Less
  OBVIOUS
<1> HIDE DEF Less
<1>4. PICK x \in S : \A y \in S : ~(<<y, x>> \in Less)
  BY <1>2
<1>5. \A y \in S : ~(y < x)
  BY <1>3, <1>4
<1> QED
  BY <1>5

LEMMA GreatestNatural ==
    ASSUME NEW S \in SUBSET Nat, S # {}, NEW n \in Nat, \A y \in S : y <= n
    PROVE  \E x \in S : \A y \in S : x >= y
<1> DEFINE T == {m \in Nat : n - m \in S}
<1>1. T # {}
  <2> PICK y \in S : TRUE
    OBVIOUS
  <2>1. n - y \in Nat /\ n - (n - y) = y
    OBVIOUS
  <2> QED
    BY <2>1
<1>2. PICK m \in T : \A k \in T : m <= k
  BY <1>1, LeastNatural
<1>3. \A y \in S : n - m >= y
  <2> TAKE y \in S
  <2>1. n - y \in Nat /\ n - (n - y) = y
    OBVIOUS
  <2> QED
    BY <2>1, <1>2
<1> QED
  BY <1>2, <1>3

LEMMA MinIs ==
    ASSUME NEW S \in SUBSET Nat, S # {}
    PROVE  Min(S) \in S /\ \A y \in S : Min(S) <= y
BY LeastNatural DEF Min

LEMMA MaxIs ==
    ASSUME NEW S \in SUBSET Nat, S # {}, NEW n \in Nat, \A y \in S : y <= n
    PROVE  Max(S) \in S /\ \A y \in S : Max(S) >= y
BY GreatestNatural DEF Max

----------------------------------------------------------------------------
(* The repository and the pods. *)

CommitRecord == [touch : SUBSET File, bump : BOOLEAN, at : Nat]
Place == {"failed", "checked", "replayed", "done"}
Verdicts == {"NO_CHANGE", "NOT_DEPLOYED", "FIX_DEPLOYED", "UNKNOWN"}
EntryRecord == [status : {"none", "parked", "released", "expired"}, required : Nat]
ReleaseRecord == [at : {"idle", "judge", "queued", "failed"}, entry : EntryRecord, running : Nat]

(* Every pod runs that version or a later one.                             *)
Behind(n) == n = 0 \/ \A v \in pods : n <= v

(* The version is cut by a commit no earlier than one of those commits,    *)
(* which touches the call path.                                            *)
Backed(n, some) ==
    \E i \in some : /\ commits[i].touch # {}
                     /\ \E j \in i..Len(commits) : commits[j].bump /\ VersionAt(j) = n

(* A listing knows of every commit that landed before it was read, which    *)
(* was a TTL before it is served for the last time.                        *)
ListedInv ==
    /\ now \in Nat /\ listed \in [Listing -> [upto : Nat, until : Nat]]
    /\ \A f \in Listing :
          /\ listed[f].until <= now + Lifetime
          /\ \A i \in 1..Len(commits) :
                i > listed[f].upto => commits[i].at + Lifetime >= listed[f].until

WorldInv ==
    /\ commits \in Seq(CommitRecord)
    /\ pods \in SUBSET (Nat \ {0}) /\ pods # {} /\ \E n \in Nat : \A v \in pods : v <= n
    /\ reading \in SUBSET (Nat \ {0}) /\ Behind(Lowest(reading))
    /\ Lowest(baseline) \in Nat

LEMMA LowestIs ==
    ASSUME NEW S \in SUBSET (Nat \ {0})
    PROVE  /\ Lowest(S) \in Nat
           /\ S # {} => Lowest(S) > 0
           /\ Lowest(S) > 0 => \A y \in S : Lowest(S) <= y
<1>1. S \in SUBSET Nat /\ 0 \notin S /\ \A y \in S : y \in Nat /\ y > 0
  OBVIOUS
<1>2. CASE S = {}
  BY <1>2 DEF Lowest
<1>3. CASE S # {}
  <2>1. Min(S) \in S /\ \A y \in S : Min(S) <= y
    BY <1>1, <1>3, MinIs
  <2>2. Lowest(S) = Min(S)
    BY <1>1, <1>3 DEF Lowest
  <2>3. Min(S) \in Nat /\ Min(S) > 0
    BY <1>1, <2>1
  <2> QED
    BY <2>1, <2>2, <2>3
<1> QED
  BY <1>2, <1>3

LEMMA VersionIs ==
    ASSUME WorldInv, NEW n \in 0..Len(commits)
    PROVE  VersionAt(n) \in Nat /\ VersionAt(n) > 0 /\ VersionAt(n) <= n + 1
<1>1. n \in Nat /\ {i \in 1..n : commits[i].bump} \in SUBSET (1..n)
  BY DEF WorldInv
<1>2. IsFiniteSet(1..n) /\ Cardinality(1..n) = n
  BY <1>1, FS_Interval
<1>3. /\ IsFiniteSet({i \in 1..n : commits[i].bump})
      /\ Cardinality({i \in 1..n : commits[i].bump}) <= n
  BY <1>1, <1>2, FS_Subset
<1>4. Cardinality({i \in 1..n : commits[i].bump}) \in Nat
  BY <1>3, FS_CardinalityType
<1> QED
  BY <1>1, <1>3, <1>4 DEF VersionAt, Bumps

LEMMA FirstContainingIs ==
    ASSUME WorldInv, NEW i \in 1..Len(commits)
    PROVE  /\ FirstContaining(i) \in Nat /\ FirstContaining(i) <= Len(commits) + 1
           /\ FirstContaining(i) > 0 =>
                 \E j \in i..Len(commits) : commits[j].bump /\ VersionAt(j) = FirstContaining(i)
<1> DEFINE cuts == {j \in i..Len(commits) :
                       commits[j].bump /\ (j = i \/ j <= Known("version"))}
<1>0. Len(commits) \in Nat /\ cuts \in SUBSET Nat
  BY DEF WorldInv
<1>1. CASE cuts = {}
  BY <1>0, <1>1 DEF FirstContaining
<1>2. CASE cuts # {}
  <2>1. Min(cuts) \in cuts
    <3> HIDE DEF cuts
    <3> QED
      BY <1>0, <1>2, MinIs
  <2>2. FirstContaining(i) = VersionAt(Min(cuts))
    BY <1>2 DEF FirstContaining
  <2>3. Min(cuts) \in i..Len(commits) /\ commits[Min(cuts)].bump
    BY <2>1
  <2>4. VersionAt(Min(cuts)) \in Nat /\ VersionAt(Min(cuts)) <= Len(commits) + 1
    <3> HIDE DEF cuts
    <3>1. Min(cuts) \in 0..Len(commits)
      BY <1>0, <2>3
    <3>2. /\ VersionAt(Min(cuts)) \in Nat
          /\ VersionAt(Min(cuts)) <= Min(cuts) + 1
      BY <3>1, VersionIs
    <3> QED
      BY <1>0, <3>1, <3>2
  <2> QED
    BY <2>2, <2>3, <2>4
<1> QED
  BY <1>1, <1>2

(* A version the code check asks for is one of a commit of the call path. *)
LEMMA RequiredIs ==
    ASSUME WorldInv, NEW unresolved \in SUBSET Touching
    PROVE  /\ RequiredOf(unresolved) \in Nat
           /\ RequiredOf(unresolved) > 0 => Backed(RequiredOf(unresolved), Touching)
           /\ Touching \in SUBSET (1..Len(commits))
<1> DEFINE found == {FirstContaining(i) : i \in Touching \ unresolved}
<1>0. Len(commits) \in Nat
  BY DEF WorldInv
<1>0a. Touching \in SUBSET (1..Len(commits))
  BY DEF Touching
<1>1. CASE found = {}
  BY <1>0a, <1>1 DEF RequiredOf
<1>2. CASE found # {}
  <2>1. \A i \in Touching : i \in 1..Len(commits) /\ commits[i].touch # {}
    BY DEF Touching
  <2>2. found \in SUBSET Nat /\ \A y \in found : y <= Len(commits) + 1
    BY <2>1, FirstContainingIs
  <2>3. Max(found) \in found
    <3> HIDE DEF found
    <3>1. Len(commits) + 1 \in Nat
      BY <1>0
    <3> QED
      BY <1>2, <2>2, <3>1, MaxIs
  <2>4. RequiredOf(unresolved) = Max(found)
    BY <1>2 DEF RequiredOf
  <2>5. PICK i \in Touching \ unresolved : FirstContaining(i) = Max(found)
    BY <2>3
  <2> QED
    BY <1>0a, <2>1, <2>4, <2>5, FirstContainingIs DEF Backed
<1> QED
  BY <1>1, <1>2

----------------------------------------------------------------------------
(* What the analysis, the parked entry and the release workers know. *)

CheckInv ==
    /\ check \in [verdict : Verdicts, required : Nat, touched : SUBSET (1..Len(commits)),
                   seen : 0..Len(commits), at : Nat]
    /\ check.required > 0 => Backed(check.required, check.touched)
    /\ check.verdict = "FIX_DEPLOYED" => check.required > 0 /\ Behind(check.required)
    /\ NoChangeIsTrue

(* An entry waits for a version of the call path, on behalf of a replay    *)
(* the gate would have made.                                               *)
Worthy(e) ==
    e.required > 0 /\ Backed(e.required, 1..Len(commits)) /\ WouldReplay(finding)

EntryInv ==
    /\ entry \in EntryRecord
    /\ entry.status # "none" => Worthy(entry)

ReleaserInv ==
    /\ releaser \in [Releaser -> ReleaseRecord]
    /\ \A x \in Releaser : releaser[x].at # "idle" =>
          /\ entry.status # "none"
          /\ releaser[x].entry.status = "parked" /\ Worthy(releaser[x].entry)
          /\ Behind(releaser[x].running)
          /\ releaser[x].at = "queued" => sends > 0

SendsInv ==
    /\ sends \in Nat
    /\ sends > 0 => /\ WouldReplay(finding)
                    /\ \E n \in Nat \ {0} : Backed(n, 1..Len(commits)) /\ Behind(n)
    /\ ReleasedWasSent

(* While no mark was lost and no two runs of the worker overlapped, the    *)
(* one replay sent is on record or about to be.                            *)
OnceInv ==
    /\ faults2 \in Nat
    /\ faults2 = 0 =>
          /\ \A x, y \in Releaser : releaser[x].at # "idle" /\ releaser[y].at # "idle" => x = y
          /\ \A x \in Releaser : releaser[x].at \in {"judge", "failed"} => sends = 0
          /\ sends <= 1
          /\ sends = 1 => \/ entry.status = "released"
                          \/ \E x \in Releaser : releaser[x].at = "queued"

(* What the first analysis of the packet has done so far.                  *)
FirstInv ==
    /\ place \in Place /\ analyses \in Nat
    /\ analyses = 0 => place = "failed" /\ ~direct /\ entry.status = "none"
    /\ analyses = 1 /\ place = "checked" => ~direct /\ entry.status = "none"
    /\ analyses = 1 /\ place = "replayed" =>
          entry.status = "none" /\ (direct => ~Vetoed)
    /\ NeverBoth

ReplayInv ==
    /\ WorldInv /\ ListedInv /\ CheckInv
    /\ EntryInv /\ ReleaserInv /\ SendsInv /\ OnceInv /\ FirstInv

(* The verdict is true of the repository and the pods. *)
LEMMA VerdictIs ==
    ASSUME WorldInv, NEW unresolved \in SUBSET Touching, NEW running \in Nat,
           Behind(running)
    PROVE  /\ Verdict(running, unresolved) \in Verdicts
           /\ Verdict(running, unresolved) = "NO_CHANGE" => Touching = {}
           /\ Verdict(running, unresolved) = "FIX_DEPLOYED" =>
                 RequiredOf(unresolved) > 0 /\ Behind(RequiredOf(unresolved))
<1> DEFINE required == RequiredOf(unresolved)
           base == Lowest(baseline)
<1>1. required \in Nat /\ base \in Nat
  BY RequiredIs DEF WorldInv
<1>2. Verdict(running, unresolved) =
        CASE Touching = {} -> "NO_CHANGE"
          [] Touching # {} /\ Touching \subseteq unresolved -> "UNKNOWN"
          [] ~(Touching \subseteq unresolved) /\ required = 0 -> "NOT_DEPLOYED"
          [] required > 0 /\ (running = 0 \/ (base > 0 /\ required <= base)) -> "UNKNOWN"
          [] required > 0 /\ running > 0 /\ running < required
               /\ (base > 0 => required > base) -> "NOT_DEPLOYED"
          [] OTHER -> IF base = 0 THEN "UNKNOWN" ELSE "FIX_DEPLOYED"
  BY DEF Verdict
<1> HIDE DEF required, base
<1>3. Verdict(running, unresolved) \in Verdicts
  BY <1>2 DEF Verdicts
<1>4. Verdict(running, unresolved) = "NO_CHANGE" => Touching = {}
  BY <1>2
<1>5. Verdict(running, unresolved) = "FIX_DEPLOYED" => required > 0 /\ running >= required
  BY <1>1, <1>2
<1>6. required > 0 /\ running >= required => Behind(required)
  BY <1>1 DEF Behind, WorldInv
<1> QED
  BY <1>3, <1>4, <1>5, <1>6 DEF required

----------------------------------------------------------------------------
(* Commits are only added and versions only rise: what was true of the     *)
(* repository and the pods stays true.                                     *)
EvidenceStands ==
    /\ finding' = finding
    /\ Len(commits) <= Len(commits')
    /\ \A k \in 1..Len(commits) : commits'[k] = commits[k]
    /\ \A j \in 0..Len(commits) : VersionAt(j)' = VersionAt(j)
    /\ \A v \in pods' : \E w \in pods : w <= v

LEMMA CommitKeeps ==
    ASSUME WorldInv, ListedInv, Commit
    PROVE  WorldInv' /\ EvidenceStands
<1>1. PICK c \in CommitRecord : commits' = Append(commits, c)
  BY DEF Commit, CommitRecord, ListedInv
<1>2. /\ commits' \in Seq(CommitRecord) /\ Len(commits') = Len(commits) + 1
      /\ \A k \in 1..Len(commits) : commits'[k] = commits[k]
      /\ Len(commits) \in Nat
  BY <1>1 DEF WorldInv
<1>3. \A j \in 0..Len(commits) : VersionAt(j)' = VersionAt(j)
  <2> TAKE j \in 0..Len(commits)
  <2>1. {i \in 1..j : commits'[i].bump} = {i \in 1..j : commits[i].bump}
    BY <1>2
  <2> QED
    BY <2>1 DEF VersionAt, Bumps
<1>4. UNCHANGED <<pods, reading, baseline, finding>>
  BY DEF Commit
<1>5. \A v \in pods : v <= v
  BY DEF WorldInv
<1>6. WorldInv'
  BY <1>2, <1>4 DEF WorldInv, Behind, Lowest
<1> QED
  BY <1>2, <1>3, <1>4, <1>5, <1>6 DEF EvidenceStands

LEMMA DeployKeeps ==
    ASSUME WorldInv, Deploy
    PROVE  WorldInv' /\ EvidenceStands
<1>1. Max(pods) \in pods /\ \A v \in pods : Max(pods) >= v
  BY MaxIs DEF WorldInv
<1>2. \/ \E v \in Nat : v > Max(pods) /\ pods' = pods \cup {v}
      \/ pods' = {Max(pods)}
  <2>1. CASE \E v \in 1..VersionAt(Len(commits)) : v > Max(pods) /\ pods' = pods \cup {v}
    BY <2>1
  <2> QED
    BY <2>1 DEF Deploy
<1>3. /\ pods' \in SUBSET (Nat \ {0}) /\ pods' # {} /\ \E n \in Nat : \A v \in pods' : v <= n
      /\ \A v \in pods' : \E w \in pods : w <= v
  <2>0. Max(pods) \in Nat \ {0} /\ pods \in SUBSET (Nat \ {0})
    BY <1>1 DEF WorldInv
  <2>1. ASSUME NEW v \in Nat, v > Max(pods), pods' = pods \cup {v}
        PROVE  /\ pods' \in SUBSET (Nat \ {0}) /\ pods' # {}
               /\ \E n \in Nat : \A w \in pods' : w <= n
               /\ \A w \in pods' : \E u \in pods : u <= w
    <3>1. \A w \in pods' : w <= v
      BY <1>1, <2>0, <2>1
    <3> QED
      BY <1>1, <2>0, <2>1, <3>1
  <2>2. CASE pods' = {Max(pods)}
    BY <1>1, <2>0, <2>2
  <2> QED
    BY <1>2, <2>1, <2>2, Zenon
<1>4. UNCHANGED <<commits, reading, baseline, finding>>
  BY DEF Deploy
<1>5. Len(commits) \in Nat /\ \A j \in 0..Len(commits) : VersionAt(j)' = VersionAt(j)
  BY <1>4 DEF WorldInv, VersionAt, Bumps
<1>6. Behind(Lowest(reading))'
  <2>1. Lowest(reading) \in Nat /\ Lowest(reading)' = Lowest(reading)
    BY <1>4, LowestIs DEF WorldInv, Lowest
  <2>2. Lowest(reading) = 0 \/ \A w \in pods : Lowest(reading) <= w
    BY DEF WorldInv, Behind
  <2>3. pods \in SUBSET Nat /\ pods' \in SUBSET Nat
    BY <1>3 DEF WorldInv
  <2>4. Lowest(reading) = 0 \/ \A v \in pods' : Lowest(reading) <= v
    BY <1>3, <2>1, <2>2, <2>3
  <2> QED
    BY <2>1, <2>4 DEF Behind
<1>7. WorldInv'
  BY <1>3, <1>4, <1>6 DEF WorldInv, Lowest
<1> QED
  BY <1>3, <1>4, <1>5, <1>7 DEF EvidenceStands

LEMMA ReadKeeps ==
    ASSUME WorldInv, UNCHANGED <<commits, pods, baseline, finding>>, reading' \in {reading, {}, pods}
    PROVE  WorldInv' /\ EvidenceStands
<1>1. \A v \in pods : v <= v
  BY DEF WorldInv
<1>2. \A j \in 0..Len(commits) : VersionAt(j)' = VersionAt(j)
  BY DEF VersionAt, Bumps
<1>3. EvidenceStands
  BY <1>1, <1>2 DEF EvidenceStands, WorldInv
<1>4. reading' \in SUBSET (Nat \ {0})
  BY DEF WorldInv
<1>5. Behind(Lowest(reading))'
  <2>1. CASE reading' = reading
    BY <2>1 DEF WorldInv, Behind, Lowest
  <2>2. CASE reading' = {}
    BY <2>2 DEF Behind, Lowest
  <2>3. CASE reading' = pods
    <3>1. Lowest(pods) \in Nat /\ (Lowest(pods) > 0 => \A y \in pods : Lowest(pods) <= y)
      BY LowestIs DEF WorldInv
    <3>2. Lowest(reading)' = Lowest(pods)
      BY <2>3 DEF Lowest
    <3> QED
      BY <3>1, <3>2 DEF Behind
  <2> QED
    BY <2>1, <2>2, <2>3
<1> QED
  BY <1>3, <1>4, <1>5 DEF WorldInv, Lowest

LEMMA WorldStep ==
    ASSUME WorldInv, ListedInv, [ReplayNext]_replayVars
    PROVE  WorldInv' /\ EvidenceStands
<1>1. CASE Commit
  BY <1>1, CommitKeeps
<1>2. CASE Deploy
  BY <1>2, DeployKeeps
<1>3. CASE ~Commit /\ ~Deploy
  <2>1. UNCHANGED <<commits, pods, baseline, finding>> /\ reading' \in {reading, {}, pods}
    BY <1>3 DEF ReplayNext, replayVars, world, ReadPods, Tick, ListCommits, Evaluate, MaybeReplay,
                Park, Redeliver, ListParked, ExpireParked, LeaveParked, Attempt, Mark, MarkLost
  <2> QED
    BY <2>1, ReadKeeps
<1> QED
  BY <1>1, <1>2, <1>3

(* The cache: what is listed is listed in full, and a tick ages it. *)

LEMMA LifetimeIs ==
    /\ Lifetime \in Nat /\ \A f : TtlOf(f) = Lifetime
    /\ finding' = finding => Lifetime' = Lifetime
BY ReplayAssumption DEF Lifetime, TtlOf, History

LEMMA ListsKeeps ==
    ASSUME WorldInv, ListedInv, NEW paths, Lists(paths), UNCHANGED <<now, commits, finding>>
    PROVE  ListedInv'
<1>1. Len(commits) \in Nat /\ now \in Nat /\ Lifetime \in Nat /\ Lifetime' = Lifetime
  BY LifetimeIs DEF WorldInv, ListedInv
<1>2. \A f \in Listing : listed'[f] \in {listed[f], [upto |-> Len(commits), until |-> now + Lifetime]}
  BY LifetimeIs DEF Lists
<1>3. listed' \in [Listing -> [upto : Nat, until : Nat]]
  <2>1. \A f \in Listing : listed'[f] \in [upto : Nat, until : Nat]
    BY <1>1, <1>2 DEF ListedInv
  <2>2. listed' = [f \in Listing |-> listed'[f]]
    BY DEF Lists
  <2> QED
    BY <2>1, <2>2
<1>4. ASSUME NEW f \in Listing
      PROVE  /\ listed'[f].until <= now + Lifetime
             /\ \A i \in 1..Len(commits) :
                   i > listed'[f].upto => commits[i].at + Lifetime >= listed'[f].until
  <2>1. CASE listed'[f] = listed[f]
    BY <2>1 DEF ListedInv
  <2>2. CASE listed'[f] = [upto |-> Len(commits), until |-> now + Lifetime]
    BY <1>1, <2>2
  <2> QED
    BY <1>2, <2>1, <2>2
<1> QED
  BY <1>1, <1>3, <1>4 DEF ListedInv

LEMMA CommitIs ==
    ASSUME WorldInv
    PROVE  \A i \in 1..Len(commits) : commits[i].at \in Nat
<1>1. \A i \in 1..Len(commits) : commits[i] \in CommitRecord
  BY DEF WorldInv
<1> QED
  BY <1>1 DEF CommitRecord

LEMMA TickKeeps ==
    ASSUME WorldInv, ListedInv, Tick
    PROVE  ListedInv'
<1>1. now \in Nat /\ now' = now + 1 /\ Lifetime \in Nat /\ commits' = commits
      /\ Lifetime' = Lifetime
  BY LifetimeIs DEF ListedInv, Tick
<1>2. \A f \in Listing : listed'[f] \in {listed[f], Unlisted}
  BY DEF Tick
<1>3. listed' \in [Listing -> [upto : Nat, until : Nat]]
  <2>1. \A f \in Listing : listed'[f] \in [upto : Nat, until : Nat]
    BY <1>2 DEF ListedInv, Unlisted
  <2>2. listed' = [f \in Listing |-> listed'[f]]
    BY DEF Tick
  <2> QED
    BY <2>1, <2>2
<1>4. ASSUME NEW f \in Listing
      PROVE  /\ listed'[f].until <= now' + Lifetime
             /\ \A i \in 1..Len(commits) :
                   i > listed'[f].upto => commits[i].at + Lifetime >= listed'[f].until
  <2>1. CASE listed'[f] = listed[f]
    BY <1>1, <2>1 DEF ListedInv
  <2>2. CASE listed'[f] = Unlisted
    <3>1. \A i \in 1..Len(commits) : commits[i].at \in Nat
      BY CommitIs
    <3>2. listed'[f].until = 0 /\ listed'[f].upto = 0
      BY <2>2 DEF Unlisted
    <3>3. 0 <= now' + Lifetime
      BY <1>1
    <3>4. \A i \in 1..Len(commits) : commits[i].at + Lifetime >= 0
      BY <1>1, <3>1
    <3> QED
      BY <3>2, <3>3, <3>4
  <2> QED
    BY <1>2, <2>1, <2>2
<1> QED
  BY <1>1, <1>3, <1>4 DEF ListedInv

LEMMA ListedStep ==
    ASSUME WorldInv, ListedInv, [ReplayNext]_replayVars
    PROVE  ListedInv'
<1>1. CASE UNCHANGED <<now, commits, listed, finding>>
  BY <1>1, LifetimeIs DEF ListedInv
<1>2. CASE Commit
  <2>1. PICK c \in CommitRecord : commits' = Append(commits, c) /\ c.at = now
    BY <1>2 DEF Commit, CommitRecord, ListedInv
  <2>2. /\ Len(commits) \in Nat /\ Len(commits') = Len(commits) + 1
        /\ \A k \in 1..Len(commits) : commits'[k] = commits[k]
        /\ commits'[Len(commits) + 1] = c
    BY <2>1 DEF WorldInv
  <2>3. now' = now /\ listed' = listed /\ now \in Nat /\ Lifetime \in Nat
        /\ Lifetime' = Lifetime
    BY <1>2, LifetimeIs DEF Commit, ListedInv
  <2>4. \A f \in Listing : \A i \in 1..Len(commits') :
           i > listed'[f].upto => commits'[i].at + Lifetime >= listed'[f].until
    <3> TAKE f \in Listing
    <3> TAKE i \in 1..Len(commits')
    <3>1. listed[f].until <= now + Lifetime /\ listed[f].upto \in Nat
      BY DEF ListedInv
    <3>2. CASE i \in 1..Len(commits)
      BY <2>2, <2>3, <3>2 DEF ListedInv
    <3>3. CASE i = Len(commits) + 1
      BY <2>1, <2>2, <2>3, <3>1, <3>3
    <3> QED
      BY <2>2, <3>2, <3>3
  <2> QED
    BY <2>3, <2>4 DEF ListedInv
<1>3. CASE \E paths : Lists(paths) /\ UNCHANGED <<now, commits, finding>>
  BY <1>3, ListsKeeps
<1>4. CASE Tick
  BY <1>4, TickKeeps
<1>5. CASE Redeliver
  <2>1. /\ UNCHANGED <<now, commits, finding>> /\ now \in Nat /\ Lifetime \in Nat
        /\ Lifetime' = Lifetime
        /\ listed' \in {listed, [f \in Listing |-> Unlisted]}
    BY <1>5, LifetimeIs DEF Redeliver, ListedInv
  <2>2. CASE listed' = [f \in Listing |-> Unlisted]
    <3>1. \A i \in 1..Len(commits) : commits[i].at \in Nat
      BY CommitIs
    <3>2. \A f \in Listing : listed'[f] = [upto |-> 0, until |-> 0]
      BY <2>2 DEF Unlisted
    <3>3. \A f \in Listing : listed'[f].until = 0 /\ listed'[f].upto = 0
      BY <3>2
    <3>4. listed' \in [Listing -> [upto : Nat, until : Nat]]
      BY <2>2 DEF Unlisted
    <3>5. \A i \in 1..Len(commits) : commits[i].at + Lifetime >= 0
      BY <2>1, <3>1
    <3>6. 0 <= now + Lifetime
      BY <2>1
    <3> QED
      BY <2>1, <3>3, <3>4, <3>5, <3>6 DEF ListedInv
  <2> QED
    BY <1>1, <2>1, <2>2
<1> QED
  BY <1>1, <1>2, <1>3, <1>4, <1>5 DEF ReplayNext, replayVars, world, Deploy, ReadPods, ListCommits,
     Evaluate, MaybeReplay, Park, ListParked, ExpireParked, LeaveParked, Attempt, Mark, MarkLost

----------------------------------------------------------------------------
(* Init and the steps of what they know. *)

LEMMA ReplayInvInit == ReplayInit => ReplayInv
<1> SUFFICES ASSUME ReplayInit PROVE ReplayInv
  OBVIOUS
<1>1. WorldInv
  <2>1. /\ commits = <<>> /\ pods = {1} /\ reading = {} /\ baseline \in SUBSET (Nat \ {0})
    BY DEF ReplayInit
  <2>2. Lowest(baseline) \in Nat /\ Lowest(reading) = 0
    BY <2>1, LowestIs DEF Lowest
  <2>3. \E n \in Nat : \A v \in pods : v <= n
    BY <2>1
  <2> QED
    BY <2>1, <2>2, <2>3 DEF WorldInv, Behind
<1>2. CheckInv
  <2>1. check = [verdict |-> "UNKNOWN", required |-> 0, touched |-> {}, seen |-> 0, at |-> 0]
        /\ Len(commits) = 0
    BY DEF ReplayInit, NoCheck
  <2> QED
    BY <2>1 DEF CheckInv, Verdicts, NoChangeIsTrue
<1>3. EntryInv /\ ReleaserInv
  BY DEF ReplayInit, EntryInv, ReleaserInv, NoEntry, NoRelease, EntryRecord, ReleaseRecord
<1>4. SendsInv /\ OnceInv
  BY DEF ReplayInit, SendsInv, OnceInv, NoEntry, NoRelease, ReleasedWasSent
<1>5. FirstInv
  <2>1. place = "failed" /\ analyses = 0 /\ ~direct /\ entry.status = "none"
    BY DEF ReplayInit, NoEntry
  <2> QED
    BY <2>1 DEF FirstInv, Place, NeverBoth
<1>6. ListedInv
  <2>1. /\ now = 0 /\ Len(commits) = 0 /\ Lifetime \in Nat
        /\ listed \in [Listing -> {Unlisted} \cup [upto : {0}, until : 1..Lifetime]]
    BY LifetimeIs DEF ReplayInit
  <2>2. \A f \in Listing : /\ listed[f] \in [upto : Nat, until : Nat]
                           /\ listed[f].until <= Lifetime
    <3> TAKE f \in Listing
    <3>1. listed[f] = [upto |-> 0, until |-> 0] \/ listed[f] \in [upto : {0}, until : 1..Lifetime]
      BY <2>1 DEF Unlisted
    <3> QED
      BY <2>1, <3>1
  <2> QED
    BY <2>1, <2>2 DEF ListedInv
<1> QED
  BY <1>1, <1>2, <1>3, <1>4, <1>5, <1>6 DEF ReplayInv

LEMMA CheckStep ==
    ASSUME ReplayInv, [ReplayNext]_replayVars
    PROVE  CheckInv'
<1> USE DEF ReplayInv
<1>1. WorldInv' /\ EvidenceStands
  BY WorldStep
<1>2. /\ Len(commits) \in Nat /\ Len(commits') \in Nat /\ Len(commits) <= Len(commits')
      /\ \A k \in 1..Len(commits) : commits'[k] = commits[k]
      /\ \A j \in 0..Len(commits) : VersionAt(j)' = VersionAt(j)
      /\ \A v \in pods' : v \in Nat /\ \E w \in pods : w \in Nat /\ w <= v
  BY <1>1 DEF WorldInv, EvidenceStands
<1>5. Lifetime' = Lifetime
  BY <1>1, LifetimeIs DEF EvidenceStands
<1>3. CASE check' = check
  <2>1. /\ check.seen \in 0..Len(commits) /\ check.required \in Nat /\ check.verdict \in Verdicts
        /\ check.touched \in SUBSET (1..Len(commits))
        /\ check \in [verdict : Verdicts, required : Nat, touched : SUBSET (1..Len(commits)),
                      seen : 0..Len(commits), at : Nat]
    BY DEF CheckInv
  <2>2. check' \in [verdict : Verdicts, required : Nat, touched : SUBSET (1..Len(commits')),
                    seen : 0..Len(commits'), at : Nat]
    <3>1. 1..Len(commits) \subseteq 1..Len(commits') /\ 0..Len(commits) \subseteq 0..Len(commits')
      BY <1>2
    <3>2. check.touched \in SUBSET (1..Len(commits')) /\ check.seen \in 0..Len(commits')
      BY <2>1, <3>1
    <3> QED
      BY <1>3, <2>1, <3>2
  <2>3. check'.required > 0 => Backed(check.required, check.touched)'
    BY <1>2, <1>3, <2>1 DEF CheckInv, Backed
  <2>4. check'.verdict = "FIX_DEPLOYED" => check'.required > 0 /\ Behind(check.required)'
    BY <1>2, <1>3, <2>1 DEF CheckInv, Behind
  <2>5. NoChangeIsTrue'
    BY <1>2, <1>3, <1>5, <2>1 DEF CheckInv, NoChangeIsTrue
  <2> QED
    BY <2>2, <2>3, <2>4, <2>5 DEF CheckInv
<1>4. CASE Evaluate
  <2>1. /\ UNCHANGED <<now, commits, pods>> /\ now \in Nat /\ Lifetime \in Nat
        /\ check' = NoCheck \/
             \E unresolved \in SUBSET Touching :
                check' = [verdict |-> Verdict(Lowest(reading), unresolved),
                          required |-> RequiredOf(unresolved),
                          touched |-> Touching, seen |-> Len(commits), at |-> now]
    BY <1>4, LifetimeIs DEF Evaluate, ListedInv
  <2>2. CASE check' = NoCheck
    <3>1. check' = [verdict |-> "UNKNOWN", required |-> 0, touched |-> {}, seen |-> 0, at |-> 0]
      BY <2>2 DEF NoCheck
    <3> QED
      BY <1>2, <3>1 DEF CheckInv, Verdicts, NoChangeIsTrue
  <2>3. ASSUME NEW unresolved \in SUBSET Touching,
               check' = [verdict |-> Verdict(Lowest(reading), unresolved),
                         required |-> RequiredOf(unresolved),
                         touched |-> Touching, seen |-> Len(commits), at |-> now]
        PROVE  CheckInv'
    <3>1. Lowest(reading) \in Nat /\ Behind(Lowest(reading))
      BY LowestIs DEF WorldInv
    <3>2. PICK said, required, touched : /\ said = Verdict(Lowest(reading), unresolved)
                                         /\ required = RequiredOf(unresolved)
                                         /\ touched = Touching
      OBVIOUS
    <3>3. /\ said \in Verdicts /\ required \in Nat /\ touched \in SUBSET (1..Len(commits))
          /\ said = "NO_CHANGE" => touched = {}
          /\ said = "FIX_DEPLOYED" => required > 0 /\ Behind(required)
          /\ required > 0 => Backed(required, touched)
      BY <3>1, <3>2, VerdictIs, RequiredIs
    <3>4. /\ check' = [verdict |-> said, required |-> required, touched |-> touched,
                       seen |-> Len(commits), at |-> now]
          /\ check'.verdict = said /\ check'.required = required /\ check'.touched = touched
          /\ check'.seen = Len(commits) /\ check'.at = now
      BY <2>3, <3>2
    <3>5. check' \in [verdict : Verdicts, required : Nat, touched : SUBSET (1..Len(commits')),
                      seen : 0..Len(commits'), at : Nat]
      BY <1>2, <2>1, <3>3, <3>4
    <3>6. check'.required > 0 => Backed(check.required, check.touched)'
      BY <2>1, <3>3, <3>4, <1>2 DEF Backed
    <3>7. check'.verdict = "FIX_DEPLOYED" => check'.required > 0 /\ Behind(check.required)'
      BY <2>1, <3>3, <3>4 DEF Behind
    <3>8. NoChangeIsTrue'
      <4> SUFFICES ASSUME said = "NO_CHANGE", NEW i \in 1..Len(commits), commits[i].at + Lifetime <= now
                   PROVE  commits[i].touch = {}
        BY <1>5, <2>1, <3>4 DEF NoChangeIsTrue
      <4>1. commits[i] \in CommitRecord
        BY DEF WorldInv
      <4>2. \A f \in commits[i].touch : i <= Known(f)
        <5> TAKE f \in commits[i].touch
        <5>1. f \in Listing
          BY <4>1 DEF CommitRecord, Listing
        <5>2. CASE Served(f, now)
          <6>1. now < listed[f].until /\ Known(f) = listed[f].upto
            BY <5>2 DEF Served, Known
          <6>2. /\ listed[f].upto \in Nat /\ listed[f].until \in Nat /\ commits[i].at \in Nat
                /\ i > listed[f].upto => commits[i].at + Lifetime >= listed[f].until
            BY <4>1, <5>1 DEF ListedInv, CommitRecord
          <6> QED
            BY <2>1, <6>1, <6>2
        <5>3. CASE ~Served(f, now)
          BY <1>2, <5>3 DEF Known
        <5> QED
          BY <5>2, <5>3
      <4> QED
        BY <3>2, <3>3, <4>2 DEF Touching
    <3> QED
      BY <3>5, <3>6, <3>7, <3>8 DEF CheckInv
  <2> QED
    BY <2>1, <2>2, <2>3
<1> QED
  BY <1>3, <1>4 DEF ReplayNext, replayVars, analysis, Commit, Deploy, ReadPods, Tick, ListCommits,
     MaybeReplay, Park, Redeliver, ListParked, ExpireParked, LeaveParked, Attempt, Mark, MarkLost

(* A worthy entry stays worthy, whoever holds it. *)
LEMMA WorthyStays ==
    ASSUME WorldInv, WorldInv', EvidenceStands, NEW e, Worthy(e),
           NEW f, f.required = e.required
    PROVE  Worthy(f)'
<1>1. /\ Len(commits) \in Nat /\ Len(commits') \in Nat /\ Len(commits) <= Len(commits')
      /\ \A k \in 1..Len(commits) : commits'[k] = commits[k]
      /\ \A j \in 0..Len(commits) : VersionAt(j)' = VersionAt(j)
      /\ finding' = finding
  BY DEF WorldInv, EvidenceStands
<1>2. WouldReplay(finding)'
  BY <1>1 DEF Worthy
<1>3. Backed(f.required, 1..Len(commits))'
  BY <1>1 DEF Worthy, Backed
<1> QED
  BY <1>2, <1>3 DEF Worthy

(* An entry written is the one there, the one a worker listed with a new   *)
(* status, or what the check asks for.                                     *)
LEMMA EntryStep ==
    ASSUME ReplayInv, [ReplayNext]_replayVars
    PROVE  EntryInv'
<1> USE DEF ReplayInv
<1>1. WorldInv' /\ EvidenceStands
  BY WorldStep
<1>2. entry \in EntryRecord /\ releaser \in [Releaser -> ReleaseRecord]
      /\ check.required \in Nat
  BY DEF EntryInv, ReleaserInv, CheckInv
<1>3. ASSUME NEW e \in EntryRecord, Worthy(e), entry' \in EntryRecord,
             entry'.required = e.required
      PROVE  EntryInv'
  <2>1. PICK f : f = entry'
    OBVIOUS
  <2>2. Worthy(f)'
    BY <1>1, <1>3, <2>1, WorthyStays
  <2> QED
    BY <1>3, <2>1, <2>2 DEF EntryInv, Worthy, Backed
<1>4. CASE entry' = entry
  <2>1. CASE entry.status = "none"
    BY <1>2, <1>4, <2>1 DEF EntryInv
  <2>2. CASE entry.status # "none"
    BY <1>2, <1>3, <1>4, <2>2 DEF EntryInv
  <2> QED
    BY <2>1, <2>2
<1>5. CASE Park
  <2>1. CASE MayPark /\ check.required > 0 /\ entry' = [status |-> "parked", required |-> check.required]
    <3>1. PICK e : e = [status |-> "parked", required |-> check.required]
      OBVIOUS
    <3>2. e \in EntryRecord /\ e.required = check.required /\ entry' = e
      BY <1>2, <2>1, <3>1 DEF EntryRecord
    <3>3. Worthy(e)
      <4>1. WouldReplay(finding)
        BY <2>1 DEF MayPark
      <4>2. Backed(check.required, 1..Len(commits))
        BY <2>1 DEF CheckInv, Backed, WorldInv
      <4> QED
        BY <2>1, <3>2, <4>1, <4>2 DEF Worthy
    <3> QED
      BY <1>3, <3>2, <3>3
  <2> QED
    BY <1>4, <1>5, <2>1 DEF Park
<1>6. ASSUME NEW x \in Releaser, ExpireParked(x) \/ Mark(x)
      PROVE  EntryInv'
  <2>1. /\ releaser[x].entry \in EntryRecord /\ Worthy(releaser[x].entry)
    BY <1>2, <1>6 DEF ReleaserInv, ReleaseRecord, ExpireParked, Mark
  <2>2. entry'.required = releaser[x].entry.required /\ entry' \in EntryRecord
    BY <1>6, <2>1 DEF ExpireParked, Mark, EntryRecord
  <2> QED
    BY <1>3, <2>1, <2>2
<1> QED
  BY <1>4, <1>5, <1>6 DEF ReplayNext, replayVars, Commit, Deploy, ReadPods, Tick, ListCommits, Evaluate, MaybeReplay,
     Redeliver, ListParked, LeaveParked, Attempt, MarkLost

LEMMA ReleaserStep ==
    ASSUME ReplayInv, [ReplayNext]_replayVars
    PROVE  ReleaserInv'
<1> USE DEF ReplayInv
<1>1. WorldInv' /\ EvidenceStands
  BY WorldStep
<1>2. /\ releaser \in [Releaser -> ReleaseRecord] /\ entry \in EntryRecord /\ sends \in Nat
  BY DEF ReleaserInv, EntryInv, SendsInv
<1>3. /\ \A v \in pods' : v \in Nat /\ \E w \in pods : w \in Nat /\ w <= v
  BY <1>1 DEF WorldInv, EvidenceStands
<1>4. ASSUME NEW y \in Releaser, releaser[y].at # "idle", entry'.status # "none",
             NEW r \in ReleaseRecord, releaser'[y] = r, r.entry = releaser[y].entry,
             r.running = releaser[y].running, r.at = "queued" => sends' > 0
      PROVE  /\ releaser'[y].entry.status = "parked" /\ Worthy(releaser[y].entry)'
             /\ Behind(releaser[y].running)'
  <2>1. PICK f : f = r.entry
    OBVIOUS
  <2>2. Worthy(f)'
    BY <1>1, <1>4, <2>1, WorthyStays DEF ReleaserInv
  <2>3. Worthy(releaser[y].entry)'
    BY <1>4, <2>1, <2>2 DEF Worthy, Backed
  <2>4. Behind(releaser[y].running)'
    <3>1. releaser[y].running \in Nat /\ Behind(releaser[y].running)
      BY <1>2, <1>4 DEF ReleaseRecord, ReleaserInv
    <3> QED
      BY <1>3, <1>4, <3>1 DEF Behind
  <2> QED
    BY <1>4, <2>3, <2>4 DEF ReleaserInv
(* A worker that holds an entry holds the one it listed. *)
<1>5. ASSUME releaser' \in [Releaser -> ReleaseRecord],
             (\E y \in Releaser : releaser'[y].at # "idle") => entry'.status # "none",
             \A y \in Releaser : releaser'[y].at # "idle" =>
                /\ releaser[y].at # "idle"
                /\ releaser'[y].entry = releaser[y].entry
                /\ releaser'[y].running = releaser[y].running
                /\ releaser'[y].at = "queued" => sends' > 0
      PROVE  ReleaserInv'
  <2>1. ASSUME NEW y \in Releaser, releaser'[y].at # "idle"
        PROVE  /\ entry'.status # "none" /\ releaser'[y].entry.status = "parked"
               /\ Worthy(releaser[y].entry)' /\ Behind(releaser[y].running)'
               /\ releaser'[y].at = "queued" => sends' > 0
    <3>1. PICK r \in ReleaseRecord : releaser'[y] = r
      BY <1>5
    <3> QED
      BY <1>4, <1>5, <2>1, <3>1
  <2> QED
    BY <1>5, <2>1 DEF ReleaserInv
<1>6. CASE UNCHANGED <<releaser, entry, sends>>
  BY <1>2, <1>5, <1>6 DEF ReleaserInv
<1>7. CASE Park
  <2>1. UNCHANGED <<releaser, sends>> /\ (entry.status # "none" => entry'.status # "none")
    BY <1>7 DEF Park, release
  <2> QED
    BY <1>2, <1>5, <2>1 DEF ReleaserInv
<1>8. ASSUME NEW x \in Releaser, ListParked(x)
      PROVE  ReleaserInv'
  <2>1. PICK running \in {0, Lowest(pods)} :
            releaser' = [releaser EXCEPT ![x] = [at |-> "judge", entry |-> entry, running |-> running]]
    BY <1>8 DEF ListParked
  <2>2. running \in Nat /\ Behind(running)
    BY LowestIs DEF WorldInv, Behind
  <2>3. entry.status = "parked" /\ UNCHANGED <<commits, pods, finding, entry, sends>>
    BY <1>8 DEF ListParked, world
  <2>4. /\ releaser' \in [Releaser -> ReleaseRecord]
        /\ releaser'[x].at = "judge" /\ releaser'[x].entry = entry /\ releaser'[x].running = running
        /\ \A y \in Releaser \ {x} : releaser'[y] = releaser[y]
    BY <1>2, <2>1, <2>2 DEF ReleaseRecord
  <2>5. ASSUME NEW y \in Releaser \ {x}, releaser'[y].at # "idle"
        PROVE  /\ releaser'[y].entry.status = "parked"
               /\ Worthy(releaser[y].entry)' /\ Behind(releaser[y].running)'
               /\ releaser'[y].at = "queued" => sends' > 0
    <3>1. PICK r \in ReleaseRecord : releaser'[y] = r
      BY <2>4
    <3> QED
      BY <1>4, <2>3, <2>4, <2>5, <3>1 DEF ReleaserInv
  <2>6. Worthy(releaser[x].entry)' /\ Behind(releaser[x].running)'
    <3>1. Worthy(entry)
      BY <2>3 DEF EntryInv
    <3>2. PICK f : f = entry
      OBVIOUS
    <3>3. Worthy(f)'
      BY <1>1, <3>1, <3>2, WorthyStays
    <3>4. Worthy(releaser[x].entry)'
      BY <2>4, <3>2, <3>3 DEF Worthy, Backed
    <3>5. Behind(releaser[x].running)'
      BY <2>2, <2>3, <2>4 DEF Behind
    <3> QED
      BY <3>4, <3>5
  <2> QED
    BY <2>3, <2>4, <2>5, <2>6 DEF ReleaserInv
<1>9. ASSUME NEW x \in Releaser, ExpireParked(x) \/ LeaveParked(x) \/ Mark(x) \/ MarkLost(x)
      PROVE  ReleaserInv'
  <2>1. /\ releaser' = [releaser EXCEPT ![x] = NoRelease] /\ NoRelease \in ReleaseRecord
        /\ NoRelease.at = "idle" /\ sends' = sends /\ releaser[x].at # "idle"
    BY <1>9 DEF ExpireParked, LeaveParked, Mark, MarkLost, NoRelease, NoEntry, ReleaseRecord,
                EntryRecord
  <2>2. entry'.status # "none"
    <3>1. entry.status # "none" /\ releaser[x].entry \in EntryRecord
          /\ releaser[x].entry.status = "parked"
      BY <1>2, <2>1 DEF ReleaserInv, ReleaseRecord
    <3> QED
      BY <1>9, <3>1 DEF ExpireParked, LeaveParked, Mark, MarkLost, EntryRecord
  <2>3. /\ releaser' \in [Releaser -> ReleaseRecord]
        /\ releaser'[x].at = "idle" /\ \A y \in Releaser \ {x} : releaser'[y] = releaser[y]
    BY <1>2, <2>1
  <2> QED
    BY <1>5, <2>1, <2>2, <2>3 DEF ReleaserInv
<1>10. ASSUME NEW x \in Releaser, Attempt(x)
       PROVE  ReleaserInv'
  <2>1. /\ entry' = entry
        /\ \/ sends' = sends + 1 /\ releaser' = [releaser EXCEPT ![x].at = "queued"]
           \/ sends' = sends /\ releaser' = [releaser EXCEPT ![x].at = "failed"]
        /\ releaser[x].at = "judge"
    BY <1>10 DEF Attempt, Releases
  <2>2. /\ releaser' \in [Releaser -> ReleaseRecord]
        /\ releaser'[x].entry = releaser[x].entry /\ releaser'[x].running = releaser[x].running
        /\ releaser'[x].at = "queued" => sends' > 0
        /\ sends' >= sends /\ sends' \in Nat
        /\ \A y \in Releaser \ {x} : releaser'[y] = releaser[y]
    BY <1>2, <2>1 DEF ReleaseRecord
  <2>3. \A y \in Releaser : releaser'[y].at # "idle" =>
                /\ releaser[y].at # "idle"
                /\ releaser'[y].entry = releaser[y].entry
                /\ releaser'[y].running = releaser[y].running
                /\ releaser'[y].at = "queued" => sends' > 0
    BY <1>2, <2>1, <2>2 DEF ReleaserInv
  <2> QED
    BY <1>5, <2>1, <2>2, <2>3 DEF ReleaserInv
<1> QED
  BY <1>6, <1>7, <1>8, <1>9, <1>10 DEF ReplayNext, replayVars, release, Commit, Deploy, ReadPods, Tick,
     ListCommits, Evaluate, MaybeReplay, Redeliver

LEMMA SendsStep ==
    ASSUME ReplayInv, [ReplayNext]_replayVars
    PROVE  SendsInv'
<1> USE DEF ReplayInv
<1>1. WorldInv' /\ EvidenceStands
  BY WorldStep
<1>2. /\ releaser \in [Releaser -> ReleaseRecord] /\ entry \in EntryRecord /\ sends \in Nat
  BY DEF ReleaserInv, EntryInv, SendsInv
<1>3. /\ Len(commits) \in Nat /\ Len(commits') \in Nat /\ Len(commits) <= Len(commits')
      /\ \A k \in 1..Len(commits) : commits'[k] = commits[k]
      /\ \A j \in 0..Len(commits) : VersionAt(j)' = VersionAt(j)
      /\ \A v \in pods' : v \in Nat /\ \E w \in pods : w \in Nat /\ w <= v
      /\ finding' = finding
  BY <1>1 DEF WorldInv, EvidenceStands
<1>4. ASSUME WouldReplay(finding), NEW n \in Nat \ {0}, Backed(n, 1..Len(commits)), Behind(n)
      PROVE  /\ WouldReplay(finding)'
             /\ \E m \in Nat \ {0} : Backed(m, 1..Len(commits))' /\ Behind(m)'
  <2>1. Backed(n, 1..Len(commits))'
    BY <1>3, <1>4 DEF Backed
  <2>2. Behind(n)'
    BY <1>3, <1>4 DEF Behind
  <2> QED
    BY <1>3, <1>4, <2>1, <2>2
<1>5. CASE sends' = sends
  <2>1. sends' > 0 => /\ WouldReplay(finding)'
                      /\ \E m \in Nat \ {0} : Backed(m, 1..Len(commits))' /\ Behind(m)'
    BY <1>4, <1>5 DEF SendsInv
  <2>2. ReleasedWasSent'
    <3>1. CASE entry' = entry
      BY <1>5, <3>1 DEF SendsInv, ReleasedWasSent
    <3>2. CASE Park
      BY <1>5, <3>2 DEF SendsInv, ReleasedWasSent, Park
    <3>3. ASSUME NEW x \in Releaser, ExpireParked(x) PROVE ReleasedWasSent'
      BY <1>2, <3>3 DEF ExpireParked, ReleasedWasSent, ReleaseRecord, EntryRecord
    <3>4. ASSUME NEW x \in Releaser, Mark(x) PROVE ReleasedWasSent'
      BY <1>2, <1>5, <3>4 DEF Mark, ReleasedWasSent, ReleaserInv, ReleaseRecord, EntryRecord
    <3> QED
      BY <3>1, <3>2, <3>3, <3>4 DEF ReplayNext, replayVars, Commit, Deploy, ReadPods, Tick, ListCommits,
         Evaluate, MaybeReplay, Redeliver, ListParked, LeaveParked, Attempt, MarkLost
  <2> QED
    BY <1>2, <1>5, <2>1, <2>2 DEF SendsInv
<1>6. ASSUME NEW x \in Releaser, Attempt(x), sends' = sends + 1
      PROVE  SendsInv'
  <2>1. /\ releaser[x].at = "judge" /\ releaser[x].running > 0
        /\ releaser[x].running >= releaser[x].entry.required
        /\ entry' = entry
    BY <1>6 DEF Attempt, Satisfied
  <2>2. PICK n : n = releaser[x].entry.required
    OBVIOUS
  <2>3. /\ n \in Nat /\ n > 0 /\ Backed(n, 1..Len(commits)) /\ WouldReplay(finding)
    BY <1>2, <2>1, <2>2 DEF ReleaserInv, Worthy, ReleaseRecord, EntryRecord
  <2>4. Behind(n)
    <3>1. Behind(releaser[x].running) /\ releaser[x].running \in Nat
      BY <1>2, <2>1 DEF ReleaserInv, ReleaseRecord
    <3> QED
      BY <2>1, <2>2, <2>3, <3>1 DEF Behind, WorldInv
  <2>5. WouldReplay(finding)' /\ \E m \in Nat \ {0} : Backed(m, 1..Len(commits))' /\ Behind(m)'
    BY <1>4, <2>3, <2>4
  <2>6. sends' \in Nat /\ ReleasedWasSent'
    BY <1>2, <1>6 DEF ReleasedWasSent
  <2> QED
    BY <2>5, <2>6 DEF SendsInv
<1> QED
  BY <1>5, <1>6 DEF ReplayNext, replayVars, Commit, Deploy, ReadPods, Tick, ListCommits, Evaluate, MaybeReplay, Park,
     Redeliver, ListParked, ExpireParked, LeaveParked, Attempt, Mark, MarkLost

LEMMA OnceStep ==
    ASSUME ReplayInv, [ReplayNext]_replayVars
    PROVE  OnceInv'
<1> USE DEF ReplayInv
<1>1. /\ releaser \in [Releaser -> ReleaseRecord] /\ entry \in EntryRecord /\ sends \in Nat
      /\ faults2 \in Nat
  BY DEF ReleaserInv, EntryInv, SendsInv, OnceInv
<1>2. CASE UNCHANGED <<releaser, sends, faults2>> /\ (entry.status # "none" => entry' = entry)
  BY <1>1, <1>2 DEF OnceInv, ReleaserInv
<1>3. CASE Park
  BY <1>2, <1>3 DEF Park, release
<1>4. ASSUME NEW x \in Releaser, ListParked(x)
      PROVE  OnceInv'
  <2>1. /\ releaser[x].at = "idle" /\ entry.status = "parked" /\ UNCHANGED <<entry, sends>>
        /\ releaser'[x].at = "judge" /\ \A y \in Releaser \ {x} : releaser'[y] = releaser[y]
        /\ \/ faults2' = faults2 /\ \A y \in Releaser : releaser[y].at = "idle"
           \/ faults2' = faults2 + 1
    BY <1>1, <1>4 DEF ListParked
  <2> QED
    BY <1>1, <2>1 DEF OnceInv
<1>5. ASSUME NEW x \in Releaser, ExpireParked(x) \/ LeaveParked(x)
      PROVE  OnceInv'
  <2>1. /\ releaser[x].at = "judge" /\ UNCHANGED <<sends, faults2>>
        /\ releaser'[x].at = "idle" /\ \A y \in Releaser \ {x} : releaser'[y] = releaser[y]
    BY <1>1, <1>5 DEF ExpireParked, LeaveParked, NoRelease
  <2> QED
    BY <1>1, <2>1 DEF OnceInv
<1>6. ASSUME NEW x \in Releaser, Attempt(x)
      PROVE  OnceInv'
  <2>1. /\ releaser[x].at = "judge" /\ UNCHANGED <<entry, faults2>>
        /\ \/ sends' = sends + 1 /\ releaser'[x].at = "queued"
           \/ sends' = sends /\ releaser'[x].at = "failed"
        /\ \A y \in Releaser \ {x} : releaser'[y] = releaser[y]
    BY <1>1, <1>6 DEF Attempt, Releases, ReleaseRecord
  <2> QED
    BY <1>1, <2>1 DEF OnceInv
<1>7. ASSUME NEW x \in Releaser, Mark(x)
      PROVE  OnceInv'
  <2>1. /\ releaser[x].at \in {"queued", "failed"} /\ UNCHANGED <<sends, faults2>>
        /\ releaser[x].at = "queued" => entry'.status = "released"
        /\ releaser'[x].at = "idle" /\ \A y \in Releaser \ {x} : releaser'[y] = releaser[y]
    BY <1>1, <1>7 DEF Mark, NoRelease, ReleaseRecord, EntryRecord
  <2> QED
    BY <1>1, <2>1 DEF OnceInv
<1>8. ASSUME NEW x \in Releaser, MarkLost(x)
      PROVE  OnceInv'
  BY <1>1, <1>8 DEF MarkLost, OnceInv
<1> QED
  BY <1>2, <1>3, <1>4, <1>5, <1>6, <1>7, <1>8 DEF ReplayNext, replayVars, release, Commit, Deploy,
     ReadPods, Tick, ListCommits, Evaluate, MaybeReplay, Redeliver

LEMMA FirstStep ==
    ASSUME ReplayInv, [ReplayNext]_replayVars
    PROVE  FirstInv'
<1> USE DEF ReplayInv, Place, FirstInv
<1>1. /\ releaser \in [Releaser -> ReleaseRecord] /\ entry \in EntryRecord
      /\ \A x \in Releaser : releaser[x].at # "idle" => entry.status # "none"
  BY DEF ReleaserInv, EntryInv
<1>2. CASE UNCHANGED <<check, finding, place, analyses, direct>> /\ (entry.status = "none" => entry' = entry)
  BY <1>2 DEF NeverBoth, Vetoed
<1>3. CASE Commit \/ Deploy \/ ReadPods \/ Tick \/ \E f \in Listing : ListCommits(f)
  BY <1>2, <1>3 DEF Commit, Deploy, ReadPods, Tick, ListCommits, analysis
<1>4. CASE Evaluate
  BY <1>4 DEF Evaluate, NeverBoth
<1>5. CASE MaybeReplay
  <2>1. /\ place = "checked" /\ place' = "replayed" /\ UNCHANGED <<analyses, entry, check, finding>>
    BY <1>5 DEF MaybeReplay, world
  <2>2. direct' => direct \/ ~Vetoed
    BY <1>5 DEF MaybeReplay
  <2>3. Vetoed' = Vetoed
    BY <2>1 DEF Vetoed
  <2> QED
    BY <2>1, <2>2, <2>3 DEF NeverBoth
<1>6. CASE Park
  <2>1. MayPark => Vetoed
    BY DEF MayPark, Vetoed
  <2>2. /\ place = "replayed" /\ place' = "done" /\ UNCHANGED <<direct, analyses>>
        /\ MayPark \/ entry' = entry
    BY <1>6 DEF Park
  <2> QED
    BY <2>1, <2>2 DEF NeverBoth
<1>7. CASE Redeliver
  BY <1>7 DEF Redeliver, NeverBoth
<1>8. ASSUME NEW x \in Releaser,
             \/ ListParked(x) \/ ExpireParked(x) \/ LeaveParked(x) \/ Attempt(x) \/ Mark(x)
             \/ MarkLost(x)
      PROVE  FirstInv'
  <2>1. UNCHANGED <<check, finding, place, analyses, direct>>
    BY <1>8 DEF ListParked, ExpireParked, LeaveParked, Attempt, Mark, MarkLost, analysis, world
  <2>2. entry.status = "none" => entry' = entry
    BY <1>1, <1>8 DEF ListParked, ExpireParked, LeaveParked, Attempt, Mark, MarkLost
  <2> QED
    BY <1>2, <2>1, <2>2
<1> QED
  BY <1>2, <1>3, <1>4, <1>5, <1>6, <1>7, <1>8 DEF ReplayNext, replayVars

----------------------------------------------------------------------------
LEMMA ReplayInvImplies == ReplayInv => ReplayIsSafe
<1> SUFFICES ASSUME ReplayInv PROVE ReplayIsSafe
  OBVIOUS
<1> USE DEF ReplayInv
<1>0. Len(commits) \in Nat /\ pods \in SUBSET Nat
  BY DEF WorldInv
(* A build at or past a version of the call path holds its commit. *)
<1>1. ASSUME NEW n \in Nat \ {0}, NEW some \in SUBSET (1..Len(commits)), Backed(n, some), Behind(n)
      PROVE  \E i \in some : commits[i].touch # {} /\ \A v \in pods : Holds2(v, i)
  <2>1. PICK i \in some : /\ commits[i].touch # {}
                          /\ \E j \in i..Len(commits) : commits[j].bump /\ VersionAt(j) = n
    BY <1>1 DEF Backed
  <2>2. \A v \in pods : n <= v
    BY <1>1 DEF Behind
  <2> QED
    BY <2>1, <2>2 DEF Holds2
<1>2. FixIsRunning
  <2>1. check.required \in Nat /\ check.touched \in SUBSET (1..Len(commits))
    BY DEF CheckInv
  <2> QED
    BY <1>1, <2>1 DEF CheckInv, FixIsRunning
<1>3. ReleasedWasWorthy
  BY <1>0, <1>1 DEF SendsInv, ReleasedWasWorthy
<1>4. ReplayTypeOK
  <2>1. check.verdict \in Verdicts /\ entry \in EntryRecord /\ place \in Place
    BY DEF CheckInv, EntryInv, FirstInv
  <2>2. entry.status = "parked" => entry.required > 0
    BY DEF EntryInv, Worthy
  <2> QED
    BY <2>1, <2>2 DEF ReplayTypeOK, Verdicts, EntryRecord, Place
<1> QED
  BY <1>2, <1>3, <1>4 DEF CheckInv, SendsInv, OnceInv, FirstInv, ReleasedOnce, ReplayIsSafe

(* Whatever is committed and rolled out while a packet waits, and however  *)
(* many release workers, files and redeliveries there are: FIX_DEPLOYED    *)
(* and NO_CHANGE are true of the repository and of every pod; a release    *)
(* sends only what the gate would have sent, once the pods hold a change   *)
(* to the call path; what is marked released was sent, once while no mark  *)
(* is lost and no two runs of the worker overlap; and one analysis either  *)
(* replays or parks.                                                       *)
THEOREM ReplaysAreSafe == ReplaySpec => []ReplayIsSafe
<1>1. ASSUME ReplayInv, [ReplayNext]_replayVars
      PROVE  ReplayInv'
  BY <1>1, WorldStep, ListedStep, CheckStep, EntryStep, ReleaserStep, SendsStep, OnceStep, FirstStep
     DEF ReplayInv
<1> QED
  BY <1>1, ReplayInvInit, ReplayInvImplies, PTL DEF ReplaySpec

----------------------------------------------------------------------------
(* DltCase: a record through both lanes. *)

Status == {"none", "LOGS_FETCHED"} \cup Terminals
FetchRecord ==
    [at : {"idle", "gate", "claim", "write", "load", "judge", "takeover", "evidence", "status", "mark",
           "publish"},
     holder : Ref \cup {NoRef}, old : BOOLEAN, status : Status]
ClaimRecord == [made : BOOLEAN, holder : Ref \cup {NoRef}, old : BOOLEAN]
WorkRecord ==
    [ref : Ref \cup {NoRef}, at : {"idle", "holder", "gate", "running", "guard", "book", "status", "timeout"},
     gaveUp : {"no", "status", "yes"}]

CaseTyped ==
    /\ inbox \in [Ref -> Nat] /\ queue \in [Ref -> Nat]
    /\ claim \in ClaimRecord /\ (claim.holder # NoRef => claim.made)
    /\ status \in [Ref -> Status] /\ book \in [Ref -> {"none"} \cup Terminals]
    /\ logs \in [Ref -> BOOLEAN]
    /\ fetch \in [Ref -> FetchRecord] /\ work \in [Worker -> WorkRecord]
    /\ crashes \in Nat /\ claimFaults \in Nat /\ crashes + claimFaults <= MaxCaseFaults

(* A verdict shows in the casebook from before it shows anywhere else.     *)
BookInv ==
    /\ \A d \in Ref : status[d] \in Terminals => book[d] \in Terminals
    /\ \A w \in Worker : /\ work[w].at = "idle" <=> work[w].ref = NoRef
                         /\ work[w].at \in {"status", "timeout"} \/ work[w].gaveUp # "no"
                               => work[w].ref \in Ref /\ book[work[w].ref] \in Terminals

(* What is queued has its evidence stored.                                 *)
LogsInv ==
    /\ \A d \in Ref : queue[d] > 0 \/ fetch[d].at \in {"status", "mark", "publish"} => logs[d]
    /\ \A w \in Worker : work[w].ref # NoRef => logs[work[w].ref]

(* Every redelivery is owed to a crash.                                    *)
InboxInv ==
    \A d \in Ref : inbox[d] + (IF fetch[d].at = "idle" THEN 0 ELSE 1) <= 2 + crashes

(* A delivery whose own claim stands has not read another's.               *)
ClaimSeen ==
    \A d \in Ref : fetch[d].at = "judge" /\ claim.holder = d => fetch[d].holder \in {d, NoRef}

(* Some work of the refId is still to come.                                *)
Pending(d) ==
    \/ inbox[d] > 0 \/ queue[d] > 0 \/ fetch[d].at # "idle"
    \/ \E w \in Worker : work[w].ref = d

(* Some of it is, and not of a delivery that is about to give way to a     *)
(* holder it read of.                                                      *)
Going(d) ==
    \/ inbox[d] > 0 \/ queue[d] > 0
    \/ fetch[d].at # "idle" /\ (fetch[d].at = "judge" => fetch[d].holder \in {d, NoRef})
    \/ \E w \in Worker : work[w].ref = d

(* Until there is an outcome, the holder of the claim is on its way, and   *)
(* somebody is while no claim names a holder.                              *)
Covered ==
    \/ ended # {} \/ \E d \in Ref : book[d] \in Terminals
    \/ claim.holder = NoRef /\ \E d \in Ref : Going(d)
    \/ claim.holder \in Ref /\ Pending(claim.holder)

(* Where a claim is made with its text, while none outlived its TTL and    *)
(* the claim store never failed, one refId holds the claim for good, and   *)
(* only its record is carried further.                                     *)
FirstHolderOnly ==
    AtomicCreate /\ ~expired /\ claimFaults = 0 =>
        /\ ~claim.old /\ (claim.made => claim.holder # NoRef)
        /\ \A d \in Ref : /\ ~fetch[d].old /\ fetch[d].at \notin {"write", "takeover"}
                          /\ fetch[d].at \in {"load", "judge"} => claim.made
                          /\ fetch[d].at = "judge" => fetch[d].holder = claim.holder
                          /\ fetch[d].at \in {"evidence", "status", "mark", "publish"} \/ queue[d] > 0
                                => claim.holder = d
        /\ \A w \in Worker : work[w].ref # NoRef => claim.holder = work[w].ref
        /\ \A d \in analysed : d \in Ref /\ claim.holder = d

CaseInv ==
    CaseTyped /\ BookInv /\ LogsInv /\ InboxInv /\ ClaimSeen /\ Covered /\ FirstHolderOnly

LEMMA FinishedIs ==
    ASSUME CaseTyped, BookInv, NEW d \in Ref
    PROVE  Finished(d) <=> book[d] \in Terminals
BY DEF CaseTyped, BookInv, Finished, TerminalStatus, Terminals

LEMMA NoClaimIs == NoClaim \in ClaimRecord /\ NoClaim.holder = NoRef /\ ~NoClaim.made /\ ~NoClaim.old
<1>1. ASSUME NEW b \in BOOLEAN, NEW c \in BOOLEAN
      PROVE  [made |-> b, holder |-> NoRef, old |-> c] \in ClaimRecord
  BY DEF ClaimRecord
<1>2. FALSE \in BOOLEAN
  OBVIOUS
<1>3. NoClaim \in ClaimRecord
  BY <1>1, <1>2 DEF NoClaim
<1> QED
  BY <1>3 DEF NoClaim

LEMMA ClaimOfIs ==
    ASSUME NEW d \in Ref \cup {NoRef}
    PROVE  /\ ClaimOf(d) \in ClaimRecord
           /\ ClaimOf(d).holder = d /\ ClaimOf(d).made /\ ~ClaimOf(d).old
<1>1. ASSUME NEW b \in BOOLEAN, NEW c \in BOOLEAN
      PROVE  [made |-> b, holder |-> d, old |-> c] \in ClaimRecord
  BY DEF ClaimRecord
<1>2. FALSE \in BOOLEAN /\ TRUE \in BOOLEAN
  OBVIOUS
<1>3. ClaimOf(d) \in ClaimRecord
  BY <1>1, <1>2 DEF ClaimOf
<1> QED
  BY <1>3 DEF ClaimOf

LEMMA CaseInvInit == CaseInit => CaseInv
<1> SUFFICES ASSUME CaseInit PROVE CaseInv
  OBVIOUS
<1>1. Deliveries \in [Ref -> 1..2] /\ NoRef \notin Ref /\ MaxCaseFaults \in Nat
  BY DltCaseAssumption
<1>b. FALSE \in BOOLEAN
  OBVIOUS
<1>2. NoFetch \in FetchRecord /\ NoFetch.at = "idle" /\ NoFetch.holder = NoRef
  <2>1. ASSUME NEW b \in BOOLEAN
        PROVE  [at |-> "idle", holder |-> NoRef, old |-> b, status |-> "none"] \in FetchRecord
    BY DEF FetchRecord, Status
  <2> QED
    BY <1>b, <2>1 DEF NoFetch
<1>3. claim \in ClaimRecord /\ claim.holder = NoRef /\ ~claim.made /\ ~claim.old
  BY NoClaimIs DEF CaseInit
<1>4. logs \in [Ref -> BOOLEAN]
  BY DEF CaseInit
<1>5. NoWork \in WorkRecord /\ NoWork.ref = NoRef /\ NoWork.at = "idle" /\ NoWork.gaveUp = "no"
  BY DEF NoWork, WorkRecord
<1>6. /\ inbox \in [Ref -> Nat] /\ queue \in [Ref -> Nat]
      /\ status \in [Ref -> Status] /\ book \in [Ref -> {"none"} \cup Terminals]
      /\ fetch \in [Ref -> FetchRecord] /\ work \in [Worker -> WorkRecord]
      /\ crashes \in Nat /\ claimFaults \in Nat /\ crashes + claimFaults <= MaxCaseFaults
  BY <1>1, <1>2, <1>5 DEF CaseInit, Status
<1>7. CaseTyped
  BY <1>3, <1>4, <1>6 DEF CaseTyped
<1>8. BookInv /\ LogsInv
  BY <1>1, <1>2, <1>5 DEF CaseInit, BookInv, LogsInv, Terminals
<1>9. InboxInv /\ ClaimSeen
  BY <1>1, <1>2 DEF CaseInit, InboxInv, ClaimSeen
<1>10. Covered
  BY <1>1, <1>3, DltCaseAssumption DEF CaseInit, Covered, Going
<1>11. FirstHolderOnly
  <2>1. ~NoFetch.old
    BY DEF NoFetch
  <2> QED
    BY <1>2, <1>3, <1>5, <2>1 DEF CaseInit, FirstHolderOnly
<1> QED
  BY <1>7, <1>8, <1>9, <1>10, <1>11 DEF CaseInv

(* What the operations on the two tables of requests do. *)
LEMMA FetchMoves ==
    ASSUME CaseTyped, NEW d \in Ref,
           NEW where \in {"idle", "gate", "claim", "write", "load", "judge", "takeover", "evidence",
                          "status", "mark", "publish"},
           FetchGoes(d, where)
    PROVE  /\ fetch' \in [Ref -> FetchRecord]
           /\ fetch'[d].at = where /\ fetch'[d].holder = fetch[d].holder
           /\ fetch'[d].old = fetch[d].old
           /\ \A e \in Ref \ {d} : fetch'[e] = fetch[e]
<1>1. fetch \in [Ref -> FetchRecord] /\ fetch' = [fetch EXCEPT ![d].at = where]
  BY DEF CaseTyped, FetchGoes
<1> QED
  BY <1>1 DEF FetchRecord

LEMMA NoFetchIs ==
    NoFetch \in FetchRecord /\ NoFetch.at = "idle" /\ ~NoFetch.old
<1>1. FALSE \in BOOLEAN
  OBVIOUS
<1>2. ASSUME NEW b \in BOOLEAN
      PROVE  [at |-> "idle", holder |-> NoRef, old |-> b, status |-> "none"] \in FetchRecord
  BY DEF FetchRecord, Status
<1>3. NoFetch \in FetchRecord
  BY <1>1, <1>2 DEF NoFetch
<1>4. NoFetch.at = "idle" /\ ~NoFetch.old
  BY DEF NoFetch
<1> QED
  BY <1>3, <1>4

LEMMA FetchEnding ==
    ASSUME CaseTyped, NEW d \in Ref, FetchEnds(d)
    PROVE  /\ fetch' \in [Ref -> FetchRecord]
           /\ fetch'[d].at = "idle"
           /\ ~fetch'[d].old
           /\ \A e \in Ref \ {d} : fetch'[e] = fetch[e]
<1>1. fetch' = [fetch EXCEPT ![d] = NoFetch] /\ fetch \in [Ref -> FetchRecord]
  BY DEF FetchEnds, CaseTyped
<1>2. fetch'[d] = NoFetch
  BY <1>1
<1>3. fetch'[d].at = "idle" /\ ~fetch'[d].old
  BY <1>2, NoFetchIs, Zenon
<1>4. fetch' \in [Ref -> FetchRecord] /\ \A e \in Ref \ {d} : fetch'[e] = fetch[e]
  BY <1>1, NoFetchIs
<1> QED
  BY <1>3, <1>4

LEMMA WorkMoves ==
    ASSUME CaseTyped, NEW w \in Worker,
           NEW where \in {"idle", "holder", "gate", "running", "guard", "book", "status", "timeout"},
           WorkGoes(w, where)
    PROVE  /\ work' \in [Worker -> WorkRecord]
           /\ work'[w].at = where /\ work'[w].ref = work[w].ref
           /\ work'[w].gaveUp = work[w].gaveUp
           /\ \A v \in Worker \ {w} : work'[v] = work[v]
BY DEF CaseTyped, WorkGoes, WorkRecord

LEMMA WorkEnding ==
    ASSUME CaseTyped, NEW w \in Worker, WorkEnds(w)
    PROVE  /\ work' \in [Worker -> WorkRecord]
           /\ work'[w].at = "idle" /\ work'[w].ref = NoRef /\ work'[w].gaveUp = "no"
           /\ \A v \in Worker \ {w} : work'[v] = work[v]
BY DEF CaseTyped, WorkEnds, NoWork, WorkRecord

(* The analyses a crash gives back to the queue. *)
Returned(d) == {w \in Worker : work[w].ref = d /\ work[w].gaveUp # "yes"}

LEMMA ReturnedIs ==
    ASSUME NEW d \in Ref
    PROVE  Cardinality(Returned(d)) \in Nat /\ (Cardinality(Returned(d)) > 0 <=> Returned(d) # {})
<1>1. Returned(d) \in SUBSET Worker
  BY DEF Returned
<1>2. IsFiniteSet(Returned(d))
  BY <1>1, DltCaseAssumption, FS_Subset
<1> QED
  BY <1>2, FS_CardinalityType, FS_EmptySet

LEMMA ClaimMoves ==
    ASSUME CaseTyped, NEW d \in Ref,
           \/ DeliverFetch(d) \/ FetchGate(d) \/ CreateClaim(d) \/ WriteClaim(d) \/ ClaimStoreFails(d)
           \/ LoadClaim(d) \/ JudgeClaim(d) \/ TakeOver(d) \/ PersistEvidence(d)
           \/ ReadStatus(d) \/ MarkFetched(d) \/ Publish(d) \/ FetchFails(d)
    PROVE  \/ claim' = claim
           \/ claim' = ClaimOf(d) /\ claim' \in ClaimRecord /\ claim'.holder = d /\ claim'.made
           \/ claim' = ClaimOf(NoRef) /\ CreateClaim(d) /\ ~claim.made
              /\ claim' \in ClaimRecord /\ claim'.holder = NoRef
           \/ claim' = NoClaim /\ ClaimStoreFails(d) /\ claim' \in ClaimRecord /\ claim'.holder = NoRef
<1>2. \/ claim' = claim \/ claim' = ClaimOf(d)
      \/ claim' = ClaimOf(NoRef) /\ CreateClaim(d) /\ ~claim.made
      \/ claim' = NoClaim /\ ClaimStoreFails(d)
  BY DltCaseAssumption
     DEF DeliverFetch, FetchGate, CreateClaim, WriteClaim, ClaimStoreFails, LoadClaim, JudgeClaim,
         TakeOver, PersistEvidence, ReadStatus, MarkFetched, Publish, FetchFails
<1> QED
  BY <1>2, NoClaimIs, ClaimOfIs

LEMMA FetchLaneTyped ==
    ASSUME CaseTyped, NEW d \in Ref,
           \/ DeliverFetch(d) \/ FetchGate(d) \/ CreateClaim(d) \/ WriteClaim(d) \/ ClaimStoreFails(d)
           \/ LoadClaim(d) \/ JudgeClaim(d) \/ TakeOver(d) \/ PersistEvidence(d)
           \/ ReadStatus(d) \/ MarkFetched(d) \/ Publish(d) \/ FetchFails(d)
    PROVE  CaseTyped'
<1> USE DEF files, history, faults
<1>1. fetch' \in [Ref -> FetchRecord]
  <2>1. CASE \/ \E where \in {"gate", "claim", "write", "load", "takeover", "evidence", "status", "publish"} :
                   FetchGoes(d, where)
             \/ FetchEnds(d) \/ UNCHANGED fetch
    BY <2>1, FetchMoves, FetchEnding DEF CaseTyped
  <2>2. CASE LoadClaim(d)
    <3>1. \/ fetch' = [fetch EXCEPT ![d].at = "judge", ![d].holder = claim.holder,
                                    ![d].old = claim.old]
          \/ fetch' = [fetch EXCEPT ![d].at = "judge", ![d].holder = NoRef, ![d].old = FALSE]
      BY <2>2 DEF LoadClaim
    <3>2. claim.holder \in Ref \cup {NoRef} /\ claim.old \in BOOLEAN /\ FALSE \in BOOLEAN
          /\ NoRef \in Ref \cup {NoRef} /\ fetch \in [Ref -> FetchRecord]
      BY DEF CaseTyped, ClaimRecord
    <3>3. ASSUME NEW Holder, Holder = Ref \cup {NoRef}, NEW h \in Holder, NEW b \in BOOLEAN
          PROVE  [fetch EXCEPT ![d].at = "judge", ![d].holder = h, ![d].old = b]
                     \in [Ref -> FetchRecord]
      <4>1. FetchRecord = [at : {"idle", "gate", "claim", "write", "load", "judge", "takeover", "evidence",
                                 "status", "mark", "publish"},
                           holder : Holder, old : BOOLEAN, status : Status]
        BY <3>3 DEF FetchRecord
      <4>2. fetch[d] \in FetchRecord
        BY <3>2
      <4>3. [fetch[d] EXCEPT !.at = "judge", !.holder = h, !.old = b] \in FetchRecord
        BY <4>1, <4>2
      <4> DEFINE new == [fetch[d] EXCEPT !.at = "judge", !.holder = h, !.old = b]
      <4>4. [fetch EXCEPT ![d].at = "judge", ![d].holder = h, ![d].old = b]
                = [fetch EXCEPT ![d] = new]
        BY <3>2
      <4> HIDE DEF new
      <4> QED
        BY <3>2, <4>3, <4>4 DEF new
    <3> DEFINE Judging(h, b) == [fetch EXCEPT ![d].at = "judge", ![d].holder = h, ![d].old = b]
    <3>4. fetch' = Judging(claim.holder, claim.old) \/ fetch' = Judging(NoRef, FALSE)
      BY <3>1
    <3>5. \A h \in Ref \cup {NoRef}, b \in BOOLEAN : Judging(h, b) \in [Ref -> FetchRecord]
      BY <3>3
    <3> HIDE DEF Judging
    <3> QED
      BY <3>2, <3>4, <3>5
  <2>3. CASE ReadStatus(d)
    <3>1. fetch' = [fetch EXCEPT ![d].at = "mark", ![d].status = status[d]]
      BY <2>3 DEF ReadStatus
    <3>2. status[d] \in Status /\ fetch \in [Ref -> FetchRecord]
      BY DEF CaseTyped
    <3> QED
      BY <3>1, <3>2 DEF FetchRecord
  <2> QED
    BY <2>1, <2>2, <2>3 DEF DeliverFetch, FetchGate, CreateClaim, WriteClaim, ClaimStoreFails, JudgeClaim,
       TakeOver, PersistEvidence, MarkFetched, Publish, FetchFails
<1>2. claim' \in ClaimRecord /\ (claim'.holder # NoRef => claim'.made)
  BY ClaimMoves DEF CaseTyped
<1>3. logs' \in [Ref -> BOOLEAN]
  <2>1. logs \in [Ref -> BOOLEAN]
    BY DEF CaseTyped
  <2>2. logs' = logs \/ logs' = [logs EXCEPT ![d] = TRUE]
    BY DEF DeliverFetch, FetchGate, CreateClaim, WriteClaim, ClaimStoreFails, LoadClaim, JudgeClaim, TakeOver,
       PersistEvidence, ReadStatus, MarkFetched, Publish, FetchFails
  <2> QED
    BY <2>1, <2>2
<1>4. /\ inbox' \in [Ref -> Nat] /\ queue' \in [Ref -> Nat]
      /\ status' \in [Ref -> Status] /\ book' \in [Ref -> {"none"} \cup Terminals]
      /\ work' \in [Worker -> WorkRecord]
      /\ crashes' \in Nat /\ claimFaults' \in Nat /\ crashes' + claimFaults' <= MaxCaseFaults
  BY DltCaseAssumption
     DEF CaseTyped, DeliverFetch, FetchGate, CreateClaim, WriteClaim, ClaimStoreFails, LoadClaim, JudgeClaim,
         TakeOver, PersistEvidence, ReadStatus, MarkFetched, Publish, FetchFails, Status
<1> QED
  BY <1>1, <1>2, <1>3, <1>4 DEF CaseTyped

LEMMA AnalysisLaneTyped ==
    ASSUME CaseTyped, NEW w \in Worker,
           \/ DeliverAnalysis(w) \/ CheckHolder(w) \/ AnalysisGate(w) \/ Analysed(w) \/ LateGuard(w)
           \/ SaveBook(w) \/ SaveStatus(w) \/ AnalysisFails(w)
           \/ ServerTimeout(w) \/ ServerTimeoutStatus(w) \/ ClientTimeout(w)
    PROVE  CaseTyped'
<1> USE DEF files, history, faults
<1>1. work' \in [Worker -> WorkRecord]
  <2>1. CASE \/ \E where \in {"gate", "running", "guard", "book", "status", "timeout"} : WorkGoes(w, where)
             \/ WorkEnds(w) \/ UNCHANGED work
    BY <2>1, WorkMoves, WorkEnding DEF CaseTyped
  <2>2. CASE DeliverAnalysis(w)
    BY <2>2 DEF CaseTyped, DeliverAnalysis, WorkRecord
  <2>3. CASE ClientTimeout(w)
    <3>1. PICK g \in {"no", "status", "yes"} : work' = [work EXCEPT ![w].gaveUp = g]
      BY <2>3 DEF ClientTimeout
    <3> QED
      BY <3>1 DEF CaseTyped, WorkRecord
  <2> QED
    BY <2>1, <2>2, <2>3 DEF CheckHolder, AnalysisGate, Analysed, LateGuard, SaveBook, SaveStatus, AnalysisFails,
       ServerTimeout, ServerTimeoutStatus
<1>2. UNCHANGED <<inbox, claim, logs, fetch, crashes>>
  BY DEF DeliverAnalysis, CheckHolder, AnalysisGate, Analysed, LateGuard, SaveBook, SaveStatus, AnalysisFails,
       ServerTimeout, ServerTimeoutStatus, ClientTimeout
<1>3. queue' \in [Ref -> Nat]
  BY DEF CaseTyped, DeliverAnalysis, CheckHolder, AnalysisGate, Analysed, LateGuard, SaveBook, SaveStatus,
       AnalysisFails, ServerTimeout, ServerTimeoutStatus, ClientTimeout
<1>4. status' \in [Ref -> Status] /\ book' \in [Ref -> {"none"} \cup Terminals]
  BY DEF CaseTyped, DeliverAnalysis, CheckHolder, AnalysisGate, Analysed, LateGuard, SaveBook, SaveStatus,
       AnalysisFails, ServerTimeout, ServerTimeoutStatus, ClientTimeout, Status, Terminals
<1>5. claimFaults' \in Nat /\ crashes' + claimFaults' <= MaxCaseFaults
  BY DltCaseAssumption
     DEF CaseTyped, DeliverAnalysis, CheckHolder, AnalysisGate, Analysed, LateGuard, SaveBook, SaveStatus,
       AnalysisFails, ServerTimeout, ServerTimeoutStatus, ClientTimeout
<1> QED
  BY <1>1, <1>2, <1>3, <1>4, <1>5 DEF CaseTyped

LEMMA CrashSteps ==
    ASSUME CaseTyped, CaseCrash
    PROVE  /\ \A d \in Ref : /\ inbox'[d] = inbox[d] + (IF fetch[d].at = "idle" THEN 0 ELSE 1)
                             /\ queue'[d] = queue[d] + Cardinality(Returned(d))
                             /\ fetch'[d] = NoFetch
           /\ \A w \in Worker : work'[w] = NoWork
           /\ crashes' = crashes + 1 /\ crashes + claimFaults < MaxCaseFaults
           /\ UNCHANGED <<setting, claim, status, book, logs, analysed, ended, claimFaults, expired>>
BY DEF CaseCrash, FetchAt, Returned, files, history

LEMMA CaseTypedStep ==
    ASSUME CaseTyped, [CaseNext]_caseVars
    PROVE  CaseTyped'
<1> USE DEF files, history, faults
<1>1. ASSUME NEW d \in Ref,
             \/ DeliverFetch(d) \/ FetchGate(d) \/ CreateClaim(d) \/ WriteClaim(d) \/ ClaimStoreFails(d)
             \/ LoadClaim(d) \/ JudgeClaim(d) \/ TakeOver(d) \/ PersistEvidence(d)
             \/ ReadStatus(d) \/ MarkFetched(d) \/ Publish(d) \/ FetchFails(d)
      PROVE  CaseTyped'
  BY <1>1, FetchLaneTyped
<1>2. ASSUME NEW w \in Worker,
             \/ DeliverAnalysis(w) \/ CheckHolder(w) \/ AnalysisGate(w) \/ Analysed(w) \/ LateGuard(w)
             \/ SaveBook(w) \/ SaveStatus(w) \/ AnalysisFails(w)
             \/ ServerTimeout(w) \/ ServerTimeoutStatus(w) \/ ClientTimeout(w)
      PROVE  CaseTyped'
  BY <1>2, AnalysisLaneTyped
<1>3. CASE ClaimExpires
  <2>1. claim' \in ClaimRecord /\ (claim'.holder # NoRef => claim'.made)
    <3>1. ASSUME NEW b \in BOOLEAN
          PROVE  /\ [claim EXCEPT !.old = b] \in ClaimRecord
                 /\ [claim EXCEPT !.old = b].holder = claim.holder
                 /\ [claim EXCEPT !.old = b].made = claim.made
      BY DEF CaseTyped, ClaimRecord
    <3>2. TRUE \in BOOLEAN
      OBVIOUS
    <3>3. claim' = [claim EXCEPT !.old = TRUE]
      BY <1>3 DEF ClaimExpires
    <3>4. /\ claim' \in ClaimRecord /\ claim'.holder = claim.holder /\ claim'.made = claim.made
      BY <3>1, <3>2, <3>3, Zenon
    <3> QED
      BY <3>4 DEF CaseTyped
  <2> QED
    BY <1>3, <2>1 DEF ClaimExpires, CaseTyped
<1>4. CASE CaseCrash
  <2>1. /\ inbox' \in [Ref -> Nat]
        /\ crashes' \in Nat /\ claimFaults' \in Nat /\ crashes' + claimFaults' <= MaxCaseFaults
        /\ UNCHANGED <<claim, status, book, logs>>
    BY <1>4, DltCaseAssumption DEF CaseCrash, CaseTyped
  <2>2. queue' \in [Ref -> Nat]
    <3>1. queue' = [d \in Ref |-> queue[d] + Cardinality(Returned(d))]
      BY <1>4 DEF CaseCrash, Returned
    <3>2. \A d \in Ref : queue[d] + Cardinality(Returned(d)) \in Nat
      BY ReturnedIs DEF CaseTyped
    <3> QED
      BY <3>1, <3>2
  <2>3. fetch' \in [Ref -> FetchRecord]
    BY <1>4, NoFetchIs DEF CaseCrash
  <2>4. work' \in [Worker -> WorkRecord]
    BY <1>4 DEF CaseCrash, NoWork, WorkRecord
  <2> QED
    BY <2>1, <2>2, <2>3, <2>4 DEF CaseTyped
<1>5. CASE UNCHANGED caseVars \/ SwitchOff
  BY <1>5 DEF SwitchOff, files, history, faults, caseVars, CaseTyped
<1> QED
  BY <1>1, <1>2, <1>3, <1>4, <1>5 DEF CaseNext

(* What a step of a lane leaves alone. *)

LEMMA BackendStays == [CaseNext]_caseVars => (AtomicCreate' <=> AtomicCreate)
<1> USE DEF setting, files, history, faults
<1>1. [CaseNext]_caseVars => backend' = backend
  BY DEF CaseNext, DeliverFetch, FetchGate, CreateClaim, WriteClaim, ClaimStoreFails, LoadClaim, JudgeClaim,
     TakeOver, PersistEvidence, ReadStatus, MarkFetched, Publish, FetchFails, DeliverAnalysis, CheckHolder,
     AnalysisGate, Analysed, LateGuard, SaveBook, SaveStatus, AnalysisFails, ServerTimeout,
     ServerTimeoutStatus, ClientTimeout, SwitchOff, ClaimExpires, CaseCrash, caseVars
<1> QED
  BY <1>1 DEF AtomicCreate

LEMMA FetchLaneFrame ==
    ASSUME CaseTyped, NEW d \in Ref,
           \/ DeliverFetch(d) \/ FetchGate(d) \/ CreateClaim(d) \/ WriteClaim(d) \/ ClaimStoreFails(d)
           \/ LoadClaim(d) \/ JudgeClaim(d) \/ TakeOver(d) \/ PersistEvidence(d)
           \/ ReadStatus(d) \/ MarkFetched(d) \/ Publish(d) \/ FetchFails(d)
    PROVE  /\ UNCHANGED <<setting, work, book, analysed, crashes, expired>>
           /\ \A e \in Ref \ {d} : /\ fetch'[e] = fetch[e] /\ inbox'[e] = inbox[e]
                                   /\ queue'[e] = queue[e] /\ logs'[e] = logs[e]
                                   /\ status'[e] = status[e]
           /\ logs[d] => logs'[d]
           /\ queue'[d] >= queue[d]
           /\ status'[d] \in Terminals => status[d] \in Terminals
           /\ ended \subseteq ended'
           /\ claim' = claim \/ claim'.holder \in {d, NoRef}
           /\ claimFaults' >= claimFaults
<1> USE DEF files, history, faults
<1>1. UNCHANGED <<setting, work, book, analysed, crashes, expired>>
  BY DEF DeliverFetch, FetchGate, CreateClaim, WriteClaim, ClaimStoreFails, LoadClaim, JudgeClaim, TakeOver,
     PersistEvidence, ReadStatus, MarkFetched, Publish, FetchFails
<1>2. \A e \in Ref \ {d} : fetch'[e] = fetch[e]
  <2>1. CASE \/ \E where \in {"gate", "claim", "write", "load", "takeover", "evidence", "status", "publish"} :
                   FetchGoes(d, where)
             \/ FetchEnds(d) \/ UNCHANGED fetch
    BY <2>1, FetchMoves, FetchEnding
  <2>2. CASE LoadClaim(d) \/ ReadStatus(d)
    BY <2>2 DEF LoadClaim, ReadStatus, CaseTyped
  <2> QED
    BY <2>1, <2>2 DEF DeliverFetch, FetchGate, CreateClaim, WriteClaim, ClaimStoreFails, JudgeClaim,
       TakeOver, PersistEvidence, MarkFetched, Publish, FetchFails
<1>3. \A e \in Ref \ {d} : /\ inbox'[e] = inbox[e] /\ queue'[e] = queue[e]
                           /\ logs'[e] = logs[e] /\ status'[e] = status[e]
  BY DEF CaseTyped, DeliverFetch, FetchGate, CreateClaim, WriteClaim, ClaimStoreFails, LoadClaim, JudgeClaim,
     TakeOver, PersistEvidence, ReadStatus, MarkFetched, Publish, FetchFails
<1>4. (logs[d] => logs'[d]) /\ queue'[d] >= queue[d] /\ claimFaults' >= claimFaults
  BY DEF CaseTyped, DeliverFetch, FetchGate, CreateClaim, WriteClaim, ClaimStoreFails, LoadClaim, JudgeClaim,
     TakeOver, PersistEvidence, ReadStatus, MarkFetched, Publish, FetchFails
<1>5. status'[d] \in Terminals => status[d] \in Terminals
  BY DEF CaseTyped, DeliverFetch, FetchGate, CreateClaim, WriteClaim, ClaimStoreFails, LoadClaim, JudgeClaim,
     TakeOver, PersistEvidence, ReadStatus, MarkFetched, Publish, FetchFails, Terminals
<1>6. ended \subseteq ended' /\ (claim' = claim \/ claim'.holder \in {d, NoRef})
  BY ClaimMoves DEF DeliverFetch, FetchGate, CreateClaim, WriteClaim, ClaimStoreFails, LoadClaim, JudgeClaim,
     TakeOver, PersistEvidence, ReadStatus, MarkFetched, Publish, FetchFails
<1> QED
  BY <1>1, <1>2, <1>3, <1>4, <1>5, <1>6

LEMMA AnalysisLaneFrame ==
    ASSUME CaseTyped, NEW w \in Worker,
           \/ DeliverAnalysis(w) \/ CheckHolder(w) \/ AnalysisGate(w) \/ Analysed(w) \/ LateGuard(w)
           \/ SaveBook(w) \/ SaveStatus(w) \/ AnalysisFails(w)
           \/ ServerTimeout(w) \/ ServerTimeoutStatus(w) \/ ClientTimeout(w)
    PROVE  /\ UNCHANGED <<setting, inbox, claim, logs, fetch, crashes, expired>>
           /\ \A v \in Worker \ {w} : work'[v] = work[v]
           /\ \A d \in Ref : /\ queue'[d] <= queue[d]
                             /\ book[d] \in Terminals => book'[d] \in Terminals
           /\ ended \subseteq ended'
           /\ claimFaults' >= claimFaults
<1> USE DEF files, history, faults
<1>1. UNCHANGED <<setting, inbox, claim, logs, fetch, crashes, expired>> /\ ended \subseteq ended'
  BY DEF DeliverAnalysis, CheckHolder, AnalysisGate, Analysed, LateGuard, SaveBook, SaveStatus, AnalysisFails,
       ServerTimeout, ServerTimeoutStatus, ClientTimeout
<1>2. \A v \in Worker \ {w} : work'[v] = work[v]
  BY DEF CaseTyped, DeliverAnalysis, CheckHolder, AnalysisGate, Analysed, LateGuard, SaveBook, SaveStatus,
       AnalysisFails, ServerTimeout, ServerTimeoutStatus, ClientTimeout, WorkGoes, WorkEnds
<1>3. \A d \in Ref : queue'[d] <= queue[d] /\ (book[d] \in Terminals => book'[d] \in Terminals)
  BY DEF CaseTyped, DeliverAnalysis, CheckHolder, AnalysisGate, Analysed, LateGuard, SaveBook, SaveStatus,
       AnalysisFails, ServerTimeout, ServerTimeoutStatus, ClientTimeout, Terminals
<1>4. claimFaults' >= claimFaults
  BY DEF CaseTyped, DeliverAnalysis, CheckHolder, AnalysisGate, Analysed, LateGuard, SaveBook, SaveStatus,
       AnalysisFails, ServerTimeout, ServerTimeoutStatus, ClientTimeout
<1> QED
  BY <1>1, <1>2, <1>3, <1>4

(* Where each step of the fetch lane takes its request. *)

LEMMA DeliverFetchStep ==
    ASSUME CaseTyped, NEW d \in Ref, DeliverFetch(d)
    PROVE  /\ fetch[d].at = "idle" /\ inbox[d] > 0 /\ inbox'[d] = inbox[d] - 1
           /\ \/ Finished(d) /\ fetch' = fetch
              \/ fetch'[d].at = "gate" /\ fetch'[d].old = fetch[d].old
<1>1. fetch[d].at = "idle" /\ inbox[d] > 0 /\ inbox'[d] = inbox[d] - 1
  BY DEF DeliverFetch, FetchAt, CaseTyped
<1> QED
  BY <1>1, FetchMoves DEF DeliverFetch, Skips

LEMMA FetchGateStep ==
    ASSUME CaseTyped, NEW d \in Ref, FetchGate(d)
    PROVE  /\ fetch[d].at = "gate"
           /\ \/ fetch'[d].at = "idle" /\ ~fetch'[d].old /\ ended' # {}
              \/ fetch'[d].at = "claim" /\ fetch'[d].old = fetch[d].old
BY FetchMoves, FetchEnding DEF FetchGate, FetchAt

LEMMA CreateClaimStep ==
    ASSUME CaseTyped, NEW d \in Ref, CreateClaim(d)
    PROVE  /\ fetch[d].at = "claim" /\ fetch'[d].old = fetch[d].old
           /\ \/ claim.made /\ claim' = claim /\ fetch'[d].at = "load"
              \/ /\ ~claim.made /\ AtomicCreate /\ claim' = ClaimOf(d)
                 /\ fetch'[d].at = "evidence"
              \/ /\ ~claim.made /\ ~AtomicCreate /\ claim' = ClaimOf(NoRef)
                 /\ fetch'[d].at = "write"
<1>2. /\ fetch[d].at = "claim" /\ fetch'[d].old = fetch[d].old
      /\ \/ claim.made /\ claim' = claim /\ fetch'[d].at = "load"
         \/ /\ ~claim.made
            /\ claim' = ClaimOf(IF AtomicCreate THEN d ELSE NoRef)
            /\ fetch'[d].at = (IF AtomicCreate THEN "evidence" ELSE "write")
  BY FetchMoves, DltCaseAssumption DEF CreateClaim, FetchAt
<1> QED
  BY <1>2, DltCaseAssumption

LEMMA WriteClaimStep ==
    ASSUME CaseTyped, NEW d \in Ref, WriteClaim(d)
    PROVE  /\ fetch[d].at = "write" /\ fetch'[d].at = "evidence"
           /\ claim' = claim \/ claim' = ClaimOf(d)
BY FetchMoves DEF WriteClaim, FetchAt

LEMMA ClaimStoreFailsStep ==
    ASSUME CaseTyped, NEW d \in Ref, ClaimStoreFails(d)
    PROVE  /\ fetch[d].at # "idle" /\ fetch'[d].at = "evidence"
           /\ claimFaults' > 0
BY FetchMoves DEF ClaimStoreFails, CaseTyped

LEMMA LoadClaimStep ==
    ASSUME CaseTyped, NEW d \in Ref, LoadClaim(d)
    PROVE  /\ fetch[d].at = "load" /\ fetch'[d].at = "judge" /\ claim' = claim
           /\ \/ fetch'[d].holder = claim.holder /\ fetch'[d].old = claim.old
              \/ fetch'[d].holder = NoRef /\ claimFaults' > 0
BY DEF LoadClaim, FetchAt, CaseTyped, FetchRecord

LEMMA JudgeClaimStep ==
    ASSUME CaseTyped, NEW d \in Ref, JudgeClaim(d)
    PROVE  /\ fetch[d].at = "judge"
           /\ \/ /\ fetch[d].holder = d /\ fetch'[d].at = "evidence"
                 /\ fetch'[d].old = fetch[d].old
              \/ /\ fetch[d].holder \notin {d, NoRef} /\ fetch'[d].at = "idle"
                 /\ ~fetch'[d].old
              \/ /\ fetch[d].holder = NoRef \/ fetch[d].old
                 /\ fetch'[d].at = "takeover"
BY FetchMoves, FetchEnding DEF JudgeClaim, FetchAt

LEMMA TakeOverStep ==
    ASSUME CaseTyped, NEW d \in Ref, TakeOver(d)
    PROVE  /\ fetch[d].at = "takeover" /\ claim'.holder = d
           /\ fetch'[d].at = "evidence"
BY FetchMoves, ClaimOfIs DEF TakeOver, FetchAt

LEMMA PersistEvidenceStep ==
    ASSUME CaseTyped, NEW d \in Ref, PersistEvidence(d)
    PROVE  /\ fetch[d].at = "evidence" /\ fetch'[d].at = "status"
           /\ logs'[d] /\ fetch'[d].old = fetch[d].old
BY FetchMoves DEF PersistEvidence, FetchAt, CaseTyped

LEMMA ReadStatusStep ==
    ASSUME CaseTyped, NEW d \in Ref, ReadStatus(d)
    PROVE  /\ fetch[d].at = "status" /\ fetch'[d].at = "mark"
           /\ fetch'[d].old = fetch[d].old
BY DEF ReadStatus, FetchAt, CaseTyped, FetchRecord

LEMMA MarkFetchedStep ==
    ASSUME CaseTyped, NEW d \in Ref, MarkFetched(d)
    PROVE  /\ fetch[d].at = "mark" /\ fetch'[d].at = "publish"
           /\ fetch'[d].old = fetch[d].old
BY FetchMoves DEF MarkFetched, FetchAt

LEMMA PublishStep ==
    ASSUME CaseTyped, NEW d \in Ref, Publish(d)
    PROVE  /\ fetch[d].at = "publish" /\ fetch'[d].at = "idle" /\ ~fetch'[d].old
           /\ queue'[d] = queue[d] + 1
BY FetchEnding DEF Publish, FetchAt, CaseTyped

LEMMA FetchFailsStep ==
    ASSUME CaseTyped, NEW d \in Ref, FetchFails(d)
    PROVE  /\ fetch[d].at \in {"evidence", "publish"} /\ fetch'[d].at = "idle"
           /\ ~fetch'[d].old /\ ended' # {}
BY FetchEnding DEF FetchFails

LEMMA CaseBookStep ==
    ASSUME CaseTyped, BookInv, [CaseNext]_caseVars
    PROVE  BookInv'
<1>1. ASSUME NEW d \in Ref,
             \/ DeliverFetch(d) \/ FetchGate(d) \/ CreateClaim(d) \/ WriteClaim(d) \/ ClaimStoreFails(d)
             \/ LoadClaim(d) \/ JudgeClaim(d) \/ TakeOver(d) \/ PersistEvidence(d)
             \/ ReadStatus(d) \/ MarkFetched(d) \/ Publish(d) \/ FetchFails(d)
      PROVE  BookInv'
  BY <1>1, FetchLaneFrame DEF BookInv
<1>2. ASSUME NEW w \in Worker,
             \/ DeliverAnalysis(w) \/ CheckHolder(w) \/ AnalysisGate(w) \/ Analysed(w) \/ LateGuard(w)
             \/ SaveBook(w) \/ SaveStatus(w) \/ AnalysisFails(w)
             \/ ServerTimeout(w) \/ ServerTimeoutStatus(w) \/ ClientTimeout(w)
      PROVE  BookInv'
  <2> USE <1>2 DEF files, history, faults
  <2>1. /\ \A v \in Worker \ {w} : work'[v] = work[v]
        /\ \A d \in Ref : book[d] \in Terminals => book'[d] \in Terminals
    BY AnalysisLaneFrame
  <2>2. CASE \/ DeliverAnalysis(w) \/ CheckHolder(w) \/ AnalysisGate(w) \/ Analysed(w) \/ LateGuard(w)
             \/ AnalysisFails(w)
    <3>1. UNCHANGED <<status, book>>
      BY <2>2 DEF DeliverAnalysis, CheckHolder, AnalysisGate, Analysed, LateGuard, AnalysisFails
    <3>2. \/ work'[w].at = "idle" /\ work'[w].ref = NoRef /\ work'[w].gaveUp = "no"
          \/ \E d \in Ref : /\ work'[w].ref = d /\ work'[w].at = "holder"
                            /\ work'[w].gaveUp = "no"
          \/ /\ work[w].at \notin {"idle", "status", "timeout"}
             /\ work'[w].at \in {"gate", "running", "guard", "book"}
             /\ work'[w].ref = work[w].ref /\ work'[w].gaveUp = work[w].gaveUp
          \/ work' = work
      <4>1. CASE DeliverAnalysis(w)
        BY <4>1 DEF DeliverAnalysis, CaseTyped, WorkRecord
      <4>2. CASE CheckHolder(w)
        BY <4>2, WorkMoves, WorkEnding DEF CheckHolder, WorkAt
      <4>g. CASE AnalysisGate(w)
        BY <4>g, WorkMoves, WorkEnding DEF AnalysisGate, WorkAt
      <4>3. CASE Analysed(w) \/ LateGuard(w) \/ AnalysisFails(w)
        BY <4>3, WorkMoves, WorkEnding DEF Analysed, LateGuard, AnalysisFails, WorkAt
      <4> QED
        BY <2>2, <4>1, <4>2, <4>g, <4>3
    <3> QED
      BY <2>1, <3>1, <3>2, DltCaseAssumption DEF BookInv
  <2>3. CASE SaveBook(w) \/ ServerTimeout(w)
    <3>1. /\ status' = status /\ work[w].at \in {"book", "running"}
          /\ work'[w].ref = work[w].ref /\ work'[w].at \in {"status", "timeout"}
      BY <2>3, WorkMoves DEF SaveBook, ServerTimeout, WorkAt
    <3>2. work[w].ref \in Ref
      BY <3>1 DEF BookInv, CaseTyped, WorkRecord
    <3>3. book'[work[w].ref] \in Terminals
      BY <2>3, <3>2 DEF SaveBook, ServerTimeout, Terminals, CaseTyped
    <3> QED
      BY <2>1, <3>1, <3>2, <3>3, DltCaseAssumption DEF BookInv
  <2>4. CASE SaveStatus(w) \/ ServerTimeoutStatus(w)
    <3>1. /\ book' = book /\ work[w].at \in {"status", "timeout"}
          /\ work'[w].ref = NoRef /\ work'[w].at = "idle" /\ work'[w].gaveUp = "no"
      BY <2>4, WorkEnding DEF SaveStatus, ServerTimeoutStatus, WorkAt
    <3>2. work[w].ref \in Ref /\ book[work[w].ref] \in Terminals
      BY <3>1 DEF BookInv
    <3>3. \A d \in Ref \ {work[w].ref} : status'[d] = status[d]
      BY <2>4 DEF SaveStatus, ServerTimeoutStatus, CaseTyped
    <3> QED
      BY <2>1, <3>1, <3>2, <3>3, DltCaseAssumption DEF BookInv
  <2>5. CASE ClientTimeout(w)
    <3>1. /\ work[w].at \in {"running", "guard", "book"}
          /\ work'[w].ref = work[w].ref /\ work'[w].at = work[w].at
      BY <2>5 DEF ClientTimeout, CaseTyped, WorkRecord
    <3>2. work[w].ref \in Ref
      BY <3>1 DEF BookInv, CaseTyped, WorkRecord
    <3>3. CASE work[w].gaveUp = "no"
      <4>1. status' = status /\ book'[work[w].ref] \in Terminals
        BY <2>5, <3>2, <3>3 DEF ClientTimeout, CaseTyped, Terminals
      <4> QED
        BY <2>1, <3>1, <3>2, <4>1, DltCaseAssumption DEF BookInv
    <3>4. CASE work[w].gaveUp = "status"
      <4>1. book' = book /\ book[work[w].ref] \in Terminals
        BY <2>5, <3>4 DEF ClientTimeout, BookInv
      <4>2. \A d \in Ref \ {work[w].ref} : status'[d] = status[d]
        BY <2>5, <3>4 DEF ClientTimeout, CaseTyped
      <4> QED
        BY <2>1, <3>1, <3>2, <4>1, <4>2, DltCaseAssumption DEF BookInv
    <3> QED
      BY <2>5, <3>3, <3>4 DEF ClientTimeout
  <2> QED
    BY <1>2, <2>2, <2>3, <2>4, <2>5
<1>3. CASE ClaimExpires
  BY <1>3 DEF ClaimExpires, files, BookInv
<1>4. CASE CaseCrash
  <2>1. \A w \in Worker : work'[w].at = "idle" /\ work'[w].ref = NoRef /\ work'[w].gaveUp = "no"
    BY <1>4, CrashSteps DEF NoWork
  <2>2. UNCHANGED <<status, book>>
    BY <1>4, CrashSteps
  <2> QED
    BY <2>1, <2>2 DEF BookInv
<1>5. CASE UNCHANGED caseVars \/ SwitchOff
  BY <1>5 DEF SwitchOff, files, history, faults, caseVars, BookInv
<1> QED
  BY <1>1, <1>2, <1>3, <1>4, <1>5 DEF CaseNext

(* What an analysis takes from the queue, and what it still has after.     *)

LEMMA DeliverAnalysisStep ==
    ASSUME CaseTyped, NEW w \in Worker, DeliverAnalysis(w)
    PROVE  \E d \in Ref :
              /\ queue[d] > 0
              /\ \A e \in Ref \ {d} : queue'[e] = queue[e]
              /\ \/ Finished(d) /\ work' = work
                 \/ /\ work'[w].ref = d /\ work'[w].at = "holder" /\ work'[w].gaveUp = "no"
                    /\ work[w].at = "idle"
<1>1. PICK d \in Ref :
         /\ queue[d] > 0 /\ queue' = [queue EXCEPT ![d] = @ - 1]
         /\ work' = (IF Skips(d) THEN work
                     ELSE [work EXCEPT ![w] = [ref |-> d, at |-> "holder", gaveUp |-> "no"]])
  BY DEF DeliverAnalysis
<1>2. \A e \in Ref \ {d} : queue'[e] = queue[e]
  BY <1>1 DEF CaseTyped
<1>3. \/ Finished(d) /\ work' = work
      \/ work'[w].ref = d /\ work'[w].at = "holder" /\ work'[w].gaveUp = "no"
  BY <1>1 DEF CaseTyped, Skips
<1>4. work[w].at = "idle"
  BY DEF DeliverAnalysis, WorkAt
<1> QED
  BY <1>1, <1>2, <1>3, <1>4

LEMMA WorkKept ==
    ASSUME CaseTyped, NEW w \in Worker,
           \/ CheckHolder(w) \/ AnalysisGate(w) \/ Analysed(w) \/ LateGuard(w)
             \/ SaveBook(w) \/ SaveStatus(w) \/ AnalysisFails(w)
             \/ ServerTimeout(w) \/ ServerTimeoutStatus(w) \/ ClientTimeout(w)
    PROVE  /\ queue' = queue
           /\ \/ work'[w].ref = work[w].ref
              \/ work'[w].ref = NoRef
<1>1. queue' = queue
  BY DEF CheckHolder, AnalysisGate, Analysed, LateGuard, SaveBook, SaveStatus, AnalysisFails,
       ServerTimeout, ServerTimeoutStatus, ClientTimeout
<1>2. CASE (\E where \in {"gate", "running", "guard", "book", "status", "timeout"} : WorkGoes(w, where))
           \/ WorkEnds(w)
  BY <1>1, <1>2, WorkMoves, WorkEnding
<1>3. CASE ClientTimeout(w)
  <2>1. work'[w].ref = work[w].ref
    BY <1>3 DEF ClientTimeout, CaseTyped, WorkRecord
  <2> QED
    BY <1>1, <2>1
<1> QED
  BY <1>2, <1>3 DEF CheckHolder, AnalysisGate, Analysed, LateGuard, SaveBook, SaveStatus, AnalysisFails,
       ServerTimeout, ServerTimeoutStatus

LEMMA LogsStep ==
    ASSUME CaseTyped, LogsInv, [CaseNext]_caseVars
    PROVE  LogsInv'
<1>1. ASSUME NEW d \in Ref,
             \/ DeliverFetch(d) \/ FetchGate(d) \/ CreateClaim(d) \/ WriteClaim(d) \/ ClaimStoreFails(d)
             \/ LoadClaim(d) \/ JudgeClaim(d) \/ TakeOver(d) \/ PersistEvidence(d)
             \/ ReadStatus(d) \/ MarkFetched(d) \/ Publish(d) \/ FetchFails(d)
      PROVE  LogsInv'
  <2>1. queue'[d] > 0 \/ fetch'[d].at \in {"status", "mark", "publish"} => logs'[d]
    <3>1. logs[d] => logs'[d]
      BY <1>1, FetchLaneFrame
    <3>2. queue[d] > 0 \/ fetch[d].at \in {"status", "mark", "publish"} => logs[d]
      BY DEF LogsInv
    <3>3. CASE PersistEvidence(d)
      BY <3>3, PersistEvidenceStep
    <3>4. CASE ReadStatus(d) \/ MarkFetched(d) \/ Publish(d)
      BY <3>1, <3>2, <3>4, ReadStatusStep, MarkFetchedStep, PublishStep
    <3>5. CASE \/ DeliverFetch(d) \/ FetchGate(d) \/ CreateClaim(d) \/ WriteClaim(d) \/ ClaimStoreFails(d)
               \/ LoadClaim(d) \/ JudgeClaim(d) \/ TakeOver(d) \/ FetchFails(d)
      <4>1. queue' = queue
        BY <3>5 DEF DeliverFetch, FetchGate, CreateClaim, WriteClaim, ClaimStoreFails, LoadClaim, JudgeClaim,
           TakeOver, FetchFails
      <4>2. fetch'[d].at \notin {"status", "mark", "publish"}
        BY <3>5, DeliverFetchStep, FetchGateStep, CreateClaimStep, WriteClaimStep,
           ClaimStoreFailsStep, LoadClaimStep, JudgeClaimStep, TakeOverStep, FetchFailsStep
      <4> QED
        BY <3>1, <3>2, <4>1, <4>2
    <3> QED
      BY <1>1, <3>3, <3>4, <3>5
  <2>2. /\ \A e \in Ref \ {d} : /\ queue'[e] = queue[e] /\ logs'[e] = logs[e]
                                /\ fetch'[e] = fetch[e]
        /\ work' = work /\ (logs[d] => logs'[d])
    BY <1>1, FetchLaneFrame
  <2>3. \A e \in Ref : queue'[e] > 0 \/ fetch'[e].at \in {"status", "mark", "publish"} => logs'[e]
    BY <2>1, <2>2 DEF LogsInv
  <2>4. \A w \in Worker : work'[w].ref # NoRef => logs'[work'[w].ref]
    <3> SUFFICES ASSUME NEW w \in Worker, work[w].ref # NoRef
                 PROVE  logs'[work[w].ref]
      BY <2>2
    <3>1. work[w].ref \in Ref /\ logs[work[w].ref]
      BY DEF CaseTyped, WorkRecord, LogsInv
    <3> QED
      BY <2>2, <3>1
  <2> QED
    BY <2>3, <2>4 DEF LogsInv
<1>2. ASSUME NEW w \in Worker,
             \/ DeliverAnalysis(w) \/ CheckHolder(w) \/ AnalysisGate(w) \/ Analysed(w) \/ LateGuard(w)
             \/ SaveBook(w) \/ SaveStatus(w) \/ AnalysisFails(w)
             \/ ServerTimeout(w) \/ ServerTimeoutStatus(w) \/ ClientTimeout(w)
      PROVE  LogsInv'
  <2>1. /\ UNCHANGED <<logs, fetch>>
        /\ \A v \in Worker \ {w} : work'[v] = work[v]
        /\ \A d \in Ref : queue'[d] > 0 => queue[d] > 0
    <3>1. \A d \in Ref : queue'[d] <= queue[d] /\ queue[d] \in Nat /\ queue'[d] \in Nat
      BY <1>2, AnalysisLaneFrame, AnalysisLaneTyped DEF CaseTyped
    <3> QED
      BY <1>2, <3>1, AnalysisLaneFrame
  <2>2. work'[w].ref # NoRef => logs[work'[w].ref]
    <3>1. CASE DeliverAnalysis(w)
      BY <3>1, DeliverAnalysisStep DEF LogsInv
    <3>2. CASE ~DeliverAnalysis(w)
      BY <1>2, <3>2, WorkKept DEF LogsInv
    <3> QED
      BY <3>1, <3>2
  <2> QED
    BY <2>1, <2>2 DEF LogsInv
<1>3. CASE ClaimExpires
  BY <1>3 DEF ClaimExpires, files, LogsInv
<1>4. CASE CaseCrash
  <2>1. \A w \in Worker : work'[w].ref = NoRef
    BY <1>4, CrashSteps DEF NoWork
  <2>2. \A d \in Ref : /\ queue'[d] = queue[d] + Cardinality(Returned(d)) /\ fetch'[d].at = "idle"
                       /\ logs'[d] = logs[d]
    BY <1>4, CrashSteps, NoFetchIs
  <2>3. \A d \in Ref : queue'[d] > 0 => logs[d]
    <3> SUFFICES ASSUME NEW d \in Ref, queue'[d] > 0
                 PROVE  logs[d]
      OBVIOUS
    <3>1. queue[d] > 0 \/ Returned(d) # {}
      BY <2>2, ReturnedIs DEF CaseTyped
    <3>2. \A w \in Returned(d) : w \in Worker /\ work[w].ref = d
      BY DEF Returned
    <3> QED
      BY <3>1, <3>2, DltCaseAssumption DEF LogsInv
  <2> QED
    BY <2>1, <2>2, <2>3 DEF LogsInv
<1>5. CASE UNCHANGED caseVars \/ SwitchOff
  BY <1>5 DEF SwitchOff, files, history, faults, caseVars, LogsInv
<1> QED
  BY <1>1, <1>2, <1>3, <1>4, <1>5 DEF CaseNext

LEMMA InboxStep ==
    ASSUME CaseTyped, InboxInv, [CaseNext]_caseVars
    PROVE  InboxInv'
<1> USE DEF InboxInv
<1>1. ASSUME NEW d \in Ref,
             \/ DeliverFetch(d) \/ FetchGate(d) \/ CreateClaim(d) \/ WriteClaim(d) \/ ClaimStoreFails(d)
             \/ LoadClaim(d) \/ JudgeClaim(d) \/ TakeOver(d) \/ PersistEvidence(d)
             \/ ReadStatus(d) \/ MarkFetched(d) \/ Publish(d) \/ FetchFails(d)
      PROVE  InboxInv'
  <2>1. CASE DeliverFetch(d)
    <3>1. /\ fetch[d].at = "idle" /\ inbox'[d] = inbox[d] - 1 /\ inbox[d] \in Nat /\ crashes \in Nat
      BY <2>1, DeliverFetchStep DEF CaseTyped
    <3>2. UNCHANGED crashes /\ \A e \in Ref \ {d} : inbox'[e] = inbox[e] /\ fetch'[e] = fetch[e]
      BY <2>1, FetchLaneFrame
    <3>3. inbox[d] <= 2 + crashes
      BY <3>1
    <3> QED
      BY <3>1, <3>2, <3>3
  <2>2. CASE ~DeliverFetch(d)
    <3>1. UNCHANGED <<inbox, crashes>>
      BY <1>1, <2>2
         DEF FetchGate, CreateClaim, WriteClaim, ClaimStoreFails, LoadClaim, JudgeClaim, TakeOver,
             PersistEvidence, ReadStatus, MarkFetched, Publish, FetchFails, faults
    <3>2. fetch[d].at # "idle"
      BY <1>1, <2>2
         DEF FetchGate, CreateClaim, WriteClaim, ClaimStoreFails, LoadClaim, JudgeClaim, TakeOver,
             PersistEvidence, ReadStatus, MarkFetched, Publish, FetchFails, FetchAt
    <3>3. \A e \in Ref \ {d} : fetch'[e] = fetch[e]
      BY <1>1, FetchLaneFrame
    <3>4. inbox[d] + 1 <= 2 + crashes /\ inbox[d] \in Nat /\ crashes \in Nat
      BY <3>2 DEF CaseTyped
    <3> QED
      BY <3>1, <3>3, <3>4
  <2> QED
    BY <2>1, <2>2
<1>2. ASSUME NEW w \in Worker,
             \/ DeliverAnalysis(w) \/ CheckHolder(w) \/ AnalysisGate(w) \/ Analysed(w) \/ LateGuard(w)
             \/ SaveBook(w) \/ SaveStatus(w) \/ AnalysisFails(w)
             \/ ServerTimeout(w) \/ ServerTimeoutStatus(w) \/ ClientTimeout(w)
      PROVE  InboxInv'
  BY <1>2, AnalysisLaneFrame
<1>3. CASE ClaimExpires
  BY <1>3 DEF ClaimExpires
<1>4. CASE CaseCrash
  <2>1. \A d \in Ref : /\ inbox'[d] = inbox[d] + (IF fetch[d].at = "idle" THEN 0 ELSE 1)
                       /\ inbox[d] \in Nat /\ fetch'[d].at = "idle"
    BY <1>4, CrashSteps, NoFetchIs DEF CaseTyped
  <2>2. crashes' = crashes + 1 /\ crashes \in Nat
    BY <1>4, CrashSteps DEF CaseTyped
  <2> QED
    BY <2>1, <2>2
<1>5. CASE UNCHANGED caseVars \/ SwitchOff
  BY <1>5 DEF SwitchOff, files, history, faults, caseVars
<1> QED
  BY <1>1, <1>2, <1>3, <1>4, <1>5 DEF CaseNext

LEMMA ClaimSeenStep ==
    ASSUME CaseTyped, ClaimSeen, [CaseNext]_caseVars
    PROVE  ClaimSeen'
<1>1. ASSUME NEW d \in Ref,
             \/ DeliverFetch(d) \/ FetchGate(d) \/ CreateClaim(d) \/ WriteClaim(d) \/ ClaimStoreFails(d)
             \/ LoadClaim(d) \/ JudgeClaim(d) \/ TakeOver(d) \/ PersistEvidence(d)
             \/ ReadStatus(d) \/ MarkFetched(d) \/ Publish(d) \/ FetchFails(d)
      PROVE  ClaimSeen'
  <2>1. \A e \in Ref \ {d} : fetch'[e] = fetch[e]
    BY <1>1, FetchLaneFrame
  <2>2. claim' = claim \/ claim'.holder \in {d, NoRef}
    BY <1>1, FetchLaneFrame
  <2>3. fetch'[d].at = "judge" /\ claim'.holder = d => fetch'[d].holder \in {d, NoRef}
    <3>1. CASE LoadClaim(d)
      BY <3>1, LoadClaimStep
    <3>2. CASE ~LoadClaim(d)
      <4>1. CASE DeliverFetch(d)
        BY <4>1, DeliverFetchStep
      <4>2. CASE FetchGate(d) \/ CreateClaim(d) \/ WriteClaim(d) \/ ClaimStoreFails(d)
        BY <4>2, FetchGateStep, CreateClaimStep, WriteClaimStep, ClaimStoreFailsStep
      <4>3. CASE JudgeClaim(d) \/ TakeOver(d) \/ FetchFails(d)
        BY <4>3, JudgeClaimStep, TakeOverStep, FetchFailsStep
      <4>4. CASE PersistEvidence(d) \/ ReadStatus(d) \/ MarkFetched(d) \/ Publish(d)
        BY <4>4, PersistEvidenceStep, ReadStatusStep, MarkFetchedStep, PublishStep
      <4> QED
        BY <1>1, <3>2, <4>1, <4>2, <4>3, <4>4
    <3> QED
      BY <3>1, <3>2
  <2> QED
    BY <2>1, <2>2, <2>3, DltCaseAssumption DEF ClaimSeen
<1>2. ASSUME NEW w \in Worker,
             \/ DeliverAnalysis(w) \/ CheckHolder(w) \/ AnalysisGate(w) \/ Analysed(w) \/ LateGuard(w)
             \/ SaveBook(w) \/ SaveStatus(w) \/ AnalysisFails(w)
             \/ ServerTimeout(w) \/ ServerTimeoutStatus(w) \/ ClientTimeout(w)
      PROVE  ClaimSeen'
  BY <1>2, AnalysisLaneFrame DEF ClaimSeen
<1>3. CASE ClaimExpires
  BY <1>3 DEF ClaimExpires, ClaimSeen, CaseTyped
<1>4. CASE CaseCrash
  BY <1>4, CrashSteps, NoFetchIs DEF ClaimSeen
<1>5. CASE UNCHANGED caseVars \/ SwitchOff
  BY <1>5 DEF SwitchOff, files, history, faults, caseVars, ClaimSeen
<1> QED
  BY <1>1, <1>2, <1>3, <1>4, <1>5 DEF CaseNext

(* An analysis lets go of a refId with an outcome, or because another      *)
(* delivery of the record holds the claim.                                 *)
LEMMA WorkLetGo ==
    ASSUME CaseTyped, BookInv, NEW w \in Worker,
           \/ CheckHolder(w) \/ AnalysisGate(w) \/ Analysed(w) \/ LateGuard(w)
             \/ SaveBook(w) \/ SaveStatus(w) \/ AnalysisFails(w)
             \/ ServerTimeout(w) \/ ServerTimeoutStatus(w) \/ ClientTimeout(w),
           work'[w].ref # work[w].ref
    PROVE  \/ ended' # {} \/ \E d \in Ref : book'[d] \in Terminals
           \/ claim.holder # NoRef /\ claim.holder # work[w].ref
<1> USE DEF WorkAt
<1>1. CASE CheckHolder(w)
  BY <1>1, WorkMoves DEF CheckHolder, HeldByOther
<1>g. CASE AnalysisGate(w)
  BY <1>g, WorkMoves DEF AnalysisGate
<1>2. CASE Analysed(w) \/ SaveBook(w) \/ ServerTimeout(w)
  BY <1>2, WorkMoves DEF Analysed, SaveBook, ServerTimeout
<1>3. CASE LateGuard(w)
  <2>1. work[w].ref \in Ref
    BY <1>3 DEF LateGuard, BookInv, CaseTyped, WorkRecord
  <2>2. Finished(work[w].ref) /\ book' = book
    BY <1>3, WorkMoves DEF LateGuard, Finished, Protected, files
  <2> QED
    BY <2>1, <2>2, FinishedIs
<1>4. CASE SaveStatus(w) \/ ServerTimeoutStatus(w)
  BY <1>4 DEF SaveStatus, ServerTimeoutStatus, BookInv
<1>5. CASE AnalysisFails(w)
  BY <1>5 DEF AnalysisFails
<1>6. CASE ClientTimeout(w)
  BY <1>6 DEF ClientTimeout, CaseTyped, WorkRecord
<1> QED
  BY <1>1, <1>g, <1>2, <1>3, <1>4, <1>5, <1>6

LEMMA CoveredStep ==
    ASSUME CaseTyped, BookInv, ClaimSeen, Covered, [CaseNext]_caseVars
    PROVE  Covered'
<1> USE DltCaseAssumption
<1>1. ASSUME NEW d \in Ref,
             \/ DeliverFetch(d) \/ FetchGate(d) \/ CreateClaim(d) \/ WriteClaim(d) \/ ClaimStoreFails(d)
             \/ LoadClaim(d) \/ JudgeClaim(d) \/ TakeOver(d) \/ PersistEvidence(d)
             \/ ReadStatus(d) \/ MarkFetched(d) \/ Publish(d) \/ FetchFails(d)
      PROVE  Covered'
  <2>1. /\ \A e \in Ref \ {d} : /\ fetch'[e] = fetch[e] /\ inbox'[e] = inbox[e]
                                /\ queue'[e] = queue[e]
        /\ UNCHANGED <<work, book>> /\ ended \subseteq ended'
        /\ claim' = claim \/ claim'.holder \in {d, NoRef}
    BY <1>1, FetchLaneFrame
  <2>2. CASE ended' # {} \/ \E e \in Ref : book'[e] \in Terminals
    BY <2>2 DEF Covered
  <2>3. ASSUME Going(d)'
        PROVE  Covered'
    <3>1. Pending(d)'
      BY <2>3 DEF Going, Pending
    <3>2. \A e \in Ref \ {d} : (Going(e) => Going(e)') /\ (Pending(e) => Pending(e)')
      BY <2>1 DEF Going, Pending
    <3> QED
      BY <2>1, <2>2, <2>3, <3>1, <3>2 DEF Covered
  <2>a. ASSUME fetch'[d].at # "idle", fetch'[d].at = "judge" => fetch'[d].holder \in {d, NoRef}
        PROVE  Covered'
    BY <2>3, <2>a DEF Going
  <2>4. CASE JudgeClaim(d) /\ fetch'[d].at = "idle"
    <3>1. /\ claim' = claim /\ claim.holder # d
          /\ fetch[d].at = "judge" /\ fetch[d].holder \notin {d, NoRef}
          /\ UNCHANGED <<inbox, queue>>
      BY <2>4, JudgeClaimStep DEF JudgeClaim, ClaimSeen
    <3>2. \A e \in Ref \ {d} : (Going(e) => Going(e)') /\ (Pending(e) => Pending(e)')
      BY <2>1 DEF Going, Pending
    <3>3. Going(d) => Going(d)'
      BY <2>1, <3>1 DEF Going
    <3> QED
      BY <2>1, <2>2, <3>1, <3>2, <3>3 DEF Covered
  <2>5. CASE DeliverFetch(d)
    <3>1. Finished(d) \/ fetch'[d].at = "gate"
      BY <2>5, DeliverFetchStep
    <3> QED
      BY <2>1, <2>2, <2>a, <3>1, FinishedIs
  <2>6. CASE FetchGate(d) \/ FetchFails(d)
    <3>1. ended' # {} \/ fetch'[d].at = "claim"
      BY <2>6, FetchGateStep, FetchFailsStep
    <3> QED
      BY <2>2, <2>a, <3>1
  <2>7. CASE Publish(d)
    <3>1. queue'[d] > 0
      BY <2>7, PublishStep DEF CaseTyped
    <3> QED
      BY <2>3, <3>1 DEF Going
  <2>8. CASE LoadClaim(d)
    <3>1. /\ claim' = claim /\ fetch[d].at = "load" /\ fetch'[d].at = "judge"
          /\ fetch'[d].holder = claim.holder \/ fetch'[d].holder = NoRef
          /\ UNCHANGED <<inbox, queue>>
      BY <2>8, LoadClaimStep DEF LoadClaim
    <3>2. CASE claim.holder \in {d, NoRef}
      BY <2>a, <3>1, <3>2
    <3>3. CASE claim.holder \notin {d, NoRef}
      <4>1. \A e \in Ref \ {d} : Pending(e) => Pending(e)'
        BY <2>1 DEF Pending
      <4> QED
        BY <2>1, <2>2, <3>1, <3>3, <4>1 DEF Covered
    <3> QED
      BY <3>2, <3>3
  <2>9. CASE \/ CreateClaim(d) \/ WriteClaim(d) \/ ClaimStoreFails(d) \/ TakeOver(d)
             \/ PersistEvidence(d) \/ ReadStatus(d) \/ MarkFetched(d)
    BY <2>a, <2>9, CreateClaimStep, WriteClaimStep, ClaimStoreFailsStep, TakeOverStep,
       PersistEvidenceStep, ReadStatusStep, MarkFetchedStep
  <2>10. CASE JudgeClaim(d) /\ fetch'[d].at # "idle"
    BY <2>a, <2>10, JudgeClaimStep
  <2> QED
    BY <1>1, <2>4, <2>5, <2>6, <2>7, <2>8, <2>9, <2>10
<1>2. ASSUME NEW w \in Worker,
             \/ DeliverAnalysis(w) \/ CheckHolder(w) \/ AnalysisGate(w) \/ Analysed(w) \/ LateGuard(w)
             \/ SaveBook(w) \/ SaveStatus(w) \/ AnalysisFails(w)
             \/ ServerTimeout(w) \/ ServerTimeoutStatus(w) \/ ClientTimeout(w)
      PROVE  Covered'
  <2>1. /\ UNCHANGED <<inbox, claim, fetch>> /\ ended \subseteq ended'
        /\ \A v \in Worker \ {w} : work'[v] = work[v]
        /\ \A e \in Ref : book[e] \in Terminals => book'[e] \in Terminals
    BY <1>2, AnalysisLaneFrame
  <2>2. CASE ended' # {} \/ \E e \in Ref : book'[e] \in Terminals
    BY <2>2 DEF Covered
  <2>3. CASE DeliverAnalysis(w)
    <3>1. PICK d \in Ref : /\ queue[d] > 0 /\ \A e \in Ref \ {d} : queue'[e] = queue[e]
                           /\ \/ Finished(d) /\ work' = work
                              \/ work'[w].ref = d /\ work[w].at = "idle"
      BY <2>3, DeliverAnalysisStep
    <3>2. CASE Finished(d)
      BY <2>1, <2>2, <3>2, FinishedIs
    <3>3. CASE work'[w].ref = d /\ work[w].at = "idle"
      <4>1. work[w].ref = NoRef
        BY <3>3 DEF BookInv
      <4> QED
        BY <2>1, <3>1, <3>3, <4>1 DEF Covered, Pending, Going
    <3> QED
      BY <3>1, <3>2, <3>3
  <2>4. CASE ~DeliverAnalysis(w) /\ work'[w].ref = work[w].ref
    <3>1. queue' = queue
      BY <1>2, <2>4, WorkKept
    <3> QED
      BY <2>1, <2>4, <3>1 DEF Covered, Pending, Going
  <2>5. CASE /\ ~DeliverAnalysis(w) /\ claim.holder # NoRef /\ claim.holder # work[w].ref
    <3>1. queue' = queue
      BY <1>2, <2>5, WorkKept
    <3> QED
      BY <2>1, <2>5, <3>1 DEF Covered, Pending, Going
  <2> QED
    BY <1>2, <2>2, <2>3, <2>4, <2>5, WorkLetGo
<1>3. CASE ClaimExpires
  <2>1. claim'.holder = claim.holder /\ UNCHANGED <<inbox, queue, fetch, work, book, ended>>
    BY <1>3 DEF ClaimExpires, files, history, CaseTyped
  <2> QED
    BY <2>1 DEF Covered, Pending, Going
<1>4. CASE CaseCrash
  <2>1. UNCHANGED <<claim, book, ended>>
    BY <1>4, CrashSteps
  <2>2. CASE ended # {} \/ \E d \in Ref : book[d] \in Terminals
    BY <2>1, <2>2 DEF Covered
  <2>3. CASE ~(ended # {} \/ \E d \in Ref : book[d] \in Terminals)
    <3>1. ASSUME NEW d \in Ref, Pending(d)
          PROVE  inbox'[d] > 0 \/ queue'[d] > 0
      <4>1. /\ inbox'[d] = inbox[d] + (IF fetch[d].at = "idle" THEN 0 ELSE 1)
            /\ queue'[d] = queue[d] + Cardinality(Returned(d))
            /\ inbox[d] \in Nat /\ queue[d] \in Nat /\ Cardinality(Returned(d)) \in Nat
        BY <1>4, CrashSteps, ReturnedIs DEF CaseTyped
      <4>2. CASE inbox[d] > 0 \/ queue[d] > 0 \/ fetch[d].at # "idle"
        BY <4>1, <4>2
      <4>3. CASE \E w \in Worker : work[w].ref = d
        <5>1. PICK w \in Worker : work[w].ref = d
          BY <4>3
        <5>2. work[w].gaveUp = "no"
          BY <2>3, <5>1 DEF BookInv
        <5>3. Returned(d) # {}
          BY <5>1, <5>2 DEF Returned
        <5> QED
          BY <4>1, <5>3, ReturnedIs
      <4> QED
        BY <3>1, <4>2, <4>3 DEF Pending
    <3>2. CASE claim.holder = NoRef /\ \E d \in Ref : Going(d)
      <4>1. PICK d \in Ref : Going(d)
        BY <3>2
      <4>2. inbox'[d] > 0 \/ queue'[d] > 0
        BY <3>1, <4>1 DEF Pending, Going
      <4> QED
        BY <2>1, <3>2, <4>2 DEF Covered, Going
    <3>3. CASE claim.holder \in Ref /\ Pending(claim.holder)
      BY <2>1, <3>1, <3>3 DEF Covered, Pending, Going
    <3> QED
      BY <2>3, <3>2, <3>3 DEF Covered
  <2> QED
    BY <2>2, <2>3
<1>5. CASE UNCHANGED caseVars \/ SwitchOff
  BY <1>5 DEF SwitchOff, files, history, faults, caseVars, Covered, Pending, Going
<1> QED
  BY <1>1, <1>2, <1>3, <1>4, <1>5 DEF CaseNext

LEMMA FirstHolderStep ==
    ASSUME CaseTyped, BookInv, ClaimSeen, FirstHolderOnly, [CaseNext]_caseVars
    PROVE  FirstHolderOnly'
<1> USE DltCaseAssumption
<1>0. AtomicCreate' <=> AtomicCreate
  BY BackendStays
<1>1. ASSUME NEW d \in Ref,
             \/ DeliverFetch(d) \/ FetchGate(d) \/ CreateClaim(d) \/ WriteClaim(d) \/ ClaimStoreFails(d)
             \/ LoadClaim(d) \/ JudgeClaim(d) \/ TakeOver(d) \/ PersistEvidence(d)
             \/ ReadStatus(d) \/ MarkFetched(d) \/ Publish(d) \/ FetchFails(d),
             AtomicCreate, ~expired', claimFaults' = 0
      PROVE  FirstHolderOnly'
  <2>1. /\ \A e \in Ref \ {d} : fetch'[e] = fetch[e] /\ queue'[e] = queue[e]
        /\ UNCHANGED <<work, analysed, expired>>
        /\ claimFaults' >= claimFaults /\ claimFaults \in Nat
    BY <1>1, FetchLaneFrame DEF CaseTyped
  <2>2. ~expired /\ claimFaults = 0
    BY <1>1, <2>1
  <2>3. /\ ~claim.old /\ (claim.made => claim.holder # NoRef)
        /\ \A e \in Ref : /\ ~fetch[e].old /\ fetch[e].at \notin {"write", "takeover"}
                          /\ fetch[e].at \in {"load", "judge"} => claim.made
                          /\ fetch[e].at = "judge" => fetch[e].holder = claim.holder
                          /\ fetch[e].at \in {"evidence", "status", "mark", "publish"} \/ queue[e] > 0
                                => claim.holder = e
        /\ \A w \in Worker : work[w].ref # NoRef => claim.holder = work[w].ref
        /\ \A e \in analysed : e \in Ref /\ claim.holder = e
    BY <1>1, <2>2 DEF FirstHolderOnly
  <2>4. CASE CreateClaim(d) /\ ~claim.made
    <3>1. /\ claim'.holder = d /\ claim'.made /\ ~claim'.old /\ fetch'[d].at = "evidence"
          /\ fetch'[d].old = fetch[d].old /\ queue'[d] = queue[d]
      BY <1>1, <2>4, CreateClaimStep, ClaimOfIs DEF CreateClaim
    <3>2. /\ \A e \in Ref : /\ fetch[e].at \notin {"load", "judge", "evidence", "status", "mark", "publish"}
                            /\ ~(queue[e] > 0)
          /\ \A w \in Worker : work[w].ref = NoRef
          /\ analysed = {}
      <4>1. claim.holder = NoRef
        BY <2>4 DEF CaseTyped
      <4>2. \A e \in Ref : claim.holder # e
        BY <4>1
      <4>3. \A w \in Worker : work[w].ref = NoRef
        BY <2>3, <4>1
      <4> QED
        BY <2>3, <2>4, <4>2, <4>3
    <3>3. ASSUME NEW e \in Ref
          PROVE  /\ ~fetch'[e].old /\ fetch'[e].at \notin {"write", "takeover", "load", "judge"}
                 /\ fetch'[e].at \in {"evidence", "status", "mark", "publish"} \/ queue'[e] > 0
                       => e = d
      <4>1. CASE e = d
        BY <2>3, <3>1, <4>1
      <4>2. CASE e # d
        BY <2>1, <2>3, <3>2, <4>2
      <4> QED
        BY <4>1, <4>2
    <3> QED
      BY <2>1, <3>1, <3>2, <3>3 DEF FirstHolderOnly
  <2>5. CASE ~(CreateClaim(d) /\ ~claim.made)
    <3>0. ~WriteClaim(d) /\ ~ClaimStoreFails(d) /\ ~TakeOver(d)
      BY <1>1, <2>3, WriteClaimStep, ClaimStoreFailsStep, TakeOverStep
    <3>1. claim' = claim
      <4>1. CASE CreateClaim(d)
        BY <2>5, <4>1, CreateClaimStep
      <4> QED
        BY <1>1, <3>0, <4>1
           DEF DeliverFetch, FetchGate, LoadClaim, JudgeClaim, PersistEvidence,
               ReadStatus, MarkFetched, Publish, FetchFails
    <3>2. /\ ~fetch'[d].old /\ fetch'[d].at \notin {"write", "takeover"}
          /\ fetch'[d].at \in {"load", "judge"} => claim.made
          /\ fetch'[d].at = "judge" => fetch'[d].holder = claim.holder
          /\ fetch'[d].at \in {"evidence", "status", "mark", "publish"} \/ queue'[d] > 0
                => claim.holder = d
      <4>1. CASE DeliverFetch(d) \/ FetchGate(d) \/ CreateClaim(d)
        <5>1. queue' = queue
          BY <4>1 DEF DeliverFetch, FetchGate, CreateClaim
        <5>2. CASE DeliverFetch(d)
          BY <2>3, <5>1, <5>2, DeliverFetchStep
        <5>3. CASE FetchGate(d)
          BY <2>3, <5>1, <5>3, FetchGateStep
        <5>4. CASE CreateClaim(d)
          <6>1. /\ claim.made /\ fetch'[d].at = "load" /\ fetch'[d].old = fetch[d].old
            BY <2>5, <5>4, CreateClaimStep
          <6> QED
            BY <2>3, <5>1, <6>1
        <5> QED
          BY <4>1, <5>2, <5>3, <5>4
      <4>2. CASE LoadClaim(d) \/ JudgeClaim(d) \/ FetchFails(d)
        <5>1. queue' = queue
          BY <4>2 DEF LoadClaim, JudgeClaim, FetchFails
        <5>2. CASE LoadClaim(d)
          <6>1. /\ fetch[d].at = "load" /\ fetch'[d].at = "judge"
                /\ fetch'[d].holder = claim.holder /\ fetch'[d].old = claim.old
            BY <1>1, <5>2, LoadClaimStep
          <6> QED
            BY <2>3, <5>1, <6>1
        <5>3. CASE JudgeClaim(d)
          <6>1. /\ fetch[d].holder = claim.holder /\ ~fetch[d].old /\ claim.holder # NoRef
            BY <2>3, <5>3, JudgeClaimStep
          <6> QED
            BY <2>3, <5>1, <5>3, <6>1, JudgeClaimStep
        <5>4. CASE FetchFails(d)
          BY <2>3, <5>1, <5>4, FetchFailsStep
        <5> QED
          BY <4>2, <5>2, <5>3, <5>4
      <4>4. CASE PersistEvidence(d) \/ ReadStatus(d) \/ MarkFetched(d) \/ Publish(d)
        <5>1. fetch[d].at \in {"evidence", "status", "mark", "publish"}
          BY <4>4, PersistEvidenceStep, ReadStatusStep, MarkFetchedStep, PublishStep
        <5>2. claim.holder = d
          BY <2>3, <5>1
        <5>3. ~fetch'[d].old /\ fetch'[d].at \notin {"write", "takeover", "load", "judge"}
          BY <2>3, <4>4, PersistEvidenceStep, ReadStatusStep, MarkFetchedStep, PublishStep
        <5> QED
          BY <5>2, <5>3
      <4> QED
        BY <1>1, <3>0, <4>1, <4>2, <4>4
    <3> QED
      BY <2>1, <2>3, <3>1, <3>2 DEF FirstHolderOnly
  <2> QED
    BY <2>4, <2>5
<1>2. ASSUME NEW w \in Worker,
             \/ DeliverAnalysis(w) \/ CheckHolder(w) \/ AnalysisGate(w) \/ Analysed(w) \/ LateGuard(w)
             \/ SaveBook(w) \/ SaveStatus(w) \/ AnalysisFails(w)
             \/ ServerTimeout(w) \/ ServerTimeoutStatus(w) \/ ClientTimeout(w),
             AtomicCreate, ~expired', claimFaults' = 0
      PROVE  FirstHolderOnly'
  <2>1. /\ UNCHANGED <<claim, fetch, expired>>
        /\ \A v \in Worker \ {w} : work'[v] = work[v]
        /\ \A d \in Ref : queue'[d] > 0 => queue[d] > 0
    <3>1. \A d \in Ref : queue'[d] <= queue[d] /\ queue[d] \in Nat /\ queue'[d] \in Nat
      BY <1>2, AnalysisLaneFrame, AnalysisLaneTyped DEF CaseTyped
    <3> QED
      BY <1>2, <3>1, AnalysisLaneFrame
  <2>2. ~expired /\ claimFaults = 0
    <3>1. claimFaults' >= claimFaults /\ claimFaults \in Nat
      BY <1>2, AnalysisLaneFrame DEF CaseTyped
    <3> QED
      BY <1>2, <2>1, <3>1
  <2>3. work'[w].ref # NoRef => claim.holder = work'[w].ref
    <3>1. CASE DeliverAnalysis(w)
      <4>1. PICK d \in Ref : queue[d] > 0 /\ (work' = work \/ work'[w].ref = d)
        BY <3>1, DeliverAnalysisStep
      <4>2. claim.holder = d
        BY <1>2, <2>2, <4>1 DEF FirstHolderOnly
      <4>3. work[w].ref # NoRef => claim.holder = work[w].ref
        BY <1>2, <2>2 DEF FirstHolderOnly
      <4> QED
        BY <4>1, <4>2, <4>3
    <3>2. CASE ~DeliverAnalysis(w)
      BY <1>2, <2>2, <3>2, WorkKept DEF FirstHolderOnly
    <3> QED
      BY <3>1, <3>2
  <2>4. \A d \in analysed' : d \in Ref /\ claim.holder = d
    <3>1. CASE AnalysisGate(w)
      <4>1. /\ work[w].at = "gate"
            /\ analysed' = analysed \/ analysed' = analysed \cup {work[w].ref}
        BY <3>1 DEF AnalysisGate, WorkAt
      <4>2. work[w].ref \in Ref \cup {NoRef}
        BY DEF CaseTyped, WorkRecord
      <4>3. CASE work[w].ref \in Ref
        <5>1. claim.holder = work[w].ref
          BY <1>2, <2>2, <4>3 DEF FirstHolderOnly
        <5> QED
          BY <1>2, <2>2, <4>1, <4>3, <5>1 DEF FirstHolderOnly
      <4>4. work[w].ref # NoRef
        BY <4>1 DEF BookInv
      <4> QED
        BY <4>2, <4>3, <4>4
    <3>2. CASE ~AnalysisGate(w)
      <4>1. analysed' = analysed
        BY <1>2, <3>2 DEF DeliverAnalysis, CheckHolder, Analysed, LateGuard, SaveBook, SaveStatus, AnalysisFails,
           ServerTimeout, ServerTimeoutStatus, ClientTimeout, history
      <4> QED
        BY <1>2, <2>2, <4>1 DEF FirstHolderOnly
    <3> QED
      BY <3>1, <3>2
  <2> QED
    BY <1>2, <2>1, <2>2, <2>3, <2>4 DEF FirstHolderOnly
<1>3. CASE ClaimExpires
  BY <1>0, <1>3 DEF ClaimExpires, FirstHolderOnly
<1>4. CASE CaseCrash
  <2>1. /\ UNCHANGED <<claim, analysed, claimFaults, expired>>
        /\ \A d \in Ref : fetch'[d].at = "idle" /\ ~fetch'[d].old
        /\ \A w \in Worker : work'[w].ref = NoRef
    BY <1>4, CrashSteps, NoFetchIs DEF NoWork
  <2>2. ASSUME NEW d \in Ref, queue'[d] > 0
        PROVE  queue[d] > 0 \/ \E w \in Worker : work[w].ref = d
    <3>1. queue[d] > 0 \/ Returned(d) # {}
      BY <1>4, <2>2, CrashSteps, ReturnedIs DEF CaseTyped
    <3> QED
      BY <3>1 DEF Returned
  <2>3. SUFFICES ASSUME AtomicCreate, ~expired, claimFaults = 0
                 PROVE  FirstHolderOnly'
    BY <1>0, <2>1 DEF FirstHolderOnly
  <2>4. \A d \in Ref : queue'[d] > 0 => claim.holder = d
    <3> SUFFICES ASSUME NEW d \in Ref, queue'[d] > 0
                 PROVE  claim.holder = d
      OBVIOUS
    <3>1. CASE queue[d] > 0
      BY <2>3, <3>1 DEF FirstHolderOnly
    <3>2. CASE \E w \in Worker : work[w].ref = d
      BY <2>3, <3>2 DEF FirstHolderOnly
    <3> QED
      BY <2>2, <3>1, <3>2
  <2>5. ~claim.old /\ (claim.made => claim.holder # NoRef) /\ \A d \in analysed : d \in Ref /\ claim.holder = d
    BY <2>3 DEF FirstHolderOnly
  <2> QED
    BY <2>1, <2>4, <2>5 DEF FirstHolderOnly
<1>5. CASE UNCHANGED caseVars \/ SwitchOff
  BY <1>0, <1>5 DEF SwitchOff, files, history, faults, caseVars, FirstHolderOnly
<1>6. ~(AtomicCreate /\ ~expired' /\ claimFaults' = 0) => FirstHolderOnly'
  BY <1>0 DEF FirstHolderOnly
<1> QED
  BY <1>1, <1>2, <1>3, <1>4, <1>5, <1>6 DEF CaseNext

LEMMA CaseInvImplies == CaseInv => RecordCarriedThrough
<1> SUFFICES ASSUME CaseInv PROVE RecordCarriedThrough
  OBVIOUS
<1> USE DEF CaseInv
<1>1. CaseTypeOK
  <2>1. inbox \in [Ref -> 0..2 + MaxCaseFaults]
    <3>1. \A d \in Ref : inbox[d] \in 0..2 + MaxCaseFaults
      BY DltCaseAssumption DEF CaseTyped, InboxInv
    <3> QED
      BY <3>1 DEF CaseTyped
  <2> QED
    BY <2>1 DEF CaseTypeOK, CaseTyped, ClaimRecord, Status, BookInv, LogsInv
<1>2. OneAnalysis
  <2> SUFFICES ASSUME AtomicCreate, ~expired, claimFaults = 0
               PROVE  Cardinality(analysed) <= 1
    BY DEF OneAnalysis
  <2>1. \A d \in analysed : d = claim.holder
    BY DEF FirstHolderOnly
  <2>2. analysed = {} \/ analysed = {claim.holder}
    BY <2>1
  <2>3. Cardinality({claim.holder}) = 1
    BY FS_Singleton
  <2> QED
    BY <2>2, <2>3, FS_EmptySet
<1>3. DropsCovered
  <2> SUFFICES ASSUME \A d \in Ref : inbox[d] = 0 /\ queue[d] = 0 /\ fetch[d].at = "idle",
                      \A w \in Worker : work[w].at = "idle"
               PROVE  ended # {} \/ \E d \in Ref : Finished(d)
    BY DEF DropsCovered, FetchAt, WorkAt
  <2>1. \A w \in Worker : work[w].ref = NoRef
    BY DEF BookInv
  <2>2. \A d \in Ref : ~Pending(d) /\ ~Going(d)
    BY <2>1, DltCaseAssumption DEF Pending, Going
  <2> QED
    BY <2>2, FinishedIs, DltCaseAssumption DEF Covered
<1> QED
  BY <1>1, <1>2, <1>3 DEF RecordCarriedThrough

LEMMA CaseInvariant == CaseSpec => []CaseInv
<1>1. ASSUME CaseInv, [CaseNext]_caseVars
      PROVE  CaseInv'
  BY <1>1, CaseTypedStep, CaseBookStep, LogsStep, InboxStep, ClaimSeenStep, CoveredStep,
     FirstHolderStep DEF CaseInv
<1> QED
  BY <1>1, CaseInvInit, PTL DEF CaseSpec

(* However claims fail, expire and are taken over by any number of refIds, *)
(* workers and redeliveries, and on either backend, where the local one    *)
(* shows a claim's file before its text: a delivery is only dropped as a   *)
(* duplicate when another is carried through to an outcome; and on S3 the  *)
(* record is analysed under one refId while no claim outlives its TTL and  *)
(* the claim store answers (src/dlt/claims.py, src/api/dlt_routes.py).     *)
THEOREM RecordIsCarried == CaseSpec => []RecordCarriedThrough
BY CaseInvariant, CaseInvImplies, PTL

(* A verdict once visible is never lost from sight, whatever a redelivered *)
(* fetch writes over status.json afterwards.                               *)
THEOREM VerdictsStand == CaseSpec => [][SettledStaysSettled]_caseVars
<1>1. ASSUME CaseInv, CaseInv', [CaseNext]_caseVars
      PROVE  SettledStaysSettled
  <2>1. \A d \in Ref : book[d] \in Terminals => book'[d] \in Terminals
    <3>1. ASSUME NEW e \in Ref,
             \/ DeliverFetch(e) \/ FetchGate(e) \/ CreateClaim(e) \/ WriteClaim(e) \/ ClaimStoreFails(e)
             \/ LoadClaim(e) \/ JudgeClaim(e) \/ TakeOver(e) \/ PersistEvidence(e)
             \/ ReadStatus(e) \/ MarkFetched(e) \/ Publish(e) \/ FetchFails(e)
          PROVE  book' = book
      BY <1>1, <3>1, FetchLaneFrame DEF CaseInv
    <3>2. ASSUME NEW w \in Worker,
             \/ DeliverAnalysis(w) \/ CheckHolder(w) \/ AnalysisGate(w) \/ Analysed(w) \/ LateGuard(w)
             \/ SaveBook(w) \/ SaveStatus(w) \/ AnalysisFails(w)
             \/ ServerTimeout(w) \/ ServerTimeoutStatus(w) \/ ClientTimeout(w)
          PROVE  \A d \in Ref : book[d] \in Terminals => book'[d] \in Terminals
      BY <1>1, <3>2, AnalysisLaneFrame DEF CaseInv
    <3> QED
      BY <1>1, <3>1, <3>2 DEF CaseNext, SwitchOff, ClaimExpires, CaseCrash, files, caseVars
  <2>2. ASSUME NEW d \in Ref
        PROVE  /\ Finished(d) <=> book[d] \in Terminals
               /\ Finished(d)' <=> book'[d] \in Terminals
    <3>1. Finished(d) <=> book[d] \in Terminals
      BY <1>1, FinishedIs DEF CaseInv
    <3>2. CaseTyped' /\ BookInv'
      BY <1>1 DEF CaseInv
    <3>3. Finished(d)' <=> book'[d] \in Terminals
      BY <3>2 DEF CaseTyped, BookInv, Finished, TerminalStatus, Terminals
    <3> QED
      BY <3>1, <3>3
  <2> QED
    BY <2>1, <2>2 DEF SettledStaysSettled
<1> QED
  BY <1>1, CaseInvariant, PTL DEF CaseSpec

----------------------------------------------------------------------------
(* Knowledge: what outlives an investigation. *)

Book5 == [text : Nat, binding : Nat, version : Nat]
Names5 == {"status", "casebook", "logs", "outcome"}
Deleter5 == [at : {"idle", "chosen", "looked"}, on : SUBSET Event5, keep : SUBSET {"outcome"}]
Shown5 == [at : {"idle", "shown", "written"}, data : Book5, version : Nat]
Promoter5 == [at : {"idle", "asking"}, lines : SUBSET LearningRule, done : SUBSET LearningRule]

FilesTyped ==
    /\ local5 \in BOOLEAN /\ disk \in [Event5 -> SUBSET Names5]
    /\ deleter \in [{"prune", "reap"} -> Deleter5]

BooksTyped ==
    /\ rule5 \in Nat /\ texts \in Nat /\ builder \in [at : {"idle", "bound"}, binding : Nat]
    /\ draft \in Book5 /\ final \in Book5 /\ cache5 \in Book5 /\ served5 \in Book5
    /\ shown \in Shown5

RulesTyped ==
    /\ pending \in SUBSET LearningRule /\ learned \in [LearningRule -> Nat]
    /\ promoter \in [Tool -> Promoter5]

(* Without the casebooks on this disk a directory holds working files      *)
(* only.  A deleter's choice is still what it was chosen for, unless the   *)
(* directory was written to since.                                         *)
FilesInv ==
    /\ FilesTyped
    /\ ~local5 => \A e \in Event5 : disk[e] \subseteq {"logs"}
    /\ deleter["prune"].on # {} => local5
    /\ \A e \in deleter["prune"].on \ raced :
           deleter["prune"].at = "looked" /\ "outcome" \in disk[e] => "outcome" \in deleter["prune"].keep
    /\ \A e \in deleter["reap"].on \ raced :
           deleter["reap"].at = "chosen" => "casebook" \notin disk[e]
    /\ judging # {} => local5

(* What may be served was accepted; what is shown replaces what is there.  *)
BooksInv ==
    /\ BooksTyped
    /\ \A b \in {final, cache5, served5} : b # None5 => b.text \in accepted
    /\ shown.at = "shown" => shown.version >= final.version

(* A rule promoted is in a prompt.  While no tool was killed, one at a     *)
(* time goes through lines that still wait, and what waits is in no        *)
(* prompt but by the tool that is at it.                                   *)
RulesInv ==
    /\ RulesTyped /\ deaths \in Nat
    /\ \A t \in Tool : \A r \in promoter[t].done : r \in promoter[t].lines /\ learned[r] > 0
    /\ \A t \in Tool : promoter[t].at = "idle" => promoter[t] = NoTool
    /\ \A t, u \in Tool : t # u => promoter[t].at = "idle" \/ promoter[u].at = "idle"
    /\ deaths = 0 =>
           /\ \A t \in Tool : promoter[t].lines \subseteq pending
           /\ \A r \in pending : learned[r] = 0 \/ \E t \in Tool : r \in promoter[t].done
           /\ \A r \in LearningRule : learned[r] <= 1

LEMMA FilesInit == KnowledgeInit => FilesInv
  BY DEF KnowledgeInit, FilesInv, FilesTyped, Deleter5, Names5

LEMMA BooksInit == KnowledgeInit => BooksInv
  BY DEF KnowledgeInit, BooksInv, BooksTyped, None5, Book5, Shown5

LEMMA RulesInit == KnowledgeInit => RulesInv
  BY DEF KnowledgeInit, RulesInv, RulesTyped, NoTool, Promoter5

(* A write grows one directory, which counts as raced if it was chosen. *)
LEMMA WritesKeep ==
    ASSUME FilesInv, NEW e \in Event5, NEW names \in SUBSET Names5, WritesIn(e, names),
           UNCHANGED <<local5, deleter>>, judging' # {} => local5,
           ~local5 => names \subseteq {"logs"}
    PROVE  FilesInv'
<1>1. /\ disk' \in [Event5 -> SUBSET Names5]
      /\ disk'[e] = disk[e] \cup names /\ \A d \in Event5 \ {e} : disk'[d] = disk[d]
  BY DEF WritesIn, FilesInv, FilesTyped
<1>2. raced \subseteq raced' /\ (e \in Chosen => e \in raced')
  BY DEF WritesIn
<1>3. /\ deleter["prune"].at = "looked" => deleter["prune"].on \subseteq Chosen
      /\ deleter["reap"].at = "chosen" => deleter["reap"].on \subseteq Chosen
  BY DEF Chosen, LastLook, FilesInv, FilesTyped
<1>4. FilesTyped'
  BY <1>1 DEF FilesInv, FilesTyped
<1>5. ASSUME NEW d \in deleter["prune"].on \ raced', deleter["prune"].at = "looked",
             "outcome" \in disk'[d]
      PROVE  "outcome" \in deleter["prune"].keep
  <2>1. d \in Event5 /\ d # e
    BY <1>2, <1>3, <1>5 DEF FilesInv, FilesTyped, Deleter5
  <2> QED
    BY <1>1, <1>2, <1>5, <2>1 DEF FilesInv
<1>6. ASSUME NEW d \in deleter["reap"].on \ raced', deleter["reap"].at = "chosen"
      PROVE  "casebook" \notin disk'[d]
  <2>1. d \in Event5 /\ d # e
    BY <1>2, <1>3, <1>6 DEF FilesInv, FilesTyped, Deleter5
  <2> QED
    BY <1>1, <1>2, <1>6, <2>1 DEF FilesInv
<1>7. ~local5 => \A d \in Event5 : disk'[d] \subseteq {"logs"}
  BY <1>1 DEF FilesInv
<1> QED
  BY <1>4, <1>5, <1>6, <1>7 DEF FilesInv

LEMMA FilesKeep ==
    ASSUME FilesInv, [KnowledgeNext]_knowledgeVars
    PROVE  FilesInv'
<1>1. CASE UNCHANGED <<local5, fileVars>>
  BY <1>1 DEF fileVars, FilesInv, FilesTyped
<1>2. CASE FileStep /\ UNCHANGED local5
  <2>1. ASSUME NEW e \in Event5, WorkOn(e)
        PROVE  FilesInv'
    BY <1>2, <2>1, WritesKeep DEF WorkOn, Names5, FilesInv
  <2>2. ASSUME NEW e \in Event5, ConcludeCase(e)
        PROVE  FilesInv'
    BY <1>2, <2>2, WritesKeep DEF ConcludeCase, Names5, FilesInv
  <2>3. ASSUME NEW e \in Event5, SaveOutcome(e)
        PROVE  FilesInv'
    BY <1>2, <2>3, WritesKeep DEF SaveOutcome, Names5, FilesInv
  <2>4. ASSUME NEW e \in Event5, Ages(e)
        PROVE  FilesInv'
    BY <1>2, <2>4 DEF Ages, FilesInv, FilesTyped
  <2>5. ASSUME NEW e \in Event5, LoadCasebook(e)
        PROVE  FilesInv'
    BY <1>2, <2>5 DEF LoadCasebook, FilesInv, FilesTyped
  <2>6. ASSUME NEW e \in Event5, CleanUp(e)
        PROVE  FilesInv'
    <3>1. /\ disk' \in [Event5 -> SUBSET Names5]
          /\ \A d \in Event5 : disk'[d] \subseteq disk[d]
          /\ UNCHANGED <<deleter, raced, judging>>
      BY <2>6 DEF CleanUp, FilesInv, FilesTyped
    <3>2. \A t \in {"prune", "reap"} : deleter[t].on \subseteq Event5
      BY DEF FilesInv, FilesTyped, Deleter5
    <3> QED
      BY <1>2, <3>1, <3>2 DEF FilesInv, FilesTyped
  <2>7. ASSUME NEW e \in Event5, NEW t \in {"prune", "reap"}, Choose(t, e)
        PROVE  FilesInv'
    <3> DEFINE d == [at |-> "chosen", on |-> {e}, keep |-> {}]
    <3>1. UNCHANGED <<disk, raced, judging>> /\ deleter' = [deleter EXCEPT ![t] = d]
      BY <2>7 DEF Choose
    <3>2. d \in Deleter5
      BY DEF Deleter5
    <3>3. FilesTyped'
      BY <1>2, <3>1, <3>2 DEF FilesInv, FilesTyped
    <3>4. deleter'[t] = d /\ \A u \in {"prune", "reap"} \ {t} : deleter'[u] = deleter[u]
      BY <3>1 DEF FilesInv, FilesTyped
    <3>5. CASE t = "prune"
      <4>1. local5
        BY <2>7, <3>5 DEF Choose, Prunable, FilesInv, FilesTyped
      <4> QED
        BY <1>2, <3>1, <3>3, <3>4, <3>5, <4>1 DEF FilesInv
    <3>6. CASE t = "reap"
      <4>1. "casebook" \notin disk[e]
        BY <2>7, <3>6 DEF Choose, Reapable, IsLocalRecord, FilesInv, FilesTyped
      <4> QED
        BY <1>2, <3>1, <3>3, <3>4, <3>6, <4>1 DEF FilesInv
    <3> QED
      BY <3>5, <3>6
  <2>8. CASE Look
    <3> DEFINE kept == {n \in {"outcome"} : \E e \in deleter["prune"].on : n \in disk[e]}
    <3>1. /\ UNCHANGED <<disk, raced, judging>>
          /\ deleter' = [deleter EXCEPT !["prune"].at = "looked", !["prune"].keep = kept]
      BY <2>8 DEF Look
    <3>2. kept \in SUBSET {"outcome"}
      OBVIOUS
    <3>3. /\ deleter'["reap"] = deleter["reap"] /\ deleter'["prune"].at = "looked"
          /\ deleter'["prune"].on = deleter["prune"].on /\ deleter'["prune"].keep = kept
      BY <3>1 DEF FilesInv, FilesTyped, Deleter5
    <3>4. FilesTyped'
      <4> DEFINE d == [deleter["prune"] EXCEPT !.at = "looked", !.keep = kept]
      <4>1. d \in Deleter5
        <5>1. deleter["prune"] \in Deleter5
          BY DEF FilesInv, FilesTyped
        <5> HIDE DEF kept
        <5> QED
          BY <3>2, <5>1 DEF Deleter5
      <4>2. deleter' = [deleter EXCEPT !["prune"] = d]
        BY <3>1 DEF FilesInv, FilesTyped
      <4>3. deleter' \in [{"prune", "reap"} -> Deleter5]
        <5> HIDE DEF d
        <5> QED
          BY <4>1, <4>2 DEF FilesInv, FilesTyped
      <4> QED
        BY <1>2, <3>1, <4>3 DEF FilesInv, FilesTyped
    <3> QED
      BY <1>2, <3>1, <3>3, <3>4 DEF FilesInv
  <2>9. ASSUME NEW t \in {"prune", "reap"}, Delete(t)
        PROVE  FilesInv'
    <3> DEFINE d == [at |-> "idle", on |-> {}, keep |-> {}]
    <3>1. /\ UNCHANGED <<raced, judging>> /\ deleter' = [deleter EXCEPT ![t] = d]
          /\ disk' = [e \in Event5 |-> IF e \in deleter[t].on THEN disk[e] \cap deleter[t].keep
                                                              ELSE disk[e]]
      BY <2>9 DEF Delete
    <3>2. d \in Deleter5
      BY DEF Deleter5
    <3>3. /\ disk' \in [Event5 -> SUBSET Names5]
          /\ \A e \in Event5 : disk'[e] \subseteq disk[e]
      BY <3>1 DEF FilesInv, FilesTyped
    <3>4. FilesTyped'
      BY <1>2, <3>1, <3>2, <3>3 DEF FilesInv, FilesTyped
    <3>5. deleter'[t] = d /\ \A u \in {"prune", "reap"} \ {t} : deleter'[u] = deleter[u]
      BY <3>1 DEF FilesInv, FilesTyped
    <3>6. \A u \in {"prune", "reap"} : deleter[u].on \subseteq Event5
      BY DEF FilesInv, FilesTyped, Deleter5
    <3> QED
      BY <1>2, <3>1, <3>3, <3>4, <3>5, <3>6 DEF FilesInv
  <2> QED
    BY <1>2, <2>1, <2>2, <2>3, <2>4, <2>5, <2>6, <2>7, <2>8, <2>9 DEF FileStep
<1> QED
  BY <1>1, <1>2 DEF KnowledgeNext, knowledgeVars

LEMMA BooksKeep ==
    ASSUME BooksInv, [KnowledgeNext]_knowledgeVars
    PROVE  BooksInv'
<1> USE DEF BooksInv, BooksTyped
<1>1. CASE UNCHANGED bookVars
  BY <1>1 DEF bookVars
<1>2. CASE BookStep
  <2>1. ASSUME RuleChanges \/ Bind \/ FinishPromotion \/ PromotionKilled \/ Decline
        PROVE  BooksInv'
    BY <2>1 DEF RuleChanges, Bind, FinishPromotion, PromotionKilled, Decline, None5, Book5, Shown5
  <2>2. ASSUME WriteDraft \/ EditDraft
        PROVE  BooksInv'
    <3>1. texts' \in Nat /\ draft' \in Book5 /\ builder' \in [at : {"idle", "bound"}, binding : Nat]
      BY <2>2 DEF WriteDraft, EditDraft, Book5
    <3>2. UNCHANGED <<rule5, final, shown, cache5, served5, accepted>>
      BY <2>2 DEF WriteDraft, EditDraft
    <3> QED
      BY <3>1, <3>2
  <2>3. CASE Show
    <3>0. PICK version \in IF final = None5 THEN {0, 1} ELSE {final.version} :
              shown' = [at |-> "shown", data |-> draft, version |-> version]
      BY <2>3 DEF Show
    <3>1. shown' \in Shown5 /\ shown'.version >= final.version
      <4>1. final.version \in Nat /\ (final = None5 => final.version = 0) /\ draft \in Book5
        BY DEF Book5, None5
      <4>2. version \in Nat /\ version >= final.version
        BY <3>0, <4>1
      <4> QED
        BY <3>0, <4>1, <4>2 DEF Shown5
    <3>2. UNCHANGED <<rule5, builder, draft, final, cache5, served5, accepted, texts>>
      BY <2>3 DEF Show
    <3> QED
      BY <3>1, <3>2
  <2>4. CASE Promote
    <3>1. shown.data \in Book5 /\ shown.version \in Nat
      BY DEF Shown5
    <3>2. final' \in Book5 /\ final'.text = shown.data.text
      BY <2>4, <3>1 DEF Promote, Book5
    <3>3. shown' \in Shown5 /\ shown'.at = "written"
      BY <2>4 DEF Promote, Shown5
    <3>4. accepted' = accepted \cup {shown.data.text}
      BY <2>4 DEF Promote
    <3>5. UNCHANGED <<rule5, builder, draft, cache5, served5, texts>>
      BY <2>4 DEF Promote
    <3> QED
      BY <3>2, <3>3, <3>4, <3>5
  <2>5. CASE ServeRunbook \/ CacheExpires
    <3>1. Lookup \in {final, cache5} /\ None5 \in Book5
      BY DEF Lookup, None5, Book5
    <3>2. cache5' \in {final, cache5, None5} /\ served5' \in {final, cache5, served5}
      BY <2>5, <3>1 DEF ServeRunbook, CacheExpires
    <3>3. UNCHANGED <<rule5, builder, draft, final, shown, accepted, texts>>
      BY <2>5 DEF ServeRunbook, CacheExpires
    <3> QED
      BY <3>1, <3>2, <3>3
  <2>6. CASE CommitByHand /\ UNCHANGED <<bookVars, deaths>>
    BY <2>6, <1>1
  <2> QED
    BY <1>2, <2>1, <2>2, <2>3, <2>4, <2>5, <2>6 DEF BookStep
<1> QED
  BY <1>1, <1>2 DEF KnowledgeNext, knowledgeVars

LEMMA NoToolIs == NoTool \in Promoter5 /\ NoTool.at = "idle" /\ NoTool.lines = {} /\ NoTool.done = {}
  BY DEF NoTool, Promoter5

LEMMA ToolLeaves ==
    ASSUME RulesInv, NEW t \in Tool, promoter' = [promoter EXCEPT ![t] = NoTool],
           pending' \in SUBSET LearningRule, learned' = learned, deaths' \in Nat,
           deaths' = 0 => deaths = 0 /\ pending' = pending \ promoter[t].done,
           promoter[t].at = "asking"
    PROVE  RulesInv'
<1> USE DEF RulesInv
<1>1. /\ promoter' \in [Tool -> Promoter5] /\ promoter'[t] = NoTool
      /\ \A u \in Tool \ {t} : promoter'[u] = promoter[u] /\ promoter[u] = NoTool
  BY NoToolIs DEF RulesTyped
<1>2. RulesTyped'
  BY <1>1 DEF RulesTyped
<1>3. \A u \in Tool : promoter'[u] = NoTool
  BY <1>1
<1>4. ASSUME deaths' = 0, NEW r \in pending'
      PROVE  learned[r] = 0
  BY <1>1, <1>4, NoToolIs
<1> QED
  BY <1>2, <1>3, <1>4, NoToolIs

LEMMA RulesKeep ==
    ASSUME RulesInv, [KnowledgeNext]_knowledgeVars
    PROVE  RulesInv'
<1>1. CASE UNCHANGED <<ruleVars, deaths>>
  BY <1>1 DEF ruleVars, RulesInv, RulesTyped
<1>2. CASE BookStep /\ UNCHANGED ruleVars
  <2>1. deaths' \in Nat /\ (deaths' = 0 => deaths = 0)
    BY <1>2 DEF BookStep, RulesInv, RuleChanges, Bind, WriteDraft, EditDraft, Show, Decline, Promote,
       FinishPromotion, PromotionKilled, Kills, ServeRunbook, CacheExpires
  <2> QED
    BY <1>2, <2>1 DEF ruleVars, RulesInv, RulesTyped
<1>3. CASE RuleStep
  <2>1. ASSUME NEW r \in LearningRule, Propose(r)
        PROVE  RulesInv'
    <3>1. /\ pending' = pending \cup {r} /\ UNCHANGED <<learned, promoter, deaths>>
          /\ learned[r] = 0
      BY <2>1 DEF Propose
    <3>2. RulesTyped'
      BY <3>1 DEF RulesInv, RulesTyped
    <3> QED
      BY <3>1, <3>2 DEF RulesInv
  <2>2. ASSUME NEW t \in Tool, StartPromoter(t)
        PROVE  RulesInv'
    <3> DEFINE p == [at |-> "asking", lines |-> pending, done |-> {}]
    <3>1. /\ promoter' = [promoter EXCEPT ![t] = p] /\ UNCHANGED <<pending, learned, deaths>>
          /\ \A u \in Tool : promoter[u].at = "idle"
      BY <2>2 DEF StartPromoter
    <3>2. p \in Promoter5 /\ p.lines = pending /\ p.done = {}
      BY DEF Promoter5, RulesInv, RulesTyped
    <3> HIDE DEF p
    <3>3. /\ RulesTyped' /\ promoter'[t] = p
          /\ \A u \in Tool \ {t} : promoter'[u] = promoter[u] /\ promoter[u] = NoTool
      BY <3>1, <3>2 DEF RulesInv, RulesTyped
    <3>4. \A u \in Tool : promoter[u].done = {} /\ promoter'[u].done = {}
      BY <3>1, <3>2, <3>3, NoToolIs DEF RulesInv
    <3>5. \A u \in Tool : promoter'[u].lines \subseteq pending
      BY <3>2, <3>3, NoToolIs
    <3>6. promoter'[t].at # "idle"
      BY <3>3 DEF p
    <3> QED
      BY <3>1, <3>3, <3>4, <3>5, <3>6, NoToolIs DEF RulesInv
  <2>3. ASSUME NEW t \in Tool, NEW r \in LearningRule, PromoteRule(t, r)
        PROVE  RulesInv'
    <3>1. /\ promoter' = [promoter EXCEPT ![t].done = @ \cup {r}]
          /\ learned' = [learned EXCEPT ![r] = @ + 1] /\ UNCHANGED <<pending, deaths>>
          /\ promoter[t].at = "asking" /\ r \in promoter[t].lines /\ r \notin promoter[t].done
      BY <2>3 DEF PromoteRule
    <3>2. /\ promoter' \in [Tool -> Promoter5]
          /\ promoter'[t].at = "asking" /\ promoter'[t].lines = promoter[t].lines
          /\ promoter'[t].done = promoter[t].done \cup {r}
          /\ \A u \in Tool \ {t} : promoter'[u] = promoter[u]
      BY <3>1 DEF RulesInv, RulesTyped, Promoter5
    <3>3. /\ learned' \in [LearningRule -> Nat] /\ learned'[r] = learned[r] + 1
          /\ \A q \in LearningRule \ {r} : learned'[q] = learned[q]
      BY <3>1 DEF RulesInv, RulesTyped
    <3>4. \A u \in Tool \ {t} : promoter[u] = NoTool
      BY <3>1 DEF RulesInv
    <3>5. \A u \in Tool : promoter'[u].done \subseteq LearningRule
      BY <3>2 DEF Promoter5
    <3>6. \A u \in Tool : \A q \in promoter'[u].done : q \in promoter'[u].lines /\ learned'[q] > 0
      BY <3>1, <3>2, <3>3, <3>5 DEF RulesInv, RulesTyped
    <3>7. ASSUME deaths = 0
          PROVE  learned[r] = 0
      BY <3>1, <3>4, <3>7, NoToolIs DEF RulesInv
    <3>8. ASSUME deaths = 0
          PROVE  /\ \A u \in Tool : promoter'[u].lines \subseteq pending
                 /\ \A q \in pending : learned'[q] = 0 \/ \E u \in Tool : q \in promoter'[u].done
                 /\ \A q \in LearningRule : learned'[q] <= 1
      <4>1. \A u \in Tool : promoter[u].done \subseteq promoter'[u].done
        BY <3>2
      <4>2. pending \subseteq LearningRule
        BY DEF RulesInv, RulesTyped
      <4>3. ASSUME NEW q \in pending
            PROVE  learned'[q] = 0 \/ \E u \in Tool : q \in promoter'[u].done
        BY <3>2, <3>3, <3>8, <4>1, <4>2 DEF RulesInv
      <4>4. \A u \in Tool : promoter'[u].lines = promoter[u].lines
        BY <3>2
      <4>5. \A q \in LearningRule : learned'[q] <= 1
        BY <3>3, <3>7, <3>8 DEF RulesInv
      <4> QED
        BY <3>8, <4>3, <4>4, <4>5 DEF RulesInv
    <3> QED
      BY <3>1, <3>2, <3>3, <3>4, <3>6, <3>8 DEF RulesInv, RulesTyped
  <2>4. ASSUME NEW t \in Tool, RewritePending(t)
        PROVE  RulesInv'
    BY <2>4, ToolLeaves DEF RewritePending, RulesInv, RulesTyped
  <2>5. ASSUME NEW t \in Tool, PromoterKilled(t)
        PROVE  RulesInv'
    <3>1. deaths' \in Nat /\ deaths' # 0
      BY <2>5 DEF PromoterKilled, Kills, RulesInv
    <3> QED
      BY <2>5, <3>1, ToolLeaves DEF PromoterKilled, RulesInv, RulesTyped
  <2>6. CASE CommitByHand /\ UNCHANGED <<ruleVars, deaths>>
    BY <1>1, <2>6
  <2> QED
    BY <1>3, <2>1, <2>2, <2>3, <2>4, <2>5, <2>6 DEF RuleStep
<1> QED
  BY <1>1, <1>2, <1>3 DEF KnowledgeNext, knowledgeVars

(* What the agents are taught was accepted by an operator, as shown, and   *)
(* once, for every number of events, rules, tools and texts.               *)
THEOREM TaughtWasReviewed == KnowledgeSpec => []KnowledgeIsReviewed
<1> DEFINE Inv == FilesInv /\ BooksInv /\ RulesInv
<1>1. KnowledgeInit => Inv
  BY FilesInit, BooksInit, RulesInit
<1>2. Inv /\ [KnowledgeNext]_knowledgeVars => Inv'
  BY FilesKeep, BooksKeep, RulesKeep
<1>3. Inv => KnowledgeIsReviewed
  BY DEF FilesInv, FilesTyped, Names5, BooksInv, RulesInv, RulesTyped, KnowledgeIsReviewed,
     KnowledgeTypeOK, ServedWasAccepted, LearnedOnce
<1> QED
  BY <1>1, <1>2, <1>3, PTL DEF KnowledgeSpec

(* The steps of the tools, whatever they interleave with: the pruner       *)
(* leaves verdicts, the reaper leaves records, versions grow and no rule   *)
(* is dropped.                                                             *)
LEMMA FilesStand ==
    ASSUME FilesInv, [KnowledgeNext]_knowledgeVars
    PROVE  PrunerKeepsOutcome /\ RecordNotReaped
<1>1. \A e \in Event5 : disk[e] \subseteq Names5
  BY DEF FilesInv, FilesTyped
<1>2. deleter["prune"].on \subseteq Event5 /\ deleter["reap"].on \subseteq Event5
  BY DEF FilesInv, FilesTyped, Deleter5
<1>3. CASE \A e \in Event5 : disk[e] \subseteq disk'[e]
  BY <1>2, <1>3 DEF PrunerKeepsOutcome, RecordNotReaped
<1>4. ASSUME NEW e \in Event5, NEW names, WritesIn(e, names)
      PROVE  \A d \in Event5 : disk[d] \subseteq disk'[d]
  BY <1>4 DEF WritesIn, FilesInv, FilesTyped
<1>5. ASSUME NEW e \in Event5, CleanUp(e)
      PROVE  PrunerKeepsOutcome /\ RecordNotReaped
  <2>1. ~local5
    BY <1>5 DEF CleanUp, IsLocalRecord, FilesInv, FilesTyped
  <2> QED
    BY <1>1, <1>2, <2>1 DEF FilesInv, PrunerKeepsOutcome, RecordNotReaped
<1>6. CASE Delete("prune")
  <2>1. /\ deleter["prune"].at = "looked"
        /\ \A e \in Event5 : disk'[e] = IF e \in deleter["prune"].on
                                        THEN disk[e] \cap deleter["prune"].keep ELSE disk[e]
    BY <1>6 DEF Delete, LastLook
  <2>2. PrunerKeepsOutcome
    BY <1>2, <2>1 DEF FilesInv, PrunerKeepsOutcome
  <2> QED
    BY <2>1, <2>2 DEF RecordNotReaped
<1>7. CASE Delete("reap")
  <2>1. /\ deleter["reap"].at = "chosen"
        /\ \A e \in Event5 : disk'[e] = IF e \in deleter["reap"].on
                                        THEN disk[e] \cap deleter["reap"].keep ELSE disk[e]
    BY <1>7 DEF Delete, LastLook
  <2>2. PrunerKeepsOutcome
    BY <1>2, <2>1 DEF PrunerKeepsOutcome
  <2> QED
    BY <2>1, <2>2 DEF FilesInv, RecordNotReaped
<1>8. CASE UNCHANGED disk
  BY <1>3, <1>8
<1>9. CASE FileStep
  BY <1>3, <1>4, <1>5, <1>6, <1>7, <1>8, <1>9 DEF FileStep, WorkOn, ConcludeCase, SaveOutcome, Ages,
     LoadCasebook, Choose, Look
<1> QED
  BY <1>8, <1>9 DEF KnowledgeNext, knowledgeVars, fileVars

LEMMA VersionsStand ==
    ASSUME BooksInv, [KnowledgeNext]_knowledgeVars
    PROVE  VersionsGrow
<1>1. CASE Promote
  <2>1. shown.data \in Book5 /\ shown.version \in Nat /\ shown.at = "shown"
    BY <1>1 DEF Promote, BooksInv, BooksTyped, Shown5
  <2>2. final'.version = shown.version + 1
    BY <1>1, <2>1 DEF Promote, Book5
  <2>3. shown.version >= final.version /\ final.version \in Nat
    BY <2>1 DEF BooksInv, BooksTyped, Book5
  <2> QED
    BY <2>1, <2>2, <2>3 DEF VersionsGrow
<1>2. CASE UNCHANGED final
  BY <1>2 DEF VersionsGrow
<1>3. CASE BookStep
  BY <1>1, <1>2, <1>3 DEF BookStep, RuleChanges, Bind, WriteDraft, EditDraft, Show, Decline,
     FinishPromotion, PromotionKilled, ServeRunbook, CacheExpires, bookVars
<1> QED
  BY <1>2, <1>3 DEF KnowledgeNext, knowledgeVars, bookVars

LEMMA RulesStand ==
    ASSUME RulesInv, [KnowledgeNext]_knowledgeVars
    PROVE  NoRuleLost
<1>1. CASE pending \subseteq pending'
  BY <1>1 DEF NoRuleLost
<1>2. ASSUME NEW t \in Tool, RewritePending(t)
      PROVE  NoRuleLost
  BY <1>2 DEF RewritePending, NoRuleLost, RulesInv
<1>3. ASSUME NEW t \in Tool, PromoterKilled(t)
      PROVE  NoRuleLost
  BY <1>3 DEF PromoterKilled, NoRuleLost
<1>4. CASE RuleStep
  BY <1>1, <1>2, <1>3, <1>4 DEF RuleStep, Propose, StartPromoter, PromoteRule, ruleVars
<1> QED
  BY <1>1, <1>4 DEF KnowledgeNext, knowledgeVars, ruleVars

(* Disk hygiene and the operators' tools leave what is on record: the      *)
(* pruner leaves a verdict it did not see come, the reaper no record that  *)
(* was there when it looked, a promotion a higher version, and a session   *)
(* of the rules' tool every rule that was proposed while it ran.           *)
THEOREM KnowledgeStands ==
    KnowledgeSpec => [][/\ PrunerKeepsOutcome /\ RecordNotReaped
                        /\ VersionsGrow /\ NoRuleLost]_knowledgeVars
<1> DEFINE Inv == FilesInv /\ BooksInv /\ RulesInv
           Stands == PrunerKeepsOutcome /\ RecordNotReaped /\ VersionsGrow /\ NoRuleLost
<1>1. KnowledgeInit => Inv
  BY FilesInit, BooksInit, RulesInit
<1>2. Inv /\ [KnowledgeNext]_knowledgeVars => Inv'
  BY FilesKeep, BooksKeep, RulesKeep
<1>3. Inv /\ [KnowledgeNext]_knowledgeVars => [Stands]_knowledgeVars
  BY FilesStand, VersionsStand, RulesStand
<1> QED
  BY <1>1, <1>2, <1>3, PTL DEF KnowledgeSpec

----------------------------------------------------------------------------
(* DltFinding: how a finding is made. *)

(* The places of a set of numbers, counted. *)
LEMMA PlacesAre ==
    ASSUME NEW n \in Nat, NEW keep \in SUBSET (1..n)
    PROVE  LET size == Cardinality(keep)
               pos(k) == Cardinality({j \in keep : j <= k})
           IN  /\ size \in Nat
               /\ \A k \in keep : pos(k) \in 1..size
               /\ \A k, m \in keep : pos(k) = pos(m) => k = m
               /\ \A i \in 1..size : \E k \in keep : pos(k) = i
<1> DEFINE size == Cardinality(keep)
           pos(k) == Cardinality({j \in keep : j <= k})
<1>1. IsFiniteSet(keep) /\ size \in Nat
  <2>1. IsFiniteSet(1..n)
    BY FS_Interval
  <2> QED
    BY <2>1, FS_Subset, FS_CardinalityType
<1>2. ASSUME NEW k \in keep
      PROVE  /\ IsFiniteSet({j \in keep : j <= k}) /\ pos(k) \in Nat
             /\ pos(k) <= size /\ pos(k) # 0
  <2> DEFINE below == {j \in keep : j <= k}
  <2>1. below \in SUBSET keep /\ k \in below
    OBVIOUS
  <2>2. IsFiniteSet(below) /\ Cardinality(below) \in Nat /\ Cardinality(below) <= size
    BY <1>1, <2>1, FS_Subset, FS_CardinalityType
  <2>3. Cardinality(below) # 0
    BY <2>1, <2>2, FS_EmptySet
  <2> QED
    BY <2>2, <2>3
<1>3. ASSUME NEW k \in keep, NEW m \in keep, k < m
      PROVE  pos(k) # pos(m)
  <2> DEFINE low == {j \in keep : j <= k}
             high == {j \in keep : j <= m}
  <2>1. low \in SUBSET high /\ m \in high /\ m \notin low
    <3>1. \A j \in keep : j \in Nat
      OBVIOUS
    <3>2. ~(m <= k) /\ m <= m /\ \A j \in keep : j <= k => j <= m
      BY <1>3, <3>1
    <3>3. m \in high /\ m \notin low
      BY <3>2
    <3>4. \A j \in low : j \in high
      BY <3>2
    <3> QED
      BY <3>3, <3>4
  <2>2. IsFiniteSet(high)
    BY <1>2
  <2> HIDE DEF low, high
  <2>3. Cardinality(low) # Cardinality(high)
    BY <2>1, <2>2, FS_Subset
  <2> QED
    BY <2>3 DEF low, high
<1>4. \A k, m \in keep : pos(k) = pos(m) => k = m
  <2> HIDE DEF pos
  <2> TAKE k, m \in keep
  <2>1. k < m \/ m < k \/ k = m
    OBVIOUS
  <2> QED
    BY <1>3, <2>1
<1>5. \A k \in keep : pos(k) \in 1..size
  BY <1>1, <1>2
<1> HIDE DEF pos, size
<1> DEFINE f == [k \in keep |-> pos(k)]
<1>6. f \in Injection(keep, 1..size)
  BY <1>4, <1>5 DEF Injection, IsInjective
<1>7. IsFiniteSet(1..size) /\ Cardinality(1..size) = size
  BY <1>1, FS_Interval
<1>8. f \in Surjection(keep, 1..size)
  <2> HIDE DEF f
  <2> QED
    BY <1>6, <1>7, FS_Injection DEF size
<1>9. \A i \in 1..size : \E k \in keep : pos(k) = i
  BY <1>8 DEF Surjection
<1> QED
  BY <1>1, <1>4, <1>5, <1>9 DEF pos, size

(* A line is attributed when the last line at or before it that opens a    *)
(* record is not context.                                                  *)
LEMMA AttributedIs ==
    ASSUME NEW ls \in Seq(LogLine), NEW i \in 1..Len(ls)
    PROVE  Attributed(ls, i) <=>
               \A j \in 1..i : ls[j].opens /\ (\A k \in j + 1..i : ~ls[k].opens) => ~ls[j].context
<1> DEFINE openers == {j \in 1..i : ls[j].opens}
<1>1. openers \in SUBSET Nat /\ \A j \in openers : j <= i
  OBVIOUS
<1>2. Attributed(ls, i) <=> openers = {} \/ ~ls[Max(openers)].context
  BY DEF Attributed
<1>3. CASE openers = {}
  BY <1>2, <1>3
<1>4. CASE openers # {}
  <2>1. Max(openers) \in openers /\ \A j \in openers : Max(openers) >= j
    <3> HIDE DEF openers
    <3>1. i \in Nat
      OBVIOUS
    <3> QED
      BY <1>1, <1>4, <3>1, MaxIs
  <2> DEFINE m == Max(openers)
  <2>2. m \in 1..i /\ ls[m].opens /\ \A k \in m + 1..i : ~ls[k].opens
    <3>1. m \in openers /\ \A j \in 1..i : ls[j].opens => m >= j
      BY <2>1
    <3> HIDE DEF m
    <3>2. m \in 1..i /\ ls[m].opens
      BY <3>1
    <3>3. ASSUME NEW k \in m + 1..i
          PROVE  ~ls[k].opens
      <4>1. k \in 1..i /\ ~(m >= k)
        BY <3>2
      <4> QED
        BY <3>1, <4>1
    <3> QED
      BY <3>2, <3>3
  <2>3. \A j \in 1..i : ls[j].opens /\ (\A k \in j + 1..i : ~ls[k].opens) => j = m
    <3> TAKE j \in 1..i
    <3> HAVE ls[j].opens /\ (\A k \in j + 1..i : ~ls[k].opens)
    <3>1. m >= j
      BY <2>1
    <3>2. ~(m > j)
      BY <2>2
    <3> QED
      BY <2>2, <3>1, <3>2
  <2> QED
    BY <1>2, <1>4, <2>2, <2>3
<1> QED
  BY <1>3, <1>4

LEMMA OwnLinesAccuse ==
    ASSUME NEW ls \in Seq(LogLine)
    PROVE  Unexplained(OwnLines(ls)) <=> Unexplained(ls)
<1> DEFINE keep == {i \in 1..Len(ls) : \A j \in 1..i :
                       ls[j].opens /\ (\A k \in j + 1..i : ~ls[k].opens) => ~ls[j].context}
           size == Cardinality(keep)
           pos(k) == Cardinality({j \in keep : j <= k})
           at(i) == CHOOSE k \in keep : pos(k) = i
           own == OwnLines(ls)
<1>1. /\ size \in Nat /\ \A k \in keep : pos(k) \in 1..size
      /\ \A k, m \in keep : pos(k) = pos(m) => k = m
      /\ \A i \in 1..size : \E k \in keep : pos(k) = i
  <2>1. keep \in SUBSET (1..Len(ls)) /\ Len(ls) \in Nat
    OBVIOUS
  <2> HIDE DEF keep
  <2> QED
    BY <2>1, PlacesAre
<1>2. own = [i \in 1..size |-> ls[at(i)]]
  BY DEF OwnLines
<1>3. \A k \in keep : k \in 1..Len(ls)
  OBVIOUS
<1>4. \A i \in 1..Len(ls) : Attributed(ls, i) <=> i \in keep
  BY AttributedIs
<1>5. \A k \in keep : ls[k].opens => ~ls[k].context
  <2> TAKE k \in keep
  <2>1. k \in 1..k
    BY <1>3
  <2>2. \A q \in k + 1..k : ~ls[q].opens
    BY <1>3
  <2> QED
    BY <2>1, <2>2
<1> HIDE DEF keep, pos, size
<1>6. \A i \in 1..size : at(i) \in keep /\ pos(at(i)) = i
  BY <1>1
<1>7. \A k \in keep : at(pos(k)) = k
  BY <1>1, <1>6
<1> HIDE DEF at, own
<1>8. own \in Seq(LogLine) /\ Len(own) = size /\ \A i \in 1..size : own[i] = ls[at(i)]
  BY <1>1, <1>2, <1>3, <1>6
<1>9. \A i \in 1..size : Attributed(own, i)
  <2> TAKE i \in 1..size
  <2>1. \A j \in 1..i : own[j].opens => ~own[j].context
    BY <1>1, <1>5, <1>6, <1>8
  <2> QED
    BY <1>8, <2>1, AttributedIs
<1>10. ASSUME NEW i \in Scanned(own), own[i].level = "ERROR", own[i].names = "other"
       PROVE  Unexplained(ls)
  <2>1. i \in 1..size
    BY <1>8 DEF Scanned
  <2>2. at(i) \in keep /\ ls[at(i)] = own[i]
    BY <1>6, <1>8, <2>1
  <2> QED
    BY <1>3, <1>4, <1>10, <2>2 DEF Unexplained, Scanned
<1>11. ASSUME NEW i \in Scanned(ls), Attributed(ls, i), ls[i].level = "ERROR", ls[i].names = "other"
       PROVE  Unexplained(own)
  <2>1. i \in keep
    BY <1>4, <1>11 DEF Scanned
  <2>2. pos(i) \in 1..size /\ own[pos(i)] = ls[i]
    BY <1>1, <1>7, <1>8, <2>1
  <2> QED
    BY <1>8, <1>9, <1>11, <2>2 DEF Unexplained, Scanned
<1> QED
  BY <1>10, <1>11 DEF Unexplained, own

LEMMA DisagreesIs ==
    ASSUME NEW x, x.kind = "lines"
    PROVE  Disagrees(Reading(x)) <=> Unexplained(x.lines)
<1>1. Unexplained(x.lines) => Scanned(x.lines) # {}
  BY DEF Unexplained
<1> QED
  BY <1>1 DEF Disagrees, Reading

(* Truth values, where only their being values matters *)
Flag2 == BOOLEAN
Finding2 ==
    [action : {"none", "REDRIVE", "OTHER", "ROUTE_TO_DEV", "MANUAL"}, confidence : -1..100,
     discrepancy : Flag2, reviewed : {"none", "yes", "no"}, labels : SUBSET Labels,
     identifier : Flag2, from : Nat]
Verdict2 ==
    [says : {"none", "CORROBORATED", "PARTIAL", "CONTRADICTED", "UNVERIFIABLE"}, blind : Flag2]
Provenance2 == {"none", "agent", "group_reuse", "canned", "failed_synthesis"}
Stage2 ==
    {"idle", "new", "corroborated", "investigate", "review", "routed", "synthesise", "repair",
     "policy", "share", "judged", "failed", "abandoned"}

FindingTyped ==
    /\ trace2 \in Trace /\ text \in LogText /\ stage2 \in Stage2 /\ verdict \in Verdict2
    /\ attempt \in Nat /\ approved \subseteq 1..attempt /\ reviews \in 0..DltMaxReviews
    /\ feedback \in {"none", "APPROVED", "rejected", "empty"} /\ provenance \in Provenance2
    /\ finding2 \in Finding2 /\ group2 \in Finding2

(* A case investigated again has reviews left, and what the synthesis      *)
(* starts from was approved if the last feedback says so.                  *)
ReviewsInv ==
    /\ stage2 \in {"investigate", "review"} => reviews < DltMaxReviews
    /\ stage2 \in {"review", "routed", "synthesise", "repair"} => attempt > 0
    /\ stage2 \in {"routed", "synthesise", "repair"} /\ feedback = "APPROVED" => attempt \in approved
    /\ stage2 \in {"investigate", "review", "routed", "synthesise", "repair"} => provenance = "agent"

(* A finding the agents wrote, in this occurrence or an earlier one *)
Written(f) == f.from > 0 /\ f.reviewed \in {"yes", "no"}

(* Where a finding came from shows in it.                                  *)
SourceInv ==
    stage2 \in {"policy", "share", "judged"} =>
        /\ provenance # "none"
        /\ provenance \in {"agent", "group_reuse"} => Written(finding2)
        /\ provenance = "agent" /\ finding2.reviewed = "yes" => finding2.from \in approved
        /\ provenance = "canned" => finding2.confidence = -1
        /\ provenance = "failed_synthesis" => finding2.action = "MANUAL"

(* What is kept for the group is the agents', holds nothing of its packet, *)
(* and was not made against its logs.                                      *)
OnFileInv ==
    /\ group2 # NoFinding =>
           /\ Written(group2) /\ ~group2.identifier /\ ~group2.discrepancy
           /\ "contradicted" \notin group2.labels
    /\ provenance = "group_reuse" => group2 # NoFinding /\ ~finding2.identifier

(* After the policy the labels are those of this occurrence.               *)
PolicyInv ==
    stage2 \in {"share", "judged"} =>
        /\ finding2.labels = Triggered(finding2)
        /\ finding2.discrepancy => Disagrees(verdict)

FindingInv ==
    /\ FindingTyped /\ ReviewsInv /\ SourceInv /\ OnFileInv /\ PolicyInv
    /\ stage2 = "corroborated" => verdict = Reading(text)

LEMMA NoFindingIs ==
    NoFinding \in Finding2 /\ NoFinding.confidence = -1
<1>1. ASSUME NEW m \in Flag2
      PROVE  [action |-> "none", confidence |-> -1, discrepancy |-> m, reviewed |-> "none",
              labels |-> {}, identifier |-> m, from |-> 0] \in Finding2
  BY DEF Finding2
<1>2. FALSE \in Flag2
  BY DEF Flag2
<1> QED
  BY <1>1, <1>2 DEF NoFinding

LEMMA FindingInvInit == FindingInit => FindingInv
<1> SUFFICES ASSUME FindingInit
             PROVE  FindingInv
  OBVIOUS
<1>1. NoText \in LogText
  BY DEF NoText, LogText
<1>2. FALSE \in Flag2
  BY DEF Flag2
<1>3. NoVerdict \in Verdict2
  BY <1>2 DEF NoVerdict, Verdict2
<1>4. FindingTyped
  BY <1>1, <1>3, NoFindingIs, FindingAssumption DEF FindingInit, FindingTyped, Stage2, Provenance2
<1> QED
  BY <1>4 DEF FindingInit, FindingInv, ReviewsInv, SourceInv, OnFileInv, PolicyInv

LEMMA ClassIs ==
    ASSUME NEW t \in Trace
    PROVE  ClassOf(t) \in {"A", "B", "C", "U"}
BY FindingAssumption DEF ClassOf, ByCatalog

LEMMA ReadingIs ==
    ASSUME NEW x
    PROVE  Reading(x) \in Verdict2 /\ Reading(x).says # "none"
<1>1. TRUE \in Flag2 /\ FALSE \in Flag2
  BY DEF Flag2
<1> QED
  BY <1>1 DEF Reading, Verdict2

(* The ceilings leave a confidence a percentage, and one not given, not    *)
(* given.                                                                  *)
LEMMA CeiledIs ==
    ASSUME NEW f \in Finding2
    PROVE  Ceiled(f) \in -1..100 /\ (f.confidence = -1 => Ceiled(f) = -1)
<1>1. CASE f.confidence = -1
  BY <1>1 DEF Ceiled
<1>2. CASE f.confidence # -1
  <2> DEFINE own == IF provenance = "group_reuse" THEN (f.confidence * Decay) \div 100
                                                  ELSE f.confidence
             all == {own, 100} \cup {Ceiling[l] : l \in Triggered(f)}
  <2>1. f.confidence \in 0..100 /\ Decay \in 0..100
    BY <1>2, FindingAssumption DEF Finding2
  <2>2. ASSUME NEW i \in Nat, NEW j \in Nat
        PROVE  i * j \in Nat
    BY <2>2
  <2>3. ASSUME NEW k \in Nat
        PROVE  k \div 100 \in Nat
    BY <2>3
  <2>4. own \in Nat
    BY <2>1, <2>2, <2>3
  <2>5. \A l \in Triggered(f) : Ceiling[l] \in Nat
    BY FindingAssumption DEF Triggered
  <2> HIDE DEF own
  <2>6. all \in SUBSET Nat /\ 100 \in all
    BY <2>4, <2>5
  <2>7. Ceiled(f) = Min(all)
    BY <1>2 DEF Ceiled, own
  <2> HIDE DEF all
  <2>8. Min(all) \in Nat /\ Min(all) <= 100
    BY <2>6, MinIs
  <2> QED
    BY <1>2, <2>7, <2>8
<1> QED
  BY <1>1, <1>2

LEMMA ApplyPolicyIs ==
    ASSUME NEW f \in Finding2, trace2 \in Trace
    PROVE  LET g == ApplyPolicy(f)
           IN  /\ g \in Finding2 /\ g.labels = Triggered(g)
               /\ g.from = f.from /\ g.reviewed = f.reviewed /\ g.identifier = f.identifier
               /\ g.discrepancy => Disagrees(verdict)
               /\ f.confidence = -1 => g.confidence = -1
               /\ f.action = "MANUAL" => g.action = "MANUAL"
<1> DEFINE c == Ceiled(f)
           a == Routed(f)
           ls == Triggered(f)
           d == f.discrepancy /\ Disagrees(verdict)
           g == [f EXCEPT !.confidence = c, !.labels = ls, !.action = a, !.discrepancy = d]
<1>1. c \in -1..100 /\ (f.confidence = -1 => c = -1)
  BY CeiledIs
<1>2. /\ a \in {"none", "REDRIVE", "OTHER", "ROUTE_TO_DEV", "MANUAL"}
      /\ f.action = "MANUAL" => a = "MANUAL"
  BY DEF Routed, Finding2
<1>3. ls \in SUBSET Labels
  BY DEF Triggered
<1>4. d \in Flag2 /\ (d => Disagrees(verdict))
  BY DEF Flag2
<1>5. ApplyPolicy(f) = g
  BY DEF ApplyPolicy
<1> HIDE DEF c, a, d
<1>6. \A h : h.reviewed = f.reviewed => Triggered(h) = ls
  BY DEF Triggered
<1> HIDE DEF ls
<1>7. /\ g \in Finding2 /\ g.labels = ls /\ g.confidence = c /\ g.action = a /\ g.discrepancy = d
      /\ g.from = f.from /\ g.reviewed = f.reviewed /\ g.identifier = f.identifier
  BY <1>1, <1>2, <1>3, <1>4 DEF Finding2
<1> HIDE DEF g
<1> QED
  BY <1>1, <1>2, <1>4, <1>5, <1>6, <1>7

(* The steps, in the order a case takes them. *)

LEMMA OccurrenceKeeps == FindingInv /\ NextOccurrence => FindingInv'
<1> SUFFICES ASSUME FindingInv, NextOccurrence
             PROVE  FindingInv'
  OBVIOUS
<1>1. text' \in LogText
  BY FindingAssumption DEF NextOccurrence
<1>2. FALSE \in Flag2
  BY DEF Flag2
<1>3. verdict' \in Verdict2
  BY <1>2 DEF NextOccurrence, NoVerdict, Verdict2
<1>4. /\ stage2' = "new" /\ finding2' = NoFinding /\ provenance' = "none"
      /\ UNCHANGED <<trace2, attempt, approved, reviews, feedback, group2>>
  BY DEF NextOccurrence, loop
<1>5. FindingTyped'
  BY <1>1, <1>3, <1>4, NoFindingIs DEF FindingInv, FindingTyped, Stage2, Provenance2
<1> QED
  BY <1>4, <1>5 DEF FindingInv, ReviewsInv, SourceInv, OnFileInv, PolicyInv

LEMMA CorroborateKeeps == FindingInv /\ Corroborate => FindingInv'
<1> SUFFICES ASSUME FindingInv, Corroborate
             PROVE  FindingInv'
  OBVIOUS
<1>1. /\ stage2' = "corroborated" /\ verdict' = Reading(text)
      /\ UNCHANGED <<trace2, text, attempt, approved, reviews, feedback, finding2, provenance, group2>>
  BY DEF Corroborate, loop
<1>2. verdict' \in Verdict2
  BY <1>1, ReadingIs
<1>3. FindingTyped'
  BY <1>1, <1>2 DEF FindingInv, FindingTyped, Stage2
<1>4. verdict' = Reading(text)'
  BY <1>1 DEF Reading, Scanned, Matched, Unexplained, Attributed
<1> QED
  BY <1>1, <1>3, <1>4 DEF FindingInv, ReviewsInv, SourceInv, OnFileInv, PolicyInv

LEMMA ForgetIs ==
    ASSUME text \in LogText, Forget
    PROVE  text' \in LogText
<1>1. <<>> \in Seq(LogLine)
  OBVIOUS
<1> QED
  BY <1>1 DEF Forget, LogText

LEMMA CannedKeeps == FindingInv /\ Canned => FindingInv'
<1> SUFFICES ASSUME FindingInv, Canned
             PROVE  FindingInv'
  OBVIOUS
<1> DEFINE a == CASE ClassOf(trace2) = "C" -> "REDRIVE"
                  [] ClassOf(trace2) = "B" -> "ROUTE_TO_DEV"
                  [] ClassOf(trace2) = "U" -> "MANUAL"
           d == Disagrees(verdict)
<1>1. a \in {"REDRIVE", "ROUTE_TO_DEV", "MANUAL"}
  BY ClassIs DEF FindingInv, FindingTyped, Canned
<1>2. d \in Flag2
  BY DEF Disagrees, Flag2
<1>3. finding2' = [NoFinding EXCEPT !.action = a, !.discrepancy = d]
  BY DEF Canned
<1> HIDE DEF a, d
<1>4. finding2' \in Finding2 /\ finding2'.confidence = -1
  BY <1>1, <1>2, <1>3, NoFindingIs DEF Finding2
<1>5. /\ stage2' = "policy" /\ provenance' = "canned" /\ text' \in LogText
      /\ UNCHANGED <<trace2, verdict, attempt, approved, reviews, feedback, group2>>
  BY ForgetIs DEF Canned, loop, FindingInv, FindingTyped
<1>6. FindingTyped'
  BY <1>4, <1>5 DEF FindingInv, FindingTyped, Stage2, Provenance2
<1> QED
  BY <1>4, <1>5, <1>6 DEF FindingInv, ReviewsInv, SourceInv, OnFileInv, PolicyInv

LEMMA ReuseKeeps == FindingInv /\ ReuseGroup => FindingInv'
<1> SUFFICES ASSUME FindingInv, ReuseGroup
             PROVE  FindingInv'
  OBVIOUS
<1>1. /\ stage2' = "policy" /\ provenance' = "group_reuse" /\ text' \in LogText
      /\ finding2' = group2 /\ group2 # NoFinding
      /\ UNCHANGED <<trace2, verdict, attempt, approved, reviews, feedback, group2>>
  BY ForgetIs DEF ReuseGroup, Reuses, loop, FindingInv, FindingTyped
<1>2. FindingTyped'
  BY <1>1 DEF FindingInv, FindingTyped, Stage2, Provenance2
<1> QED
  BY <1>1, <1>2 DEF FindingInv, ReviewsInv, SourceInv, OnFileInv, PolicyInv

LEMMA AgentsKeep ==
    ASSUME FindingInv, RunAgents \/ InvestigateTrace \/ Review \/ CheckApproval
    PROVE  FindingInv'
<1>1. CASE RunAgents
  <2>1. /\ stage2' = "investigate" /\ provenance' = "agent" /\ text' \in LogText
        /\ attempt' = 0 /\ approved' = {} /\ reviews' = 0 /\ feedback' = "none"
        /\ UNCHANGED <<trace2, verdict, finding2, group2>>
    BY <1>1, ForgetIs DEF RunAgents, FindingInv, FindingTyped
  <2>2. FindingTyped'
    BY <2>1, FindingAssumption DEF FindingInv, FindingTyped, Stage2, Provenance2
  <2> QED
    BY <2>1, <2>2, FindingAssumption DEF FindingInv, ReviewsInv, SourceInv, OnFileInv, PolicyInv
<1>2. CASE InvestigateTrace
  <2>1. /\ stage2 = "investigate" /\ stage2' = "review" /\ attempt' = attempt + 1
        /\ UNCHANGED <<trace2, text, verdict, approved, reviews, feedback, finding2, provenance, group2>>
    BY <1>2 DEF InvestigateTrace, case2
  <2>2. attempt' \in Nat \ {0} /\ approved' \subseteq 1..attempt'
    BY <2>1 DEF FindingInv, FindingTyped
  <2>3. FindingTyped'
    BY <2>1, <2>2 DEF FindingInv, FindingTyped, Stage2
  <2> QED
    BY <2>1, <2>2, <2>3 DEF FindingInv, ReviewsInv, SourceInv, OnFileInv, PolicyInv
<1>3. CASE Review
  <2>1. /\ stage2 = "review" /\ stage2' = "routed" /\ reviews' = reviews + 1
        /\ feedback' \in {"APPROVED", "rejected", "empty"}
        /\ approved' = IF feedback' = "APPROVED" THEN approved \cup {attempt} ELSE approved
        /\ UNCHANGED <<trace2, text, verdict, attempt, finding2, provenance, group2>>
    BY <1>3 DEF Review, case2
  <2>2. attempt > 0 /\ reviews < DltMaxReviews /\ DltMaxReviews \in Nat
    BY <2>1, FindingAssumption DEF FindingInv, ReviewsInv
  <2>3. approved' \subseteq 1..attempt /\ reviews' \in 0..DltMaxReviews
    BY <2>1, <2>2 DEF FindingInv, FindingTyped
  <2>4. FindingTyped'
    BY <2>1, <2>3 DEF FindingInv, FindingTyped, Stage2
  <2>5. provenance = "agent"
    BY <2>1 DEF FindingInv, ReviewsInv
  <2> QED
    BY <2>1, <2>2, <2>4, <2>5 DEF FindingInv, ReviewsInv, SourceInv, OnFileInv, PolicyInv
<1>4. CASE CheckApproval
  <2>1. /\ stage2 = "routed"
        /\ stage2' = IF DltReviewDecision = "retry" THEN "investigate" ELSE "synthesise"
        /\ UNCHANGED <<trace2, text, verdict, attempt, approved, reviews, feedback, finding2, provenance,
                       group2>>
    BY <1>4 DEF CheckApproval, case2, loop
  <2>2. stage2' = "investigate" => reviews < DltMaxReviews
    BY <2>1, FindingAssumption DEF DltReviewDecision, FindingInv, FindingTyped
  <2>3. stage2' \in {"investigate", "synthesise"}
    BY <2>1
  <2>4. FindingTyped'
    BY <2>1, <2>3 DEF FindingInv, FindingTyped, Stage2
  <2> QED
    BY <2>1, <2>2, <2>3, <2>4 DEF FindingInv, ReviewsInv, SourceInv, OnFileInv, PolicyInv
<1> QED
  BY <1>1, <1>2, <1>3, <1>4

LEMMA SynthesiseKeeps == FindingInv /\ Synthesise => FindingInv'
<1> SUFFICES ASSUME FindingInv, Synthesise
             PROVE  FindingInv'
  OBVIOUS
<1>1. /\ stage2 \in {"synthesise", "repair"}
      /\ UNCHANGED <<trace2, text, verdict, attempt, approved, reviews, feedback, group2>>
  BY DEF Synthesise, case2
<1>2. attempt > 0 /\ attempt \in Nat /\ (feedback = "APPROVED" => attempt \in approved)
  BY <1>1 DEF FindingInv, FindingTyped, ReviewsInv
<1>3. CASE stage2' = "policy" /\ finding2' \in Replies /\ UNCHANGED provenance
  <2>1. finding2' \in Finding2
    <3>1. Stamp \in {"yes", "no"} /\ BOOLEAN = Flag2
      BY DEF Stamp, Flag2
    <3>2. /\ finding2' \in [action : {"REDRIVE", "OTHER"}, confidence : {-1, 50, 100},
                            discrepancy : Flag2, reviewed : {Stamp}, labels : {{}},
                            identifier : Flag2, from : {attempt}]
      BY <1>3, <3>1 DEF Replies
    <3> QED
      BY <1>2, <3>1, <3>2 DEF Finding2
  <2>2. /\ Written(finding2') /\ finding2'.from = attempt
        /\ finding2'.reviewed = "yes" => feedback = "APPROVED"
    BY <1>2, <1>3 DEF Replies, Stamp, Written
  <2>3. provenance = "agent"
    BY <1>1 DEF FindingInv, ReviewsInv
  <2>4. FindingTyped'
    BY <1>1, <1>3, <2>1 DEF FindingInv, FindingTyped, Stage2
  <2>5. SourceInv'
    BY <1>1, <1>2, <1>3, <2>2, <2>3 DEF SourceInv, Written
  <2> QED
    BY <1>1, <1>3, <2>3, <2>4, <2>5 DEF FindingInv, ReviewsInv, OnFileInv, PolicyInv
<1>4. CASE stage2 = "synthesise" /\ stage2' = "repair" /\ UNCHANGED <<finding2, provenance>>
  BY <1>1, <1>4 DEF FindingInv, FindingTyped, Stage2, ReviewsInv, SourceInv, OnFileInv, PolicyInv
<1>5. CASE /\ stage2' = "policy" /\ provenance' = "failed_synthesis"
           /\ finding2' = [NoFinding EXCEPT !.action = "MANUAL", !.confidence = 0]
  <2>1. ASSUME NEW f \in Finding2, NEW c \in -1..100
        PROVE  LET g == [f EXCEPT !.action = "MANUAL", !.confidence = c]
               IN  g \in Finding2 /\ g.action = "MANUAL"
    BY DEF Finding2
  <2>2. 0 \in -1..100
    OBVIOUS
  <2>3. finding2' \in Finding2 /\ finding2'.action = "MANUAL"
    BY <1>5, <2>1, <2>2, NoFindingIs
  <2>4. FindingTyped'
    BY <1>1, <1>5, <2>3 DEF FindingInv, FindingTyped, Stage2, Provenance2
  <2> QED
    BY <1>1, <1>5, <2>3, <2>4 DEF FindingInv, ReviewsInv, SourceInv, OnFileInv, PolicyInv
<1> QED
  BY <1>3, <1>4, <1>5 DEF Synthesise

LEMMA StopsKeep ==
    ASSUME FindingInv, stage2' \in {"failed", "abandoned"},
           UNCHANGED <<case2, loop, finding2, provenance, group2>>
    PROVE  FindingInv'
  BY DEF FindingInv, FindingTyped, Stage2, ReviewsInv, SourceInv, OnFileInv, PolicyInv, case2, loop

LEMMA PolicyKeeps == FindingInv /\ Policy => FindingInv'
<1> SUFFICES ASSUME FindingInv, Policy
             PROVE  FindingInv'
  OBVIOUS
<1>1. /\ stage2 = "policy" /\ stage2' = "share" /\ finding2' = ApplyPolicy(finding2)
      /\ UNCHANGED <<trace2, text, verdict, attempt, approved, reviews, feedback, provenance, group2>>
  BY DEF Policy, case2, loop
<1> DEFINE g == ApplyPolicy(finding2)
<1>2. /\ g \in Finding2 /\ g.labels = Triggered(g)
      /\ g.from = finding2.from /\ g.reviewed = finding2.reviewed
      /\ g.identifier = finding2.identifier /\ (g.discrepancy => Disagrees(verdict))
      /\ finding2.confidence = -1 => g.confidence = -1
      /\ finding2.action = "MANUAL" => g.action = "MANUAL"
  BY ApplyPolicyIs DEF FindingInv, FindingTyped
<1> HIDE DEF g
<1>3. FindingTyped'
  BY <1>1, <1>2 DEF FindingInv, FindingTyped, Stage2, g
<1>4. SourceInv'
  BY <1>1, <1>2 DEF FindingInv, SourceInv, Written, g
<1>5. PolicyInv'
  <2>1. Triggered(finding2)' = Triggered(finding2')
    BY <1>1 DEF Triggered
  <2>2. Disagrees(verdict)' = Disagrees(verdict)
    BY <1>1
  <2> QED
    BY <1>1, <1>2, <2>1, <2>2 DEF PolicyInv, g
<1> QED
  BY <1>1, <1>2, <1>3, <1>4, <1>5 DEF FindingInv, ReviewsInv, OnFileInv, g

LEMMA ShareKeeps == FindingInv /\ Share => FindingInv'
<1> SUFFICES ASSUME FindingInv, Share
             PROVE  FindingInv'
  OBVIOUS
<1>1. /\ stage2 = "share" /\ stage2' = "judged"
      /\ UNCHANGED <<trace2, text, verdict, attempt, approved, reviews, feedback, finding2, provenance>>
  BY DEF Share, case2, loop
<1>2. group2' = group2 \/ (group2' = finding2 /\ Shareable)
  BY DEF Share
<1>3. FindingTyped'
  BY <1>1, <1>2 DEF FindingInv, FindingTyped, Stage2
<1>4. SourceInv' /\ ReviewsInv'
  BY <1>1 DEF FindingInv, SourceInv, ReviewsInv
<1>5. PolicyInv'
  <2>1. Triggered(finding2)' = Triggered(finding2)
    BY <1>1 DEF Triggered
  <2> QED
    BY <1>1, <2>1 DEF FindingInv, PolicyInv
<1>6. ASSUME Shareable
      PROVE  /\ Written(finding2) /\ ~finding2.identifier /\ ~finding2.discrepancy
             /\ "contradicted" \notin finding2.labels /\ provenance = "agent"
  <2>1. finding2.labels = Triggered(finding2) /\ (finding2.discrepancy => Disagrees(verdict))
    BY <1>1 DEF FindingInv, PolicyInv
  <2>2. "contradicted" \notin Triggered(finding2)
    BY <1>6 DEF Triggered, Shareable, Disagrees
  <2> QED
    BY <1>1, <1>6, <2>1, <2>2 DEF Shareable, FindingInv, SourceInv
<1>7. OnFileInv'
  BY <1>1, <1>2, <1>6 DEF FindingInv, OnFileInv
<1> QED
  BY <1>1, <1>3, <1>4, <1>5, <1>7 DEF FindingInv

LEMMA FindingInvStep == FindingInv /\ [FindingNext]_findingVars => FindingInv'
<1> SUFFICES ASSUME FindingInv, [FindingNext]_findingVars
             PROVE  FindingInv'
  OBVIOUS
<1>1. CASE UNCHANGED findingVars
  <2>1. Triggered(finding2)' = Triggered(finding2)
    BY <1>1 DEF Triggered, findingVars
  <2>2. Reading(text)' = Reading(text)
    BY <1>1 DEF Reading, Scanned, Matched, Unexplained, Attributed, findingVars
  <2> QED
    BY <1>1, <2>1, <2>2 DEF FindingInv, FindingTyped, ReviewsInv, SourceInv, OnFileInv, PolicyInv,
       findingVars
<1>2. CASE DltModelFails \/ AbandonFinding
  BY <1>2, StopsKeep DEF DltModelFails, AbandonFinding
<1> QED
  BY <1>1, <1>2, OccurrenceKeeps, CorroborateKeeps, CannedKeeps, ReuseKeeps, AgentsKeep,
     SynthesiseKeeps, PolicyKeeps, ShareKeeps DEF FindingNext

(* A finding rests on its own occurrence's evidence: neighbours' lines     *)
(* never accuse it, a replay is earned by an approved investigation, a     *)
(* discrepancy is its own, and what is reused is about the failure, for    *)
(* every text, trace, ceiling, decay and threshold.                        *)
THEOREM FindingsAreSound == FindingSpec => []FindingIsSound
<1>1. FindingInv => FindingTypeOK
  BY DEF FindingInv, FindingTyped, FindingTypeOK, Stage2, Verdict2, Finding2
<1>2. FindingInv => NeighboursDoNotAccuse
  <2> SUFFICES ASSUME FindingInv, stage2 = "corroborated", text.kind = "lines"
               PROVE  Disagrees(verdict)
                          <=> Disagrees(Reading([text EXCEPT !.lines = OwnLines(text.lines)]))
    BY DEF NeighboursDoNotAccuse
  <2> DEFINE own == [text EXCEPT !.lines = OwnLines(text.lines)]
  <2>1. text.lines \in Seq(LogLine) /\ verdict = Reading(text)
    BY DEF FindingInv, FindingTyped, LogText
  <2>2. own.kind = "lines" /\ own.lines = OwnLines(text.lines)
    BY DEF FindingInv, FindingTyped, LogText
  <2> HIDE DEF own
  <2>3. Disagrees(Reading(text)) <=> Unexplained(text.lines)
    BY DisagreesIs
  <2>4. Disagrees(Reading(own)) <=> Unexplained(OwnLines(text.lines))
    BY <2>2, DisagreesIs
  <2> QED
    BY <2>1, <2>3, <2>4, OwnLinesAccuse DEF own
<1>3. FindingInv => ReplayEarned
  <2> SUFFICES ASSUME FindingInv, stage2 = "judged", ReplayWorthy(finding2)
               PROVE  /\ finding2.from > 0 /\ finding2.reviewed = "yes"
                      /\ provenance = "agent" => finding2.from \in approved
                      /\ verdict.says # "UNVERIFIABLE"
    BY DEF ReplayEarned
  <2>1. provenance \in {"agent", "group_reuse"}
    BY DEF FindingInv, FindingTyped, Provenance2, SourceInv, ReplayWorthy
  <2>2. Written(finding2) /\ finding2.labels = Triggered(finding2)
    BY <2>1 DEF FindingInv, SourceInv, PolicyInv
  <2>3. finding2.reviewed # "no"
    BY <2>2 DEF ReplayWorthy, Triggered, Labels
  <2>4. verdict.says # "UNVERIFIABLE"
    BY <2>2 DEF ReplayWorthy, Unverified, Triggered, Labels
  <2> QED
    BY <2>1, <2>2, <2>3, <2>4 DEF Written, FindingInv, SourceInv
<1>4. FindingInv => DiscrepancyIsOwn /\ ReuseIsShareable
  BY DEF FindingInv, PolicyInv, OnFileInv, DiscrepancyIsOwn, ReuseIsShareable
<1>5. FindingInv => FindingIsSound
  BY <1>1, <1>2, <1>3, <1>4 DEF FindingIsSound
<1> QED
  BY <1>5, FindingInvInit, FindingInvStep, PTL DEF FindingSpec

=============================================================================
