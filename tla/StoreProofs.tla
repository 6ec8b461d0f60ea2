----------------------------- MODULE StoreProofs -----------------------------
(***************************************************************************)
(* TLAPS proofs about what is stored.  The case store (CaseStore):         *)
(* update_json and create_json keep their promise for any number of        *)
(* processes and calls, on every store.  The pipeline's database           *)
(* (ProcessDb): what the agents are told of it is so, however many lookups *)
(* read it while it is written.                                            *)
(***************************************************************************)
EXTENDS CaseStore, ProcessDb, FiniteSetTheorems, SequenceTheorems, WellFoundedInduction, TLAPS

Form == {"quoted", "bare", "none"}
Doc == [count : Nat, members : Seq(Case4), kept : SUBSET Case4]
CallRecord ==
    [at : {"idle", "create", "load", "put", "lock", "locked"}, case : Case4 \cup {"none"},
     attempt : Nat, etag : Nat, doc : Doc, refused : Nat, forms : Seq(Form), from : Nat]

Typed ==
    /\ endpoint \in Endpoints
    /\ record \in [rev : Nat, valid : BOOLEAN, doc : Doc]
    /\ style \in [Pod -> {"auto", "quoted", "bare"}]
    /\ call \in [Pod -> CallRecord]
    /\ rebuilt \in BOOLEAN

----------------------------------------------------------------------------
(* The document: a case is a member at most once, and until the cap drops  *)
(* members, they are the cases kept and the count is theirs.               *)
Unabridged(doc) ==
    /\ doc.count = Cardinality(doc.kept) /\ Len(doc.members) = Cardinality(doc.kept)
    /\ \A x \in doc.kept : Contains(doc.members, x)
DocInv(doc) ==
    /\ IsFiniteSet(doc.kept)
    /\ Len(doc.members) <= MemberCap
    /\ \A i \in 1..Len(doc.members) : doc.members[i] \in doc.kept
    /\ Cardinality(doc.kept) <= MemberCap => Unabridged(doc)

LEMMA MaxOfTwo ==
    ASSUME NEW a \in Int, NEW b \in Int
    PROVE  Max({a, b}) = IF a >= b THEN a ELSE b
<1>1. CASE a >= b
  <2>1. \A y \in {a, b} : a >= y
    BY <1>1
  <2>2. \A x \in {a, b} : (\A y \in {a, b} : x >= y) => x = a
    BY <1>1
  <2> QED
    BY <1>1, <2>1, <2>2 DEF Max
<1>2. CASE b > a
  <2>1. \A y \in {a, b} : b >= y
    BY <1>2
  <2>2. \A x \in {a, b} : (\A y \in {a, b} : x >= y) => x = b
    BY <1>2
  <2> QED
    BY <1>2, <2>1, <2>2 DEF Max
<1> QED
  BY <1>1, <1>2

LEMMA LastNOf ==
    ASSUME NEW S, NEW s \in Seq(S), NEW n \in Nat \ {0}
    PROVE  /\ LastN(n, s) \in Seq(S)
           /\ Len(LastN(n, s)) <= n
           /\ \A i \in 1..Len(LastN(n, s)) : \E j \in 1..Len(s) : LastN(n, s)[i] = s[j]
           /\ Len(s) <= n => LastN(n, s) = s
<1> DEFINE m == IF 1 >= Len(s) - n + 1 THEN 1 ELSE Len(s) - n + 1
<1>0. Len(s) \in Nat /\ m \in Int /\ m >= 1 /\ m >= Len(s) - n + 1
  OBVIOUS
<1>1. LastN(n, s) = SubSeq(s, m, Len(s))
  <2>1. Len(s) - n + 1 \in Int /\ 1 \in Int
    BY <1>0
  <2>2. Max({1, Len(s) - n + 1}) = m
    BY <2>1, MaxOfTwo
  <2> QED
    BY <2>2 DEF LastN
<1>2. \A i \in m..Len(s) : s[i] \in S
  BY <1>0
<1> HIDE DEF m
<1>3. /\ SubSeq(s, m, Len(s)) \in Seq(S)
      /\ Len(SubSeq(s, m, Len(s))) = IF m <= Len(s) THEN Len(s) - m + 1 ELSE 0
      /\ \A i \in 1..(Len(s) - m + 1) : SubSeq(s, m, Len(s))[i] = s[m + i - 1]
  BY <1>0, <1>2, SubSeqProperties
<1>4. Len(SubSeq(s, m, Len(s))) <= n
  BY <1>0, <1>3
<1>5. ASSUME NEW i \in 1..Len(SubSeq(s, m, Len(s)))
      PROVE  \E j \in 1..Len(s) : SubSeq(s, m, Len(s))[i] = s[j]
  <2>1. i \in 1..(Len(s) - m + 1) /\ m + i - 1 \in 1..Len(s)
    BY <1>0, <1>3
  <2> QED
    BY <2>1, <1>3
<1>6. ASSUME Len(s) <= n PROVE SubSeq(s, m, Len(s)) = s
  <2>1. m = 1
    BY <1>0, <1>6 DEF m
  <2> QED
    BY <2>1, SubSeqFull
<1> QED
  BY <1>1, <1>3, <1>4, <1>5, <1>6

(* What groups.record_occurrence does to a document.                       *)
LEMMA MutateKeeps ==
    ASSUME NEW doc \in Doc, DocInv(doc), NEW case \in Case4
    PROVE  /\ Mutate(doc, case) \in Doc
           /\ DocInv(Mutate(doc, case))
           /\ doc.kept \subseteq Mutate(doc, case).kept
           /\ case \in Mutate(doc, case).kept
<1> DEFINE new == Mutate(doc, case)
           longer == Append(doc.members, case)
<1>0. MemberCap \in Nat \ {0}
  BY StoreAssumption
<1>1. CASE Contains(doc.members, case)
  BY <1>1 DEF Mutate, DocInv, Contains
<1>2. CASE ~Contains(doc.members, case)
  <2>1. /\ new.count = doc.count + 1
        /\ new.members = LastN(MemberCap, longer)
        /\ new.kept = doc.kept \cup {case}
        /\ new = [count |-> new.count, members |-> new.members, kept |-> new.kept]
    BY <1>2 DEF Mutate
  <2> HIDE DEF new
  <2>2. /\ longer \in Seq(Case4) /\ Len(longer) = Len(doc.members) + 1
        /\ \A i \in 1..Len(doc.members) : longer[i] = doc.members[i]
        /\ longer[Len(doc.members) + 1] = case
    BY AppendProperties DEF Doc
  <2>3. /\ LastN(MemberCap, longer) \in Seq(Case4)
        /\ Len(LastN(MemberCap, longer)) <= MemberCap
        /\ \A i \in 1..Len(LastN(MemberCap, longer)) :
              \E j \in 1..Len(longer) : LastN(MemberCap, longer)[i] = longer[j]
        /\ Len(longer) <= MemberCap => LastN(MemberCap, longer) = longer
    BY <1>0, <2>2, LastNOf
  <2>4. new \in Doc
    BY <2>1, <2>3 DEF Doc
  <2>5. /\ IsFiniteSet(new.kept) /\ Cardinality(doc.kept) \in Nat
        /\ Cardinality(new.kept)
             = IF case \in doc.kept THEN Cardinality(doc.kept) ELSE Cardinality(doc.kept) + 1
    <3>1. IsFiniteSet(doc.kept)
      BY DEF DocInv
    <3>2. Cardinality(doc.kept) \in Nat
      BY <3>1, FS_CardinalityType
    <3>3. /\ IsFiniteSet(doc.kept \cup {case})
          /\ Cardinality(doc.kept \cup {case})
               = IF case \in doc.kept THEN Cardinality(doc.kept) ELSE Cardinality(doc.kept) + 1
      BY <3>1, FS_AddElement
    <3>4. new.kept = doc.kept \cup {case}
      BY <2>1
    <3> QED
      BY <3>2, <3>3, <3>4
  <2>6. \A j \in 1..Len(longer) : longer[j] \in new.kept
    <3>1. \A j \in 1..Len(longer) : j = Len(doc.members) + 1 \/ j \in 1..Len(doc.members)
      BY <2>2 DEF Doc
    <3> QED
      BY <3>1, <2>1, <2>2 DEF DocInv
  <2>7. ASSUME Cardinality(new.kept) <= MemberCap
        PROVE  Unabridged(new)
    <3>1. Unabridged(doc)
      BY <2>5, <2>7, <1>0 DEF DocInv
    <3>2. case \notin doc.kept
      BY <3>1, <1>2 DEF Unabridged
    <3>3. new.members = longer /\ Len(new.members) = Cardinality(new.kept)
      BY <3>1, <3>2, <2>1, <2>2, <2>3, <2>5, <2>7 DEF Unabridged
    <3>4. ASSUME NEW x \in new.kept PROVE Contains(longer, x)
      <4>1. CASE x = case
        BY <4>1, <2>2 DEF Contains, Doc
      <4>2. CASE x \in doc.kept
        BY <4>2, <3>1, <2>2 DEF Unabridged, Contains, Doc
      <4> QED
        BY <4>1, <4>2, <2>1
    <3> QED
      BY <3>1, <3>2, <3>3, <3>4, <2>1, <2>5 DEF Unabridged
  <2>8. DocInv(new)
    BY <2>1, <2>3, <2>5, <2>6, <2>7 DEF DocInv
  <2> QED
    BY <2>1, <2>4, <2>8 DEF new
<1> QED
  BY <1>1, <1>2

LEMMA NoDocInv == NoDoc \in Doc /\ DocInv(NoDoc) /\ Len(NoDoc.members) = 0
<1>1. IsFiniteSet({}) /\ Cardinality({}) = 0
  BY FS_EmptySet
<1>2. NoDoc \in Doc
  BY DEF NoDoc, Doc
<1> QED
  BY <1>1, <1>2, StoreAssumption DEF NoDoc, DocInv, Unabridged

----------------------------------------------------------------------------
(* The inductive invariant. *)

RecordInv ==
    /\ record.rev = 0 => record.doc = NoDoc /\ record.valid
    /\ ~rebuilt => record.valid
    /\ DocInv(record.doc)

(* A process has latched a form the store takes, or none.                  *)
StyleInv ==
    \A p \in Pod : \/ style[p] = endpoint.pinned
                   \/ endpoint.pinned = "auto" /\ style[p] \in endpoint.accepts

(* A tag in hand that is still the record's names the document in hand.    *)
ReadIsCurrent(c) ==
    /\ c.at = "put" /\ c.etag = record.rev => c.doc = Readable
    /\ c.at = "locked" /\ ~rebuilt => c.doc = record.doc

(* A round that has run out of forms, or a call that begins another, has   *)
(* been overtaken by a write: where the store takes a form, it is for that *)
(* reason only.                                                            *)
Overtaken(c) ==
    /\ c.at = "load" => /\ c.from + c.attempt <= record.rev
                        /\ c.refused = 0 \/ c.refused < record.rev
    /\ c.at = "put" =>
         /\ c.from + c.attempt <= c.etag
         /\ c.refused = 0 \/ c.refused < c.etag
         /\ c.etag = record.rev =>
               \E i \in 1..Len(c.forms) : c.forms[i] \in endpoint.accepts \cup {"none"}

CallInv(c) ==
    /\ c.at \in {"load", "put"} => S3
    /\ c.at \in {"lock", "locked"} => ~S3
    /\ c.at \notin {"idle", "create"} => c.case \in Case4
    /\ c.attempt < MaxAttempts4 /\ c.from <= record.rev /\ c.etag <= record.rev
    /\ DocInv(c.doc)
    /\ ReadIsCurrent(c)
    /\ CanOverwrite => Overtaken(c)

CallsInv == \A p \in Pod : CallInv(call[p])
OneLocker == \A p, q \in Pod : At4(p, "locked") /\ At4(q, "locked") => p = q
EndedInv == UpdatesKept /\ UnsupportedIsTrue /\ GivesUpForCause
MadeInv == made = {} \/ \E p \in Pod : made = {p}

StoreInv ==
    Typed /\ RecordInv /\ StyleInv /\ CallsInv /\ OneLocker /\ EndedInv /\ MadeInv

LEMMA EndpointTyped ==
    ASSUME Typed
    PROVE  /\ endpoint.backend \in {"s3", "local"}
           /\ endpoint.accepts \in SUBSET {"quoted", "bare"}
           /\ endpoint.pinned \in {"auto", "quoted", "bare"}
BY StoreAssumption DEF Typed

LEMMA NoCallInv ==
    ASSUME Typed
    PROVE  /\ NoCall \in CallRecord /\ NoCall.at = "idle"
           /\ CallInv(NoCall)
<1>1. NoCall \in CallRecord
  BY NoDocInv DEF NoCall, CallRecord
<1>2. record.rev \in Nat /\ MaxAttempts4 \in Nat \ {0}
  BY StoreAssumption DEF Typed
<1> QED
  BY <1>1, <1>2, NoDocInv DEF NoCall, CallInv, ReadIsCurrent, Overtaken

LEMMA StoreInvInit == StoreInit => StoreInv
<1> SUFFICES ASSUME StoreInit PROVE StoreInv
  OBVIOUS
<1>1. record.rev = 0 /\ record.doc = NoDoc
  BY DEF StoreInit
<1>2. record \in [rev : Nat, valid : BOOLEAN, doc : Doc]
  BY NoDocInv DEF StoreInit
<1>3. record.valid = TRUE
  BY DEF StoreInit
<1>4. rebuilt \in BOOLEAN
  BY DEF StoreInit
<1>5. NoCall \in CallRecord
  BY NoDocInv DEF NoCall, CallRecord
<1>6. endpoint \in Endpoints /\ call \in [Pod -> CallRecord] /\ \A p \in Pod : call[p] = NoCall
  BY <1>5 DEF StoreInit
<1>7. endpoint.pinned \in {"auto", "quoted", "bare"}
  BY <1>6, StoreAssumption
<1>8. style \in [Pod -> {"auto", "quoted", "bare"}] /\ StyleInv
  BY <1>7 DEF StoreInit, StyleInv
<1>9. Typed
  BY <1>2, <1>4, <1>6, <1>8 DEF Typed
<1>10. RecordInv
  BY <1>1, <1>3, NoDocInv DEF RecordInv
<1>11. CallsInv /\ OneLocker
  BY <1>6, <1>9, NoCallInv DEF CallsInv, OneLocker, At4
<1>12. EndedInv /\ MadeInv
  BY DEF StoreInit, EndedInv, UpdatesKept, UnsupportedIsTrue, GivesUpForCause, MadeInv
<1> QED
  BY <1>8, <1>9, <1>10, <1>11, <1>12 DEF StoreInv

----------------------------------------------------------------------------
(* What a step of one process leaves to the others. *)

(* The record is as it was or one revision further, which only the holder  *)
(* of the lock sees to on a disk, unless something corrupts it.            *)
Moves(others) ==
    /\ endpoint' = endpoint
    /\ rebuilt => rebuilt'
    /\ \/ record' = record /\ rebuilt' = rebuilt
       \/ /\ record'.rev = record.rev + 1
          /\ rebuilt' \/ \A q \in others : ~At4(q, "locked")

LEMMA OthersKeep ==
    ASSUME Typed, NEW others, Moves(others), NEW q \in others \cap Pod, CallInv(call[q]),
           call'[q] = call[q]
    PROVE  CallInv(call[q])'
<1>1. /\ record.rev \in Nat /\ call[q] \in CallRecord /\ endpoint' = endpoint
      /\ call'[q] = call[q]
  BY DEF Typed, Moves
<1>2. CASE record' = record /\ rebuilt' = rebuilt
  BY <1>1, <1>2 DEF CallInv, ReadIsCurrent, Overtaken, Readable, S3, CanOverwrite
<1>3. CASE record'.rev = record.rev + 1 /\ (rebuilt' \/ ~At4(q, "locked"))
  <2>1. ReadIsCurrent(call[q])'
    BY <1>1, <1>3 DEF ReadIsCurrent, CallInv, CallRecord, At4
  <2>2. CanOverwrite' => Overtaken(call[q])'
    BY <1>1, <1>3 DEF Overtaken, CallInv, CallRecord, CanOverwrite
  <2> QED
    BY <1>1, <1>3, <2>1, <2>2 DEF CallInv, CallRecord, S3
<1> QED
  BY <1>2, <1>3 DEF Moves

(* A step of process p that keeps the invariant of its own call and takes  *)
(* the lock only when nobody holds it.                                     *)
LEMMA CallMoves ==
    ASSUME Typed, CallsInv, OneLocker, NEW p \in Pod, NEW r, Moves(Pod \ {p}),
           call' = [call EXCEPT ![p] = r], r \in CallRecord,
           r.at = "locked" => \A q \in Pod : ~At4(q, "locked"),
           CallInv(call[p])'
    PROVE  CallsInv' /\ OneLocker' /\ call' \in [Pod -> CallRecord]
<1>1. call'[p] = r /\ \A q \in Pod \ {p} : call'[q] = call[q]
  BY DEF Typed
<1>2. \A q \in Pod : CallInv(call[q])'
  <2>1. ASSUME NEW q \in Pod \ {p} PROVE CallInv(call[q])'
    BY <2>1, <1>1, OthersKeep DEF CallsInv
  <2> QED
    BY <2>1
<1>3. OneLocker'
  BY <1>1 DEF OneLocker, At4
<1>4. call' \in [Pod -> CallRecord]
  BY DEF Typed
<1> QED
  BY <1>2, <1>3, <1>4 DEF CallsInv

(* A call that ends says what is so. *)
LEMMA EndsTruly ==
    ASSUME StoreInv, NEW p \in Pod, NEW how, Moves(Pod \ {p}), Typed', Ends4(p, how),
           rebuilt' \/ record.doc.kept \subseteq record'.doc.kept,
           how = "updated" => rebuilt' \/ call[p].case \in record'.doc.kept,
           how = "unsupported" => ~CanOverwrite,
           how = "exhausted" => (CanOverwrite => record.rev - call[p].from >= MaxAttempts4)
    PROVE  CallsInv' /\ OneLocker' /\ EndedInv'
<1>1. call'[p] = NoCall /\ NoCall \in CallRecord /\ NoCall.at # "locked" /\ CallInv(NoCall)'
  <2>1. CallInv(NoCall)'
    BY NoCallInv, PTL
  <2> QED
    BY <2>1, NoCallInv DEF Ends4, StoreInv, Typed
<1>2. CallsInv' /\ OneLocker'
  <2>1. CallInv(call[p])'
    BY <1>1 DEF CallInv, ReadIsCurrent, Overtaken
  <2> QED
    BY <1>1, <2>1, CallMoves DEF Ends4, StoreInv
<1>3. endpoint' = endpoint /\ (rebuilt => rebuilt')
  BY DEF Moves
<1>4. EndedInv'
  <2> DEFINE new == [case |-> call[p].case, how |-> how, lost |-> record.rev - call[p].from]
  <2>1. ended4' = ended4 \cup {new}
    BY DEF Ends4
  <2>2. CanOverwrite' = CanOverwrite
    BY <1>3 DEF CanOverwrite
  <2>3. UpdatesKept'
    BY <1>3, <2>1 DEF StoreInv, EndedInv, UpdatesKept
  <2>4. UnsupportedIsTrue' /\ GivesUpForCause'
    BY <2>1, <2>2 DEF StoreInv, EndedInv, UnsupportedIsTrue, GivesUpForCause
  <2> QED
    BY <2>3, <2>4 DEF EndedInv
<1> QED
  BY <1>2, <1>4

(* A write of update_json keeps what the record has and adds the case's    *)
(* update: the document it began from is the one it replaces.              *)
LEMMA WriteKeeps ==
    ASSUME StoreInv, NEW p \in Pod, call[p].at \in {"put", "locked"},
           At4(p, "put") => call[p].etag = record.rev,
           Write(Mutate(call[p].doc, call[p].case)), UNCHANGED <<endpoint, rebuilt>>
    PROVE  /\ record' \in [rev : Nat, valid : BOOLEAN, doc : Doc]
           /\ RecordInv' /\ Moves(Pod \ {p})
           /\ rebuilt' \/ record.doc.kept \subseteq record'.doc.kept
           /\ call[p].case \in record'.doc.kept
<1> DEFINE new == Mutate(call[p].doc, call[p].case)
<1>1. /\ call[p].doc \in Doc /\ DocInv(call[p].doc) /\ call[p].case \in Case4
      /\ record.rev \in Nat
  BY DEF StoreInv, Typed, CallsInv, CallInv, CallRecord
<1>2. /\ new \in Doc /\ DocInv(new) /\ call[p].doc.kept \subseteq new.kept
      /\ call[p].case \in new.kept
  BY <1>1, MutateKeeps
<1> HIDE DEF new
<1>3. record'.rev = record.rev + 1 /\ record'.doc = new
  BY DEF Write, new
<1>4. record'.valid = TRUE
  BY DEF Write
<1>5. record' \in [rev : Nat, valid : BOOLEAN, doc : Doc]
  BY <1>1, <1>2 DEF Write, new
<1>6. RecordInv'
  BY <1>1, <1>2, <1>3, <1>4 DEF RecordInv
<1>7. ASSUME ~rebuilt PROVE call[p].doc = record.doc
  BY <1>7 DEF StoreInv, RecordInv, CallsInv, CallInv, ReadIsCurrent, Readable, At4
<1>8. Moves(Pod \ {p})
  <2>1. \A q \in Pod \ {p} : ~At4(q, "locked")
    BY DEF StoreInv, OneLocker, CallsInv, CallInv, At4
  <2> QED
    BY <1>3, <2>1 DEF Moves
<1> QED
  BY <1>2, <1>3, <1>5, <1>6, <1>7, <1>8

(* A step that leaves the record alone moves nothing for anyone. *)
LEMMA NoWriteKeeps ==
    ASSUME StoreInv, NEW others, UNCHANGED <<endpoint, record, rebuilt>>
    PROVE  Moves(others) /\ RecordInv' /\ record' \in [rev : Nat, valid : BOOLEAN, doc : Doc]
BY DEF StoreInv, Typed, RecordInv, Moves

LEMMA FormsOf ==
    ASSUME StoreInv, NEW p \in Pod
    PROVE  /\ Forms(p) \in Seq(Form)
           /\ CanOverwrite => \E i \in 1..Len(Forms(p)) : Forms(p)[i] \in endpoint.accepts
<1>1. /\ style[p] \in {"auto", "quoted", "bare"}
      /\ \/ style[p] = endpoint.pinned
         \/ endpoint.pinned = "auto" /\ style[p] \in endpoint.accepts
      /\ endpoint.accepts \in SUBSET {"quoted", "bare"}
  BY EndpointTyped DEF StoreInv, Typed, StyleInv
<1>2. CASE style[p] = "auto"
  <2>1. Forms(p) = <<"quoted", "bare">>
    BY <1>2 DEF Forms
  <2>2. CanOverwrite => "quoted" \in endpoint.accepts \/ "bare" \in endpoint.accepts
    BY <1>1, <1>2 DEF CanOverwrite
  <2> QED
    BY <2>1, <2>2 DEF Form
<1>3. CASE style[p] # "auto"
  <2>1. Forms(p) = <<style[p]>>
    BY <1>3 DEF Forms
  <2>2. CanOverwrite => style[p] \in endpoint.accepts
    BY <1>1, <1>3 DEF CanOverwrite
  <2> QED
    BY <2>1, <2>2, <1>1, <1>3 DEF Form
<1> QED
  BY <1>2, <1>3

----------------------------------------------------------------------------
(* The steps. *)

LEMMA CorruptKeeps ==
    ASSUME StoreInv, Corrupt
    PROVE  StoreInv'
<1>1. /\ record'.rev = record.rev + 1 /\ record'.doc = record.doc
      /\ record' \in [rev : Nat, valid : BOOLEAN, doc : Doc] /\ record.rev \in Nat
  <2>1. record \in [rev : Nat, valid : BOOLEAN, doc : Doc]
    BY DEF StoreInv, Typed
  <2>2. record' = [record EXCEPT !.rev = @ + 1, !.valid = FALSE]
    BY DEF Corrupt
  <2>3. /\ record'.rev = record.rev + 1 /\ record'.doc = record.doc
        /\ record.rev \in Nat
    BY <2>1, <2>2
  <2>4. record' \in [rev : Nat, valid : BOOLEAN, doc : Doc]
    <3>1. ASSUME NEW r \in [rev : Nat, valid : BOOLEAN, doc : Doc], NEW n \in Nat,
                 NEW b \in BOOLEAN
          PROVE  [r EXCEPT !.rev = n, !.valid = b] \in [rev : Nat, valid : BOOLEAN, doc : Doc]
      OBVIOUS
    <3>2. record.rev + 1 \in Nat /\ FALSE \in BOOLEAN
      BY <2>3
    <3> QED
      BY <2>1, <2>2, <3>1, <3>2, Zenon
  <2> QED
    BY <2>3, <2>4
<1>2. rebuilt' = TRUE
  BY DEF Corrupt
<1>3. rebuilt' \in BOOLEAN
  BY <1>2
<1>4. Typed'
  BY <1>1, <1>3 DEF Corrupt, StoreInv, Typed
<1>5. RecordInv'
  BY <1>1, <1>2 DEF StoreInv, RecordInv
<1>6. Moves(Pod)
  BY <1>1, <1>2 DEF Corrupt, Moves
<1>7. CallsInv'
  BY <1>6, OthersKeep DEF Corrupt, StoreInv, CallsInv
<1>8. OneLocker' /\ StyleInv' /\ MadeInv'
  BY DEF Corrupt, StoreInv, OneLocker, At4, StyleInv, MadeInv
<1>9. EndedInv'
  BY <1>2 DEF Corrupt, StoreInv, EndedInv, UpdatesKept, UnsupportedIsTrue, GivesUpForCause,
              CanOverwrite
<1> QED
  BY <1>4, <1>5, <1>7, <1>8, <1>9 DEF StoreInv

LEMMA ProbeKeeps ==
    ASSUME StoreInv, NEW p \in Pod, Probe(p)
    PROVE  StoreInv'
<1>1. endpoint.accepts \in SUBSET {"quoted", "bare"} /\ endpoint.accepts # {}
  BY EndpointTyped DEF Probe, StoreInv
<1>2. Typed' /\ StyleInv'
  BY <1>1 DEF Probe, StoreInv, Typed, StyleInv
<1>3. RecordInv' /\ Moves(Pod)
  BY NoWriteKeeps DEF Probe
<1>4. CallsInv'
  BY <1>3, OthersKeep DEF Probe, StoreInv, CallsInv
<1>5. OneLocker' /\ EndedInv' /\ MadeInv'
  BY DEF Probe, StoreInv, OneLocker, At4, MadeInv, EndedInv, UpdatesKept, UnsupportedIsTrue,
         GivesUpForCause, CanOverwrite
<1> QED
  BY <1>2, <1>3, <1>4, <1>5 DEF StoreInv

(* A step of one call that writes nothing and ends nothing. *)
LEMMA CallKeeps ==
    ASSUME StoreInv, NEW p \in Pod, NEW r \in CallRecord, call' = [call EXCEPT ![p] = r],
           UNCHANGED <<endpoint, record, made, style, ended4, rebuilt>>, CallInv(r),
           r.at = "locked" => \A q \in Pod : ~At4(q, "locked")
    PROVE  StoreInv'
<1>1. RecordInv' /\ Moves(Pod \ {p})
  BY NoWriteKeeps
<1>2. CallInv(call[p])'
  <2>1. call'[p] = r
    BY DEF StoreInv, Typed
  <2> QED
    BY <2>1 DEF CallInv, ReadIsCurrent, Overtaken, Readable, S3, CanOverwrite
<1>3. CallsInv' /\ OneLocker' /\ call' \in [Pod -> CallRecord]
  BY <1>1, <1>2, CallMoves DEF StoreInv
<1>4. Typed'
  BY <1>3 DEF StoreInv, Typed
<1>5. StyleInv' /\ MadeInv' /\ EndedInv'
  BY DEF StoreInv, StyleInv, MadeInv, EndedInv, UpdatesKept, UnsupportedIsTrue,
         GivesUpForCause, CanOverwrite
<1> QED
  BY <1>1, <1>3, <1>4, <1>5 DEF StoreInv

(* A call that ends and writes nothing. *)
LEMMA EndKeeps ==
    ASSUME StoreInv, NEW p \in Pod, NEW how, Ends4(p, how), how # "updated",
           how = "unsupported" => ~CanOverwrite,
           how = "exhausted" => (CanOverwrite => record.rev - call[p].from >= MaxAttempts4),
           UNCHANGED <<endpoint, record, style, rebuilt>>, MadeInv'
    PROVE  StoreInv'
<1>1. RecordInv' /\ Moves(Pod \ {p})
  BY NoWriteKeeps
<1>2. call' \in [Pod -> CallRecord]
  <2>1. NoCall \in CallRecord
    BY NoCallInv DEF StoreInv
  <2> QED
    BY <2>1 DEF Ends4, StoreInv, Typed
<1>3. Typed' /\ StyleInv'
  BY <1>2 DEF StoreInv, Typed, StyleInv
<1>4. CallsInv' /\ OneLocker' /\ EndedInv'
  BY <1>1, <1>3, EndsTruly
<1> QED
  BY <1>1, <1>3, <1>4 DEF StoreInv

(* A call that ends with its write. *)
LEMMA WriteEndKeeps ==
    ASSUME StoreInv, NEW p \in Pod, call[p].at \in {"put", "locked"},
           At4(p, "put") => call[p].etag = record.rev,
           Write(Mutate(call[p].doc, call[p].case)), NEW how \in {"updated", "raised"},
           Ends4(p, how), UNCHANGED <<endpoint, rebuilt, made>>,
           style' \in [Pod -> {"auto", "quoted", "bare"}], StyleInv'
    PROVE  StoreInv'
<1>1. /\ record' \in [rev : Nat, valid : BOOLEAN, doc : Doc]
      /\ RecordInv' /\ Moves(Pod \ {p})
      /\ rebuilt' \/ record.doc.kept \subseteq record'.doc.kept
      /\ call[p].case \in record'.doc.kept
  BY WriteKeeps
<1>2. call' \in [Pod -> CallRecord]
  <2>1. NoCall \in CallRecord
    BY NoCallInv DEF StoreInv
  <2> QED
    BY <2>1 DEF Ends4, StoreInv, Typed
<1>3. Typed'
  BY <1>1, <1>2 DEF StoreInv, Typed
<1>4. CallsInv' /\ OneLocker' /\ EndedInv'
  BY <1>1, <1>3, EndsTruly
<1>5. MadeInv'
  BY DEF StoreInv, MadeInv
<1> QED
  BY <1>1, <1>3, <1>4, <1>5 DEF StoreInv

LEMMA BeginKeeps ==
    ASSUME StoreInv, NEW p \in Pod, NEW op, NEW case \in Case4 \cup {"none"}, Begin4(p, op, case),
           op # "create" => case \in Case4
    PROVE  StoreInv'
<1> DEFINE r == [NoCall EXCEPT !.case = case, !.from = record.rev,
                    !.at = IF op = "create" THEN "create" ELSE IF S3 THEN "load" ELSE "lock"]
<1>1. NoCall \in CallRecord /\ record.rev \in Nat /\ CallInv(NoCall)
  BY NoCallInv DEF StoreInv, Typed
<1>2. r \in CallRecord
  BY <1>1 DEF CallRecord
<1>3. /\ r.case = case /\ r.from = record.rev /\ r.doc = NoDoc
      /\ r.at = IF op = "create" THEN "create" ELSE IF S3 THEN "load" ELSE "lock"
      /\ r.attempt = 0 /\ r.refused = 0 /\ r.etag = 0
  BY DEF NoCall
<1> HIDE DEF r
<1>4. CallInv(r)
  BY <1>1, <1>3, NoDocInv, StoreAssumption DEF CallInv, ReadIsCurrent, Overtaken
<1>5. call' = [call EXCEPT ![p] = r] /\ UNCHANGED <<endpoint, record, made, style, ended4, rebuilt>>
  BY DEF Begin4, r
<1> QED
  BY <1>2, <1>3, <1>4, <1>5, CallKeeps

LEMMA LoadKeeps ==
    ASSUME StoreInv, NEW p \in Pod, LoadWithEtag(p)
    PROVE  StoreInv'
<1> DEFINE forms == IF record.rev = 0 THEN <<"none">> ELSE Forms(p)
           r == [call[p] EXCEPT !.at = "put", !.etag = record.rev, !.doc = Readable, !.forms = forms]
<1>1. /\ call[p] \in CallRecord /\ record.rev \in Nat /\ CallInv(call[p]) /\ call[p].at = "load"
      /\ Readable \in Doc /\ DocInv(Readable)
  BY NoDocInv DEF StoreInv, Typed, CallsInv, RecordInv, Readable, LoadWithEtag, At4
<1>2. /\ forms \in Seq(Form)
      /\ CanOverwrite =>
            \E i \in 1..Len(forms) : forms[i] \in endpoint.accepts \cup {"none"}
  <2>1. CASE record.rev = 0
    BY <2>1 DEF Form
  <2>2. CASE record.rev # 0
    BY <2>2, FormsOf
  <2> QED
    BY <2>1, <2>2
<1>3. call' = [call EXCEPT ![p] = r] /\ UNCHANGED <<endpoint, record, made, style, ended4, rebuilt>>
  BY DEF LoadWithEtag
<1> HIDE DEF forms
<1>4. /\ r.at = "put" /\ r.etag = record.rev /\ r.doc = Readable /\ r.forms = forms
      /\ r.case = call[p].case /\ r.attempt = call[p].attempt /\ r.refused = call[p].refused
      /\ r.from = call[p].from /\ r \in CallRecord
  BY <1>1, <1>2 DEF CallRecord
<1> HIDE DEF r
<1>5. CallInv(r)
  <2>1. ReadIsCurrent(r)
    BY <1>4 DEF ReadIsCurrent
  <2>2. CanOverwrite => Overtaken(r)
    BY <1>1, <1>2, <1>4 DEF Overtaken, CallInv
  <2> QED
    BY <1>1, <1>4, <2>1, <2>2 DEF CallInv
<1> QED
  BY <1>3, <1>4, <1>5, CallKeeps

LEMMA LatchKeeps ==
    ASSUME StoreInv, NEW p \in Pod, Latch(p), call[p].forms # <<>>, Accepted(p),
           UNCHANGED endpoint
    PROVE  style' \in [Pod -> {"auto", "quoted", "bare"}] /\ StyleInv'
<1>1. /\ style \in [Pod -> {"auto", "quoted", "bare"}] /\ StyleInv
      /\ endpoint.accepts \in SUBSET {"quoted", "bare"}
  BY EndpointTyped DEF StoreInv, Typed
<1>2. CASE style[p] = "auto" /\ Head(call[p].forms) # "none"
  <2>1. Head(call[p].forms) \in endpoint.accepts /\ endpoint.pinned = "auto"
    BY <1>1, <1>2 DEF Accepted, StyleInv
  <2>2. style' = [style EXCEPT ![p] = Head(call[p].forms)]
    BY <1>2 DEF Latch
  <2> QED
    BY <1>1, <2>1, <2>2 DEF StyleInv
<1>3. CASE ~(style[p] = "auto" /\ Head(call[p].forms) # "none")
  <2>1. style' = style
    BY <1>3 DEF Latch
  <2> QED
    BY <1>1, <2>1 DEF StyleInv
<1> QED
  BY <1>2, <1>3

LEMMA PutLandsKeeps ==
    ASSUME StoreInv, NEW p \in Pod, PutLands(p)
    PROVE  StoreInv'
<1>1. style' \in [Pod -> {"auto", "quoted", "bare"}] /\ StyleInv'
  BY LatchKeeps DEF PutLands
<1> QED
  BY <1>1, WriteEndKeeps DEF PutLands, At4, Accepted

LEMMA TailOfForms ==
    ASSUME NEW forms \in Seq(Form), forms # <<>>
    PROVE  /\ Tail(forms) \in Seq(Form)
           /\ \A taken : Head(forms) \notin taken /\ (\E i \in 1..Len(forms) : forms[i] \in taken)
                 => \E i \in 1..Len(Tail(forms)) : Tail(forms)[i] \in taken
<1>1. /\ Tail(forms) \in Seq(Form) /\ Len(Tail(forms)) = Len(forms) - 1
      /\ \A i \in 1..Len(Tail(forms)) : Tail(forms)[i] = forms[i + 1]
      /\ Head(forms) = forms[1] /\ Len(forms) \in Nat
  BY HeadTailProperties
<1>2. ASSUME NEW taken, Head(forms) \notin taken, NEW i \in 1..Len(forms), forms[i] \in taken
      PROVE  \E j \in 1..Len(Tail(forms)) : Tail(forms)[j] \in taken
  <2>1. i - 1 \in 1..Len(Tail(forms)) /\ (i - 1) + 1 = i
    BY <1>1, <1>2
  <2>2. Tail(forms)[i - 1] = forms[i]
    BY <1>1, <2>1
  <2> QED
    BY <1>2, <2>1, <2>2
<1> QED
  BY <1>1, <1>2

(* The record with its next form tried. *)
LEMMA NextForm ==
    ASSUME StoreInv, NEW p \in Pod, At4(p, "put"), call[p].forms # <<>>
    PROVE  LET r == [call[p] EXCEPT !.forms = Tail(@)] IN
           /\ r \in CallRecord /\ r.forms = Tail(call[p].forms)
           /\ r.at = "put" /\ r.etag = call[p].etag /\ r.doc = call[p].doc
           /\ r.case = call[p].case /\ r.attempt = call[p].attempt
           /\ r.refused = call[p].refused /\ r.from = call[p].from
<1>1. call[p] \in CallRecord
  BY DEF StoreInv, Typed
<1>2. Tail(call[p].forms) \in Seq(Form)
  BY <1>1, TailOfForms DEF CallRecord
<1> QED
  BY <1>1, <1>2 DEF CallRecord, At4

LEMMA PutLandsUnansweredKeeps ==
    ASSUME StoreInv, NEW p \in Pod, PutLandsUnanswered(p)
    PROVE  StoreInv'
<1> DEFINE r == [call[p] EXCEPT !.forms = Tail(@)]
<1>1. /\ At4(p, "put") /\ call[p].forms # <<>> /\ call[p].etag = record.rev
      /\ Write(Mutate(call[p].doc, call[p].case))
      /\ UNCHANGED <<endpoint, made, style, rebuilt>>
  BY DEF PutLandsUnanswered, Accepted
<1>2. CASE Ends4(p, "raised")
  <2>1. style' \in [Pod -> {"auto", "quoted", "bare"}] /\ StyleInv'
    BY <1>1 DEF StoreInv, Typed, StyleInv
  <2> QED
    BY <1>1, <1>2, <2>1, WriteEndKeeps DEF At4
<1>3. CASE call' = [call EXCEPT ![p] = r] /\ UNCHANGED ended4
  <2>1. /\ record' \in [rev : Nat, valid : BOOLEAN, doc : Doc]
        /\ RecordInv' /\ Moves(Pod \ {p})
        /\ rebuilt' \/ record.doc.kept \subseteq record'.doc.kept
    BY <1>1, WriteKeeps DEF At4
  <2>2. /\ r \in CallRecord /\ r.at = "put" /\ r.etag = call[p].etag /\ r.doc = call[p].doc
        /\ r.case = call[p].case /\ r.attempt = call[p].attempt
        /\ r.refused = call[p].refused /\ r.from = call[p].from
    BY <1>1, NextForm
  <2> HIDE DEF r
  <2>3. call'[p] = r /\ CallInv(call[p]) /\ record.rev \in Nat /\ record'.rev = record.rev + 1
    BY <1>1, <1>3 DEF StoreInv, Typed, CallsInv, Write
  <2>4. CallInv(call[p])'
    <3>1. ReadIsCurrent(call[p])'
      BY <1>1, <2>2, <2>3 DEF ReadIsCurrent
    <3>2. CanOverwrite' => Overtaken(call[p])'
      BY <1>1, <2>2, <2>3 DEF Overtaken, CallInv, CanOverwrite, At4
    <3> QED
      BY <1>1, <2>2, <2>3, <3>1, <3>2 DEF CallInv, S3, CallRecord, At4
  <2>5. CallsInv' /\ OneLocker' /\ call' \in [Pod -> CallRecord]
    BY <1>3, <2>1, <2>2, <2>4, CallMoves DEF StoreInv
  <2>6. Typed' /\ StyleInv' /\ MadeInv'
    BY <1>1, <2>1, <2>5 DEF StoreInv, Typed, StyleInv, MadeInv
  <2>7. EndedInv'
    BY <1>1, <1>3, <2>1
       DEF StoreInv, EndedInv, UpdatesKept, UnsupportedIsTrue, GivesUpForCause, CanOverwrite
  <2> QED
    BY <2>1, <2>5, <2>6, <2>7 DEF StoreInv
<1> QED
  BY <1>2, <1>3 DEF PutLandsUnanswered

LEMMA PutRefusedKeeps ==
    ASSUME StoreInv, NEW p \in Pod, PutRefused(p)
    PROVE  StoreInv'
<1> DEFINE r == [call[p] EXCEPT !.forms = Tail(@)]
<1>1. /\ At4(p, "put") /\ call[p].forms # <<>> /\ ~Accepted(p)
      /\ call' = [call EXCEPT ![p] = r]
      /\ UNCHANGED <<endpoint, record, made, style, ended4, rebuilt>>
  BY DEF PutRefused
<1>2. /\ r \in CallRecord /\ r.at = "put" /\ r.etag = call[p].etag /\ r.doc = call[p].doc
      /\ r.case = call[p].case /\ r.attempt = call[p].attempt
      /\ r.refused = call[p].refused /\ r.from = call[p].from
      /\ r.forms = Tail(call[p].forms)
  BY <1>1, NextForm
<1> HIDE DEF r
<1>3. CallInv(call[p]) /\ call[p].at = "put" /\ call[p].forms \in Seq(Form)
  BY <1>1 DEF StoreInv, Typed, CallsInv, At4, CallRecord
<1>4. CallInv(r)
  <2>1. ReadIsCurrent(r)
    BY <1>2, <1>3 DEF ReadIsCurrent, CallInv
  <2>2. ASSUME CanOverwrite PROVE Overtaken(r)
    <3>1. Overtaken(call[p])
      BY <1>3, <2>2 DEF CallInv
    <3>2. ASSUME call[p].etag = record.rev
          PROVE  \E i \in 1..Len(r.forms) : r.forms[i] \in endpoint.accepts \cup {"none"}
      <4>1. Head(call[p].forms) \notin endpoint.accepts \cup {"none"}
        BY <1>1, <3>2 DEF Accepted
      <4>2. \E i \in 1..Len(call[p].forms) :
                call[p].forms[i] \in endpoint.accepts \cup {"none"}
        BY <1>3, <3>1, <3>2 DEF Overtaken
      <4> QED
        BY <1>1, <1>2, <1>3, <4>1, <4>2, TailOfForms
    <3> QED
      BY <1>2, <1>3, <3>1, <3>2 DEF Overtaken
  <2> QED
    BY <1>2, <1>3, <2>1, <2>2 DEF CallInv
<1> QED
  BY <1>1, <1>2, <1>4, CallKeeps

LEMMA NextAttemptKeeps ==
    ASSUME StoreInv, NEW p \in Pod, NextAttempt(p)
    PROVE  StoreInv'
<1> DEFINE r == [call[p] EXCEPT !.at = "load", !.attempt = @ + 1, !.refused = call[p].etag,
                                !.doc = NoDoc]
<1>1. /\ call[p].at = "put" /\ call[p].forms = <<>>
      /\ UNCHANGED <<endpoint, record, made, style, rebuilt>>
  BY DEF NextAttempt, At4
<1>2. call[p] \in CallRecord /\ CallInv(call[p]) /\ record.rev \in Nat
  BY DEF StoreInv, Typed, CallsInv
<1>3. ASSUME CanOverwrite
      PROVE  /\ call[p].from + call[p].attempt + 1 <= record.rev
             /\ call[p].etag < record.rev
             /\ call[p].refused = 0 \/ call[p].refused < call[p].etag
  <2>1. Overtaken(call[p])
    BY <1>2, <1>3 DEF CallInv
  <2>2. call[p].etag # record.rev
    BY <1>1, <2>1 DEF Overtaken
  <2>3. /\ call[p].from \in Nat /\ call[p].attempt \in Nat /\ call[p].etag \in Nat
        /\ call[p].etag <= record.rev
        /\ call[p].from + call[p].attempt <= call[p].etag
        /\ call[p].refused = 0 \/ call[p].refused < call[p].etag
    BY <1>1, <1>2, <2>1 DEF Overtaken, CallInv, CallRecord
  <2> QED
    BY <1>2, <2>2, <2>3
<1>4. MadeInv'
  BY <1>1 DEF StoreInv, MadeInv
<1>5. CASE Unsupported(p) /\ Ends4(p, "unsupported")
  <2>1. ~CanOverwrite
    BY <1>2, <1>3, <1>5 DEF Unsupported, CallRecord
  <2> QED
    BY <1>1, <1>4, <1>5, <2>1, EndKeeps
<1>6. CASE call[p].attempt + 1 = MaxAttempts4 /\ Ends4(p, "exhausted")
  <2>1. CanOverwrite => record.rev - call[p].from >= MaxAttempts4
    BY <1>2, <1>3, <1>6 DEF CallRecord
  <2> QED
    BY <1>1, <1>4, <1>6, <2>1, EndKeeps
<1>7. CASE call[p].attempt + 1 < MaxAttempts4 /\ call' = [call EXCEPT ![p] = r] /\ UNCHANGED ended4
  <2>1. /\ r.at = "load" /\ r.attempt = call[p].attempt + 1 /\ r.refused = call[p].etag
        /\ r.doc = NoDoc /\ r.case = call[p].case /\ r.from = call[p].from
        /\ r.etag = call[p].etag /\ r \in CallRecord
    <3>1. call[p].attempt + 1 \in Nat /\ call[p].etag \in Nat /\ NoDoc \in Doc
      BY <1>2, NoDocInv DEF CallRecord
    <3> QED
      BY <1>2, <3>1 DEF CallRecord
  <2> HIDE DEF r
  <2>2. CallInv(r)
    <3>1. ReadIsCurrent(r)
      BY <2>1 DEF ReadIsCurrent
    <3>2. CanOverwrite => Overtaken(r)
      BY <1>2, <1>3, <2>1 DEF Overtaken, CallRecord
    <3> QED
      BY <1>1, <1>2, <1>7, <2>1, <3>1, <3>2, NoDocInv DEF CallInv
  <2> QED
    BY <1>1, <1>7, <2>1, <2>2, CallKeeps
<1> QED
  BY <1>5, <1>6, <1>7 DEF NextAttempt

LEMMA LocalLockKeeps ==
    ASSUME StoreInv, NEW p \in Pod, LocalLock(p)
    PROVE  StoreInv'
<1> DEFINE r == [call[p] EXCEPT !.at = "locked", !.doc = Readable]
<1>1. /\ call[p].at = "lock" /\ \A q \in Pod : ~At4(q, "locked")
      /\ call' = [call EXCEPT ![p] = r]
      /\ UNCHANGED <<endpoint, record, made, style, ended4, rebuilt>>
  BY DEF LocalLock, At4
<1>2. /\ call[p] \in CallRecord /\ CallInv(call[p])
      /\ Readable \in Doc /\ DocInv(Readable)
      /\ ~rebuilt => Readable = record.doc
  BY NoDocInv DEF StoreInv, Typed, CallsInv, RecordInv, Readable
<1>3. /\ r.at = "locked" /\ r.doc = Readable /\ r.case = call[p].case /\ r.from = call[p].from
      /\ r.etag = call[p].etag /\ r.attempt = call[p].attempt /\ r \in CallRecord
  BY <1>2 DEF CallRecord
<1> HIDE DEF r
<1>4. CallInv(r)
  <2>1. ReadIsCurrent(r) /\ Overtaken(r)
    BY <1>2, <1>3 DEF ReadIsCurrent, Overtaken
  <2> QED
    BY <1>1, <1>2, <1>3, <2>1 DEF CallInv
<1> QED
  BY <1>1, <1>3, <1>4, CallKeeps

LEMMA LocalReplaceKeeps ==
    ASSUME StoreInv, NEW p \in Pod, LocalReplace(p)
    PROVE  StoreInv'
<1>1. call[p].at = "locked" /\ UNCHANGED <<endpoint, made, style, rebuilt>>
  BY DEF LocalReplace, At4
<1>2. style' \in [Pod -> {"auto", "quoted", "bare"}] /\ StyleInv' /\ MadeInv'
  BY <1>1 DEF StoreInv, Typed, StyleInv, MadeInv
<1>3. CASE Write(Mutate(call[p].doc, call[p].case)) /\ Ends4(p, "updated")
  BY <1>1, <1>2, <1>3, WriteEndKeeps DEF At4
<1>4. CASE Ends4(p, "raised") /\ UNCHANGED record
  BY <1>1, <1>2, <1>4, EndKeeps
<1> QED
  BY <1>3, <1>4 DEF LocalReplace

LEMMA CreateKeeps ==
    ASSUME StoreInv, NEW p \in Pod, Create(p)
    PROVE  StoreInv'
<1>1. MadeInv' /\ UNCHANGED <<endpoint, record, style, rebuilt>>
  BY DEF Create, StoreInv, MadeInv
<1>2. \E how \in {"created", "exists", "raised"} : Ends4(p, how)
  BY DEF Create
<1> QED
  BY <1>1, <1>2, EndKeeps

(* A read that fails, and a lock that is not had in time, end the call. *)
LEMMA GivingUpKeeps ==
    ASSUME StoreInv, NEW p \in Pod, LoadFails(p) \/ LockTimesOut(p)
    PROVE  StoreInv'
<1>1. MadeInv' /\ UNCHANGED <<endpoint, record, style, rebuilt>>
  BY DEF LoadFails, LockTimesOut, StoreInv, MadeInv
<1>2. \E how \in {"unreadable", "raised"} : Ends4(p, how)
  BY DEF LoadFails, LockTimesOut
<1> QED
  BY <1>1, <1>2, EndKeeps

LEMMA StutterKeeps ==
    ASSUME StoreInv, UNCHANGED storeVars
    PROVE  StoreInv'
<1>1. UNCHANGED <<endpoint, record, made, style, call, ended4, rebuilt>>
  BY DEF storeVars
<1>2. RecordInv' /\ Moves(Pod)
  BY <1>1, NoWriteKeeps
<1>3. CallsInv'
  BY <1>1, <1>2, OthersKeep DEF StoreInv, CallsInv
<1>4. Typed' /\ StyleInv' /\ OneLocker' /\ MadeInv'
  BY <1>1 DEF StoreInv, Typed, StyleInv, OneLocker, At4, MadeInv
<1>5. EndedInv'
  BY <1>1 DEF StoreInv, EndedInv, UpdatesKept, UnsupportedIsTrue, GivesUpForCause, CanOverwrite
<1> QED
  BY <1>2, <1>3, <1>4, <1>5 DEF StoreInv

LEMMA StoreInvStep ==
    ASSUME StoreInv, [StoreNext]_storeVars
    PROVE  StoreInv'
<1>1. CASE UNCHANGED storeVars
  BY <1>1, StutterKeeps
<1>2. CASE Corrupt
  BY <1>2, CorruptKeeps
<1>3. ASSUME NEW p \in Pod,
             \/ Probe(p) \/ LoadFails(p) \/ LoadWithEtag(p) \/ PutLands(p)
             \/ PutLandsUnanswered(p) \/ PutRefused(p) \/ NextAttempt(p) \/ LocalLock(p)
             \/ LocalReplace(p) \/ LockTimesOut(p) \/ Create(p)
      PROVE  StoreInv'
  BY <1>3, ProbeKeeps, GivingUpKeeps, LoadKeeps, PutLandsKeeps, PutLandsUnansweredKeeps,
     PutRefusedKeeps, NextAttemptKeeps, LocalLockKeeps, LocalReplaceKeeps, CreateKeeps
<1>4. ASSUME NEW p \in Pod, Begin4(p, "create", "none")
      PROVE  StoreInv'
  BY <1>4, BeginKeeps
<1>5. ASSUME NEW p \in Pod, NEW c \in Case4, Begin4(p, "update", c)
      PROVE  StoreInv'
  BY <1>5, BeginKeeps
<1> QED
  BY <1>1, <1>2, <1>3, <1>4, <1>5 DEF StoreNext

LEMMA StoreInvImplies == StoreInv => UpdatesAreAtomic
<1> SUFFICES ASSUME StoreInv PROVE UpdatesAreAtomic
  OBVIOUS
<1>1. CountedOnce
  BY DEF StoreInv, RecordInv, DocInv, Unabridged, CountedOnce
<1>0. Cardinality({}) <= 1 /\ \A x : Cardinality({x}) <= 1
  <2>1. Cardinality({}) = 0 /\ \A x : Cardinality({x}) = 1
    BY FS_EmptySet, FS_Singleton
  <2> QED
    BY <2>1
<1>2. CreatedOnce
  BY <1>0 DEF StoreInv, MadeInv, CreatedOnce
<1>3. Cardinality({p \in Pod : call[p].at = "locked"}) <= 1
  <2>1. \/ {p \in Pod : call[p].at = "locked"} = {}
        \/ \E p \in Pod : {q \in Pod : call[q].at = "locked"} = {p}
    BY DEF StoreInv, OneLocker, At4
  <2> QED
    BY <2>1, <1>0
<1>4. StoreTypeOK
  <2>1. /\ record.doc.count \in Nat /\ Len(record.doc.members) <= MemberCap
        /\ record.rev = 0 => record.doc = NoDoc
    BY DEF StoreInv, Typed, Doc, RecordInv, DocInv
  <2>2. \A p \in Pod : call[p].attempt \in 0..(MaxAttempts4 - 1)
    BY StoreAssumption DEF StoreInv, Typed, CallsInv, CallInv, CallRecord
  <2> QED
    BY <1>3, <2>1, <2>2 DEF StoreTypeOK
<1> QED
  BY <1>1, <1>2, <1>4 DEF StoreInv, EndedInv, UpdatesAreAtomic

(* On S3 or a disk, for any number of processes, cases, attempts and lost  *)
(* answers, and any cap: an update update_json reported is in the record   *)
(* unless the record was found corrupt and rebuilt, counts once, is said   *)
(* to be unsupported or out of rounds only where that is so, and one       *)
(* create_json of a name is told that it made it.                          *)
THEOREM StoreIsAtomic == StoreSpec => []UpdatesAreAtomic
<1> QED
  BY StoreInvInit, StoreInvStep, StoreInvImplies, PTL DEF StoreSpec

-----------------------------------------------------------------------------
(* ProcessDb.  A recursive function is met through its defining equation,  *)
(* and what holds of all its values through induction over a set of        *)
(* numbers: those for which it holds.                                      *)

LEMMA LeastNatural ==
    ASSUME NEW S \in SUBSET Nat, S # {}
    PROVE  \E x \in S : \A y \in S : x <= y
<1> DEFINE Less == {ss \in Nat \X Nat : ss[1] < ss[2]}
<1>1. IsWellFoundedOn(Less, Nat)
  BY NatLessThanWellFounded, Zenon DEF OpToRel
<1>2. \E x \in S : \A y \in S : ~(<<y, x>> \in Less)
  <2> HIDE DEF Less
  <2> QED
    BY <1>1, WFMin
<1>3. \A x, y \in Nat : y < x => <<y, x>> \in Less
  OBVIOUS
<1> HIDE DEF Less
<1>4. PICK x \in S : \A y \in S : ~(<<y, x>> \in Less)
  BY <1>2
<1>5. \A y \in S : ~(y < x)
  BY <1>3, <1>4
<1> QED
  BY <1>5

(* Induction, over a set of numbers in place of a property. *)
LEMMA SetInduction ==
    ASSUME NEW S \in SUBSET Nat, \A n \in Nat : (\A m \in 0..(n - 1) : m \in S) => n \in S
    PROVE  \A n \in Nat : n \in S
<1> SUFFICES ASSUME Nat \ S # {} PROVE FALSE
  OBVIOUS
<1>1. PICK x \in Nat \ S : \A y \in Nat \ S : x <= y
  BY LeastNatural
<1> QED
  BY <1>1

(* finish: the sum of the first k sizes is a function of k, defined by its *)
(* own recursion.                                                          *)
Summed(sizes, k, f) == f = [i \in 0..k |-> IF i = 0 THEN 0 ELSE f[i - 1] + sizes[i]]

LEMMA SumExists ==
    ASSUME NEW sizes, NEW k \in Nat
    PROVE  \E f : Summed(sizes, k, f)
<1> DEFINE E(g, i) == IF i = 0 THEN 0 ELSE g[i - 1] + sizes[i]
           Good == {n \in Nat : \E g : g = [i \in 0..k |-> g[i]] /\ \A i \in 0..k : i <= n => g[i] = E(g, i)}
<1>1. ASSUME NEW n \in Nat, \A m \in 0..(n - 1) : m \in Good
      PROVE  n \in Good
  <2>1. \E g : g = [i \in 0..k |-> g[i]] /\ \A i \in 0..k : i < n => g[i] = E(g, i)
    <3>1. CASE n = 0
      <4> DEFINE g == [i \in 0..k |-> 0]
      <4>1. g = [i \in 0..k |-> g[i]] /\ \A i \in 0..k : i < n => g[i] = E(g, i)
        BY <3>1
      <4> QED
        BY <4>1
    <3>2. CASE n > 0
      <4>1. n - 1 \in Good
        BY <1>1, <3>2
      <4>2. PICK g : g = [i \in 0..k |-> g[i]] /\ \A i \in 0..k : i <= n - 1 => g[i] = E(g, i)
        BY <4>1
      <4>3. \A i \in 0..k : i < n => i <= n - 1
        OBVIOUS
      <4> HIDE DEF E
      <4> QED
        BY <4>2, <4>3
    <3> QED
      BY <3>1, <3>2
  <2>2. PICK g : g = [i \in 0..k |-> g[i]] /\ \A i \in 0..k : i < n => g[i] = E(g, i)
    BY <2>1
  <2> DEFINE h == [i \in 0..k |-> E(g, i)]
  <2>3. \A i \in 0..k : i <= n => h[i] = E(h, i)
    <3> SUFFICES ASSUME NEW i \in 0..k, i <= n PROVE h[i] = E(h, i)
      OBVIOUS
    <3>1. CASE i = 0
      BY <3>1
    <3>2. CASE i # 0
      <4>1. i - 1 \in 0..k /\ i - 1 < n
        BY <3>2
      <4>2. h[i - 1] = g[i - 1]
        BY <4>1, <2>2
      <4> QED
        BY <4>2, <3>2
    <3> QED
      BY <3>1, <3>2
  <2>4. h = [i \in 0..k |-> h[i]]
    OBVIOUS
  <2> HIDE DEF h
  <2> QED
    BY <2>3, <2>4
<1>2. k \in Good
  <2> HIDE DEF Good
  <2> QED
    BY <1>1, SetInduction DEF Good
<1>3. PICK g : g = [i \in 0..k |-> g[i]] /\ \A i \in 0..k : i <= k => g[i] = E(g, i)
  BY <1>2
<1>4. g = [i \in 0..k |-> E(g, i)]
  BY <1>3
<1> QED
  BY <1>4 DEF Summed

LEMMA TotalIs ==
    ASSUME NEW sizes, NEW k \in Nat
    PROVE  \E f : Summed(sizes, k, f) /\ TotalOf(sizes, k) = f[k]
<1> DEFINE sum == CHOOSE f : Summed(sizes, k, f)
<1>1. Summed(sizes, k, sum)
  BY SumExists
<1>2. TotalOf(sizes, k) = sum[k]
  BY DEF TotalOf, Summed
<1> QED
  BY <1>1, <1>2

LEMMA TotalGrows ==
    ASSUME NEW sizes, NEW k \in Nat
    PROVE  /\ TotalOf(sizes, 0) = 0
           /\ TotalOf(sizes, k + 1) = TotalOf(sizes, k) + sizes[k + 1]
<1>1. PICK f : Summed(sizes, k, f) /\ TotalOf(sizes, k) = f[k]
  BY TotalIs
<1>2. PICK g : Summed(sizes, k + 1, g) /\ TotalOf(sizes, k + 1) = g[k + 1]
  BY TotalIs
<1>3. /\ \A i \in 0..k : f[i] = IF i = 0 THEN 0 ELSE f[i - 1] + sizes[i]
      /\ \A i \in 0..(k + 1) : g[i] = IF i = 0 THEN 0 ELSE g[i - 1] + sizes[i]
  BY <1>1, <1>2 DEF Summed
<1> DEFINE Same == {n \in Nat : n <= k => f[n] = g[n]}
<1>4. ASSUME NEW n \in Nat, \A m \in 0..(n - 1) : m \in Same
      PROVE  n \in Same
  <2> SUFFICES ASSUME n <= k PROVE f[n] = g[n]
    OBVIOUS
  <2>1. CASE n = 0
    BY <2>1, <1>3
  <2>2. CASE n # 0
    <3>1. n - 1 \in 0..(n - 1) /\ n - 1 <= k /\ n \in 0..k /\ n \in 0..(k + 1)
      BY <2>2
    <3>2. f[n - 1] = g[n - 1]
      BY <3>1, <1>4
    <3> HIDE DEF Same
    <3> QED
      BY <3>1, <3>2, <2>2, <1>3
  <2> QED
    BY <2>1, <2>2
<1>5. k \in Same
  <2> HIDE DEF Same
  <2> QED
    BY <1>4, SetInduction DEF Same
<1>6. f[k] = g[k]
  BY <1>5
<1>7. g[k + 1] = g[k] + sizes[k + 1]
  <2>1. k + 1 \in 0..(k + 1) /\ k + 1 # 0 /\ (k + 1) - 1 = k
    OBVIOUS
  <2> QED
    BY <2>1, <1>3
<1>8. TotalOf(sizes, 0) = 0
  <2> PICK h : Summed(sizes, 0, h) /\ TotalOf(sizes, 0) = h[0]
    BY TotalIs
  <2> QED
    BY DEF Summed
<1> QED
  BY <1>1, <1>2, <1>6, <1>7, <1>8

(* Every entry takes room: a longer list is never shorter as text. *)
LEMMA TotalRises ==
    ASSUME NEW L \in Nat, NEW sizes \in [1..L -> Nat]
    PROVE  \A n \in 0..L : /\ TotalOf(sizes, n) \in Nat
                           /\ \A m \in 0..n : TotalOf(sizes, m) <= TotalOf(sizes, n)
<1> DEFINE Rising == {n \in Nat : n <= L => /\ TotalOf(sizes, n) \in Nat
                                          /\ \A m \in 0..n : TotalOf(sizes, m) <= TotalOf(sizes, n)}
<1>1. ASSUME NEW n \in Nat, \A m \in 0..(n - 1) : m \in Rising
      PROVE  n \in Rising
  <2> SUFFICES ASSUME n <= L
               PROVE  /\ TotalOf(sizes, n) \in Nat
                      /\ \A m \in 0..n : TotalOf(sizes, m) <= TotalOf(sizes, n)
    OBVIOUS
  <2>1. CASE n = 0
    BY <2>1, TotalGrows
  <2>2. CASE n # 0
    <3>1. n - 1 \in Nat /\ n - 1 \in 0..(n - 1) /\ n - 1 <= L /\ (n - 1) + 1 = n /\ n \in 1..L
      BY <2>2
    <3>2. /\ TotalOf(sizes, n - 1) \in Nat
          /\ \A m \in 0..(n - 1) : TotalOf(sizes, m) <= TotalOf(sizes, n - 1)
      BY <3>1, <1>1
    <3>3. TotalOf(sizes, n) = TotalOf(sizes, n - 1) + sizes[n] /\ sizes[n] \in Nat
      BY <3>1, TotalGrows
    <3>4. ASSUME NEW m \in 0..n
          PROVE  TotalOf(sizes, m) <= TotalOf(sizes, n)
      <4>1. CASE m = n
        BY <4>1, <3>2, <3>3
      <4>2. CASE m # n
        <5>1. m \in 0..(n - 1)
          BY <4>2
        <5>2. TotalOf(sizes, m) \in Nat
          BY <5>1, <1>1, <3>1
        <5> QED
          BY <5>1, <5>2, <3>2, <3>3
      <4> QED
        BY <4>1, <4>2
    <3> QED
      BY <3>2, <3>3, <3>4
  <2> QED
    BY <2>1, <2>2
<1>2. \A n \in Nat : n \in Rising
  <2> HIDE DEF Rising
  <2>1. Rising \in SUBSET Nat
    BY DEF Rising
  <2> QED
    BY <1>1, <2>1, SetInduction
<1> QED
  BY <1>2

(* A cut list that does not fit does not fit when it is longer either. *)
LEMMA FitsFalls ==
    ASSUME NEW L \in Nat, NEW sizes \in [1..L -> Nat], Len(sizes) = L,
           NEW m \in 0..(L - 1), NEW n \in m..(L - 1), Fits(sizes, n)
    PROVE  Fits(sizes, m)
<1>1. TotalOf(sizes, n) \in Nat /\ TotalOf(sizes, m) \in Nat /\ TotalOf(sizes, m) <= TotalOf(sizes, n)
  BY TotalRises
<1>2. OutputCap \in Nat
  BY ProcessDbAssumption
<1> QED
  BY <1>1, <1>2 DEF Fits

(* The bisection of _shrink is the function its recursion defines. *)
Bisected(sizes, L, g, r) ==
    LET low == r[1]  high == r[2]  middle == (low + high + 1) \div 2 IN
    IF low >= high THEN low
    ELSE IF Fits(sizes, middle) THEN g[<<middle, high>>] ELSE g[<<low, middle - 1>>]
Bisection(sizes, L, f) ==
    f = [r \in (0..L) \X (0..L) |-> Bisected(sizes, L, f, r)]

(* The two halves are shorter than the whole. *)
LEMMA HalvesAre ==
    ASSUME NEW L \in Nat, NEW low \in 0..L, NEW high \in 0..L, low < high
    PROVE  LET middle == (low + high + 1) \div 2 IN
           /\ middle \in (low + 1)..high
           /\ middle \in 0..L /\ middle - 1 \in 0..L
           /\ <<middle, high>> \in (0..L) \X (0..L) /\ high - middle < high - low
           /\ <<low, middle - 1>> \in (0..L) \X (0..L) /\ (middle - 1) - low < high - low
<1> DEFINE middle == (low + high + 1) \div 2
<1>1. middle \in Int /\ 2 * middle <= low + high + 1 /\ low + high <= 2 * middle
  OBVIOUS
<1> HIDE DEF middle
<1>2. middle \in (low + 1)..high
  BY <1>1
<1> QED
  BY <1>2 DEF middle

LEMMA BisectionExists ==
    ASSUME NEW sizes, NEW L \in Nat
    PROVE  \E f : Bisection(sizes, L, f)
<1> DEFINE D == (0..L) \X (0..L)
           Solves(g, n) == \A r \in D : r[2] - r[1] <= n => g[r] = Bisected(sizes, L, g, r)
           Good == {n \in Nat : \E g : Solves(g, n)}
<1>1. ASSUME NEW n \in Nat, \A m \in 0..(n - 1) : m \in Good
      PROVE  n \in Good
  <2>1. PICK g : \A r \in D : r[2] - r[1] < n => g[r] = Bisected(sizes, L, g, r)
    <3>1. CASE n = 0
      <4> DEFINE first == [r \in D |-> r[1]]
      <4>1. \A r \in D : r[2] - r[1] < n => first[r] = Bisected(sizes, L, first, r)
        BY <3>1 DEF Bisected
      <4> QED
        BY <4>1
    <3>2. CASE n # 0
      <4>1. PICK g : Solves(g, n - 1)
        BY <1>1, <3>2
      <4>2. \A r \in D : r[2] - r[1] < n => r[2] - r[1] <= n - 1
        OBVIOUS
      <4> QED
        BY <4>1, <4>2
    <3> QED
      BY <3>1, <3>2
  <2> DEFINE k == [r \in D |-> Bisected(sizes, L, g, r)]
  <2>2. ASSUME NEW r \in D, r[2] - r[1] <= n
        PROVE  k[r] = Bisected(sizes, L, k, r)
    <3>1. PICK low \in 0..L, high \in 0..L : r = <<low, high>>
      OBVIOUS
    <3>2. CASE low >= high
      BY <3>1, <3>2 DEF Bisected
    <3>3. CASE low < high
      <4> DEFINE middle == (low + high + 1) \div 2
      <4>1. /\ <<middle, high>> \in D /\ high - middle < n
            /\ <<low, middle - 1>> \in D /\ (middle - 1) - low < n
        <5> HIDE DEF D
        <5>1. high - low <= n
          BY <2>2, <3>1
        <5>2. /\ middle \in 0..L
              /\ <<middle, high>> \in D /\ high - middle < high - low
              /\ <<low, middle - 1>> \in D /\ (middle - 1) - low < high - low
          BY <3>3, HalvesAre DEF D
        <5> HIDE DEF middle
        <5> QED
          BY <5>1, <5>2
      <4>2. /\ k[<<middle, high>>] = g[<<middle, high>>]
            /\ k[<<low, middle - 1>>] = g[<<low, middle - 1>>]
        <5> HIDE DEF middle
        <5>1. \A l, h \in 0..L : h - l < n => k[<<l, h>>] = g[<<l, h>>]
          BY <2>1
        <5> QED
          BY <4>1, <5>1
      <4>3. k[r] = Bisected(sizes, L, g, r)
        OBVIOUS
      <4> HIDE DEF k, D
      <4> QED
        BY <3>1, <4>2, <4>3 DEF Bisected
    <3> QED
      BY <3>1, <3>2, <3>3
  <2> QED
    BY <2>2
<1>2. L \in Good
  <2> HIDE DEF Good
  <2>1. Good \in SUBSET Nat
    BY DEF Good
  <2> QED
    BY <1>1, <2>1, SetInduction
<1>3. PICK g : Solves(g, L)
  BY <1>2
<1> DEFINE f == [r \in D |-> g[r]]
<1>4. \A r \in D : f[r] = g[r] /\ g[r] = Bisected(sizes, L, g, r)
  BY <1>3
<1>5. ASSUME NEW r \in D
      PROVE  Bisected(sizes, L, g, r) = Bisected(sizes, L, f, r)
  <2>1. PICK low \in 0..L, high \in 0..L : r = <<low, high>>
    OBVIOUS
  <2>2. CASE low >= high
    BY <2>1, <2>2 DEF Bisected
  <2>3. CASE low < high
    <3> DEFINE middle == (low + high + 1) \div 2
    <3>1. <<middle, high>> \in D /\ <<low, middle - 1>> \in D
      BY <2>3, HalvesAre
    <3> HIDE DEF f, D
    <3> QED
      BY <2>1, <3>1, <1>4 DEF Bisected
  <2> QED
    BY <2>1, <2>2, <2>3
<1>6. f = [r \in D |-> Bisected(sizes, L, f, r)]
  <2> HIDE DEF D
  <2>1. f = [r \in D |-> f[r]]
    OBVIOUS
  <2>2. \A r \in D : f[r] = Bisected(sizes, L, f, r)
    BY <1>4, <1>5
  <2> HIDE DEF f
  <2> QED
    BY <2>1, <2>2
<1> QED
  BY <1>6 DEF Bisection

LEMMA ShrunkIs ==
    ASSUME NEW L \in Nat \ {0}, NEW sizes \in [1..L -> Nat], Len(sizes) = L
    PROVE  /\ Shrunk(sizes) \in 0..(L - 1)
           /\ \A m \in (Shrunk(sizes) + 1)..(L - 1) : ~Fits(sizes, m)
<1> DEFINE D == (0..L) \X (0..L)
           search == CHOOSE f : Bisection(sizes, L, f)
           Above(k) == \A m \in (k + 1)..(L - 1) : ~Fits(sizes, m)
           Finds(r) == search[r] \in 0..(L - 1) /\ Above(search[r])
           Good == {n \in Nat : \A low, high \in 0..(L - 1) :
                       low <= high /\ high - low = n /\ Above(high) => Finds(<<low, high>>)}
<1>1. Bisection(sizes, L, search)
  BY BisectionExists
<1>2. Shrunk(sizes) = search[<<0, L - 1>>]
  BY DEF Shrunk, Bisection, Bisected
<1>3. \A r \in D : search[r] = Bisected(sizes, L, search, r)
  BY <1>1 DEF Bisection
<1> HIDE DEF search
<1>4. ASSUME NEW n \in Nat, \A m \in 0..(n - 1) : m \in Good
      PROVE  n \in Good
  <2> SUFFICES ASSUME NEW low \in 0..(L - 1), NEW high \in 0..(L - 1),
                      low <= high, high - low = n, Above(high)
               PROVE  Finds(<<low, high>>)
    OBVIOUS
  <2>1. <<low, high>> \in D /\ low \in 0..L /\ high \in 0..L
    OBVIOUS
  <2>2. CASE low = high
    <3>1. search[<<low, high>>] = low
      BY <2>1, <2>2, <1>3 DEF Bisected
    <3> QED
      BY <3>1, <2>2
  <2>3. CASE low < high
    <3> DEFINE middle == (low + high + 1) \div 2
    <3>1. middle \in (low + 1)..high
      BY <2>1, <2>3, HalvesAre
    <3>2. search[<<low, high>>] = IF Fits(sizes, middle) THEN search[<<middle, high>>]
                                                         ELSE search[<<low, middle - 1>>]
      <4> HIDE DEF D
      <4>1. search[<<low, high>>] = Bisected(sizes, L, search, <<low, high>>)
        BY <2>1, <1>3
      <4> QED
        BY <4>1, <2>3 DEF Bisected
    <3> HIDE DEF middle
    <3>3. CASE Fits(sizes, middle)
      <4>1. high - middle \in 0..(n - 1) /\ middle \in 0..(L - 1) /\ middle <= high
        BY <3>1
      <4>2. high - middle \in Good
        BY <4>1, <1>4
      <4>3. Finds(<<middle, high>>)
        <5> HIDE DEF Finds, Above
        <5> QED
          BY <4>1, <4>2
      <4> QED
        BY <4>3, <3>2, <3>3
    <3>4. CASE ~Fits(sizes, middle)
      <4>1. /\ (middle - 1) - low \in 0..(n - 1) /\ middle - 1 \in 0..(L - 1)
            /\ low <= middle - 1 /\ middle \in 0..(L - 1)
        BY <3>1
      <4>2. (middle - 1) - low \in Good
        BY <4>1, <1>4
      <4>3. Above(middle - 1)
        <5> SUFFICES ASSUME NEW m \in middle..(L - 1), Fits(sizes, m)
                     PROVE  FALSE
          BY <4>1
        <5> QED
          BY <4>1, <3>4, FitsFalls
      <4>4. Finds(<<low, middle - 1>>)
        <5> HIDE DEF Finds, Above
        <5> QED
          BY <4>1, <4>2, <4>3
      <4> QED
        BY <4>4, <3>2, <3>4
    <3> QED
      BY <3>3, <3>4
  <2>4. low = high \/ low < high
    OBVIOUS
  <2> HIDE DEF Finds, Above
  <2> QED
    BY <2>2, <2>3, <2>4
<1>5. L - 1 \in Good
  <2> HIDE DEF Good
  <2>1. Good \in SUBSET Nat /\ L - 1 \in Nat
    BY DEF Good
  <2> QED
    BY <1>4, <2>1, SetInduction
<1>6. Finds(<<0, L - 1>>)
  <2>1. Above(L - 1) /\ 0 \in 0..(L - 1) /\ L - 1 \in 0..(L - 1) /\ (L - 1) - 0 = L - 1 /\ 0 <= L - 1
    OBVIOUS
  <2> HIDE DEF Finds, Above
  <2> QED
    BY <2>1, <1>5
<1> QED
  BY <1>2, <1>6

----------------------------------------------------------------------------
(* A helper record's matches, as HelperRecords has them. *)
Matches(m) ==
    /\ m \in Seq({m[i] : i \in DOMAIN m})
    /\ \A i \in DOMAIN m : m[i][3] \in Nat

LEMMA GreatestNatural ==
    ASSUME NEW S \in SUBSET Nat, S # {}, NEW n \in Nat, \A y \in S : y <= n
    PROVE  \E x \in S : \A y \in S : x >= y
<1> DEFINE T == {m \in Nat : n - m \in S}
<1>1. T # {}
  <2> PICK y \in S : TRUE
    OBVIOUS
  <2>1. n - y \in Nat /\ n - (n - y) = y
    OBVIOUS
  <2> QED
    BY <2>1
<1>2. PICK m \in T : \A k \in T : m <= k
  BY <1>1, LeastNatural
<1>3. \A y \in S : n - m >= y
  <2> TAKE y \in S
  <2>1. n - y \in Nat /\ n - (n - y) = y
    OBVIOUS
  <2> QED
    BY <2>1, <1>2
<1> QED
  BY <1>2, <1>3

LEMMA ScoresBounded ==
    ASSUME NEW m, Matches(m)
    PROVE  \E b \in Nat : \A i \in DOMAIN m : m[i][3] <= b
<1> DEFINE Upto(n) == \E b \in Nat : \A i \in 1..n : i <= Len(m) => m[i][3] <= b
           Good == {n \in Nat : Upto(n)}
<1>1. Len(m) \in Nat /\ DOMAIN m = 1..Len(m)
  BY DEF Matches
<1>2. ASSUME NEW n \in Nat, \A k \in 0..(n - 1) : k \in Good
      PROVE  n \in Good
  <2>1. CASE n = 0
    BY <2>1
  <2>2. CASE n # 0
    <3>1. PICK b \in Nat : \A i \in 1..(n - 1) : i <= Len(m) => m[i][3] <= b
      <4>1. n - 1 \in Good
        <5>1. n - 1 \in 0..(n - 1)
          BY <2>2
        <5> HIDE DEF Good
        <5> QED
          BY <5>1, <1>2
      <4>2. Upto(n - 1)
        <5> HIDE DEF Upto
        <5> QED
          BY <4>1
      <4> QED
        BY <4>2
    <3>2. CASE n <= Len(m)
      <4>1. m[n][3] \in Nat /\ b + m[n][3] \in Nat
        BY <3>2, <2>2, <1>1 DEF Matches
      <4>2. ASSUME NEW i \in 1..n, i <= Len(m)
            PROVE  m[i][3] <= b + m[n][3]
        <5>1. m[i][3] \in Nat
          BY <4>2, <1>1 DEF Matches
        <5>2. CASE i = n
          <6>1. m[i][3] = m[n][3]
            BY <5>2
          <6> QED
            BY <6>1, <4>1, <3>1
        <5>3. CASE i \in 1..(n - 1)
          <6>1. m[i][3] <= b
            BY <5>3, <4>2, <3>1
          <6> QED
            BY <6>1, <5>1, <4>1, <3>1
        <5> QED
          BY <5>2, <5>3
      <4> QED
        BY <4>1, <4>2
    <3>3. CASE ~(n <= Len(m))
      <4>1. \A i \in 1..n : i <= Len(m) => i \in 1..(n - 1)
        BY <3>3, <1>1
      <4> QED
        BY <4>1, <3>1
    <3> QED
      BY <3>2, <3>3
  <2> QED
    BY <2>1, <2>2
<1>3. Len(m) \in Good
  <2> HIDE DEF Good
  <2>1. Good \in SUBSET Nat
    BY DEF Good
  <2> QED
    BY <1>1, <1>2, <2>1, SetInduction
<1>4. PICK b \in Nat : \A i \in 1..Len(m) : i <= Len(m) => m[i][3] <= b
  BY <1>3
<1>5. \A i \in DOMAIN m : m[i][3] <= b
  BY <1>1, <1>4
<1> QED
  BY <1>5

LEMMA HighestIs ==
    ASSUME NEW m, Matches(m), NEW c \in Candidates(m)
    PROVE  /\ HighestScore(m, c) \in Scores(m, c) /\ HighestScore(m, c) \in Nat
           /\ \A y \in Scores(m, c) : y <= HighestScore(m, c)
<1>1. PICK b \in Nat : \A i \in DOMAIN m : m[i][3] <= b
  BY ScoresBounded
<1>2. Scores(m, c) \in SUBSET Nat /\ Scores(m, c) # {} /\ \A y \in Scores(m, c) : y <= b
  BY <1>1 DEF Scores, Candidates, Matches
<1>3. PICK x \in Scores(m, c) : \A y \in Scores(m, c) : x >= y
  BY <1>1, <1>2, GreatestNatural
<1>4. \E z \in Scores(m, c) : \A y \in Scores(m, c) : y <= z
  BY <1>2, <1>3
<1> QED
  BY <1>2, <1>4 DEF HighestScore

LEMMA FirstIs ==
    ASSUME NEW m, Matches(m), NEW c \in Candidates(m)
    PROVE  FirstAt(m, c) \in Nat /\ FirstAt(m, c) \in DOMAIN m /\ m[FirstAt(m, c)][2] = c
<1>1. Len(m) \in Nat /\ DOMAIN m = 1..Len(m)
  BY DEF Matches
<1> DEFINE At == {i \in DOMAIN m : m[i][2] = c}
<1>2. At \in SUBSET Nat /\ At # {}
  BY <1>1 DEF Candidates
<1>3. PICK i \in At : \A j \in At : i <= j
  BY <1>2, LeastNatural
<1>4. i \in DOMAIN m /\ m[i][2] = c /\ \A j \in 1..(i - 1) : m[j][2] # c
  BY <1>1, <1>3
<1> QED
  BY <1>1, <1>4 DEF FirstAt

(* Outranking is a strict total order. *)
LEMMA OutranksOrders ==
    ASSUME NEW m, Matches(m)
    PROVE  /\ \A c \in Candidates(m) : ~Outranks(m, c, c)
           /\ \A c, d \in Candidates(m) : c = d \/ Outranks(m, c, d) \/ Outranks(m, d, c)
           /\ \A c, d, e \in Candidates(m) :
                  Outranks(m, c, d) /\ Outranks(m, d, e) => Outranks(m, c, e)
<1>1. \A c \in Candidates(m) : HighestScore(m, c) \in Nat /\ FirstAt(m, c) \in Nat
  BY HighestIs, FirstIs
<1>2. \A c, d \in Candidates(m) : FirstAt(m, c) = FirstAt(m, d) => c = d
  BY FirstIs
<1> QED
  BY <1>1, <1>2 DEF Outranks

Ahead(m, c) == {d \in Candidates(m) : Outranks(m, d, c)}

LEMMA CandidatesFinite ==
    ASSUME NEW m, Matches(m)
    PROVE  IsFiniteSet(Candidates(m)) /\ Cardinality(Candidates(m)) \in Nat
<1>1. Len(m) \in Nat /\ DOMAIN m = 1..Len(m) /\ IsFiniteSet(1..Len(m))
  BY FS_Interval DEF Matches
<1> DEFINE f == [i \in 1..Len(m) |-> m[i][2]]
<1>2. f \in Surjection(1..Len(m), Candidates(m))
  BY <1>1 DEF Surjection, Candidates
<1> HIDE DEF f
<1> QED
  BY <1>1, <1>2, FS_Surjection, FS_CardinalityType

(* The number of candidates ahead of one is its place, and every place is  *)
(* taken.                                                                  *)
LEMMA PlacesAre ==
    ASSUME NEW m, Matches(m)
    PROVE  LET n == Cardinality(Candidates(m)) IN
           /\ \A c \in Candidates(m) : Cardinality(Ahead(m, c)) \in 0..(n - 1)
           /\ \A c, d \in Candidates(m) :
                  Outranks(m, c, d) => Cardinality(Ahead(m, c)) < Cardinality(Ahead(m, d))
           /\ \A i \in 1..n : \E c \in Candidates(m) : Cardinality(Ahead(m, c)) = i - 1
<1> DEFINE C == Candidates(m)
           n == Cardinality(C)
           rank == [c \in C |-> Cardinality(Ahead(m, c))]
<1>1. IsFiniteSet(C) /\ n \in Nat
  BY CandidatesFinite
<1>2. ASSUME NEW c \in C
      PROVE  IsFiniteSet(Ahead(m, c)) /\ Cardinality(Ahead(m, c)) \in 0..(n - 1)
  <2>1. Ahead(m, c) \in SUBSET C /\ c \notin Ahead(m, c)
    BY OutranksOrders DEF Ahead
  <2>2. /\ IsFiniteSet(Ahead(m, c)) /\ Cardinality(Ahead(m, c)) \in Nat
        /\ Cardinality(Ahead(m, c)) <= n /\ n # Cardinality(Ahead(m, c))
    BY <2>1, <1>1, FS_Subset, FS_CardinalityType
  <2> QED
    BY <2>2, <1>1
<1>3. ASSUME NEW c \in C, NEW d \in C, Outranks(m, c, d)
      PROVE  Cardinality(Ahead(m, c)) < Cardinality(Ahead(m, d))
  <2>1. /\ Ahead(m, c) \in SUBSET Ahead(m, d)
        /\ c \in Ahead(m, d) /\ c \notin Ahead(m, c)
    BY <1>3, OutranksOrders DEF Ahead
  <2>2. IsFiniteSet(Ahead(m, d)) /\ Cardinality(Ahead(m, d)) \in Nat
    BY <1>2
  <2>3. /\ Cardinality(Ahead(m, c)) <= Cardinality(Ahead(m, d))
        /\ Cardinality(Ahead(m, c)) # Cardinality(Ahead(m, d))
    BY <2>1, <2>2, FS_Subset
  <2>4. Cardinality(Ahead(m, c)) \in Nat
    BY <1>2
  <2> QED
    BY <2>2, <2>3, <2>4
<1>4. rank \in Injection(C, 0..(n - 1))
  <2>1. \A c, d \in C : Cardinality(Ahead(m, c)) = Cardinality(Ahead(m, d)) => c = d
    <3> SUFFICES ASSUME NEW c \in C, NEW d \in C, c # d
                 PROVE  Cardinality(Ahead(m, c)) # Cardinality(Ahead(m, d))
      OBVIOUS
    <3>1. Cardinality(Ahead(m, c)) \in Nat /\ Cardinality(Ahead(m, d)) \in Nat
      BY <1>2
    <3>2. Outranks(m, c, d) \/ Outranks(m, d, c)
      BY OutranksOrders
    <3> QED
      BY <3>1, <3>2, <1>3
  <2>2. rank \in [C -> 0..(n - 1)]
    BY <1>2
  <2>3. \A c, d \in C : rank[c] = rank[d] => c = d
    BY <2>1
  <2> HIDE DEF rank, C, n
  <2> QED
    BY <2>2, <2>3 DEF Injection, IsInjective
<1>5. rank \in Surjection(C, 0..(n - 1))
  <2> HIDE DEF rank, C, n
  <2>1. IsFiniteSet(0..(n - 1)) /\ Cardinality(0..(n - 1)) = n
    BY <1>1, FS_Interval
  <2> QED
    BY <1>4, <2>1, FS_Injection DEF n
<1>6. ASSUME NEW i \in 1..n
      PROVE  \E c \in C : Cardinality(Ahead(m, c)) = i - 1
  <2>1. i - 1 \in 0..(n - 1)
    BY <1>1
  <2> QED
    BY <2>1, <1>5 DEF Surjection
<1> QED
  BY <1>2, <1>3, <1>6

LEMMA RankedIs ==
    ASSUME NEW m, Matches(m)
    PROVE  LET n == Cardinality(Candidates(m)) IN
           /\ Ranked(m) \in [1..n -> Candidates(m)]
           /\ \A i \in 1..n : Cardinality(Ahead(m, Ranked(m)[i])) = i - 1
           /\ \A d \in Candidates(m) : \E i \in 1..n : Ranked(m)[i] = d
<1> DEFINE n == Cardinality(Candidates(m))
<1>1. n \in Nat
  BY CandidatesFinite
<1>2. Ranked(m) = [i \in 1..n |-> CHOOSE c \in Candidates(m) : Cardinality(Ahead(m, c)) = i - 1]
  BY DEF Ranked, Ahead
<1>3. \A i \in 1..n : /\ Ranked(m)[i] \in Candidates(m)
                      /\ Cardinality(Ahead(m, Ranked(m)[i])) = i - 1
  BY <1>2, PlacesAre
<1>4. ASSUME NEW d \in Candidates(m)
      PROVE  \E i \in 1..n : Ranked(m)[i] = d
  <2> DEFINE i == Cardinality(Ahead(m, d)) + 1
  <2>1. Cardinality(Ahead(m, d)) \in 0..(n - 1)
    BY PlacesAre
  <2>2. i \in 1..n /\ i - 1 = Cardinality(Ahead(m, d))
    BY <1>1, <2>1
  <2> HIDE DEF i
  <2>3. Ranked(m)[i] \in Candidates(m) /\ Cardinality(Ahead(m, Ranked(m)[i])) = Cardinality(Ahead(m, d))
    BY <1>3, <2>2
  <2>4. ~Outranks(m, Ranked(m)[i], d) /\ ~Outranks(m, d, Ranked(m)[i])
    BY <2>1, <2>3, PlacesAre
  <2> QED
    BY <2>2, <2>3, <2>4, OutranksOrders
<1> QED
  BY <1>2, <1>3, <1>4

(* What is listed of a record's matches: the caps' share of the ranking. *)
LEMMA ListedIs ==
    ASSUME NEW m, Matches(m)
    PROVE  LET r == Listed(m)
               n == Len(r.candidates)
               rows == n + r.left_out
               sizes == [i \in 1..rows |-> SizeOf(m, Ranked(m)[i])]
           IN  /\ n \in 0..r.count /\ r.candidates \in [1..n -> Candidates(m)]
               /\ \A i \in 1..n : r.candidates[i] = Ranked(m)[i]
               /\ r.count = Cardinality(Candidates(m)) /\ rows + r.not_listed = r.count
               /\ rows \in Nat /\ r.left_out \in Nat /\ Len(sizes) = rows
               /\ r.left_out > 0 => \A k \in (n + 1)..rows : ~Fits(sizes, k)
<1> DEFINE N == Cardinality(Candidates(m))
           L == IF N > ListLimit THEN ListLimit ELSE N
           ranked == Ranked(m)
           rows == SubSeq(ranked, 1, L)
           sizes == [i \in 1..L |-> SizeOf(m, ranked[i])]
           kept == IF Fits(sizes, L) THEN L ELSE Shrunk(sizes)
           shown == SubSeq(rows, 1, kept)
<1>1. N \in Nat /\ ListLimit \in Nat /\ OutputCap \in Nat /\ L \in 0..N
  BY CandidatesFinite, ProcessDbAssumption
<1>2. ranked \in [1..N -> Candidates(m)] /\ ranked \in Seq(Candidates(m)) /\ Len(ranked) = N
  <2>1. ranked \in [1..N -> Candidates(m)]
    BY RankedIs
  <2> HIDE DEF N, ranked
  <2> QED
    BY <2>1, <1>1
<1> HIDE DEF ranked, N, L
<1>3. /\ rows \in Seq(Candidates(m)) /\ Len(rows) = L /\ DOMAIN rows = 1..L
      /\ \A i \in 1..L : rows[i] = ranked[i]
  BY <1>1, <1>2
<1>4. \A c : SizeOf(m, c) \in Nat
  <2> TAKE c
  <2>1. IsFiniteSet(DOMAIN m)
    BY FS_Interval DEF Matches
  <2>2. Cardinality({i \in DOMAIN m : m[i][2] = c}) \in Nat
    BY <2>1, FS_Subset, FS_CardinalityType
  <2> QED
    BY <2>2 DEF SizeOf
<1>5. sizes \in [1..L -> Nat] /\ Len(sizes) = L
  BY <1>1, <1>4
<1>6. [i \in DOMAIN rows |-> SizeOf(m, rows[i])] = sizes
  <2> HIDE DEF rows
  <2> QED
    BY <1>3
<1>7. /\ kept \in 0..L
      /\ kept < L => \A k \in (kept + 1)..L : ~Fits(sizes, k)
  <2> HIDE DEF sizes
  <2>1. CASE Fits(sizes, L)
    BY <2>1, <1>1
  <2>2. CASE ~Fits(sizes, L)
    <3>1. L # 0
      BY <2>2, <1>1, <1>5, TotalGrows DEF Fits
    <3>2. Shrunk(sizes) \in 0..(L - 1) /\ \A k \in (Shrunk(sizes) + 1)..(L - 1) : ~Fits(sizes, k)
      BY <3>1, <1>1, <1>5, ShrunkIs
    <3>3. \A k \in (Shrunk(sizes) + 1)..L : k = L \/ k \in (Shrunk(sizes) + 1)..(L - 1)
      BY <3>2, <1>1
    <3> QED
      BY <2>2, <3>2, <3>3, <1>1
  <2> QED
    BY <2>1, <2>2
<1> HIDE DEF sizes, kept, rows
<1>8. /\ shown \in Seq(Candidates(m)) /\ Len(shown) = kept
      /\ \A i \in 1..kept : shown[i] = ranked[i]
  BY <1>1, <1>3, <1>7
<1> HIDE DEF shown
<1>9. Listed(m) = [kind |-> "candidates", count |-> N, not_listed |-> N - L,
                   left_out |-> L - kept, candidates |-> shown]
  BY <1>2, <1>3, <1>5, <1>6 DEF Listed, ranked, rows, L, kept, shown
<1>10. kept + (L - kept) = L /\ L + (N - L) = N /\ L - kept \in Nat /\ (L - kept > 0 => kept < L)
       /\ kept \in 0..N /\ shown \in [1..kept -> Candidates(m)]
  BY <1>1, <1>7, <1>8
<1> DEFINE r == Listed(m)
<1>11. /\ Len(r.candidates) = kept /\ r.left_out = L - kept /\ r.count = N
       /\ r.not_listed = N - L /\ r.candidates = shown
  BY <1>8, <1>9
<1>12. Len(r.candidates) + r.left_out = L
  BY <1>10, <1>11
<1>13. sizes = [i \in 1..L |-> SizeOf(m, Ranked(m)[i])]
  BY DEF sizes, ranked
<1> HIDE DEF r
<1> QED
  BY <1>1, <1>5, <1>7, <1>8, <1>10, <1>11, <1>12, <1>13 DEF r, N, ranked

(* No candidate below the cut was scored higher than one above it. *)
LEMMA BestAre ==
    ASSUME NEW m, Matches(m),
           NEW i \in 1..Len(Listed(m).candidates), NEW d \in Candidates(m),
           \A j \in 1..Len(Listed(m).candidates) : Listed(m).candidates[j] # d,
           NEW y \in Scores(m, d)
    PROVE  \E x \in Scores(m, Listed(m).candidates[i]) : x >= y
<1> DEFINE n == Len(Listed(m).candidates)
           c == Listed(m).candidates[i]
           N == Cardinality(Candidates(m))
<1>1. n \in 0..N /\ N \in Nat /\ \A j \in 1..n : Listed(m).candidates[j] = Ranked(m)[j]
  BY ListedIs, CandidatesFinite
<1>2. PICK j \in 1..N : Ranked(m)[j] = d
  BY RankedIs
<1>3. j \notin 1..n
  BY <1>1, <1>2
<1>4. c \in Candidates(m) /\ Cardinality(Ahead(m, c)) = i - 1 /\ Cardinality(Ahead(m, d)) = j - 1
  <2>1. /\ Ranked(m) \in [1..N -> Candidates(m)]
        /\ \A k \in 1..N : Cardinality(Ahead(m, Ranked(m)[k])) = k - 1
    BY RankedIs
  <2>2. i \in 1..N /\ i \in 1..n /\ c = Ranked(m)[i]
    BY <1>1
  <2> HIDE DEF c, n, N
  <2> QED
    BY <1>2, <2>1, <2>2
<1>5. ~Outranks(m, d, c) /\ c # d
  BY <1>1, <1>3, <1>4, PlacesAre
<1>6. Outranks(m, c, d)
  BY <1>4, <1>5, OutranksOrders
<1> HIDE DEF c
<1>7. HighestScore(m, c) \in Scores(m, c) /\ HighestScore(m, c) \in Nat
  BY <1>4, HighestIs
<1>8. HighestScore(m, d) \in Nat /\ y <= HighestScore(m, d)
  BY HighestIs
<1>9. y \in Nat
  BY DEF Scores, Matches
<1>10. HighestScore(m, c) >= HighestScore(m, d)
  BY <1>6, <1>7, <1>8 DEF Outranks
<1>11. HighestScore(m, c) >= y
  BY <1>7, <1>8, <1>9, <1>10
<1> QED
  BY <1>7, <1>11 DEF c

----------------------------------------------------------------------------
(* The stage summary. *)

RowRecord == [sub : SubStage, attempt : 0..(MaxAttempts6 - 1), status : {"IN PROGRESS", "COMPLETED"}]

(* The pipeline begins an attempt of a substage before it ends it and      *)
(* before it begins a later one, and each has been begun after those       *)
(* before it.                                                              *)
BegunFirst(rs) ==
    \A i, j \in DOMAIN rs :
        rs[i].status = "IN PROGRESS" /\ rs[j].sub = rs[i].sub /\ rs[j].attempt >= rs[i].attempt
            => j >= i
EachBegun(rs) ==
    \A j \in DOMAIN rs : \A a \in Nat : a <= rs[j].attempt =>
        \E k \in DOMAIN rs : rs[k].sub = rs[j].sub /\ rs[k].attempt = a
InOrder(rs) == BegunFirst(rs) /\ EachBegun(rs)

LEMMA RowsAre ==
    ASSUME NEW rs \in Seq(RowRecord)
    PROVE  /\ Len(rs) \in Nat /\ DOMAIN rs = 1..Len(rs)
           /\ \A i \in DOMAIN rs : /\ rs[i].sub \in SubStage /\ rs[i].attempt \in Nat
                                   /\ rs[i].attempt <= MaxAttempts6
                                   /\ rs[i].status \in {"IN PROGRESS", "COMPLETED"}
                                   /\ rs[i] = Row(rs[i].sub, rs[i].attempt, rs[i].status)
<1>1. MaxAttempts6 \in Nat
  BY ProcessDbAssumption
<1>2. Len(rs) \in Nat /\ DOMAIN rs = 1..Len(rs) /\ \A i \in 1..Len(rs) : rs[i] \in RowRecord
  OBVIOUS
<1>3. ASSUME NEW r \in RowRecord
      PROVE  /\ r.sub \in SubStage /\ r.attempt \in Nat /\ r.attempt <= MaxAttempts6
             /\ r.status \in {"IN PROGRESS", "COMPLETED"}
             /\ r = Row(r.sub, r.attempt, r.status)
  <2>1. r.sub \in SubStage /\ r.attempt \in 0..(MaxAttempts6 - 1) /\ r.status \in {"IN PROGRESS", "COMPLETED"}
    BY DEF RowRecord
  <2>2. r = [sub |-> r.sub, attempt |-> r.attempt, status |-> r.status]
    BY DEF RowRecord
  <2>3. r = Row(r.sub, r.attempt, r.status)
    BY <2>2, Zenon DEF Row
  <2>4. ASSUME NEW a \in 0..(MaxAttempts6 - 1)
        PROVE  a \in Nat /\ a <= MaxAttempts6
    BY <1>1
  <2> QED
    BY <2>1, <2>3, <2>4
<1> HIDE DEF RowRecord
<1> QED
  BY <1>2, <1>3

LEMMA LatestIs ==
    ASSUME NEW rs \in Seq(RowRecord), NEW s, AttemptsOf(rs, s) # {}
    PROVE  /\ LatestOf(rs, s) \in AttemptsOf(rs, s) /\ LatestOf(rs, s) \in Nat
           /\ \A b \in AttemptsOf(rs, s) : b <= LatestOf(rs, s)
<1>1. MaxAttempts6 \in Nat
  BY ProcessDbAssumption
<1>2. AttemptsOf(rs, s) \in SUBSET Nat /\ \A b \in AttemptsOf(rs, s) : b <= MaxAttempts6
  BY <1>1, RowsAre DEF AttemptsOf
<1>3. \E a \in AttemptsOf(rs, s) : \A b \in AttemptsOf(rs, s) : a >= b
  BY <1>1, <1>2, GreatestNatural
<1>4. \E a \in AttemptsOf(rs, s) : \A b \in AttemptsOf(rs, s) : b <= a
  BY <1>2, <1>3
<1> QED
  BY <1>2, <1>4 DEF LatestOf

(* The rows of an attempt that is in progress in the newest rows, and      *)
(* those of later attempts, are all among the newest.                      *)
LEMMA NewestIs ==
    ASSUME NEW rs \in Seq(RowRecord), InOrder(rs), NEW n \in Nat
    PROVE  OpenSubstages(Newest(rs, n)) \subseteq OpenSubstages(rs)
<1> DEFINE first == IF Len(rs) > n THEN Len(rs) - n + 1 ELSE 1
           new == Newest(rs, n)
<1>1. first \in Nat /\ first >= 1 /\ first <= Len(rs) + 1 /\ Len(rs) \in Nat
  OBVIOUS
<1>r. DOMAIN rs = 1..Len(rs) /\ \A j \in DOMAIN rs : rs[j].attempt \in Nat
  BY RowsAre
<1>2. new = SubSeq(rs, first, Len(rs))
  BY DEF Newest
<1> HIDE DEF first, new
<1>3. /\ new \in Seq(RowRecord) /\ Len(new) = Len(rs) - first + 1
      /\ \A i \in 1..Len(new) : new[i] = rs[first + i - 1]
  <2> HIDE DEF RowRecord
  <2> QED
    BY <1>1, <1>2
<1>n. DOMAIN new = 1..Len(new)
  BY <1>3
<1>4. \A i \in DOMAIN new : first + i - 1 \in DOMAIN rs /\ new[i] = rs[first + i - 1]
  <2> TAKE i \in DOMAIN new
  <2>1. i \in 1..Len(new) /\ Len(new) = Len(rs) - first + 1
    BY <1>3, <1>n
  <2>2. first + i - 1 \in 1..Len(rs)
    BY <2>1, <1>1
  <2> QED
    BY <2>1, <2>2, <1>3, <1>r
<1>5. \A j \in DOMAIN rs : j >= first => j - first + 1 \in DOMAIN new /\ new[j - first + 1] = rs[j]
  <2> SUFFICES ASSUME NEW j \in 1..Len(rs), j >= first
               PROVE  j - first + 1 \in 1..Len(new) /\ new[j - first + 1] = rs[j]
    BY <1>r, <1>n
  <2>1. j - first + 1 \in 1..Len(new) /\ first + (j - first + 1) - 1 = j
    BY <1>1, <1>3
  <2>2. new[j - first + 1] = rs[first + (j - first + 1) - 1]
    BY <2>1, <1>3
  <2> QED
    BY <2>1, <2>2
<1> SUFFICES ASSUME NEW s \in OpenSubstages(new)
             PROVE  s \in OpenSubstages(rs)
  BY DEF new
<1> DEFINE a == LatestOf(new, s)
<1>6. s \in SubStage \ RequestCopy /\ AttemptsOf(new, s) # {} /\ AttemptState(new, s, a) = "in_progress"
  BY DEF OpenSubstages
<1>7. a \in AttemptsOf(new, s) /\ a \in Nat /\ \A b \in AttemptsOf(new, s) : b <= a
  <2>1. new \in Seq(RowRecord) /\ AttemptsOf(new, s) # {}
    BY <1>3, <1>6
  <2>2. /\ LatestOf(new, s) \in AttemptsOf(new, s) /\ LatestOf(new, s) \in Nat
        /\ \A b \in AttemptsOf(new, s) : b <= LatestOf(new, s)
    BY <2>1, LatestIs, Zenon
  <2> QED
    BY <2>2
<1> HIDE DEF a
<1>8. "COMPLETED" \notin StatusesOf(new, s, a) /\ "IN PROGRESS" \in StatusesOf(new, s, a)
  BY <1>6 DEF AttemptState
<1>9. PICK i \in DOMAIN new : new[i].sub = s /\ new[i].attempt = a /\ new[i].status = "IN PROGRESS"
  BY <1>8 DEF StatusesOf
<1>10. ASSUME NEW j \in DOMAIN rs, rs[j].sub = s, rs[j].attempt >= a
       PROVE  j >= first
  <2>1. j >= first + i - 1
    <3> DEFINE i0 == first + i - 1
    <3>1. i0 \in DOMAIN rs /\ new[i] = rs[i0]
      BY <1>4
    <3> HIDE DEF i0
    <3>2. rs[i0].status = "IN PROGRESS" /\ rs[j].sub = rs[i0].sub /\ rs[j].attempt >= rs[i0].attempt
      BY <3>1, <1>9, <1>10
    <3>3. j >= i0
      BY <3>1, <3>2 DEF InOrder, BegunFirst
    <3> QED
      BY <3>3 DEF i0
  <2>2. i \in Nat /\ i >= 1 /\ j \in Nat
    BY <1>3, <1>r, <1>n
  <2> QED
    BY <1>1, <2>1, <2>2
<1>11. \A b \in AttemptsOf(rs, s) : b \in Nat /\ b <= a
  <2> SUFFICES ASSUME NEW j \in DOMAIN rs, rs[j].sub = s
               PROVE  rs[j].attempt \in Nat /\ rs[j].attempt <= a
    BY DEF AttemptsOf
  <2>1. rs[j].attempt \in Nat
    BY <1>r
  <2>2. CASE rs[j].attempt >= a
    <3>1. rs[j].attempt \in AttemptsOf(new, s)
      BY <2>2, <1>5, <1>10 DEF AttemptsOf
    <3> QED
      BY <3>1, <2>1, <1>7
  <2> QED
    BY <2>1, <2>2, <1>7
<1>12. a \in AttemptsOf(rs, s)
  BY <1>4, <1>9 DEF AttemptsOf
<1>13. LatestOf(rs, s) = a
  BY <1>7, <1>11, <1>12, LatestIs
<1>14. "COMPLETED" \notin StatusesOf(rs, s, a)
  <2> SUFFICES ASSUME NEW j \in DOMAIN rs, rs[j].sub = s, rs[j].attempt = a, rs[j].status = "COMPLETED"
               PROVE  FALSE
    BY DEF StatusesOf
  <2>1. "COMPLETED" \in StatusesOf(new, s, a)
    BY <1>5, <1>7, <1>10 DEF StatusesOf
  <2> QED
    BY <2>1, <1>8
<1>15. "IN PROGRESS" \in StatusesOf(rs, s, a)
  BY <1>4, <1>9 DEF StatusesOf
<1> QED
  BY <1>6, <1>12, <1>13, <1>14, <1>15 DEF OpenSubstages, AttemptState

----------------------------------------------------------------------------
(* The invariant. *)

NoHelper == [shape |-> "absent"]
Tables == Seq(RowRecord)
Reply6 ==
    {NoReply, Gap} \cup {Summary(rs) : rs \in Seq(RowRecord)}
        \cup {CandidatesReply(h) : h \in HelperRecords \cup {NoHelper}}
LookRecord ==
    [at : {"idle", "admit", "lock", "build", "query", "done"}, tries : Nat, reply : Reply6,
     asof : Tables]


DbTyped ==
    /\ tool6 \in {"stages", "candidates"} /\ tracker \in Seq(RowRecord)
    /\ helper \in HelperRecords \cup {NoHelper}
    /\ engine6 \in {0, 1} /\ (building = {} \/ \E l \in Lookup6 : building = {l})
    /\ breaker6 \in [state : {"closed", "open", "elapsed", "half"}, fails : Nat]
    /\ breaker6.state = "closed" => breaker6.fails < FailMax6
    /\ look \in [Lookup6 -> LookRecord]

(* A reply is a gap, or what the table it was read from says. *)
Honest(k) ==
    k.at = "done" =>
        \/ k.reply = Gap
        \/ /\ InOrder(k.asof)
           /\ k.reply = IF tool6 = "stages" THEN Summary(k.asof) ELSE CandidatesReply(helper)
RepliesRead == \A l \in Lookup6 : Honest(look[l])

DbInv == DbTyped /\ InOrder(tracker) /\ RepliesRead

LEMMA DbInvInit == ProcessDbInit => DbInv
<1> SUFFICES ASSUME ProcessDbInit PROVE DbInv
  OBVIOUS
<1>1. NoLook \in LookRecord
  BY DEF NoLook, LookRecord, Reply6, Tables
<1>2. FailMax6 > 0 /\ FailMax6 \in Nat
  BY ProcessDbAssumption
<1>3. DbTyped
  BY <1>1, <1>2 DEF ProcessDbInit, DbTyped, NoHelper
<1>4. InOrder(<<>>) /\ tracker = <<>>
  BY DEF ProcessDbInit, InOrder, BegunFirst, EachBegun
<1>5. RepliesRead
  BY DEF ProcessDbInit, NoLook, RepliesRead, Honest
<1> QED
  BY <1>3, <1>4, <1>5 DEF DbInv

(* The row the pipeline may write next. *)
Follows(rs, row) ==
    /\ row.attempt > 0 => \E j \in DOMAIN rs : rs[j].sub = row.sub /\ rs[j].attempt = row.attempt - 1
    /\ row.status = "IN PROGRESS" => \A j \in DOMAIN rs : rs[j].sub = row.sub => rs[j].attempt # row.attempt

(* The pipeline's next row keeps the order. *)
LEMMA OrderKept ==
    ASSUME NEW rs, NEW n \in Nat, DOMAIN rs = 1..n, \A j \in 1..n : rs[j].attempt \in Nat, InOrder(rs),
           NEW row, row.attempt \in Nat, Follows(rs, row),
           NEW longer, DOMAIN longer = 1..(n + 1), longer[n + 1] = row,
           \A i \in 1..n : longer[i] = rs[i]
    PROVE  InOrder(longer)
<1>2. n \in Nat /\ DOMAIN rs = 1..n
  OBVIOUS
<1>3. \A j \in 1..n : \A a \in Nat : a <= rs[j].attempt =>
          \E k \in 1..n : rs[k].sub = rs[j].sub /\ rs[k].attempt = a
  BY DEF InOrder, EachBegun
<1>7. ASSUME row.status = "IN PROGRESS", NEW j \in 1..n, rs[j].sub = row.sub, rs[j].attempt >= row.attempt
      PROVE  FALSE
  <2>1. PICK k \in 1..n : rs[k].sub = row.sub /\ rs[k].attempt = row.attempt
    <3>1. row.attempt <= rs[j].attempt
      BY <1>7
    <3>2. \E k \in 1..n : rs[k].sub = rs[j].sub /\ rs[k].attempt = row.attempt
      BY <1>3, <3>1
    <3> QED
      BY <3>2, <1>7
  <2> QED
    BY <1>2, <1>7, <2>1 DEF Follows
<1>8. ASSUME NEW i \in 1..(n + 1), NEW j \in 1..(n + 1), longer[i].status = "IN PROGRESS",
             longer[j].sub = longer[i].sub, longer[j].attempt >= longer[i].attempt
      PROVE  j >= i
  <2>1. CASE i \in 1..n /\ j \in 1..n
    <3>1. longer[i] = rs[i] /\ longer[j] = rs[j] /\ i \in DOMAIN rs /\ j \in DOMAIN rs
      BY <2>1, <1>2
    <3> QED
      BY <1>8, <3>1 DEF InOrder, BegunFirst
  <2>2. CASE i = n + 1 /\ j \in 1..n
    <3>1. longer[i] = row /\ longer[j] = rs[j]
      BY <2>2
    <3> QED
      BY <3>1, <2>2, <1>7, <1>8
  <2>3. CASE j = n + 1
    BY <1>2, <2>3
  <2> QED
    BY <1>2, <2>1, <2>2, <2>3
<1>9. ASSUME NEW j \in 1..(n + 1), NEW b \in Nat, b <= longer[j].attempt
      PROVE  \E k \in 1..(n + 1) : longer[k].sub = longer[j].sub /\ longer[k].attempt = b
  <2>1. CASE j \in 1..n
    <3>1. longer[j] = rs[j]
      BY <2>1
    <3>2. PICK k \in 1..n : rs[k].sub = rs[j].sub /\ rs[k].attempt = b
      BY <1>9, <2>1, <3>1, <1>3
    <3>3. k \in 1..(n + 1) /\ longer[k] = rs[k]
      BY <1>2
    <3> QED
      BY <3>1, <3>2, <3>3
  <2>2. CASE j = n + 1
    <3>1. longer[j] = row
      BY <2>2
    <3>2. CASE b = row.attempt
      BY <3>1, <3>2
    <3>3. CASE b # row.attempt
      <4>1. row.attempt > 0 /\ b <= row.attempt - 1
        BY <1>9, <3>1, <3>3
      <4>2. PICK i \in 1..n : rs[i].sub = row.sub /\ rs[i].attempt = row.attempt - 1
        BY <4>1, <1>2 DEF Follows
      <4>3. PICK k \in 1..n : rs[k].sub = row.sub /\ rs[k].attempt = b
        BY <4>1, <4>2, <1>3
      <4>4. k \in 1..(n + 1) /\ longer[k] = rs[k]
        BY <1>2
      <4> QED
        BY <3>1, <4>3, <4>4
    <3> QED
      BY <3>2, <3>3
  <2> QED
    BY <1>2, <2>1, <2>2
<1>10. BegunFirst(longer)
  BY <1>8 DEF BegunFirst
<1>11. EachBegun(longer)
  <2> SUFFICES ASSUME NEW j \in DOMAIN longer, NEW b \in Nat, b <= longer[j].attempt
               PROVE  \E k \in DOMAIN longer : longer[k].sub = longer[j].sub /\ longer[k].attempt = b
    BY DEF EachBegun
  <2>1. j \in 1..(n + 1)
    OBVIOUS
  <2>2. PICK k \in 1..(n + 1) : longer[k].sub = longer[j].sub /\ longer[k].attempt = b
    BY <2>1, <1>9
  <2> QED
    BY <2>2
<1> QED
  BY <1>10, <1>11 DEF InOrder

LEMMA RowKeepsOrder ==
    ASSUME NEW rs \in Seq(RowRecord), InOrder(rs), NEW row \in RowRecord, Follows(rs, row)
    PROVE  /\ Append(rs, row) \in Seq(RowRecord)
           /\ InOrder(Append(rs, row))
<1> DEFINE n == Len(rs)
           longer == Append(rs, row)
<1>1. row.attempt \in Nat
  <2>1. MaxAttempts6 \in Nat
    BY ProcessDbAssumption
  <2>2. row.attempt \in 0..(MaxAttempts6 - 1)
    BY DEF RowRecord
  <2> QED
    BY <2>1, <2>2
<1>2. n \in Nat /\ DOMAIN rs = 1..n /\ \A j \in 1..n : rs[j].attempt \in Nat
  BY RowsAre
<1> HIDE DEF RowRecord
<1>3. longer \in Seq(RowRecord) /\ Len(longer) = n + 1 /\ longer[n + 1] = row
  BY AppendProperties
<1>4. \A i \in 1..n : longer[i] = rs[i]
  BY AppendProperties
<1>5. DOMAIN longer = 1..(n + 1)
  BY <1>3
<1> HIDE DEF n, longer
<1>6. InOrder(longer)
  BY <1>1, <1>2, <1>3, <1>4, <1>5, OrderKept
<1> QED
  BY <1>3, <1>6 DEF longer

(* One lookup moves, and is honest where it comes to. *)
LEMMA OneLookupMoves ==
    ASSUME RepliesRead, UNCHANGED <<tool6, helper>>, NEW l \in Lookup6,
           \A m \in Lookup6 \ {l} : look'[m] = look[m], Honest(look'[l])
    PROVE  RepliesRead'
<1>1. ASSUME NEW m \in Lookup6 PROVE Honest(look'[m])
  BY DEF RepliesRead, Honest
<1>2. ASSUME NEW m \in Lookup6 PROVE Honest(look[m])'
  BY <1>1 DEF Honest
<1> QED
  BY <1>2 DEF RepliesRead, Honest

LEMMA DbInvStep == DbInv /\ [ProcessDbNext]_processDbVars => DbInv'
<1> SUFFICES ASSUME DbInv, [ProcessDbNext]_processDbVars PROVE DbInv'
  OBVIOUS
<1>1. DbTyped /\ InOrder(tracker) /\ RepliesRead
  BY DEF DbInv
<1>2. /\ FailMax6 \in Nat /\ FailMax6 > 0
      /\ look \in [Lookup6 -> LookRecord] /\ tracker \in Tables
      /\ NoReply \in Reply6 /\ Gap \in Reply6 /\ <<>> \in Tables
      /\ \A l : Reply(l) \in Reply6
  BY <1>1, ProcessDbAssumption DEF DbTyped, Tables, Reply6, Reply
<1>3. CASE UNCHANGED processDbVars
  BY <1>1, <1>3 DEF DbInv, DbTyped, RepliesRead, Honest, processDbVars
<1>4. ASSUME NEW s \in SubStage, NEW a \in 0..(MaxAttempts6 - 1),
             NEW status \in {"IN PROGRESS", "COMPLETED"}, StageWrites(s, a, status)
      PROVE  DbInv'
  <2> DEFINE row == Row(s, a, status)
  <2>1. row \in RowRecord /\ row.sub = s /\ row.attempt = a /\ row.status = status
    BY DEF Row, RowRecord
  <2>2. Follows(tracker, row)
    <3>1. \A j \in DOMAIN tracker : tracker[j] = Row(tracker[j].sub, tracker[j].attempt, tracker[j].status)
                                      /\ tracker[j].status \in {"IN PROGRESS", "COMPLETED"}
      BY <1>1, RowsAre DEF DbTyped
    <3>2. status = "IN PROGRESS" => Row(s, a, "IN PROGRESS") \notin Rows /\ Row(s, a, "COMPLETED") \notin Rows
      BY <1>4 DEF StageWrites
    <3>3. \A j \in DOMAIN tracker : tracker[j] \in Rows
      BY DEF Rows
    <3>4. ASSUME status = "IN PROGRESS", NEW j \in DOMAIN tracker, tracker[j].sub = s, tracker[j].attempt = a
          PROVE  FALSE
      BY <3>1, <3>2, <3>3, <3>4
    <3>5. a > 0 => \E j \in DOMAIN tracker : tracker[j].sub = s /\ tracker[j].attempt = a - 1
      BY <1>4 DEF StageWrites, Rows
    <3> HIDE DEF row
    <3> QED
      BY <2>1, <3>4, <3>5 DEF Follows
  <2> HIDE DEF row
  <2>3. tracker' = Append(tracker, row) /\ tracker' \in Seq(RowRecord) /\ InOrder(tracker')
    BY <1>1, <1>4, <2>1, <2>2, RowKeepsOrder DEF StageWrites, row, DbTyped
  <2>4. UNCHANGED <<tool6, helper, engine6, building, breaker6, look>>
    BY <1>4 DEF StageWrites
  <2>5. InOrder(tracker)'
    BY <2>3 DEF InOrder, BegunFirst, EachBegun
  <2> QED
    BY <1>1, <2>3, <2>4, <2>5 DEF DbInv, DbTyped, RepliesRead, Honest
<1>5. CASE GoesDown \/ ComesBack \/ BreakerElapses
  BY <1>1, <1>5 DEF DbInv, DbTyped, RepliesRead, Honest, GoesDown, ComesBack, BreakerElapses
<1>6. ASSUME NEW l \in Lookup6, StartLookup(l)
      PROVE  DbInv'
  <2> DEFINE k == [at |-> IF enabled6 THEN "admit" ELSE "done", tries |-> 0,
                   reply |-> IF enabled6 THEN NoReply ELSE Gap, asof |-> <<>>]
  <2>1. k \in LookRecord /\ Honest(k)
    BY <1>2 DEF LookRecord, Honest
  <2>2. look' = [look EXCEPT ![l] = k] /\ UNCHANGED <<tool6, tracker, helper, engine6, building, breaker6>>
    BY <1>6 DEF StartLookup
  <2> HIDE DEF k
  <2>3. look' \in [Lookup6 -> LookRecord] /\ look'[l] = k /\ \A m \in Lookup6 \ {l} : look'[m] = look[m]
    <3> HIDE DEF LookRecord
    <3> QED
      BY <1>2, <2>1, <2>2
  <2>4. RepliesRead'
    BY <1>1, <2>1, <2>2, <2>3, OneLookupMoves
  <2>5. DbTyped'
    BY <1>1, <2>2, <2>3 DEF DbTyped
  <2> QED
    BY <1>1, <2>2, <2>4, <2>5 DEF DbInv
<1>7. ASSUME NEW l \in Lookup6, AdmitLookup(l)
      PROVE  DbInv'
  <2>1. CASE breaker6.state = "open"
    <3>1. /\ look' = [look EXCEPT ![l].at = "done", ![l].reply = Gap, ![l].asof = tracker]
          /\ UNCHANGED <<tool6, tracker, helper, engine6, building, breaker6>>
      BY <1>7, <2>1 DEF AdmitLookup, Answer
    <3>2. /\ look' \in [Lookup6 -> LookRecord] /\ look'[l].reply = Gap
          /\ \A m \in Lookup6 \ {l} : look'[m] = look[m]
      BY <1>2, <3>1 DEF LookRecord
    <3>3. RepliesRead'
      BY <1>1, <3>1, <3>2, OneLookupMoves DEF Honest
    <3>4. DbTyped'
      BY <1>1, <3>1, <3>2 DEF DbTyped
    <3> QED
      BY <1>1, <3>1, <3>3, <3>4 DEF DbInv
  <2>2. CASE breaker6.state # "open"
    <3>1. PICK a \in {"lock", "query"} : look' = [look EXCEPT ![l].at = a]
      BY <1>7, <2>2 DEF AdmitLookup, Goto6
    <3>2. /\ breaker6' = [breaker6 EXCEPT !.state = IF @ = "elapsed" THEN "half" ELSE @]
          /\ UNCHANGED <<tool6, tracker, helper, engine6, building>>
      BY <1>7, <2>2 DEF AdmitLookup
    <3>3. /\ look' \in [Lookup6 -> LookRecord] /\ look'[l].at = a
          /\ \A m \in Lookup6 \ {l} : look'[m] = look[m]
      BY <1>2, <3>1 DEF LookRecord
    <3>4. RepliesRead'
      BY <1>1, <3>2, <3>3, OneLookupMoves DEF Honest
    <3>5. /\ breaker6' \in [state : {"closed", "open", "elapsed", "half"}, fails : Nat]
          /\ breaker6'.state = "closed" => breaker6'.fails < FailMax6
      BY <1>1, <3>2 DEF DbTyped
    <3>6. DbTyped'
      BY <1>1, <3>2, <3>3, <3>5 DEF DbTyped
    <3> QED
      BY <1>1, <3>2, <3>4, <3>6 DEF DbInv
  <2> QED
    BY <2>1, <2>2
<1>8. ASSUME NEW l \in Lookup6, LockEngine(l) \/ BuildEngine(l)
      PROVE  DbInv'
  <2>1. PICK a \in {"build", "query"} : look' = [look EXCEPT ![l].at = a]
    BY <1>8 DEF LockEngine, BuildEngine, Goto6
  <2>2. /\ building' \in {{}, {l}} /\ engine6' \in {engine6, 1}
        /\ UNCHANGED <<tool6, tracker, helper, breaker6>>
    BY <1>8 DEF LockEngine, BuildEngine
  <2>3. /\ look' \in [Lookup6 -> LookRecord] /\ look'[l].at = a
        /\ \A m \in Lookup6 \ {l} : look'[m] = look[m]
    BY <1>2, <2>1 DEF LookRecord
  <2>4. RepliesRead'
    BY <1>1, <2>2, <2>3, OneLookupMoves DEF Honest
  <2>5. DbTyped'
    BY <1>1, <2>2, <2>3 DEF DbTyped
  <2> QED
    BY <1>1, <2>2, <2>4, <2>5 DEF DbInv
<1>9. ASSUME NEW l \in Lookup6, QueryAnswers(l)
      PROVE  DbInv'
  <2>1. /\ look' = [look EXCEPT ![l].at = "done", ![l].reply = Reply(l), ![l].asof = tracker]
        /\ breaker6' = [state |-> IF breaker6.state = "half" THEN "closed" ELSE breaker6.state, fails |-> 0]
        /\ UNCHANGED <<tool6, tracker, helper, engine6, building>>
    BY <1>9 DEF QueryAnswers, Answer
  <2>2. /\ look' \in [Lookup6 -> LookRecord] /\ look'[l].reply = Reply(l) /\ look'[l].asof = tracker
        /\ \A m \in Lookup6 \ {l} : look'[m] = look[m]
    BY <1>2, <2>1 DEF LookRecord
  <2>3. Honest(look'[l])
    BY <1>1, <2>2 DEF Honest, Reply
  <2>4. RepliesRead'
    BY <1>1, <2>1, <2>2, <2>3, OneLookupMoves
  <2>5. /\ breaker6' \in [state : {"closed", "open", "elapsed", "half"}, fails : Nat]
        /\ breaker6'.state = "closed" => breaker6'.fails < FailMax6
    BY <1>1, <1>2, <2>1 DEF DbTyped
  <2>6. DbTyped'
    BY <1>1, <2>1, <2>2, <2>5 DEF DbTyped
  <2> QED
    BY <1>1, <2>1, <2>4, <2>6 DEF DbInv
<1>10. ASSUME NEW l \in Lookup6, QueryRetried(l)
       PROVE  DbInv'
  <2>1. /\ look' = [look EXCEPT ![l].tries = look[l].tries + 1] /\ look[l].at = "query"
        /\ UNCHANGED <<tool6, tracker, helper, engine6, building, breaker6>>
    BY <1>10 DEF QueryRetried, At6
  <2>2. look[l].tries + 1 \in Nat
    BY <1>2 DEF LookRecord
  <2>3. /\ look' \in [Lookup6 -> LookRecord] /\ look'[l].at = "query"
        /\ \A m \in Lookup6 \ {l} : look'[m] = look[m]
    BY <1>2, <2>1, <2>2 DEF LookRecord
  <2>4. RepliesRead'
    BY <1>1, <2>1, <2>3, OneLookupMoves DEF Honest
  <2>5. DbTyped'
    BY <1>1, <2>1, <2>3 DEF DbTyped
  <2> QED
    BY <1>1, <2>1, <2>4, <2>5 DEF DbInv
<1>11. ASSUME NEW l \in Lookup6, QueryFails(l)
       PROVE  DbInv'
  <2>1. /\ look' = [look EXCEPT ![l].at = "done", ![l].reply = Gap, ![l].asof = tracker]
        /\ breaker6' = Failed /\ UNCHANGED <<tool6, tracker, helper, engine6, building>>
    BY <1>11 DEF QueryFails, Answer
  <2>2. /\ look' \in [Lookup6 -> LookRecord] /\ look'[l].reply = Gap
        /\ \A m \in Lookup6 \ {l} : look'[m] = look[m]
    BY <1>2, <2>1 DEF LookRecord
  <2>3. RepliesRead'
    BY <1>1, <2>1, <2>2, OneLookupMoves DEF Honest
  <2>4. /\ breaker6' \in [state : {"closed", "open", "elapsed", "half"}, fails : Nat]
        /\ breaker6'.state = "closed" => breaker6'.fails < FailMax6
    BY <1>1, <1>2, <2>1 DEF DbTyped, Failed
  <2>5. DbTyped'
    BY <1>1, <2>1, <2>2, <2>4 DEF DbTyped
  <2> QED
    BY <1>1, <2>1, <2>3, <2>5 DEF DbInv
<1> QED
  BY <1>3, <1>4, <1>5, <1>6, <1>7, <1>8, <1>9, <1>10, <1>11 DEF ProcessDbNext

(* What the invariant says of one finished lookup. *)
LEMMA RepliesAre ==
    ASSUME DbInv, NEW k \in Replies
    PROVE  \/ k.reply = Gap
           \/ tool6 = "stages" /\ k.asof \in Seq(RowRecord) /\ InOrder(k.asof) /\ k.reply = Summary(k.asof)
           \/ tool6 = "candidates" /\ helper.shape = "absent" /\ k.reply = [kind |-> "not_found"]
           \/ tool6 = "candidates" /\ k.reply = [kind |-> "unrecognised"]
           \/ tool6 = "candidates" /\ Matches(helper.matches) /\ k.reply = Listed(helper.matches)
<1>1. PICK l \in Lookup6 : At6(l, "done") /\ k = look[l]
  BY DEF Replies
<1>2. look[l] \in LookRecord
  BY DEF DbInv, DbTyped
<1>3. k.asof \in Seq(RowRecord)
  BY <1>1, <1>2 DEF LookRecord, Tables
<1>4. helper.shape \in {"absent", "other", "matches"} /\ (helper.shape = "matches" => Matches(helper.matches))
  <2>1. helper \in HelperRecords \/ helper = NoHelper
    BY DEF DbInv, DbTyped
  <2>2. CASE helper \in HelperRecords
    BY <2>2, ProcessDbAssumption, Zenon DEF Matches
  <2>3. CASE helper = NoHelper
    BY <2>3 DEF NoHelper
  <2> QED
    BY <2>1, <2>2, <2>3
<1>5. \/ k.reply = Gap
      \/ InOrder(k.asof) /\ k.reply = IF tool6 = "stages" THEN Summary(k.asof) ELSE CandidatesReply(helper)
  BY <1>1 DEF DbInv, RepliesRead, Honest, At6
<1>6. \/ helper.shape = "absent" /\ CandidatesReply(helper) = [kind |-> "not_found"]
      \/ CandidatesReply(helper) = [kind |-> "unrecognised"]
      \/ helper.shape = "matches" /\ CandidatesReply(helper) = Listed(helper.matches)
  BY <1>4 DEF CandidatesReply
<1>7. tool6 \in {"stages", "candidates"}
  BY DEF DbInv, DbTyped
<1> QED
  BY <1>3, <1>4, <1>5, <1>6, <1>7

LEMMA KindsAre ==
    ASSUME NEW rs, NEW m
    PROVE  /\ Gap.kind = "gap" /\ [kind |-> "not_found"].kind = "not_found"
           /\ [kind |-> "unrecognised"].kind = "unrecognised"
           /\ Summary(rs).kind \in {"not_found", "summary"} /\ (Summary(rs).kind = "not_found" => rs = <<>>)
           /\ Summary(rs).open = OpenSubstages(Newest(rs, SummaryMaxRows))
           /\ Listed(m).kind = "candidates"
  BY DEF Gap, Summary, Listed

LEMMA DbInvImplies == DbInv => RepliesAreTrue
<1> SUFFICES ASSUME DbInv PROVE RepliesAreTrue
  OBVIOUS
<1>1. ProcessDbTypeOK
  <2>1. \A i \in DOMAIN tracker : tracker[i].sub \in SubStage /\ tracker[i].attempt \in 0..(MaxAttempts6 - 1)
    <3>1. tracker \in Seq(RowRecord)
      BY DEF DbInv, DbTyped
    <3>2. ASSUME NEW r \in RowRecord PROVE r.sub \in SubStage /\ r.attempt \in 0..(MaxAttempts6 - 1)
      BY DEF RowRecord
    <3> HIDE DEF RowRecord
    <3>3. \A i \in DOMAIN tracker : tracker[i] \in RowRecord
      BY <3>1
    <3> QED
      BY <3>2, <3>3
  <2>2. Cardinality(building) <= 1
    <3>1. building = {} \/ \E l \in Lookup6 : building = {l}
      BY DEF DbInv, DbTyped
    <3>2. Cardinality({}) = 0 /\ \A l : Cardinality({l}) = 1
      BY FS_EmptySet, FS_Singleton
    <3> QED
      BY <3>1, <3>2
  <2>3. /\ breaker6.state \in {"closed", "open", "elapsed", "half"} /\ breaker6.fails \in Nat
        /\ breaker6.state = "closed" => breaker6.fails < FailMax6
    BY DEF DbInv, DbTyped
  <2> QED
    BY <2>1, <2>2, <2>3 DEF ProcessDbTypeOK
<1>2. NotFoundIsTrue
  BY RepliesAre, KindsAre DEF NotFoundIsTrue
<1>3. OpenIsOpen
  <2> SUFFICES ASSUME NEW k \in Replies, k.reply.kind = "summary"
               PROVE  k.reply.open \subseteq OpenSubstages(k.asof)
    BY DEF OpenIsOpen
  <2>1. k.asof \in Seq(RowRecord) /\ InOrder(k.asof) /\ k.reply = Summary(k.asof)
    BY RepliesAre, KindsAre
  <2>2. SummaryMaxRows \in Nat
    BY ProcessDbAssumption
  <2> QED
    BY <2>1, <2>2, NewestIs, KindsAre
<1>4. \A k \in Replies : k.reply.kind = "candidates" =>
          Matches(helper.matches) /\ k.reply = Listed(helper.matches)
  BY RepliesAre, KindsAre
<1>5. ListingIsWhole
  <2> SUFFICES ASSUME NEW k \in Replies, k.reply.kind = "candidates"
               PROVE  LET n == Len(k.reply.candidates)
                          sizes == [i \in 1..(n + k.reply.left_out) |->
                                        SizeOf(helper.matches, Ranked(helper.matches)[i])]
                      IN  /\ n + k.reply.left_out + k.reply.not_listed = k.reply.count
                          /\ k.reply.left_out > 0 => \A m \in (n + 1)..Len(sizes) : ~Fits(sizes, m)
    BY DEF ListingIsWhole
  <2>1. Matches(helper.matches) /\ k.reply = Listed(helper.matches)
    BY <1>4
  <2> QED
    BY <2>1, ListedIs
<1>6. BestAreShown
  <2> SUFFICES ASSUME NEW k \in Replies, k.reply.kind = "candidates",
                      NEW i \in DOMAIN k.reply.candidates,
                      NEW d \in Candidates(helper.matches),
                      \A j \in DOMAIN k.reply.candidates : k.reply.candidates[j] # d,
                      NEW y \in Scores(helper.matches, d)
               PROVE  \E x \in Scores(helper.matches, k.reply.candidates[i]) : x >= y
    BY DEF BestAreShown
  <2>1. Matches(helper.matches) /\ k.reply = Listed(helper.matches)
    BY <1>4
  <2>2. DOMAIN k.reply.candidates = 1..Len(k.reply.candidates)
    BY <2>1, ListedIs
  <2> QED
    BY <2>1, <2>2, BestAre
<1>7. OneEngine
  BY DEF OneEngine, DbInv, DbTyped
<1> QED
  BY <1>1, <1>2, <1>3, <1>5, <1>6, <1>7 DEF RepliesAreTrue

(* For any number of lookups, substages, attempts and rows, any caps and   *)
(* any helper records, while the pipeline writes and the database goes     *)
(* down and comes back: "not found" was read, an open substage was open in *)
(* the whole table, a list is cut at its end, by as little as fits, and    *)
(* counts what it left out, none left out outranks one shown, and the      *)
(* lookups share one engine.                                               *)
THEOREM RepliesAreHonest == ProcessDbSpec => []RepliesAreTrue
<1>1. ProcessDbSpec => []DbInv
  BY DbInvInit, DbInvStep, PTL DEF ProcessDbSpec
<1> QED
  BY <1>1, DbInvImplies, PTL

=============================================================================
