----------------------------- MODULE LogReduce -----------------------------
(***************************************************************************)
(* From a pod's raw lines to the trace a model is shown: the identifier    *)
(* filter with its context window (src/log_pipeline/sources/k8s/           *)
(* filtering.py), the noise floor, the error window and its folding, the   *)
(* clusters and their guardrails (src/log_pipeline/reducer.py), and the    *)
(* bound on the whole (src/log_pipeline/pipeline.py).                      *)
(*                                                                         *)
(* A line is what the stages look at: its level, its template, whether it  *)
(* carries the packet's identifier and whether it matches the decision     *)
(* vocabulary.  Lines are named by their place in the input.  There is no  *)
(* template catalog.                                                       *)
(***************************************************************************)
EXTENDS Integers, Sequences, FiniteSets, SequencesExt

CONSTANTS Line,         \* the lines a pod may log
          MaxLines,     \* bound: lines of the input
          Before, After,        \* K8S_CONTEXT_LINES_BEFORE, _AFTER
          MinLevel,             \* LOG_MIN_LEVEL
          ShortTrace,           \* traces below this are shown whole (50)
          ErrorContext,         \* LOG_ERROR_CONTEXT_LINES
          ErrorTrailing,        \* LOG_ERROR_TRAILING_LINES
          RepeatThreshold,      \* LOG_ERROR_REPEAT_THRESHOLD
          RareThreshold,        \* LOG_RARE_TEMPLATE_THRESHOLD
          BoilerplateCount,     \* LOG_BOILERPLATE_COUNT
          MaxDecisions,         \* LOG_MAX_DECISION_LINES
          MaxShown              \* LOG_MAX_REDUCED_CHARS, in entries

ASSUME ReduceAssumption ==
    /\ Line \subseteq [level : STRING, template : STRING, hit : BOOLEAN, decides : BOOLEAN]
    /\ MinLevel \in STRING
    /\ {MaxLines, Before, After, ShortTrace, ErrorContext, ErrorTrailing, RepeatThreshold,
        RareThreshold, BoilerplateCount, MaxDecisions, MaxShown} \subseteq Nat

VARIABLES
    input,      \* the pod's lines
    fed,        \* lines fed to the selector
    held,       \* its ring of lines before a match
    afterLeft,  \* lines still emitted after the last match
    emitted,    \* lines selected, in order
    stage,      \* the stage that comes next
    work,       \* lines the stages work on
    body,       \* the trace's entries: <<"line", i>>, <<"fold", i, n>> (line i
                \* and n further of its template), <<"template", i, n, examples>>,
                \* <<"decision", i>>, <<"omitted", n>> and <<"cut", n>>
    dropped     \* lines the noise floor took, told in the banner

reduceVars == <<input, fed, held, afterLeft, emitted, stage, work, body, dropped>>

ReduceTypeOK ==
    /\ fed \in 0..Len(input) /\ afterLeft \in 0..After
    /\ Len(held) <= Before
    /\ stage \in {"select", "floor", "branch", "fold", "cluster", "bound", "shown"}
    /\ dropped \in 0..MaxLines

ReduceInit ==
    /\ input \in UNION {[1..n -> Line] : n \in 1..MaxLines}
    /\ fed = 0 /\ held = <<>> /\ afterLeft = 0 /\ emitted = <<>>
    /\ stage = "select" /\ work = <<>> /\ body = <<>> /\ dropped = 0

Level(i) == input[i].level
Template(i) == input[i].template
Asks2(i) == Level(i) \in {"ERROR", "WARN"}

(* The entries of a list at the places ks, in their order *)
Place(ks, n) == CHOOSE k \in ks : Cardinality({j \in ks : j <= k}) = n
Only(s, ks) == [n \in 1..Cardinality(ks) |-> s[Place(ks, n)]]

-----------------------------------------------------------------------------
(* ContextWindowSelector.feed *)

(* Variant: nothing leaves the ring. *)
LastOfAll(s, n) == s

LastOf(s, n) == SubSeq(s, IF Len(s) > n THEN Len(s) - n + 1 ELSE 1, Len(s))

(* Variant: a match leaves its ring as it was. *)
FeedKeepingRing ==
    LET i == fed + 1 IN
    /\ stage = "select" /\ fed < Len(input)
    /\ fed' = i
    /\ \/ /\ input[i].hit
          /\ emitted' = emitted \o held \o <<i>>
          /\ afterLeft' = After /\ UNCHANGED held
       \/ /\ ~input[i].hit /\ afterLeft > 0
          /\ emitted' = Append(emitted, i)
          /\ afterLeft' = afterLeft - 1 /\ UNCHANGED held
       \/ /\ ~input[i].hit /\ afterLeft = 0
          /\ held' = LastOf(Append(held, i), Before)
          /\ UNCHANGED <<emitted, afterLeft>>
    /\ UNCHANGED <<input, stage, work, body, dropped>>

Feed ==
    LET i == fed + 1 IN
    /\ stage = "select" /\ fed < Len(input)
    /\ fed' = i
    /\ \/ /\ input[i].hit
          /\ emitted' = emitted \o held \o <<i>>
          /\ held' = <<>> /\ afterLeft' = After
       \/ /\ ~input[i].hit /\ afterLeft > 0
          /\ emitted' = Append(emitted, i)
          /\ afterLeft' = afterLeft - 1 /\ UNCHANGED held
       \/ /\ ~input[i].hit /\ afterLeft = 0
          /\ held' = LastOf(Append(held, i), Before)
          /\ UNCHANGED <<emitted, afterLeft>>
    /\ UNCHANGED <<input, stage, work, body, dropped>>

Selected ==
    /\ stage = "select" /\ fed = Len(input) /\ emitted # <<>>
    /\ stage' = "floor" /\ work' = emitted
    /\ UNCHANGED <<input, fed, held, afterLeft, emitted, body, dropped>>

LevelOrder == [TRACE |-> 0, DEBUG |-> 10, INFO |-> 20, WARN |-> 30, ERROR |-> 40]

(* The floor is never above WARN, and a level it does not know stays. *)
Floor ==
    LET asked == LevelOrder[IF MinLevel \in DOMAIN LevelOrder THEN MinLevel ELSE "INFO"] IN
    IF asked < LevelOrder["WARN"] THEN asked ELSE LevelOrder["WARN"]
Below(i) == Level(i) \in DOMAIN LevelOrder /\ LevelOrder[Level(i)] < Floor

(* Variant: the count stays when the floor is undone. *)
NoiseFloorCountedAnyway ==
    LET kept == Only(work, {k \in DOMAIN work : ~Below(work[k])}) IN
    /\ stage = "floor"
    /\ work' = (IF kept = <<>> THEN work ELSE kept)
    /\ dropped' = Len(work) - Len(kept)
    /\ stage' = "branch"
    /\ UNCHANGED <<input, fed, held, afterLeft, emitted, body>>

(* apply_noise_floor, undone when it would leave nothing. *)
NoiseFloor ==
    LET kept == Only(work, {k \in DOMAIN work : ~Below(work[k])}) IN
    /\ stage = "floor"
    /\ work' = (IF kept = <<>> THEN work ELSE kept)
    /\ dropped' = Len(work) - Len(work')
    /\ stage' = "branch"
    /\ UNCHANGED <<input, fed, held, afterLeft, emitted, body>>

Errors == {k \in DOMAIN work : Level(work[k]) = "ERROR"}
FirstError == CHOOSE k \in Errors : \A j \in Errors : k <= j
LastError == CHOOSE k \in Errors : \A j \in Errors : k >= j
AsLines(s) == [k \in DOMAIN s |-> <<"line", s[k]>>]

ShownWhole ==
    /\ stage = "branch" /\ Len(work) < ShortTrace
    /\ body' = AsLines(work)
    /\ stage' = "bound"
    /\ UNCHANGED <<input, fed, held, afterLeft, emitted, work, dropped>>

(* Variant: the window ends with the first error. *)
ErrorWindowFirst ==
    LET from == IF FirstError > ErrorContext THEN FirstError - ErrorContext ELSE 1
        to == IF FirstError + ErrorTrailing < Len(work) THEN FirstError + ErrorTrailing ELSE Len(work) IN
    SubSeq(work, from, to)

(* branch_on_error: from the context before the first error to the lines   *)
(* after the last.                                                         *)
ErrorWindow ==
    LET from == IF FirstError > ErrorContext THEN FirstError - ErrorContext ELSE 1
        to == IF LastError + ErrorTrailing < Len(work) THEN LastError + ErrorTrailing ELSE Len(work) IN
    SubSeq(work, from, to)

BranchOnError ==
    /\ stage = "branch" /\ Len(work) >= ShortTrace
    /\ IF Errors # {}
       THEN work' = ErrorWindow /\ stage' = "fold"
       ELSE UNCHANGED work /\ stage' = "cluster"
    /\ UNCHANGED <<input, fed, held, afterLeft, emitted, body, dropped>>

CountOf(t) == Cardinality({k \in DOMAIN work : Template(work[k]) = t})

(* Variant: warnings fold with the rest. *)
FoldsAll(i) == CountOf(Template(i)) >= RepeatThreshold /\ Level(i) # "ERROR"

Folds(i) == CountOf(Template(i)) >= RepeatThreshold /\ ~Asks2(i)

(* collapse_error_window: the first line of a repeated template stands for *)
(* the rest, with their number.                                            *)
Fold ==
    LET kept == {k \in DOMAIN work : Folds(work[k]) =>
                    \A j \in 1..(k - 1) :
                        ~(Folds(work[j]) /\ Template(work[j]) = Template(work[k]))}
        entry(i) == IF Folds(i) THEN <<"fold", i, CountOf(Template(i)) - 1>> ELSE <<"line", i>>
        shown == Only(work, kept) IN
    /\ stage = "fold"
    /\ body' = (IF Len(work) < RepeatThreshold THEN AsLines(work)
                ELSE [n \in DOMAIN shown |-> entry(shown[n])])
    /\ stage' = "bound"
    /\ UNCHANGED <<input, fed, held, afterLeft, emitted, work, dropped>>

-----------------------------------------------------------------------------
(* cluster_logs, apply_evidence_guardrails, _format_normal_path *)

Decisions == Only(work, {k \in DOMAIN work : input[work[k]].decides})

(* Variant: half of the limit from either end, and the limit counted. *)
BoundHeadAndTailHalves(s) ==
    IF MaxDecisions = 0 \/ Len(s) <= MaxDecisions THEN [kept |-> s, omitted |-> 0]
    ELSE [kept |-> SubSeq(s, 1, MaxDecisions \div 2) \o LastOf(s, MaxDecisions \div 2),
          omitted |-> Len(s) - MaxDecisions]

(* _bound_head_and_tail *)
BoundHeadAndTail(s) ==
    IF MaxDecisions = 0 \/ Len(s) <= MaxDecisions THEN [kept |-> s, omitted |-> 0]
    ELSE [kept |-> SubSeq(s, 1, MaxDecisions \div 2)
                   \o LastOf(s, MaxDecisions - MaxDecisions \div 2),
          omitted |-> Len(s) - MaxDecisions]

(* The lines left out are announced where they were. *)
DecisionEntries ==
    LET bounded == BoundHeadAndTail(Decisions)
        n == Len(bounded.kept)
        half == n \div 2
        entry(k) == <<"decision", bounded.kept[k]>> IN
    IF bounded.omitted = 0 THEN [k \in 1..n |-> entry(k)]
    ELSE [k \in 1..(n + 1) |->
            CASE k <= half -> entry(k)
              [] k = half + 1 -> <<"omitted", bounded.omitted>>
              [] OTHER -> entry(k - 1)]

(* Variant: a warning does not keep its template's examples. *)
ExamplesByCount(t) ==
    LET own == Only(work, {k \in DOMAIN work : Template(work[k]) = t}) IN
    IF Len(own) >= RareThreshold /\ Len(own) >= BoilerplateCount THEN <<>>
    ELSE SubSeq(own, 1, IF Len(own) < 3 THEN Len(own) ELSE 3)

(* Up to three examples of a template, none of one repeated often. *)
Examples(t) ==
    LET own == Only(work, {k \in DOMAIN work : Template(work[k]) = t})
        warned == \E k \in DOMAIN own : Asks2(own[k]) IN
    IF Len(own) >= RareThreshold /\ Len(own) >= BoilerplateCount /\ ~warned THEN <<>>
    ELSE SubSeq(own, 1, IF Len(own) < 3 THEN Len(own) ELSE 3)

(* One entry per template, by its first line *)
Clusters ==
    LET firsts == {k \in DOMAIN work :
                      \A j \in 1..(k - 1) : Template(work[j]) # Template(work[k])}
        seen == Only(work, firsts) IN
    [n \in DOMAIN seen |->
        <<"template", seen[n], CountOf(Template(seen[n])), Examples(Template(seen[n]))>>]

Cluster ==
    LET ends == IF Len(work) > 1 THEN <<work[1], work[Len(work)]>> ELSE <<work[1]>> IN
    /\ stage = "cluster"
    /\ body' = AsLines(ends) \o DecisionEntries \o Clusters
    /\ stage' = "bound"
    /\ UNCHANGED <<input, fed, held, afterLeft, emitted, work, dropped>>

(* _bound_total_size: the middle is cut for a marker of one entry (a slice *)
(* from -0 is the whole); the banner goes on afterwards.                   *)
BoundTotal ==
    LET keep == IF MaxShown > 0 THEN (MaxShown - 1) \div 2 ELSE 0
        tail == IF keep = 0 THEN body ELSE LastOf(body, keep) IN
    /\ stage = "bound"
    /\ body' = (IF Len(body) <= MaxShown THEN body
                ELSE SubSeq(body, 1, keep) \o <<<<"cut", Len(body) - MaxShown>>>> \o tail)
    /\ stage' = "shown"
    /\ UNCHANGED <<input, fed, held, afterLeft, emitted, work, dropped>>

ReduceNext ==
    \/ Feed \/ Selected \/ NoiseFloor \/ ShownWhole \/ BranchOnError \/ Fold \/ Cluster \/ BoundTotal

ReduceSpec == ReduceInit /\ [][ReduceNext]_reduceVars

-----------------------------------------------------------------------------

Entries == ToSet(body)
Cut == \E e \in Entries : e[1] = "cut"

(* What the packet is investigated on: the lines within the window of some *)
(* match                                                                   *)
Window ==
    {i \in 1..Len(input) : \E j \in 1..Len(input) :
        input[j].hit /\ j - Before <= i /\ i <= j + After}

(* The selector, fed a line at a time, emits exactly the lines within the  *)
(* window of some match, each once and in order, however matches, windows  *)
(* and the ring of held lines overlap.                                     *)
SelectorExact ==
    stage # "select" =>
        /\ ToSet(emitted) = Window
        /\ \A m, n \in DOMAIN emitted : m < n => emitted[m] < emitted[n]

(* The lines the noise floor took are exactly those of a lower level, as   *)
(* many as the banner says, and none when they are all there is.           *)
NoiseTold ==
    LET below == {i \in ToSet(emitted) : Below(i)}
        lost == IF below = ToSet(emitted) THEN {} ELSE below IN
    /\ stage \notin {"select", "floor"} => dropped = Cardinality(lost)
    /\ stage = "branch" => ToSet(work) = ToSet(emitted) \ lost

(* No error is lost on the way: not below the noise floor, not between two *)
(* errors far apart, not folded into a repeat, unless the bound on the     *)
(* whole cut it and says so.                                               *)
ErrorsShown ==
    stage = "shown" => \A i \in ToSet(emitted) :
        Level(i) = "ERROR" => <<"line", i>> \in Entries \/ Cut

Clustered == Errors = {} /\ Len(work) >= ShortTrace

(* A trace shown line by line hides none: warnings are all there, any      *)
(* other line is there or folded into the one entry of its template, and a *)
(* fold's number is that of the template's other lines.                    *)
WindowAccounted ==
    stage = "bound" /\ ~Clustered =>
        LET folds(i) == {e \in Entries : e[1] = "fold" /\ Template(e[2]) = Template(i)} IN
        \A i \in ToSet(work) :
            /\ <<"line", i>> \in Entries \/ (folds(i) # {} /\ ~Asks2(i))
            /\ \A e, f \in folds(i) : e = f /\ CountOf(Template(i)) = e[3] + 1

(* A clustered trace has one entry for each template of its lines, with    *)
(* their number, and a template that ever warned keeps examples however    *)
(* often it repeats.                                                       *)
ClustersAccounted ==
    stage = "bound" /\ Clustered =>
        LET entries(i) == {e \in Entries : e[1] = "template" /\ Template(e[2]) = Template(i)} IN
        \A i \in ToSet(work) : \E e \in entries(i) :
            /\ entries(i) = {e} /\ e[3] = CountOf(Template(i))
            /\ Asks2(i) => e[4] # <<>>

(* A decision line left out of a clustered trace is counted in it.         *)
DecisionsAnnounced ==
    stage = "bound" /\ Clustered =>
        LET shown == {e \in Entries : e[1] = "decision"} IN
        Cardinality(shown) < Len(Decisions) =>
            <<"omitted", Len(Decisions) - Cardinality(shown)>> \in Entries

(* The trace shown accounts for the lines logged: the selector's windows   *)
(* are exact, no error is lost on the way, the lines dropped, folded,      *)
(* clustered and left out are counted.                                     *)
ReductionIsFaithful ==
    /\ ReduceTypeOK /\ SelectorExact /\ NoiseTold /\ ErrorsShown /\ WindowAccounted
    /\ ClustersAccounted /\ DecisionsAnnounced

=============================================================================
