------------------------------- MODULE Ladder -------------------------------
(* What a model passes on its way to full traffic and stays under afterwards: *)
(* the comparison with the champion and the evidence gate                     *)
(* (learning/challenger.py, promotion.py), the parity of its two paths        *)
(* (serving/parity.py), shadow and canary (serving/shadow.py) and the         *)
(* calendar of its monitors (learning/cadence.py).                            *)
(*                                                                            *)
(* Nothing in the code advances a rung: it answers whether one may advance,   *)
(* and the rollout that asks it is external.                                  *)
EXTENDS Integers, Sequences, FiniteSets

CONSTANTS
    Activity,       \* the monitors: their interval in days and owning phase, by name
    Grace,          \* days an activity may be late
    MinShadow,      \* MINIMUM_SHADOW
    MinCanary,      \* MINIMUM_CANARY
    Entry,          \* the evaluations there may be
    Row,            \* rows of the frozen sample: what each of the two paths answers
    Gate,           \* PARITY_GATE, in thousandths
    None,
    MaxDay,         \* bound: days
    MaxSample       \* bound: rows of a sample

VARIABLES
    day,
    rung,           \* "off", "shadow", "canary" or "full"
    started,        \* the day of shadow, of canary and of full traffic
    incident,       \* the day of the latest incident of the canary
    traffic,        \* the canary's share is configured
    lastRun,        \* day of each activity's latest run
    overdueReport,  \* the latest overdue report
    answer          \* the latest comparison of two models or of two paths

ladderVars ==
    <<day, rung, started, incident, traffic, lastRun, overdueReport, answer>>

-----------------------------------------------------------------------------
(* Shadow and canary.                                                      *)

Elapsed(since) == IF since = None THEN 0 ELSE day - since

ShadowStatus ==
    [met |-> Elapsed(started.shadow) >= MinShadow,
     blocking |-> IF started.shadow = None THEN {"not_started"} ELSE {}]

\* A canary that stumbles keeps its start but not its clean days.
CanaryStatus(cleanDays) ==
    [met |-> Elapsed(started.canary) >= MinCanary,
     blocking |-> (IF started.canary = None THEN {"not_started"} ELSE {})
                  \cup (IF traffic THEN {} ELSE {"traffic_not_configured"})
                  \cup (IF cleanDays < MinCanary THEN {"clean_days"} ELSE {})]

MayAdvanceByTime(status) == status.met
MayAdvance(status) == status.met /\ status.blocking = {}

\* The caller's count: whole days since the start or the latest incident.
CleanDays ==
    IF incident = None THEN Elapsed(started.canary) ELSE day - incident

-----------------------------------------------------------------------------
(* The calendar.                                                           *)

\* The activities whose phase has not shipped are not yet applicable.
Runnable(activities, shipped) == {a \in activities : Activity[a].phase \in shipped}

Due(a) == lastRun[a] + Activity[a].interval + Grace

\* One run dated after the report's day refuses the whole report.
Overdue(activities) ==
    IF \E a \in activities : lastRun[a] # None /\ lastRun[a] > day
    THEN [asOf |-> day, over |-> activities, refused |-> TRUE, items |-> {}]
    ELSE [asOf |-> day, over |-> activities, refused |-> FALSE,
          items |->
              {[activity |-> a, ran |-> None, late |-> None] :
                   a \in {b \in activities : lastRun[b] = None}}
              \cup {[activity |-> a, ran |-> lastRun[a], late |-> day - Due(a)] :
                   a \in {b \in activities : lastRun[b] # None /\ day > Due(b)}}]

-----------------------------------------------------------------------------
(* Champion and challenger.                                                *)

IsOutOfTime(window) == window.from >= window.trainedTo

EarlierOf(a, b) == IF a < b THEN a ELSE b
OverlapDays(window) ==
    IF IsOutOfTime(window) THEN 0
    ELSE EarlierOf(window.trainedTo, window.to) - window.from

\* Why the two are not comparable; the first mismatch is the one raised.
Comparable(champion, challenger) ==
    /\ champion.metric = challenger.metric
    /\ champion.population = challenger.population
    /\ champion.window.from = challenger.window.from
    /\ champion.window.to = challenger.window.to
    /\ champion.threshold = challenger.threshold

Lift(champion, challenger) == challenger.value - champion.value

Assess(champion, challenger) ==
    (IF IsOutOfTime(challenger.window) THEN {} ELSE {"overlaps_training"})
    \cup (IF Lift(champion, challenger) <= 0 THEN {"no_lift"} ELSE {})
    \cup (IF challenger.reviewed THEN {} ELSE {"not_explained"})

\* The evidence that goes with a request to Production; a move to Staging needs none.
Evidence(target, window, rollback, abTest) ==
    IF target # "Production" THEN {}
    ELSE (IF window = None THEN {"no_lift"}
          ELSE IF IsOutOfTime(window) THEN {} ELSE {"overlaps_training"})
         \cup (CASE rollback = "none" -> {"no_rollback"}
                 [] rollback = "unrehearsed" -> {"not_rehearsed"}
                 [] OTHER -> {})
         \cup (IF abTest = "feasible_not_run" THEN {"ab_not_run"} ELSE {})

-----------------------------------------------------------------------------
(* Parity of two paths.                                                    *)

ScoresDiffer(left, right) ==
    left.score # None /\ right.score # None /\ left.score # right.score

\* What a path answers is [kind, outcome, score], its kind "raises", "nothing" or
\* "decides".
DiscrepancyOfTheLeft(left, right) ==
    CASE "raises" \in {left.kind, right.kind} -> "error"
      [] left.kind = "decides" /\ right.kind = "nothing" -> "missing_in_candidate"
      [] left.kind = "nothing" -> "agreed"
      [] left.outcome # right.outcome -> "outcome_differs"
      [] ScoresDiffer(left, right) -> "score_differs"
      [] OTHER -> "agreed"

Discrepancy(left, right) ==
    CASE "raises" \in {left.kind, right.kind} -> "error"
      [] left.kind = "decides" /\ right.kind = "nothing" -> "missing_in_candidate"
      [] left.kind = "nothing" /\ right.kind = "decides" -> "missing_in_reference"
      [] left.kind = "nothing" /\ right.kind = "nothing" -> "agreed"
      [] left.outcome # right.outcome -> "outcome_differs"
      [] ScoresDiffer(left, right) -> "score_differs"
      [] OTHER -> "agreed"

\* Every row is counted as agreed or is a case, of the first kind that applies.
Compare(sample) ==
    LET kinds == [k \in DOMAIN sample |-> Discrepancy(sample[k].left, sample[k].right)]
    IN [of |-> "paths", sample |-> sample,
        agreed |-> Cardinality({k \in DOMAIN sample : kinds[k] = "agreed"}),
        cases |-> SelectSeq(kinds, LAMBDA kind : kind # "agreed")]

\* An empty sample proves nothing.
Passed(report) ==
    report.sample # <<>> /\ 1000 * report.agreed >= Gate * Len(report.sample)

-----------------------------------------------------------------------------
(* Actions.                                                                *)

Init ==
    /\ day = 0 /\ rung = "off" /\ incident = None /\ traffic = FALSE
    /\ started = [shadow |-> None, canary |-> None, full |-> None]
    /\ lastRun = [a \in DOMAIN Activity |-> None]
    /\ overdueReport = None /\ answer = None

\* The rungs and the calendar share nothing but the date, and the two comparisons not
\* even that: one of the three is followed at a time.
NothingRan == overdueReport = None /\ \A a \in DOMAIN Activity : lastRun[a] = None

\* The rollout, external: it asks and does what the answer allows.  Share of traffic
\* and incidents are its own.
StartShadow ==
    /\ rung = "off" /\ NothingRan
    /\ rung' = "shadow" /\ started' = [started EXCEPT !.shadow = day]
    /\ UNCHANGED <<day, incident, traffic, lastRun, overdueReport>> /\ answer' = None

StartCanary ==
    /\ rung = "shadow" /\ MayAdvance(ShadowStatus)
    /\ rung' = "canary" /\ started' = [started EXCEPT !.canary = day]
    /\ incident' = None
    /\ UNCHANGED <<day, traffic, lastRun, overdueReport>> /\ answer' = None

Incident ==
    /\ rung = "canary" /\ incident' = day
    /\ UNCHANGED <<day, rung, started, traffic, lastRun, overdueReport>> /\ answer' = None

Configure ==
    /\ traffic' = ~traffic /\ rung # "full"
    /\ UNCHANGED <<day, rung, started, incident, lastRun, overdueReport>> /\ answer' = None

GoFull ==
    /\ rung = "canary" /\ MayAdvance(CanaryStatus(CleanDays))
    /\ rung' = "full" /\ started' = [started EXCEPT !.full = day]
    /\ UNCHANGED <<day, incident, traffic, lastRun, overdueReport>> /\ answer' = None

Pass ==
    /\ day < MaxDay /\ day' = day + 1
    /\ UNCHANGED <<rung, started, incident, traffic, lastRun, overdueReport>> /\ answer' = None

\* A monitor runs today, or its run is recorded under tomorrow's date.
Run ==
    \E a \in DOMAIN Activity, d \in {day, day + 1} :
        /\ rung = "off" /\ d <= MaxDay /\ lastRun' = [lastRun EXCEPT ![a] = d]
        /\ UNCHANGED <<day, rung, started, incident, traffic, overdueReport>> /\ answer' = None

Report ==
    /\ rung = "off"
    /\ \E shipped \in SUBSET {Activity[a].phase : a \in DOMAIN Activity} :
        /\ overdueReport' = Overdue(Runnable(DOMAIN Activity, shipped))
        /\ UNCHANGED <<day, rung, started, incident, traffic, lastRun>> /\ answer' = None

\* The comparison, what blocks the challenger, and what its request to Production
\* lacks with nothing else missing.
Challenge ==
    /\ day = 0 /\ rung = "off" /\ NothingRan /\ answer = None
    /\ \E champion, challenger \in Entry :
        /\ Comparable(champion, challenger)
        /\ answer' = [of |-> "models", champion |-> champion, challenger |-> challenger,
                      blocking |-> Assess(champion, challenger),
                      evidence |-> Evidence("Production", challenger.window, "rehearsed", "run"),
                      overlap |-> OverlapDays(challenger.window)]
    /\ UNCHANGED <<day, rung, started, incident, traffic, lastRun, overdueReport>>

CompareSample ==
    /\ day = 0 /\ rung = "off" /\ NothingRan /\ answer = None
    /\ \E n \in 0..MaxSample : \E sample \in [1..n -> Row] : answer' = Compare(sample)
    /\ UNCHANGED <<day, rung, started, incident, traffic, lastRun, overdueReport>>

Next ==
    \/ StartShadow \/ StartCanary \/ Incident \/ Configure \/ GoFull \/ Pass
    \/ Run \/ Report \/ Challenge \/ CompareSample

Spec == Init /\ [][Next]_ladderVars

-----------------------------------------------------------------------------
(* Properties.                                                             *)

Answered(of) == answer # None /\ answer.of = of

\* Full traffic was reached only by a model that had its weeks in shadow and then its
\* clean weeks in canary, none of them with an incident, at a configured share: a
\* canary that stumbled and went on does not count as four weeks
\* (shadow_status, canary_status).
FullTrafficEarned ==
    rung = "full" =>
        /\ started.canary >= started.shadow + MinShadow
        /\ started.full >= started.canary + MinCanary
        /\ incident # None => started.full >= incident + MinCanary
        /\ traffic

\* Nothing late is left out: an activity the report left alone had run, no longer ago
\* than its interval and the grace; one it lists is late on every later day until it
\* runs again (cadence.overdue).
OverdueComplete ==
    overdueReport # None /\ ~overdueReport.refused =>
        /\ \A a \in overdueReport.over \ {i.activity : i \in overdueReport.items} :
              \/ lastRun[a] > overdueReport.asOf
              \/ overdueReport.asOf - lastRun[a] <= Activity[a].interval + Grace
        /\ \A i \in overdueReport.items :
              lastRun[i.activity] = i.ran /\ ~Overdue({i.activity}).refused =>
                  \E j \in Overdue({i.activity}).items :
                      j.late = IF i.ran = None THEN None ELSE i.late + (day - overdueReport.asOf)

\* The two gates agree about the lift: a challenger that may proceed has out-of-time
\* evidence for its request, no day of which its model was fitted on, and the champion
\* could not have replaced it in turn (challenger.assess, promotion._evidence_reasons).
LiftAdmitted ==
    Answered("models") =>
        /\ (answer.overlap = 0) = ("overlaps_training" \notin answer.evidence)
        /\ answer.blocking = {} =>
              /\ answer.evidence = {}
              /\ answer.challenger.window.from >= answer.challenger.window.trainedTo
              /\ Comparable(answer.challenger, answer.champion)
              /\ Assess(answer.challenger, answer.champion) # {}

\* Rows are counted once each, and a sample that passed a gate no miss can meet has no
\* row on which the customer's outcome depends on the path (parity.compare).
ParityMeansAlike ==
    Answered("paths") =>
        /\ answer.agreed + Len(answer.cases) = Len(answer.sample)
        /\ Passed(answer) =>
              /\ answer.sample # <<>>
              /\ \A k \in DOMAIN answer.sample :
                    LET left == answer.sample[k].left  right == answer.sample[k].right
                    IN /\ left.kind = right.kind /\ left.kind # "raises"
                       /\ left.kind = "decides" => left.outcome = right.outcome
=============================================================================
