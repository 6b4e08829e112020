---------------------------- MODULE Orchestrator ----------------------------
(***************************************************************************)
(* decide() of serving/orchestrator.py, as concurrent calls on one         *)
(* Orchestrator object.                                                    *)
(*                                                                         *)
(* A call is split at every read of an attribute that others may set: the  *)
(* scorer is read to test it and again to call it, the bands to test them  *)
(* and again to decide by them, and the record reads model_ref and the     *)
(* bands twice more.  An attribute taken away between its two reads makes  *)
(* the call raise, or leaves None where the model's name should be.        *)
(***************************************************************************)
EXTENDS Bands, Sequences

CONSTANTS
    Requests,       \* calls of decide()
    Rules,          \* the outcomes of the policy rules, in rule order
    Configs,        \* band configs a deployment may inject
    Pds,            \* scores the model server may return, scaled as in Bands
    NoScores, NoPd, NoBands, NoAnswer,
    ModelRefs,      \* values model_ref may take: TRUE when one is configured
    SwapMidFlight,  \* the object is reconfigured while calls are in progress
    MaxChanges      \* bound: reconfigurations and outages

ASSUME ConfigsAssumption == Configs \subseteq BandConfig
ASSUME RulesAssumption == Rules \in Seq(Outcome)
ASSUME PdsAssumption == Pds \subseteq Int
ASSUME FlagsAssumption ==
    ModelRefs \subseteq BOOLEAN /\ SwapMidFlight \in BOOLEAN /\ MaxChanges \in Nat
ASSUME ScoresAssumption ==
    NoScores \notin Int /\ NoPd \notin Int /\ NoBands \notin Configs

Phases ==
    {"idle", "fetched", "scoring", "scored", "unbanded", "banding", "decided",
     "naming", "listed", "versioning", "answered", "raised"}
Actor == {"model", "policy_rule", "fallback"}
Scores == Pds \cup {NoScores, NoPd}
ReasonCode ==
    {"", "POLICY", "SYS_MODEL_UNAVAILABLE", "P0_NO_CUTOFF_CONFIGURED", "BAND",
     "P1_CUTOFFS_NOT_RATIFIED", "P1_BANDS_NOT_DUAL_APPROVED"}
\* The models of a record: [], [model_ref], or [None] when it vanished meanwhile.
ModelList == {"empty", "named", "none"}
Local ==
    [fired : Seq(DOMAIN Rules), scores : Scores, degraded : BOOLEAN,
     outcome : Outcome, decided_by : Actor, reason : ReasonCode, models : ModelList,
     used : Configs \cup {NoBands}]   \* history: the config outcome_for() ran on
AnswerRecord ==
    [rules_fired : Seq(DOMAIN Rules), scores : Scores, outcome : Outcome, decided_by : Actor,
     reason : ReasonCode, models : ModelList, bands : Configs \cup {NoBands}]

ASSUME AnswerAssumption == NoAnswer \notin AnswerRecord

VARIABLES
    bands,          \* Orchestrator.bands
    scorer,         \* Orchestrator.scorer: "absent", or the model server "up" or "down"
    model_ref,      \* Orchestrator.model_ref is set
    phase,          \* progress of each call
    call,           \* the local variables of each call
    answers,        \* the record of each call that returned
    withdrawn,      \* history: calls that were running when an attribute became None
    changes         \* history: number of reconfigurations and outages

vars == <<bands, scorer, model_ref, phase, call, answers, withdrawn, changes>>
config == <<bands, scorer, model_ref>>
history == <<withdrawn, changes>>

NoLocals ==
    [fired |-> <<>>, scores |-> NoScores, degraded |-> FALSE, outcome |-> "refer",
     decided_by |-> "fallback", reason |-> "", models |-> "empty", used |-> NoBands]

Init ==
    /\ bands \in Configs \cup {NoBands}
    /\ scorer \in {"absent", "up"}
    /\ model_ref \in ModelRefs
    /\ phase = [r \in Requests |-> "idle"]
    /\ call = [r \in Requests |-> NoLocals]
    /\ answers = [r \in Requests |-> NoAnswer]
    /\ withdrawn = {}
    /\ changes = 0

Goto(r, from, to) == phase[r] = from /\ phase' = [phase EXCEPT ![r] = to]

-----------------------------------------------------------------------------
(* decide().                                                               *)

\* The rules that fire on a context, in rule order.
RulesFired ==
    {fired \in UNION {[1..n -> DOMAIN Rules] : n \in 0..Len(Rules)} :
        \A i, j \in DOMAIN fired : i < j => fired[i] < fired[j]}

FetchAndApplyRules(r, fired) ==
    /\ Goto(r, "idle", "fetched")
    /\ call' = [call EXCEPT ![r].fired = fired]
    /\ UNCHANGED <<config, answers, history>>

\* A step of r that only moves it on.
Move(r, from, to) == Goto(r, from, to) /\ UNCHANGED <<config, call, answers, history>>

\* Is there a scorer?  The model is scored whether or not a rule fired.
CheckScorer(r) ==
    \/ scorer = "absent" /\ Move(r, "fetched", "scored")
    \/ scorer # "absent" /\ Move(r, "fetched", "scoring")

\* Mutant: an outage is not caught and the exception leaves decide().
ScoreUncaught(r) ==
    \/ /\ scorer = "up"
       /\ Goto(r, "scoring", "scored")
       /\ \E s \in Pds \cup {NoPd} : call' = [call EXCEPT ![r].scores = s]
       /\ UNCHANGED <<config, answers, history>>
    \/ scorer = "down" /\ Move(r, "scoring", "raised")

\* Mutant: an earlier answer of the model server is reused when it is down.
ScoreStale(r) ==
    /\ Goto(r, "scoring", "scored")
    /\ \E s \in Pds :
          call' = [call EXCEPT ![r].scores = s, ![r].degraded = (scorer = "down")]
    /\ UNCHANGED <<config, answers, history>>

\* The scorer is read again and called; ModelUnavailable is caught.
Score(r) ==
    /\ Goto(r, "scoring", "scored")
    /\ \/ scorer = "up" /\ \E s \in Pds \cup {NoPd} : call' = [call EXCEPT ![r].scores = s]
       \/ scorer = "down" /\ call' = [call EXCEPT ![r].degraded = TRUE]
    /\ UNCHANGED <<config, answers, history>>

\* Calling None is a TypeError, which is not caught.
ScoreVanished(r) == scorer = "absent" /\ Move(r, "scoring", "raised")

Decided(r, from, outcome, actor, reason, used) ==
    /\ Goto(r, from, "decided")
    /\ call' = [call EXCEPT ![r].outcome = outcome, ![r].decided_by = actor,
                            ![r].reason = reason, ![r].used = used]
    /\ UNCHANGED <<config, answers, history>>

\* Mutant: the model decides and a rule only adds its reason.
DecideByModelFirst(r) ==
    /\ call[r].fired # <<>>
    /\ Decided(r, "scored", IF call[r].scores \in Pds THEN "approve" ELSE "refer",
               "policy_rule", "POLICY", NoBands)

\* A rule that fired decides, whatever the score.
DecideByRule(r) ==
    /\ call[r].fired # <<>>
    /\ Decided(r, "scored", Rules[Head(call[r].fired)], "policy_rule", "POLICY", NoBands)

\* No score: refer to a human.  The scorer is read a third time.
DecideByFallback(r) ==
    /\ call[r].fired = <<>>
    /\ call[r].degraded \/ scorer = "absent"
    /\ Decided(r, "scored", "refer", "fallback", "SYS_MODEL_UNAVAILABLE", NoBands)

DecideByModel(r) ==
    /\ call[r].fired = <<>> /\ ~call[r].degraded /\ scorer # "absent"
    /\ Move(r, "scored", "unbanded")

\* There are no bands or no "pd" to map.
DecideWithoutBands(r) ==
    /\ bands = NoBands \/ call[r].scores \notin Pds
    /\ Decided(r, "unbanded", "refer", "model", "P0_NO_CUTOFF_CONFIGURED", NoBands)

CheckBands(r) ==
    /\ bands # NoBands /\ call[r].scores \in Pds
    /\ Move(r, "unbanded", "banding")

\* Mutant: outcome_for() is reached without asking whether the config is effective.
DecideByBandsUnchecked(r) ==
    /\ bands # NoBands
    /\ \/ /\ Grounded(bands)
          /\ Decided(r, "banding", BandOf(bands, call[r].scores), "model", "BAND", bands)
       \/ /\ ~Grounded(bands)
          /\ Decided(r, "banding", "refer", "model", "P1_CUTOFFS_NOT_RATIFIED", bands)

\* The bands are read again: outcome_for() decides, or the reason says why it refused.
DecideByBands(r) ==
    /\ bands # NoBands
    /\ LET o == OutcomeFor(bands, call[r].scores) IN
         \/ o \in Outcome /\ Decided(r, "banding", o, "model", "BAND", bands)
         \/ /\ o = "Ungrounded"
            /\ Decided(r, "banding", "refer", "model", "P1_CUTOFFS_NOT_RATIFIED", bands)
         \/ /\ o = "BandConfigError"
            /\ Decided(r, "banding", "refer", "model", "P1_BANDS_NOT_DUAL_APPROVED", bands)

\* None has no outcome_for: an AttributeError, which is not caught.
BandsVanished(r) == bands = NoBands /\ Move(r, "banding", "raised")

\* The record is built from arguments read one after the other: models first.
CheckModel(r) ==
    \/ (~model_ref \/ call[r].degraded) /\ Move(r, "decided", "listed")
    \/ model_ref /\ ~call[r].degraded /\ Move(r, "decided", "naming")

NameModel(r) ==
    /\ Goto(r, "naming", "listed")
    /\ call' = [call EXCEPT ![r].models = IF model_ref THEN "named" ELSE "none"]
    /\ UNCHANGED <<config, answers, history>>

\* Then effective_policy_version, which tests the bands and reads them again.
CheckVersion(r) == bands # NoBands /\ Move(r, "listed", "versioning")
VersionVanished(r) == bands = NoBands /\ Move(r, "versioning", "raised")

\* policy_version carries no bands when the test found none.
Versioned(r) == phase[r] = IF bands = NoBands THEN "listed" ELSE "versioning"

\* DecisionRecord refuses a model decision that names no model, and decide() raises.
Refused(r) == call[r].models = "empty" /\ call[r].decided_by = "model"

RecordOf(r) ==
    [rules_fired |-> call[r].fired, scores |-> call[r].scores, outcome |-> call[r].outcome,
     decided_by |-> call[r].decided_by, reason |-> call[r].reason,
     models |-> call[r].models, bands |-> bands]

\* Mutant: the response is returned without its record.
RecordUnlogged(r) ==
    /\ Versioned(r) /\ ~Refused(r)
    /\ Move(r, phase[r], "answered")

Record(r) ==
    /\ Versioned(r) /\ ~Refused(r)
    /\ Goto(r, phase[r], "answered")
    /\ answers' = [answers EXCEPT ![r] = RecordOf(r)]
    /\ UNCHANGED <<config, call, history>>

RecordRefused(r) == Versioned(r) /\ Refused(r) /\ Move(r, phase[r], "raised")

-----------------------------------------------------------------------------
(* The environment: deployment of configs, and the model server.           *)

Running == {r \in Requests : phase[r] \notin {"idle", "answered", "raised"}}
Quiet == Running = {}

Change == changes < MaxChanges /\ changes' = changes + 1 /\ UNCHANGED <<phase, call, answers>>

\* An attribute that becomes None is taken from the calls that are running.
Withdraw(gone) == withdrawn' = IF gone THEN withdrawn \cup Running ELSE withdrawn

SwapBands(b) ==
    /\ Change
    /\ SwapMidFlight \/ Quiet
    /\ b # bands /\ bands' = b
    /\ Withdraw(b = NoBands)
    /\ UNCHANGED <<scorer, model_ref>>

SetModelRef(m) ==
    /\ Change
    /\ SwapMidFlight \/ Quiet
    /\ m # model_ref /\ model_ref' = m
    /\ Withdraw(~m)
    /\ UNCHANGED <<bands, scorer>>

SetScorer(s) ==
    /\ Change
    /\ SwapMidFlight \/ Quiet
    /\ s # scorer /\ scorer' = s
    /\ Withdraw(s = "absent")
    /\ UNCHANGED <<bands, model_ref>>

ServerDown ==
    /\ Change
    /\ scorer = "up" /\ scorer' = "down"
    /\ UNCHANGED <<bands, model_ref, withdrawn>>

\* The server comes back: not counted, so that an outage always ends.
ServerUp ==
    /\ scorer = "down" /\ scorer' = "up"
    /\ UNCHANGED <<bands, model_ref, phase, call, answers, history>>

-----------------------------------------------------------------------------
Decide(r) ==
    \/ DecideByRule(r) \/ DecideByFallback(r) \/ DecideByModel(r)
    \/ DecideWithoutBands(r) \/ CheckBands(r) \/ DecideByBands(r) \/ BandsVanished(r)

Step(r) ==
    \/ CheckScorer(r) \/ Score(r) \/ ScoreVanished(r)
    \/ Decide(r)
    \/ CheckModel(r) \/ NameModel(r) \/ CheckVersion(r) \/ VersionVanished(r)
    \/ Record(r) \/ RecordRefused(r)

Next ==
    \/ \E r \in Requests : Step(r) \/ \E fired \in RulesFired : FetchAndApplyRules(r, fired)
    \/ \E b \in Configs \cup {NoBands} : SwapBands(b)
    \/ \E m \in ModelRefs : SetModelRef(m)
    \/ \E s \in {"absent", "up"} : SetScorer(s)
    \/ ServerDown \/ ServerUp

Spec == Init /\ [][Next]_vars

\* A call that has begun runs to its end, and an outage ends.
FairSpec == Spec /\ (\A r \in Requests : WF_vars(Step(r))) /\ WF_vars(ServerUp)

-----------------------------------------------------------------------------
(* Properties.                                                             *)

Answered == {r \in Requests : phase[r] = "answered"}

\* Every variable of the object and of each call has its type.
TypeOK ==
    /\ bands \in Configs \cup {NoBands}
    /\ scorer \in {"absent", "up", "down"}
    /\ model_ref \in BOOLEAN
    /\ phase \in [Requests -> Phases]
    /\ call \in [Requests -> Local]
    /\ answers \in [Requests -> AnswerRecord \cup {NoAnswer}]
    /\ \A r \in Requests : (answers[r] = NoAnswer) <=> (r \notin Answered)
    /\ withdrawn \subseteq Requests
    /\ changes \in 0..MaxChanges

\* No application is approved or declined by the model on bands two people have
\* not approved, even when the config is swapped while calls are in progress.
DualControl ==
    \A r \in Answered :
        answers[r].decided_by = "model" /\ answers[r].outcome # "refer" =>
            call[r].used # NoBands /\ Effective(call[r].used)

\* Two applications decided by the same bands are decided in the order of their
\* risk: the riskier one never gets the milder outcome.
RiskOrdering ==
    \A r, s \in Answered :
        /\ answers[r].reason = "BAND" /\ answers[s].reason = "BAND"
        /\ call[r].used = call[s].used
        /\ answers[r].scores <= answers[s].scores
        => Severity(answers[r].outcome) <= Severity(answers[s].outcome)

\* An outage is a decision path: a degraded call names no model, and is decided
\* by a rule or referred.
OutageNeverScores ==
    \A r \in Answered : call[r].degraded =>
        /\ answers[r].models = "empty"
        /\ answers[r].scores = NoScores
        /\ answers[r].decided_by = "policy_rule" \/ answers[r].outcome = "refer"

\* The record names the bands that decided, not others.
RecordNamesDecidingBands ==
    \A r \in Answered : call[r].used # NoBands => call[r].used = answers[r].bands

\* decide() implements the promise of DecisionService.
Promise == INSTANCE DecisionService WITH
    Requests <- Requests, Rules <- Rules, NoScores <- NoScores, NoPd <- NoPd,
    NoBands <- NoBands, NoAnswer <- NoAnswer, bands <- bands, answers <- answers
ImplementsPromise == Promise!Spec

\* A call that begins with a model to name is answered, whatever fails or is
\* swapped meanwhile: only an attribute set to None under it makes decide() raise.
EveryCallAnswered ==
    \A r \in Requests :
        phase[r] = "fetched" /\ model_ref ~> phase[r] = "answered" \/ r \in withdrawn

=============================================================================
