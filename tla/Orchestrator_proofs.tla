------------------------ MODULE Orchestrator_proofs ------------------------
(***************************************************************************)
(* What decide() guarantees for every set of concurrent calls, rules,      *)
(* band configs and scores, while configs are swapped and the model server *)
(* fails at any moment.                                                    *)
(***************************************************************************)
EXTENDS Orchestrator, FiniteSetTheorems, TLAPS

(* The rules that fired are rule numbers.                                  *)
LEMMA RulesFiredType == RulesFired \subseteq Seq(DOMAIN Rules)
BY RulesAssumption DEF RulesFired

(* A step of one call that returns no answer keeps every type.             *)
LEMMA CallStepType ==
    ASSUME TypeOK, NEW r \in Requests, NEW from \in Phases, NEW to \in Phases,
           from # "answered", to # "answered", Goto(r, from, to),
           call' \in [Requests -> Local], UNCHANGED <<config, answers, history>>
    PROVE  TypeOK'
BY DEF TypeOK, Goto, Answered, config, history

(* So does a step that only moves a call on.                               *)
LEMMA MoveType ==
    ASSUME TypeOK, NEW r \in Requests, NEW from \in Phases, NEW to \in Phases,
           from # "answered", to # "answered", Move(r, from, to)
    PROVE  TypeOK'
<1>1. call' \in [Requests -> Local]
  BY DEF Move, TypeOK
<1> QED
  BY <1>1, CallStepType DEF Move

(* The branch that fixes the outcome writes four locals of its own call.    *)
LEMMA DecidedEffect ==
    ASSUME TypeOK, NEW r \in Requests, NEW from \in Phases,
           NEW outcome \in Outcome, NEW actor \in Actor,
           NEW reason \in ReasonCode, NEW used \in Configs \cup {NoBands},
           Decided(r, from, outcome, actor, reason, used)
    PROVE  /\ call' \in [Requests -> Local]
           /\ call'[r] = [fired |-> call[r].fired, scores |-> call[r].scores,
                          degraded |-> call[r].degraded, outcome |-> outcome,
                          decided_by |-> actor, reason |-> reason,
                          models |-> call[r].models, used |-> used]
           /\ \A q \in Requests \ {r} : call'[q] = call[q]
<1>0. call \in [Requests -> Local] /\ call[r] \in Local
  BY DEF TypeOK
<1>1. PICK c1 : c1 = [call EXCEPT ![r].outcome = outcome]
  OBVIOUS
<1>2. PICK c2 : c2 = [c1 EXCEPT ![r].decided_by = actor]
  OBVIOUS
<1>3. PICK c3 : c3 = [c2 EXCEPT ![r].reason = reason]
  OBVIOUS
<1>4. PICK c4 : c4 = [c3 EXCEPT ![r].used = used]
  OBVIOUS
<1>5. call' = c4
  BY <1>1, <1>2, <1>3, <1>4 DEF Decided
<1>6. c1 \in [Requests -> Local] /\ c2 \in [Requests -> Local]
  BY <1>0, <1>1, <1>2 DEF Local
<1>7. c4 \in [Requests -> Local]
  <2>1. c3 \in [Requests -> Local]
    BY <1>3, <1>6 DEF Local
  <2> QED BY <1>4, <2>1 DEF Local
<1>8. c4[r] = [fired |-> call[r].fired, scores |-> call[r].scores,
               degraded |-> call[r].degraded, outcome |-> outcome,
               decided_by |-> actor, reason |-> reason,
               models |-> call[r].models, used |-> used]
  BY <1>0, <1>1, <1>2, <1>3, <1>4, <1>6, <1>7 DEF Local
<1> QED
  BY <1>0, <1>1, <1>2, <1>3, <1>4, <1>5, <1>6, <1>7, <1>8

(* decide() only ever stores whole locals and whole records.               *)
THEOREM OrchestratorTypeCorrect == Spec => []TypeOK
<1>1. Init => TypeOK
  <2> SUFFICES ASSUME Init PROVE TypeOK
    OBVIOUS
  <2>1. NoLocals \in Local
    BY DEF NoLocals, Local, Scores, Outcome, Actor, ReasonCode, ModelList
  <2> QED
    BY <2>1, FlagsAssumption DEF Init, TypeOK, Phases, Answered
<1>2. TypeOK /\ [Next]_vars => TypeOK'
  <2> SUFFICES ASSUME TypeOK, [Next]_vars PROVE TypeOK'
    OBVIOUS
  <2>0. /\ phase \in [Requests -> Phases]
        /\ call \in [Requests -> Local]
        /\ bands \in Configs \cup {NoBands}
    BY DEF TypeOK
  <2>1. ASSUME NEW r \in Requests, NEW fired \in RulesFired, FetchAndApplyRules(r, fired)
        PROVE  TypeOK'
    <3>1. call' \in [Requests -> Local]
      BY <2>0, <2>1, RulesFiredType DEF FetchAndApplyRules, Local
    <3> QED BY <2>1, <3>1, CallStepType DEF FetchAndApplyRules, Phases
  <2>2. ASSUME NEW r \in Requests, Score(r) PROVE TypeOK'
    <3>1. call' \in [Requests -> Local]
      <4>1. ASSUME NEW s \in Pds \cup {NoPd}, call' = [call EXCEPT ![r].scores = s]
            PROVE  call' \in [Requests -> Local]
        BY <2>0, <4>1 DEF Local, Scores
      <4>2. CASE call' = [call EXCEPT ![r].degraded = TRUE]
        BY <2>0, <4>2 DEF Local
      <4> QED BY <2>2, <4>1, <4>2 DEF Score
    <3> QED BY <2>2, <3>1, CallStepType DEF Score, Phases
  <2>m. ASSUME NEW r \in Requests,
               \/ CheckScorer(r) \/ ScoreVanished(r) \/ DecideByModel(r) \/ CheckBands(r)
               \/ BandsVanished(r) \/ CheckModel(r) \/ CheckVersion(r) \/ VersionVanished(r)
        PROVE  TypeOK'
    BY <2>m, MoveType
       DEF CheckScorer, ScoreVanished, DecideByModel, CheckBands, BandsVanished, CheckModel,
           CheckVersion, VersionVanished, Phases
  <2>n. ASSUME NEW r \in Requests, NameModel(r) PROVE TypeOK'
    <3>1. PICK list \in ModelList : call' = [call EXCEPT ![r].models = list]
      BY <2>n DEF NameModel, ModelList
    <3>2. call' \in [Requests -> Local]
      BY <2>0, <3>1 DEF Local
    <3> QED BY <2>n, <3>2, CallStepType DEF NameModel, Phases
  <2>3. ASSUME NEW r \in Requests, NEW from \in {"scored", "unbanded", "banding"},
               NEW outcome \in Outcome, NEW actor \in Actor,
               NEW reason \in ReasonCode, NEW used \in Configs \cup {NoBands},
               Decided(r, from, outcome, actor, reason, used)
        PROVE  TypeOK'
    <3>0. from \in Phases /\ from # "answered"
      BY DEF Phases
    <3>1. call' \in [Requests -> Local]
      BY <2>3, <3>0, DecidedEffect
    <3> QED BY <2>3, <3>0, <3>1, CallStepType DEF Decided, Phases
  <2>4. ASSUME NEW r \in Requests, DecideByRule(r) PROVE TypeOK'
    <3>1. Rules[Head(call[r].fired)] \in Outcome
      BY <2>0, <2>4, RulesAssumption DEF DecideByRule, Local
    <3> QED BY <2>3, <2>4, <3>1 DEF DecideByRule, Actor, ReasonCode
  <2>5. ASSUME NEW r \in Requests, DecideByFallback(r) \/ DecideWithoutBands(r) PROVE TypeOK'
    BY <2>3, <2>5 DEF DecideByFallback, DecideWithoutBands, Actor, ReasonCode, Outcome
  <2>6. ASSUME NEW r \in Requests, DecideByBands(r) PROVE TypeOK'
    <3>1. "refer" \in Outcome /\ "model" \in Actor
      BY DEF Outcome, Actor
    <3> QED BY <2>0, <2>3, <2>6, <3>1 DEF DecideByBands, ReasonCode
  <2>7. ASSUME NEW r \in Requests, Record(r) PROVE TypeOK'
    <3>1. RecordOf(r) \in AnswerRecord
      BY <2>0 DEF RecordOf, TypeOK, Local, AnswerRecord
    <3>2. answers' \in [Requests -> AnswerRecord \cup {NoAnswer}] /\ RecordOf(r) # NoAnswer
      BY <2>7, <3>1, AnswerAssumption DEF Record, TypeOK
    <3> QED BY <2>0, <2>7, <3>1, <3>2 DEF Record, Goto, Phases, Answered, TypeOK, config, history
  <2>8. ASSUME NEW r \in Requests, RecordRefused(r) PROVE TypeOK'
    <3>1. phase[r] \in Phases /\ phase[r] # "answered" /\ Move(r, phase[r], "raised")
      BY <2>0, <2>8 DEF RecordRefused, Versioned
    <3> QED BY <3>1, MoveType DEF Phases
  <2>9. ASSUME Change,
               \/ \E b \in Configs \cup {NoBands} : SwapBands(b)
               \/ \E m \in ModelRefs : SetModelRef(m)
               \/ \E s \in {"absent", "up"} : SetScorer(s)
               \/ ServerDown
        PROVE  TypeOK'
    BY <2>9, FlagsAssumption
       DEF TypeOK, Answered, Change, Withdraw, Running, SwapBands, SetModelRef, SetScorer, ServerDown
  <2>10. CASE ServerUp
    BY <2>10 DEF TypeOK, Answered, ServerUp, history
  <2>11. CASE UNCHANGED vars
    BY <2>11 DEF TypeOK, Answered, vars
  <2> QED
    BY <2>1, <2>2, <2>m, <2>n, <2>4, <2>5, <2>6, <2>7, <2>8, <2>9, <2>10, <2>11
       DEF Next, Step, Decide, SwapBands, SetModelRef, SetScorer, ServerDown
<1> QED
  BY <1>1, <1>2, PTL DEF Spec

-----------------------------------------------------------------------------
(* The config outcome_for() ran on, the score and the outcome of a call     *)
(* whose branch is taken agree.                                             *)
BandsDecided(c) ==
    /\ c.decided_by = "model"
    /\ c.used \in Configs /\ Effective(c.used)
    /\ c.scores \in Pds /\ c.outcome = BandOf(c.used, c.scores)

Justified(c) ==
    /\ c.reason = "BAND" => BandsDecided(c)
    /\ c.decided_by = "model" /\ c.outcome # "refer" => c.reason = "BAND"
    /\ c.degraded => c.decided_by = "policy_rule" \/ c.outcome = "refer"

\* A call scores at most once, and a degraded one has no score and names no model.
ScoredOnce(r) ==
    /\ phase[r] \in {"idle", "fetched", "scoring"} =>
          call[r].scores = NoScores /\ ~call[r].degraded /\ call[r].models = "empty"
    /\ call[r].degraded => call[r].scores = NoScores /\ call[r].models = "empty"

\* What the tests a call has passed still say of its own locals.
Tested(r) ==
    /\ phase[r] \in {"unbanded", "banding"} => call[r].fired = <<>> /\ ~call[r].degraded
    /\ phase[r] = "banding" => call[r].scores \in Pds
    /\ phase[r] = "naming" => ~call[r].degraded

\* The phases in which the outcome is fixed and the record is being built.
Fixed == {"decided", "naming", "listed", "versioning"}

\* The record keeps what the call decided.
Recorded(r) ==
    /\ answers[r].scores = call[r].scores
    /\ answers[r].outcome = call[r].outcome
    /\ answers[r].decided_by = call[r].decided_by
    /\ answers[r].reason = call[r].reason
    /\ call[r].degraded => answers[r].models = "empty"

CallInv(r) ==
    /\ ScoredOnce(r)
    /\ Tested(r)
    /\ phase[r] \in Fixed \cup {"answered"} => Justified(call[r])
    /\ phase[r] = "answered" => Recorded(r)

DecisionInv == \A r \in Requests : CallInv(r)

(* What another call does, and what the environment does, disturbs nothing  *)
(* of a call.                                                               *)
LEMMA Undisturbed ==
    ASSUME NEW q, CallInv(q),
           phase'[q] = phase[q], call'[q] = call[q], answers'[q] = answers[q]
    PROVE  CallInv(q)'
BY DEF CallInv, ScoredOnce, Tested, Recorded, Justified, BandsDecided

(* The branch that is taken leaves a justified call.                        *)
LEMMA DecideStep ==
    ASSUME TypeOK, DecisionInv, NEW r \in Requests,
           \/ DecideByRule(r) \/ DecideByFallback(r)
           \/ DecideWithoutBands(r) \/ DecideByBands(r)
    PROVE  DecisionInv'
<1>0. call[r] \in Local /\ bands \in Configs \cup {NoBands} /\ CallInv(r)
  BY DEF TypeOK, DecisionInv
<1>1. ASSUME NEW from \in {"scored", "unbanded", "banding"},
             NEW outcome \in Outcome, NEW actor \in Actor,
             NEW reason \in ReasonCode, NEW used \in Configs \cup {NoBands},
             Decided(r, from, outcome, actor, reason, used),
             reason = "BAND" =>
                /\ actor = "model"
                /\ used \in Configs /\ Effective(used)
                /\ call[r].scores \in Pds /\ outcome = BandOf(used, call[r].scores),
             actor = "model" /\ outcome # "refer" => reason = "BAND",
             call[r].degraded => actor = "policy_rule" \/ outcome = "refer"
      PROVE  DecisionInv'
  <2>1. /\ call'[r].scores = call[r].scores /\ call'[r].degraded = call[r].degraded
        /\ call'[r].models = call[r].models
        /\ call'[r].outcome = outcome /\ call'[r].decided_by = actor
        /\ call'[r].reason = reason /\ call'[r].used = used
        /\ \A q \in Requests \ {r} : call'[q] = call[q]
    <3>1. TypeOK /\ Decided(r, from, outcome, actor, reason, used) /\ from \in Phases
      BY <1>1 DEF Phases
    <3>2. /\ call'[r] = [fired |-> call[r].fired, scores |-> call[r].scores,
                         degraded |-> call[r].degraded, outcome |-> outcome,
                         decided_by |-> actor, reason |-> reason,
                         models |-> call[r].models, used |-> used]
          /\ \A q \in Requests \ {r} : call'[q] = call[q]
      BY ONLY <3>1, DecidedEffect
    <3> QED BY ONLY <3>2
  <2>2. /\ phase'[r] = "decided" /\ answers' = answers
        /\ \A q \in Requests \ {r} : phase'[q] = phase[q]
    BY <1>1 DEF Decided, Goto, TypeOK
  <2>3. \A q \in Requests \ {r} : CallInv(q)'
    BY <2>1, <2>2, Undisturbed DEF DecisionInv
  <2>4. CallInv(r)'
    BY <1>0, <1>1, <2>1, <2>2 DEF CallInv, ScoredOnce, Tested, Justified, BandsDecided, Fixed
  <2> QED BY <2>3, <2>4 DEF DecisionInv
<1>2. CASE DecideByRule(r)
  <2>1. Rules[Head(call[r].fired)] \in Outcome
    BY <1>0, <1>2, RulesAssumption DEF DecideByRule, Local
  <2> QED BY <1>1, <1>2, <2>1 DEF DecideByRule, Actor, ReasonCode
<1>3. CASE DecideByFallback(r)
  BY <1>1, <1>3 DEF DecideByFallback, Actor, ReasonCode, Outcome
<1>4. CASE DecideWithoutBands(r)
  BY <1>1, <1>4 DEF DecideWithoutBands, Actor, ReasonCode, Outcome
<1>5. CASE DecideByBands(r)
  <2>0. bands \in Configs /\ call[r].scores \in Pds /\ ~call[r].degraded
    BY <1>0, <1>5 DEF DecideByBands, Decided, Goto, CallInv, Tested
  <2>1. PICK o : o = OutcomeFor(bands, call[r].scores)
    OBVIOUS
  <2>2. CASE o \in Outcome /\ Decided(r, "banding", o, "model", "BAND", bands)
    <3>1. Effective(bands) /\ o = BandOf(bands, call[r].scores)
      BY <2>1, <2>2 DEF OutcomeFor, Effective, Outcome
    <3> QED BY <1>1, <2>0, <2>2, <3>1 DEF Actor, ReasonCode
  <2>3. CASE Decided(r, "banding", "refer", "model", "P1_CUTOFFS_NOT_RATIFIED", bands)
    BY <1>1, <2>0, <2>3 DEF Actor, ReasonCode, Outcome
  <2>4. CASE Decided(r, "banding", "refer", "model", "P1_BANDS_NOT_DUAL_APPROVED", bands)
    BY <1>1, <2>0, <2>4 DEF Actor, ReasonCode, Outcome
  <2> QED BY <1>5, <2>1, <2>2, <2>3, <2>4 DEF DecideByBands
<1> QED
  BY <1>2, <1>3, <1>4, <1>5

(* The decision invariant is inductive.                                     *)
LEMMA DecisionInvariant == Spec => []DecisionInv
<1>1. Init => DecisionInv
  <2> SUFFICES ASSUME Init, NEW r \in Requests PROVE CallInv(r)
    BY DEF DecisionInv
  <2>1. phase[r] = "idle" /\ call[r].scores = NoScores /\ call[r].degraded = FALSE
    BY DEF Init, NoLocals
  <2>2. call[r].models = "empty"
    BY DEF Init, NoLocals
  <2> QED BY <2>1, <2>2 DEF CallInv, ScoredOnce, Tested, Fixed
<1>2. TypeOK /\ DecisionInv /\ [Next]_vars => DecisionInv'
  <2> SUFFICES ASSUME TypeOK, DecisionInv, [Next]_vars PROVE DecisionInv'
    OBVIOUS
  <2>0. phase \in [Requests -> Phases] /\ call \in [Requests -> Local]
        /\ answers \in [Requests -> AnswerRecord \cup {NoAnswer}]
    BY DEF TypeOK
  <2>1. ASSUME NEW r \in Requests, NEW fired \in RulesFired, FetchAndApplyRules(r, fired)
        PROVE  DecisionInv'
    <3>1. \A q \in Requests \ {r} : CallInv(q)'
      BY <2>0, <2>1, Undisturbed DEF FetchAndApplyRules, Goto, DecisionInv
    <3>2. CallInv(r)'
      BY <2>0, <2>1
         DEF FetchAndApplyRules, Goto, DecisionInv, CallInv, ScoredOnce, Tested, Fixed, Local
    <3> QED BY <3>1, <3>2 DEF DecisionInv
  <2>2. ASSUME NEW r \in Requests, Score(r) PROVE DecisionInv'
    <3>1. \A q \in Requests \ {r} : call'[q] = call[q]
      BY <2>0, <2>2 DEF Score
    <3>2. \A q \in Requests \ {r} : CallInv(q)'
      BY <2>0, <2>2, <3>1, Undisturbed DEF Score, Goto, DecisionInv
    <3>3. CallInv(r)'
      BY <2>0, <2>2 DEF Score, Goto, DecisionInv, CallInv, ScoredOnce, Tested, Fixed, Local
    <3> QED BY <3>2, <3>3 DEF DecisionInv
  <2>m. ASSUME NEW r \in Requests, NEW from \in Phases, NEW to \in Phases, Move(r, from, to),
               from \in {"idle", "fetched", "scoring"} \/ to \notin {"fetched", "scoring"},
               from = to \/ to \notin {"idle", "answered"},
               to \in Fixed => from \in Fixed,
               to \in {"unbanded", "banding"} => call[r].fired = <<>> /\ ~call[r].degraded,
               to = "banding" => call[r].scores \in Pds,
               to = "naming" => ~call[r].degraded
        PROVE  DecisionInv'
    <3>1. \A q \in Requests \ {r} : CallInv(q)'
      BY <2>0, <2>m, Undisturbed DEF Move, Goto, DecisionInv
    <3>2. phase[r] = from /\ phase'[r] = to /\ call' = call /\ answers' = answers
      BY <2>0, <2>m DEF Move, Goto
    <3>3. CallInv(r)'
      BY <2>m, <3>2
         DEF DecisionInv, CallInv, ScoredOnce, Tested, Recorded, Justified, BandsDecided, Fixed
    <3> QED BY <3>1, <3>3 DEF DecisionInv
  <2>c. ASSUME NEW r \in Requests,
               \/ CheckScorer(r) \/ ScoreVanished(r) \/ DecideByModel(r) \/ CheckBands(r)
               \/ BandsVanished(r) \/ CheckModel(r) \/ CheckVersion(r) \/ VersionVanished(r)
        PROVE  DecisionInv'
    <3>0. CallInv(r)
      BY DEF DecisionInv
    <3>1. CASE CheckScorer(r) \/ ScoreVanished(r) \/ BandsVanished(r)
      BY <3>1, <2>m DEF CheckScorer, ScoreVanished, BandsVanished, Phases, Fixed
    <3>2. CASE DecideByModel(r)
      BY <3>2, <2>m DEF DecideByModel, Phases, Fixed
    <3>3. CASE CheckBands(r)
      BY <3>0, <3>3, <2>m DEF CheckBands, Move, Goto, CallInv, Tested, Phases, Fixed
    <3>4. CASE CheckModel(r)
      BY <3>4, <2>m DEF CheckModel, Phases, Fixed
    <3>5. CASE CheckVersion(r) \/ VersionVanished(r)
      BY <3>5, <2>m DEF CheckVersion, VersionVanished, Phases, Fixed
    <3> QED BY <2>c, <3>1, <3>2, <3>3, <3>4, <3>5
  <2>n. ASSUME NEW r \in Requests, NameModel(r) PROVE DecisionInv'
    <3>1. \A q \in Requests \ {r} : call'[q] = call[q]
      BY <2>0, <2>n DEF NameModel
    <3>2. \A q \in Requests \ {r} : CallInv(q)'
      BY <2>0, <2>n, <3>1, Undisturbed DEF NameModel, Goto, DecisionInv
    <3>3. /\ phase[r] = "naming" /\ phase'[r] = "listed" /\ answers' = answers
          /\ call'[r].fired = call[r].fired /\ call'[r].scores = call[r].scores
          /\ call'[r].degraded = call[r].degraded /\ call'[r].outcome = call[r].outcome
          /\ call'[r].decided_by = call[r].decided_by /\ call'[r].reason = call[r].reason
          /\ call'[r].used = call[r].used
      BY <2>0, <2>n DEF NameModel, Goto, Local
    <3>4. CallInv(r)'
      BY <3>3 DEF DecisionInv, CallInv, ScoredOnce, Tested, Justified, BandsDecided, Fixed
    <3> QED BY <3>2, <3>4 DEF DecisionInv
  <2>3. ASSUME NEW r \in Requests, Record(r) PROVE DecisionInv'
    <3>0. phase[r] \in {"listed", "versioning"}
      BY <2>3 DEF Record, Versioned
    <3>1. \A q \in Requests \ {r} : CallInv(q)'
      BY <2>0, <2>3, Undisturbed DEF Record, Goto, DecisionInv
    <3>2. Recorded(r)'
      BY <2>0, <2>3 DEF Record, RecordOf, Recorded, DecisionInv, CallInv, ScoredOnce
    <3>3. CallInv(r)'
      BY <2>0, <2>3, <3>0, <3>2
         DEF Record, Goto, DecisionInv, CallInv, ScoredOnce, Tested, Justified, BandsDecided, Fixed
    <3> QED BY <3>1, <3>3 DEF DecisionInv
  <2>4. ASSUME NEW r \in Requests, RecordRefused(r) PROVE DecisionInv'
    <3>1. phase[r] \in Phases /\ Move(r, phase[r], "raised")
      BY <2>0, <2>4 DEF RecordRefused
    <3> QED BY <3>1, <2>m DEF Phases, Fixed
  <2>5. ASSUME UNCHANGED <<phase, call, answers>> PROVE DecisionInv'
    BY <2>5, Undisturbed DEF DecisionInv
  <2> QED
    BY <2>1, <2>2, <2>c, <2>n, <2>3, <2>4, <2>5, DecideStep
       DEF Next, Step, Decide, SwapBands, SetModelRef, SetScorer, ServerDown, ServerUp, Change, vars
<1> QED
  BY <1>1, <1>2, OrchestratorTypeCorrect, PTL DEF Spec

-----------------------------------------------------------------------------
(* Dual control: the model approves or declines only on a grounded config  *)
(* two people approved, the one read when outcome_for() ran.                *)
THEOREM DualControlHolds == Spec => []DualControl
<1>1. TypeOK /\ DecisionInv => DualControl
  <2> SUFFICES ASSUME TypeOK, DecisionInv, NEW r \in Answered,
                      answers[r].decided_by = "model", answers[r].outcome # "refer"
               PROVE  call[r].used # NoBands /\ Effective(call[r].used)
    BY DEF DualControl
  <2>1. CallInv(r) /\ phase[r] = "answered"
    BY DEF DecisionInv, Answered
  <2>2. Recorded(r) /\ Justified(call[r])
    BY <2>1 DEF CallInv
  <2>3. BandsDecided(call[r])
    BY <2>2 DEF Recorded, Justified
  <2> QED BY <2>3, ScoresAssumption DEF BandsDecided
<1> QED
  BY <1>1, OrchestratorTypeCorrect, DecisionInvariant, PTL

(* BandConfig refuses two cutoffs without a review band between them, so    *)
(* a higher probability of default never gets a milder outcome.             *)
LEMMA BandsMonotone ==
    ASSUME NEW c \in BandConfig, Grounded(c), NEW p \in Int, NEW q \in Int, p <= q
    PROVE  Severity(BandOf(c, p)) <= Severity(BandOf(c, q))
<1>1. c.approve_below \in Int /\ c.decline_above \in Int
  BY DEF BandConfig, Cutoff, Grounded
<1>2. c.approve_below < c.decline_above
  BY DEF BandConfig, WellFormed
<1>3. Severity("approve") = 0 /\ Severity("refer") = 1 /\ Severity("decline") = 2
  BY DEF Severity
<1> QED
  BY <1>1, <1>2, <1>3 DEF BandOf

(* Two answers by the same bands are in the order of their risk.            *)
THEOREM RiskOrderingHolds == Spec => []RiskOrdering
<1>1. TypeOK /\ DecisionInv => RiskOrdering
  <2> SUFFICES ASSUME TypeOK, DecisionInv, NEW r \in Answered, NEW s \in Answered,
                      answers[r].reason = "BAND", answers[s].reason = "BAND",
                      call[r].used = call[s].used,
                      answers[r].scores <= answers[s].scores
               PROVE  Severity(answers[r].outcome) <= Severity(answers[s].outcome)
    BY DEF RiskOrdering
  <2>1. ASSUME NEW q \in Answered, answers[q].reason = "BAND"
        PROVE  /\ answers[q].scores \in Int
               /\ call[q].used \in BandConfig /\ Grounded(call[q].used)
               /\ answers[q].outcome = BandOf(call[q].used, answers[q].scores)
    <3>1. Recorded(q) /\ Justified(call[q])
      BY DEF DecisionInv, CallInv, Answered
    <3>2. BandsDecided(call[q])
      BY <2>1, <3>1 DEF Recorded, Justified
    <3> QED BY <3>1, <3>2, ConfigsAssumption, PdsAssumption DEF BandsDecided, Recorded, Effective
  <2> QED BY <2>1, BandsMonotone
<1> QED
  BY <1>1, OrchestratorTypeCorrect, DecisionInvariant, PTL

(* A call the model server failed names no model and no score, and ends in  *)
(* a rule's outcome or with a human.                                        *)
THEOREM OutageIsADecisionPath == Spec => []OutageNeverScores
<1>1. TypeOK /\ DecisionInv => OutageNeverScores
  <2> SUFFICES ASSUME TypeOK, DecisionInv, NEW r \in Answered, call[r].degraded
               PROVE  /\ answers[r].models = "empty"
                      /\ answers[r].scores = NoScores
                      /\ answers[r].decided_by = "policy_rule" \/ answers[r].outcome = "refer"
    BY DEF OutageNeverScores
  <2>1. ScoredOnce(r) /\ Recorded(r) /\ Justified(call[r])
    BY DEF DecisionInv, CallInv, Answered
  <2> QED BY <2>1 DEF ScoredOnce, Recorded, Justified
<1> QED
  BY <1>1, OrchestratorTypeCorrect, DecisionInvariant, PTL

-----------------------------------------------------------------------------
(* The refinement of DecisionService, when the object is only reconfigured  *)
(* while no call is in progress.                                            *)

\* What a call decided follows from its rules, its score and the bands in force.
CallExplained(c) ==
    IF c.fired # <<>>
    THEN c.decided_by = "policy_rule" /\ c.outcome = Rules[Head(c.fired)]
    ELSE \/ c.decided_by = "fallback" /\ c.outcome = "refer" /\ c.scores = NoScores
         \/ c.decided_by = "model" /\ c.outcome = Promise!ModelOutcome(bands, c.scores)

QuietInv ==
    \A r \in Requests :
        /\ phase[r] = "scored" /\ scorer = "absent" => call[r].scores = NoScores
        /\ phase[r] \in Fixed => CallExplained(call[r])
        /\ phase[r] = "naming" => model_ref
        /\ call[r].models # "none"

(* The promise reads a band config as the code does.                        *)
LEMMA PromisedOutcome ==
    ASSUME NEW b \in Configs \cup {NoBands}, NEW score \in Scores
    PROVE  /\ b = NoBands \/ score \notin Pds => Promise!ModelOutcome(b, score) = "refer"
           /\ b # NoBands /\ score \in Pds =>
                /\ OutcomeFor(b, score) \in Outcome =>
                        Promise!ModelOutcome(b, score) = OutcomeFor(b, score)
                /\ OutcomeFor(b, score) \in {"Ungrounded", "BandConfigError"} =>
                        Promise!ModelOutcome(b, score) = "refer"
<1>1. Promise!Effective(b) <=> Grounded(b) /\ DualControlSatisfied(b)
  <2>1. Promise!DistinctApprovers(b) = DistinctApprovers(b)
    BY Zenon DEF Promise!DistinctApprovers, DistinctApprovers, Promise!Cardinality, Cardinality
  <2> QED
    BY <2>1 DEF Promise!Effective, Promise!Grounded, Promise!DualControlSatisfied,
                Promise!RequiredApprovers, Grounded, DualControlSatisfied, RequiredApprovers
<1>2. Promise!BandOf(b, score) = BandOf(b, score) /\ BandOf(b, score) \in Outcome
  BY DEF Promise!BandOf, BandOf, Outcome
<1>3. score \notin Pds => score = NoScores \/ score = NoPd
  BY DEF Scores
<1>4. score \in Pds => score # NoScores /\ score # NoPd
  BY PdsAssumption, ScoresAssumption
<1> QED
  BY <1>1, <1>2, <1>3, <1>4 DEF Promise!ModelOutcome, OutcomeFor, Outcome

(* The branch that is taken explains itself by the bands in force.          *)
LEMMA DecideExplains ==
    ASSUME TypeOK, DecisionInv, QuietInv, NEW r \in Requests,
           \/ DecideByRule(r) \/ DecideByFallback(r)
           \/ DecideWithoutBands(r) \/ DecideByBands(r)
    PROVE  QuietInv'
<1>0. /\ call[r] \in Local /\ bands \in Configs \cup {NoBands}
      /\ call[r].scores \in Scores /\ ScoredOnce(r) /\ Tested(r)
  BY DEF TypeOK, DecisionInv, CallInv, Local
<1>1. ASSUME NEW from \in {"scored", "unbanded", "banding"},
             NEW outcome \in Outcome, NEW actor \in Actor,
             NEW reason \in ReasonCode, NEW used \in Configs \cup {NoBands},
             Decided(r, from, outcome, actor, reason, used),
             IF call[r].fired # <<>>
             THEN actor = "policy_rule" /\ outcome = Rules[Head(call[r].fired)]
             ELSE \/ actor = "fallback" /\ outcome = "refer" /\ call[r].scores = NoScores
                  \/ actor = "model" /\ outcome = Promise!ModelOutcome(bands, call[r].scores)
      PROVE  QuietInv'
  <2>1. /\ call'[r].fired = call[r].fired /\ call'[r].scores = call[r].scores
        /\ call'[r].outcome = outcome /\ call'[r].decided_by = actor
        /\ call'[r].models = call[r].models
        /\ \A q \in Requests \ {r} : call'[q] = call[q]
    <3>1. TypeOK /\ Decided(r, from, outcome, actor, reason, used) /\ from \in Phases
      BY <1>1 DEF Phases
    <3>2. /\ call'[r] = [fired |-> call[r].fired, scores |-> call[r].scores,
                         degraded |-> call[r].degraded, outcome |-> outcome,
                         decided_by |-> actor, reason |-> reason,
                         models |-> call[r].models, used |-> used]
          /\ \A q \in Requests \ {r} : call'[q] = call[q]
      BY ONLY <3>1, DecidedEffect
    <3> QED BY ONLY <3>2
  <2>2. /\ phase'[r] = "decided" /\ bands' = bands /\ scorer' = scorer /\ model_ref' = model_ref
        /\ \A q \in Requests \ {r} : phase'[q] = phase[q]
    BY <1>1 DEF Decided, Goto, TypeOK, config
  <2>3. Promise!ModelOutcome(bands, call[r].scores)' = Promise!ModelOutcome(bands, call'[r].scores)
    BY <2>2 DEF Promise!ModelOutcome, Promise!Effective, Promise!Grounded,
                Promise!DualControlSatisfied, Promise!BandOf
  <2>4. CallExplained(call[r])'
    BY <1>1, <2>1, <2>2, <2>3 DEF CallExplained
  <2> QED BY <2>1, <2>2, <2>4 DEF QuietInv, CallExplained, Fixed
<1>2. CASE DecideByRule(r)
  <2>1. Rules[Head(call[r].fired)] \in Outcome
    BY <1>0, <1>2, RulesAssumption DEF DecideByRule, Local
  <2> QED BY <1>1, <1>2, <2>1 DEF DecideByRule, Actor, ReasonCode
<1>3. CASE DecideByFallback(r)
  <2>1. call[r].scores = NoScores
    BY <1>0, <1>3 DEF DecideByFallback, Decided, Goto, ScoredOnce, QuietInv
  <2> QED BY <1>1, <1>3, <2>1 DEF DecideByFallback, Actor, ReasonCode, Outcome
<1>4. CASE DecideWithoutBands(r)
  <2>1. Promise!ModelOutcome(bands, call[r].scores) = "refer"
    BY <1>0, <1>4, PromisedOutcome DEF DecideWithoutBands
  <2>2. call[r].fired = <<>>
    BY <1>0, <1>4 DEF DecideWithoutBands, Decided, Goto, Tested
  <2> QED BY <1>1, <1>4, <2>1, <2>2 DEF DecideWithoutBands, Actor, ReasonCode, Outcome
<1>5. CASE DecideByBands(r)
  <2>0. bands \in Configs /\ call[r].scores \in Pds /\ call[r].fired = <<>> /\ bands # NoBands
    BY <1>0, <1>5 DEF DecideByBands, Decided, Goto, Tested
  <2>1. PICK o : o = OutcomeFor(bands, call[r].scores)
    OBVIOUS
  <2>2. CASE o \in Outcome /\ Decided(r, "banding", o, "model", "BAND", bands)
    <3>1. o = Promise!ModelOutcome(bands, call[r].scores)
      BY <1>0, <2>0, <2>1, <2>2, PromisedOutcome
    <3> QED BY <1>1, <2>0, <2>2, <3>1 DEF Actor, ReasonCode
  <2>3. CASE o = "Ungrounded" /\ Decided(r, "banding", "refer", "model", "P1_CUTOFFS_NOT_RATIFIED", bands)
    <3>1. Promise!ModelOutcome(bands, call[r].scores) = "refer"
      BY <1>0, <2>0, <2>1, <2>3, PromisedOutcome
    <3> QED BY <1>1, <2>0, <2>3, <3>1 DEF Actor, ReasonCode, Outcome
  <2>4. CASE o = "BandConfigError"
             /\ Decided(r, "banding", "refer", "model", "P1_BANDS_NOT_DUAL_APPROVED", bands)
    <3>1. Promise!ModelOutcome(bands, call[r].scores) = "refer"
      BY <1>0, <2>0, <2>1, <2>4, PromisedOutcome
    <3> QED BY <1>1, <2>0, <2>4, <3>1 DEF Actor, ReasonCode, Outcome
  <2> QED BY <1>5, <2>1, <2>2, <2>3, <2>4 DEF DecideByBands
<1> QED
  BY <1>2, <1>3, <1>4, <1>5

(* QuietInv is inductive as long as no call sees a swap.                     *)
LEMMA QuietInvariant ==
    ASSUME ~SwapMidFlight
    PROVE  Spec => []QuietInv
<1>1. Init => QuietInv
  <2> SUFFICES ASSUME Init, NEW r \in Requests PROVE QuietInv!(r)
    BY DEF QuietInv
  <2>1. phase[r] = "idle" /\ call[r].models = "empty"
    BY DEF Init, NoLocals
  <2> QED BY <2>1 DEF Fixed
<1>2. TypeOK /\ DecisionInv /\ QuietInv /\ [Next]_vars => QuietInv'
  <2> SUFFICES ASSUME TypeOK, DecisionInv, QuietInv, [Next]_vars PROVE QuietInv'
    OBVIOUS
  <2>0. phase \in [Requests -> Phases] /\ call \in [Requests -> Local]
    BY DEF TypeOK
  <2>a. ASSUME bands' = bands
        PROVE  \A c : CallExplained(c) => CallExplained(c)'
    BY <2>a DEF CallExplained, Promise!ModelOutcome, Promise!Effective, Promise!Grounded,
                Promise!DualControlSatisfied, Promise!BandOf
  <2>1. ASSUME NEW r \in Requests, NEW to \in Phases,
               phase' = [phase EXCEPT ![r] = to], UNCHANGED config,
               \A q \in Requests \ {r} : call'[q] = call[q],
               to = "scored" /\ scorer = "absent" => call'[r].scores = NoScores,
               to \in Fixed => phase[r] \in Fixed /\ (CallExplained(call[r]) => CallExplained(call'[r])),
               to = "naming" => model_ref,
               call'[r].models # "none"
        PROVE  QuietInv'
    <3>1. bands' = bands /\ scorer' = scorer /\ model_ref' = model_ref
      BY <2>1 DEF config
    <3>2. phase'[r] = to /\ \A q \in Requests \ {r} : phase'[q] = phase[q]
      BY <2>0, <2>1
    <3>3. to \in Fixed => CallExplained(call'[r])
      BY <2>1 DEF QuietInv
    <3>4. to \in Fixed => CallExplained(call[r])'
      BY <3>1, <3>3 DEF CallExplained, Promise!ModelOutcome, Promise!Effective,
                        Promise!Grounded, Promise!DualControlSatisfied, Promise!BandOf
    <3>5. \A q \in Requests \ {r} : phase'[q] \in Fixed => CallExplained(call[q])'
      BY <2>1, <2>a, <3>1, <3>2 DEF QuietInv, CallExplained
    <3> QED BY <2>1, <3>1, <3>2, <3>4, <3>5 DEF QuietInv
  <2>2. ASSUME NEW r \in Requests, NEW fired \in RulesFired, FetchAndApplyRules(r, fired)
        PROVE  QuietInv'
    <3>1. call'[r].models = call[r].models
      BY <2>0, <2>2 DEF FetchAndApplyRules, Local
    <3> QED BY <2>0, <2>1, <2>2, <3>1 DEF FetchAndApplyRules, Goto, QuietInv, Phases, Fixed
  <2>3. ASSUME NEW r \in Requests, Score(r) PROVE QuietInv'
    <3>1. \A q \in Requests \ {r} : call'[q] = call[q]
      BY <2>0, <2>3 DEF Score
    <3>2. scorer # "absent" /\ call'[r].models = call[r].models
      BY <2>0, <2>3 DEF Score, Local
    <3> QED BY <2>1, <2>3, <3>1, <3>2 DEF Score, Goto, QuietInv, Phases, Fixed
  <2>m. ASSUME NEW r \in Requests, NEW from \in Phases, NEW to \in Phases, Move(r, from, to),
               to = "scored" /\ scorer = "absent" => from = "fetched",
               to \in Fixed => from \in Fixed,
               to = "naming" => model_ref
        PROVE  QuietInv'
    <3>1. to = "scored" /\ scorer = "absent" => call[r].scores = NoScores
      BY <2>m DEF Move, Goto, DecisionInv, CallInv, ScoredOnce
    <3> QED BY <2>1, <2>m, <3>1 DEF Move, Goto, QuietInv
  <2>c. ASSUME NEW r \in Requests,
               \/ CheckScorer(r) \/ ScoreVanished(r) \/ DecideByModel(r) \/ CheckBands(r)
               \/ BandsVanished(r) \/ CheckModel(r) \/ CheckVersion(r) \/ VersionVanished(r)
        PROVE  QuietInv'
    BY <2>c, <2>m
       DEF CheckScorer, ScoreVanished, DecideByModel, CheckBands, BandsVanished, CheckModel,
           CheckVersion, VersionVanished, Phases, Fixed
  <2>n. ASSUME NEW r \in Requests, NameModel(r) PROVE QuietInv'
    <3>1. \A q \in Requests \ {r} : call'[q] = call[q]
      BY <2>0, <2>n DEF NameModel
    <3>2. phase[r] = "naming" /\ model_ref
      BY <2>n DEF NameModel, Goto, QuietInv
    <3>3. /\ call'[r].models = "named"
          /\ call'[r].fired = call[r].fired /\ call'[r].scores = call[r].scores
          /\ call'[r].outcome = call[r].outcome /\ call'[r].decided_by = call[r].decided_by
      BY <2>0, <2>n, <3>2 DEF NameModel, Local
    <3>4. CallExplained(call[r]) => CallExplained(call'[r])
      BY <3>3 DEF CallExplained
    <3> QED BY <2>1, <2>n, <3>1, <3>2, <3>3, <3>4 DEF NameModel, Goto, Phases, Fixed
  <2>r. ASSUME NEW r \in Requests, Record(r) PROVE QuietInv'
    BY <2>1, <2>r DEF Record, Goto, QuietInv, Phases, Fixed
  <2>4. ASSUME NEW r \in Requests, RecordRefused(r) PROVE QuietInv'
    <3>1. phase[r] \in Phases /\ Move(r, phase[r], "raised")
      BY <2>0, <2>4 DEF RecordRefused
    <3> QED BY <3>1, <2>m DEF Phases, Fixed
  <2>5. ASSUME Quiet, UNCHANGED <<phase, call>> PROVE QuietInv'
    BY <2>5 DEF Quiet, Running, QuietInv, CallExplained, Fixed
  <2>6. ASSUME ServerDown \/ ServerUp PROVE QuietInv'
    <3>1. /\ bands' = bands /\ model_ref' = model_ref
          /\ scorer # "absent" /\ scorer' # "absent" /\ UNCHANGED <<phase, call>>
      BY <2>6 DEF ServerDown, ServerUp, Change
    <3> QED BY <2>a, <3>1 DEF QuietInv, CallExplained
  <2>7. CASE UNCHANGED vars
    <3>1. bands' = bands /\ scorer' = scorer /\ model_ref' = model_ref /\ UNCHANGED <<phase, call>>
      BY <2>7 DEF vars
    <3> QED BY <2>a, <3>1 DEF QuietInv, CallExplained
  <2>8. ASSUME \/ \E b \in Configs \cup {NoBands} : SwapBands(b)
               \/ \E m \in ModelRefs : SetModelRef(m)
               \/ \E s \in {"absent", "up"} : SetScorer(s)
        PROVE  QuietInv'
    BY <2>5, <2>8 DEF SwapBands, SetModelRef, SetScorer, Change
  <2> QED
    BY <2>2, <2>3, <2>c, <2>n, <2>r, <2>4, <2>6, <2>7, <2>8, DecideExplains DEF Next, Step, Decide
<1> QED
  BY <1>1, <1>2, OrchestratorTypeCorrect, DecisionInvariant, PTL DEF Spec

(* The answer of a call is one the promise allows.                          *)
LEMMA RecordKeepsPromise ==
    ASSUME TypeOK, QuietInv, NEW r \in Requests, Record(r)
    PROVE  Promise!Answer(r)
<1>1. /\ answers[r] = NoAnswer /\ CallExplained(call[r]) /\ call[r] \in Local
      /\ call[r].models \in {"empty", "named"}
  BY DEF TypeOK, Answered, Record, Versioned, QuietInv, Fixed, Local, ModelList
<1>2. answers'[r] = RecordOf(r) /\ answers' = [answers EXCEPT ![r] = answers'[r]] /\ bands' = bands
  BY DEF TypeOK, Record, config
<1>3. RecordOf(r) \in AnswerRecord
  BY <1>1 DEF RecordOf, TypeOK, Local, AnswerRecord
<1>4. RecordOf(r) # NoAnswer
  BY <1>3, AnswerAssumption
<1>5. /\ answers'[r].rules_fired = call[r].fired /\ answers'[r].scores = call[r].scores
      /\ answers'[r].outcome = call[r].outcome /\ answers'[r].decided_by = call[r].decided_by
      /\ answers'[r].models = call[r].models /\ answers'[r].bands = bands
  BY <1>2 DEF RecordOf
<1>6. call[r].models = "named" \/ call[r].decided_by # "model"
  BY <1>1 DEF Record, Refused
<1>7. Promise!Explained(answers'[r])
  BY <1>1, <1>5, <1>6 DEF CallExplained, Promise!Explained
<1> QED
  BY <1>1, <1>2, <1>4, <1>5, <1>7 DEF Promise!Answer

(* decide() implements DecisionService: every step of a call is a step of   *)
(* the promise, and only the record is a visible one.                        *)
THEOREM DecideKeepsItsPromise ==
    ASSUME ~SwapMidFlight
    PROVE  Spec => ImplementsPromise
<1>1. Init => Promise!Init
  BY DEF Init, Promise!Init
<1>2. TypeOK /\ QuietInv /\ [Next]_vars => [Promise!Next]_<<bands, answers>>
  <2> SUFFICES ASSUME TypeOK, QuietInv, [Next]_vars
               PROVE  Promise!Next \/ UNCHANGED <<bands, answers>>
    OBVIOUS
  <2>1. ASSUME NEW r \in Requests, Record(r) PROVE Promise!Next
    BY <2>1, RecordKeepsPromise DEF Promise!Next
  <2>2. ASSUME UNCHANGED answers PROVE Promise!Next
    BY <2>2 DEF Promise!Next, Promise!Reconfigure
  <2>3. ASSUME NEW r \in Requests, Decide(r) PROVE answers' = answers
    BY <2>3
       DEF Decide, Move, Decided, DecideByRule, DecideByFallback, DecideByModel,
           DecideWithoutBands, CheckBands, DecideByBands, BandsVanished
  <2>4. ASSUME NEW r \in Requests,
               \/ CheckScorer(r) \/ Score(r) \/ ScoreVanished(r) \/ CheckModel(r) \/ NameModel(r)
               \/ CheckVersion(r) \/ VersionVanished(r) \/ RecordRefused(r)
        PROVE  answers' = answers
    BY <2>4
       DEF Move, CheckScorer, Score, ScoreVanished, CheckModel, NameModel, CheckVersion,
           VersionVanished, RecordRefused
  <2> QED
    BY <2>1, <2>2, <2>3, <2>4
       DEF Next, Step, FetchAndApplyRules, Change, SwapBands, SetModelRef, SetScorer,
           ServerDown, ServerUp, vars
<1> QED
  BY <1>1, <1>2, OrchestratorTypeCorrect, QuietInvariant, PTL
     DEF Spec, ImplementsPromise, Promise!Spec

=============================================================================
