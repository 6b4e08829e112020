-------------------------- MODULE DecisionService --------------------------
(***************************************************************************)
(* What the orchestrator promises, without its steps: each request is      *)
(* answered at most once, by one record that explains itself.  The outcome *)
(* of the record follows from the rules, the score and the band config the *)
(* record names, and that config was in force when the answer was given.   *)
(***************************************************************************)
EXTENDS Bands, Sequences

CONSTANTS
    Requests,       \* calls of decide()
    Rules,          \* the outcomes of the policy rules, in rule order
    NoScores,       \* the scores dict is empty
    NoPd,           \* the scores dict has no "pd"
    NoBands,        \* no band config is injected
    NoAnswer        \* decide() has not returned

VARIABLES
    bands,          \* the band config in force
    answers         \* the record each request was answered with

\* Only an effective config moves a score out of human review.
ModelOutcome(b, scores) ==
    IF b = NoBands \/ scores \in {NoScores, NoPd} THEN "refer"
    ELSE IF ~Effective(b) \/ scores \notin 0..PdScale THEN "refer"
    ELSE BandOf(b, scores)

\* The first rule that fired decides; without a rule the model decides by the
\* bands, or, having no score, refers.
Explained(rec) ==
    IF rec.rules_fired # <<>>
    THEN rec.decided_by = "policy_rule" /\ rec.outcome = Rules[Head(rec.rules_fired)]
    ELSE \/ /\ rec.decided_by = "fallback"
            /\ rec.outcome = "refer"
            /\ rec.scores = NoScores
         \/ /\ rec.decided_by = "model"
            /\ rec.models = "named"
            /\ rec.outcome = ModelOutcome(rec.bands, rec.scores)

Init == answers = [r \in Requests |-> NoAnswer]

Answer(r) ==
    /\ answers[r] = NoAnswer
    /\ answers'[r] # NoAnswer
    /\ answers' = [answers EXCEPT ![r] = answers'[r]]
    /\ answers'[r].bands = bands
    /\ Explained(answers'[r])
    /\ UNCHANGED bands

Reconfigure == UNCHANGED answers

Next == Reconfigure \/ \E r \in Requests : Answer(r)

Spec == Init /\ [][Next]_<<bands, answers>>

=============================================================================
