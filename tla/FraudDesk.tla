----------------------------- MODULE FraudDesk -----------------------------
(***************************************************************************)
(* The fraud desk (fraud/routing.py): scores are routed by bands, referred *)
(* applications become cases, and a closed case becomes a training label   *)
(* and a term of the alert precision of its signal.                        *)
(* An operation that raises changes nothing and is no step.                *)
(***************************************************************************)
EXTENDS Naturals, Sequences, FiniteSets

CONSTANTS
    Case, DeskApplication, DeskSignal, Analyst,
    Code,               \* the codes an analyst may type
    TopScore,           \* a fraud score 0..1, scaled
    Bands               \* RoutingPolicy.bands

VARIABLES
    taxonomy,           \* DispositionTaxonomy: the meaning of its codes, and ratified
    queue               \* CaseQueue.cases: case id -> case

vars == <<taxonomy, queue>>

Action == {"pass", "step_up", "refer"}
DispositionOutcome == {"confirmed_fraud", "not_fraud", "inconclusive"}
Nobody == "nobody"
Undisposed == "none"

\* RoutingPolicy.__post_init__: at least one band, in strictly ascending order.
PolicyAccepted(bands) ==
    /\ bands # <<>>
    /\ \A i, j \in DOMAIN bands : i < j => bands[i].lower < bands[j].lower

\* action_for(): the last band whose lower edge the score reaches.
Reached(score) == {i \in DOMAIN Bands : score >= Bands[i].lower}
ActionFor(score) ==
    IF Reached(score) = {} THEN "pass"
    ELSE Bands[CHOOSE i \in Reached(score) : \A j \in Reached(score) : j <= i].action

\* A ratified taxonomy cites its decision; a stand-in has its reason.
Init ==
    /\ taxonomy \in [codes : UNION {[known -> DispositionOutcome] : known \in SUBSET Code},
                     ratified : BOOLEAN]
    /\ queue = << >>
    /\ PolicyAccepted(Bands)

-----------------------------------------------------------------------------
\* The scored application is routed, and opens a case unless it passes.
OpenCase(c, application, score, signal) ==
    /\ ActionFor(score) # "pass"
    /\ c \notin DOMAIN queue
    /\ queue' = [d \in DOMAIN queue \cup {c} |->
                    IF d # c THEN queue[d]
                    ELSE [application |-> application, action |-> ActionFor(score),
                          score |-> score, signal |-> signal, closed |-> FALSE,
                          disposition |-> Undisposed, analyst |-> Nobody]]
    /\ UNCHANGED taxonomy

\* Mutant: the case is marked closed before its code is resolved.
CloseThenResolve(c, code, analyst) ==
    /\ c \in DOMAIN queue /\ ~queue[c].closed
    /\ analyst # Nobody
    /\ queue' = [queue EXCEPT ![c].closed = TRUE, ![c].analyst = analyst,
                   ![c].disposition = IF code \in DOMAIN taxonomy.codes
                                      THEN taxonomy.codes[code] ELSE Undisposed]
    /\ UNCHANGED taxonomy

\* Mutant: a closed case can be closed again with another code.
CloseAgain(c, code, analyst) ==
    /\ c \in DOMAIN queue
    /\ analyst # Nobody
    /\ code \in DOMAIN taxonomy.codes
    /\ queue' = [queue EXCEPT ![c].disposition = taxonomy.codes[code],
                              ![c].closed = TRUE, ![c].analyst = analyst]
    /\ UNCHANGED taxonomy

\* Only an open case closes, with a known code and a named analyst.
Close(c, code, analyst) ==
    /\ c \in DOMAIN queue /\ ~queue[c].closed
    /\ analyst # Nobody
    /\ code \in DOMAIN taxonomy.codes
    /\ queue' = [queue EXCEPT ![c].disposition = taxonomy.codes[code],
                              ![c].closed = TRUE, ![c].analyst = analyst]
    /\ UNCHANGED taxonomy

Next ==
    \E c \in Case :
        \/ \E a \in DeskApplication, s \in 0..TopScore, g \in DeskSignal : OpenCase(c, a, s, g)
        \/ \E code \in Code, who \in Analyst \cup {Nobody} : Close(c, code, who)

Spec == Init /\ [][Next]_vars

-----------------------------------------------------------------------------
(* What the desk reports.                                                  *)

Closed == {c \in DOMAIN queue : queue[c].closed}

\* completeness(), as the number of closed and of all cases.
Completeness == <<Cardinality(Closed), Cardinality(DOMAIN queue)>>

\* Cases whose disposition is a training label; none while the taxonomy is a stand-in.
TrainingCases ==
    IF ~taxonomy.ratified THEN {}
    ELSE {c \in DOMAIN queue : queue[c].disposition \notin {Undisposed, "inconclusive"}}

TrainingLabel(c) == IF queue[c].disposition = "confirmed_fraud" THEN 1 ELSE 0

\* precision() of some signals: confirmed and closed cases.
ClosedOf(signals) == {c \in Closed : queue[c].signal \in signals}
Precision(signals) ==
    [confirmed |-> Cardinality({c \in ClosedOf(signals) : queue[c].disposition = "confirmed_fraud"}),
     total |-> Cardinality(ClosedOf(signals))]

-----------------------------------------------------------------------------
(* Properties.                                                             *)

TypeOK ==
    /\ DOMAIN queue \subseteq Case
    /\ \A c \in DOMAIN queue :
          /\ queue[c].application \in DeskApplication
          /\ queue[c].action \in Action \ {"pass"}
          /\ queue[c].disposition \in DispositionOutcome \cup {Undisposed}
          /\ queue[c].analyst \in Analyst \cup {Nobody}

\* A case leaves the open queue only into the training set: whoever closes it and
\* with whatever code, it has a disposition of the taxonomy and an analyst, so that
\* no signal's precision and no label is taken over a case without an outcome.
ClosedIsDisposed ==
    \A c \in DOMAIN queue :
        /\ queue[c].closed <=> queue[c].disposition # Undisposed
        /\ queue[c].closed <=> queue[c].analyst # Nobody

\* The desk's figures fit together: the precisions of groups that share no signal
\* add up, confirmed cases are among the closed ones, and every training label is of
\* one.
FiguresAddUp ==
    LET whole == Precision(DeskSignal) IN
    /\ \A A, B \in SUBSET DeskSignal : A \cap B = {} =>
          /\ Precision(A \cup B).total = Precision(A).total + Precision(B).total
          /\ Precision(A \cup B).confirmed = Precision(A).confirmed + Precision(B).confirmed
    /\ whole.total = Completeness[1]
    /\ TrainingCases \subseteq Closed
    /\ taxonomy.ratified =>
          whole.confirmed = Cardinality({c \in TrainingCases : TrainingLabel(c) = 1})

DeskSound == ClosedIsDisposed /\ FiguresAddUp

\* A label that training may have used is never withdrawn or changed.
LabelKept ==
    \A c \in TrainingCases :
        c \in TrainingCases' /\ TrainingLabel(c)' = TrainingLabel(c)

=============================================================================
