----------------------------- MODULE Documents -----------------------------
(***************************************************************************)
(* Deterministic checks of uploaded documents: fraud/documents.py.  A bank *)
(* statement and a salary slip, as issued and then with figures altered,   *)
(* an account-aggregator value beside the uploaded one, and the features   *)
(* the application gets.                                                   *)
(***************************************************************************)
EXTENDS Integers, Sequences, FiniteSets

CONSTANTS
    Figure,         \* figures a document states
    NotExtracted,   \* a figure the OCR did not find
    Months,         \* months of the statement
    MaxEdits        \* bound: figures altered

VARIABLES
    statement,      \* month -> [opening, credits, debits, closing]
    slip,           \* [earnings, deductions, stated_gross, stated_net]
    aa_value,       \* income the account aggregator reports, or None
    posture,        \* ConsentPosture
    edits           \* fields altered since the documents were issued

docVars == <<statement, slip, aa_value, posture, edits>>

ConsentPosture == {"granted", "refused", "not_offered", "unknown"}
StatementField == {"opening", "credits", "debits", "closing"}
StatedFigures == {"stated_gross", "stated_net"}

Month(opening, credits, debits) ==
    [opening |-> opening, credits |-> credits, debits |-> debits,
     closing |-> opening + credits - debits]

\* What a bank and an employer issue: months that carry over, a slip that adds up.
Issued(first, flows) == LET
    month[k \in 1..Months] ==
        IF k = 1 THEN Month(first, flows[1].in, flows[1].out)
        ELSE LET before == month[k - 1] IN Month(before.closing, flows[k].in, flows[k].out)
    IN month

Init ==
    /\ \E first \in Figure, flows \in [1..Months -> [in : Figure, out : Figure]] :
          statement = Issued(first, flows)
    /\ \E earnings, deductions \in Figure :
          slip = [earnings |-> earnings, deductions |-> deductions,
                  stated_gross |-> earnings, stated_net |-> earnings - deductions]
    /\ aa_value = NotExtracted /\ posture = "unknown"
    /\ edits = {}

-----------------------------------------------------------------------------
\* What is checked of a statement and what the applicant's answer changes share
\* nothing: the two are not followed together.
AlterStatement(k, field, figure) ==
    /\ posture = "unknown"
    /\ Cardinality(edits) < MaxEdits
    /\ <<k, field>> \notin edits /\ statement[k][field] # figure
    /\ statement' = [statement EXCEPT ![k][field] = figure]
    /\ edits' = edits \cup {<<k, field>>}
    /\ UNCHANGED <<slip, aa_value, posture>>
AlterSlip(field, figure) ==
    /\ Cardinality(edits) < MaxEdits
    /\ <<0, field>> \notin edits /\ slip[field] # figure
    /\ slip' = [slip EXCEPT ![field] = figure]
    /\ edits' = edits \cup {<<0, field>>}
    /\ UNCHANGED <<statement, aa_value, posture>>

\* The applicant answers the consent request; a granted one brings the income.  That
\* nothing comes without consent is the aggregator's side of it, not the code's.
Answer(answer, income) ==
    /\ posture = "unknown" /\ \A e \in edits : e[1] = 0
    /\ answer # "granted" => income = NotExtracted
    /\ posture' = answer
    /\ aa_value' = income
    /\ UNCHANGED <<statement, slip, edits>>

Next ==
    \/ \E k \in 1..Months, f \in StatementField, x \in Figure : AlterStatement(k, f, x)
    \/ \E f \in StatedFigures \cup {"earnings", "deductions"}, x \in Figure : AlterSlip(f, x)
    \/ \E f \in StatedFigures : AlterSlip(f, NotExtracted)
    \/ \E a \in ConsentPosture \ {"unknown"}, x \in Figure \cup {NotExtracted} : Answer(a, x)

Spec == Init /\ [][Next]_docVars

-----------------------------------------------------------------------------
\* check_salary_slip(): a stated figure that was not extracted is not checkable.
Stated(figure, computed) ==
    IF figure = NotExtracted THEN "not_checkable" ELSE IF figure = computed THEN "pass" ELSE "fail"
SlipResults ==
    [gross |-> Stated(slip.stated_gross, slip.earnings),
     net |-> Stated(slip.stated_net, slip.earnings - slip.deductions)]

\* Mutant: each month is checked by itself.
ContinuityOfMonths ==
    {<<k, k>> : k \in {j \in 1..Months :
        statement[j].opening + statement[j].credits - statement[j].debits # statement[j].closing}}

\* check_balance_continuity(): the checks that fail, of a month and between months.
ContinuityFailures ==
    {<<k, k>> : k \in {j \in 1..Months :
        statement[j].opening + statement[j].credits - statement[j].debits # statement[j].closing}}
    \cup {<<k, k + 1>> : k \in
            {j \in 1..(Months - 1) : statement[j].closing # statement[j + 1].opening}}

Failures == {r \in DOMAIN SlipResults : SlipResults[r] = "fail"}
NotCheckable == {r \in DOMAIN SlipResults : SlipResults[r] = "not_checkable"}

\* reconcile(): the aggregator's value is used whenever there is one.
UsedValue == IF aa_value # NotExtracted THEN aa_value ELSE slip.stated_net
Disagreed == aa_value # NotExtracted /\ slip.stated_net # NotExtracted /\ aa_value # slip.stated_net

\* features() with aa_first_features(): nothing about consent while it is unknown.
Features ==
    [doc_check_failures |-> Cardinality(Failures) + Cardinality(ContinuityFailures),
     doc_check_not_checkable |-> Cardinality(NotCheckable),
     aa |-> IF posture = "unknown" THEN {}
            ELSE {[granted |-> posture = "granted", refused_with_documents |-> posture = "refused",
                   disagreements |-> Disagreed]}]

-----------------------------------------------------------------------------
(* Properties.                                                             *)

\* A document as it was issued fails nothing, and one altered figure of it fails
\* something or is reported as not checkable.
OneEditIsEvident ==
    /\ edits = {} => Failures = {} /\ ContinuityFailures = {}
    /\ Cardinality(edits) = 1 => Failures # {} \/ ContinuityFailures # {} \/ NotCheckable # {}

\* A statement that passes balances from end to end: nothing was slipped in between.
PassedStatementBalances ==
    ContinuityFailures = {} =>
        \A i, j \in 1..Months : i <= j =>
            LET in[k \in (i - 1)..j] == IF k < i THEN 0 ELSE LET s == in[k - 1] IN s + statement[k].credits
                out[k \in (i - 1)..j] == IF k < i THEN 0 ELSE LET s == out[k - 1] IN s + statement[k].debits
            IN statement[j].closing - statement[i].opening = in[j] - out[j]

\* An uploaded figure never outweighs the aggregator's, and only an applicant who
\* consented can be found to disagree with it.
AggregatorFirst ==
    /\ posture = "granted" /\ aa_value # NotExtracted => UsedValue = aa_value
    /\ \A f \in Features.aa : f.disagreements => f.granted /\ ~f.refused_with_documents

DocumentsSound == OneEditIsEvident /\ PassedStatementBalances /\ AggregatorFirst

=============================================================================
