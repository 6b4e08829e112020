--------------------------- MODULE IdentitySpine ---------------------------
(***************************************************************************)
(* build_spine() of identity/spine.py: three extracts are read row by row, *)
(* joined on exact normalised keys, and audited as they are read.          *)
(* The order of the rows is the order of the extracts.                     *)
(***************************************************************************)
EXTENDS Naturals, Sequences, FiniteSets

CONSTANTS
    LoanKey, CustomerKey,   \* keys normalise() accepts
    Rejected,               \* what normalise() answers for any other
    MaxRows                 \* bound: rows of the three extracts

VARIABLES
    reading,        \* the extract being read: "cbs", "los", "collections", "done"
    rows,           \* history: the rows read so far, of each extract
    spine,          \* loan key -> its record
    audit           \* SpineAudit

vars == <<reading, rows, spine, audit>>

Source == {"cbs", "los", "collections"}
Loan == LoanKey \cup {Rejected}
Customer == CustomerKey \cup {Rejected}

\* A row: is_active matters in cbs, the application in los.
Row == [loan : Loan, customer : Customer, active : BOOLEAN, application : BOOLEAN]
RowsOf(source) ==
    {r \in Row : (source # "cbs" => r.active) /\ (source # "los" => ~r.application)}

NoCustomers == [s \in {} |-> Rejected]
EmptyAudit ==
    [loans_in_cbs |-> 0, collections_cases |-> 0, collections_cases_resolved |-> 0,
     loans_with_application |-> 0, loans_with_customer_evidence |-> 0,
     loans_with_consistent_customer |-> 0, unusable |-> 0, orphans |-> 0,
     missing |-> 0, disagreements |-> 0]

Init ==
    /\ reading = "cbs"
    /\ rows = [s \in Source |-> <<>>]
    /\ spine = [l \in {} |-> 0]
    /\ audit = EmptyAudit

-----------------------------------------------------------------------------
\* The customer a source names last for a loan.
WithCustomer(record, source, customer) ==
    IF customer = Rejected THEN record
    ELSE [record EXCEPT !.customers =
            [s \in DOMAIN @ \cup {source} |-> IF s = source THEN customer ELSE @[s]]]

Put(loan, record) ==
    spine' = [l \in DOMAIN spine \cup {loan} |-> IF l = loan THEN record ELSE spine[l]]

Keep(source, r) ==
    /\ reading = source
    /\ Len(rows["cbs"]) + Len(rows["los"]) + Len(rows["collections"]) < MaxRows
    /\ rows' = [rows EXCEPT ![source] = Append(@, r)]
    /\ UNCHANGED reading

\* An active loan, or an unusable key, or neither.
ReadCbs(r) ==
    /\ Keep("cbs", r)
    /\ IF ~r.active THEN UNCHANGED <<spine, audit>>
       ELSE IF r.loan = Rejected
       THEN audit' = [audit EXCEPT !.unusable = @ + 1] /\ UNCHANGED spine
       ELSE /\ audit' = [audit EXCEPT !.loans_in_cbs = @ + 1]
            /\ LET record == IF r.loan \in DOMAIN spine THEN spine[r.loan]
                             ELSE [customers |-> NoCustomers, application |-> FALSE]
               IN Put(r.loan, WithCustomer(record, "cbs", r.customer))

\* Mutant: a row without an application key clears the one a row before supplied.
ReadLosLastWins(r) ==
    /\ Keep("los", r)
    /\ IF r.loan \notin DOMAIN spine THEN UNCHANGED spine
       ELSE Put(r.loan, [WithCustomer(spine[r.loan], "los", r.customer)
                            EXCEPT !.application = r.application])
    /\ UNCHANGED audit

\* A row of a loan CBS does not carry as active is passed over.
ReadLos(r) ==
    /\ Keep("los", r)
    /\ IF r.loan \notin DOMAIN spine THEN UNCHANGED spine
       ELSE Put(r.loan, [WithCustomer(spine[r.loan], "los", r.customer)
                            EXCEPT !.application = @ \/ r.application])
    /\ UNCHANGED audit

\* Every case counts; it resolves to an active loan or is a failure.
ReadCollections(r) ==
    /\ Keep("collections", r)
    /\ LET a == [audit EXCEPT !.collections_cases = @ + 1] IN
         IF r.loan = Rejected
         THEN audit' = [a EXCEPT !.unusable = @ + 1] /\ UNCHANGED spine
         ELSE IF r.loan \notin DOMAIN spine
         THEN audit' = [a EXCEPT !.orphans = @ + 1] /\ UNCHANGED spine
         ELSE /\ audit' = [a EXCEPT !.collections_cases_resolved = @ + 1]
              /\ Put(r.loan, WithCustomer(spine[r.loan], "collections", r.customer))

NextExtract ==
    /\ reading \in {"cbs", "los"}
    /\ reading' = IF reading = "cbs" THEN "los" ELSE "collections"
    /\ UNCHANGED <<rows, spine, audit>>

\* Two systems name a customer; they agree when they name one.
Evidenced(l) == Cardinality(DOMAIN spine[l].customers) >= 2
Consistent(l) == Cardinality({spine[l].customers[s] : s \in DOMAIN spine[l].customers}) = 1

\* The loop over the spine at the end.
Conclude ==
    /\ reading = "collections"
    /\ reading' = "done"
    /\ LET joined == {l \in DOMAIN spine : spine[l].application}
           evidenced == {l \in DOMAIN spine : Evidenced(l)}
           agreeing == {l \in evidenced : Consistent(l)}
       IN audit' = [audit EXCEPT
            !.loans_with_application = Cardinality(joined),
            !.missing = Cardinality(DOMAIN spine \ joined),
            !.loans_with_customer_evidence = Cardinality(evidenced),
            !.loans_with_consistent_customer = Cardinality(agreeing),
            !.disagreements = Cardinality(evidenced \ agreeing)]
    /\ UNCHANGED <<rows, spine>>

Next ==
    \/ \E r \in RowsOf("cbs") : ReadCbs(r)
    \/ \E r \in RowsOf("los") : ReadLos(r)
    \/ \E r \in RowsOf("collections") : ReadCollections(r)
    \/ NextExtract
    \/ Conclude

Spec == Init /\ [][Next]_vars

\* _rate() and evaluate() of the join-rate gate: an empty denominator is no pass.
\* The gate is 99.5 per cent.
Met(numerator, denominator) == denominator # 0 /\ 1000 * numerator >= 995 * denominator
GateMet ==
    /\ Met(audit.loans_with_application, audit.loans_in_cbs)
    /\ Met(audit.collections_cases_resolved, audit.collections_cases)
    /\ Met(audit.loans_with_consistent_customer, audit.loans_with_customer_evidence)

-----------------------------------------------------------------------------
(* Properties.                                                             *)

TypeOK ==
    /\ reading \in Source \cup {"done"}
    /\ DOMAIN spine \subseteq LoanKey
    /\ \A l \in DOMAIN spine :
          DOMAIN spine[l].customers \subseteq Source /\ spine[l].application \in BOOLEAN

Rows(source) == {rows[source][i] : i \in DOMAIN rows[source]}
ActiveLoans == {r.loan : r \in {x \in Rows("cbs") : x.active}} \ {Rejected}

\* The counts do not depend on the order of the extracts' rows: they are those of
\* the loans, the applications and the cases that are in them.
CountsFollowRows ==
    reading = "done" =>
        /\ DOMAIN spine = ActiveLoans
        /\ audit.loans_with_application =
              Cardinality({l \in ActiveLoans : \E r \in Rows("los") : r.loan = l /\ r.application})
        /\ audit.collections_cases_resolved =
              Cardinality({i \in DOMAIN rows["collections"] : rows["collections"][i].loan \in ActiveLoans})

\* Every case is accounted for, by a loan or by a cause; so is every loan.
EveryFailureHasACause ==
    /\ audit.collections_cases =
          audit.collections_cases_resolved + audit.orphans
          + Cardinality({i \in DOMAIN rows["collections"] : rows["collections"][i].loan = Rejected})
    /\ reading = "done" =>
          Cardinality(DOMAIN spine) = audit.loans_with_application + audit.missing

\* A portfolio that meets the gate has its loans joined: no loan is without its
\* application, unless enough others have one.
GateMeansJoined ==
    reading = "done" /\ GateMet =>
        /\ ActiveLoans # {}
        /\ audit.missing * 1000 <= 5 * Cardinality(ActiveLoans)

SpineSound == TypeOK /\ CountsFollowRows /\ EveryFailureHasACause /\ GateMeansJoined

\* Customers that disagree across systems are reported.
DisagreementReported ==
    reading = "done" /\ audit.disagreements = 0 =>
        \A l \in DOMAIN spine : \A s, t \in Source : s # t =>
            \A x \in Rows(s), y \in Rows(t) :
                /\ x.loan = l /\ y.loan = l /\ x.active /\ y.active
                /\ x.customer # Rejected /\ y.customer # Rejected
                => x.customer = y.customer

=============================================================================
