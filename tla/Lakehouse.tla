----------------------------- MODULE Lakehouse -----------------------------
(***************************************************************************)
(* The lakehouse: the registered tables and their layers                   *)
(* (lakehouse/layers.py), and the loaded balances against the general      *)
(* ledger (reconcile() of lakehouse/reconcile.py, in integer minor units). *)
(***************************************************************************)
EXTENDS Integers, Sequences, SequencesExt, FiniteSetsExt

CONSTANTS
    Table,
    MaxReads,       \* bound: tables a table reads
    Product, Account,
    Mapping,        \* product_to_gl_account: a function on some of the products
    Amount,         \* balances of a row
    PerMille,       \* GL_TOLERANCE in thousandths
    MaxRows         \* bound: rows of the extract

VARIABLES
    tables,         \* name -> [layer, reads_from], of those registered
    extract,        \* platform_balances: [product, amount], in order
    gl              \* account -> balance, of the accounts the ledger lists

lakeVars == <<tables, extract, gl>>

ALLOWED_SOURCES ==
    [bronze |-> {}, silver |-> {"bronze", "silver"}, gold |-> {"silver", "gold"}]
Layer == DOMAIN ALLOWED_SOURCES

Init == tables = <<>> /\ extract = <<>> /\ gl = <<>>

\* TableSpec and Lakehouse.register(): nothing is replaced, and every upstream is
\* there and of a layer this one may read.
Register(name, layer, reads) ==
    /\ name \notin DOMAIN tables
    /\ layer = "bronze" => reads = <<>>
    /\ \A k \in DOMAIN reads :
         reads[k] \in DOMAIN tables /\ tables[reads[k]].layer \in ALLOWED_SOURCES[layer]
    /\ tables' = [t \in DOMAIN tables \cup {name} |->
         IF t = name THEN [layer |-> layer, reads_from |-> reads] ELSE tables[t]]
    /\ UNCHANGED <<extract, gl>>

\* Mutant: the upstreams of the table found first are looked at first.
LineageDepthFirst(name) == LET
    Visit(walk) ==
        IF walk.queue = <<>> THEN walk
        ELSE LET current == Head(walk.queue) IN
             IF Contains(walk.seen, current) THEN [walk EXCEPT !.queue = Tail(@)]
             ELSE [seen |-> Append(walk.seen, current),
                   queue |-> tables[current].reads_from \o Tail(walk.queue)]
    after[n \in 0..(MaxReads * Cardinality(Table) + MaxReads)] ==
        IF n = 0 THEN [seen |-> <<>>, queue |-> tables[name].reads_from]
        ELSE LET before == after[n - 1] IN Visit(before)
    IN after[MaxReads * Cardinality(Table) + MaxReads].seen

\* Lakehouse.lineage(): breadth first; each visit takes one name off the queue, and
\* a table adds its own upstreams once.
Lineage(name) == LET
    Visit(walk) ==
        IF walk.queue = <<>> THEN walk
        ELSE LET current == Head(walk.queue) IN
             IF Contains(walk.seen, current) THEN [walk EXCEPT !.queue = Tail(@)]
             ELSE [seen |-> Append(walk.seen, current),
                   queue |-> Tail(walk.queue) \o tables[current].reads_from]
    after[n \in 0..(MaxReads * Cardinality(Table) + MaxReads)] ==
        IF n = 0 THEN [seen |-> <<>>, queue |-> tables[name].reads_from]
        ELSE LET before == after[n - 1] IN Visit(before)
    IN after[MaxReads * Cardinality(Table) + MaxReads].seen

-----------------------------------------------------------------------------
(* Reconciliation.                                                         *)

Load(product, amount) ==
    /\ Len(extract) < MaxRows
    /\ extract' = Append(extract, [product |-> product, amount |-> amount])
    /\ UNCHANGED <<tables, gl>>
Post(account, amount) ==
    /\ account \notin DOMAIN gl
    /\ gl' = [a \in DOMAIN gl \cup {account} |-> IF a = account THEN amount ELSE gl[a]]
    /\ UNCHANGED <<tables, extract>>

Mapped(row) == row.product \in DOMAIN Mapping
Unmapped == {extract[k].product : k \in {j \in DOMAIN extract : ~Mapped(extract[j])}}
PlatformTotal(account) ==
    FoldLeft(LAMBDA sum, row :
                 IF Mapped(row) /\ Mapping[row.product] = account THEN sum + row.amount ELSE sum,
             0, extract)
Ledger(account) == IF account \in DOMAIN gl THEN gl[account] ELSE 0
Deltas ==
    DOMAIN gl \cup {Mapping[extract[k].product] : k \in {j \in DOMAIN extract : Mapped(extract[j])}}

Magnitude(x) == IF x < 0 THEN -x ELSE x
WithinTolerance(account) ==
    IF Ledger(account) = 0 THEN PlatformTotal(account) = 0
    ELSE 1000 * Magnitude(PlatformTotal(account) - Ledger(account))
            <= PerMille * Magnitude(Ledger(account))

\* Mutant: what the mapping does not know is a note.
PassedUnmapped == Deltas # {} /\ \A a \in Deltas : WithinTolerance(a)

\* ReconciliationReport.passed.
Passed == Deltas # {} /\ Unmapped = {} /\ \A a \in Deltas : WithinTolerance(a)

-----------------------------------------------------------------------------
Reads == UNION {[1..n -> Table] : n \in 0..MaxReads}
Next ==
    \/ \E name \in Table, layer \in Layer, reads \in Reads : Register(name, layer, reads)
    \/ \E p \in Product, x \in Amount : Load(p, x)
    \/ \E a \in Account, x \in Amount : Post(a, x)

Spec == Init /\ [][Next]_lakeVars

-----------------------------------------------------------------------------
(* Properties.                                                             *)

\* Distance upstream: in how many reads a table is reached first.
Reached(name, n) == LET
    within[k \in 0..n] ==
        IF k = 0 THEN {}
        ELSE LET near == within[k - 1] IN
             UNION {Range(tables[t].reads_from) : t \in near \cup {name}}
    IN within[n]
Distance(name, up) ==
    CHOOSE k \in 1..Cardinality(Table) : up \in Reached(name, k) \ Reached(name, k - 1)

\* The lineage of a table is everything upstream of it, once, the nearest first,
\* and no table is its own upstream.
LineageComplete ==
    \A name \in DOMAIN tables :
        LET up == Lineage(name) IN
        /\ Range(up) = Reached(name, Cardinality(Table))
        /\ IsInjective(up)
        /\ name \notin Range(up)
        /\ \A i, j \in DOMAIN up : i < j => Distance(name, up[i]) <= Distance(name, up[j])

\* Between raw data and a gold table there is always a cleaned one: what gold rests
\* on that is raw, it reads through silver.
NoLayerSkipped ==
    \A name \in DOMAIN tables :
        LET Ups(layers) == {t \in Range(Lineage(name)) : tables[t].layer \in layers}
            ViaSilver == UNION {Reached(t, Cardinality(Table)) : t \in Ups({"silver"})}
        IN tables[name].layer = "gold" => Ups({"bronze"}) \subseteq ViaSilver

\* A reconciliation that passes accounts for every balance loaded, and the totals of
\* both sides differ by no more than the tolerance on the ledger's.
PassedMeansReconciled ==
    LET Sum(S, Of(_)) == MapThenSumSet(Of, S)
        Loaded == FoldLeft(LAMBDA sum, row : sum + row.amount, 0, extract)
    IN Passed =>
        /\ Loaded = Sum(Deltas, PlatformTotal)
        /\ 1000 * Magnitude(Loaded - Sum(Deltas, Ledger))
             <= PerMille * Sum(Deltas, LAMBDA a : Magnitude(Ledger(a)))

LakehouseSound == LineageComplete /\ NoLayerSkipped /\ PassedMeansReconciled

=============================================================================
