------------------------------ MODULE Binning ------------------------------
(***************************************************************************)
(* Monotone binning of one feature: fit_binning() of scoring/binning.py on *)
(* pool_adjacent_violators() of scoring/isotonic.py.  The sample is the    *)
(* count of goods and bads at each value and of those without a value; the *)
(* order of its rows does not matter, the code sorts them.                 *)
(***************************************************************************)
EXTENDS Integers, Sequences, FiniteSets, FiniteSetsExt

CONSTANTS
    MaxValue,       \* feature values are 1..MaxValue
    MaxPrebins,     \* max_prebins
    MinPercent,     \* min_bin_fraction
    MaxSample       \* bound: rows of the sample

VARIABLES
    present,        \* value -> [goods, bads]
    missing         \* [goods, bads] of the rows without a value

binningVars == <<present, missing>>

Values == 1..MaxValue
Empty == [goods |-> 0, bads |-> 0]
Size(g) == g.goods + g.bads
Plus(a, b) == [goods |-> a.goods + b.goods, bads |-> a.bads + b.bads]
SumOf(f, S) ==
    [goods |-> MapThenSumSet(LAMBDA x : f[x].goods, S),
     bads |-> MapThenSumSet(LAMBDA x : f[x].bads, S)]

Init == present = [v \in Values |-> Empty] /\ missing = Empty

Sample == Plus(missing, SumOf(present, Values))
One == {[goods |-> 1, bads |-> 0], [goods |-> 0, bads |-> 1]}

Observe(v, row) ==
    /\ Size(Sample) < MaxSample
    /\ present' = [present EXCEPT ![v] = Plus(@, row)]
    /\ UNCHANGED missing
ObserveMissing(row) ==
    /\ Size(Sample) < MaxSample
    /\ missing' = Plus(missing, row)
    /\ UNCHANGED present

Next == \E row \in One : ObserveMissing(row) \/ \E v \in Values : Observe(v, row)

Spec == Init /\ [][Next]_binningVars

-----------------------------------------------------------------------------
Count == Size(SumOf(present, Values))

\* sorted(values)[index], from 0.
Ordered(index) ==
    CHOOSE v \in Values :
        /\ Size(SumOf(present, 1..v)) > index
        /\ Size(SumOf(present, 1..(v - 1))) <= index

\* round() of a quotient: halves go to the even neighbour.
RoundHalfEven(a, b) ==
    LET q == a \div b IN
    IF 2 * (a % b) < b \/ (2 * (a % b) = b /\ q % 2 = 0) THEN q ELSE q + 1

\* _quantile_prebins(): distinct values at the quantiles, in order.
Sorted(S) == [k \in 1..Cardinality(S) |-> CHOOSE x \in S : Cardinality({y \in S : y <= x}) = k]
Prebins ==
    Sorted({Ordered(i) : i \in {RoundHalfEven(k * Count, MaxPrebins) : k \in 1..(MaxPrebins - 1)}
                                  \cap 1..(Count - 1)})

\* _group(): a value on a cut belongs to the right.
GroupOf(cuts, v) == Cardinality({k \in DOMAIN cuts : cuts[k] <= v}) + 1
Group(cuts) ==
    [groups |-> [k \in 1..(Len(cuts) + 1) |->
        SumOf(present, {v \in Values : GroupOf(cuts, v) = k})],
     cuts |-> cuts]

\* Merging group k with the next one removes the cut between them.
MergeNext(b, k) ==
    [groups |-> SubSeq(b.groups, 1, k - 1)
                \o <<Plus(b.groups[k], b.groups[k + 1])>>
                \o SubSeq(b.groups, k + 2, Len(b.groups)),
     cuts |-> SubSeq(b.cuts, 1, k - 1) \o SubSeq(b.cuts, k + 1, Len(b.cuts))]

\* max(1, int(min_bin_fraction * len(present))).
Minimum == Max({1, (MinPercent * Count) \div 100})

\* _merge_small(): the first smallest group joins its smaller neighbour, the left
\* one of two equals, until none is below the minimum.
Smallest(groups) ==
    CHOOSE k \in DOMAIN groups :
        /\ \A j \in DOMAIN groups : Size(groups[k]) <= Size(groups[j])
        /\ \A j \in 1..(k - 1) : Size(groups[j]) > Size(groups[k])
SmallStep(b) ==
    LET k == Smallest(b.groups)
        n == Len(b.groups)
        left == k > 1 /\ (k = n \/ Size(b.groups[k - 1]) <= Size(b.groups[k + 1]))
    IN IF n = 1 \/ Size(b.groups[k]) >= Minimum THEN b
       ELSE MergeNext(b, IF left THEN k - 1 ELSE k)
MergeSmall(b) == LET
    after[i \in 0..Len(b.cuts)] == IF i = 0 THEN b ELSE SmallStep(after[i - 1])
    IN after[Len(b.cuts)]

\* The event rate of a is above that of b; a decreasing fit turns the sign.
Above(a, b, direction) ==
    IF direction = "increasing" THEN a.bads * Size(b) > b.bads * Size(a)
    ELSE a.bads * Size(b) < b.bads * Size(a)

Block(start, stop, sum) == [start |-> start, stop |-> stop, sum |-> sum]

\* Mutant: a group is pooled with the last block alone, not with those it then
\* violates.
PoolOnce(blocks, group, i, direction) ==
    LET n == Len(blocks) IN
    IF n > 0 /\ Above(blocks[n].sum, group, direction)
    THEN Append(SubSeq(blocks, 1, n - 1), Block(blocks[n].start, i, Plus(blocks[n].sum, group)))
    ELSE Append(blocks, Block(i, i, group))

\* The i-th group is pooled with the blocks before it for as long as the last of
\* them is above what was pooled so far.
PoolNext(blocks, group, i, direction) ==
    LET Pooled(k) ==
            Plus(group, SumOf([j \in DOMAIN blocks |-> blocks[j].sum], (k + 1)..Len(blocks)))
        Stops(k) == k = 0 \/ ~Above(blocks[k].sum, Pooled(k), direction)
        kept == Max({k \in 0..Len(blocks) : Stops(k)})
    IN Append(SubSeq(blocks, 1, kept),
              Block(IF kept = Len(blocks) THEN i ELSE blocks[kept + 1].start, i, Pooled(kept)))

\* pool_adjacent_violators().
Pool(groups, direction) == LET
    after[i \in 0..Len(groups)] ==
        IF i = 0 THEN <<>> ELSE PoolNext(after[i - 1], groups[i], i, direction)
    IN after[Len(groups)]

\* _enforce_monotone().
Bins(b, blocks) ==
    [groups |-> [k \in DOMAIN blocks |-> blocks[k].sum],
     cuts |-> [k \in 1..(Len(blocks) - 1) |-> b.cuts[blocks[k].stop]]]
EnforceMonotone(b, direction) == Bins(b, Pool(b.groups, direction))

\* _merge_zero_cells(): the first small group without goods or without bads joins
\* the one before it.
Offender(g) == (g.goods = 0 \/ g.bads = 0) /\ Size(g) < Minimum
ZeroStep(b) ==
    LET bad == {k \in DOMAIN b.groups : Offender(b.groups[k])} IN
    IF Len(b.groups) = 1 \/ bad = {} THEN b
    ELSE LET k == CHOOSE x \in bad : \A y \in bad : x <= y
         IN MergeNext(b, IF k > 1 THEN k - 1 ELSE 1)
MergeZeroCells(b) == LET
    after[i \in 0..Len(b.cuts)] == IF i = 0 THEN b ELSE ZeroStep(after[i - 1])
    IN after[Len(b.cuts)]

\* fit_binning() refuses a sample of one class or without any value.  With AUTO it
\* takes the direction with the larger information value: either.
Fittable == Sample.goods > 0 /\ Sample.bads > 0 /\ Count > 0
Prepared == MergeSmall(Group(Prebins))
Fit(direction) == MergeZeroCells(EnforceMonotone(Prepared, direction))
Direction == {"increasing", "decreasing"}

-----------------------------------------------------------------------------
(* Properties.                                                             *)

\* Pooling is least-squares isotonic regression: the value of each group is the
\* max-min of the averages of the runs around it.
Reference(groups, i, direction) ==
    LET Run(a, b) == SumOf(groups, a..b)
        Lowest(a) == CHOOSE b \in i..Len(groups) :
            \A c \in i..Len(groups) : ~Above(Run(a, b), Run(a, c), direction)
        best == CHOOSE a \in 1..i :
            \A c \in 1..i : ~Above(Run(c, Lowest(c)), Run(a, Lowest(a)), direction)
    IN Run(best, Lowest(best))
Equal(a, b) == a.bads * Size(b) = b.bads * Size(a)
IsIsotonic(groups, blocks, direction) ==
    \A k \in DOMAIN blocks : \A i \in blocks[k].start..blocks[k].stop :
        Equal(blocks[k].sum, Reference(groups, i, direction))
PoolingIsIsotonic ==
    Fittable => \A d \in Direction : IsIsotonic(Prepared.groups, Pool(Prepared.groups, d), d)

\* Every row is in one bin, the rates follow the direction, and no bin is below
\* the minimum size unless it is the only one.
IsSound(b, direction) ==
    LET n == Len(b.groups) IN
    /\ Len(b.cuts) = n - 1
    /\ SumOf(b.groups, 1..n) = SumOf(present, Values)
    /\ b.groups = Group(b.cuts).groups
    /\ \A k \in 1..(n - 1) : ~Above(b.groups[k], b.groups[k + 1], direction)
    /\ n > 1 => \A k \in 1..n : Size(b.groups[k]) >= Minimum
BinsAreSound == Fittable => \A d \in Direction : IsSound(Fit(d), d)

\* A bin of a fair size without a good or without a bad is kept: it is what trips
\* the leakage screen.
Telling(b) ==
    {b.groups[k] : k \in {j \in DOMAIN b.groups : LET g == b.groups[j] IN
                              (g.goods = 0 \/ g.bads = 0) /\ Size(g) >= Minimum}}
TellingBinsSurvive ==
    Fittable => \A d \in Direction : Telling(EnforceMonotone(Prepared, d)) \subseteq Telling(Fit(d))

BinningSound == PoolingIsIsotonic /\ BinsAreSound /\ TellingBinsSurvive

=============================================================================
