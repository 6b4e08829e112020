----------------------------- MODULE TreeModel -----------------------------
(***************************************************************************)
(* One tree of the gradient-boosted scorecard, scoring/gbm.py, grown on a  *)
(* training sample, the exact Shapley attribution of its scores,           *)
(* scoring/explain.py, and the reason codes taken from it,                 *)
(* scoring/reasons.py.  Every row has Hessian 1, so that sums of Hessians  *)
(* are counts and leaf values are rationals, written <<num, den>>.         *)
(***************************************************************************)
EXTENDS Integers, Sequences, FiniteSets, FiniteSetsExt

CONSTANTS
    Features,       \* the number of features, in the order of the list
    Direction,      \* feature -> 1, -1 or 0: increasing, decreasing, unconstrained
    Value,          \* feature -> values it takes: numbers, Missing, NotANumber
    Missing,        \* None
    NotANumber,     \* a float NaN
    Gradient,       \* gradients of the loss
    L2, MaxDepth, MinChildWeight,
    Coded,          \* features the reason-code table has an entry for
    MaxSample       \* bound: training rows

VARIABLE sample     \* training row -> how many times it occurs

Feature == 1..Features
Input == {x \in [Feature -> UNION {Value[f] : f \in Feature}] : \A f \in Feature : x[f] \in Value[f]}
Row == DOMAIN sample
Sum(of(_), rows) == MapThenSumSet(LAMBDA r : sample[r] * of(r), rows)
Count(rows) == Sum(LAMBDA r : 1, rows)

Init == sample = [r \in [x : Input, g : Gradient] |-> 0]
Observe(r) ==
    /\ Count(Row) < MaxSample
    /\ sample' = [sample EXCEPT ![r] = @ + 1]
Next == \E r \in Row : Observe(r)
Spec == Init /\ [][Next]_sample

-----------------------------------------------------------------------------
(* Rationals; a zero denominator is an infinite bound.                     *)
LE(p, q) == p[1] * q[2] <= q[1] * p[2]
LT(p, q) == p[1] * q[2] < q[1] * p[2]
Lower(p, q) == IF LE(p, q) THEN p ELSE q
Upper(p, q) == IF LE(p, q) THEN q ELSE p
RECURSIVE Gcd(_, _)
Gcd(a, b) == IF b = 0 THEN a ELSE Gcd(b, a % b)
Reduced(num, den) ==
    LET d == Gcd(den, IF num < 0 THEN -num ELSE num) IN <<num \div d, den \div d>>
Add(p, q) == Reduced(p[1] * q[2] + q[1] * p[2], p[2] * q[2])
Scale(p, n, d) == Reduced(p[1] * n, p[2] * d)
Total(terms, of(_)) == FoldSet(LAMBDA t, acc : Add(acc, of(t)), <<0, 1>>, terms)
Unbounded == <<<<-1, 0>>, <<1, 0>>>>

-----------------------------------------------------------------------------
(* fit_gbm(): the split points, and one tree.                              *)

\* _histogram_edges() with a bin for every value: all distinct values but the last.
Edges(f) ==
    LET present == {r.x[f] : r \in {s \in Row : sample[s] > 0}} \ {Missing, NotANumber}
    IN present \ {Max(present \cup {0})}

\* Mutant: bisect_right instead of bisect_left.
GoesLeftBelow(value, edge) == IF value \in {Missing, NotANumber} THEN TRUE ELSE value < edge

\* _bin_index() and the comparison of bins: missing values are in the lowest bin.
GoesLeft(value, edge) == IF value \in {Missing, NotANumber} THEN TRUE ELSE value <= edge

\* _leaf_value(): -G / (H + l2), clipped to the bounds of the node.
LeafValue(rows, bounds) ==
    LET weight == Count(rows) + L2
        raw == IF weight # 0 THEN <<-Sum(LAMBDA r : r.g, rows), weight>> ELSE <<0, 1>>
    IN Lower(Upper(raw, bounds[1]), bounds[2])

Score(rows) ==
    LET g == Sum(LAMBDA r : r.g, rows) weight == Count(rows) + L2
    IN IF weight # 0 THEN <<g * g, weight>> ELSE <<0, 1>>

\* A split as it is scanned: its two sides, their values and its gain, twice.
Split(rows, f, edge, bounds) ==
    LET left == {r \in rows : GoesLeft(r.x[f], edge)} right == rows \ left IN
    [feature |-> f, edge |-> edge, left |-> left, right |-> right,
     left_value |-> LeafValue(left, bounds), right_value |-> LeafValue(right, bounds),
     gain |-> Add(Add(Score(left), Score(right)), Scale(Score(rows), -1, 1))]

Allowed(s) ==
    /\ Count(s.left) > 0 /\ Count(s.right) > 0
    /\ Count(s.left) >= MinChildWeight /\ Count(s.right) >= MinChildWeight
    /\ Direction[s.feature] = 1 => LE(s.left_value, s.right_value)
    /\ Direction[s.feature] = -1 => LE(s.right_value, s.left_value)
    /\ LT(<<0, 1>>, s.gain)

\* The greatest gain, of equal ones the first scanned.
Before(s, t) == s.feature < t.feature \/ (s.feature = t.feature /\ s.edge < t.edge)
Best(splits) ==
    CHOOSE s \in splits : \A t \in splits \ {s} :
        LT(t.gain, s.gain) \/ (LE(t.gain, s.gain) /\ Before(s, t))

\* Mutant: the children keep the bounds of the parent.
ChildBoundsKept(s, bounds) == <<bounds, bounds>>

\* The children are bounded either side of the midpoint of a constrained split.
ChildBounds(s, bounds) ==
    LET middle == Scale(Add(s.left_value, s.right_value), 1, 2)
        below == <<bounds[1], Lower(bounds[2], middle)>>
        above == <<Upper(bounds[1], middle), bounds[2]>>
    IN CASE Direction[s.feature] = 0 -> <<bounds, bounds>>
         [] Direction[s.feature] = 1 -> <<below, above>>
         [] Direction[s.feature] = -1 -> <<above, below>>

RECURSIVE Build(_, _, _)
Build(rows, depth, bounds) ==
    LET leaf == [feature |-> 0, value |-> LeafValue(rows, bounds), cover |-> Count(rows)]
        splits == {s \in {Split(rows, f, e, bounds) : <<f, e>> \in
                             {p \in Feature \X (1..9) : p[2] \in Edges(p[1])}} : Allowed(s)}
    IN IF depth >= MaxDepth \/ Count(rows) < 2 \/ splits = {} THEN leaf
       ELSE LET s == Best(splits) b == ChildBounds(s, bounds) IN
            [feature |-> s.feature, threshold |-> s.edge, cover |-> leaf.cover, value |-> leaf.value,
             left |-> Build(s.left, depth + 1, b[1]), right |-> Build(s.right, depth + 1, b[2])]

Tree == Build({r \in Row : sample[r] > 0}, 0, Unbounded)

\* Node.predict(): None goes left; every comparison with NaN is false.
ServedLeft(value, threshold) ==
    value = Missing \/ (value # NotANumber /\ value <= threshold)

RECURSIVE Predict(_, _)
Predict(node, x) ==
    IF node.feature = 0 THEN node.value
    ELSE Predict(IF ServedLeft(x[node.feature], node.threshold) THEN node.left ELSE node.right, x)

-----------------------------------------------------------------------------
(* tree_shap().                                                            *)

RECURSIVE TreeFeatures(_)
TreeFeatures(node) ==
    IF node.feature = 0 THEN {}
    ELSE {node.feature} \cup TreeFeatures(node.left) \cup TreeFeatures(node.right)

\* Mutant: the two branches weigh the same.
RECURSIVE ExpectedEvenly(_, _, _)
ExpectedEvenly(node, x, known) ==
    IF node.feature = 0 THEN node.value
    ELSE IF node.feature \in known
    THEN ExpectedEvenly(IF ServedLeft(x[node.feature], node.threshold) THEN node.left ELSE node.right, x, known)
    ELSE Scale(Add(ExpectedEvenly(node.left, x, known), ExpectedEvenly(node.right, x, known)), 1, 2)

\* _expected_value(): unknown features are averaged over by cover.
RECURSIVE Expected(_, _, _)
Expected(node, x, known) ==
    IF node.feature = 0 THEN node.value
    ELSE IF node.feature \in known
    THEN Expected(IF ServedLeft(x[node.feature], node.threshold) THEN node.left ELSE node.right, x, known)
    ELSE LET total == node.left.cover + node.right.cover IN
         Add(Scale(Expected(node.left, x, known), node.left.cover, total),
             Scale(Expected(node.right, x, known), node.right.cover, total))

Factorial[n \in 0..9] == IF n = 0 THEN 1 ELSE n * Factorial[n - 1]

\* |S|! (n - |S| - 1)! / n!
Weight(size, n) == <<Factorial[size] * Factorial[n - size - 1], Factorial[n]>>

Shap(node, x, f) ==
    LET features == TreeFeatures(node) n == Cardinality(features) IN
    IF f \notin features THEN <<0, 1>>
    ELSE Total(SUBSET (features \ {f}), LAMBDA s :
            LET w == Weight(Cardinality(s), n)
            IN Scale(Add(Expected(node, x, s \cup {f}), Scale(Expected(node, x, s), -1, 1)), w[1], w[2]))

Base(node) == Add(<<0, 1>>, Expected(node, CHOOSE x \in Input : TRUE, {}))

\* explain_gbm(): the contribution of every feature.
Explain(node, x) == [f \in Feature |-> Shap(node, x, f)]

\* Explanation.adverse(): those that raise the score, the greatest first.
Adverse(phi, top) ==
    LET raising == {f \in Feature : LT(<<0, 1>>, phi[f])}
        Above(f) == {h \in raising : LT(phi[f], phi[h]) \/ (h < f /\ phi[h] = phi[f])}
    IN {f \in raising : Cardinality(Above(f)) < top}

\* map_reasons(), strict: refused when one of the drivers has no code.
Letter(adverse) == IF adverse \subseteq Coded THEN adverse ELSE {0}

-----------------------------------------------------------------------------
(* Properties.                                                             *)

\* Rows a leaf was fitted on: those that go the way to it in training.
RECURSIVE Trained(_, _)
Trained(node, x) ==
    IF node.feature = 0 THEN node.value
    ELSE Trained(IF GoesLeft(x[node.feature], node.threshold) THEN node.left ELSE node.right, x)

\* A row is scored by the leaf it would have been fitted in: "a missing value goes
\* left, consistently in training and scoring".  A value is missing as None or as NaN.
RoutesAlike(tree, rows) == \A x \in rows : Predict(tree, x) = Trained(tree, x)
ScoredAsTrained == RoutesAlike(Tree, Input)

\* Rows without a NaN.
Clean == {x \in Input : \A f \in Feature : x[f] # NotANumber}

\* However deep the tree, raising a constrained feature alone never moves the score
\* against its ratified direction.
MonotoneEverywhere(tree) ==
    \A x, y \in Input : \A f \in Feature :
        LET numbers == x[f] \notin {Missing, NotANumber} /\ y[f] \notin {Missing, NotANumber} IN
        numbers /\ x[f] < y[f] /\ (\A h \in Feature \ {f} : x[h] = y[h]) =>
            /\ Direction[f] = 1 => LE(Predict(tree, x), Predict(tree, y))
            /\ Direction[f] = -1 => LE(Predict(tree, y), Predict(tree, x))

\* Attributions reconcile: base value and contributions add up to the score, and the
\* base value is the mean score of the training sample.
AttributionsReconcile(tree, base) ==
    /\ \A x \in Input : Add(base, Total(Feature, LAMBDA f : Shap(tree, x, f))) = Add(<<0, 1>>, Predict(tree, x))
    /\ Count(Row) > 0 =>
          base = Scale(Total({r \in Row : sample[r] > 0},
                             LAMBDA r : Scale(Trained(tree, r.x), sample[r], 1)), 1, Count(Row))

\* A letter states the principal reasons: no feature left out raised the score more
\* than one it states, and none it states lowered it.
StatesPrincipal(letter, phi) ==
    \A f \in letter \ {0} :
        /\ LT(<<0, 1>>, phi[f])
        /\ \A h \in Feature \ letter : LE(phi[h], phi[f])
PrincipalReasons(tree) ==
    \A x \in Input : \A phi \in {Explain(tree, x)} : StatesPrincipal(Letter(Adverse(phi, 1)), phi)

SoundTree(tree) ==
    /\ RoutesAlike(tree, Clean) /\ MonotoneEverywhere(tree)
    /\ AttributionsReconcile(tree, Base(tree)) /\ PrincipalReasons(tree)
TreeSound == \A tree \in {Tree} : SoundTree(tree)

=============================================================================
