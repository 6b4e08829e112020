---------------------------- MODULE Communities ----------------------------
(***************************************************************************)
(* Louvain's method on the entity graph, learning/graph.py: louvain() with *)
(* _one_level() and _aggregate(), one step per node visited.  Weights are  *)
(* whole, so gains are compared after multiplying by two_m.                *)
(***************************************************************************)
EXTENDS Integers, FiniteSets, FiniteSetsExt

CONSTANTS
    Nodes,          \* number of nodes, in the order of their names
    Weight          \* weights of the edges of the graph, 0 for none

VARIABLES
    two_m,          \* twice the weight of the graph
    current,        \* <<node, node>> of this level -> weight
    degree,         \* node of this level -> its weight
    community,      \* node of this level -> its community
    tot,            \* community -> sum of its degrees
    node,           \* the next node of the sweep
    improved,       \* whether this sweep moved one
    membership,     \* original node -> node of this level
    finished        \* louvain() returned

Original == 1..Nodes
TotalOf(adj) == MapThenSumSet(LAMBDA p : adj[p], DOMAIN adj)

\* _adjacency(): an edge between two nodes counts in both directions.
Pairs == {p \in Original \X Original : p[1] < p[2]}
Adjacency(weight) ==
    [p \in Original \X Original |->
        IF p[1] = p[2] THEN 0 ELSE weight[<<Min({p[1], p[2]}), Max({p[1], p[2]})>>]]

LevelOf(adj) == {p[1] : p \in DOMAIN adj}
DegreesOf(adj) == [n \in LevelOf(adj) |-> MapThenSumSet(LAMBDA m : adj[<<n, m>>], LevelOf(adj))]
Alone(adj) == [n \in LevelOf(adj) |-> n]
Level == LevelOf(current)

Init ==
    /\ current \in {Adjacency(w) : w \in {v \in [Pairs -> Weight] : \E p \in Pairs : v[p] > 0}}
    /\ membership = [n \in Original |-> n]
    /\ finished = FALSE
    /\ two_m = TotalOf(current)
    /\ community = Alone(current) /\ degree = DegreesOf(current) /\ tot = degree
    /\ node = 1 /\ improved = FALSE

\* links: the weight from n to each community, without its own loop.
Links(n, c) ==
    MapThenSumSet(LAMBDA m : current[<<n, m>>], {m \in Level \ {n} : community[m] = c})
Neighbouring(n) == {community[m] : m \in {k \in Level \ {n} : current[<<n, k>>] > 0}}

\* Mutant: the node's own degree stays in the total of its community.
WithoutKept(n) == tot

Without(n) == [tot EXCEPT ![community[n]] = @ - degree[n]]

\* Mutant: the degrees are left out, and the heaviest links win.
GainByLinks(n, c) == Links(n, c)

Gain(n, c) == Links(n, c) * two_m - Without(n)[c] * degree[n]

\* The best community for n: its own on a tie, else the first of the greatest gain.
Best(n) ==
    LET own == community[n]
        better == {c \in Neighbouring(n) : Gain(n, c) > Gain(n, own)}
        greatest == {c \in better : \A d \in better : Gain(n, d) <= Gain(n, c)}
    IN IF better = {} THEN own ELSE Min(greatest)

\* The body of the loop of _one_level().
Visit ==
    /\ node \in Level
    /\ LET best == Best(node) IN
        /\ tot' = [Without(node) EXCEPT ![best] = @ + degree[node]]
        /\ community' = [community EXCEPT ![node] = best]
        /\ improved' = (improved \/ best # community[node])
    /\ node' = IF node = Max(Level) THEN Nodes + 1 ELSE Min({n \in Level : n > node})
    /\ UNCHANGED <<two_m, current, degree, membership, finished>>

Sweep ==
    /\ node = Nodes + 1 /\ improved
    /\ node' = Min(Level)
    /\ improved' = FALSE
    /\ UNCHANGED <<two_m, current, degree, community, tot, membership, finished>>

\* _aggregate(): the weight inside a community becomes a loop.
Aggregated ==
    LET named == {community[n] : n \in Level} IN
    [p \in named \X named |->
        MapThenSumSet(LAMBDA q : IF community[q[1]] = p[1] /\ community[q[2]] = p[2]
                                 THEN current[q] ELSE 0, DOMAIN current)]

Converged == node = Nodes + 1 /\ ~improved /\ ~finished
Unmerged == Cardinality({community[n] : n \in Level}) = Cardinality(Level)

Aggregate ==
    /\ Converged /\ ~Unmerged
    /\ membership' = [n \in Original |-> community[membership[n]]]
    /\ current' = Aggregated
    /\ community' = Alone(Aggregated) /\ degree' = DegreesOf(Aggregated) /\ tot' = degree'
    /\ node' = Min(LevelOf(Aggregated)) /\ improved' = FALSE
    /\ UNCHANGED <<two_m, finished>>

Return ==
    /\ Converged /\ Unmerged
    /\ finished' = TRUE
    /\ UNCHANGED <<two_m, current, degree, community, tot, node, improved, membership>>

Next == Visit \/ Sweep \/ Aggregate \/ Return

communityVars == <<two_m, current, degree, community, tot, node, improved, membership, finished>>

Spec == Init /\ [][Next]_communityVars /\ WF_communityVars(Next)

\* modularity() of this level's assignment, times two_m squared.
Modularity ==
    MapThenSumSet(LAMBDA p : IF community[p[1]] = community[p[2]]
                             THEN current[p] * two_m - degree[p[1]] * degree[p[2]] ELSE 0,
                  DOMAIN current)

-----------------------------------------------------------------------------
(* Properties.                                                             *)

\* The totals kept while nodes move are those of the communities.
TotalsAreKept ==
    \A c \in DOMAIN tot :
        tot[c] = MapThenSumSet(LAMBDA n : degree[n], {n \in Level : community[n] = c})

\* Where the method stops, no node of the last level gains by moving to a neighbour.
LocallyOptimal ==
    finished => \A n \in Level : \A c \in Neighbouring(n) : Gain(n, c) <= Gain(n, community[n])

CommunitiesSound == TotalsAreKept /\ LocallyOptimal

\* Every move raises modularity, and aggregation leaves it what it was: this is why
\* the method ends without a limit on its sweeps.
ModularityRises ==
    /\ community' # community /\ current' = current => Modularity' > Modularity
    /\ current' # current => Modularity' = Modularity

Rises == [][ModularityRises]_communityVars

\* louvain() returns.
Returns == <>finished

=============================================================================
