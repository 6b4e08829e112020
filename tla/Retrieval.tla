----------------------------- MODULE Retrieval -----------------------------
(***************************************************************************)
(* The hybrid retriever of assistant/retrieval.py: the BM25 index, the     *)
(* retriever's own table of chunks and the vector store beside them, and   *)
(* the two rankings fused.  The embedding model and the store are external *)
(* and may fail: the store keeps the vector of whatever text was last      *)
(* encoded under an id.  A BM25 score is kept by what orders two chunks of  *)
(* equal length for one term: how often it holds the term.                 *)
(***************************************************************************)
EXTENDS Integers, FiniteSets

CONSTANTS
    Id,             \* chunk ids, in their order: 1..n
    Term,           \* words of the corpus
    Version,        \* what a chunk may be: [terms, from, to, tag]
    Day,            \* as-of dates
    Tag,            \* products, with NoTag for a query that names none
    NoTag,
    Absent,         \* no chunk, no vector
    Depth,          \* candidate_k
    K,              \* hits returned
    RrfK,           \* the constant of reciprocal-rank fusion
    Scale           \* a common multiple of RrfK + 1, ..., RrfK + Depth

VARIABLES
    lexical,        \* BM25Index._chunks: id -> version
    postings,       \* BM25Index._postings: term -> [id -> frequency, 0 for none]
    chunks,         \* HybridRetriever._chunks: id -> version
    vectors         \* the vector store: id -> the version encoded

retrievalVars == <<lexical, postings, chunks, vectors>>

Init ==
    /\ lexical = [i \in Id |-> Absent]
    /\ postings = [t \in Term |-> [i \in Id |-> 0]]
    /\ chunks = [i \in Id |-> Absent]
    /\ vectors = [i \in Id |-> Absent]

\* Mutant: the postings of the text it replaces stay.
PostingsKept(i, v) ==
    [t \in Term |-> [postings[t] EXCEPT ![i] = IF v.terms[t] > 0 THEN v.terms[t] ELSE @]]

\* add(): what was indexed under the id is removed first.
Postings(i, v) == [t \in Term |-> [postings[t] EXCEPT ![i] = v.terms[t]]]

AddBoth(i, v) ==
    /\ lexical' = [lexical EXCEPT ![i] = v]
    /\ postings' = Postings(i, v)
    /\ chunks' = [chunks EXCEPT ![i] = v]

\* HybridRetriever.index() of one chunk: the two tables before the encoding, which
\* may fail and leave the vector of an earlier text.
Index(i, v) == AddBoth(i, v) /\ vectors' = [vectors EXCEPT ![i] = v]
IndexLexically(i, v) == AddBoth(i, v) /\ UNCHANGED vectors

Next == \E i \in Id, v \in Version : Index(i, v) \/ IndexLexically(i, v)

Spec == Init /\ [][Next]_retrievalVars

-----------------------------------------------------------------------------
(* Rankings are functions from ranks 1..n to ids.                           *)
Ranked(ids, Before(_, _)) ==
    [r \in 1..Cardinality(ids) |->
        CHOOSE i \in ids : Cardinality({j \in ids : Before(j, i)}) = r - 1]
Cut(ranking, n) == [r \in {q \in DOMAIN ranking : q <= n} |-> ranking[r]]
Listed(ranking) == {ranking[r] : r \in DOMAIN ranking}
RankIn(ranking, i) == CHOOSE r \in DOMAIN ranking : ranking[r] = i

IsEffectiveOn(v, day) == v.from <= day /\ (v.to = Absent \/ day <= v.to)
Eligible(v, day, tag) == IsEffectiveOn(v, day) /\ tag \in {NoTag, v.tag}

\* The score of a chunk for a word: its frequency, and first by id on a tie.
Scores(t, j, i) ==
    postings[t][j] > postings[t][i] \/ (postings[t][j] = postings[t][i] /\ j < i)
Matches(t) == {i \in Id : postings[t][i] > 0}

\* Mutant: the k best are taken before the filters.
SearchCutFirst(t, n, day, tag) ==
    LET best == Listed(Cut(Ranked(Matches(t), LAMBDA j, i : Scores(t, j, i)), n))
        kept == {i \in best : Eligible(lexical[i], day, tag)}
    IN Ranked(kept, LAMBDA j, i : Scores(t, j, i))

\* BM25Index.search(): the filters hold candidates back before they are ranked.
Search(t, n, day, tag) ==
    LET kept == {i \in Matches(t) : Eligible(lexical[i], day, tag)}
    IN Cut(Ranked(kept, LAMBDA j, i : Scores(t, j, i)), n)

\* The store's nearest n vectors, by the texts encoded, whichever are eligible.
Near(t, j, i) ==
    vectors[j].terms[t] > vectors[i].terms[t]
    \/ (vectors[j].terms[t] = vectors[i].terms[t] /\ j < i)
Nearest(t, n) ==
    Cut(Ranked({i \in Id : vectors[i] # Absent}, LAMBDA j, i : Near(t, j, i)), n)

\* DenseRetriever.search(): hits that are not eligible today fall out of its list.
SearchDense(t, n, day, tag) ==
    LET hits == Nearest(t, n)
        kept == {i \in Listed(hits) : chunks[i] # Absent /\ Eligible(chunks[i], day, tag)}
    IN Ranked(kept, LAMBDA j, i : RankIn(hits, j) < RankIn(hits, i))

\* fuse(): 1 / (rrf_k + position) of each leg, multiplied by Scale.
Share(ranking, i) ==
    IF i \in Listed(ranking) THEN Scale \div (RrfK + RankIn(ranking, i)) ELSE 0
Fuse(first, second, n) ==
    LET ids == Listed(first) \cup Listed(second)
        Points(i) == Share(first, i) + Share(second, i)
    IN Cut(Ranked(ids, LAMBDA j, i : Points(j) > Points(i) \/ (Points(j) = Points(i) /\ j < i)), n)

\* retrieve(): both legs to Depth, fused to K.
Retrieve(t, day, tag) ==
    Fuse(Search(t, Depth, day, tag), SearchDense(t, Depth, day, tag), K)

-----------------------------------------------------------------------------
(* Properties.                                                             *)

\* The two tables of chunks and the postings tell the same corpus, however often and
\* in whatever order chunks were indexed again.
TablesAgree ==
    /\ lexical = chunks
    /\ \A i \in Id, t \in Term :
          postings[t][i] = IF chunks[i] = Absent THEN 0 ELSE chunks[i].terms[t]

\* A passage retrieved for a day is in force that day, whatever the legs rank.
NothingStale ==
    \A t \in Term, day \in Day, tag \in Tag :
        \A i \in Listed(Retrieve(t, day, tag)) : Eligible(chunks[i], day, tag)

\* The lexical leg leaves out a passage in force that holds the word only for Depth
\* others in force that score no less.
NothingCrowdedOut ==
    \A t \in Term, day \in Day, tag \in Tag :
        LET hits == Listed(Search(t, Depth, day, tag)) IN
        \A i \in Id \ hits :
            chunks[i] # Absent /\ Eligible(chunks[i], day, tag) /\ chunks[i].terms[t] > 0 =>
                /\ Cardinality(hits) = Depth
                /\ \A j \in hits : chunks[j].terms[t] >= chunks[i].terms[t]

\* Fusion respects agreement: what both legs rank higher is not returned lower.
FusionIsFair ==
    \A t \in Term, day \in Day, tag \in Tag :
        LET first == Search(t, Depth, day, tag)
            second == SearchDense(t, Depth, day, tag)
            fused == Fuse(first, second, K)
            both == Listed(first) \cap Listed(second)
        IN \A i, j \in both :
            RankIn(first, i) < RankIn(first, j) /\ RankIn(second, i) < RankIn(second, j)
                /\ j \in Listed(fused)
            => i \in Listed(fused) /\ RankIn(fused, i) < RankIn(fused, j)

RetrievalSound == TablesAgree /\ NothingStale /\ NothingCrowdedOut /\ FusionIsFair

\* The dense leg would crowd nothing out either.  It does: the store is asked for
\* Depth hits before the dates are looked at.
DenseCrowdsOut ==
    \A t \in Term, day \in Day, tag \in Tag :
        LET hits == Listed(SearchDense(t, Depth, day, tag)) IN
        \A i \in Id \ hits :
            chunks[i] # Absent /\ Eligible(chunks[i], day, tag) /\ vectors[i] = chunks[i] =>
                Cardinality(hits) = Depth

=============================================================================
