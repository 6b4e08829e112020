------------------------------ MODULE Chunking ------------------------------
(***************************************************************************)
(* Packing a document into passages: chunk_document() of                   *)
(* assistant/chunking.py on the blocks of parse_blocks().  A block is its  *)
(* kind and the token counts of its sentences; the text itself is left out.*)
(***************************************************************************)
EXTENDS Integers, Sequences, SequencesExt, FiniteSetsExt

CONSTANTS
    Block,          \* blocks a document may hold: [kind, sentences]
    MinTokens,      \* min_tokens
    MaxTokens,      \* max_tokens
    MaxBlocks       \* bound: blocks of the document

VARIABLES
    document        \* the parsed blocks, in order

Kind == {"heading", "paragraph", "list", "table"}

Init == document = <<>>

ParseBlock(b) ==
    /\ Len(document) < MaxBlocks
    /\ document' = Append(document, b)

Next == \E b \in Block : ParseBlock(b)

Spec == Init /\ [][Next]_document

-----------------------------------------------------------------------------
Tokens(units) == FoldLeft(LAMBDA sum, u : sum + u.tokens, 0, units)
Total(sentences) == FoldLeft(LAMBDA sum, n : sum + n, 0, sentences)

\* The groups a sequence falls into when a new group starts wherever Starts says.
GroupBy(units, Starts(_, _)) ==
    FoldLeft(LAMBDA groups, u :
                 IF groups = <<>> \/ Starts(Last(groups), u) THEN Append(groups, <<u>>)
                 ELSE [groups EXCEPT ![Len(groups)] = Append(@, u)],
             <<>>, units)

Atomic(b) == b.kind = "table"

\* _split_paragraph(): whole sentences up to the budget.
SplitParagraph(sentences) ==
    LET pieces == GroupBy([k \in DOMAIN sentences |-> [tokens |-> sentences[k]]],
                          LAMBDA current, s : Tokens(current) + s.tokens > MaxTokens)
    IN [k \in DOMAIN pieces |-> Tokens(pieces[k])]

\* Packing only sees blocks that fit, tables, and pieces of the others.  block is
\* the position of the block a unit comes from.
UnitsOf(k) ==
    LET b == document[k]
        sizes == IF Atomic(b) \/ Total(b.sentences) <= MaxTokens THEN <<Total(b.sentences)>>
                 ELSE SplitParagraph(b.sentences)
    IN [i \in DOMAIN sizes |-> [kind |-> b.kind, tokens |-> sizes[i], block |-> k]]
Units == FlattenSeq([k \in DOMAIN document |-> UnitsOf(k)])

\* Mutant: what would not fit is looked at after it was added.
StartsGroupLate(current, u) ==
    \/ u.kind = "heading" /\ Tokens(current) >= MinTokens
    \/ Tokens(current) > MaxTokens

\* A heading closes a group that has reached the floor; anything closes one that
\* has no room for it.
StartsGroup(current, u) ==
    \/ u.kind = "heading" /\ Tokens(current) >= MinTokens
    \/ Tokens(current) + u.tokens > MaxTokens
Groups == GroupBy(Units, StartsGroup)

\* A group of nothing but headings is not a passage.
BareHeadings(group) == \A k \in DOMAIN group : group[k].kind = "heading"
Chunks == SelectSeq(Groups, LAMBDA g : ~BareHeadings(g))

Oversize(chunk) == Tokens(chunk) > MaxTokens
Undersize(chunk) == Tokens(chunk) < MinTokens /\ Len(Groups) = 1
ContainsTable(chunk) == \E k \in DOMAIN chunk : chunk[k].kind = "table"

-----------------------------------------------------------------------------
(* Properties.                                                             *)

\* No passage of the document is lost, doubled or moved: only headings are dropped.
NothingIsLost ==
    LET Body(units) == SelectSeq(units, LAMBDA u : u.kind # "heading")
        Count(k) == Len(SelectSeq(FlattenSeq(Chunks), LAMBDA u : u.block = k))
    IN /\ Body(FlattenSeq(Chunks)) = Body(Units)
       /\ \A k \in DOMAIN document : Atomic(document[k]) => Count(k) = 1

\* A chunk is over the ceiling only as one unit that cannot be divided: a table, or
\* one sentence.
OverflowsAlone ==
    \A k \in DOMAIN Chunks : Oversize(Chunks[k]) =>
        /\ Len(Chunks[k]) = 1
        /\ LET b == document[Chunks[k][1].block] IN
             Atomic(b) \/ \E i \in DOMAIN b.sentences : b.sentences[i] = Tokens(Chunks[k])

\* A chunk below the floor is followed by something that did not fit, unless it is
\* the last; and no two neighbours could have been one chunk within the floor.
PackedTight ==
    \A k \in 1..(Len(Groups) - 1) :
        Tokens(Groups[k]) < MinTokens => Tokens(Groups[k]) + Groups[k + 1][1].tokens > MaxTokens

ChunkingSound == NothingIsLost /\ OverflowsAlone /\ PackedTight

\* What budget_report() says of an oversize chunk without a table: it is a packing
\* bug.
OversizeHoldsTable == \A k \in DOMAIN Chunks : Oversize(Chunks[k]) => ContainsTable(Chunks[k])

=============================================================================
