---------------------------- MODULE Conversation ----------------------------
(* What the assistant may say of a decision and what a turn is checked for:  *)
(* reason codes from the drivers of the score (scoring/reasons.py), approved *)
(* sentences for the codes (assistant/templates.py), the guardrails of one   *)
(* turn (assistant/guardrails.py), and the golden set the retriever is       *)
(* measured by (assistant/goldenset.py).                                     *)
(*                                                                           *)
(* A sentence is its (code, language) and whether it is ratified; a turn is  *)
(* the patterns it matches; a text is the forms of the identifiers in it.    *)
EXTENDS Integers, Sequences, FiniteSets

CONSTANTS
    Dictionary,     \* the reason-code table: one code for each feature it maps
    Driver,         \* features that can be adverse in a decision
    Language,
    Topics,         \* the fenced topics, in the order of their declaration
    Turn,           \* the turns of a user: [topics, human, signals, written]
    Chunk,          \* retrieved chunks, and the injection signals in each
    Triple,         \* golden triples by id: [sources, language, tricky]
    MinTriples,     \* triples an admissible set needs
    Nothing,        \* no template, no limit, no topic, no refusal
    MaxEdits        \* bound: changes of the library and of the golden set

VARIABLES
    library,        \* (code, language) -> "pending" or "ratified"
    decision,       \* the adverse drivers of the decision, the strongest first
    explanation,    \* what was selected for it
    said,           \* what the customer was told
    verdict,        \* of the latest turn
    golden,         \* ids in the golden set
    evaluation,     \* the latest hit rate
    edits

conversationVars ==
    <<library, decision, explanation, said, verdict, golden, evaluation, edits>>

Code == {Dictionary[f] : f \in DOMAIN Dictionary}

-----------------------------------------------------------------------------
(* Reasons and templates.                                                  *)

\* Every top adverse driver has its code, or none is stated (UnmappedReason).
Unmapped(drivers) == {k \in DOMAIN drivers : drivers[k] \notin DOMAIN Dictionary}
MapReasons(drivers) == [k \in DOMAIN drivers |-> Dictionary[drivers[k]]]

Front(s, limit) == IF limit = Nothing \/ limit >= Len(s) THEN s ELSE SubSeq(s, 1, limit)

Escalation == [escalate |-> TRUE, selected |-> <<>>]

ExplainPresent(codes, language, limit) ==
    LET ordered == SelectSeq(Front(codes, limit), LAMBDA c : <<c, language>> \in DOMAIN library)
    IN [escalate |-> ordered = <<>>,
        selected |-> [k \in DOMAIN ordered |->
            [code |-> ordered[k], language |-> language,
             ratified |-> library[<<ordered[k], language>>] = "ratified"]]]

\* explain_decision(): the order is kept, the front is what a limit leaves, and a code
\* without a template hands the whole conversation over.
ExplainDecision(codes, language, limit) ==
    LET ordered == Front(codes, limit)
    IN IF ordered = <<>> \/ \E k \in DOMAIN ordered : <<ordered[k], language>> \notin DOMAIN library
       THEN Escalation
       ELSE [escalate |-> FALSE,
             selected |-> [k \in DOMAIN ordered |->
                 [code |-> ordered[k], language |-> language,
                  ratified |-> library[<<ordered[k], language>>] = "ratified"]]]

\* Explanation.renderable: all or nothing.
Renderable(e) == e.selected # <<>> /\ \A k \in DOMAIN e.selected : e.selected[k].ratified

\* TemplateLibrary.coverage() of one language.
Complete(codes, language) ==
    \A c \in codes : <<c, language>> \in DOMAIN library /\ library[<<c, language>>] = "ratified"

-----------------------------------------------------------------------------
(* Guardrails.                                                             *)

\* check_topic(): of the fences a turn crosses, the first declared.
CheckTopic(turn) ==
    IF turn.topics = {} THEN Nothing
    ELSE LET crossed == {k \in DOMAIN Topics : Topics[k] \in turn.topics}
         IN Topics[CHOOSE k \in crossed : \A j \in crossed : k <= j]

\* scan_for_injection() over the user's turn and the chunks shown to it: the score is
\* the number of distinct signals.
ScanForInjection(turn, shown) ==
    [signals |-> turn.signals \cup UNION {Chunk[c] : c \in shown},
     scanned |-> {"user"} \cup shown]

Quarantine(scan, threshold) == Cardinality(scan.signals) >= threshold

\* redact(): a pattern takes the identifiers it matches, in this order.  A card number
\* in groups of four is first met by the pattern of the twelve digits of an Aadhaar,
\* which leaves its last group.
PiiPatterns == <<"aadhaar", "card", "pan", "ifsc", "email", "phone", "account_number">>
Matches(kind, form) ==
    CASE kind = "aadhaar" -> form \in {"twelve_digits", "grouped_aadhaar", "grouped_card"}
      [] kind = "card" -> form \in {"sixteen_digits", "grouped_card"}
      [] kind = "phone" -> form = "mobile"
      [] kind = "account_number" -> form \in {"mobile", "nine_digits", "twelve_digits", "sixteen_digits"}
      [] OTHER -> form = kind
TakenLast(form) ==
    LET kinds == {k \in DOMAIN PiiPatterns : Matches(PiiPatterns[k], form)}
    IN IF kinds = {} THEN Nothing ELSE PiiPatterns[CHOOSE k \in kinds : \A j \in kinds : j <= k]

Taken(form) ==
    LET kinds == {k \in DOMAIN PiiPatterns : Matches(PiiPatterns[k], form)}
    IN IF kinds = {} THEN Nothing ELSE PiiPatterns[CHOOSE k \in kinds : \A j \in kinds : k <= j]
Remains(form) ==
    IF Taken(form) = Nothing THEN {form}
    ELSE IF form = "grouped_card" THEN {"four_digits"} ELSE {}
Redact(written) ==
    [text |-> UNION {Remains(form) : form \in written},
     kinds |-> {<<form, Taken(form)>> : form \in {f \in written : Taken(f) # Nothing}}]

\* A request for a person goes before the topic.
EvaluateTurn(turn, shown) ==
    LET topic == CheckTopic(turn)
    IN [turn |-> turn, topic |-> topic, refuse |-> topic # Nothing,
        refusal |-> IF turn.human THEN "handoff" ELSE topic,
        injection |-> ScanForInjection(turn, shown), redacted |-> Redact(turn.written)]

-----------------------------------------------------------------------------
(* The golden set.                                                         *)

Admissible ==
    Cardinality(golden) >= MinTriples /\ \E t \in golden : Triple[t].tricky

Slice(language) == {t \in golden : language \in {Nothing, Triple[t].language}}

\* A triple nothing was retrieved for is a miss, not left out.
Hits(retrieved, triples) ==
    {t \in triples : \E c \in Triple[t].sources : c \in retrieved[t]}

Evaluate(retrieved, language, required) ==
    [language |-> language, admitted |-> Admissible, required |-> required,
     hits |-> Cardinality(Hits(retrieved, Slice(language))),
     scored |-> Cardinality(Slice(language)), set |-> golden, retrieved |-> retrieved]

-----------------------------------------------------------------------------

None == <<>>

Init ==
    /\ library = <<>> /\ decision = <<>> /\ explanation = None /\ said = None
    /\ verdict = None /\ golden = {} /\ evaluation = None /\ edits = 0

Edit == edits < MaxEdits /\ edits' = edits + 1

\* The three parts share no state: a behaviour exercises one of them.
OnlyTemplates == verdict = None /\ golden = {}
OnlyTurns == edits = 0 /\ explanation = None
OnlyGolden == verdict = None /\ library = <<>> /\ explanation = None

\* TemplateLibrary.add(): a second sentence for a code and a language is refused.
AddTemplate(code, language, body) ==
    /\ Edit /\ OnlyTemplates
    /\ <<code, language>> \notin DOMAIN library
    /\ library' = [k \in DOMAIN library \cup {<<code, language>>} |->
                     IF k = <<code, language>> THEN body ELSE library[k]]
    /\ UNCHANGED <<decision, explanation, said, verdict, golden, evaluation>>

\* load_default_library(): every code of the dictionary, none of them ratified.
LoadDefaultLibrary(language) ==
    /\ Edit /\ OnlyTemplates
    /\ library' = [k \in Code \X {language} |-> "pending"]
    /\ UNCHANGED <<decision, explanation, said, verdict, golden, evaluation>>

\* A decision is explained as soon as its reasons are mapped; the customer's channel
\* may limit their number.
Explain(drivers, language, limit) ==
    /\ OnlyTemplates /\ explanation = None /\ Unmapped(drivers) = {}
    /\ decision' = drivers
    /\ explanation' =
         [given |-> ExplainDecision(MapReasons(drivers), language, limit),
          language |-> language, limit |-> limit, complete |-> Complete(Code, language)]
    /\ UNCHANGED <<library, said, verdict, golden, evaluation, edits>>

\* Explanation.render(), every slot filled: refused for an escalation and as long as
\* one sentence is a draft.
Render ==
    /\ explanation # None /\ said = None
    /\ ~explanation.given.escalate /\ Renderable(explanation.given)
    /\ said' = [k \in DOMAIN explanation.given.selected |-> explanation.given.selected[k].code]
    /\ UNCHANGED <<library, decision, explanation, verdict, golden, evaluation, edits>>

TakeTurn(turn, shown) ==
    /\ OnlyTurns
    /\ verdict' = EvaluateTurn(turn, shown)
    /\ UNCHANGED <<library, decision, explanation, said, golden, evaluation, edits>>

\* GoldenSet.add(): an id already there is refused.
AddTriple(t) ==
    /\ Edit /\ OnlyGolden
    /\ t \in DOMAIN Triple \ golden
    /\ golden' = golden \cup {t}
    /\ UNCHANGED <<library, decision, explanation, said, verdict, evaluation>>

\* evaluate(): refused for an empty slice, and for a set that is not admissible unless
\* the run is one of development.
EvaluateGolden(retrieved, language, required) ==
    /\ Slice(language) # {} /\ (required => Admissible)
    /\ evaluation' = Evaluate(retrieved, language, required)
    /\ UNCHANGED <<library, decision, explanation, said, verdict, golden, edits>>

DriverLists == {s \in UNION {[1..n -> Driver] : n \in 0..2} : Len(s) = 2 => s[1] # s[2]}

Next ==
    \/ \E c \in Code, l \in Language, b \in {"pending", "ratified"} : AddTemplate(c, l, b)
    \/ \E l \in Language : LoadDefaultLibrary(l)
    \/ \E d \in DriverLists, l \in Language, n \in {Nothing, 1} : Explain(d, l, n)
    \/ Render
    \/ \E t \in Turn, shown \in SUBSET DOMAIN Chunk : TakeTurn(t, shown)
    \/ \E t \in DOMAIN Triple : AddTriple(t)
    \/ \E l \in Language \cup {Nothing}, required \in BOOLEAN,
          retrieved \in [DOMAIN Triple -> SUBSET DOMAIN Chunk] :
         EvaluateGolden(retrieved, l, required)

Spec == Init /\ [][Next]_conversationVars

-----------------------------------------------------------------------------

\* What the customer is told is the principal reasons of the decision, the strongest
\* first and as many as the channel takes, in the language they asked for; never some
\* of them, whatever has become of the library since (explain_decision(), render()).
PrincipalReasonsOrNothing ==
    said # None =>
      /\ said = Front(MapReasons(decision), explanation.limit)
      /\ \A k \in DOMAIN said : explanation.given.selected[k].language = explanation.language

\* A language whose coverage is complete has an answer to every decision that carries
\* reasons (coverage(), the pre-flight check).
CompleteMeansExplainable ==
    explanation # None /\ explanation.complete /\ decision # <<>> =>
        ~explanation.given.escalate /\ Renderable(explanation.given)

\* A request for a person is answered with one, a crossed fence with its refusal; every
\* chunk shown to the model was scanned, and what the chunks carry cannot lower the
\* score of the turn (evaluate_turn()).
TurnIsFenced ==
    verdict # None =>
      /\ verdict.turn.human => verdict.refusal = "handoff"
      /\ verdict.refuse => verdict.refusal # Nothing
      /\ \A c \in verdict.injection.scanned \ {"user"} : Chunk[c] \subseteq verdict.injection.signals
      /\ \A n \in 0..3 : Quarantine(ScanForInjection(verdict.turn, {}), n)
                           => Quarantine(verdict.injection, n)

\* Redaction leaves nothing a pattern knows, an Aadhaar is never recorded as an account
\* number, and a card written without spaces never as one (redact()).
RedactionIsComplete ==
    verdict # None =>
      /\ \A form \in verdict.redacted.text : Taken(form) = Nothing
      /\ \A form \in {"twelve_digits", "grouped_aadhaar"} \cap verdict.turn.written :
           <<form, "aadhaar">> \in verdict.redacted.kinds
      /\ "sixteen_digits" \in verdict.turn.written
           => <<"sixteen_digits", "card">> \in verdict.redacted.kinds

\* The gate's hit rate is of the whole slice, misses included, and of a set that was
\* admissible; a retriever that returns nothing scores nothing (evaluate()).
HitRateIsOfTheSet ==
    evaluation # None =>
      /\ evaluation.required => evaluation.admitted
      /\ evaluation.scored = Cardinality({t \in evaluation.set :
                                 evaluation.language \in {Nothing, Triple[t].language}})
      /\ evaluation.hits > 0 => \E t \in evaluation.set : evaluation.retrieved[t] # {}
      /\ evaluation.hits <= evaluation.scored

\* The above.
ConversationSound ==
    /\ PrincipalReasonsOrNothing /\ CompleteMeansExplainable
    /\ TurnIsFenced /\ RedactionIsComplete /\ HitRateIsOfTheSet

=============================================================================
