------------------------------ MODULE Assistant ------------------------------
(* The assistant's controls: the dated document registry answers may cite       *)
(* (assistant/registry.py), the allow-listed tools and the per-session rate      *)
(* limit (assistant/tools.py), the validator that drops uncited numbers          *)
(* (assistant/answer.py) and the faithfulness gate (assistant/faithfulness.py).  *)
(*                                                                            *)
(* The generation service is external: an answer is any sequence of candidate   *)
(* sentences, and a sentence is what the validator reads of it: whether it       *)
(* states a number, the document keys and the tools it cites.  The caller of     *)
(* validate() resolves a citation against the documents effective that day.      *)
EXTENDS Integers, FiniteSets

CONSTANTS
    Document,       \* the documents owners may submit
    Sentence,       \* [numeric, cites, tools] the model may write
    Tool,           \* tool -> [required, optional, bound]
    Argument,       \* argument names a call may carry
    Session,
    MaxCalls, WindowLength,     \* the rate limiter's two settings
    Open,           \* effective_to of a document with no end
    MaxDay,         \* bound: the clock
    MaxAnswers,     \* bound: answers kept in the history
    MaxSentences    \* bound: sentences of one answer

VARIABLES
    today,          \* the date, and the clock of the rate limiter
    corpus,         \* the registered documents
    calls,          \* session -> the times in its window, as the limiter keeps them
    granted,        \* history: session -> the times of all calls let through
    invoked,        \* history: <<tool, arguments>> that reached a function
    served          \* history: the answers given, with what they rested on
assistantVars == <<today, corpus, calls, granted, invoked, served>>

Key(d) == <<d.id, d.version>>
ContentHash(d) == <<Key(d), d.from, d.to, d.text>>

WellDated(d) == d.to # Open => d.to >= d.from

IsEffectiveOn(d, day) == d.from <= day /\ (d.to = Open \/ day <= d.to)
Effective(day) == {d \in corpus : IsEffectiveOn(d, day)}
Expired(day) == {d \in corpus : d.to # Open /\ day > d.to}
NotYetEffective(day) == {d \in corpus : day < d.from}

(* conflicts(): supersession is declared by document id, in any registered       *)
(* version, and two versions of one document never conflict.                    *)
Supersedes(d, e) == \E x \in corpus : x.id = d.id /\ e.id \in x.supersedes
Conflicts(day) ==
    {p \in SUBSET Effective(day) :
        \E d, e \in p : /\ p = {d, e} /\ d.id # e.id
                        /\ d.kind = e.kind /\ d.tags \cap e.tags # {}
                        /\ ~Supersedes(d, e) /\ ~Supersedes(e, d)}

(* Mutant of Ingest: the registered text is replaced.                           *)
IngestReplacing(d) ==
    /\ WellDated(d)
    /\ corpus' = {e \in corpus : Key(e) # Key(d)} \union {d}
    /\ UNCHANGED <<today, calls, granted, invoked, served>>

(* ingest(): a key that is taken keeps its document; the same content again is   *)
(* accepted and changes nothing, even when the tags or supersessions, which the  *)
(* hash leaves out, are new.                                                    *)
Ingest(d) ==
    /\ WellDated(d)
    /\ \A e \in corpus : Key(e) = Key(d) => ContentHash(e) = ContentHash(d)
    /\ corpus' = IF \E e \in corpus : Key(e) = Key(d) THEN corpus ELSE corpus \union {d}
    /\ UNCHANGED <<today, calls, granted, invoked, served>>

(* validate_arguments(): nothing undeclared, nothing required missing.          *)
ArgumentsValid(t, args) ==
    args \subseteq Tool[t].required \union Tool[t].optional /\ Tool[t].required \subseteq args

(* registry.call() of a name the model wrote: off the list is denied, an unbound *)
(* port refuses before any function of the bank runs.                           *)
CallTool(t, args) ==
    /\ t \in DOMAIN Tool
    /\ ArgumentsValid(t, args)
    /\ Tool[t].bound
    /\ invoked' = invoked \union {<<t, args>>}
    /\ UNCHANGED <<today, corpus, calls, granted, served>>

(* RateLimiter.check(): a refused call leaves no trace in the window.           *)
Check(s) ==
    LET window == {t \in calls[s] : today - t.at < WindowLength}
    IN  /\ Cardinality(window) < MaxCalls
        /\ calls' = [calls EXCEPT ![s] = window \union {[at |-> today, n |-> Cardinality(granted[s])]}]
        /\ granted' = [granted EXCEPT ![s] = @ \union {[at |-> today, n |-> Cardinality(@)]}]
        /\ UNCHANGED <<today, corpus, invoked, served>>

(* Mutant of Grounded: any citation at all, resolved or not.                    *)
GroundedByAnyCitation(s, keys) == s.cites # {} \/ s.tools # {}

Grounded(s, keys) == s.cites \cap keys # {} \/ s.tools \cap DOMAIN Tool # {}

(* The sentences that stand, each at its place in the answer.                   *)
Kept(answer, keys) ==
    LET standing == {i \in DOMAIN answer : answer[i].numeric => Grounded(answer[i], keys)}
    IN  [i \in standing |-> answer[i]]

(* score_faithfulness() over the validated text: one claim per sentence, and the *)
(* gate of 97 in a hundred.                                                     *)
Suppress(text, supported) ==
    100 * Cardinality({i \in DOMAIN text : text[i] \in supported}) < 97 * Cardinality(DOMAIN text)

(* validate() then suppress_if_unfaithful(): an answer that lost every sentence, *)
(* or whose claims the context does not support, is handed off without its text. *)
Answer(answer, supported) ==
    LET keys == {Key(d) : d \in Effective(today)}
        text == Kept(answer, keys)
    IN  /\ Cardinality(served) < MaxAnswers
        /\ DOMAIN text # {}
        /\ ~Suppress(text, supported)
        /\ served' = served \union {[day |-> today, text |-> text,
                                     sources |-> {d \in Effective(today) :
                                         \E i \in DOMAIN text : Key(d) \in text[i].cites}]}
        /\ UNCHANGED <<today, corpus, calls, granted, invoked>>

Tick == /\ today < MaxDay
        /\ today' = today + 1
        /\ UNCHANGED <<corpus, calls, granted, invoked, served>>

Init ==
    /\ today = 0
    /\ corpus = {}
    /\ calls = [s \in Session |-> {}]
    /\ granted = [s \in Session |-> {}]
    /\ invoked = {}
    /\ served = {}

Answers == UNION {[1..n -> Sentence] : n \in 1..MaxSentences}

Next ==
    \/ \E d \in Document : Ingest(d)
    \/ \E t \in DOMAIN Tool, args \in SUBSET Argument : CallTool(t, args)
    \/ \E s \in Session : Check(s)
    \/ \E answer \in Answers, supported \in SUBSET Sentence : Answer(answer, supported)
    \/ Tick

Spec == Init /\ [][Next]_assistantVars

-----------------------------------------------------------------------------
(* Every number an answer ever stated rests on a document that was in force that *)
(* day or on a tool of the allow-list (answer.py validate).                     *)
NumbersAreGrounded ==
    \A r \in served : \A i \in DOMAIN r.text :
        r.text[i].numeric =>
            \/ r.text[i].tools \cap DOMAIN Tool # {}
            \/ \E d \in r.sources : Key(d) \in r.text[i].cites /\ IsEffectiveOn(d, r.day)

(* An answer given earlier still resolves to the texts it cited, whatever was    *)
(* ingested since (registry.py ingest).                                         *)
CitationsReproducible ==
    \A r \in served : \A d \in r.sources :
        \E e \in corpus : Key(e) = Key(d) /\ e.text = d.text /\ e.from = d.from

(* No window of WindowLength holds more calls of a session than MaxCalls, though *)
(* the limiter forgets old and refused calls (tools.py RateLimiter.check).       *)
WithinTheLimit ==
    \A s \in Session : \A c \in granted[s] :
        Cardinality({d \in granted[s] : d.at <= c.at /\ c.at - d.at < WindowLength}) <= MaxCalls

(* A function of the bank ran only for a registered, bound tool and with every    *)
(* argument its schema requires; arguments it does not declare pass, as they do   *)
(* in the code (tools.py validate_arguments, Tool.call).                          *)
CallsAreDeclared ==
    \A c \in invoked : Tool[c[1]].bound /\ Tool[c[1]].required \subseteq c[2]

(* Every registered document is in force, expired or future on a day, never two   *)
(* of them, and documents reported in conflict are both in force (registry.py     *)
(* governance_report).                                                          *)
GovernanceAddsUp ==
    /\ Cardinality(corpus) = Cardinality(Effective(today)) + Cardinality(Expired(today))
                               + Cardinality(NotYetEffective(today))
    /\ (UNION Conflicts(today)) \cap Expired(today) = {}

AssistantSound ==
    NumbersAreGrounded /\ CitationsReproducible /\ WithinTheLimit
        /\ CallsAreDeclared /\ GovernanceAddsUp
=============================================================================
