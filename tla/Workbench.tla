----------------------------- MODULE Workbench -----------------------------
(***************************************************************************)
(* The officer's case screen: the page that loads a case file and posts    *)
(* overrides (app/workbench/cases/[applicationId]/page.tsx), the two-step  *)
(* override form (components/workbench/OverrideControl.tsx) and the client *)
(* that sorts the gateway's answers (lib/gateway/client.ts).               *)
(*                                                                         *)
(* Requests and answers travel on their own: the gateway serves a request  *)
(* in one step and the answer reaches the page in a later one, if the page *)
(* is still there.  Moving to another case mounts a new page, which is     *)
(* what the framework does when the dynamic segment of the route changes.  *)
(* The gateway is external: decisions are numbered in the order they are   *)
(* issued and are never changed.                                           *)
(***************************************************************************)
EXTENDS Naturals, Sequences, FiniteSets, FiniteSetTheorems, TLAPS

CONSTANTS
    Application,
    Reason,             \* the ratified override reason codes
    RequiresNote,       \* those whose requiresNote is true
    DecisionOutcome,    \* approve, decline, refer: interchangeable to this screen
    Blank,              \* nothing chosen in a select
    MaxMounts,          \* bound: pages mounted
    MaxPosts            \* bound: overrides posted

ASSUME ReasonAssumption == RequiresNote \subseteq Reason /\ Blank \notin Reason \cup DecisionOutcome
ASSUME FiniteAssumption == IsFiniteSet(Application)
ASSUME BoundAssumption == MaxMounts \in Nat \ {0} /\ MaxPosts \in Nat

VARIABLES
    mount,          \* the page on screen: its number and its application
    page,           \* "loading", "ready" or "failed" (unavailable or error)
    shown,          \* caseFile.decision: the number of the decision, 0 for null
    reasons,        \* reasonOptions
    form,           \* the state of OverrideControl
    submitting,
    loads,          \* case-file loads not yet answered
    posts,          \* overrides posted and not yet answered
    posted,         \* history: number of overrides posted
    issued,         \* gateway: every decision issued, in order
    current,        \* gateway: the decision in force for each application
    confirmed       \* history: what the open confirmation prompt was opened on

vars == <<mount, page, shown, reasons, form, submitting, loads, posts, posted,
          issued, current, confirmed>>
gateway == <<issued, current>>
network == <<loads, posts, posted>>
screen == <<mount, page, shown, reasons, submitting>>

EmptyForm == [reason |-> Blank, outcome |-> Blank, note |-> FALSE, confirming |-> FALSE]
NothingConfirmed == [reason |-> Blank, outcome |-> Blank]

\* The effect of a newly mounted page asks for its case file and the reasons.
LoadOf(m) == [mount |-> m.n, app |-> m.app, reply |-> "waiting", shows |-> 0, options |-> {}]

\* Orders in which the applications may have been decided first.
Numbering ==
    {o \in [1..Cardinality(Application) -> Application] :
        \A a \in Application : \E i \in DOMAIN o : o[i] = a}

Init ==
    \E app \in Application, outcome \in [Application -> DecisionOutcome],
       order \in Numbering :
        /\ mount = [n |-> 1, app |-> app]
        /\ page = "loading" /\ shown = 0 /\ reasons = {}
        /\ form = EmptyForm /\ confirmed = NothingConfirmed
        /\ submitting = FALSE
        /\ loads = {LoadOf(mount)}
        /\ posts = {} /\ posted = 0
        /\ issued = [i \in DOMAIN order |->
                        [app |-> order[i], outcome |-> outcome[order[i]], scored |-> TRUE]]
        /\ current = [a \in Application |-> CHOOSE i \in DOMAIN order : order[i] = a]

-----------------------------------------------------------------------------
(* The page.                                                               *)

\* The officer opens another case, or this one again.
Open(app) ==
    /\ mount.n < MaxMounts
    /\ mount' = [n |-> mount.n + 1, app |-> app]
    /\ page' = "loading" /\ shown' = 0 /\ reasons' = {}
    /\ form' = EmptyForm /\ confirmed' = NothingConfirmed
    /\ submitting' = FALSE
    /\ loads' = loads \cup {LoadOf(mount')}
    /\ UNCHANGED <<posts, posted, gateway>>

\* Mutant: the answer is applied without asking whether its page is still there.
LoadAnsweredUnguarded(f) ==
    /\ f.reply # "waiting"
    /\ loads' = loads \ {f}
    /\ IF f.reply # "decision"
       THEN page' = "failed" /\ UNCHANGED <<shown, reasons>>
       ELSE page' = "ready" /\ shown' = f.shows /\ reasons' = f.options
    /\ UNCHANGED <<mount, submitting, form, posts, posted, gateway, confirmed>>

\* A load is answered; a cancelled one changes nothing.
LoadAnswered(f) ==
    /\ f.reply # "waiting"
    /\ loads' = loads \ {f}
    /\ IF f.mount # mount.n THEN UNCHANGED <<page, shown, reasons>>
       ELSE IF f.reply # "decision"
       THEN page' = "failed" /\ UNCHANGED <<shown, reasons>>
       ELSE page' = "ready" /\ shown' = f.shows /\ reasons' = f.options
    /\ UNCHANGED <<mount, submitting, form, posts, posted, gateway, confirmed>>

\* An override is answered: the new decision is shown, or the failure replaces
\* the screen.  The form keeps what it held.
OverrideAnswered(f) ==
    /\ f.reply # "waiting"
    /\ posts' = posts \ {f}
    /\ IF f.mount # mount.n THEN UNCHANGED <<page, shown, submitting>>
       ELSE /\ submitting' = FALSE
            /\ IF f.reply = "decision"
               THEN shown' = f.shows /\ UNCHANGED page
               ELSE page' = "failed" /\ UNCHANGED shown
    /\ UNCHANGED <<mount, reasons, form, loads, posted, gateway, confirmed>>

-----------------------------------------------------------------------------
(* OverrideControl.                                                        *)

\* The control is on screen and is not one of its two refusals.
Rendered ==
    /\ page = "ready"
    /\ shown # 0
    /\ issued[shown].scored
    /\ reasons # {}

Form(f) == form' = f /\ UNCHANGED <<screen, network, gateway>>

\* The outcome on screen is not offered; choosing again withdraws the confirmation.
ChooseOutcome(o) ==
    /\ Rendered
    /\ o \in (DecisionOutcome \ {issued[shown].outcome}) \cup {Blank}
    /\ o # form.outcome
    /\ Form([form EXCEPT !.outcome = o, !.confirming = FALSE])
    /\ confirmed' = NothingConfirmed

\* Mutant: the confirmation survives another choice of reason.
ChooseReasonConfirmed(r) ==
    /\ Rendered
    /\ r \in reasons \cup {Blank}
    /\ r # form.reason
    /\ Form([form EXCEPT !.reason = r])
    /\ UNCHANGED confirmed
ChooseReason(r) ==
    /\ Rendered
    /\ r \in reasons \cup {Blank}
    /\ r # form.reason
    /\ Form([form EXCEPT !.reason = r, !.confirming = FALSE])
    /\ confirmed' = NothingConfirmed

\* The note is typed or cleared; the confirmation stands.
EditNote ==
    /\ Rendered
    /\ Form([form EXCEPT !.note = ~form.note])
    /\ UNCHANGED confirmed

NoteMissing == form.reason \in RequiresNote /\ ~form.note

Ready == form.reason # Blank /\ form.outcome # Blank /\ ~NoteMissing /\ ~submitting

\* First click: the prompt opens.
Confirm ==
    /\ Rendered /\ ~form.confirming
    /\ Ready
    /\ Form([form EXCEPT !.confirming = TRUE])
    /\ confirmed' = [reason |-> form.reason, outcome |-> form.outcome]

Cancel ==
    /\ Rendered /\ form.confirming
    /\ Form([form EXCEPT !.confirming = FALSE])
    /\ confirmed' = NothingConfirmed

Request ==
    [mount |-> mount.n, decision |-> shown, outcome |-> form.outcome, reason |-> form.reason,
     note |-> form.note, reply |-> "waiting", shows |-> 0]

Post(request) ==
    /\ posted < MaxPosts
    /\ posts' = posts \cup {request}
    /\ posted' = posted + 1
    /\ submitting' = TRUE
    /\ UNCHANGED <<mount, page, shown, reasons, form, loads, gateway, confirmed>>

\* Mutant: the button stays enabled while a submission is in flight.
SubmitAgain ==
    /\ Rendered /\ form.confirming
    /\ Post(Request)
\* Second click: the override of the decision on screen is posted.
Submit ==
    /\ Rendered /\ form.confirming /\ ~submitting
    /\ Post(Request)

-----------------------------------------------------------------------------
(* The gateway.                                                            *)

\* Either the case file and the reasons arrive, or one of the two requests throws:
\* a capability reported unavailable, a refused session, an error, a lost answer.
ServeLoad(f) ==
    /\ f.reply = "waiting"
    /\ \/ \E options \in {{}, Reason} :
             loads' = (loads \ {f}) \cup
                      {[f EXCEPT !.reply = "decision", !.shows = current[f.app],
                                 !.options = options]}
       \/ loads' = (loads \ {f}) \cup {[f EXCEPT !.reply = "failed"]}
    /\ UNCHANGED <<screen, form, posts, posted, gateway, confirmed>>

\* The override is recorded as a new decision, whose answer may be lost.
AcceptOverride(f, scored) ==
    /\ f.reply = "waiting"
    /\ issued' = Append(issued, [app |-> issued[f.decision].app, outcome |-> f.outcome,
                                 scored |-> scored])
    /\ current' = [current EXCEPT ![issued[f.decision].app] = Len(issued) + 1]
    /\ \E reply \in {"decision", "failed"} :
          posts' = (posts \ {f}) \cup {[f EXCEPT !.reply = reply, !.shows = Len(issued')]}
    /\ UNCHANGED <<screen, form, loads, posted, confirmed>>

RefuseOverride(f) ==
    /\ f.reply = "waiting"
    /\ posts' = (posts \ {f}) \cup {[f EXCEPT !.reply = "failed"]}
    /\ UNCHANGED <<screen, form, loads, posted, gateway, confirmed>>

-----------------------------------------------------------------------------
Officer ==
    \/ \E o \in DecisionOutcome \cup {Blank} : ChooseOutcome(o)
    \/ \E r \in Reason \cup {Blank} : ChooseReason(r)
    \/ EditNote \/ Confirm \/ Cancel \/ Submit

Network ==
    \/ \E f \in loads : ServeLoad(f) \/ LoadAnswered(f)
    \/ \E f \in posts :
          \/ \E scored \in BOOLEAN : AcceptOverride(f, scored)
          \/ RefuseOverride(f)
          \/ OverrideAnswered(f)

Next ==
    \/ \E app \in Application : Open(app)
    \/ Officer
    \/ Network

Spec == Init /\ [][Next]_vars

-----------------------------------------------------------------------------
(* Properties.                                                             *)

\* The page, the form and the requests keep their shape.
TypeOK ==
    /\ mount \in [n : 1..MaxMounts, app : Application]
    /\ page \in {"loading", "ready", "failed"}
    /\ shown \in 0..Len(issued)
    /\ reasons \subseteq Reason
    /\ form \in [reason : Reason \cup {Blank}, outcome : DecisionOutcome \cup {Blank},
                 note : BOOLEAN, confirming : BOOLEAN]
    /\ submitting \in BOOLEAN
    /\ \A f \in posts : f.reason \in Reason /\ f.outcome \in DecisionOutcome
    /\ posted \in 0..MaxPosts
    /\ \A a \in Application : issued[current[a]].app = a

\* The decision on screen is a decision of the case on screen, however loads and
\* overrides of other cases are answered around it.
ShowsThisCase == shown # 0 => issued[shown].app = mount.app

\* A page never has two overrides in flight, and says so while it has one.
OneOverrideAtATime ==
    /\ Cardinality({f \in posts : f.mount = mount.n}) <= 1
    /\ submitting <=> \E f \in posts : f.mount = mount.n

\* An override carries the outcome and the reason the officer was asked to
\* confirm.
ConfirmedChoice ==
    [][\A f \in posts' : f \notin posts /\ f.reply = "waiting" =>
          f.reason = confirmed.reason /\ f.outcome = confirmed.outcome]_vars

\* A reason code that requires a note is never posted without one.
RequiredNoteGiven == \A f \in posts : f.reason \in RequiresNote => f.note

-----------------------------------------------------------------------------
(* What the case screen shows, for any number of applications, pages and   *)
(* overrides.                                                              *)

Reply == {"waiting", "decision", "failed"}
Decision == [app : Application, outcome : DecisionOutcome, scored : BOOLEAN]
Load == [mount : Nat, app : Application, reply : Reply, shows : Nat, options : SUBSET Reason]
Posting ==
    [mount : Nat, decision : Nat, outcome : DecisionOutcome, reason : Reason,
     note : BOOLEAN, reply : Reply, shows : Nat]
FormState ==
    [reason : Reason \cup {Blank}, outcome : DecisionOutcome \cup {Blank},
     note : BOOLEAN, confirming : BOOLEAN]

\* The types of the state, and that a confirmation is only open on a full form.
Typed ==
    /\ mount \in [n : 1..MaxMounts, app : Application]
    /\ page \in {"loading", "ready", "failed"}
    /\ shown \in 0..Len(issued)
    /\ reasons \subseteq Reason
    /\ form \in FormState
    /\ form.confirming => form.reason # Blank /\ form.outcome # Blank
    /\ submitting \in BOOLEAN
    /\ loads \subseteq Load
    /\ posts \subseteq Posting
    /\ posted \in 0..MaxPosts
    /\ issued \in Seq(Decision)
    /\ current \in [Application -> DOMAIN issued]

\* Decision i was issued for application app.
IssuedFor(i, app) == i \in DOMAIN issued /\ issued[i].app = app

\* A load belongs to its page and is answered with a decision of its application.
LoadMatches(f) ==
    /\ f.mount <= mount.n
    /\ f.mount = mount.n => f.app = mount.app
    /\ f.reply = "decision" => IssuedFor(f.shows, f.app)

\* An override was posted for a decision of its page's application, and is
\* answered with another of the same application.
PostMatches(f) ==
    /\ f.mount <= mount.n
    /\ f.decision \in DOMAIN issued
    /\ f.mount = mount.n => issued[f.decision].app = mount.app
    /\ f.reply = "decision" => IssuedFor(f.shows, issued[f.decision].app)

CaseInv ==
    /\ Typed
    /\ \A a \in Application : issued[current[a]].app = a
    /\ shown # 0 => issued[shown].app = mount.app
    /\ \A f \in loads : LoadMatches(f)
    /\ \A f \in posts : PostMatches(f)

-----------------------------------------------------------------------------
(* At first one page waits for its case file, and every application has    *)
(* one decision.                                                           *)
LEMMA InitCase == Init => CaseInv
<1> SUFFICES ASSUME Init PROVE CaseInv
  OBVIOUS
<1>1. PICK app \in Application, outcome \in [Application -> DecisionOutcome], order \in Numbering :
        /\ mount = [n |-> 1, app |-> app]
        /\ page = "loading" /\ shown = 0 /\ reasons = {}
        /\ form = EmptyForm /\ confirmed = NothingConfirmed
        /\ submitting = FALSE
        /\ loads = {LoadOf(mount)}
        /\ posts = {} /\ posted = 0
        /\ issued = [i \in DOMAIN order |->
                        [app |-> order[i], outcome |-> outcome[order[i]], scored |-> TRUE]]
        /\ current = [a \in Application |-> CHOOSE i \in DOMAIN order : order[i] = a]
  BY Zenon DEF Init
<1>3. \A a \in Application : current[a] \in DOMAIN order /\ order[current[a]] = a
  BY <1>1 DEF Numbering
<1>4. order \in [1..Cardinality(Application) -> Application]
  BY DEF Numbering
<1>5. Cardinality(Application) \in Nat
  BY FS_CardinalityType, FiniteAssumption
<1>6. issued \in Seq(Decision) /\ Len(issued) = Cardinality(Application)
  <2>1. DOMAIN issued = 1..Cardinality(Application)
    BY <1>1, <1>4
  <2>2. \A i \in DOMAIN issued : issued[i] \in Decision
    BY <1>1, <1>4 DEF Decision
  <2>3. issued \in [1..Cardinality(Application) -> Decision]
    BY <1>1, <2>1, <2>2
  <2> QED BY <1>5, <2>3
<1>7. LoadOf(mount) \in Load /\ LoadMatches(LoadOf(mount))
  BY <1>1, BoundAssumption DEF LoadOf, Load, Reply, LoadMatches
<1>8. Typed
  <2>1. mount \in [n : 1..MaxMounts, app : Application]
    BY <1>1, BoundAssumption
  <2>2. EmptyForm \in FormState /\ ~EmptyForm.confirming
    BY DEF EmptyForm, FormState
  <2>3. current \in [Application -> DOMAIN issued]
    BY <1>1, <1>3
  <2>4. loads \subseteq Load /\ posts \subseteq Posting /\ posted \in 0..MaxPosts
    BY <1>1, <1>7, BoundAssumption
  <2>5. shown \in 0..Len(issued)
    BY <1>1, <1>5, <1>6
  <2> QED BY <1>1, <1>6, <2>1, <2>2, <2>3, <2>4, <2>5 DEF Typed
<1> QED
  BY <1>1, <1>3, <1>4, <1>7, <1>8 DEF CaseInv

(* The form's own operations touch nothing else.                           *)
LEMMA FormStep ==
    ASSUME CaseInv, NEW f \in FormState, Form(f),
           f.confirming => f.reason # Blank /\ f.outcome # Blank
    PROVE  CaseInv'
BY DEF CaseInv, Typed, Form, screen, network, gateway, LoadMatches, PostMatches, IssuedFor

(* A new page starts without a decision, and with a load of its own.       *)
LEMMA OpenStep == ASSUME CaseInv, NEW app \in Application, Open(app) PROVE CaseInv'
<1>1. PICK m \in [n : 1..MaxMounts, app : Application] : mount' = m /\ m.n = mount.n + 1
  BY BoundAssumption DEF CaseInv, Typed, Open
<1>2. LoadOf(m) \in Load /\ LoadMatches(LoadOf(m))'
  BY <1>1, BoundAssumption DEF LoadOf, Load, Reply, LoadMatches
<1>3. loads' = loads \cup {LoadOf(m)} /\ UNCHANGED <<issued, current, posts, posted>>
  BY <1>1 DEF Open, gateway
<1>4. \A f \in loads : LoadMatches(f)'
  BY <1>1, <1>3 DEF CaseInv, Typed, Load, LoadMatches, IssuedFor
<1>5. \A f \in posts' : PostMatches(f)'
  BY <1>1, <1>3 DEF CaseInv, Typed, Posting, PostMatches, IssuedFor
<1>6. EmptyForm \in FormState /\ ~EmptyForm.confirming
  BY DEF EmptyForm, FormState
<1>7. Typed'
  <2>1. loads' \subseteq Load /\ mount' \in [n : 1..MaxMounts, app : Application]
    BY <1>1, <1>2, <1>3 DEF CaseInv, Typed
  <2>2. shown' \in 0..Len(issued')
    BY <1>3 DEF CaseInv, Typed, Open
  <2> QED BY <1>3, <1>6, <2>1, <2>2 DEF CaseInv, Typed, Open
<1> QED
  BY <1>2, <1>3, <1>4, <1>5, <1>7 DEF CaseInv, Open

(* An answer is only applied to the page that asked for it.                *)
LEMMA LoadAnsweredStep == ASSUME CaseInv, NEW f \in loads, LoadAnswered(f) PROVE CaseInv'
<1>1. LoadMatches(f) /\ f \in Load
  BY DEF CaseInv, Typed
<1>2. shown' \in 0..Len(issued) /\ (shown' # 0 => issued[shown'].app = mount.app)
  BY <1>1 DEF CaseInv, Typed, LoadAnswered, LoadMatches, IssuedFor
<1>3. page' \in {"loading", "ready", "failed"} /\ reasons' \subseteq Reason
  BY <1>1 DEF CaseInv, Typed, LoadAnswered, Load
<1> QED
  BY <1>2, <1>3
     DEF CaseInv, Typed, LoadAnswered, LoadMatches, PostMatches, IssuedFor, gateway

(* The answer to an override is a decision of the application overridden.   *)
LEMMA OverrideAnsweredStep == ASSUME CaseInv, NEW f \in posts, OverrideAnswered(f) PROVE CaseInv'
<1>1. PostMatches(f) /\ f \in Posting
  BY DEF CaseInv, Typed
<1>2. shown' \in 0..Len(issued) /\ (shown' # 0 => issued[shown'].app = mount.app)
  BY <1>1 DEF CaseInv, Typed, OverrideAnswered, PostMatches, IssuedFor
<1>3. page' \in {"loading", "ready", "failed"} /\ submitting' \in BOOLEAN
  BY DEF CaseInv, Typed, OverrideAnswered
<1> QED
  BY <1>2, <1>3
     DEF CaseInv, Typed, OverrideAnswered, LoadMatches, PostMatches, IssuedFor, gateway

(* What is posted is the form, and overrides the decision on screen.       *)
LEMMA SubmitStep == ASSUME CaseInv, Submit PROVE CaseInv'
<1>1. Request \in Posting
  BY ReasonAssumption
     DEF CaseInv, Typed, Submit, Rendered, Request, Posting, FormState, Reply
<1>2. PostMatches(Request)
  BY DEF CaseInv, Typed, Submit, Rendered, Request, PostMatches
<1>3. posted' \in 0..MaxPosts
  BY BoundAssumption DEF CaseInv, Typed, Submit, Post
<1> QED
  BY <1>1, <1>2, <1>3
     DEF CaseInv, Typed, Submit, Post, LoadMatches, PostMatches, IssuedFor, gateway

(* The gateway answers a load with the decision in force for its case.      *)
LEMMA ServeLoadStep == ASSUME CaseInv, NEW f \in loads, ServeLoad(f) PROVE CaseInv'
<1>1. LoadMatches(f) /\ f \in Load
  BY DEF CaseInv, Typed
<1>2. PICK g \in Load : loads' = (loads \ {f}) \cup {g} /\ LoadMatches(g)
  <2>1. CASE loads' = (loads \ {f}) \cup {[f EXCEPT !.reply = "failed"]}
    <3>1. PICK g : g = [f EXCEPT !.reply = "failed"]
      OBVIOUS
    <3>2. g \in Load /\ LoadMatches(g)
      BY <1>1, <3>1 DEF Load, Reply, LoadMatches
    <3> QED BY <2>1, <3>1, <3>2
  <2>2. ASSUME NEW options \in {{}, Reason},
               loads' = (loads \ {f}) \cup
                        {[f EXCEPT !.reply = "decision", !.shows = current[f.app],
                                   !.options = options]}
        PROVE  \E g \in Load : loads' = (loads \ {f}) \cup {g} /\ LoadMatches(g)
    <3>0. PICK g : g = [f EXCEPT !.reply = "decision", !.shows = current[f.app],
                                 !.options = options]
      OBVIOUS
    <3>1. current[f.app] \in DOMAIN issued /\ current[f.app] \in Nat
      BY <1>1 DEF CaseInv, Typed, Load
    <3>2. g \in Load
      BY <1>1, <3>0, <3>1 DEF Load, Reply
    <3>3. LoadMatches(g)
      BY <1>1, <3>0, <3>1 DEF CaseInv, Load, LoadMatches, IssuedFor
    <3> QED BY <2>2, <3>0, <3>2, <3>3
  <2> QED BY <2>1, <2>2 DEF ServeLoad
<1> QED
  BY <1>2
     DEF CaseInv, Typed, ServeLoad, screen, LoadMatches, PostMatches, IssuedFor, gateway

(* A refused override shows no decision.                                    *)
LEMMA RefuseOverrideStep == ASSUME CaseInv, NEW f \in posts, RefuseOverride(f) PROVE CaseInv'
<1>1. PostMatches(f) /\ f \in Posting
  BY DEF CaseInv, Typed
<1>2. [f EXCEPT !.reply = "failed"] \in Posting /\ PostMatches([f EXCEPT !.reply = "failed"])
  BY <1>1 DEF Posting, Reply, PostMatches
<1> QED
  BY <1>2
     DEF CaseInv, Typed, RefuseOverride, screen, LoadMatches, PostMatches, IssuedFor, gateway

(* The gateway appends a decision of the same application; what earlier    *)
(* numbers name does not change.                                           *)
LEMMA AcceptOverrideStep ==
    ASSUME CaseInv, NEW f \in posts, NEW scored \in BOOLEAN, AcceptOverride(f, scored)
    PROVE  CaseInv'
<1> DEFINE new == [app |-> issued[f.decision].app, outcome |-> f.outcome, scored |-> scored]
<1>1. PostMatches(f) /\ f \in Posting
  BY DEF CaseInv, Typed
<1>2. new \in Decision
  <2>1. issued[f.decision] \in Decision
    BY <1>1 DEF CaseInv, Typed, PostMatches
  <2>2. f.outcome \in DecisionOutcome
    BY <1>1 DEF Posting
  <2> QED BY <2>1, <2>2 DEF Decision
<1>3. /\ issued' \in Seq(Decision)
      /\ Len(issued') = Len(issued) + 1
      /\ issued'[Len(issued) + 1] = new
      /\ \A i \in DOMAIN issued : i \in DOMAIN issued' /\ issued'[i] = issued[i]
  BY <1>2 DEF CaseInv, Typed, AcceptOverride
<1>4. \A i, app : IssuedFor(i, app) => IssuedFor(i, app)'
  BY <1>3 DEF IssuedFor
<1>5. /\ current' \in [Application -> DOMAIN issued']
      /\ \A a \in Application : issued'[current'[a]].app = a
  BY <1>2, <1>3 DEF CaseInv, Typed, AcceptOverride, Decision
<1>6. shown \in 0..Len(issued') /\ (shown # 0 => issued'[shown].app = mount.app)
  BY <1>3 DEF CaseInv, Typed
<1>7. \A g \in loads : LoadMatches(g)'
  BY <1>4 DEF CaseInv, AcceptOverride, screen, LoadMatches
<1>8. \A g \in posts : PostMatches(g)'
  BY <1>3, <1>4 DEF CaseInv, AcceptOverride, screen, PostMatches
<1>9. PICK g \in Posting :
        /\ posts' = (posts \ {f}) \cup {g}
        /\ g.decision = f.decision /\ g.mount = f.mount /\ g.shows = Len(issued) + 1
  <2>1. PICK reply \in {"decision", "failed"} :
          posts' = (posts \ {f}) \cup {[f EXCEPT !.reply = reply, !.shows = Len(issued')]}
    BY DEF AcceptOverride
  <2>2. Len(issued') \in Nat /\ reply \in Reply
    BY <1>3, <2>1 DEF Reply
  <2>3. PICK g : g = [f EXCEPT !.reply = reply, !.shows = Len(issued')]
    OBVIOUS
  <2>4. g \in Posting /\ g.decision = f.decision /\ g.mount = f.mount /\ g.shows = Len(issued')
    BY <1>1, <2>2, <2>3 DEF Posting
  <2> QED BY <1>3, <2>1, <2>3, <2>4
<1>10. PostMatches(g)'
  <2>1. Len(issued) + 1 \in DOMAIN issued' /\ issued'[Len(issued) + 1].app = issued[f.decision].app
    BY <1>3 DEF CaseInv, Typed
  <2>2. issued'[f.decision] = issued[f.decision] /\ f.decision \in DOMAIN issued'
    BY <1>1, <1>3 DEF PostMatches
  <2>3. PostMatches(f)'
    BY <1>8
  <2> QED BY <1>9, <2>1, <2>2, <2>3 DEF PostMatches, IssuedFor
<1>11. loads' \subseteq Load /\ posts' \subseteq Posting
  BY <1>9 DEF CaseInv, Typed, AcceptOverride
<1>12. Typed'
  BY <1>3, <1>5, <1>6, <1>11 DEF CaseInv, Typed, AcceptOverride, screen
<1> QED
  BY <1>5, <1>6, <1>7, <1>8, <1>9, <1>10, <1>12 DEF CaseInv, AcceptOverride, screen

(* Every step of the page, the form and the gateway keeps the invariant.    *)
LEMMA NextCase == CaseInv /\ [Next]_vars => CaseInv'
<1> SUFFICES ASSUME CaseInv, [Next]_vars PROVE CaseInv'
  OBVIOUS
<1> USE DEF CaseInv
<1>1. ASSUME NEW o \in DecisionOutcome \cup {Blank}, ChooseOutcome(o) PROVE CaseInv'
  BY <1>1, FormStep DEF ChooseOutcome, FormState, Typed
<1>2. ASSUME NEW r \in Reason \cup {Blank}, ChooseReason(r) PROVE CaseInv'
  BY <1>2, FormStep DEF ChooseReason, FormState, Typed
<1>3. CASE EditNote
  BY <1>3, FormStep DEF EditNote, FormState, Typed
<1>4. CASE Confirm
  BY <1>4, FormStep DEF Confirm, Ready, FormState, Typed
<1>5. CASE Cancel
  BY <1>5, FormStep DEF Cancel, FormState, Typed
<1>6. CASE UNCHANGED vars
  BY <1>6 DEF vars, Typed, LoadMatches, PostMatches, IssuedFor
<1> QED
  BY <1>1, <1>2, <1>3, <1>4, <1>5, <1>6, OpenStep, SubmitStep, ServeLoadStep, LoadAnsweredStep,
     AcceptOverrideStep, RefuseOverrideStep, OverrideAnsweredStep
     DEF Next, Officer, Network

(* The decision on screen is a decision of the case on screen, however     *)
(* loads and overrides are answered around it.                             *)
THEOREM ScreenShowsItsCase == Spec => []ShowsThisCase
<1>1. CaseInv => ShowsThisCase
  BY DEF CaseInv, ShowsThisCase
<1> QED
  BY <1>1, InitCase, NextCase, PTL DEF Spec

(* The page, the form and the requests keep their types.                   *)
THEOREM ScreenTypeCorrect == Spec => []TypeOK
<1>1. CaseInv => TypeOK
  BY DEF CaseInv, Typed, TypeOK, FormState, Posting
<1> QED
  BY <1>1, InitCase, NextCase, PTL DEF Spec

-----------------------------------------------------------------------------
(* One override at a time.                                                 *)

(* The page waits for an override exactly while one of its own is posted.  *)
Pending ==
    /\ \A f, g \in posts : f.mount = mount.n /\ g.mount = mount.n => f = g
    /\ submitting <=> \E f \in posts : f.mount = mount.n

(* An answer that leaves an override with its page leaves it the only one. *)
LEMMA ReplacedPost ==
    ASSUME Pending, NEW f \in posts, NEW g, g.mount = f.mount,
           posts' = (posts \ {f}) \cup {g}, UNCHANGED <<mount, submitting>>
    PROVE  Pending'
<1>1. \A h \in posts' : h = g \/ (h \in posts /\ h # f)
  OBVIOUS
<1>2. g \in posts'
  OBVIOUS
<1>3. \A h \in posts : h = f \/ h \in posts'
  OBVIOUS
<1>4. ASSUME NEW h \in posts', NEW k \in posts', h.mount = mount.n, k.mount = mount.n
      PROVE  h = k
  BY <1>1, <1>4 DEF Pending
<1>5. (\E h \in posts : h.mount = mount.n) <=> \E h \in posts' : h.mount = mount.n
  BY <1>1, <1>2, <1>3
<1> QED
  BY <1>4, <1>5 DEF Pending

LEMMA NextPending ==
    ASSUME CaseInv, Pending, [Next]_vars
    PROVE  Pending'
<1>1. ASSUME NEW app \in Application, Open(app)
      PROVE  Pending'
  <2>1. mount'.n = mount.n + 1 /\ mount.n \in Nat /\ posts' = posts /\ submitting' = FALSE
    BY <1>1, BoundAssumption DEF Open, CaseInv, Typed
  <2>2. \A f \in posts : f.mount <= mount.n /\ f.mount \in Nat
    BY DEF CaseInv, PostMatches, Typed, Posting
  <2>3. \A f \in posts' : f.mount # mount'.n
    BY <2>1, <2>2
  <2> QED BY <2>1, <2>3 DEF Pending
<1>2. CASE Submit
  <2>1. ~submitting /\ posts' = posts \cup {Request} /\ submitting' = TRUE /\ mount' = mount
    BY <1>2 DEF Submit, Post
  <2>2. Request.mount = mount.n
    BY DEF Request
  <2>3. \A f \in posts' : f.mount = mount.n => f = Request
    BY <2>1 DEF Pending
  <2>4. Request \in posts'
    BY <2>1
  <2> QED BY <2>1, <2>2, <2>3, <2>4 DEF Pending
<1>3. ASSUME NEW f \in posts, NEW scored \in BOOLEAN, AcceptOverride(f, scored)
      PROVE  Pending'
  <2>1. PICK reply : posts' = (posts \ {f}) \cup {[f EXCEPT !.reply = reply, !.shows = Len(issued')]}
    BY <1>3 DEF AcceptOverride
  <2>2. [f EXCEPT !.reply = reply, !.shows = Len(issued')].mount = f.mount
    BY DEF CaseInv, Typed, Posting
  <2>3. UNCHANGED <<mount, submitting>>
    BY <1>3 DEF AcceptOverride, screen
  <2> QED BY <2>1, <2>2, <2>3, ReplacedPost
<1>4. ASSUME NEW f \in posts, RefuseOverride(f)
      PROVE  Pending'
  <2>1. [f EXCEPT !.reply = "failed"].mount = f.mount
    BY DEF CaseInv, Typed, Posting
  <2>2. posts' = (posts \ {f}) \cup {[f EXCEPT !.reply = "failed"]} /\ UNCHANGED <<mount, submitting>>
    BY <1>4 DEF RefuseOverride, screen
  <2> QED BY <2>1, <2>2, ReplacedPost
<1>5. ASSUME NEW f \in posts, OverrideAnswered(f)
      PROVE  Pending'
  <2>1. posts' = posts \ {f} /\ mount' = mount
    BY <1>5 DEF OverrideAnswered
  <2>2. CASE f.mount = mount.n
    <3>1. submitting' = FALSE
      BY <1>5, <2>2 DEF OverrideAnswered
    <3>2. \A g \in posts' : g.mount # mount.n
      BY <2>1, <2>2 DEF Pending
    <3> QED BY <2>1, <3>1, <3>2 DEF Pending
  <2>3. CASE f.mount # mount.n
    <3>1. submitting' = submitting
      BY <1>5, <2>3 DEF OverrideAnswered
    <3>2. \A g \in posts : g.mount = mount.n => g \in posts'
      BY <2>1, <2>3
    <3> QED BY <2>1, <3>1, <3>2 DEF Pending
  <2> QED BY <2>2, <2>3
<1>6. ASSUME UNCHANGED <<mount, posts, submitting>>
      PROVE  Pending'
  BY <1>6 DEF Pending
<1>7. CASE UNCHANGED vars
  BY <1>6, <1>7 DEF vars
<1> QED
  BY <1>1, <1>2, <1>3, <1>4, <1>5, <1>6, <1>7
     DEF Next, Officer, Network, ChooseOutcome, ChooseReason, EditNote, Confirm, Cancel, Form,
         ServeLoad, LoadAnswered, screen, network

(* A page never has two overrides in flight, and says so while it has one. *)
THEOREM OneOverrideInFlight == Spec => []OneOverrideAtATime
<1>1. Init => Pending
  BY DEF Init, Pending
<1>2. CaseInv /\ Pending /\ [Next]_vars => Pending'
  BY NextPending
<1>3. Pending => OneOverrideAtATime
  <2> SUFFICES ASSUME Pending PROVE OneOverrideAtATime
    OBVIOUS
  <2> DEFINE mine == {f \in posts : f.mount = mount.n}
  <2>1. CASE mine = {}
    <3>1. Cardinality(mine) = 0
      BY <2>1, FS_EmptySet
    <3> QED BY <3>1 DEF Pending, OneOverrideAtATime
  <2>2. CASE mine # {}
    <3>1. PICK f : mine = {f}
      BY <2>2 DEF Pending
    <3>2. Cardinality(mine) = 1
      BY <3>1, FS_Singleton
    <3> QED BY <3>2 DEF Pending, OneOverrideAtATime
  <2> QED BY <2>1, <2>2
<1> QED
  BY <1>1, <1>2, <1>3, InitCase, NextCase, PTL DEF Spec

-----------------------------------------------------------------------------
(* The two-step confirmation.                                              *)

(* While the prompt is open it was opened on what the form holds.          *)
PromptInv ==
    form.confirming => confirmed.reason = form.reason /\ confirmed.outcome = form.outcome

LEMMA NextPrompt ==
    ASSUME CaseInv, PromptInv, [Next]_vars
    PROVE  PromptInv'
<1> USE DEF CaseInv, Typed, FormState, PromptInv
<1>1. ASSUME NEW o, ChooseOutcome(o) PROVE PromptInv'
  BY <1>1 DEF ChooseOutcome, Form
<1>2. ASSUME NEW r, ChooseReason(r) PROVE PromptInv'
  BY <1>2 DEF ChooseReason, Form
<1>3. CASE EditNote
  BY <1>3 DEF EditNote, Form
<1>4. CASE Confirm
  BY <1>4 DEF Confirm, Form
<1>5. CASE Cancel
  BY <1>5 DEF Cancel, Form
<1>6. ASSUME NEW app, Open(app) PROVE PromptInv'
  BY <1>6 DEF Open, EmptyForm
<1>7. ASSUME UNCHANGED <<form, confirmed>> PROVE PromptInv'
  BY <1>7
<1> QED
  BY <1>1, <1>2, <1>3, <1>4, <1>5, <1>6, <1>7
     DEF Next, Officer, Network, vars, Submit, Post, ServeLoad, LoadAnswered, AcceptOverride,
         RefuseOverride, OverrideAnswered

(* An override carries the outcome and the reason the officer was asked to *)
(* confirm.                                                                *)
THEOREM WhatIsPostedWasConfirmed == Spec => ConfirmedChoice
<1>1. Init => PromptInv
  BY DEF Init, PromptInv, EmptyForm
<1>2. CaseInv /\ PromptInv /\ [Next]_vars => PromptInv'
  BY NextPrompt
<1>3. CaseInv /\ PromptInv /\ [Next]_vars =>
         [\A f \in posts' : f \notin posts /\ f.reply = "waiting" =>
             f.reason = confirmed.reason /\ f.outcome = confirmed.outcome]_vars
  <2> SUFFICES ASSUME CaseInv, PromptInv, [Next]_vars,
                      NEW f \in posts', f \notin posts, f.reply = "waiting"
               PROVE  f.reason = confirmed.reason /\ f.outcome = confirmed.outcome
    OBVIOUS
  <2>1. CASE Submit
    <3>1. f = Request /\ form.confirming
      BY <2>1 DEF Submit, Post
    <3> QED BY <3>1 DEF Request, PromptInv
  <2>2. ASSUME NEW g \in posts, NEW scored \in BOOLEAN, AcceptOverride(g, scored)
        PROVE  FALSE
    <3>1. PICK reply \in {"decision", "failed"} :
            f = [g EXCEPT !.reply = reply, !.shows = Len(issued')]
      BY <2>2 DEF AcceptOverride
    <3>2. f.reply = reply
      BY <3>1 DEF CaseInv, Typed, Posting
    <3> QED BY <3>1, <3>2
  <2>3. ASSUME NEW g \in posts, RefuseOverride(g)
        PROVE  FALSE
    <3>1. f = [g EXCEPT !.reply = "failed"]
      BY <2>3 DEF RefuseOverride
    <3>2. f.reply = "failed"
      BY <3>1 DEF CaseInv, Typed, Posting
    <3> QED BY <3>2
  <2>4. CASE posts' \subseteq posts
    BY <2>4
  <2> QED
    BY <2>1, <2>2, <2>3, <2>4
       DEF Next, Officer, Network, vars, Open, ChooseOutcome, ChooseReason, EditNote, Confirm,
           Cancel, Form, network, ServeLoad, LoadAnswered, OverrideAnswered
<1> QED
  BY <1>1, <1>2, <1>3, InitCase, NextCase, PTL DEF Spec, ConfirmedChoice

=============================================================================
