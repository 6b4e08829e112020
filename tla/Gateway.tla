------------------------------ MODULE Gateway ------------------------------
(***************************************************************************)
(* A screen's load, from useLoad() through the gateway client and a        *)
(* keep-alive connection to the gateway's request handler, and back        *)
(* (lib/gateway/useLoad.ts, lib/gateway/client.ts, gateway/server.py).     *)
(*                                                                         *)
(* A connection carries one request at a time.  What a handler leaves      *)
(* unread of a request stays on the connection, in front of the next one.  *)
(***************************************************************************)
EXTENDS Naturals, FiniteSets

CONSTANTS
    Route,          \* route tables are sets of these, see RouteType
    Connection,     \* connections of the browser to the gateway
    Requests,       \* what a screen may ask for
    MaxLoads        \* bound: loads the screen starts

VARIABLES
    table,          \* Router.routes
    carries,        \* connection -> number of the load it carries, 0 when idle
    leftover,       \* connection -> an unread body precedes the next request
    loads,          \* loads not settled: number, request, and answer so far
    screen          \* state of useLoad(), with the load and the answer it is for

vars == <<table, carries, leftover, loads, screen>>

\* A route, by what its classification and its handler can tell apart: the
\* handler always refuses, refuses empty arguments only, or computes.
RouteType == [derived : BOOLEAN, handler : {"blocked", "conditional", "computed"}]

\* A path that is not in the route table, or is there under another method.
Elsewhere(path) == [derived |-> FALSE, handler |-> path]

\* What a request can be to the dispatcher.  No session: the client refuses to
\* send.  An invalid one: the bearer token is blank or the role is not one of four.
Request ==
    [method : {"GET", "POST"}, session : {"none", "invalid", "valid"},
     target : Route \cup {Elsewhere(p) : p \in {"health", "capabilities", "unknown", "other_method"}},
     body : {"none", "object", "malformed", "too_large"}]

\* A GET carries no body.
Wellformed(q) == q \in Request /\ (q.method = "GET" => q.body = "none")

\* An answer: its body, and for a payload the attribution of its values.
NoAnswer == [status |-> 0, body |-> "none", triplet |-> "absent"]
Answer(status, body, triplet) == [status |-> status, body |-> body, triplet |-> triplet]
Json(status) == Answer(status, "error", "absent")
Refusal == Answer(200, "unavailable", "absent")
Payload(triplet) == Answer(200, "payload", triplet)
\* The base class answers an unreadable request line itself, with a page.
HtmlError == Answer(501, "html", "absent")
Lost == Answer(0, "lost", "absent")

-----------------------------------------------------------------------------
(* The route table.                                                        *)

\* Called once, with empty arguments.
AlwaysUnavailable(r) == r.handler # "computed"

\* audit_routes(): R1.
AuditRoutes(t) == {r \in t : r.derived /\ ~AlwaysUnavailable(r)}

\* build_server() refuses a table that fails its audit.
Init ==
    /\ table \in {t \in SUBSET Route : AuditRoutes(t) = {}}
    /\ carries = [k \in Connection |-> 0]
    /\ leftover = [k \in Connection |-> FALSE]
    /\ loads = {}
    /\ screen = [load |-> 0, kind |-> "loading", by |-> 0, answer |-> NoAnswer]

-----------------------------------------------------------------------------
(* GatewayRequestHandler.                                                  *)

CheckSession(q) == q.session = "valid"
Health(q) == q.target = Elsewhere("health") /\ q.method = "GET"
Capabilities(q) == q.target = Elsewhere("capabilities") /\ q.method = "GET"
Matched(q) == q.target \in table

\* The branches that answer before the body is read.
AnsweredEarly(q) ==
    \/ Health(q)
    \/ ~CheckSession(q)
    \/ Capabilities(q)
    \/ ~Matched(q)

ReadsBody(q) == ~AnsweredEarly(q) /\ q.method = "POST" /\ q.body \in {"object", "malformed"}

\* _invoke(): what a handler can return or raise.
Invoke(q) ==
    LET r == q.target
        refuses == \/ r.handler = "blocked"
                   \/ r.handler = "conditional" /\ q.body = "none"
    IN IF refuses THEN {Refusal}
       ELSE {Payload(t) : t \in IF r.derived THEN {"full", "missing", "absent"} ELSE {"absent"}}
            \cup {Json(400), Json(500)}

\* _dispatch(), in the order of its branches.
Dispatch(q) ==
    IF Health(q) THEN {Payload("absent")}
    ELSE IF ~CheckSession(q) THEN {Json(401)}
    ELSE IF Capabilities(q) THEN {Payload("absent")}
    ELSE IF ~Matched(q) THEN {Json(IF q.target = Elsewhere("unknown") THEN 404 ELSE 405)}
    ELSE IF q.body \in {"malformed", "too_large"} THEN {Json(400)}
    ELSE Invoke(q)

-----------------------------------------------------------------------------
(* GatewayClient.request().                                                *)

\* A leaf that is missing or null passes; one that is there needs its triplet.
EnforceAttribution(answer) == answer.triplet # "missing"

IsDerived(q) == q.target.derived

\* Mutant: the attribution guard runs before the refusal is recognised.
OutcomeGuardFirst(q, answer) ==
    IF answer.status # 200 \/ answer.body = "html" THEN "error"
    ELSE IF IsDerived(q) /\ (answer.body = "unavailable" \/ ~EnforceAttribution(answer)) THEN "error"
    ELSE IF answer.body = "unavailable" THEN "unavailable"
    ELSE "ready"

\* What request() resolves to, or the class of what it throws.
Outcome(q, answer) ==
    IF answer.status # 200 \/ answer.body = "html" THEN "error"
    ELSE IF answer.body = "unavailable" THEN "unavailable"
    ELSE IF IsDerived(q) /\ ~EnforceAttribution(answer) THEN "error"
    ELSE "ready"

-----------------------------------------------------------------------------
(* Steps.                                                                  *)

Numbered(n) == CHOOSE l \in loads : l.n = n
Replace(l, m) == loads' = (loads \ {l}) \cup {m}

\* The deps change: the running effect is cancelled and another load begins.
\* Without a session request() throws at once.
ChangeDeps(q) ==
    /\ screen.load < MaxLoads
    /\ screen' = [load |-> screen.load + 1, kind |-> "loading", by |-> 0, answer |-> NoAnswer]
    /\ loads' = loads \cup
         {[n |-> screen.load + 1, request |-> q, sent |-> FALSE,
           answer |-> IF q.session = "none" THEN Lost ELSE NoAnswer]}
    /\ UNCHANGED <<table, carries, leftover>>

\* The browser picks an idle connection.
Send(l, k) ==
    /\ ~l.sent /\ l.answer = NoAnswer
    /\ carries[k] = 0
    /\ carries' = [carries EXCEPT ![k] = l.n]
    /\ Replace(l, [l EXCEPT !.sent = TRUE])
    /\ UNCHANGED <<table, leftover, screen>>

\* One request is handled.  Behind a leftover its first line is unreadable: it is
\* answered by the base class, which closes the connection.
Serve(k) ==
    /\ carries[k] # 0
    /\ LET l == Numbered(carries[k]) IN
         IF leftover[k]
         THEN /\ Replace(l, [l EXCEPT !.answer = HtmlError])
              /\ leftover' = [leftover EXCEPT ![k] = FALSE]
         ELSE /\ \E a \in Dispatch(l.request) : Replace(l, [l EXCEPT !.answer = a])
              /\ leftover' = [leftover EXCEPT ![k] =
                                l.request.body # "none" /\ ~ReadsBody(l.request)]
    /\ carries' = [carries EXCEPT ![k] = 0]
    /\ UNCHANGED <<table, screen>>

\* A connection breaks: the request it carries fails, the next one finds a new one.
Break(k) ==
    /\ \/ /\ carries[k] # 0
          /\ Replace(Numbered(carries[k]), [Numbered(carries[k]) EXCEPT !.answer = Lost])
       \/ carries[k] = 0 /\ leftover[k] /\ UNCHANGED loads
    /\ carries' = [carries EXCEPT ![k] = 0]
    /\ leftover' = [leftover EXCEPT ![k] = FALSE]
    /\ UNCHANGED <<table, screen>>

Show(l) ==
    screen' = [screen EXCEPT !.kind = Outcome(l.request, l.answer), !.by = l.n,
                             !.answer = l.answer]

\* Mutant: the effect has no cancellation guard.
SettleUnguarded(l) ==
    /\ l.answer # NoAnswer
    /\ loads' = loads \ {l}
    /\ Show(l)
    /\ UNCHANGED <<table, carries, leftover>>

\* Mutant: a refusal is caught and not shown.
SettleSilently(l) ==
    /\ l.answer # NoAnswer
    /\ loads' = loads \ {l}
    /\ IF l.n = screen.load /\ l.answer # Refusal THEN Show(l) ELSE UNCHANGED screen
    /\ UNCHANGED <<table, carries, leftover>>

\* The promise of a load settles; a cancelled one changes nothing.
Settle(l) ==
    /\ l.answer # NoAnswer
    /\ loads' = loads \ {l}
    /\ IF l.n = screen.load THEN Show(l) ELSE UNCHANGED screen
    /\ UNCHANGED <<table, carries, leftover>>

Next ==
    \/ \E q \in Requests : ChangeDeps(q)
    \/ \E l \in loads : Settle(l) \/ \E k \in Connection : Send(l, k)
    \/ \E k \in Connection : Serve(k) \/ Break(k)

Spec == Init /\ [][Next]_vars

\* A request sent is handled, each in a thread of its own, and a promise settled.
Progress(n) == \E l \in loads : l.n = n /\ (Settle(l) \/ \E k \in Connection : Send(l, k))
FairSpec ==
    /\ Spec
    /\ \A k \in Connection : WF_vars(Serve(k))
    /\ \A n \in 1..MaxLoads : WF_vars(Progress(n))

-----------------------------------------------------------------------------
(* Properties.                                                             *)

TypeOK ==
    /\ \A q \in Requests : Wellformed(q)
    /\ table \in SUBSET Route
    /\ carries \in [Connection -> 0..MaxLoads]
    /\ leftover \in [Connection -> BOOLEAN]
    /\ \A l \in loads : l.n \in 1..screen.load /\ l.request \in Requests /\ l.sent \in BOOLEAN
    /\ \A k \in Connection : carries[k] # 0 => \E l \in loads : l.n = carries[k] /\ l.sent
    /\ screen.load \in 0..MaxLoads
    /\ screen.kind \in {"loading", "ready", "unavailable", "error"}

\* A filter changed twice quickly: what is on screen came from the latest load.
ShowsLatestLoad == screen.kind # "loading" => screen.by = screen.load

\* A governance stop is never shown as a fault, nor a fault as a governance stop:
\* not when the gateway is lost, garbled or failing, and whatever the route's class.
RefusalIsNotFault ==
    screen.kind # "loading" => (screen.kind = "unavailable" <=> screen.answer = Refusal)

\* A model-derived value without its triplet is not rendered, also when a handler
\* the audit took for blocked returns one.
NoUntracedScore == screen.kind = "ready" => screen.answer.triplet # "missing"

\* What is on screen came from the latest load, in its own frame and traced.
ScreenFaithful == ShowsLatestLoad /\ RefusalIsNotFault /\ NoUntracedScore

\* A screen does not load forever: every branch of the handler answers.
LoadingEnds == screen.load > 0 /\ screen.kind = "loading" ~> screen.kind # "loading"

\* "Every branch ends in a JSON body": no well-formed request is answered by a page.
EveryBranchIsJson == screen.answer.body # "html"
=============================================================================
