------------------------- MODULE Components_proofs -------------------------
(***************************************************************************)
(* The properties of Components hold in every behaviour, for any constants *)
(* that meet the assumptions stated there.  Each component has an          *)
(* inductive invariant, with a lemma for its start, for its steps and for  *)
(* what follows from it; the theorems at the end join them.                *)
(***************************************************************************)
EXTENDS Components, FiniteSetTheorems, WellFoundedInduction, TLAPS

-----------------------------------------------------------------------------
\* A set has one cardinality, whichever component counts it.
LEMMA Counts ==
    \A S : /\ Fd!Cardinality(S) = Cardinality(S) /\ Sp!Cardinality(S) = Cardinality(S)
           /\ Of!Cardinality(S) = Cardinality(S) /\ As!Cardinality(S) = Cardinality(S)
           /\ Cv!Cardinality(S) = Cardinality(S) /\ Fv!Cardinality(S) = Cardinality(S)
           /\ Bt!Cardinality(S) = Cardinality(S) /\ Pv!Cardinality(S) = Cardinality(S)
           /\ Pf!Cardinality(S) = Cardinality(S)
BY DEF Cardinality, Fd!Cardinality, Sp!Cardinality, Of!Cardinality, As!Cardinality,
       Cv!Cardinality, Fv!Cardinality, Bt!Cardinality, Pv!Cardinality, Pf!Cardinality

\* The first n numbers are n.
LEMMA FirstNumbers == \A n \in Nat : IsFiniteSet(1..n) /\ Cardinality(1..n) = n
<1> SUFFICES ASSUME NEW n \in Nat PROVE IsFiniteSet(1..n) /\ Cardinality(1..n) = n
  OBVIOUS
<1>1. IsFiniteSet(1..n) /\ Cardinality(1..n) = IF 1 > n THEN 0 ELSE n - 1 + 1
  BY FS_Interval
<1> QED BY <1>1

\* The greatest of some integers between two bounds.
LEMMA GreatestExists ==
    ASSUME NEW low \in Int, NEW high \in Int, NEW S \in SUBSET (low..high), S # {}
    PROVE  \E m \in S : \A k \in S : k <= m
<1> DEFINE T == {i \in Nat : high - i \in S}
<1>1. T \subseteq Nat /\ T # {}
  <2>1. PICK m \in S : TRUE
    OBVIOUS
  <2>2. m \in Int /\ m <= high /\ high - m \in Nat /\ high - (high - m) = m
    BY <2>1
  <2> QED BY <2>1, <2>2
<1>2. PICK i \in T : \A j \in T : ~(<<j, i>> \in OpToRel(<, Nat))
  BY <1>1, NatLessThanWellFounded, WFMin
<1>3. \A j \in T : ~(j < i)
  BY <1>1, <1>2 DEF OpToRel
<1>4. SUFFICES ASSUME NEW k \in S PROVE k <= high - i
  OBVIOUS
<1>5. high - k \in T
  <2>1. k \in Int /\ k <= high /\ high - k \in Nat /\ high - (high - k) = k
    OBVIOUS
  <2> QED BY <2>1
<1>6. i \in Nat /\ k \in Int /\ ~(high - k < i)
  BY <1>3, <1>5
<1> HIDE DEF T
<1> QED BY <1>6

\* The least of some natural numbers.
LEMMA LeastExists ==
    ASSUME NEW S \in SUBSET Nat, S # {}
    PROVE  \E t \in S : \A u \in S : t <= u
<1>1. PICK t \in S : \A u \in S : ~(<<u, t>> \in OpToRel(<, Nat))
  BY NatLessThanWellFounded, WFMin
<1>2. \A u \in S : ~(u < t)
  BY <1>1 DEF OpToRel
<1> QED BY <1>2

\* Of finitely many, one has the greatest figure: the one with the fewest above it.
LEMMA FiniteGreatest ==
    ASSUME NEW S, IsFiniteSet(S), S # {}, NEW f, \A x \in S : f[x] \in Int
    PROVE  \E d \in S : \A e \in S : f[e] <= f[d]
<1> DEFINE Above(d) == {e \in S : f[e] > f[d]}
           N == {Cardinality(Above(d)) : d \in S}
<1>1. \A d \in S : IsFiniteSet(Above(d)) /\ Cardinality(Above(d)) \in Nat
  BY FS_Subset, FS_CardinalityType
<1>2. N \in SUBSET Nat /\ N # {}
  BY <1>1
<1>3. PICK n \in N : \A k \in N : n <= k
  BY <1>2, LeastExists
<1>4. PICK d \in S : n = Cardinality(Above(d))
  OBVIOUS
<1>5. ASSUME NEW e \in S, f[e] > f[d] PROVE FALSE
  <2>1. Above(e) \subseteq Above(d) /\ e \in Above(d) /\ e \notin Above(e)
    <3>1. f[d] \in Int /\ f[e] \in Int /\ f[e] > f[d] /\ ~(f[e] > f[e])
      BY <1>5
    <3>2. \A x \in S : f[x] > f[e] => f[x] > f[d]
      BY <3>1
    <3> QED BY <3>1, <3>2
  <2> HIDE DEF Above
  <2>2. Cardinality(Above(e)) < Cardinality(Above(d))
    <3>1. Above(e) \in SUBSET Above(d) /\ Above(e) # Above(d) /\ IsFiniteSet(Above(d))
      BY <2>1, <1>1
    <3>2. Cardinality(Above(e)) <= Cardinality(Above(d)) /\ Cardinality(Above(e)) # Cardinality(Above(d))
      BY <3>1, FS_Subset
    <3>3. Cardinality(Above(e)) \in Nat /\ Cardinality(Above(d)) \in Nat
      BY <1>1
    <3> QED BY <3>2, <3>3
  <2>3. Cardinality(Above(e)) \in N /\ Cardinality(Above(e)) \in Nat /\ n \in Nat
    BY <1>1, <1>2 DEF N
  <2> QED BY <2>2, <2>3, <1>3, <1>4
<1> QED BY <1>5

-----------------------------------------------------------------------------
(* The gateway and the screen.                                             *)

\* Everything a load may be answered with; only a derived route is seen without its
\* triplet.
AnswersTo(q) ==
    {Gw!NoAnswer, Gw!HtmlError, Gw!Lost, Gw!Refusal}
    \cup {Gw!Json(status) : status \in {400, 401, 404, 405, 500}}
    \cup {Gw!Payload(t) : t \in {u \in {"full", "missing", "absent"} : u = "missing" => Gw!IsDerived(q)}}
Load == [n : Nat, request : GatewayRequests, sent : BOOLEAN, answer : UNION {AnswersTo(q) : q \in GatewayRequests}]

\* A connection carries a load of its own that still waits, and no answer strays to a
\* request that cannot have it.
LoadsInv ==
    /\ loads \subseteq Load
    /\ \A l \in loads : l.n \in 1..screen.load /\ l.answer \in AnswersTo(l.request)
    /\ \A l, m \in loads : l.n = m.n => l = m
    /\ carries \in [GatewayConnection -> Nat]
    /\ \A k \in GatewayConnection : carries[k] # 0 =>
          \E l \in loads : l.n = carries[k] /\ l.sent /\ l.answer = Gw!NoAnswer
    /\ \A k, j \in GatewayConnection : carries[k] = carries[j] /\ carries[k] # 0 => k = j

ScreenInv ==
    /\ screen = [load |-> screen.load, kind |-> screen.kind, by |-> screen.by, answer |-> screen.answer]
    /\ screen.load \in Nat
    /\ Gw!ScreenFaithful

LEMMA DispatchAnswers == ASSUME NEW q PROVE Gw!Dispatch(q) \subseteq AnswersTo(q)
<1>1. Gw!Invoke(q) \subseteq AnswersTo(q)
  BY DEF Gw!Invoke, AnswersTo, Gw!IsDerived
<1>2. /\ Gw!Payload("absent") \in AnswersTo(q)
      /\ \A status \in {400, 401, 404, 405} : Gw!Json(status) \in AnswersTo(q)
  BY DEF AnswersTo
<1> QED BY <1>1, <1>2 DEF Gw!Dispatch

\* The client tells a refusal from a fault, and lets no untraced value through, for
\* every answer the gateway or the network can give.
LEMMA OutcomeIsRight ==
    ASSUME NEW q, NEW a \in AnswersTo(q)
    PROVE  /\ Gw!Outcome(q, a) = "unavailable" <=> a = Gw!Refusal
           /\ Gw!Outcome(q, a) = "ready" => a.triplet # "missing"
<1>1. CASE a \in {Gw!NoAnswer, Gw!HtmlError, Gw!Lost}
  BY <1>1 DEF Gw!Outcome, Gw!NoAnswer, Gw!HtmlError, Gw!Lost, Gw!Answer, Gw!Refusal
<1>2. CASE \E s : s # 200 /\ a = Gw!Json(s)
  BY <1>2 DEF Gw!Outcome, Gw!Json, Gw!Answer, Gw!Refusal
<1>3. CASE a = Gw!Refusal
  BY <1>3 DEF Gw!Outcome, Gw!Answer, Gw!Refusal
<1>4. CASE \E t : a = Gw!Payload(t) /\ (t = "missing" => Gw!IsDerived(q))
  BY <1>4 DEF Gw!Outcome, Gw!Payload, Gw!Answer, Gw!Refusal, Gw!EnforceAttribution
<1> QED BY <1>1, <1>2, <1>3, <1>4 DEF AnswersTo

LEMMA InitFaithful == Gw!Init => LoadsInv /\ ScreenInv
BY DEF Gw!Init, LoadsInv, ScreenInv, Gw!ScreenFaithful, Gw!ShowsLatestLoad, Gw!RefusalIsNotFault, Gw!NoUntracedScore

\* The load a busy connection carries: it exists and waits.
LEMMA Carried ==
    ASSUME LoadsInv, NEW k \in GatewayConnection, carries[k] # 0
    PROVE  /\ Gw!Numbered(carries[k]) \in loads
           /\ Gw!Numbered(carries[k]).n = carries[k]
           /\ Gw!Numbered(carries[k]).sent
           /\ Gw!Numbered(carries[k]).answer = Gw!NoAnswer
<1>1. PICK l \in loads : l.n = carries[k] /\ l.sent /\ l.answer = Gw!NoAnswer
  BY DEF LoadsInv
<1>2. Gw!Numbered(carries[k]) = l
  BY <1>1 DEF LoadsInv, Gw!Numbered
<1> QED BY <1>1, <1>2

\* Replacing a load by another state of it keeps the loads apart.
LEMMA ReplacedLoad ==
    ASSUME LoadsInv, NEW l \in loads, NEW m \in Load, Gw!Replace(l, m), m.n = l.n,
           m.answer \in AnswersTo(m.request)
    PROVE  /\ loads' \subseteq Load
           /\ \A x \in loads' : x.n \in 1..screen.load /\ x.answer \in AnswersTo(x.request)
           /\ \A x, y \in loads' : x.n = y.n => x = y
BY DEF LoadsInv, Gw!Replace

LEMMA NextLoads == LoadsInv /\ ScreenInv /\ [Gw!Next]_gatewayVars => LoadsInv'
<1> SUFFICES ASSUME LoadsInv, ScreenInv, [Gw!Next]_gatewayVars PROVE LoadsInv'
  OBVIOUS
<1>1. ASSUME NEW q \in GatewayRequests, Gw!ChangeDeps(q) PROVE LoadsInv'
  <2> DEFINE l == [n |-> screen.load + 1, request |-> q, sent |-> FALSE,
                   answer |-> IF q.session = "none" THEN Gw!Lost ELSE Gw!NoAnswer]
  <2>1. /\ loads' = loads \cup {l} /\ screen'.load = screen.load + 1 /\ carries' = carries
        /\ l.n = screen.load + 1 /\ screen.load \in Nat
    BY <1>1 DEF Gw!ChangeDeps, ScreenInv
  <2>2. l.answer \in AnswersTo(q)
    BY DEF AnswersTo
  <2>3. l \in Load /\ l.request = q
    BY <2>2, <2>1 DEF Load
  <2> HIDE DEF l
  <2>4. \A m \in loads : m.n \in Nat /\ m.n <= screen.load
    BY <2>1 DEF LoadsInv, Load
  <2>5. \A m, p \in loads' : m.n = p.n => m = p
    BY <2>1, <2>4 DEF LoadsInv
  <2>6. \A m \in loads' : m.n \in 1..screen'.load /\ m.answer \in AnswersTo(m.request)
    BY <2>1, <2>2, <2>3 DEF LoadsInv
  <2>7. \A k \in GatewayConnection : carries'[k] # 0 =>
          \E m \in loads' : m.n = carries'[k] /\ m.sent /\ m.answer = Gw!NoAnswer
    BY <2>1 DEF LoadsInv
  <2> QED BY <2>1, <2>3, <2>5, <2>6, <2>7 DEF LoadsInv
<1>2. ASSUME NEW l \in loads, Gw!Settle(l) PROVE LoadsInv'
  <2>1. /\ loads' = loads \ {l} /\ l.answer # Gw!NoAnswer /\ carries' = carries
        /\ screen'.load = screen.load
    BY <1>2 DEF Gw!Settle, Gw!Show, ScreenInv
  <2> QED BY <2>1 DEF LoadsInv
<1>3. ASSUME NEW l \in loads, NEW k \in GatewayConnection, Gw!Send(l, k) PROVE LoadsInv'
  <2> DEFINE m == [l EXCEPT !.sent = TRUE]
  <2>1. /\ ~l.sent /\ l.answer = Gw!NoAnswer /\ Gw!Replace(l, m)
        /\ carries' = [carries EXCEPT ![k] = l.n] /\ screen' = screen
    BY <1>3 DEF Gw!Send
  <2>2. /\ m \in Load /\ m.n = l.n /\ m.sent /\ m.answer = Gw!NoAnswer /\ m.request = l.request
        /\ l.n \in Nat
    BY <2>1 DEF LoadsInv, Load
  <2> HIDE DEF m
  <2>3. /\ loads' \subseteq Load
        /\ \A x \in loads' : x.n \in 1..screen.load /\ x.answer \in AnswersTo(x.request)
        /\ \A x, y \in loads' : x.n = y.n => x = y
    <3>1. m.answer \in AnswersTo(m.request)
      BY <2>2 DEF AnswersTo
    <3> QED BY <2>1, <2>2, <3>1, ReplacedLoad
  <2>4. \A j \in GatewayConnection \ {k} : carries[j] # 0 => carries[j] # l.n
    BY <2>1 DEF LoadsInv
  <2>5. \A j \in GatewayConnection : carries'[j] # 0 =>
          \E x \in loads' : x.n = carries'[j] /\ x.sent /\ x.answer = Gw!NoAnswer
    <3> TAKE j \in GatewayConnection
    <3>1. CASE j = k
      BY <3>1, <2>1, <2>2 DEF Gw!Replace, LoadsInv
    <3>2. CASE j # k
      BY <3>2, <2>1, <2>4 DEF Gw!Replace, LoadsInv
    <3> QED BY <3>1, <3>2
  <2>6. \A i, j \in GatewayConnection : carries'[i] = carries'[j] /\ carries'[i] # 0 => i = j
    BY <2>1, <2>4 DEF LoadsInv
  <2>7. carries' \in [GatewayConnection -> Nat]
    BY <2>1, <2>2 DEF LoadsInv
  <2> QED BY <2>1, <2>3, <2>5, <2>6, <2>7 DEF LoadsInv
<1>4. ASSUME NEW k \in GatewayConnection, NEW a, carries[k] # 0,
             Gw!Replace(Gw!Numbered(carries[k]), [Gw!Numbered(carries[k]) EXCEPT !.answer = a]),
             a \in AnswersTo(Gw!Numbered(carries[k]).request),
             carries' = [carries EXCEPT ![k] = 0], screen' = screen
      PROVE  LoadsInv'
  <2> DEFINE l == Gw!Numbered(carries[k])
             m == [l EXCEPT !.answer = a]
  <2>1. l \in loads /\ l.n = carries[k]
    BY <1>4, Carried
  <2> HIDE DEF l
  <2>2. m \in Load /\ m.n = l.n /\ m.answer = a /\ m.request = l.request
    BY <2>1, <1>4 DEF LoadsInv, Load, l
  <2>3. Gw!Replace(l, m) /\ a \in AnswersTo(l.request)
    BY <1>4 DEF l
  <2> HIDE DEF m
  <2>4. /\ loads' \subseteq Load
        /\ \A x \in loads' : x.n \in 1..screen.load /\ x.answer \in AnswersTo(x.request)
        /\ \A x, y \in loads' : x.n = y.n => x = y
    BY <2>1, <2>2, <2>3, ReplacedLoad
  <2>5. \A j \in GatewayConnection : carries'[j] # 0 => j # k /\ carries'[j] = carries[j]
    BY <1>4 DEF LoadsInv
  <2>6. \A j \in GatewayConnection : carries'[j] # 0 =>
          \E x \in loads' : x.n = carries'[j] /\ x.sent /\ x.answer = Gw!NoAnswer
    <3> SUFFICES ASSUME NEW j \in GatewayConnection, carries'[j] # 0
                 PROVE  \E x \in loads' : x.n = carries'[j] /\ x.sent /\ x.answer = Gw!NoAnswer
      OBVIOUS
    <3>1. PICK x \in loads : x.n = carries[j] /\ x.sent /\ x.answer = Gw!NoAnswer
      BY <2>5 DEF LoadsInv
    <3>2. x # l
      BY <3>1, <2>1, <2>5 DEF LoadsInv
    <3> QED BY <3>1, <3>2, <2>3, <2>5 DEF Gw!Replace
  <2>7. \A i, j \in GatewayConnection : carries'[i] = carries'[j] /\ carries'[i] # 0 => i = j
    BY <2>5 DEF LoadsInv
  <2>8. carries' \in [GatewayConnection -> Nat]
    BY <1>4 DEF LoadsInv
  <2> QED BY <1>4, <2>4, <2>6, <2>7, <2>8 DEF LoadsInv
<1>5. ASSUME NEW k \in GatewayConnection, Gw!Serve(k) PROVE LoadsInv'
  <2>1. CASE leftover[k]
    BY <2>1, <1>4, <1>5 DEF Gw!Serve, AnswersTo
  <2>2. CASE ~leftover[k]
    <3>1. PICK a \in Gw!Dispatch(Gw!Numbered(carries[k]).request) :
            Gw!Replace(Gw!Numbered(carries[k]), [Gw!Numbered(carries[k]) EXCEPT !.answer = a])
      BY <2>2, <1>5 DEF Gw!Serve
    <3> QED BY <3>1, <1>4, <1>5, DispatchAnswers DEF Gw!Serve
  <2> QED BY <2>1, <2>2
<1>6. ASSUME NEW k \in GatewayConnection, Gw!Break(k) PROVE LoadsInv'
  <2>1. CASE carries[k] # 0
    BY <2>1, <1>4, <1>6 DEF Gw!Break, AnswersTo
  <2>2. CASE carries[k] = 0
    <3>1. loads' = loads /\ screen' = screen /\ carries' = carries
      BY <2>2, <1>6 DEF Gw!Break, LoadsInv
    <3> QED BY <3>1 DEF LoadsInv
  <2> QED BY <2>1, <2>2
<1>7. CASE UNCHANGED gatewayVars
  BY <1>7 DEF gatewayVars, LoadsInv
<1> QED
  BY <1>1, <1>2, <1>3, <1>5, <1>6, <1>7 DEF Gw!Next

LEMMA NextScreen == LoadsInv /\ ScreenInv /\ [Gw!Next]_gatewayVars => ScreenInv'
<1> SUFFICES ASSUME LoadsInv, ScreenInv, [Gw!Next]_gatewayVars PROVE ScreenInv'
  OBVIOUS
<1> USE DEF ScreenInv, Gw!ScreenFaithful, Gw!ShowsLatestLoad, Gw!RefusalIsNotFault, Gw!NoUntracedScore
<1>1. ASSUME NEW q \in GatewayRequests, Gw!ChangeDeps(q) PROVE ScreenInv'
  BY <1>1 DEF Gw!ChangeDeps
<1>2. ASSUME NEW l \in loads, Gw!Settle(l) PROVE ScreenInv'
  <2>1. CASE l.n = screen.load
    <3>1. screen' = [load |-> screen.load, kind |-> Gw!Outcome(l.request, l.answer), by |-> l.n,
                     answer |-> l.answer]
      BY <2>1, <1>2 DEF Gw!Settle, Gw!Show
    <3>2. /\ Gw!Outcome(l.request, l.answer) = "unavailable" <=> l.answer = Gw!Refusal
          /\ Gw!Outcome(l.request, l.answer) = "ready" => l.answer.triplet # "missing"
      BY OutcomeIsRight DEF LoadsInv
    <3> QED BY <2>1, <3>1, <3>2
  <2>2. CASE l.n # screen.load
    BY <2>2, <1>2 DEF Gw!Settle
  <2> QED BY <2>1, <2>2
<1>3. ASSUME screen' = screen PROVE ScreenInv'
  BY <1>3
<1>4. ASSUME NEW l \in loads, NEW k \in GatewayConnection, Gw!Send(l, k) PROVE screen' = screen
  BY <1>4 DEF Gw!Send
<1>5. ASSUME NEW k \in GatewayConnection, Gw!Serve(k) \/ Gw!Break(k) PROVE screen' = screen
  BY <1>5 DEF Gw!Serve, Gw!Break
<1>6. UNCHANGED gatewayVars => screen' = screen
  BY DEF gatewayVars
<1> QED
  BY <1>1, <1>2, <1>3, <1>4, <1>5, <1>6 DEF Gw!Next

-----------------------------------------------------------------------------
(* The fraud desk.                                                         *)

DeskTypes ==
    /\ deskTaxonomy.codes \in UNION {[known -> Fd!DispositionOutcome] : known \in SUBSET DeskCode}
    /\ deskTaxonomy.ratified \in BOOLEAN
    /\ IsFiniteSet(DOMAIN queue)
    /\ \A c \in DOMAIN queue :
          queue[c] \in [application : DeskApplication, action : Fd!Action, score : Nat,
                        signal : DeskSignal, closed : BOOLEAN,
                        disposition : Fd!DispositionOutcome \cup {Fd!Undisposed},
                        analyst : DeskAnalyst \cup {Fd!Nobody}]

DeskInv == DeskTypes /\ Fd!TypeOK /\ Fd!ClosedIsDisposed

\* A score that does not pass is routed to one of the policy's actions.
LEMMA RoutedAction ==
    ASSUME NEW score \in Nat PROVE Fd!ActionFor(score) \in Fd!Action
<1>1. CASE Fd!Reached(score) = {}
  BY <1>1 DEF Fd!ActionFor, Fd!Action
<1>2. CASE Fd!Reached(score) # {}
  <2>1. Len(DeskBands) \in Nat /\ Fd!Reached(score) \subseteq 0..Len(DeskBands) /\ Fd!Reached(score) \subseteq DOMAIN DeskBands
    BY DeskAssumption DEF Fd!Reached
  <2>2. \E i \in Fd!Reached(score) : \A j \in Fd!Reached(score) : j <= i
    <3>1. 0 \in Int /\ Len(DeskBands) \in Int
      BY <2>1
    <3> QED BY <1>2, <2>1, <3>1, GreatestExists
  <2> DEFINE last == CHOOSE i \in Fd!Reached(score) : \A j \in Fd!Reached(score) : j <= i
  <2>3. last \in 1..Len(DeskBands)
    BY <2>1, <2>2, DeskAssumption
  <2>4. Fd!ActionFor(score) = DeskBands[last].action
    BY <1>2 DEF Fd!ActionFor
  <2> HIDE DEF last
  <2>5. DeskBands[last] \in [lower : Nat, action : Fd!Action]
    <3> DEFINE Band == [lower : Nat, action : Fd!Action]
    <3>1. DeskBands \in Seq(Band)
      BY DeskAssumption
    <3> HIDE DEF Band
    <3>2. DeskBands[last] \in Band
      BY <2>3, <3>1
    <3> QED BY <3>2 DEF Band
  <2> QED BY <2>4, <2>5
<1> QED BY <1>1, <1>2

\* Closing a case disposes of that case and of no other.
LEMMA CloseChanges ==
    ASSUME DeskInv, NEW c, NEW code \in DeskCode, NEW who \in DeskAnalyst \cup {Fd!Nobody}, Fd!Close(c, code, who)
    PROVE  /\ c \in DOMAIN queue /\ ~queue[c].closed /\ DOMAIN queue' = DOMAIN queue
           /\ \A d \in DOMAIN queue : d # c => queue'[d] = queue[d]
           /\ queue'[c] \in [application : DeskApplication, action : Fd!Action, score : Nat,
                             signal : DeskSignal, closed : BOOLEAN,
                             disposition : Fd!DispositionOutcome \cup {Fd!Undisposed},
                             analyst : DeskAnalyst \cup {Fd!Nobody}]
           /\ queue'[c].closed /\ queue'[c].disposition \in Fd!DispositionOutcome
           /\ queue'[c].analyst = who /\ who # Fd!Nobody
           /\ queue'[c].application = queue[c].application /\ queue'[c].action = queue[c].action
           /\ deskTaxonomy' = deskTaxonomy
<1>1. deskTaxonomy.codes[code] \in Fd!DispositionOutcome
  <2>1. PICK known \in SUBSET DeskCode : deskTaxonomy.codes \in [known -> Fd!DispositionOutcome]
    BY DEF DeskInv, DeskTypes
  <2> QED BY <2>1 DEF Fd!Close
<1>2. PICK old : old = queue[c]
  OBVIOUS
<1>3. /\ c \in DOMAIN queue /\ deskTaxonomy' = deskTaxonomy /\ who # Fd!Nobody /\ ~old.closed
      /\ old \in [application : DeskApplication, action : Fd!Action, score : Nat,
                  signal : DeskSignal, closed : BOOLEAN,
                  disposition : Fd!DispositionOutcome \cup {Fd!Undisposed}, analyst : DeskAnalyst \cup {Fd!Nobody}]
  BY <1>2 DEF Fd!Close, DeskInv, DeskTypes
<1>4. PICK new : new = [old EXCEPT !.disposition = deskTaxonomy.codes[code], !.closed = TRUE, !.analyst = who]
  OBVIOUS
<1>5. queue' = [queue EXCEPT ![c] = new]
  BY <1>2, <1>4 DEF Fd!Close
<1>6. /\ DOMAIN queue' = DOMAIN queue /\ queue'[c] = new
      /\ \A d \in DOMAIN queue : d # c => queue'[d] = queue[d]
  BY <1>3, <1>5
<1>7. /\ new \in [application : DeskApplication, action : Fd!Action, score : Nat,
                  signal : DeskSignal, closed : BOOLEAN,
                  disposition : Fd!DispositionOutcome \cup {Fd!Undisposed}, analyst : DeskAnalyst \cup {Fd!Nobody}]
      /\ new.closed /\ new.disposition \in Fd!DispositionOutcome /\ new.analyst = who
      /\ new.application = old.application /\ new.action = old.action
  BY <1>1, <1>3, <1>4
<1> QED BY <1>2, <1>3, <1>6, <1>7

LEMMA CloseKeeps ==
    ASSUME DeskInv, NEW c \in DeskCase, NEW code \in DeskCode, NEW who \in DeskAnalyst \cup {Fd!Nobody},
           Fd!Close(c, code, who)
    PROVE  DeskInv' /\ Fd!LabelKept
<1>1. /\ c \in DOMAIN queue /\ ~queue[c].closed /\ DOMAIN queue' = DOMAIN queue
      /\ \A d \in DOMAIN queue : d # c => queue'[d] = queue[d]
      /\ queue'[c] \in [application : DeskApplication, action : Fd!Action, score : Nat,
                        signal : DeskSignal, closed : BOOLEAN,
                        disposition : Fd!DispositionOutcome \cup {Fd!Undisposed},
                        analyst : DeskAnalyst \cup {Fd!Nobody}]
      /\ queue'[c].closed /\ queue'[c].disposition \in Fd!DispositionOutcome
      /\ queue'[c].analyst = who /\ who # Fd!Nobody
      /\ queue'[c].application = queue[c].application /\ queue'[c].action = queue[c].action
      /\ deskTaxonomy' = deskTaxonomy
  BY CloseChanges
<1>2. DeskTypes'
  BY <1>1 DEF DeskInv, DeskTypes
<1>3. Fd!TypeOK'
  BY <1>1 DEF DeskInv, Fd!TypeOK
<1>4. Fd!ClosedIsDisposed'
  BY <1>1 DEF DeskInv, Fd!ClosedIsDisposed, Fd!DispositionOutcome, Fd!Undisposed
<1>5. Fd!LabelKept
  BY <1>1 DEF DeskInv, Fd!ClosedIsDisposed, Fd!LabelKept, Fd!TrainingCases, Fd!TrainingLabel
<1> QED BY <1>2, <1>3, <1>4, <1>5 DEF DeskInv

LEMMA OpenCaseKeeps ==
    ASSUME DeskInv, NEW c \in DeskCase, NEW a \in DeskApplication, NEW s \in 0..DeskTopScore,
           NEW g \in DeskSignal, Fd!OpenCase(c, a, s, g)
    PROVE  DeskInv' /\ Fd!LabelKept
<1> DEFINE new == [application |-> a, action |-> Fd!ActionFor(s), score |-> s, signal |-> g,
                   closed |-> FALSE, disposition |-> Fd!Undisposed, analyst |-> Fd!Nobody]
<1>1. /\ c \notin DOMAIN queue /\ DOMAIN queue' = DOMAIN queue \cup {c} /\ queue'[c] = new
      /\ \A d \in DOMAIN queue : queue'[d] = queue[d]
      /\ deskTaxonomy' = deskTaxonomy
  BY DEF Fd!OpenCase
<1>2. Fd!ActionFor(s) \in Fd!Action \ {"pass"} /\ s \in Nat
  BY RoutedAction, DeskAssumption DEF Fd!OpenCase
<1>3. /\ new \in [application : DeskApplication, action : Fd!Action, score : Nat,
                  signal : DeskSignal, closed : BOOLEAN,
                  disposition : Fd!DispositionOutcome \cup {Fd!Undisposed}, analyst : DeskAnalyst \cup {Fd!Nobody}]
      /\ ~new.closed /\ new.disposition = Fd!Undisposed /\ new.analyst = Fd!Nobody
      /\ new.application \in DeskApplication /\ new.action \in Fd!Action \ {"pass"}
  BY <1>2
<1> HIDE DEF new
<1>4. IsFiniteSet(DOMAIN queue')
  BY <1>1, FS_AddElement DEF DeskInv, DeskTypes
<1>5. DeskTypes'
  BY <1>1, <1>3, <1>4 DEF DeskInv, DeskTypes
<1>6. Fd!TypeOK'
  BY <1>1, <1>3 DEF DeskInv, Fd!TypeOK
<1>7. Fd!ClosedIsDisposed'
  BY <1>1, <1>3 DEF DeskInv, Fd!ClosedIsDisposed
<1>8. Fd!LabelKept
  BY <1>1 DEF Fd!LabelKept, Fd!TrainingCases, Fd!TrainingLabel
<1> QED BY <1>5, <1>6, <1>7, <1>8 DEF DeskInv

LEMMA DeskStays == DeskInv /\ [Fd!Next]_deskVars => DeskInv' /\ [Fd!LabelKept]_deskVars
<1> SUFFICES ASSUME DeskInv, [Fd!Next]_deskVars PROVE DeskInv' /\ [Fd!LabelKept]_deskVars
  OBVIOUS
<1>1. CASE UNCHANGED deskVars
  BY <1>1 DEF deskVars, DeskInv, DeskTypes, Fd!TypeOK, Fd!ClosedIsDisposed
<1> QED BY <1>1, CloseKeeps, OpenCaseKeeps DEF Fd!Next

LEMMA InitDesk == Fd!Init => DeskInv
<1> SUFFICES ASSUME Fd!Init PROVE DeskInv
  OBVIOUS
<1>1. DOMAIN queue = {} /\ IsFiniteSet(DOMAIN queue)
  BY FS_EmptySet DEF Fd!Init
<1>2. DeskTypes
  BY <1>1 DEF Fd!Init, DeskTypes
<1> QED BY <1>1, <1>2 DEF DeskInv, Fd!TypeOK, Fd!ClosedIsDisposed

\* The cases of a condition, counted over two groups that share no signal.
LEMMA GroupsAdd ==
    ASSUME NEW S, IsFiniteSet(S), NEW A, NEW B, NEW C, A = B \cup C, B \cap C = {}, A \subseteq S
    PROVE  Cardinality(A) = Cardinality(B) + Cardinality(C)
<1>1. IsFiniteSet(B) /\ IsFiniteSet(C)
  BY FS_Subset
<1>2. Cardinality(B) \in Nat /\ Cardinality(C) \in Nat /\ Cardinality({}) = 0
  BY <1>1, FS_CardinalityType, FS_EmptySet
<1>3. Cardinality(B \cup C) = Cardinality(B) + Cardinality(C) - Cardinality(B \cap C)
  BY <1>1, FS_Union
<1>4. Cardinality(B \cap C) = 0 /\ Cardinality(A) = Cardinality(B \cup C)
  BY <1>2
<1> QED BY <1>2, <1>3, <1>4

LEMMA DeskInvSound == DeskInv => Fd!DeskSound
<1> SUFFICES ASSUME DeskInv PROVE Fd!FiguresAddUp
  BY DEF DeskInv, Fd!DeskSound
<1>1. IsFiniteSet(Fd!Closed)
  BY FS_Subset DEF DeskInv, DeskTypes, Fd!Closed
<1>2. ASSUME NEW A \in SUBSET DeskSignal, NEW B \in SUBSET DeskSignal, A \cap B = {}
      PROVE  /\ Fd!Precision(A \cup B).total = Fd!Precision(A).total + Fd!Precision(B).total
             /\ Fd!Precision(A \cup B).confirmed = Fd!Precision(A).confirmed + Fd!Precision(B).confirmed
  <2> DEFINE Confirmed(signals) == {c \in Fd!ClosedOf(signals) : queue[c].disposition = "confirmed_fraud"}
  <2>1. /\ Fd!ClosedOf(A \cup B) = Fd!ClosedOf(A) \cup Fd!ClosedOf(B) /\ Fd!ClosedOf(A) \cap Fd!ClosedOf(B) = {}
        /\ Fd!ClosedOf(A \cup B) \subseteq Fd!Closed
    BY <1>2 DEF Fd!ClosedOf
  <2>2. /\ Confirmed(A \cup B) = Confirmed(A) \cup Confirmed(B) /\ Confirmed(A) \cap Confirmed(B) = {}
        /\ Confirmed(A \cup B) \subseteq Fd!Closed
    BY <2>1
  <2>3. \A G : /\ Fd!Precision(G).total = Cardinality(Fd!ClosedOf(G))
               /\ Fd!Precision(G).confirmed = Cardinality(Confirmed(G))
    BY Counts DEF Fd!Precision
  <2> HIDE DEF Confirmed
  <2>4. Cardinality(Fd!ClosedOf(A \cup B)) = Cardinality(Fd!ClosedOf(A)) + Cardinality(Fd!ClosedOf(B))
    <3> DEFINE both == Fd!ClosedOf(A \cup B)
               one == Fd!ClosedOf(A)
               other == Fd!ClosedOf(B)
    <3>1. both = one \cup other /\ one \cap other = {} /\ both \subseteq Fd!Closed
      BY <2>1
    <3> HIDE DEF both, one, other
    <3>2. Cardinality(both) = Cardinality(one) + Cardinality(other)
      BY <1>1, <3>1, GroupsAdd
    <3> QED BY <3>2 DEF both, one, other
  <2>5. Cardinality(Confirmed(A \cup B)) = Cardinality(Confirmed(A)) + Cardinality(Confirmed(B))
    <3> DEFINE both == Confirmed(A \cup B)
               one == Confirmed(A)
               other == Confirmed(B)
    <3>1. both = one \cup other /\ one \cap other = {} /\ both \subseteq Fd!Closed
      BY <2>2
    <3> HIDE DEF both, one, other
    <3>2. Cardinality(both) = Cardinality(one) + Cardinality(other)
      BY <1>1, <3>1, GroupsAdd
    <3> QED BY <3>2 DEF both, one, other
  <2> QED BY <2>3, <2>4, <2>5
<1>3. Fd!ClosedOf(DeskSignal) = Fd!Closed
  BY DEF Fd!ClosedOf, Fd!Closed, DeskInv, DeskTypes
<1>4. Fd!Precision(DeskSignal).total = Fd!Completeness[1]
  BY <1>3 DEF Fd!Precision, Fd!Completeness
<1>5. Fd!TrainingCases \subseteq Fd!Closed
  BY DEF Fd!TrainingCases, Fd!Closed, DeskInv, Fd!ClosedIsDisposed
<1>6. ASSUME deskTaxonomy.ratified
      PROVE  Fd!Precision(DeskSignal).confirmed = Cardinality({c \in Fd!TrainingCases : Fd!TrainingLabel(c) = 1})
  <2>1. {c \in Fd!TrainingCases : Fd!TrainingLabel(c) = 1}
          = {c \in Fd!Closed : queue[c].disposition = "confirmed_fraud"}
    BY <1>6 DEF Fd!TrainingCases, Fd!TrainingLabel, Fd!Closed, DeskInv, Fd!ClosedIsDisposed, Fd!Undisposed
  <2> QED BY Counts, <1>3, <2>1 DEF Fd!Precision
<1> QED BY Counts, <1>2, <1>4, <1>5, <1>6 DEF Fd!FiguresAddUp

LEMMA LabelsStay == DeskInv /\ Fd!Next => Fd!LabelKept
BY CloseKeeps, OpenCaseKeeps DEF Fd!Next

-----------------------------------------------------------------------------
(* The identity spine.                                                     *)

SpineRecord ==
    [customers : UNION {[S -> Sp!Customer] : S \in SUBSET Sp!Source}, application : BOOLEAN]
SpineAudit ==
    [loans_in_cbs : Nat, collections_cases : Nat, collections_cases_resolved : Nat,
     loans_with_application : Nat, loans_with_customer_evidence : Nat,
     loans_with_consistent_customer : Nat, unusable : Nat, orphans : Nat,
     missing : Nat, disagreements : Nat]

\* The rows at which a loan of a set is read.
At(s, loans) == {i \in DOMAIN s : s[i].loan \in loans}

SpineTypes ==
    /\ reading \in Sp!Source \cup {"done"}
    /\ spineRows \in [Sp!Source -> Seq(Sp!Row)]
    /\ DOMAIN spine \subseteq SpineLoanKey /\ IsFiniteSet(DOMAIN spine)
    /\ \A l \in DOMAIN spine : spine[l] \in SpineRecord
    /\ audit \in SpineAudit

\* An extract is read when the one before it has been.
ReadInOrder ==
    /\ reading = "cbs" => spineRows["los"] = <<>>
    /\ reading \in {"cbs", "los"} => spineRows["collections"] = <<>>

\* The spine holds the active loans, and with each what los said of it.
SpineFollowsRows ==
    /\ DOMAIN spine = Sp!ActiveLoans
    /\ \A l \in DOMAIN spine :
          spine[l].application <=> \E r \in Sp!Rows("los") : r.loan = l /\ r.application
    /\ audit.loans_in_cbs >= Cardinality(DOMAIN spine)
    /\ audit.loans_in_cbs # 0 => DOMAIN spine # {}

CasesInv ==
    /\ audit.collections_cases_resolved = Cardinality(At(spineRows["collections"], DOMAIN spine))
    /\ audit.collections_cases =
          audit.collections_cases_resolved + audit.orphans
          + Cardinality(At(spineRows["collections"], {Absent}))

ConcludedInv ==
    reading = "done" =>
        LET joined == {l \in DOMAIN spine : spine[l].application} IN
        /\ audit.loans_with_application = Cardinality(joined)
        /\ audit.missing = Cardinality(DOMAIN spine \ joined)

SpineInv == SpineTypes /\ ReadInOrder /\ SpineFollowsRows /\ CasesInv /\ ConcludedInv

LEMMA AtAppend ==
    ASSUME NEW s \in Seq(Sp!Row), NEW r \in Sp!Row, NEW loans
    PROVE  /\ IsFiniteSet(At(s, loans)) /\ Cardinality(At(s, loans)) \in Nat
           /\ Cardinality(At(Append(s, r), loans)) =
                Cardinality(At(s, loans)) + (IF r.loan \in loans THEN 1 ELSE 0)
<1> DEFINE n == Len(s)
           t == Append(s, r)
<1>1. /\ n \in Nat /\ DOMAIN s = 1..n /\ DOMAIN t = 1..(n + 1)
      /\ t[n + 1] = r /\ \A i \in 1..n : t[i] = s[i]
  OBVIOUS
<1> HIDE DEF n, t
<1>2. IsFiniteSet(At(s, loans))
  <2>1. IsFiniteSet(1..n) /\ At(s, loans) \subseteq 1..n
    BY <1>1, FS_Interval DEF At
  <2> QED BY <2>1, FS_Subset
<1>3. Cardinality(At(s, loans)) \in Nat
  BY <1>2, FS_CardinalityType
<1>4. CASE r.loan \in loans
  <2>1. At(t, loans) = At(s, loans) \cup {n + 1} /\ n + 1 \notin At(s, loans)
    BY <1>1, <1>4 DEF At
  <2> QED BY <1>2, <1>3, <1>4, <2>1, FS_AddElement DEF t
<1>5. CASE r.loan \notin loans
  <2>1. At(t, loans) = At(s, loans)
    BY <1>1, <1>5 DEF At
  <2> QED BY <1>2, <1>3, <1>5, <2>1 DEF t
<1> QED BY <1>2, <1>3, <1>4, <1>5

\* Keeping a row adds it to the rows of its source.
LEMMA KeepAdds ==
    ASSUME SpineTypes, NEW source \in Sp!Source, NEW r \in Sp!Row, Sp!Keep(source, r)
    PROVE  /\ spineRows' \in [Sp!Source -> Seq(Sp!Row)]
           /\ spineRows'[source] = Append(spineRows[source], r)
           /\ \A s \in Sp!Source : s # source => spineRows'[s] = spineRows[s]
           /\ Sp!Rows(source)' = Sp!Rows(source) \cup {r}
           /\ \A s \in Sp!Source : s # source => Sp!Rows(s)' = Sp!Rows(s)
           /\ reading = source /\ reading' = reading
<1>1. /\ spineRows \in [Sp!Source -> Seq(Sp!Row)] /\ spineRows' = [spineRows EXCEPT ![source] = Append(spineRows[source], r)]
      /\ reading = source /\ reading' = reading
  BY DEF SpineTypes, Sp!Keep
<1>2. spineRows'[source] = Append(spineRows[source], r) /\ \A s \in Sp!Source : s # source => spineRows'[s] = spineRows[s]
  BY <1>1
<1>3. Sp!Rows(source)' = Sp!Rows(source) \cup {r}
  <2> DEFINE s == spineRows[source]
  <2>1. s \in Seq(Sp!Row)
    BY <1>1
  <2>2. /\ Len(s) \in Nat /\ DOMAIN s = 1..Len(s) /\ DOMAIN Append(s, r) = 1..(Len(s) + 1)
        /\ Append(s, r)[Len(s) + 1] = r /\ \A i \in 1..Len(s) : Append(s, r)[i] = s[i]
    BY <2>1
  <2>3. Sp!Rows(source)' = {Append(s, r)[i] : i \in 1..(Len(s) + 1)}
    BY <1>2, <2>2 DEF Sp!Rows
  <2>4. Sp!Rows(source) = {s[i] : i \in 1..Len(s)}
    BY <2>2 DEF Sp!Rows
  <2> HIDE DEF s
  <2> QED BY <2>2, <2>3, <2>4
<1>4. \A s \in Sp!Source : s # source => Sp!Rows(s)' = Sp!Rows(s)
  BY <1>2 DEF Sp!Rows
<1>5. spineRows' \in [Sp!Source -> Seq(Sp!Row)]
  BY <1>1
<1> QED BY <1>1, <1>2, <1>3, <1>4, <1>5

LEMMA CustomersTyped ==
    ASSUME NEW record \in SpineRecord, NEW source \in Sp!Source, NEW customer \in Sp!Customer
    PROVE  /\ Sp!WithCustomer(record, source, customer) \in SpineRecord
           /\ Sp!WithCustomer(record, source, customer).application = record.application
<1> DEFINE named == [s \in DOMAIN record.customers \cup {source} |->
                       IF s = source THEN customer ELSE record.customers[s]]
<1>1. PICK S \in SUBSET Sp!Source : record.customers \in [S -> Sp!Customer]
  BY DEF SpineRecord
<1>2. named \in [S \cup {source} -> Sp!Customer] /\ S \cup {source} \in SUBSET Sp!Source
  BY <1>1
<1>3. [record EXCEPT !.customers = named] \in SpineRecord
  <2>1. named \in UNION {[T -> Sp!Customer] : T \in SUBSET Sp!Source}
    BY <1>2
  <2> HIDE DEF named
  <2> QED BY <2>1 DEF SpineRecord
<1>4. Sp!WithCustomer(record, source, customer)
        = IF customer = Absent THEN record ELSE [record EXCEPT !.customers = named]
  BY DEF Sp!WithCustomer
<1>5. [record EXCEPT !.customers = named].application = record.application
  BY DEF SpineRecord
<1> HIDE DEF named
<1> QED BY <1>3, <1>4, <1>5

\* Putting a loan adds it to the spine, and leaves the others.
LEMMA PutTyped ==
    ASSUME SpineTypes, NEW loan \in SpineLoanKey, NEW record \in SpineRecord, Sp!Put(loan, record)
    PROVE  /\ DOMAIN spine' = DOMAIN spine \cup {loan}
           /\ spine'[loan] = record
           /\ \A l \in DOMAIN spine : l # loan => spine'[l] = spine[l]
           /\ \A l \in DOMAIN spine' : spine'[l] \in SpineRecord
           /\ DOMAIN spine' \subseteq SpineLoanKey /\ IsFiniteSet(DOMAIN spine')
<1>1. IsFiniteSet(DOMAIN spine \cup {loan})
  BY FS_AddElement DEF SpineTypes
<1> QED BY <1>1 DEF SpineTypes, Sp!Put

\* Before a case is read there is none to account for.
LEMMA NoCasesLater ==
    ASSUME At(spineRows["collections"], DOMAIN spine)' = {}, At(spineRows["collections"], {Absent})' = {},
           audit' \in SpineAudit, audit'.collections_cases_resolved = 0,
           audit'.collections_cases = audit'.orphans
    PROVE  CasesInv'
<1>1. /\ Cardinality(At(spineRows["collections"], DOMAIN spine))' = 0
      /\ Cardinality(At(spineRows["collections"], {Absent}))' = 0
  BY FS_EmptySet
<1>2. audit'.orphans \in Nat
  BY DEF SpineAudit
<1> QED BY <1>1, <1>2 DEF CasesInv

LEMMA ReadCbsKeeps == ASSUME SpineInv, NEW r \in Sp!RowsOf("cbs"), Sp!ReadCbs(r) PROVE SpineInv'
<1>1. /\ SpineTypes /\ r \in Sp!Row /\ r.loan \in Sp!Loan /\ r.customer \in Sp!Customer /\ r.active \in BOOLEAN
      /\ spineRows["los"] = <<>> /\ spineRows["collections"] = <<>>
  BY DEF SpineInv, Sp!RowsOf, Sp!Row, Sp!ReadCbs, Sp!Keep, ReadInOrder
<1>2. /\ spineRows' \in [Sp!Source -> Seq(Sp!Row)]
      /\ spineRows'["los"] = <<>> /\ spineRows'["collections"] = <<>>
      /\ Sp!Rows("cbs")' = Sp!Rows("cbs") \cup {r} /\ Sp!Rows("los")' = Sp!Rows("los")
      /\ reading = "cbs" /\ reading' = "cbs"
  <2>1. Sp!Keep("cbs", r) /\ "cbs" \in Sp!Source /\ "los" \in Sp!Source /\ "collections" \in Sp!Source
    BY DEF Sp!ReadCbs, Sp!Source
  <2> QED BY <1>1, <2>1, KeepAdds
<1>3. Sp!Rows("los") = {} /\ Sp!Rows("los")' = {}
  BY <1>1, <1>2 DEF Sp!Rows
<1>4. Sp!ActiveLoans' = (Sp!ActiveLoans \cup (IF r.active THEN {r.loan} ELSE {})) \ {Absent}
  BY <1>2 DEF Sp!ActiveLoans
<1>5. /\ \A loans : At(<<>>, loans) = {} /\ Cardinality(At(<<>>, loans)) = 0
      /\ At(spineRows["collections"], DOMAIN spine)' = {} /\ At(spineRows["collections"], {Absent})' = {}
  BY <1>2, FS_EmptySet DEF At
<1>6. /\ audit.collections_cases_resolved = 0 /\ audit.collections_cases = audit.orphans
      /\ audit \in SpineAudit
  BY <1>1, <1>5 DEF SpineInv, CasesInv, SpineTypes, SpineAudit
<1>7. ReadInOrder'
  BY <1>2 DEF ReadInOrder
<1>8. ConcludedInv'
  BY <1>2 DEF ConcludedInv
<1>9. CASE ~r.active \/ r.loan = Absent
  <2>1. spine' = spine /\ audit' \in SpineAudit
        /\ audit'.loans_in_cbs = audit.loans_in_cbs /\ audit'.orphans = audit.orphans
        /\ audit'.collections_cases = audit.collections_cases
        /\ audit'.collections_cases_resolved = audit.collections_cases_resolved
    BY <1>6, <1>9 DEF Sp!ReadCbs, SpineAudit
  <2>2. Sp!ActiveLoans' = Sp!ActiveLoans
    BY <1>4, <1>9 DEF Sp!ActiveLoans
  <2>3. SpineTypes'
    BY <1>1, <1>2, <2>1 DEF SpineTypes, Sp!Source
  <2>4. SpineFollowsRows'
    BY <1>3, <2>1, <2>2 DEF SpineInv, SpineFollowsRows
  <2>5. CasesInv'
    BY <1>5, <1>6, <2>1, NoCasesLater
  <2> QED BY <1>7, <1>8, <2>3, <2>4, <2>5 DEF SpineInv
<1>10. CASE r.active /\ r.loan # Absent
  <2> DEFINE record == IF r.loan \in DOMAIN spine THEN spine[r.loan]
                       ELSE [customers |-> Sp!NoCustomers, application |-> FALSE]
             joined == Sp!WithCustomer(record, "cbs", r.customer)
  <2>1. /\ audit' = [audit EXCEPT !.loans_in_cbs = @ + 1] /\ Sp!Put(r.loan, joined) /\ r.loan \in SpineLoanKey
    BY <1>1, <1>10 DEF Sp!ReadCbs, Sp!Loan
  <2>2. record \in SpineRecord
    <3>1. Sp!NoCustomers \in [{} -> Sp!Customer]
      BY DEF Sp!NoCustomers
    <3> QED BY <1>1, <3>1 DEF SpineTypes, SpineRecord
  <2>3. r.loan \in DOMAIN spine => record.application = FALSE
    BY <1>3 DEF SpineInv, SpineFollowsRows, SpineTypes, SpineRecord
  <2>4. record.application = FALSE
    BY <2>3
  <2> HIDE DEF record
  <2>5. joined \in SpineRecord /\ joined.application = FALSE
    BY <1>1, <2>2, <2>4, CustomersTyped DEF Sp!Source
  <2> HIDE DEF joined
  <2>6. /\ DOMAIN spine' = DOMAIN spine \cup {r.loan} /\ spine'[r.loan] = joined
        /\ \A l \in DOMAIN spine : l # r.loan => spine'[l] = spine[l]
        /\ \A l \in DOMAIN spine' : spine'[l] \in SpineRecord
        /\ DOMAIN spine' \subseteq SpineLoanKey /\ IsFiniteSet(DOMAIN spine')
    BY <1>1, <2>1, <2>5, PutTyped
  <2>7. /\ audit' \in SpineAudit /\ audit'.loans_in_cbs = audit.loans_in_cbs + 1
        /\ audit'.collections_cases = audit.collections_cases /\ audit'.orphans = audit.orphans
        /\ audit'.collections_cases_resolved = audit.collections_cases_resolved
        /\ audit.loans_in_cbs \in Nat
    BY <1>6, <2>1 DEF SpineAudit
  <2>8. SpineTypes'
    BY <1>2, <2>6, <2>7 DEF SpineTypes, Sp!Source
  <2>9. DOMAIN spine' = Sp!ActiveLoans'
    <3>1. DOMAIN spine = Sp!ActiveLoans /\ Absent \notin DOMAIN spine
      BY <1>1, SpineAssumption DEF SpineInv, SpineFollowsRows, SpineTypes
    <3>2. Sp!ActiveLoans' = (Sp!ActiveLoans \cup {r.loan}) \ {Absent}
      BY <1>4, <1>10
    <3> QED BY <1>10, <2>6, <3>1, <3>2
  <2>10. Cardinality(DOMAIN spine') <= Cardinality(DOMAIN spine) + 1
    <3>1. /\ Cardinality(DOMAIN spine) \in Nat
          /\ Cardinality(DOMAIN spine \cup {r.loan})
               = IF r.loan \in DOMAIN spine THEN Cardinality(DOMAIN spine) ELSE Cardinality(DOMAIN spine) + 1
      BY <1>1, FS_AddElement, FS_CardinalityType DEF SpineTypes
    <3> QED BY <3>1, <2>6
  <2>11. SpineFollowsRows'
    <3>1. \A l \in DOMAIN spine' : spine'[l].application = FALSE
      BY <1>3, <2>5, <2>6 DEF SpineInv, SpineFollowsRows, SpineTypes, SpineRecord
    <3>2. /\ Cardinality(DOMAIN spine) \in Nat /\ Cardinality(DOMAIN spine') \in Nat
          /\ audit.loans_in_cbs >= Cardinality(DOMAIN spine)
      BY <1>1, <2>6, FS_CardinalityType DEF SpineInv, SpineFollowsRows, SpineTypes
    <3>3. audit'.loans_in_cbs >= Cardinality(DOMAIN spine')
      BY <2>7, <2>10, <3>2
    <3> QED BY <1>3, <2>6, <2>9, <3>1, <3>3 DEF SpineFollowsRows
  <2>12. CasesInv'
    BY <1>5, <1>6, <2>7, NoCasesLater
  <2> QED BY <1>7, <1>8, <2>8, <2>11, <2>12 DEF SpineInv
<1> QED BY <1>1, <1>9, <1>10

LEMMA ReadLosKeeps == ASSUME SpineInv, NEW r \in Sp!RowsOf("los"), Sp!ReadLos(r) PROVE SpineInv'
<1>1. /\ SpineTypes /\ r \in Sp!Row /\ r.loan \in Sp!Loan /\ r.customer \in Sp!Customer /\ r.application \in BOOLEAN
      /\ spineRows["collections"] = <<>> /\ audit' = audit
  BY DEF SpineInv, Sp!RowsOf, Sp!Row, Sp!ReadLos, Sp!Keep, ReadInOrder
<1>2. /\ spineRows' \in [Sp!Source -> Seq(Sp!Row)] /\ spineRows'["collections"] = <<>>
      /\ Sp!Rows("los")' = Sp!Rows("los") \cup {r} /\ Sp!Rows("cbs")' = Sp!Rows("cbs")
      /\ reading = "los" /\ reading' = "los"
  <2>1. Sp!Keep("los", r) /\ "cbs" \in Sp!Source /\ "los" \in Sp!Source /\ "collections" \in Sp!Source
    BY DEF Sp!ReadLos, Sp!Source
  <2> QED BY <1>1, <2>1, KeepAdds
<1>3. Sp!ActiveLoans' = Sp!ActiveLoans
  BY <1>2 DEF Sp!ActiveLoans
<1>4. ReadInOrder' /\ ConcludedInv'
  BY <1>2 DEF ReadInOrder, ConcludedInv
<1>5. /\ DOMAIN spine' = DOMAIN spine /\ \A l \in DOMAIN spine : spine'[l] \in SpineRecord
      /\ \A l \in DOMAIN spine : spine'[l].application <=> spine[l].application \/ (l = r.loan /\ r.application)
  <2>1. CASE r.loan \notin DOMAIN spine
    BY <1>1, <2>1 DEF Sp!ReadLos, SpineTypes
  <2>2. CASE r.loan \in DOMAIN spine
    <3> DEFINE record == Sp!WithCustomer(spine[r.loan], "los", r.customer)
               joined == [record EXCEPT !.application = @ \/ r.application]
    <3>1. Sp!Put(r.loan, joined) /\ r.loan \in SpineLoanKey /\ spine[r.loan] \in SpineRecord
      BY <1>1, <2>2 DEF Sp!ReadLos, SpineTypes
    <3>2. record \in SpineRecord /\ record.application = spine[r.loan].application
      BY <1>1, <3>1, CustomersTyped DEF Sp!Source
    <3> HIDE DEF record
    <3>3. joined \in SpineRecord /\ (joined.application <=> record.application \/ r.application)
      BY <1>1, <3>2 DEF SpineRecord
    <3> HIDE DEF joined
    <3>4. /\ DOMAIN spine' = DOMAIN spine \cup {r.loan} /\ spine'[r.loan] = joined
          /\ \A l \in DOMAIN spine : l # r.loan => spine'[l] = spine[l]
          /\ \A l \in DOMAIN spine' : spine'[l] \in SpineRecord
      BY <1>1, <3>1, <3>3, PutTyped
    <3> QED BY <2>2, <3>2, <3>3, <3>4
  <2> QED BY <2>1, <2>2
<1>6. SpineTypes'
  BY <1>1, <1>2, <1>5 DEF SpineTypes, Sp!Source
<1>7. SpineFollowsRows'
  BY <1>1, <1>2, <1>3, <1>5 DEF SpineInv, SpineFollowsRows
<1>8. CasesInv'
  BY <1>1, <1>2, <1>5 DEF SpineInv, CasesInv
<1> QED BY <1>4, <1>6, <1>7, <1>8 DEF SpineInv

LEMMA ReadCollectionsKeeps ==
    ASSUME SpineInv, NEW r \in Sp!RowsOf("collections"), Sp!ReadCollections(r) PROVE SpineInv'
<1>1. SpineTypes /\ r \in Sp!Row /\ r.loan \in Sp!Loan /\ r.customer \in Sp!Customer
  BY DEF SpineInv, Sp!RowsOf, Sp!Row
<1>2. /\ spineRows' \in [Sp!Source -> Seq(Sp!Row)]
      /\ spineRows'["collections"] = Append(spineRows["collections"], r) /\ spineRows["collections"] \in Seq(Sp!Row)
      /\ Sp!Rows("los")' = Sp!Rows("los") /\ Sp!Rows("cbs")' = Sp!Rows("cbs")
      /\ reading = "collections" /\ reading' = "collections"
  <2>1. Sp!Keep("collections", r) /\ "cbs" \in Sp!Source /\ "los" \in Sp!Source /\ "collections" \in Sp!Source
    BY DEF Sp!ReadCollections, Sp!Source
  <2> QED BY <1>1, <2>1, KeepAdds DEF SpineTypes
<1>3. Sp!ActiveLoans' = Sp!ActiveLoans
  BY <1>2 DEF Sp!ActiveLoans
<1>4. ReadInOrder' /\ ConcludedInv'
  BY <1>2 DEF ReadInOrder, ConcludedInv
<1>5. /\ DOMAIN spine' = DOMAIN spine /\ \A l \in DOMAIN spine : spine'[l] \in SpineRecord
      /\ \A l \in DOMAIN spine : spine'[l].application = spine[l].application
  <2>1. CASE r.loan = Absent \/ r.loan \notin DOMAIN spine
    BY <1>1, <2>1 DEF Sp!ReadCollections, SpineTypes
  <2>2. CASE r.loan \in DOMAIN spine /\ r.loan # Absent
    <3> DEFINE record == Sp!WithCustomer(spine[r.loan], "collections", r.customer)
    <3>1. Sp!Put(r.loan, record) /\ r.loan \in SpineLoanKey /\ spine[r.loan] \in SpineRecord
      BY <1>1, <2>2 DEF Sp!ReadCollections, SpineTypes
    <3>2. record \in SpineRecord /\ record.application = spine[r.loan].application
      BY <1>1, <3>1, CustomersTyped DEF Sp!Source
    <3> HIDE DEF record
    <3> QED BY <1>1, <2>2, <3>1, <3>2, PutTyped
  <2> QED BY <2>1, <2>2
<1>6. /\ audit' \in SpineAudit /\ audit'.loans_in_cbs = audit.loans_in_cbs
      /\ audit'.collections_cases = audit.collections_cases + 1
      /\ audit'.collections_cases_resolved = audit.collections_cases_resolved
           + (IF r.loan \in DOMAIN spine THEN 1 ELSE 0)
      /\ audit'.orphans = audit.orphans + (IF r.loan \notin DOMAIN spine \cup {Absent} THEN 1 ELSE 0)
  <2>1. Absent \notin DOMAIN spine /\ audit \in SpineAudit
    BY <1>1, SpineAssumption DEF SpineTypes
  <2> DEFINE a == [audit EXCEPT !.collections_cases = @ + 1]
  <2>2. /\ a \in SpineAudit /\ a.loans_in_cbs = audit.loans_in_cbs
        /\ a.collections_cases = audit.collections_cases + 1
        /\ a.collections_cases_resolved = audit.collections_cases_resolved
        /\ a.orphans = audit.orphans
    BY <2>1 DEF SpineAudit
  <2>3. IF r.loan = Absent THEN audit' = [a EXCEPT !.unusable = @ + 1]
        ELSE IF r.loan \notin DOMAIN spine THEN audit' = [a EXCEPT !.orphans = @ + 1]
        ELSE audit' = [a EXCEPT !.collections_cases_resolved = @ + 1]
    BY DEF Sp!ReadCollections
  <2> HIDE DEF a
  <2>4. CASE r.loan = Absent
    BY <2>1, <2>2, <2>3, <2>4 DEF SpineAudit
  <2>5. CASE r.loan # Absent /\ r.loan \notin DOMAIN spine
    BY <2>1, <2>2, <2>3, <2>5 DEF SpineAudit
  <2>6. CASE r.loan # Absent /\ r.loan \in DOMAIN spine
    BY <2>1, <2>2, <2>3, <2>6 DEF SpineAudit
  <2> QED BY <2>4, <2>5, <2>6
<1>7. SpineTypes'
  BY <1>1, <1>2, <1>5, <1>6 DEF SpineTypes, Sp!Source
<1>8. SpineFollowsRows'
  BY <1>2, <1>3, <1>5, <1>6 DEF SpineInv, SpineFollowsRows
<1>9. CasesInv'
  <2> DEFINE s == spineRows["collections"]
             t == spineRows'["collections"]
  <2>1. /\ Cardinality(At(s, DOMAIN spine)) \in Nat /\ Cardinality(At(s, {Absent})) \in Nat
        /\ Cardinality(At(t, DOMAIN spine)) =
             Cardinality(At(s, DOMAIN spine)) + (IF r.loan \in DOMAIN spine THEN 1 ELSE 0)
        /\ Cardinality(At(t, {Absent})) =
             Cardinality(At(s, {Absent})) + (IF r.loan \in {Absent} THEN 1 ELSE 0)
    BY <1>1, <1>2, AtAppend
  <2>2. /\ audit.collections_cases_resolved = Cardinality(At(s, DOMAIN spine))
        /\ audit.collections_cases = audit.collections_cases_resolved + audit.orphans
                                       + Cardinality(At(s, {Absent}))
        /\ audit.orphans \in Nat
    BY <1>1 DEF SpineInv, CasesInv, SpineTypes, SpineAudit
  <2>3. Absent \notin DOMAIN spine
    BY <1>1, SpineAssumption DEF SpineTypes
  <2> HIDE DEF s, t
  <2>4. /\ audit'.collections_cases_resolved = Cardinality(At(t, DOMAIN spine))
        /\ audit'.collections_cases = audit'.collections_cases_resolved + audit'.orphans
                                       + Cardinality(At(t, {Absent}))
    BY <1>6, <2>1, <2>2, <2>3
  <2>5. At(t, DOMAIN spine) = At(spineRows["collections"], DOMAIN spine)' /\ At(t, {Absent}) = At(spineRows["collections"], {Absent})'
    BY <1>5 DEF At, t
  <2> QED BY <2>4, <2>5 DEF CasesInv
<1> QED BY <1>4, <1>7, <1>8, <1>9 DEF SpineInv

\* A step that reads no row leaves what follows the rows.
LEMMA SameRows ==
    ASSUME SpineInv, spineRows' = spineRows, spine' = spine,
           audit'.loans_in_cbs = audit.loans_in_cbs,
           audit'.collections_cases = audit.collections_cases, audit'.orphans = audit.orphans,
           audit'.collections_cases_resolved = audit.collections_cases_resolved
    PROVE  SpineFollowsRows' /\ CasesInv'
<1>1. Sp!ActiveLoans' = Sp!ActiveLoans /\ Sp!Rows("los")' = Sp!Rows("los")
  BY DEF Sp!ActiveLoans, Sp!Rows
<1>2. SpineFollowsRows'
  BY <1>1 DEF SpineInv, SpineFollowsRows
<1>3. /\ At(spineRows["collections"], DOMAIN spine)' = At(spineRows["collections"], DOMAIN spine)
      /\ At(spineRows["collections"], {Absent})' = At(spineRows["collections"], {Absent})
  BY DEF At
<1>4. CasesInv'
  BY <1>3 DEF SpineInv, CasesInv
<1> QED BY <1>2, <1>4

LEMMA ConcludeKeeps == ASSUME SpineInv, Sp!Conclude PROVE SpineInv'
<1>1. /\ spineRows' = spineRows /\ spine' = spine /\ reading' = "done" /\ SpineTypes
      /\ audit' = [audit EXCEPT
            !.loans_with_application = Cardinality({l \in DOMAIN spine : spine[l].application}),
            !.missing = Cardinality(DOMAIN spine \ {l \in DOMAIN spine : spine[l].application}),
            !.loans_with_customer_evidence = Cardinality({l \in DOMAIN spine : Sp!Evidenced(l)}),
            !.loans_with_consistent_customer =
                Cardinality({l \in {k \in DOMAIN spine : Sp!Evidenced(k)} : Sp!Consistent(l)}),
            !.disagreements = Cardinality({l \in DOMAIN spine : Sp!Evidenced(l)} \
                {l \in {k \in DOMAIN spine : Sp!Evidenced(k)} : Sp!Consistent(l)})]
  BY Counts DEF Sp!Conclude, SpineInv
<1>2. \A S \in SUBSET DOMAIN spine : Cardinality(S) \in Nat
  BY <1>1, FS_Subset, FS_CardinalityType DEF SpineTypes
<1>3. /\ audit' \in SpineAudit /\ audit'.loans_in_cbs = audit.loans_in_cbs
      /\ audit'.collections_cases = audit.collections_cases /\ audit'.orphans = audit.orphans
      /\ audit'.collections_cases_resolved = audit.collections_cases_resolved
      /\ audit'.loans_with_application = Cardinality({l \in DOMAIN spine : spine[l].application})
      /\ audit'.missing = Cardinality(DOMAIN spine \ {l \in DOMAIN spine : spine[l].application})
  <2> DEFINE a == Cardinality({l \in DOMAIN spine : spine[l].application})
             b == Cardinality(DOMAIN spine \ {l \in DOMAIN spine : spine[l].application})
             c == Cardinality({l \in DOMAIN spine : Sp!Evidenced(l)})
             d == Cardinality({l \in {k \in DOMAIN spine : Sp!Evidenced(k)} : Sp!Consistent(l)})
             e == Cardinality({l \in DOMAIN spine : Sp!Evidenced(l)} \
                    {l \in {k \in DOMAIN spine : Sp!Evidenced(k)} : Sp!Consistent(l)})
  <2>1. a \in Nat /\ b \in Nat /\ c \in Nat /\ d \in Nat /\ e \in Nat
    BY <1>2
  <2>2. audit' = [audit EXCEPT !.loans_with_application = a, !.missing = b,
                    !.loans_with_customer_evidence = c, !.loans_with_consistent_customer = d,
                    !.disagreements = e]
    BY <1>1
  <2>3. audit \in SpineAudit
    BY <1>1 DEF SpineTypes
  <2> HIDE DEF a, b, c, d, e
  <2>4. /\ audit' \in SpineAudit /\ audit'.loans_in_cbs = audit.loans_in_cbs
        /\ audit'.collections_cases = audit.collections_cases /\ audit'.orphans = audit.orphans
        /\ audit'.collections_cases_resolved = audit.collections_cases_resolved
        /\ audit'.loans_with_application = a /\ audit'.missing = b
    BY <2>1, <2>2, <2>3 DEF SpineAudit
  <2> QED BY <2>4 DEF a, b
<1>4. SpineTypes' /\ ReadInOrder'
  BY <1>1, <1>3 DEF SpineTypes, ReadInOrder, SpineInv
<1>5. SpineFollowsRows' /\ CasesInv'
  BY <1>1, <1>3, SameRows
<1>6. ConcludedInv'
  BY <1>1, <1>3 DEF ConcludedInv
<1> QED BY <1>4, <1>5, <1>6 DEF SpineInv

LEMMA SpineStays == SpineInv /\ [Sp!Next]_spineVars => SpineInv'
<1> SUFFICES ASSUME SpineInv, [Sp!Next]_spineVars PROVE SpineInv'
  OBVIOUS
<1>1. CASE Sp!NextExtract
  <2>1. /\ spineRows' = spineRows /\ spine' = spine /\ audit' = audit
        /\ reading' = IF reading = "cbs" THEN "los" ELSE "collections"
        /\ reading \in {"cbs", "los"}
    BY <1>1 DEF Sp!NextExtract
  <2>2. SpineTypes' /\ ReadInOrder' /\ ConcludedInv'
    BY <2>1 DEF SpineInv, SpineTypes, ReadInOrder, ConcludedInv, Sp!Source
  <2> QED BY <2>1, <2>2, SameRows DEF SpineInv, SpineTypes
<1>2. CASE UNCHANGED spineVars
  <2>1. /\ spineRows' = spineRows /\ spine' = spine /\ audit' = audit /\ reading' = reading
    BY <1>2 DEF spineVars
  <2>2. SpineTypes' /\ ReadInOrder' /\ ConcludedInv'
    BY <2>1 DEF SpineInv, SpineTypes, ReadInOrder, ConcludedInv
  <2> QED BY <2>1, <2>2, SameRows DEF SpineInv, SpineTypes
<1> QED BY <1>1, <1>2, ReadCbsKeeps, ReadLosKeeps, ReadCollectionsKeeps, ConcludeKeeps DEF Sp!Next

LEMMA InitSpine == Sp!Init => SpineInv
<1> SUFFICES ASSUME Sp!Init PROVE SpineInv
  OBVIOUS
<1>1. /\ DOMAIN spine = {} /\ reading = "cbs" /\ \A s \in Sp!Source : spineRows[s] = <<>>
      /\ spineRows \in [Sp!Source -> Seq(Sp!Row)]
  BY DEF Sp!Init
<1>2. /\ audit \in SpineAudit /\ audit.loans_in_cbs = 0 /\ audit.collections_cases = 0
      /\ audit.collections_cases_resolved = 0 /\ audit.orphans = 0
  BY DEF Sp!Init, Sp!EmptyAudit, SpineAudit
<1>3. SpineTypes /\ ReadInOrder /\ ConcludedInv
  BY <1>1, <1>2, FS_EmptySet DEF SpineTypes, ReadInOrder, ConcludedInv, Sp!Source
<1>4. Sp!ActiveLoans = {}
  BY <1>1 DEF Sp!ActiveLoans, Sp!Rows, Sp!Source
<1>5. SpineFollowsRows
  BY <1>1, <1>2, <1>4, FS_EmptySet DEF SpineFollowsRows
<1>6. \A loans : Cardinality(At(spineRows["collections"], loans)) = 0
  <2>1. spineRows["collections"] = <<>> /\ DOMAIN <<>> = {}
    BY <1>1 DEF Sp!Source
  <2>2. \A loans : At(spineRows["collections"], loans) = {}
    BY <2>1 DEF At
  <2> QED BY <2>2, FS_EmptySet
<1> QED BY <1>2, <1>3, <1>5, <1>6 DEF SpineInv, CasesInv

LEMMA SpineInvSound == SpineInv => Sp!SpineSound
<1> SUFFICES ASSUME SpineInv PROVE Sp!SpineSound
  OBVIOUS
<1> DEFINE joined == {l \in DOMAIN spine : spine[l].application}
<1>1. /\ IsFiniteSet(DOMAIN spine) /\ IsFiniteSet(joined) /\ IsFiniteSet(DOMAIN spine \ joined)
      /\ DOMAIN spine = Sp!ActiveLoans
  BY FS_Subset DEF SpineInv, SpineTypes, SpineFollowsRows
<1>2. Cardinality(DOMAIN spine) = Cardinality(joined) + Cardinality(DOMAIN spine \ joined)
  <2>1. /\ Cardinality(joined \cup (DOMAIN spine \ joined))
             = Cardinality(joined) + Cardinality(DOMAIN spine \ joined)
                 - Cardinality(joined \cap (DOMAIN spine \ joined))
    BY <1>1, FS_Union
  <2>2. joined \cup (DOMAIN spine \ joined) = DOMAIN spine /\ joined \cap (DOMAIN spine \ joined) = {}
    OBVIOUS
  <2>3. Cardinality(joined) \in Nat /\ Cardinality(DOMAIN spine \ joined) \in Nat
    BY <1>1, FS_CardinalityType
  <2> HIDE DEF joined
  <2> QED BY <2>1, <2>2, <2>3, FS_EmptySet
<1>3. Sp!TypeOK
  <2>1. \A l \in DOMAIN spine : DOMAIN spine[l].customers \subseteq Sp!Source /\ spine[l].application \in BOOLEAN
    BY DEF SpineInv, SpineTypes, SpineRecord
  <2> QED BY <2>1 DEF Sp!TypeOK, SpineInv, SpineTypes
<1>4. Sp!CountsFollowRows
  <2>1. joined = {l \in Sp!ActiveLoans : \E r \in Sp!Rows("los") : r.loan = l /\ r.application}
    BY DEF SpineInv, SpineFollowsRows
  <2> QED BY Counts, <1>1, <2>1 DEF SpineInv, ConcludedInv, CasesInv, Sp!CountsFollowRows, At
<1>5. Sp!EveryFailureHasACause
  <2>1. At(spineRows["collections"], {Absent})
          = {i \in DOMAIN spineRows["collections"] : spineRows["collections"][i].loan = Absent}
    BY DEF At
  <2> QED BY Counts, <1>2, <2>1 DEF SpineInv, ConcludedInv, CasesInv, Sp!EveryFailureHasACause
<1>6. Sp!GateMeansJoined
  <2> SUFFICES ASSUME reading = "done", Sp!GateMet
               PROVE  Sp!ActiveLoans # {} /\ audit.missing * 1000 <= 5 * Cardinality(Sp!ActiveLoans)
    BY Counts DEF Sp!GateMeansJoined
  <2> DEFINE c == Cardinality(DOMAIN spine)
             a == Cardinality(joined)
             b == Cardinality(DOMAIN spine \ joined)
             n == audit.loans_in_cbs
  <2>1. n # 0 /\ 1000 * a >= 995 * n /\ audit.missing = b
    BY DEF Sp!GateMet, Sp!Met, SpineInv, ConcludedInv
  <2>2. c \in Nat /\ a \in Nat /\ b \in Nat /\ c = a + b
    BY <1>1, <1>2, FS_CardinalityType
  <2>3. n \in Nat /\ n >= c /\ DOMAIN spine # {}
    BY <2>1 DEF SpineInv, SpineFollowsRows, SpineTypes, SpineAudit
  <2> HIDE DEF a, b, c, n
  <2>4. b * 1000 <= 5 * c
    BY <2>1, <2>2, <2>3
  <2> QED BY <1>1, <2>1, <2>3, <2>4 DEF c
<1> QED BY <1>3, <1>4, <1>5, <1>6 DEF Sp!SpineSound

-----------------------------------------------------------------------------
(* Offers.                                                                 *)

\* Every feasible set holds offers that were assessed and keep the caps.
SetsAreFeasible ==
    \A a \in DOMAIN OffersApplicant : sets[a] # Absent =>
        /\ ~Of!Retail(a) => sets[a].flow \in OffersFlow
        /\ \A o \in sets[a].offers :
              /\ o \in PricedOffer /\ Of!Assessable(a, o, sets[a].flow)
              /\ Of!Feasible(a, o, sets[a].flow)

\* The rate in force comes from a table and a loss, which are those on record.
QuoteInv ==
    rate # Absent =>
        /\ quote.table \in OffersAlmTable /\ quote.el \in OffersExpectedLoss
        /\ rate = Of!OfferableRate(quote.table, quote.el)

\* A decision is a feasible offer at a quoted rate, with the propensity of its choice.
DecisionsStand ==
    \A d \in decisions :
        /\ d.applicant \in DOMAIN OffersApplicant
        /\ d.offer \in PricedOffer /\ Of!Assessable(d.applicant, d.offer, d.flow)
        /\ ~Of!Retail(d.applicant) => d.flow \in OffersFlow
        /\ Of!Feasible(d.applicant, d.offer, d.flow)
        /\ d.quote.table \in OffersAlmTable /\ d.quote.el \in OffersExpectedLoss
        /\ Of!OfferableRate(d.quote.table, d.quote.el) # Absent
        /\ d.arm \in DOMAIN OffersTemplate
        /\ d.offer = Of!ToOffer(d.arm, Of!OfferableRate(d.quote.table, d.quote.el))
        /\ d.arm \in d.considered /\ Cardinality(d.considered) \in Nat
        /\ d.propensity = <<1, IF d.exploration THEN Cardinality(d.considered) ELSE 1>>

OffersInv ==
    /\ DOMAIN flow = DOMAIN OffersApplicant
    /\ \A a \in DOMAIN OffersApplicant : flow[a] \in OffersFlow
    /\ QuoteInv
    /\ rate = Absent \/ rate \in PricedRate
    /\ DOMAIN sets = DOMAIN OffersApplicant
    /\ SetsAreFeasible
    /\ DecisionsStand

\* A floor of at least one that the flow keeps is a flow that covers the debt.
LEMMA FloorCovers ==
    ASSUME NEW debt \in Int, NEW paid \in Int, NEW p \in Nat, NEW q \in Nat,
           debt >= 0, q >= 1, p >= q, p * debt <= paid * q
    PROVE  debt <= paid
<1>1. q * debt <= p * debt
  OBVIOUS
<1> SUFFICES ASSUME paid + 1 <= debt PROVE FALSE
  OBVIOUS
<1>2. q * (paid + 1) <= q * debt
  OBVIOUS
<1> QED BY <1>1, <1>2

LEMMA ChoiceKeeps ==
    ASSUME OffersInv, NEW a \in DOMAIN OffersApplicant, Of!Select(a) \/ Of!Explore(a)
    PROVE  OffersInv'
<1>1. PICK t \in Of!Available(a), explored \in BOOLEAN, n \in {1, Cardinality(Of!Available(a))} :
          /\ Of!Log(Of!Decision(a, t, Of!Available(a), <<1, n>>, explored))
          /\ n = IF explored THEN Cardinality(Of!Available(a)) ELSE 1
  BY Counts DEF Of!Select, Of!Explore
<1> DEFINE new == Of!Decision(a, t, Of!Available(a), <<1, n>>, explored)
<1>2. /\ decisions' = decisions \union {new} /\ rate' = rate /\ sets' = sets
      /\ flow' = flow /\ quote' = quote
      /\ rate # Absent /\ sets[a] # Absent
  BY <1>1 DEF Of!Log, Of!Select, Of!Explore, Of!Ask
<1>3. Of!ToOffer(t, rate) \in sets[a].offers /\ t \in DOMAIN OffersTemplate
  BY DEF Of!Available
<1>4. Cardinality(Of!Available(a)) \in Nat
  <2>1. Of!Available(a) \subseteq DOMAIN OffersTemplate
    BY DEF Of!Available
  <2> QED BY <2>1, OffersAssumption, FS_Subset, FS_CardinalityType
<1>5. /\ new.applicant = a /\ new.offer = Of!ToOffer(t, rate) /\ new.arm = t
      /\ new.considered = Of!Available(a) /\ new.propensity = <<1, n>> /\ new.exploration = explored
      /\ new.flow = sets[a].flow /\ new.quote = quote
  BY DEF Of!Decision
<1> HIDE DEF new
<1>6. DecisionsStand'
  <2> SUFFICES ASSUME NEW d \in decisions'
               PROVE  /\ d.applicant \in DOMAIN OffersApplicant
                      /\ d.offer \in PricedOffer /\ Of!Assessable(d.applicant, d.offer, d.flow)
                      /\ ~Of!Retail(d.applicant) => d.flow \in OffersFlow
                      /\ Of!Feasible(d.applicant, d.offer, d.flow)
                      /\ d.quote.table \in OffersAlmTable /\ d.quote.el \in OffersExpectedLoss
                      /\ Of!OfferableRate(d.quote.table, d.quote.el) # Absent
                      /\ d.arm \in DOMAIN OffersTemplate
                      /\ d.offer = Of!ToOffer(d.arm, Of!OfferableRate(d.quote.table, d.quote.el))
                      /\ d.arm \in d.considered /\ Cardinality(d.considered) \in Nat
                      /\ d.propensity = <<1, IF d.exploration THEN Cardinality(d.considered) ELSE 1>>
    BY DEF DecisionsStand
  <2>1. CASE d \in decisions
    BY <2>1 DEF OffersInv, DecisionsStand
  <2>2. CASE d = new
    <3>1. rate = Of!OfferableRate(quote.table, quote.el) /\ quote.table \in OffersAlmTable
          /\ quote.el \in OffersExpectedLoss
      BY <1>2 DEF OffersInv, QuoteInv
    <3>2. /\ Of!ToOffer(t, rate) \in PricedOffer
          /\ Of!Assessable(a, Of!ToOffer(t, rate), sets[a].flow)
          /\ Of!Feasible(a, Of!ToOffer(t, rate), sets[a].flow)
          /\ ~Of!Retail(a) => sets[a].flow \in OffersFlow
      BY <1>2, <1>3 DEF OffersInv, SetsAreFeasible
    <3>3. /\ d.arm \in d.considered /\ Cardinality(d.considered) \in Nat
          /\ d.propensity = <<1, IF d.exploration THEN Cardinality(d.considered) ELSE 1>>
      BY <1>1, <1>4, <1>5, <2>2
    <3> QED BY <1>2, <1>3, <1>5, <2>2, <3>1, <3>2, <3>3
  <2> QED BY <1>2, <2>1, <2>2
<1> QED BY <1>2, <1>6 DEF OffersInv, SetsAreFeasible, QuoteInv

LEMMA BuildSetKeeps ==
    ASSUME OffersInv, NEW a \in DOMAIN OffersApplicant, NEW arms \in SUBSET DOMAIN OffersTemplate,
           Of!BuildSet(a, arms)
    PROVE  OffersInv'
<1> DEFINE f == flow[a]
           new == {o \in {Of!ToOffer(t, rate) : t \in arms} : Of!Feasible(a, o, f)}
           set == [flow |-> f, offers |-> new]
<1>1. /\ sets' = [sets EXCEPT ![a] = set] /\ rate' = rate /\ decisions' = decisions
      /\ flow' = flow /\ quote' = quote /\ f \in OffersFlow
      /\ rate \in PricedRate /\ \A t \in arms : Of!Assessable(a, Of!ToOffer(t, rate), f)
  BY DEF Of!BuildSet, OffersInv
<1>2. \A o \in new : o \in PricedOffer /\ Of!Assessable(a, o, f) /\ Of!Feasible(a, o, f)
  BY <1>1 DEF PricedOffer
<1>3. set.flow = f /\ set.offers = new
  OBVIOUS
<1> HIDE DEF new, set, f
<1>4. /\ DOMAIN sets' = DOMAIN OffersApplicant /\ sets'[a] = set
      /\ \A b \in DOMAIN OffersApplicant : b # a => sets'[b] = sets[b]
  BY <1>1 DEF OffersInv
<1>5. SetsAreFeasible'
  BY <1>1, <1>2, <1>3, <1>4 DEF OffersInv, SetsAreFeasible
<1>6. DecisionsStand'
  BY <1>1 DEF OffersInv, DecisionsStand
<1> QED BY <1>1, <1>4, <1>5, <1>6 DEF OffersInv, QuoteInv

LEMMA PriceKeeps ==
    ASSUME OffersInv, NEW t \in OffersAlmTable, NEW el \in OffersExpectedLoss, Of!Price(t, el) PROVE OffersInv'
<1>1. /\ sets' = sets /\ decisions' = decisions /\ flow' = flow
      /\ rate' = Of!OfferableRate(t, el) /\ quote'.table = t /\ quote'.el = el
  BY DEF Of!Price
<1>2. rate' = Absent \/ rate' \in PricedRate
  BY <1>1 DEF PricedRate
<1> QED BY <1>1, <1>2 DEF OffersInv, QuoteInv, SetsAreFeasible, DecisionsStand

LEMMA OffersStay == OffersInv /\ [Of!Next]_offersVars => OffersInv'
<1> SUFFICES ASSUME OffersInv, [Of!Next]_offersVars PROVE OffersInv'
  OBVIOUS
<1>1. ASSUME NEW a \in DOMAIN OffersApplicant, NEW s \in Of!Stages, Of!SetStage(a, s) PROVE OffersInv'
  BY <1>1 DEF Of!SetStage, OffersInv, QuoteInv, SetsAreFeasible, DecisionsStand
<1>2. ASSUME NEW d \in decisions, Of!Update(d) PROVE OffersInv'
  BY <1>2 DEF Of!Update, OffersInv, QuoteInv, SetsAreFeasible, DecisionsStand
<1>3. CASE UNCHANGED offersVars
  BY <1>3 DEF offersVars, OffersInv, QuoteInv, SetsAreFeasible, DecisionsStand
<1>4. ASSUME NEW a \in DOMAIN OffersApplicant, NEW f \in OffersFlow, Of!Reestimate(a, f) PROVE OffersInv'
  BY <1>4 DEF Of!Reestimate, OffersInv, QuoteInv, SetsAreFeasible, DecisionsStand
<1> QED BY <1>1, <1>2, <1>3, <1>4, ChoiceKeeps, BuildSetKeeps, PriceKeeps DEF Of!Next

LEMMA OffersInvSound == OffersInv => Of!OffersSound
<1> SUFFICES ASSUME OffersInv PROVE Of!OffersSound
  OBVIOUS
<1>1. Of!OffersKeepTheCaps
  BY DEF OffersInv, DecisionsStand, Of!OffersKeepTheCaps
<1>2. Of!PropensitiesAddUp
  <2> SUFFICES ASSUME NEW d \in decisions
               PROVE  /\ d.arm \in d.considered
                      /\ d.propensity[1] * (IF d.exploration THEN Cardinality(d.considered) ELSE 1)
                           = d.propensity[2]
    BY Counts DEF Of!PropensitiesAddUp
  <2> DEFINE n == IF d.exploration THEN Cardinality(d.considered) ELSE 1
  <2>1. d.arm \in d.considered /\ n \in Nat /\ d.propensity = <<1, n>>
    BY DEF OffersInv, DecisionsStand
  <2> HIDE DEF n
  <2>2. d.propensity[1] * n = d.propensity[2]
    BY <2>1
  <2> QED BY <2>1, <2>2 DEF n
<1>3. Of!AuditFindsWhatFell
  <2> SUFFICES ASSUME NEW d \in decisions, ~Of!Retail(d.applicant),
                      flow[d.applicant] # Absent, ~(flow[d.applicant] < d.flow)
               PROVE  Of!LE(<<12 * Of!Emi(d.offer)[1], Of!Emi(d.offer)[2]>>,
                            <<flow[d.applicant], 1>>)
    <3>1. ASSUME NEW x \in Of!Audit(decisions), x[2] = "stressed_affordability"
          PROVE  \E d \in decisions :
                    /\ x[1] = d /\ ~Of!Retail(d.applicant)
                    /\ flow[d.applicant] # Absent =>
                          ~Of!LE(<<12 * Of!Emi(d.offer)[1], Of!Emi(d.offer)[2]>>,
                                 <<flow[d.applicant], 1>>)
      <4> DEFINE Suppressed(d) == d.stage = "drought_flagged"
                 Burdened(d) ==
                    /\ ~Of!Retail(d.applicant)
                    /\ \/ flow[d.applicant] = Absent
                       \/ ~Of!LE(<<12 * Of!Emi(d.offer)[1], Of!Emi(d.offer)[2]>>,
                                 <<flow[d.applicant], 1>>)
                 Sales == {r \in decisions : Suppressed(r)}
                 Burdens == {r \in decisions : Burdened(r)}
      <4>1. Of!Audit(decisions) = {<<d, "drought_marketing_suppression">> : d \in Sales}
                                  \cup {<<d, "stressed_affordability">> : d \in Burdens}
        BY DEF Of!Audit
      <4> HIDE DEF Sales, Burdens
      <4>2. CASE x \in {<<d, "drought_marketing_suppression">> : d \in Sales}
        <5>1. PICK d \in Sales : x = <<d, "drought_marketing_suppression">>
          BY <4>2
        <5>2. x[2] = "drought_marketing_suppression"
          BY <5>1
        <5> QED BY <3>1, <5>2
      <4>3. CASE x \in {<<d, "stressed_affordability">> : d \in Burdens}
        <5>1. PICK d \in Burdens : x = <<d, "stressed_affordability">>
          BY <4>3
        <5>2. d \in decisions /\ Burdened(d) /\ x[1] = d
          BY <5>1 DEF Burdens
        <5> QED BY <5>2
      <4> QED BY <3>1, <4>1, <4>2, <4>3
    <3> QED BY <3>1 DEF Of!AuditFindsWhatFell
  <2> DEFINE a == d.applicant
             o == d.offer
             e == Of!Emi(o)
             c == OffersCaps[o.product]
             f == d.flow
             today == flow[a]
  <2>1. /\ a \in DOMAIN OffersApplicant /\ o \in PricedOffer
        /\ Of!Assessable(a, o, f) /\ Of!Feasible(a, o, f) /\ f \in OffersFlow
        /\ today \in OffersFlow
    BY DEF OffersInv, DecisionsStand
  <2>2. /\ f # Absent /\ f \in Int /\ today \in Int /\ f <= today
        /\ o.product \in DOMAIN OffersCaps /\ c.segment # "retail"
    BY <2>1, OffersAssumption DEF Of!Assessable, Of!Retail
  <2>3. /\ c.dscr \in Nat \X (Nat \ {0}) /\ c.dscr[1] >= c.dscr[2] /\ e \in Nat \X Nat
    BY <2>1, <2>2, OffersAssumption
  <2>4. Of!Affordability(a, o, c, f).satisfied
    BY <2>1 DEF Of!Feasible, Of!Constraints
  <2>5. Of!LE(c.dscr, <<f * e[2], 12 * e[1]>>)
    BY <2>4 DEF Of!Affordability, Of!Result
  <2> HIDE DEF a, o, e, c, f, today
  <2>6. c.dscr[1] * (12 * e[1]) <= (f * e[2]) * c.dscr[2]
    BY <2>5 DEF Of!LE
  <2>7. /\ c.dscr[1] \in Nat /\ c.dscr[2] \in Nat /\ c.dscr[2] >= 1
        /\ e[1] \in Nat /\ e[2] \in Nat
    BY <2>3
  <2>8. 12 * e[1] \in Int /\ 12 * e[1] >= 0 /\ f * e[2] \in Int /\ today * e[2] \in Int
    BY <2>2, <2>7
  <2>9. 12 * e[1] <= f * e[2]
    BY <2>3, <2>6, <2>7, <2>8, FloorCovers
  <2>10. f * e[2] <= today * e[2]
    BY <2>2, <2>7
  <2>11. Of!LE(<<12 * e[1], e[2]>>, <<today, 1>>)
    BY <2>8, <2>9, <2>10 DEF Of!LE
  <2> QED BY <2>11 DEF a, o, e, today
<1>4. Of!OffersKeepThePrice
  <2> SUFFICES ASSUME NEW d \in decisions
               PROVE  LET t == d.quote.table
                          offset == OffersTemplate[d.arm].offset
                      IN  /\ t.floor # Absent => d.offer.rate >= t.floor + offset
                          /\ t.ceiling # Absent => /\ d.offer.rate <= t.ceiling + offset
                                                  /\ t.base + d.quote.el <= t.ceiling
    BY DEF Of!OffersKeepThePrice
  <2> DEFINE t == d.quote.table
             el == d.quote.el
             r == Of!OfferableRate(t, el)
             offset == OffersTemplate[d.arm].offset
  <2>1. /\ t \in OffersAlmTable /\ el \in OffersExpectedLoss /\ r # Absent
        /\ d.arm \in DOMAIN OffersTemplate /\ d.offer = Of!ToOffer(d.arm, r)
    BY DEF OffersInv, DecisionsStand
  <2>2. d.offer.rate = r + offset
    BY <2>1 DEF Of!ToOffer
  <2>3. /\ t.base \in Int /\ el \in Int /\ offset \in Int
        /\ t.floor # Absent => t.floor \in Int
        /\ t.ceiling # Absent => t.ceiling \in Int
        /\ t.floor # Absent /\ t.ceiling # Absent => t.floor <= t.ceiling
    BY <2>1, OffersAssumption
  <2>4. r = IF t.ceiling # Absent /\ t.base + el > t.ceiling THEN Absent
            ELSE IF t.floor # Absent /\ t.base + el < t.floor THEN t.floor
            ELSE t.base + el
    BY DEF Of!OfferableRate
  <2> HIDE DEF t, el, r, offset
  <2>5. /\ t.floor # Absent => r >= t.floor
        /\ t.ceiling # Absent => r <= t.ceiling /\ t.base + el <= t.ceiling
        /\ r \in Int
    BY <2>1, <2>3, <2>4
  <2>6. /\ t.floor # Absent => r + offset >= t.floor + offset
        /\ t.ceiling # Absent => r + offset <= t.ceiling + offset
    BY <2>3, <2>5
  <2> QED BY <2>2, <2>5, <2>6 DEF t, el, offset
<1> QED BY <1>1, <1>2, <1>3, <1>4 DEF Of!OffersSound

LEMMA InitOffers == Of!Init => OffersInv
BY DEF Of!Init, OffersInv, QuoteInv, SetsAreFeasible, DecisionsStand

-----------------------------------------------------------------------------
(* The assistant.                                                          *)

CorpusInv ==
    /\ assistantToday \in Nat
    /\ corpus \subseteq AssistantDocument /\ IsFiniteSet(corpus)
    /\ \A d \in corpus : As!WellDated(d)

\* Nothing an answer rests on leaves the corpus.
SourcesStay == \A r \in served : r.sources \subseteq corpus

\* The limiter forgets no call of the current window.
LimiterInv ==
    /\ DOMAIN calls = AssistantSession /\ DOMAIN granted = AssistantSession
    /\ \A s \in AssistantSession :
          /\ IsFiniteSet(calls[s]) /\ IsFiniteSet(granted[s])
          /\ Cardinality(calls[s]) <= AssistantMaxCalls
          /\ \A c \in granted[s] :
                /\ c.at \in Nat /\ c.at <= assistantToday
                /\ assistantToday - c.at < AssistantWindowLength => c \in calls[s]

AssistantInv ==
    /\ CorpusInv /\ SourcesStay /\ LimiterInv
    /\ As!NumbersAreGrounded /\ As!WithinTheLimit /\ As!CallsAreDeclared

\* A step that leaves the answers, the tools' calls and the corpus.
LEMMA CheckKeeps == ASSUME AssistantInv, NEW s \in AssistantSession, As!Check(s) PROVE AssistantInv'
<1> DEFINE window == {t \in calls[s] : assistantToday - t.at < AssistantWindowLength}
           new == [at |-> assistantToday, n |-> Cardinality(granted[s])]
<1>1. /\ Cardinality(window) < AssistantMaxCalls
      /\ calls' = [calls EXCEPT ![s] = window \union {new}]
      /\ granted' = [granted EXCEPT ![s] = granted[s] \union {new}]
      /\ assistantToday' = assistantToday /\ corpus' = corpus /\ invoked' = invoked /\ served' = served
  BY Counts DEF As!Check
<1>2. new.at = assistantToday
  OBVIOUS
<1>3. IsFiniteSet(window) /\ Cardinality(window) \in Nat /\ window \subseteq calls[s]
  <2>1. window \subseteq calls[s] /\ IsFiniteSet(calls[s])
    BY DEF AssistantInv, LimiterInv
  <2> QED BY <2>1, FS_Subset, FS_CardinalityType
<1>4. \A c \in granted[s] : assistantToday - c.at < AssistantWindowLength => c \in window
  BY DEF AssistantInv, LimiterInv
<1>5. \A S : S \subseteq window \union {new} => Cardinality(S) <= AssistantMaxCalls
  <2> SUFFICES ASSUME NEW S, S \subseteq window \union {new} PROVE Cardinality(S) <= AssistantMaxCalls
    OBVIOUS
  <2>1. /\ IsFiniteSet(window \union {new})
        /\ Cardinality(window \union {new}) =
             IF new \in window THEN Cardinality(window) ELSE Cardinality(window) + 1
    BY <1>3, FS_AddElement
  <2>2. Cardinality(S) <= Cardinality(window \union {new}) /\ IsFiniteSet(S)
    BY <2>1, FS_Subset
  <2>3. Cardinality(S) \in Nat
    BY <2>2, FS_CardinalityType
  <2> HIDE DEF window, new
  <2> QED BY <1>1, <1>3, <2>1, <2>2, <2>3, AssistantAssumption
<1> HIDE DEF window, new
<1>6. /\ DOMAIN calls' = AssistantSession /\ DOMAIN granted' = AssistantSession
      /\ calls'[s] = window \union {new} /\ granted'[s] = granted[s] \union {new}
      /\ \A r \in AssistantSession : r # s => calls'[r] = calls[r] /\ granted'[r] = granted[r]
  BY <1>1 DEF AssistantInv, LimiterInv
<1>7. IsFiniteSet(window \union {new}) /\ IsFiniteSet(granted[s] \union {new})
  BY <1>3, FS_AddElement DEF AssistantInv, LimiterInv
<1>8. LimiterInv'
  <2> SUFFICES ASSUME NEW r \in AssistantSession
               PROVE  /\ IsFiniteSet(calls'[r]) /\ IsFiniteSet(granted'[r])
                      /\ Cardinality(calls'[r]) <= AssistantMaxCalls
                      /\ \A c \in granted'[r] :
                            /\ c.at \in Nat /\ c.at <= assistantToday'
                            /\ assistantToday' - c.at < AssistantWindowLength => c \in calls'[r]
    BY <1>6 DEF LimiterInv
  <2>1. CASE r # s
    BY <1>1, <1>6, <2>1 DEF AssistantInv, LimiterInv
  <2>2. CASE r = s
    <3>1. Cardinality(calls'[s]) <= AssistantMaxCalls
      BY <1>5, <1>6
    <3>2. \A c \in granted[s] \union {new} :
            /\ c.at \in Nat /\ c.at <= assistantToday
            /\ assistantToday - c.at < AssistantWindowLength => c \in window \union {new}
      BY <1>2, <1>4 DEF AssistantInv, LimiterInv, CorpusInv
    <3> QED BY <1>1, <1>6, <1>7, <2>2, <3>1, <3>2
  <2> QED BY <2>1, <2>2
<1>9. As!WithinTheLimit'
  <2> SUFFICES ASSUME NEW r \in AssistantSession, NEW c \in granted'[r]
               PROVE  Cardinality({d \in granted'[r] : d.at <= c.at /\ c.at - d.at < AssistantWindowLength})
                        <= AssistantMaxCalls
    BY Counts DEF As!WithinTheLimit
  <2> DEFINE counted == {d \in granted'[r] : d.at <= c.at /\ c.at - d.at < AssistantWindowLength}
  <2>1. CASE r # s
    BY Counts, <1>6, <2>1 DEF AssistantInv, As!WithinTheLimit
  <2>2. CASE r = s /\ c.at = assistantToday
    <3>1. counted \subseteq window \union {new}
      BY <1>4, <1>6, <2>2
    <3> QED BY <1>5, <3>1
  <2>3. CASE r = s /\ c.at # assistantToday
    <3>1. c \in granted[s] /\ c.at \in Nat /\ c.at < assistantToday /\ assistantToday \in Nat
      BY <1>2, <1>6, <2>3 DEF AssistantInv, LimiterInv, CorpusInv
    <3>2. counted = {d \in granted[s] : d.at <= c.at /\ c.at - d.at < AssistantWindowLength}
      BY <1>2, <1>6, <2>3, <3>1
    <3> QED BY Counts, <3>1, <3>2 DEF AssistantInv, As!WithinTheLimit
  <2> QED BY <2>1, <2>2, <2>3
<1>10. As!NumbersAreGrounded' /\ As!CallsAreDeclared' /\ CorpusInv' /\ SourcesStay'
  BY <1>1 DEF AssistantInv, As!NumbersAreGrounded, As!CallsAreDeclared, CorpusInv, SourcesStay
<1> QED BY <1>8, <1>9, <1>10 DEF AssistantInv

LEMMA AnswerKeeps ==
    ASSUME AssistantInv, NEW answer \in As!Answers, NEW supported \in SUBSET AssistantSentence,
           As!Answer(answer, supported)
    PROVE  AssistantInv'
<1> DEFINE keys == {As!Key(d) : d \in As!Effective(assistantToday)}
           text == As!Kept(answer, keys)
           rested == {d \in As!Effective(assistantToday) : \E i \in DOMAIN text : As!Key(d) \in text[i].cites}
           new == [day |-> assistantToday, text |-> text, sources |-> rested]
<1>1. /\ served' = served \union {new}
      /\ assistantToday' = assistantToday /\ corpus' = corpus /\ calls' = calls /\ granted' = granted
      /\ invoked' = invoked
  BY DEF As!Answer
<1>2. \A i \in DOMAIN text : text[i].numeric => As!Grounded(text[i], keys)
  BY DEF As!Kept
<1>3. new.day = assistantToday /\ new.text = text /\ new.sources = rested
  OBVIOUS
<1>4. rested \subseteq corpus
  BY DEF As!Effective
<1>5. \A i \in DOMAIN text : text[i].numeric =>
          \/ text[i].tools \cap DOMAIN AssistantTool # {}
          \/ \E d \in rested : As!Key(d) \in text[i].cites /\ As!IsEffectiveOn(d, assistantToday)
  <2> SUFFICES ASSUME NEW i \in DOMAIN text, text[i].numeric, text[i].tools \cap DOMAIN AssistantTool = {}
               PROVE  \E d \in rested : As!Key(d) \in text[i].cites /\ As!IsEffectiveOn(d, assistantToday)
    OBVIOUS
  <2>1. text[i].cites \cap keys # {}
    BY <1>2 DEF As!Grounded
  <2>2. PICK d \in As!Effective(assistantToday) : As!Key(d) \in text[i].cites
    BY <2>1
  <2> QED BY <2>2 DEF As!Effective
<1> HIDE DEF keys, text, rested, new
<1>6. As!NumbersAreGrounded'
  <2> SUFFICES ASSUME NEW r \in served', NEW i \in DOMAIN r.text, r.text[i].numeric
               PROVE  \/ r.text[i].tools \cap DOMAIN AssistantTool # {}
                      \/ \E d \in r.sources : As!Key(d) \in r.text[i].cites /\ As!IsEffectiveOn(d, r.day)
    BY DEF As!NumbersAreGrounded
  <2>1. CASE r \in served
    BY <2>1 DEF AssistantInv, As!NumbersAreGrounded
  <2>2. CASE r = new
    BY <1>3, <1>5, <2>2
  <2> QED BY <1>1, <2>1, <2>2
<1>7. SourcesStay'
  BY <1>1, <1>3, <1>4 DEF AssistantInv, SourcesStay
<1>8. CorpusInv' /\ LimiterInv' /\ As!WithinTheLimit' /\ As!CallsAreDeclared'
  BY <1>1 DEF AssistantInv, CorpusInv, LimiterInv, As!WithinTheLimit, As!CallsAreDeclared
<1> QED BY <1>6, <1>7, <1>8 DEF AssistantInv

LEMMA IngestKeeps == ASSUME AssistantInv, NEW d \in AssistantDocument, As!Ingest(d) PROVE AssistantInv'
<1>1. /\ corpus' = corpus \/ corpus' = corpus \union {d}
      /\ As!WellDated(d) /\ assistantToday' = assistantToday /\ calls' = calls /\ granted' = granted
      /\ invoked' = invoked /\ served' = served
  BY DEF As!Ingest
<1>2. CorpusInv' /\ SourcesStay'
  BY <1>1, FS_AddElement DEF AssistantInv, CorpusInv, SourcesStay, As!WellDated
<1>3. As!NumbersAreGrounded' /\ LimiterInv' /\ As!WithinTheLimit' /\ As!CallsAreDeclared'
  BY <1>1 DEF AssistantInv, As!NumbersAreGrounded, LimiterInv, As!WithinTheLimit, As!CallsAreDeclared
<1> QED BY <1>2, <1>3 DEF AssistantInv

LEMMA TickKeeps == ASSUME AssistantInv, As!Tick PROVE AssistantInv'
<1>1. /\ assistantToday' = assistantToday + 1 /\ assistantToday \in Nat /\ corpus' = corpus /\ calls' = calls
      /\ granted' = granted /\ invoked' = invoked /\ served' = served
  BY DEF As!Tick, AssistantInv, CorpusInv
<1>2. LimiterInv'
  BY <1>1, AssistantAssumption DEF AssistantInv, LimiterInv
<1>3. /\ CorpusInv' /\ SourcesStay' /\ As!NumbersAreGrounded' /\ As!WithinTheLimit' /\ As!CallsAreDeclared'
  BY <1>1 DEF AssistantInv, CorpusInv, SourcesStay, As!NumbersAreGrounded, As!WithinTheLimit, As!CallsAreDeclared
<1> QED BY <1>2, <1>3 DEF AssistantInv

LEMMA CallToolKeeps ==
    ASSUME AssistantInv, NEW t \in DOMAIN AssistantTool, NEW args \in SUBSET AssistantArgument, As!CallTool(t, args)
    PROVE  AssistantInv'
<1>1. /\ invoked' = invoked \union {<<t, args>>} /\ As!ArgumentsValid(t, args) /\ AssistantTool[t].bound
      /\ assistantToday' = assistantToday /\ corpus' = corpus /\ calls' = calls /\ granted' = granted
      /\ served' = served
  BY DEF As!CallTool
<1>2. As!CallsAreDeclared'
  BY <1>1 DEF AssistantInv, As!CallsAreDeclared, As!ArgumentsValid
<1>3. CorpusInv' /\ SourcesStay' /\ LimiterInv' /\ As!NumbersAreGrounded' /\ As!WithinTheLimit'
  BY <1>1 DEF AssistantInv, CorpusInv, SourcesStay, LimiterInv, As!NumbersAreGrounded, As!WithinTheLimit
<1> QED BY <1>2, <1>3 DEF AssistantInv

LEMMA AssistantStays == AssistantInv /\ [As!Next]_assistantVars => AssistantInv'
<1> SUFFICES ASSUME AssistantInv, [As!Next]_assistantVars PROVE AssistantInv'
  OBVIOUS
<1>1. CASE UNCHANGED assistantVars
  BY <1>1 DEF assistantVars, AssistantInv, CorpusInv, SourcesStay, LimiterInv, As!NumbersAreGrounded,
              As!WithinTheLimit, As!CallsAreDeclared
<1> QED BY <1>1, CheckKeeps, AnswerKeeps, IngestKeeps, TickKeeps, CallToolKeeps DEF As!Next

LEMMA InitAssistant == As!Init => AssistantInv
<1> SUFFICES ASSUME As!Init PROVE AssistantInv
  OBVIOUS
<1>1. CorpusInv /\ SourcesStay /\ As!NumbersAreGrounded /\ As!CallsAreDeclared
  BY FS_EmptySet DEF As!Init, CorpusInv, SourcesStay, As!NumbersAreGrounded, As!CallsAreDeclared
<1>2. LimiterInv /\ As!WithinTheLimit
  BY FS_EmptySet, AssistantAssumption DEF As!Init, LimiterInv, As!WithinTheLimit
<1> QED BY <1>1, <1>2 DEF AssistantInv

\* On a day a document is in force, expired or future.
LEMMA GovernanceCounts == ASSUME CorpusInv PROVE As!GovernanceAddsUp
<1> DEFINE E == As!Effective(assistantToday)
           X == As!Expired(assistantToday)
           N == As!NotYetEffective(assistantToday)
<1>1. \A d \in corpus : d.from \in Int /\ (d.to # Absent => d.to \in Int /\ d.to >= d.from)
  BY AssistantAssumption DEF CorpusInv, As!WellDated
<1>2. corpus = (E \union X) \union N
  BY <1>1 DEF CorpusInv, As!Effective, As!Expired, As!NotYetEffective, As!IsEffectiveOn
<1>3. E \cap X = {} /\ (E \union X) \cap N = {}
  BY <1>1 DEF CorpusInv, As!Effective, As!Expired, As!NotYetEffective, As!IsEffectiveOn
<1>4. E \subseteq corpus /\ X \subseteq corpus /\ N \subseteq corpus /\ IsFiniteSet(corpus)
  BY DEF CorpusInv, As!Effective, As!Expired, As!NotYetEffective
<1>5. UNION As!Conflicts(assistantToday) \subseteq E
  BY DEF As!Conflicts
<1> HIDE DEF E, X, N
<1>6. /\ IsFiniteSet(E) /\ IsFiniteSet(X) /\ IsFiniteSet(N) /\ IsFiniteSet(E \union X)
  BY <1>4, FS_Subset, FS_Union
<1>7. /\ Cardinality(E) \in Nat /\ Cardinality(X) \in Nat /\ Cardinality(N) \in Nat
      /\ Cardinality(E \union X) \in Nat /\ Cardinality({}) = 0
  BY <1>6, FS_CardinalityType, FS_EmptySet
<1>8. /\ Cardinality(E \union X) = Cardinality(E) + Cardinality(X) - Cardinality(E \cap X)
      /\ Cardinality((E \union X) \union N)
           = Cardinality(E \union X) + Cardinality(N) - Cardinality((E \union X) \cap N)
  BY <1>6, FS_Union
<1>9. Cardinality(E \cap X) = 0 /\ Cardinality((E \union X) \cap N) = 0
  BY <1>3, <1>7
<1>10. Cardinality(corpus) = Cardinality(E) + Cardinality(X) + Cardinality(N)
  BY <1>2, <1>7, <1>8, <1>9
<1> QED BY Counts, <1>3, <1>5, <1>10 DEF As!GovernanceAddsUp, E, X, N

LEMMA AssistantInvSound == AssistantInv => As!AssistantSound
<1> SUFFICES ASSUME AssistantInv PROVE As!AssistantSound
  OBVIOUS
<1>1. As!CitationsReproducible
  BY DEF AssistantInv, SourcesStay, As!CitationsReproducible
<1> QED BY <1>1, GovernanceCounts DEF AssistantInv, As!AssistantSound

-----------------------------------------------------------------------------
(* Conversations.                                                          *)

\* The reasons to be stated, and what was selected for them.
Stated == Cv!Front(Cv!MapReasons(conversationDecision), conversationExplanation.limit)
ExplanationInv ==
    IF conversationExplanation = Cv!None THEN conversationSaid = Cv!None
    ELSE /\ Stated \in Seq(Cv!Code)
         /\ ~conversationExplanation.given.escalate =>
               /\ DOMAIN conversationExplanation.given.selected = DOMAIN Stated
               /\ \A k \in DOMAIN Stated :
                     /\ conversationExplanation.given.selected[k].code = Stated[k]
                     /\ conversationExplanation.given.selected[k].language = conversationExplanation.language
         /\ conversationExplanation.complete /\ conversationDecision # <<>> =>
               ~conversationExplanation.given.escalate /\ Cv!Renderable(conversationExplanation.given)

ConversationInv ==
    /\ ExplanationInv /\ Cv!PrincipalReasonsOrNothing
    /\ Cv!TurnIsFenced /\ Cv!RedactionIsComplete
    /\ IsFiniteSet(conversationGolden) /\ Cv!HitRateIsOfTheSet

\* The front of a list of codes is one, and nothing only for nothing.
LEMMA FrontOfCodes ==
    ASSUME NEW s \in Seq(Cv!Code), NEW limit \in {Absent, 1}
    PROVE  Cv!Front(s, limit) \in Seq(Cv!Code) /\ (s # <<>> => Cv!Front(s, limit) # <<>>)
<1>1. CASE limit = Absent \/ limit >= Len(s)
  BY <1>1 DEF Cv!Front
<1>2. CASE limit = 1 /\ limit # Absent /\ ~(limit >= Len(s))
  <2>1. Cv!Front(s, limit) = SubSeq(s, 1, 1) /\ Len(s) \in Nat /\ Len(s) > 1
    BY <1>2 DEF Cv!Front
  <2>2. SubSeq(s, 1, 1) \in Seq(Cv!Code) /\ Len(SubSeq(s, 1, 1)) = 1
    BY <2>1
  <2> QED BY <2>1, <2>2
<1> QED BY <1>1, <1>2

LEMMA ReasonsAreCodes ==
    ASSUME NEW d \in Cv!DriverLists, Cv!Unmapped(d) = {}
    PROVE  Cv!MapReasons(d) \in Seq(Cv!Code) /\ (d # <<>> => Cv!MapReasons(d) # <<>>)
<1>1. PICK n \in 0..2 : d \in [1..n -> ConversationDriver]
  BY DEF Cv!DriverLists
<1>2. \A k \in 1..n : ConversationDictionary[d[k]] \in Cv!Code
  BY <1>1 DEF Cv!Unmapped, Cv!Code
<1>3. Cv!MapReasons(d) \in [1..n -> Cv!Code]
  BY <1>1, <1>2 DEF Cv!MapReasons
<1>4. n \in Nat /\ Cv!MapReasons(d) \in Seq(Cv!Code) /\ DOMAIN Cv!MapReasons(d) = 1..n
  BY <1>1, <1>3
<1>5. d # <<>> => n # 0
  <2>1. n = 0 => d \in Seq(ConversationDriver) /\ Len(d) = 0
    BY <1>1
  <2> QED BY <2>1
<1>6. n # 0 => Cv!MapReasons(d) # <<>>
  BY <1>4
<1> QED BY <1>4, <1>5, <1>6

LEMMA ExplainKeeps ==
    ASSUME ConversationInv, NEW d \in Cv!DriverLists, NEW l \in ConversationLanguage, NEW n \in {Absent, 1},
           Cv!Explain(d, l, n)
    PROVE  ConversationInv'
<1> DEFINE ordered == Cv!Front(Cv!MapReasons(d), n)
           g == Cv!ExplainDecision(Cv!MapReasons(d), l, n)
           new == [given |-> g, language |-> l, limit |-> n, complete |-> Cv!Complete(Cv!Code, l)]
<1>1. /\ conversationDecision' = d /\ conversationExplanation' = new /\ conversationExplanation = Cv!None /\ Cv!Unmapped(d) = {}
      /\ conversationLibrary' = conversationLibrary /\ conversationSaid' = conversationSaid /\ conversationVerdict' = conversationVerdict /\ conversationGolden' = conversationGolden
      /\ conversationEvaluation' = conversationEvaluation
  BY DEF Cv!Explain
<1>2. ordered \in Seq(Cv!Code) /\ (d # <<>> => ordered # <<>>)
  BY <1>1, ReasonsAreCodes, FrontOfCodes
<1>3. ~g.escalate =>
        /\ DOMAIN g.selected = DOMAIN ordered
        /\ \A k \in DOMAIN ordered :
              g.selected[k].code = ordered[k] /\ g.selected[k].language = l
  BY DEF Cv!ExplainDecision, Cv!Escalation
<1>4. Cv!Complete(Cv!Code, l) /\ d # <<>> => ~g.escalate /\ Cv!Renderable(g)
  <2> SUFFICES ASSUME Cv!Complete(Cv!Code, l), d # <<>> PROVE ~g.escalate /\ Cv!Renderable(g)
    OBVIOUS
  <2>1. \A k \in DOMAIN ordered :
           <<ordered[k], l>> \in DOMAIN conversationLibrary /\ conversationLibrary[<<ordered[k], l>>] = "ratified"
    <3>1. \A k \in DOMAIN ordered : ordered[k] \in Cv!Code
      BY <1>2
    <3> HIDE DEF ordered
    <3> QED BY <3>1 DEF Cv!Complete
  <2>2. g = [escalate |-> FALSE,
             selected |-> [k \in DOMAIN ordered |->
                 [code |-> ordered[k], language |-> l,
                  ratified |-> conversationLibrary[<<ordered[k], l>>] = "ratified"]]]
    BY <1>2, <2>1 DEF Cv!ExplainDecision
  <2>3. 1 \in DOMAIN ordered
    <3>1. Len(ordered) \in Nat /\ Len(ordered) # 0 /\ DOMAIN ordered = 1..Len(ordered)
      BY <1>2
    <3> QED BY <3>1
  <2> HIDE DEF g, ordered
  <2>4. 1 \in DOMAIN g.selected /\ ~g.escalate /\ \A k \in DOMAIN g.selected : g.selected[k].ratified
    BY <2>1, <2>2, <2>3
  <2> QED BY <2>4 DEF Cv!Renderable
<1>5. conversationSaid' = Cv!None
  BY <1>1 DEF ConversationInv, ExplanationInv
<1>6. /\ new.given = g /\ new.language = l /\ new.limit = n /\ new.complete = Cv!Complete(Cv!Code, l)
      /\ new # <<>>
  <2>1. "given" \in DOMAIN new /\ DOMAIN <<>> = {}
    OBVIOUS
  <2> QED BY <2>1
<1>7. Stated' = ordered
  BY <1>1, <1>6 DEF Stated, Cv!MapReasons
<1> HIDE DEF new, g, ordered
<1>8. Cv!Renderable(conversationExplanation.given)' = Cv!Renderable(g)
  BY <1>1, <1>6 DEF Cv!Renderable
<1>9. ExplanationInv'
  BY <1>1, <1>2, <1>3, <1>4, <1>6, <1>7, <1>8 DEF ExplanationInv, Cv!None
<1>10. Cv!PrincipalReasonsOrNothing'
  BY <1>5 DEF Cv!PrincipalReasonsOrNothing, Cv!None
<1>11. Cv!TurnIsFenced' /\ Cv!RedactionIsComplete' /\ IsFiniteSet(conversationGolden') /\ Cv!HitRateIsOfTheSet'
  BY <1>1 DEF ConversationInv, Cv!TurnIsFenced, Cv!RedactionIsComplete, Cv!HitRateIsOfTheSet, Cv!None
<1> QED BY <1>9, <1>10, <1>11 DEF ConversationInv

LEMMA RenderKeeps == ASSUME ConversationInv, Cv!Render PROVE ConversationInv'
<1>1. /\ conversationExplanation # Cv!None /\ ~conversationExplanation.given.escalate
      /\ conversationSaid' = [k \in DOMAIN conversationExplanation.given.selected |-> conversationExplanation.given.selected[k].code]
      /\ conversationDecision' = conversationDecision /\ conversationExplanation' = conversationExplanation /\ conversationVerdict' = conversationVerdict
      /\ conversationGolden' = conversationGolden /\ conversationEvaluation' = conversationEvaluation /\ conversationLibrary' = conversationLibrary
  BY DEF Cv!Render
<1>2. /\ Stated \in Seq(Cv!Code) /\ DOMAIN conversationExplanation.given.selected = DOMAIN Stated
      /\ \A k \in DOMAIN Stated : conversationExplanation.given.selected[k].code = Stated[k]
                                  /\ conversationExplanation.given.selected[k].language = conversationExplanation.language
  BY <1>1 DEF ConversationInv, ExplanationInv
<1>3. conversationSaid' = [k \in DOMAIN Stated |-> Stated[k]]
  BY <1>1, <1>2
<1>4. conversationSaid' = Stated
  BY <1>2, <1>3
<1>5. Cv!PrincipalReasonsOrNothing'
  <2>1. conversationSaid' = Cv!Front(Cv!MapReasons(conversationDecision), conversationExplanation.limit)'
    BY <1>1, <1>4 DEF Stated, Cv!MapReasons
  <2>2. \A k \in DOMAIN conversationSaid' : conversationExplanation.given.selected[k].language = conversationExplanation.language
    BY <1>2, <1>4
  <2> QED BY <1>1, <2>1, <2>2 DEF Cv!PrincipalReasonsOrNothing
<1>6. ExplanationInv'
  <2>1. Stated' = Stated
    BY <1>1 DEF Stated, Cv!MapReasons
  <2> QED BY <1>1, <2>1 DEF ConversationInv, ExplanationInv, Cv!Renderable, Cv!None
<1>7. Cv!TurnIsFenced' /\ Cv!RedactionIsComplete' /\ IsFiniteSet(conversationGolden') /\ Cv!HitRateIsOfTheSet'
  BY <1>1 DEF ConversationInv, Cv!TurnIsFenced, Cv!RedactionIsComplete, Cv!HitRateIsOfTheSet, Cv!None
<1> QED BY <1>5, <1>6, <1>7 DEF ConversationInv

\* A step that leaves the explanation.
LEMMA ExplanationStays ==
    ASSUME ConversationInv, conversationDecision' = conversationDecision, conversationExplanation' = conversationExplanation, conversationSaid' = conversationSaid
    PROVE  ExplanationInv' /\ Cv!PrincipalReasonsOrNothing'
<1>1. Stated' = Stated
  BY DEF Stated, Cv!MapReasons
<1>2. ExplanationInv'
  BY <1>1 DEF ConversationInv, ExplanationInv, Cv!Renderable, Cv!None
<1>3. Cv!PrincipalReasonsOrNothing'
  BY DEF ConversationInv, Cv!PrincipalReasonsOrNothing, Cv!None, Cv!MapReasons
<1> QED BY <1>2, <1>3

\* What the patterns take of the forms a text may hold.
LEMMA PatternsTake ==
    /\ Cv!Taken("four_digits") = Absent
    /\ Cv!Taken("twelve_digits") = "aadhaar" /\ Cv!Taken("grouped_aadhaar") = "aadhaar"
    /\ Cv!Taken("sixteen_digits") = "card"
<1> DEFINE kinds(form) == {k \in DOMAIN Cv!PiiPatterns : Cv!Matches(Cv!PiiPatterns[k], form)}
<1>1. /\ DOMAIN Cv!PiiPatterns = {1, 2, 3, 4, 5, 6, 7}
      /\ Cv!PiiPatterns[1] = "aadhaar" /\ Cv!PiiPatterns[2] = "card" /\ Cv!PiiPatterns[3] = "pan"
      /\ Cv!PiiPatterns[4] = "ifsc" /\ Cv!PiiPatterns[5] = "email" /\ Cv!PiiPatterns[6] = "phone"
      /\ Cv!PiiPatterns[7] = "account_number"
  BY DEF Cv!PiiPatterns
<1>2. /\ kinds("four_digits") = {} /\ kinds("twelve_digits") = {1, 7}
      /\ kinds("grouped_aadhaar") = {1} /\ kinds("sixteen_digits") = {2, 7}
  <2>1. \A k \in {3, 4, 5} : \A form : Cv!Matches(Cv!PiiPatterns[k], form) <=> form = Cv!PiiPatterns[k]
    BY <1>1 DEF Cv!Matches
  <2>2. \A form : /\ Cv!Matches("aadhaar", form) <=> form \in {"twelve_digits", "grouped_aadhaar", "grouped_card"}
                  /\ Cv!Matches("card", form) <=> form \in {"sixteen_digits", "grouped_card"}
                  /\ Cv!Matches("phone", form) <=> form = "mobile"
                  /\ Cv!Matches("account_number", form) <=>
                        form \in {"mobile", "nine_digits", "twelve_digits", "sixteen_digits"}
    BY DEF Cv!Matches
  <2>3. kinds("four_digits") = {}
    BY <1>1, <2>1, <2>2
  <2>4. kinds("twelve_digits") = {1, 7}
    BY <1>1, <2>1, <2>2
  <2>5. kinds("grouped_aadhaar") = {1}
    BY <1>1, <2>1, <2>2
  <2>6. kinds("sixteen_digits") = {2, 7}
    BY <1>1, <2>1, <2>2
  <2> QED BY <2>3, <2>4, <2>5, <2>6
<1>3. \A form : Cv!Taken(form) = IF kinds(form) = {} THEN Absent
                  ELSE Cv!PiiPatterns[CHOOSE k \in kinds(form) : \A j \in kinds(form) : k <= j]
  BY DEF Cv!Taken
<1> HIDE DEF kinds
<1>4. (CHOOSE k \in {1, 7} : \A j \in {1, 7} : k <= j) = 1
  <2>1. \E k \in {1, 7} : \A j \in {1, 7} : k <= j
    OBVIOUS
  <2> QED BY <2>1
<1>5. (CHOOSE k \in {2, 7} : \A j \in {2, 7} : k <= j) = 2
  <2>1. \E k \in {2, 7} : \A j \in {2, 7} : k <= j
    OBVIOUS
  <2> QED BY <2>1
<1>6. (CHOOSE k \in {1} : \A j \in {1} : k <= j) = 1
  OBVIOUS
<1> QED BY <1>1, <1>2, <1>3, <1>4, <1>5, <1>6

\* Whatever was written, nothing a pattern knows is left.
LEMMA RedactLeavesNothing ==
    ASSUME NEW written, NEW form \in Cv!Redact(written).text PROVE Cv!Taken(form) = Absent
<1>1. PICK w \in written : form \in Cv!Remains(w)
  BY DEF Cv!Redact
<1> QED BY <1>1, PatternsTake DEF Cv!Remains

LEMMA TurnKeeps ==
    ASSUME ConversationInv, NEW t \in ConversationTurn, NEW shown \in SUBSET DOMAIN ConversationChunk, Cv!TakeTurn(t, shown)
    PROVE  ConversationInv'
<1> DEFINE new == Cv!EvaluateTurn(t, shown)
           found == UNION {ConversationChunk[c] : c \in shown}
<1>1. /\ conversationVerdict' = new /\ conversationDecision' = conversationDecision /\ conversationExplanation' = conversationExplanation /\ conversationSaid' = conversationSaid
      /\ conversationGolden' = conversationGolden /\ conversationEvaluation' = conversationEvaluation
  BY DEF Cv!TakeTurn
<1>2. /\ new.turn = t /\ new.refuse = (Cv!CheckTopic(t) # Absent)
      /\ new.refusal = (IF t.human THEN "handoff" ELSE Cv!CheckTopic(t))
      /\ new.injection.signals = t.signals \cup found /\ new.injection.scanned = {"user"} \cup shown
      /\ new.redacted = Cv!Redact(t.written)
  BY DEF Cv!EvaluateTurn, Cv!ScanForInjection
<1>3. \A c \in shown : ConversationChunk[c] \subseteq found
  OBVIOUS
<1>4. IsFiniteSet(t.signals) /\ IsFiniteSet(found)
  <2>1. found \subseteq UNION {ConversationChunk[c] : c \in DOMAIN ConversationChunk}
    OBVIOUS
  <2> HIDE DEF found
  <2> QED BY <2>1, ConversationAssumption, FS_Subset
<1> HIDE DEF new, found
<1>5. \A n \in 0..3 : Cv!Quarantine(Cv!ScanForInjection(t, {}), n) => Cv!Quarantine(new.injection, n)
  <2>1. Cv!ScanForInjection(t, {}).signals = t.signals
    <3>1. UNION {ConversationChunk[c] : c \in {}} = {}
      OBVIOUS
    <3> QED BY <3>1 DEF Cv!ScanForInjection
  <2>2. IsFiniteSet(t.signals \cup found)
    BY <1>4, FS_Union
  <2>3. /\ Cardinality(t.signals) <= Cardinality(t.signals \cup found)
        /\ Cardinality(t.signals) \in Nat /\ Cardinality(t.signals \cup found) \in Nat
    BY <1>4, <2>2, FS_Subset, FS_CardinalityType
  <2> QED BY Counts, <1>2, <2>1, <2>3 DEF Cv!Quarantine
<1>6. Cv!TurnIsFenced'
  <2>1. \A n \in 0..3 : Cv!Quarantine(Cv!ScanForInjection(t, {}), n)' => Cv!Quarantine(new.injection, n)'
    BY <1>5 DEF Cv!Quarantine, Cv!ScanForInjection, new, Cv!EvaluateTurn
  <2>2. \A n \in 0..3 : Cv!Quarantine(Cv!ScanForInjection(conversationVerdict'.turn, {}), n) => Cv!Quarantine(conversationVerdict'.injection, n)
    BY <1>1, <1>2, <1>5
  <2>3. \A c \in conversationVerdict'.injection.scanned \ {"user"} : ConversationChunk[c] \subseteq conversationVerdict'.injection.signals
    BY <1>1, <1>2, <1>3
  <2>4. /\ conversationVerdict'.turn.human => conversationVerdict'.refusal = "handoff"
        /\ conversationVerdict'.refuse => conversationVerdict'.refusal # Absent
    BY <1>1, <1>2, ConversationAssumption
  <2> QED BY <2>2, <2>3, <2>4 DEF Cv!TurnIsFenced
<1>7. Cv!RedactionIsComplete'
  <2>1. \A form \in new.redacted.text : Cv!Taken(form) = Absent
    BY <1>2, RedactLeavesNothing
  <2>2. Cv!Redact(t.written).kinds = {<<form, Cv!Taken(form)>> : form \in {f \in t.written : Cv!Taken(f) # Absent}}
    BY DEF Cv!Redact
  <2>3. Absent # "aadhaar" /\ Absent # "card"
    <3>1. 1 \in DOMAIN Cv!PiiPatterns /\ 2 \in DOMAIN Cv!PiiPatterns /\ Cv!PiiPatterns[1] = "aadhaar" /\ Cv!PiiPatterns[2] = "card"
      BY DEF Cv!PiiPatterns
    <3> QED BY <3>1, ConversationAssumption
  <2>4. \A form \in {"twelve_digits", "grouped_aadhaar"} \cap t.written :
           <<form, "aadhaar">> \in new.redacted.kinds
    <3> SUFFICES ASSUME NEW form \in {"twelve_digits", "grouped_aadhaar"} \cap t.written
                 PROVE  <<form, "aadhaar">> \in new.redacted.kinds
      OBVIOUS
    <3>1. Cv!Taken(form) = "aadhaar"
      BY PatternsTake
    <3>2. form \in {f \in t.written : Cv!Taken(f) # Absent}
      BY <2>3, <3>1
    <3>3. <<form, Cv!Taken(form)>> \in new.redacted.kinds
      BY <1>2, <2>2, <3>2
    <3> QED BY <3>1, <3>3
  <2>5. "sixteen_digits" \in t.written => <<"sixteen_digits", "card">> \in new.redacted.kinds
    <3> SUFFICES ASSUME "sixteen_digits" \in t.written
                 PROVE  <<"sixteen_digits", "card">> \in new.redacted.kinds
      OBVIOUS
    <3>1. "sixteen_digits" \in {f \in t.written : Cv!Taken(f) # Absent}
      BY <2>3, PatternsTake
    <3>2. <<"sixteen_digits", Cv!Taken("sixteen_digits")>> \in new.redacted.kinds
      BY <1>2, <2>2, <3>1
    <3> QED BY <3>2, PatternsTake
  <2> QED BY <1>1, <1>2, <2>1, <2>4, <2>5 DEF Cv!RedactionIsComplete
<1>8. Cv!HitRateIsOfTheSet' /\ IsFiniteSet(conversationGolden')
  BY <1>1 DEF ConversationInv, Cv!HitRateIsOfTheSet, Cv!None
<1> QED BY <1>1, <1>6, <1>7, <1>8, ExplanationStays DEF ConversationInv

LEMMA EvaluateKeeps ==
    ASSUME ConversationInv, NEW retrieved, NEW l, NEW required, Cv!EvaluateGolden(retrieved, l, required)
    PROVE  ConversationInv'
<1> DEFINE new == Cv!Evaluate(retrieved, l, required)
           slice == Cv!Slice(l)
           hits == Cv!Hits(retrieved, slice)
<1>1. /\ conversationEvaluation' = new /\ (required => Cv!Admissible) /\ conversationDecision' = conversationDecision
      /\ conversationExplanation' = conversationExplanation /\ conversationSaid' = conversationSaid /\ conversationVerdict' = conversationVerdict /\ conversationGolden' = conversationGolden
  BY DEF Cv!EvaluateGolden
<1>2. /\ new.language = l /\ new.admitted = Cv!Admissible /\ new.required = required
      /\ new.hits = Cardinality(hits) /\ new.scored = Cardinality(slice)
      /\ new.set = conversationGolden /\ new.retrieved = retrieved
  BY Counts DEF Cv!Evaluate
<1>3. slice = {t \in conversationGolden : l \in {Absent, ConversationTriple[t].language}}
  BY DEF Cv!Slice
<1>4. hits \subseteq slice /\ slice \subseteq conversationGolden /\ \A t \in hits : retrieved[t] # {}
  BY <1>3 DEF Cv!Hits
<1> HIDE DEF new, slice, hits
<1>5. /\ IsFiniteSet(slice) /\ IsFiniteSet(hits)
  BY <1>4, FS_Subset DEF ConversationInv
<1>6. Cardinality(hits) <= Cardinality(slice) /\ Cardinality(hits) \in Nat
  BY <1>4, <1>5, FS_Subset, FS_CardinalityType
<1>7. Cardinality(hits) > 0 => \E t \in conversationGolden : retrieved[t] # {}
  <2>1. Cardinality(hits) > 0 => hits # {}
    BY <1>6, FS_EmptySet
  <2> QED BY <1>4, <2>1
<1>8. Cv!HitRateIsOfTheSet'
  BY Counts, <1>1, <1>2, <1>3, <1>6, <1>7 DEF Cv!HitRateIsOfTheSet
<1>9. Cv!TurnIsFenced' /\ Cv!RedactionIsComplete' /\ IsFiniteSet(conversationGolden')
  BY <1>1 DEF ConversationInv, Cv!TurnIsFenced, Cv!RedactionIsComplete, Cv!None
<1> QED BY <1>1, <1>8, <1>9, ExplanationStays DEF ConversationInv

\* A step of the library or of the golden set, or none.
LEMMA RestKeeps ==
    ASSUME ConversationInv, conversationDecision' = conversationDecision, conversationExplanation' = conversationExplanation, conversationSaid' = conversationSaid,
           conversationVerdict' = conversationVerdict, conversationEvaluation' = conversationEvaluation, IsFiniteSet(conversationGolden')
    PROVE  ConversationInv'
<1>1. Cv!TurnIsFenced' /\ Cv!RedactionIsComplete' /\ Cv!HitRateIsOfTheSet'
  BY DEF ConversationInv, Cv!TurnIsFenced, Cv!RedactionIsComplete, Cv!HitRateIsOfTheSet, Cv!None
<1> QED BY <1>1, ExplanationStays DEF ConversationInv

LEMMA ConversationStays == ConversationInv /\ [Cv!Next]_conversationVars => ConversationInv'
<1> SUFFICES ASSUME ConversationInv, [Cv!Next]_conversationVars PROVE ConversationInv'
  OBVIOUS
<1>1. ASSUME NEW c, NEW l, NEW b, Cv!AddTemplate(c, l, b) PROVE ConversationInv'
  BY <1>1, RestKeeps DEF Cv!AddTemplate, ConversationInv
<1>2. ASSUME NEW l, Cv!LoadDefaultLibrary(l) PROVE ConversationInv'
  BY <1>2, RestKeeps DEF Cv!LoadDefaultLibrary, ConversationInv
<1>3. ASSUME NEW t, Cv!AddTriple(t) PROVE ConversationInv'
  <2>1. IsFiniteSet(conversationGolden')
    BY <1>3, FS_AddElement DEF Cv!AddTriple, ConversationInv
  <2> QED BY <1>3, <2>1, RestKeeps DEF Cv!AddTriple
<1>4. CASE UNCHANGED conversationVars
  BY <1>4, RestKeeps DEF conversationVars, ConversationInv
<1> QED BY <1>1, <1>2, <1>3, <1>4, ExplainKeeps, RenderKeeps, TurnKeeps, EvaluateKeeps DEF Cv!Next

LEMMA InitConversation == Cv!Init => ConversationInv
BY FS_EmptySet DEF Cv!Init, ConversationInv, ExplanationInv, Cv!PrincipalReasonsOrNothing, Cv!TurnIsFenced,
                   Cv!RedactionIsComplete, Cv!HitRateIsOfTheSet

LEMMA ConversationInvSound == ConversationInv => Cv!ConversationSound
BY DEF ConversationInv, ExplanationInv, Cv!CompleteMeansExplainable, Cv!ConversationSound

-----------------------------------------------------------------------------
(* Retrieval.                                                              *)

LEMMA RetrievalCounts == \A S : Rt!Cardinality(S) = Cardinality(S)
BY DEF Cardinality, Rt!Cardinality

\* A strict order of all of S, and a list of S in that order.
Orders(R, S) ==
    /\ \A i \in S : <<i, i>> \notin R
    /\ \A i, j \in S : i = j \/ <<i, j>> \in R \/ <<j, i>> \in R
    /\ \A i, j, k \in S : <<i, j>> \in R /\ <<j, k>> \in R => <<i, k>> \in R
Preceding(R, S, i) == {j \in S : <<j, i>> \in R}
Lists(rk, S, R) ==
    /\ DOMAIN rk = 1..Cardinality(S)
    /\ \A r \in DOMAIN rk : rk[r] \in S
    /\ \A i \in S : \E r \in DOMAIN rk : rk[r] = i
    /\ \A q, r \in DOMAIN rk : q < r => <<rk[q], rk[r]>> \in R

\* Whoever picks for each rank the one with so many before it lists them all in order.
LEMMA RankingLists ==
    ASSUME NEW S, IsFiniteSet(S), NEW R, Orders(R, S), NEW rk, DOMAIN rk = 1..Cardinality(S),
           \A r \in DOMAIN rk : (\E i \in S : Cardinality(Preceding(R, S, i)) = r - 1) =>
               rk[r] \in S /\ Cardinality(Preceding(R, S, rk[r])) = r - 1
    PROVE  Lists(rk, S, R)
<1> DEFINE n == Cardinality(S)
           place == [i \in S |-> Cardinality(Preceding(R, S, i)) + 1]
<1>1. n \in Nat /\ \A i \in S : /\ Preceding(R, S, i) \subseteq S /\ IsFiniteSet(Preceding(R, S, i))
                                /\ Cardinality(Preceding(R, S, i)) \in Nat
  BY FS_Subset, FS_CardinalityType DEF Preceding
<1>2. ASSUME NEW i \in S PROVE Cardinality(Preceding(R, S, i)) < n
  <2>1. Preceding(R, S, i) \in SUBSET S /\ Preceding(R, S, i) # S
    BY DEF Orders, Preceding
  <2> QED BY <1>1, <2>1, FS_Subset
<1>3. ASSUME NEW i \in S, NEW j \in S, <<i, j>> \in R
      PROVE  Cardinality(Preceding(R, S, i)) < Cardinality(Preceding(R, S, j))
  <2>1. Preceding(R, S, i) \in SUBSET Preceding(R, S, j) /\ Preceding(R, S, i) # Preceding(R, S, j)
    BY <1>3 DEF Orders, Preceding
  <2>2. /\ Cardinality(Preceding(R, S, i)) <= Cardinality(Preceding(R, S, j))
        /\ Cardinality(Preceding(R, S, i)) # Cardinality(Preceding(R, S, j))
    BY <1>1, <2>1, FS_Subset
  <2> QED BY <1>1, <2>2
<1>4. ASSUME NEW i \in S, NEW j \in S, Cardinality(Preceding(R, S, i)) = Cardinality(Preceding(R, S, j))
      PROVE  i = j
  <2>1. Cardinality(Preceding(R, S, i)) \in Nat /\ Cardinality(Preceding(R, S, j)) \in Nat
    BY <1>1
  <2>2. ~(Cardinality(Preceding(R, S, i)) < Cardinality(Preceding(R, S, j)))
        /\ ~(Cardinality(Preceding(R, S, j)) < Cardinality(Preceding(R, S, i)))
    BY <1>4, <2>1
  <2> QED BY <1>3, <2>2 DEF Orders
<1>5. place \in Surjection(S, 1..n)
  <2>1. place \in [S -> 1..n] /\ \A i, j \in S : place[i] = place[j] => i = j
    BY <1>1, <1>2, <1>4
  <2>2. IsFiniteSet(1..n) /\ Cardinality(1..n) = n
    BY <1>1, FirstNumbers
  <2> HIDE DEF place
  <2>3. place \in Injection(S, 1..n)
    BY <2>1 DEF Injection, IsInjective
  <2> QED BY <1>1, <2>2, <2>3, FS_Injection
<1>6. ASSUME NEW r \in 1..n PROVE rk[r] \in S /\ Cardinality(Preceding(R, S, rk[r])) = r - 1
  <2>1. PICK i \in S : place[i] = r
    BY <1>5 DEF Surjection
  <2>2. Cardinality(Preceding(R, S, i)) = r - 1
    BY <1>1, <2>1
  <2> QED BY <2>2
<1>7. ASSUME NEW i \in S PROVE \E r \in 1..n : rk[r] = i
  <2>1. place[i] \in 1..n /\ Cardinality(Preceding(R, S, i)) = place[i] - 1
    BY <1>1, <1>2
  <2>2. rk[place[i]] = i
    BY <2>1, <1>4, <1>6
  <2> QED BY <2>1, <2>2
<1>8. ASSUME NEW q \in 1..n, NEW r \in 1..n, q < r PROVE <<rk[q], rk[r]>> \in R
  <2>1. rk[q] # rk[r] /\ ~(<<rk[r], rk[q]>> \in R)
    BY <1>1, <1>3, <1>6, <1>8
  <2> QED BY <2>1, <1>6 DEF Orders
<1> QED BY <1>6, <1>7, <1>8 DEF Lists

\* What a cut at n leaves out comes after the n that it keeps.
LEMMA CutKeeps ==
    ASSUME NEW S, IsFiniteSet(S), NEW R, Orders(R, S), NEW rk, Lists(rk, S, R), NEW n \in Nat
    PROVE  /\ Rt!Listed(Rt!Cut(rk, n)) \subseteq S
           /\ \A i \in S \ Rt!Listed(Rt!Cut(rk, n)) :
                 /\ Cardinality(Rt!Listed(Rt!Cut(rk, n))) = n
                 /\ \A j \in Rt!Listed(Rt!Cut(rk, n)) : <<j, i>> \in R
<1> DEFINE cut == Rt!Cut(rk, n)
           hits == Rt!Listed(cut)
<1>1. Cardinality(S) \in Nat /\ DOMAIN rk = 1..Cardinality(S)
  BY FS_CardinalityType DEF Lists
<1>2. DOMAIN cut = {q \in DOMAIN rk : q <= n} /\ \A r \in DOMAIN cut : cut[r] = rk[r]
  BY DEF Rt!Cut
<1>3. hits = {rk[r] : r \in {q \in DOMAIN rk : q <= n}}
  BY <1>2 DEF Rt!Listed
<1>4. hits \subseteq S
  BY <1>3 DEF Lists
<1>5. ASSUME NEW i \in S \ hits
      PROVE  Cardinality(hits) = n /\ \A j \in hits : <<j, i>> \in R
  <2>1. PICK r \in DOMAIN rk : rk[r] = i
    BY DEF Lists
  <2>2. r > n /\ {q \in DOMAIN rk : q <= n} = 1..n /\ 1..n \subseteq DOMAIN rk /\ r \in Nat
    BY <1>1, <1>3, <1>5, <2>1
  <2>3. ASSUME NEW j \in hits PROVE <<j, i>> \in R
    <3>1. PICK q \in DOMAIN rk : q <= n /\ rk[q] = j
      BY <1>3
    <3>2. q < r
      BY <1>1, <2>2, <3>1
    <3> QED BY <2>1, <3>1, <3>2 DEF Lists
  <2> DEFINE f == [q \in 1..n |-> rk[q]]
  <2>4. f \in [1..n -> hits] /\ \A h \in hits : \E q \in 1..n : f[q] = h
    BY <1>3, <2>2
  <2>5. ASSUME NEW p \in 1..n, NEW q \in 1..n, f[p] = f[q] PROVE p = q
    <3>1. p \in DOMAIN rk /\ q \in DOMAIN rk /\ rk[p] = rk[q] /\ rk[p] \in S
      BY <2>2, <2>5 DEF Lists
    <3>2. <<rk[p], rk[p]>> \notin R
      BY <3>1 DEF Orders
    <3>3. ~(p < q) /\ ~(q < p)
      BY <3>1, <3>2 DEF Lists
    <3> QED BY <3>3
  <2> HIDE DEF f, hits
  <2>6. f \in Bijection(1..n, hits)
    BY <2>4, <2>5 DEF Bijection, Injection, Surjection, IsInjective
  <2>7. IsFiniteSet(1..n) /\ Cardinality(1..n) = n
    BY FirstNumbers
  <2>8. Cardinality(hits) = n
    BY <2>6, <2>7, FS_Bijection DEF ExistsBijection
  <2> QED BY <2>3, <2>8
<1> QED BY <1>4, <1>5

\* The tables after any number of calls: the two of the retriever tell one corpus, and
\* the store holds whatever was encoded last.
RetrievalInv ==
    /\ chunks \in [RetrievalId -> RetrievalVersion \cup {Absent}]
    /\ vectors \in [RetrievalId -> RetrievalVersion \cup {Absent}]
    /\ postings \in [RetrievalTerm -> [RetrievalId -> Nat]]
    /\ Rt!TablesAgree

LEMMA InitRetrieval == Rt!Init => RetrievalInv
BY DEF Rt!Init, RetrievalInv, Rt!TablesAgree

LEMMA RetrievalStays == RetrievalInv /\ [Rt!Next]_retrievalVars => RetrievalInv'
<1> SUFFICES ASSUME RetrievalInv, [Rt!Next]_retrievalVars PROVE RetrievalInv'
  OBVIOUS
<1>1. CASE UNCHANGED retrievalVars
  BY <1>1 DEF retrievalVars, RetrievalInv, Rt!TablesAgree
<1>2. ASSUME NEW i \in RetrievalId, NEW v \in RetrievalVersion, Rt!AddBoth(i, v),
             vectors' \in {vectors, [vectors EXCEPT ![i] = v]}
      PROVE  RetrievalInv'
  <2>1. /\ lexical' = [lexical EXCEPT ![i] = v] /\ chunks' = [chunks EXCEPT ![i] = v]
        /\ postings' = [t \in RetrievalTerm |-> [postings[t] EXCEPT ![i] = v.terms[t]]]
    BY <1>2 DEF Rt!AddBoth, Rt!Postings
  <2>2. v # Absent /\ v.terms \in [RetrievalTerm -> Nat]
    BY RetrievalAssumption
  <2>3. /\ chunks' \in [RetrievalId -> RetrievalVersion \cup {Absent}]
        /\ vectors' \in [RetrievalId -> RetrievalVersion \cup {Absent}]
    BY <1>2, <2>1 DEF RetrievalInv
  <2>4. postings' \in [RetrievalTerm -> [RetrievalId -> Nat]]
    BY <2>1, <2>2 DEF RetrievalInv
  <2>5. lexical' = chunks'
    BY <2>1 DEF RetrievalInv, Rt!TablesAgree
  <2>6. ASSUME NEW j \in RetrievalId, NEW t \in RetrievalTerm
        PROVE  postings'[t][j] = IF chunks'[j] = Absent THEN 0 ELSE chunks'[j].terms[t]
    <3>1. /\ postings'[t] = [postings[t] EXCEPT ![i] = v.terms[t]]
          /\ postings[t] \in [RetrievalId -> Nat]
          /\ chunks \in [RetrievalId -> RetrievalVersion \cup {Absent}]
          /\ postings[t][j] = IF chunks[j] = Absent THEN 0 ELSE chunks[j].terms[t]
      BY <2>1 DEF RetrievalInv, Rt!TablesAgree
    <3>2. CASE j = i
      BY <3>1, <3>2, <2>1, <2>2
    <3>3. CASE j # i
      BY <3>1, <3>3, <2>1
    <3> QED BY <3>2, <3>3
  <2> QED BY <2>3, <2>4, <2>5, <2>6 DEF RetrievalInv, Rt!TablesAgree
<1> QED BY <1>1, <1>2 DEF Rt!Next, Rt!Index, Rt!IndexLexically

\* The lexical leg ranks what holds the word and passes the filters.
Kept(t, day, tag) == {i \in Rt!Matches(t) : Rt!Eligible(lexical[i], day, tag)}
Scoring(t) == {p \in RetrievalId \X RetrievalId : Rt!Scores(t, p[1], p[2])}
LexicalRanking(t, day, tag) == Rt!Ranked(Kept(t, day, tag), LAMBDA j, i : Rt!Scores(t, j, i))

LEMMA LexicalLists ==
    ASSUME RetrievalInv, NEW t \in RetrievalTerm, NEW day, NEW tag
    PROVE  /\ IsFiniteSet(Kept(t, day, tag)) /\ Kept(t, day, tag) \subseteq RetrievalId
           /\ Orders(Scoring(t), Kept(t, day, tag))
           /\ Lists(LexicalRanking(t, day, tag), Kept(t, day, tag), Scoring(t))
<1> DEFINE S == Kept(t, day, tag)
           rk == LexicalRanking(t, day, tag)
<1>1. S \subseteq RetrievalId /\ IsFiniteSet(S)
  BY RetrievalAssumption, FS_Subset DEF Kept, Rt!Matches
<1>2. \A i \in S : postings[t][i] \in Nat /\ i \in Int
  BY <1>1, RetrievalAssumption DEF RetrievalInv
<1>3. \A i, j \in S : <<j, i>> \in Scoring(t) <=>
         postings[t][j] > postings[t][i] \/ (postings[t][j] = postings[t][i] /\ j < i)
  BY <1>1 DEF Scoring, Rt!Scores
<1> HIDE DEF S
<1>4. Orders(Scoring(t), S)
  BY <1>2, <1>3 DEF Orders
<1>5. \A i \in S : {j \in S : Rt!Scores(t, j, i)} = Preceding(Scoring(t), S, i)
  BY <1>3 DEF Preceding, Rt!Scores
<1>6. rk = [r \in 1..Rt!Cardinality(S) |-> CHOOSE i \in S : Rt!Cardinality({j \in S : Rt!Scores(t, j, i)}) = r - 1]
  BY DEF LexicalRanking, Rt!Ranked, S
<1> HIDE DEF rk
<1>7. DOMAIN rk = 1..Cardinality(S)
  BY <1>6, RetrievalCounts
<1>8. ASSUME NEW r \in DOMAIN rk, NEW i \in S, Cardinality(Preceding(Scoring(t), S, i)) = r - 1
      PROVE  rk[r] \in S /\ Cardinality(Preceding(Scoring(t), S, rk[r])) = r - 1
  <2>1. rk[r] = CHOOSE k \in S : Rt!Cardinality({j \in S : Rt!Scores(t, j, k)}) = r - 1
    BY <1>6, <1>8
  <2>2. Rt!Cardinality({j \in S : Rt!Scores(t, j, i)}) = r - 1
    BY <1>5, <1>8, RetrievalCounts
  <2>3. rk[r] \in S /\ Rt!Cardinality({j \in S : Rt!Scores(t, j, rk[r])}) = r - 1
    BY <2>1, <2>2
  <2> QED BY <1>5, <2>3, RetrievalCounts
<1> QED BY <1>1, <1>4, <1>7, <1>8, RankingLists DEF S, rk

\* Where a list is in order, the rank of a member tells its place in the order.
LEMMA RanksTell ==
    ASSUME NEW S, NEW R, Orders(R, S), NEW ranking, DOMAIN ranking \subseteq Nat \ {0},
           \A r \in DOMAIN ranking : ranking[r] \in S,
           \A q, r \in DOMAIN ranking : q < r => <<ranking[q], ranking[r]>> \in R
    PROVE  /\ Rt!Listed(ranking) \subseteq S
           /\ \A i \in Rt!Listed(ranking) : /\ Rt!RankIn(ranking, i) \in DOMAIN ranking
                                            /\ ranking[Rt!RankIn(ranking, i)] = i
           /\ \A i, j \in Rt!Listed(ranking) :
                 Rt!RankIn(ranking, i) < Rt!RankIn(ranking, j) <=> <<i, j>> \in R
<1>1. Rt!Listed(ranking) \subseteq S
  BY DEF Rt!Listed
<1>2. ASSUME NEW i \in Rt!Listed(ranking)
      PROVE  Rt!RankIn(ranking, i) \in DOMAIN ranking /\ ranking[Rt!RankIn(ranking, i)] = i
  BY DEF Rt!Listed, Rt!RankIn
<1>3. ASSUME NEW i \in Rt!Listed(ranking), NEW j \in Rt!Listed(ranking)
      PROVE  Rt!RankIn(ranking, i) < Rt!RankIn(ranking, j) <=> <<i, j>> \in R
  <2> DEFINE q == Rt!RankIn(ranking, i)
             r == Rt!RankIn(ranking, j)
  <2>1. q \in DOMAIN ranking /\ r \in DOMAIN ranking /\ ranking[q] = i /\ ranking[r] = j
    BY <1>2
  <2> HIDE DEF q, r
  <2>2. q \in Nat /\ r \in Nat /\ i \in S /\ j \in S
    BY <2>1
  <2>3. q < r => <<i, j>> \in R
    BY <2>1
  <2>4. r < q => <<j, i>> \in R
    BY <2>1
  <2>5. r = q => i = j
    BY <2>1
  <2>6. <<i, j>> \in R => <<j, i>> \notin R /\ i # j
    BY <2>2 DEF Orders
  <2>7. q < r \/ r < q \/ r = q
    BY <2>2
  <2>8. q < r <=> <<i, j>> \in R
    BY <2>3, <2>4, <2>5, <2>6, <2>7
  <2> QED BY <2>8 DEF q, r
<1> QED BY <1>1, <1>2, <1>3

LEMMA CutRanks ==
    ASSUME NEW S, IsFiniteSet(S), NEW R, Orders(R, S), NEW rk, Lists(rk, S, R), NEW n \in Nat
    PROVE  LET cut == Rt!Cut(rk, n) IN
           /\ DOMAIN cut \subseteq 1..n
           /\ \A i \in Rt!Listed(cut) : Rt!RankIn(cut, i) \in DOMAIN cut /\ cut[Rt!RankIn(cut, i)] = i
           /\ \A i, j \in Rt!Listed(cut) : Rt!RankIn(cut, i) < Rt!RankIn(cut, j) <=> <<i, j>> \in R
<1> DEFINE cut == Rt!Cut(rk, n)
<1>1. Cardinality(S) \in Nat /\ DOMAIN rk = 1..Cardinality(S)
  BY FS_CardinalityType DEF Lists
<1>2. DOMAIN cut = {q \in DOMAIN rk : q <= n} /\ \A r \in DOMAIN cut : cut[r] = rk[r]
  BY DEF Rt!Cut
<1> HIDE DEF cut
<1>3. /\ DOMAIN cut \subseteq 1..n /\ DOMAIN cut \subseteq Nat \ {0}
      /\ \A r \in DOMAIN cut : cut[r] \in S
      /\ \A q, r \in DOMAIN cut : q < r => <<cut[q], cut[r]>> \in R
  BY <1>1, <1>2 DEF Lists
<1> QED BY <1>3, RanksTell DEF cut

LEMMA LexicalCrowdsNothingOut == RetrievalInv => Rt!NothingCrowdedOut
<1> SUFFICES ASSUME RetrievalInv, NEW t \in RetrievalTerm, NEW day \in RetrievalDay, NEW tag \in RetrievalTag,
                    NEW i \in RetrievalId \ Rt!Listed(Rt!Search(t, RetrievalDepth, day, tag)),
                    chunks[i] # Absent, Rt!Eligible(chunks[i], day, tag), chunks[i].terms[t] > 0
             PROVE  /\ Rt!Cardinality(Rt!Listed(Rt!Search(t, RetrievalDepth, day, tag))) = RetrievalDepth
                    /\ \A j \in Rt!Listed(Rt!Search(t, RetrievalDepth, day, tag)) :
                          chunks[j].terms[t] >= chunks[i].terms[t]
  BY DEF Rt!NothingCrowdedOut
<1>1. Rt!Search(t, RetrievalDepth, day, tag) = Rt!Cut(LexicalRanking(t, day, tag), RetrievalDepth)
  BY DEF Rt!Search, LexicalRanking, Kept
<1> DEFINE hits == Rt!Listed(Rt!Search(t, RetrievalDepth, day, tag))
<1>2. i \in Kept(t, day, tag) \ hits
  BY DEF RetrievalInv, Rt!TablesAgree, Kept, Rt!Matches
<1>3. /\ hits \subseteq Kept(t, day, tag) /\ Cardinality(hits) = RetrievalDepth
      /\ \A j \in hits : <<j, i>> \in Scoring(t)
  BY <1>1, <1>2, LexicalLists, CutKeeps, RetrievalAssumption
<1>4. ASSUME NEW j \in hits PROVE chunks[j].terms[t] >= chunks[i].terms[t]
  <2>1. j \in RetrievalId /\ postings[t][j] > 0
    BY <1>3 DEF Kept, Rt!Matches
  <2>2. postings[t][j] \in Nat /\ postings[t][i] \in Nat
    BY <2>1 DEF RetrievalInv
  <2>3. postings[t][j] >= postings[t][i]
    <3>1. <<j, i>>[1] = j /\ <<j, i>>[2] = i /\ Rt!Scores(t, <<j, i>>[1], <<j, i>>[2])
      BY <1>3 DEF Scoring
    <3>2. Rt!Scores(t, j, i)
      BY <3>1
    <3> QED BY <2>2, <3>2 DEF Rt!Scores
  <2>4. chunks[j] # Absent /\ chunks[j].terms[t] = postings[t][j] /\ chunks[i].terms[t] = postings[t][i]
    BY <2>1 DEF RetrievalInv, Rt!TablesAgree
  <2> QED BY <2>3, <2>4
<1> QED BY <1>3, <1>4, RetrievalCounts

\* The store's ranking of what it holds, by the texts encoded.
Held == {i \in RetrievalId : vectors[i] # Absent}
Nearer(t) == {p \in RetrievalId \X RetrievalId : Rt!Near(t, p[1], p[2])}
StoreRanking(t) == Rt!Ranked(Held, LAMBDA j, i : Rt!Near(t, j, i))

LEMMA StoreLists ==
    ASSUME RetrievalInv, NEW t \in RetrievalTerm
    PROVE  /\ IsFiniteSet(Held) /\ Held \subseteq RetrievalId
           /\ Orders(Nearer(t), Held) /\ Lists(StoreRanking(t), Held, Nearer(t))
<1> DEFINE S == Held
           rk == StoreRanking(t)
<1>1. S \subseteq RetrievalId /\ IsFiniteSet(S)
  BY RetrievalAssumption, FS_Subset DEF Held
<1>2. \A i \in S : vectors[i].terms[t] \in Nat /\ i \in Int
  BY <1>1, RetrievalAssumption DEF RetrievalInv, Held
<1>3. \A i, j \in S : <<j, i>> \in Nearer(t) <=>
         vectors[j].terms[t] > vectors[i].terms[t] \/ (vectors[j].terms[t] = vectors[i].terms[t] /\ j < i)
  BY <1>1 DEF Nearer, Rt!Near
<1> HIDE DEF S
<1>4. Orders(Nearer(t), S)
  BY <1>2, <1>3 DEF Orders
<1>5. \A i \in S : {j \in S : Rt!Near(t, j, i)} = Preceding(Nearer(t), S, i)
  BY <1>3 DEF Preceding, Rt!Near
<1>6. rk = [r \in 1..Rt!Cardinality(S) |-> CHOOSE i \in S : Rt!Cardinality({j \in S : Rt!Near(t, j, i)}) = r - 1]
  BY DEF StoreRanking, Rt!Ranked, S
<1> HIDE DEF rk
<1>7. DOMAIN rk = 1..Cardinality(S)
  BY <1>6, RetrievalCounts
<1>8. ASSUME NEW r \in DOMAIN rk, NEW i \in S, Cardinality(Preceding(Nearer(t), S, i)) = r - 1
      PROVE  rk[r] \in S /\ Cardinality(Preceding(Nearer(t), S, rk[r])) = r - 1
  <2>1. rk[r] = CHOOSE k \in S : Rt!Cardinality({j \in S : Rt!Near(t, j, k)}) = r - 1
    BY <1>6, <1>8
  <2>2. Rt!Cardinality({j \in S : Rt!Near(t, j, i)}) = r - 1
    BY <1>5, <1>8, RetrievalCounts
  <2>3. rk[r] \in S /\ Rt!Cardinality({j \in S : Rt!Near(t, j, rk[r])}) = r - 1
    BY <2>1, <2>2
  <2> QED BY <1>5, <2>3, RetrievalCounts
<1> QED BY <1>1, <1>4, <1>7, <1>8, RankingLists DEF S, rk

\* The dense leg keeps the order of the store.
DenseKept(t, day, tag) ==
    {i \in Rt!Listed(Rt!Nearest(t, RetrievalDepth)) : chunks[i] # Absent /\ Rt!Eligible(chunks[i], day, tag)}
DenseHits(t, day, tag) == Rt!SearchDense(t, RetrievalDepth, day, tag)

LEMMA DenseLists ==
    ASSUME RetrievalInv, NEW t \in RetrievalTerm, NEW day, NEW tag
    PROVE  /\ IsFiniteSet(DenseKept(t, day, tag)) /\ DenseKept(t, day, tag) \subseteq RetrievalId
           /\ Cardinality(DenseKept(t, day, tag)) <= RetrievalDepth
           /\ Orders(Nearer(t), DenseKept(t, day, tag))
           /\ Lists(DenseHits(t, day, tag), DenseKept(t, day, tag), Nearer(t))
<1> DEFINE S == DenseKept(t, day, tag)
           rk == DenseHits(t, day, tag)
           hits == Rt!Nearest(t, RetrievalDepth)
<1>1. hits = Rt!Cut(StoreRanking(t), RetrievalDepth)
  BY DEF Rt!Nearest, StoreRanking, Held
<1>2. /\ Rt!Listed(hits) \subseteq Held /\ DOMAIN hits \subseteq 1..RetrievalDepth
      /\ \A i, j \in Rt!Listed(hits) : Rt!RankIn(hits, i) < Rt!RankIn(hits, j) <=> <<i, j>> \in Nearer(t)
  BY <1>1, StoreLists, CutKeeps, CutRanks, RetrievalAssumption
<1>3. S \subseteq Rt!Listed(hits) /\ S \subseteq RetrievalId /\ IsFiniteSet(S)
  BY <1>2, StoreLists, FS_Subset DEF DenseKept
<1>4. Cardinality(S) <= RetrievalDepth
  <2>0. RetrievalDepth \in Nat
    BY RetrievalAssumption
  <2>1. IsFiniteSet(1..RetrievalDepth) /\ Cardinality(1..RetrievalDepth) = RetrievalDepth
    BY <2>0, FirstNumbers
  <2>2. IsFiniteSet(DOMAIN hits) /\ Cardinality(DOMAIN hits) <= RetrievalDepth
    BY <1>2, <2>1, FS_Subset
  <2>3. IsFiniteSet(Rt!Listed(hits)) /\ Cardinality(Rt!Listed(hits)) <= Cardinality(DOMAIN hits)
    <3> DEFINE f == [r \in DOMAIN hits |-> hits[r]]
    <3>1. f \in Surjection(DOMAIN hits, Rt!Listed(hits))
      BY DEF Surjection, Rt!Listed
    <3> HIDE DEF f
    <3> QED BY <2>2, <3>1, FS_Surjection
  <2>4. Cardinality(S) <= Cardinality(Rt!Listed(hits))
    BY <1>3, <2>3, FS_Subset
  <2>5. Cardinality(S) \in Nat /\ Cardinality(Rt!Listed(hits)) \in Nat /\ Cardinality(DOMAIN hits) \in Nat
    BY <1>3, <2>2, <2>3, FS_CardinalityType
  <2> QED BY <2>2, <2>3, <2>4, <2>5, RetrievalAssumption
<1>5. Orders(Nearer(t), S)
  BY <1>2, <1>3, StoreLists DEF Orders
<1>6. \A i \in S : {j \in S : Rt!RankIn(hits, j) < Rt!RankIn(hits, i)} = Preceding(Nearer(t), S, i)
  BY <1>2, <1>3 DEF Preceding
<1>7. rk = [r \in 1..Rt!Cardinality(S) |->
              CHOOSE i \in S : Rt!Cardinality({j \in S : Rt!RankIn(hits, j) < Rt!RankIn(hits, i)}) = r - 1]
  BY DEF DenseHits, DenseKept, Rt!SearchDense, Rt!Ranked
<1> HIDE DEF rk, S, hits
<1>8. DOMAIN rk = 1..Cardinality(S)
  BY <1>7, RetrievalCounts
<1>9. ASSUME NEW r \in DOMAIN rk, NEW i \in S, Cardinality(Preceding(Nearer(t), S, i)) = r - 1
      PROVE  rk[r] \in S /\ Cardinality(Preceding(Nearer(t), S, rk[r])) = r - 1
  <2>1. rk[r] = CHOOSE k \in S : Rt!Cardinality({j \in S : Rt!RankIn(hits, j) < Rt!RankIn(hits, k)}) = r - 1
    BY <1>7, <1>9
  <2>2. Rt!Cardinality({j \in S : Rt!RankIn(hits, j) < Rt!RankIn(hits, i)}) = r - 1
    BY <1>6, <1>9, RetrievalCounts
  <2>3. rk[r] \in S /\ Rt!Cardinality({j \in S : Rt!RankIn(hits, j) < Rt!RankIn(hits, rk[r])}) = r - 1
    BY <2>1, <2>2
  <2> QED BY <1>6, <2>3, RetrievalCounts
<1> QED BY <1>3, <1>4, <1>5, <1>8, <1>9, RankingLists DEF S, rk

\* Fusion ranks what either leg lists by the points of both.
Points(first, second, i) == Rt!Share(first, i) + Rt!Share(second, i)
Leading(first, second) ==
    {p \in RetrievalId \X RetrievalId :
        \/ Points(first, second, p[1]) > Points(first, second, p[2])
        \/ Points(first, second, p[1]) = Points(first, second, p[2]) /\ p[1] < p[2]}
Fused(first, second) ==
    Rt!Ranked(Rt!Listed(first) \cup Rt!Listed(second),
              LAMBDA j, i : Points(first, second, j) > Points(first, second, i)
                            \/ (Points(first, second, j) = Points(first, second, i) /\ j < i))

LEMMA FusedLists ==
    ASSUME NEW first, NEW second, Rt!Listed(first) \cup Rt!Listed(second) \subseteq RetrievalId,
           \A i \in RetrievalId : Points(first, second, i) \in Int
    PROVE  /\ IsFiniteSet(Rt!Listed(first) \cup Rt!Listed(second))
           /\ Orders(Leading(first, second), Rt!Listed(first) \cup Rt!Listed(second))
           /\ Lists(Fused(first, second), Rt!Listed(first) \cup Rt!Listed(second), Leading(first, second))
<1> DEFINE S == Rt!Listed(first) \cup Rt!Listed(second)
           rk == Fused(first, second)
           point == [i \in RetrievalId |-> Points(first, second, i)]
           L == Leading(first, second)
<1>1. S \subseteq RetrievalId /\ IsFiniteSet(S)
  BY RetrievalAssumption, FS_Subset
<1>2. \A i \in S : point[i] \in Int /\ i \in Int /\ point[i] = Points(first, second, i)
  BY <1>1, RetrievalAssumption
<1>3. \A i, j \in S : <<j, i>> \in L <=> point[j] > point[i] \/ (point[j] = point[i] /\ j < i)
  BY <1>1, <1>2 DEF Leading
<1>4. rk = [r \in 1..Rt!Cardinality(S) |->
              CHOOSE i \in S : Rt!Cardinality({j \in S : Points(first, second, j) > Points(first, second, i)
                                  \/ (Points(first, second, j) = Points(first, second, i) /\ j < i)}) = r - 1]
  BY DEF Fused, Rt!Ranked
<1> HIDE DEF S, rk, point, L
<1>5. Orders(L, S)
  BY <1>2, <1>3 DEF Orders
<1>6. \A i \in S : {j \in S : Points(first, second, j) > Points(first, second, i)
                       \/ (Points(first, second, j) = Points(first, second, i) /\ j < i)} = Preceding(L, S, i)
  BY <1>2, <1>3 DEF Preceding
<1>7. DOMAIN rk = 1..Cardinality(S)
  BY <1>4, RetrievalCounts
<1>8. ASSUME NEW r \in DOMAIN rk, NEW i \in S, Cardinality(Preceding(L, S, i)) = r - 1
      PROVE  rk[r] \in S /\ Cardinality(Preceding(L, S, rk[r])) = r - 1
  <2>1. rk[r] = CHOOSE k \in S : Rt!Cardinality({j \in S : Points(first, second, j) > Points(first, second, k)
                                  \/ (Points(first, second, j) = Points(first, second, k) /\ j < k)}) = r - 1
    BY <1>4, <1>8
  <2>2. Rt!Cardinality({j \in S : Points(first, second, j) > Points(first, second, i)
                                  \/ (Points(first, second, j) = Points(first, second, i) /\ j < i)}) = r - 1
    BY <1>6, <1>8, RetrievalCounts
  <2>3. /\ rk[r] \in S
        /\ Rt!Cardinality({j \in S : Points(first, second, j) > Points(first, second, rk[r])
                                  \/ (Points(first, second, j) = Points(first, second, rk[r]) /\ j < rk[r])}) = r - 1
    BY <2>1, <2>2
  <2> QED BY <1>6, <2>3, RetrievalCounts
<1> QED BY <1>1, <1>5, <1>7, <1>8, RankingLists DEF S, rk, L

\* A better rank earns a greater share.
LEMMA ShareFalls ==
    ASSUME NEW p \in 1..RetrievalDepth, NEW q \in 1..RetrievalDepth
    PROVE  /\ RetrievalScale \div (RetrievalRrfK + p) \in Nat
           /\ p < q => RetrievalScale \div (RetrievalRrfK + p) > RetrievalScale \div (RetrievalRrfK + q)
<1> DEFINE s == RetrievalScale
           a == RetrievalRrfK + p
           b == RetrievalRrfK + q
           x == s \div a
           y == s \div b
<1>1. /\ s \in Nat /\ s > 0 /\ a \in Nat /\ a > 0 /\ b \in Nat /\ b > 0 /\ (p < q => a < b)
      /\ s % a = 0 /\ s % b = 0
  BY RetrievalAssumption
<1> HIDE DEF s, a, b
<1>2. x \in Int /\ x >= 0 /\ s = a * x /\ y \in Int /\ y >= 0 /\ s = b * y
  BY <1>1
<1> HIDE DEF x, y
<1>3. a < b => x > y
  <2>1. y > 0
    BY <1>1, <1>2
  <2>2. a < b /\ x <= y => a * x <= a * y /\ a * y < b * y
    BY <1>1, <1>2, <2>1
  <2> QED BY <1>1, <1>2, <2>2
<1> QED BY <1>1, <1>2, <1>3 DEF s, a, b, x, y

\* The two legs and what both of them earn.
LexicalHits(t, day, tag) == Rt!Search(t, RetrievalDepth, day, tag)
LEMMA LegsList ==
    ASSUME RetrievalInv, NEW t \in RetrievalTerm, NEW day, NEW tag,
           NEW first, first = LexicalHits(t, day, tag), NEW second, second = DenseHits(t, day, tag)
    PROVE  /\ \A i \in Rt!Listed(first) \cup Rt!Listed(second) : i \in RetrievalId /\ Rt!Eligible(chunks[i], day, tag)
           /\ \A i \in Rt!Listed(first) : Rt!RankIn(first, i) \in 1..RetrievalDepth
           /\ \A i \in Rt!Listed(second) : Rt!RankIn(second, i) \in 1..RetrievalDepth
           /\ \A i \in RetrievalId : Points(first, second, i) \in Int
<1>1. first = Rt!Cut(LexicalRanking(t, day, tag), RetrievalDepth)
  BY DEF LexicalHits, Rt!Search, LexicalRanking, Kept
<1>2. /\ Rt!Listed(first) \subseteq Kept(t, day, tag)
      /\ \A i \in Rt!Listed(first) : Rt!RankIn(first, i) \in 1..RetrievalDepth
  BY <1>1, LexicalLists, CutKeeps, CutRanks, RetrievalAssumption
<1>3. /\ Rt!Listed(second) \subseteq DenseKept(t, day, tag)
      /\ \A i \in Rt!Listed(second) : Rt!RankIn(second, i) \in 1..RetrievalDepth
  <2> DEFINE S == DenseKept(t, day, tag)
  <2>1. IsFiniteSet(S) /\ Cardinality(S) <= RetrievalDepth /\ Orders(Nearer(t), S) /\ Lists(second, S, Nearer(t))
    BY DenseLists
  <2>2. Cardinality(S) \in Nat /\ DOMAIN second = 1..Cardinality(S)
    BY <2>1, FS_CardinalityType DEF Lists
  <2>3. DOMAIN second \subseteq Nat \ {0} /\ DOMAIN second \subseteq 1..RetrievalDepth
    BY <2>1, <2>2, RetrievalAssumption
  <2> HIDE DEF S
  <2>4. /\ \A r \in DOMAIN second : second[r] \in S
        /\ \A q, r \in DOMAIN second : q < r => <<second[q], second[r]>> \in Nearer(t)
    BY <2>1 DEF Lists
  <2>5. /\ Rt!Listed(second) \subseteq S
        /\ \A i \in Rt!Listed(second) : Rt!RankIn(second, i) \in DOMAIN second
    BY <2>1, <2>3, <2>4, RanksTell
  <2> QED BY <2>3, <2>5 DEF S
<1>4. \A i \in Rt!Listed(first) \cup Rt!Listed(second) : i \in RetrievalId /\ Rt!Eligible(chunks[i], day, tag)
  BY <1>2, <1>3, LexicalLists, DenseLists DEF Kept, DenseKept, RetrievalInv, Rt!TablesAgree
<1>5. ASSUME NEW i \in RetrievalId PROVE Points(first, second, i) \in Int
  <2>1. Rt!Share(first, i) \in Nat
    BY <1>2, ShareFalls DEF Rt!Share
  <2>2. Rt!Share(second, i) \in Nat
    BY <1>3, ShareFalls DEF Rt!Share
  <2> QED BY <2>1, <2>2 DEF Points
<1> QED BY <1>2, <1>3, <1>4, <1>5

LEMMA FuseCuts ==
    ASSUME NEW first, NEW second, NEW n
    PROVE  Rt!Fuse(first, second, n) = Rt!Cut(Fused(first, second), n)
BY DEF Rt!Fuse, Fused, Points

LEMMA RetrievedIsInForce == RetrievalInv => Rt!NothingStale
<1> SUFFICES ASSUME RetrievalInv, NEW t \in RetrievalTerm, NEW day \in RetrievalDay, NEW tag \in RetrievalTag,
                    NEW i \in Rt!Listed(Rt!Retrieve(t, day, tag))
             PROVE  Rt!Eligible(chunks[i], day, tag)
  BY DEF Rt!NothingStale
<1> DEFINE first == LexicalHits(t, day, tag)
           second == DenseHits(t, day, tag)
<1>1. Rt!Retrieve(t, day, tag) = Rt!Cut(Fused(first, second), RetrievalK)
  BY FuseCuts DEF Rt!Retrieve, LexicalHits, DenseHits
<1>2. /\ \A k \in Rt!Listed(first) \cup Rt!Listed(second) : k \in RetrievalId /\ Rt!Eligible(chunks[k], day, tag)
      /\ \A k \in RetrievalId : Points(first, second, k) \in Int
  BY LegsList
<1> HIDE DEF first, second
<1>3. i \in Rt!Listed(first) \cup Rt!Listed(second)
  <2> DEFINE S == Rt!Listed(first) \cup Rt!Listed(second)
  <2>1. S \subseteq RetrievalId
    BY <1>2
  <2>2. /\ IsFiniteSet(S) /\ Orders(Leading(first, second), S)
        /\ Lists(Fused(first, second), S, Leading(first, second))
    BY <1>2, <2>1, FusedLists
  <2> HIDE DEF S
  <2>3. Rt!Listed(Rt!Cut(Fused(first, second), RetrievalK)) \subseteq S
    BY <2>2, CutKeeps, RetrievalAssumption
  <2> QED BY <1>1, <2>3 DEF S
<1> QED BY <1>2, <1>3

LEMMA FusionRespectsAgreement == RetrievalInv => Rt!FusionIsFair
<1> SUFFICES ASSUME RetrievalInv, NEW t \in RetrievalTerm, NEW day \in RetrievalDay, NEW tag \in RetrievalTag,
                    NEW first, first = LexicalHits(t, day, tag), NEW second, second = DenseHits(t, day, tag),
                    NEW fused, fused = Rt!Fuse(first, second, RetrievalK),
                    NEW i \in Rt!Listed(first) \cap Rt!Listed(second),
                    NEW j \in Rt!Listed(first) \cap Rt!Listed(second),
                    Rt!RankIn(first, i) < Rt!RankIn(first, j), Rt!RankIn(second, i) < Rt!RankIn(second, j),
                    j \in Rt!Listed(fused)
             PROVE  i \in Rt!Listed(fused) /\ Rt!RankIn(fused, i) < Rt!RankIn(fused, j)
  BY DEF Rt!FusionIsFair, LexicalHits, DenseHits
<1> DEFINE S == Rt!Listed(first) \cup Rt!Listed(second)
           L == Leading(first, second)
<1>1. /\ S \subseteq RetrievalId /\ \A k \in RetrievalId : Points(first, second, k) \in Int
      /\ \A k \in Rt!Listed(first) : Rt!RankIn(first, k) \in 1..RetrievalDepth
      /\ \A k \in Rt!Listed(second) : Rt!RankIn(second, k) \in 1..RetrievalDepth
  BY LegsList
<1>2. IsFiniteSet(S) /\ Orders(L, S) /\ Lists(Fused(first, second), S, L)
  BY <1>1, FusedLists
<1>3. fused = Rt!Cut(Fused(first, second), RetrievalK)
  BY FuseCuts
<1>4. Points(first, second, i) > Points(first, second, j)
  <2>1. /\ Rt!Share(first, i) \in Nat /\ Rt!Share(first, j) \in Nat
        /\ Rt!Share(first, i) > Rt!Share(first, j)
    BY <1>1, ShareFalls DEF Rt!Share
  <2>2. /\ Rt!Share(second, i) \in Nat /\ Rt!Share(second, j) \in Nat
        /\ Rt!Share(second, i) > Rt!Share(second, j)
    BY <1>1, ShareFalls DEF Rt!Share
  <2> QED BY <2>1, <2>2 DEF Points
<1>5. <<i, j>> \in L
  <2>1. i \in RetrievalId /\ j \in RetrievalId
    BY <1>1
  <2> QED BY <1>4, <2>1 DEF Leading
<1> HIDE DEF S, L
<1>6. i \in S /\ j \in S
  BY DEF S
<1>7. ~(<<j, i>> \in L)
  BY <1>2, <1>5, <1>6 DEF Orders
<1>8. i \in Rt!Listed(fused)
  BY <1>2, <1>3, <1>6, <1>7, CutKeeps, RetrievalAssumption
<1> QED BY <1>2, <1>3, <1>5, <1>8, CutRanks, RetrievalAssumption

LEMMA RetrievalInvSound == RetrievalInv => Rt!RetrievalSound
BY LexicalCrowdsNothingOut, RetrievedIsInForce, FusionRespectsAgreement DEF RetrievalInv, Rt!RetrievalSound

-----------------------------------------------------------------------------
(* Fraud velocity counters.                                                *)

\* An event lies in the bucket from its ingest on, under a number of its own.
BucketInv ==
    /\ IsFiniteSet(bucket)
    /\ \A e \in bucket : e.event \in Nat /\ e.ingest \in Nat /\ e.n \in 0..(Cardinality(bucket) - 1)

\* The events of a question's window that it may know, and which were held then.
HeldThen(q, w) ==
    {e \in Fv!InWindow(q.key, q.asOf, w) : e.ingest <= q.known /\ e.n < q.held}

AskedInv ==
    \A q \in asked :
        /\ q.asOf \in Nat /\ q.known \in Nat /\ q.held \in 0..Cardinality(bucket)
        /\ \A w \in VelocityWindows : q.counts[w] = Cardinality(HeldThen(q, w))

WatermarkInv == late \in Nat /\ Fv!WatermarkTrailsNewest

\* A new event enlarges the bucket by one.
LEMMA IngestAdds ==
    ASSUME BucketInv, NEW k \in VelocityEventKey, NEW t \in 0..VelocityMaxTime,
           NEW at \in 0..VelocityMaxTime, Fv!Ingest(k, t, at)
    PROVE  LET e == [key |-> k, event |-> t, ingest |-> at, n |-> Cardinality(bucket)]
           IN  /\ e \notin bucket /\ bucket' = bucket \cup {e}
               /\ IsFiniteSet(bucket') /\ Cardinality(bucket') = Cardinality(bucket) + 1
<1> DEFINE e == [key |-> k, event |-> t, ingest |-> at, n |-> Cardinality(bucket)]
<1>1. Cardinality(bucket) \in Nat
  BY FS_CardinalityType DEF BucketInv
<1>2. e.n = Cardinality(bucket) /\ bucket' = bucket \cup {e}
  BY Counts DEF Fv!Ingest
<1> HIDE DEF e
<1>3. e \notin bucket
  BY <1>1, <1>2 DEF BucketInv
<1>4. IsFiniteSet(bucket') /\ Cardinality(bucket') = Cardinality(bucket) + 1
  BY <1>2, <1>3, FS_AddElement DEF BucketInv
<1> QED BY <1>2, <1>3, <1>4 DEF e

LEMMA BucketStep == BucketInv /\ [Fv!Next]_velocityVars => BucketInv'
<1> SUFFICES ASSUME BucketInv, [Fv!Next]_velocityVars PROVE BucketInv'
  OBVIOUS
<1>1. ASSUME NEW k \in VelocityEventKey, NEW t \in 0..VelocityMaxTime,
             NEW at \in 0..VelocityMaxTime, Fv!Ingest(k, t, at)
      PROVE  BucketInv'
  <2> DEFINE e == [key |-> k, event |-> t, ingest |-> at, n |-> Cardinality(bucket)]
  <2>1. /\ bucket' = bucket \cup {e}
        /\ IsFiniteSet(bucket') /\ Cardinality(bucket') = Cardinality(bucket) + 1
    BY <1>1, IngestAdds
  <2>2. e.event = t /\ e.ingest = at /\ e.n = Cardinality(bucket)
    OBVIOUS
  <2>3. Cardinality(bucket) \in Nat /\ t \in Nat /\ at \in Nat
    BY FS_CardinalityType, VelocityAssumption DEF BucketInv
  <2> HIDE DEF e
  <2> QED BY <2>1, <2>2, <2>3 DEF BucketInv
<1>2. CASE bucket' = bucket
  BY <1>2 DEF BucketInv
<1> QED BY <1>1, <1>2 DEF Fv!Next, Fv!Ask, velocityVars

\* What was held when a question was asked is not changed by what is ingested after it.
LEMMA AskedStep == BucketInv /\ AskedInv /\ [Fv!Next]_velocityVars => AskedInv'
<1> SUFFICES ASSUME BucketInv, AskedInv, [Fv!Next]_velocityVars PROVE AskedInv'
  OBVIOUS
<1>0. Cardinality(bucket) \in Nat
  BY FS_CardinalityType DEF BucketInv
<1>1. ASSUME NEW k \in VelocityEventKey, NEW t \in 0..VelocityMaxTime,
             NEW at \in 0..VelocityMaxTime, Fv!Ingest(k, t, at)
      PROVE  AskedInv'
  <2> DEFINE e == [key |-> k, event |-> t, ingest |-> at, n |-> Cardinality(bucket)]
  <2>1. bucket' = bucket \cup {e} /\ Cardinality(bucket') = Cardinality(bucket) + 1
    BY <1>1, IngestAdds
  <2>2. asked' = asked /\ e.n = Cardinality(bucket)
    BY <1>1 DEF Fv!Ingest
  <2> HIDE DEF e
  <2>3. ASSUME NEW q \in asked, NEW w \in VelocityWindows PROVE HeldThen(q, w)' = HeldThen(q, w)
    <3>1. ~(e.n < q.held)
      BY <1>0, <2>2 DEF AskedInv
    <3> QED BY <2>1, <3>1 DEF HeldThen, Fv!InWindow
  <2> QED BY <1>0, <2>1, <2>2, <2>3 DEF AskedInv
<1>2. ASSUME NEW k \in VelocityEventKey, NEW asOf \in 0..VelocityMaxTime,
             NEW known \in 0..VelocityMaxTime, Fv!Ask(k, asOf, known)
      PROVE  AskedInv'
  <2>0. PICK q : q = [key |-> k, asOf |-> asOf, known |-> known, held |-> Cardinality(bucket),
                      counts |-> [w \in VelocityWindows |-> Fv!Count(k, asOf, known, w)]]
    OBVIOUS
  <2>1. /\ asked' = asked \cup {q} /\ bucket' = bucket
        /\ q.key = k /\ q.asOf = asOf /\ q.known = known /\ q.held = Cardinality(bucket)
        /\ \A w \in VelocityWindows : q.counts[w] = Fv!Count(k, asOf, known, w)
    BY Counts, <1>2, <2>0 DEF Fv!Ask
  <2>2. ASSUME NEW w \in VelocityWindows PROVE q.counts[w] = Cardinality(HeldThen(q, w))
    <3>1. \A e \in bucket : e.n < Cardinality(bucket)
      BY <1>0 DEF BucketInv
    <3>2. HeldThen(q, w) = {e \in Fv!InWindow(k, asOf, w) : e.ingest <= known}
      BY <2>1, <3>1 DEF HeldThen, Fv!InWindow
    <3> QED BY Counts, <2>1, <3>2 DEF Fv!Count
  <2>3. q.asOf \in Nat /\ q.known \in Nat
    BY <2>1, VelocityAssumption
  <2>4. ASSUME NEW p \in asked', NEW w \in VelocityWindows PROVE HeldThen(p, w)' = HeldThen(p, w)
    BY <2>1 DEF HeldThen, Fv!InWindow
  <2> QED BY <1>0, <2>1, <2>2, <2>3, <2>4 DEF AskedInv
<1>3. CASE UNCHANGED velocityVars
  BY <1>3 DEF velocityVars, AskedInv, HeldThen, Fv!InWindow
<1> QED BY <1>1, <1>2, <1>3 DEF Fv!Next

LEMMA WatermarkStep == BucketInv /\ WatermarkInv /\ [Fv!Next]_velocityVars => WatermarkInv'
<1> SUFFICES ASSUME BucketInv, WatermarkInv, [Fv!Next]_velocityVars PROVE WatermarkInv'
  OBVIOUS
<1>1. ASSUME NEW k \in VelocityEventKey, NEW t \in 0..VelocityMaxTime,
             NEW at \in 0..VelocityMaxTime, Fv!Ingest(k, t, at)
      PROVE  WatermarkInv'
  <2> DEFINE e == [key |-> k, event |-> t, ingest |-> at, n |-> Cardinality(bucket)]
             Behind(b, m) == {f \in b : f.event < m}
  <2>1. e \notin bucket /\ bucket' = bucket \cup {e} /\ IsFiniteSet(bucket')
    BY <1>1, IngestAdds
  <2>2. /\ e.event = t
        /\ late' = late + (IF watermark # Absent /\ t < watermark THEN 1 ELSE 0)
        /\ watermark' = IF watermark = Absent \/ t - VelocityAllowedLateness > watermark
                        THEN t - VelocityAllowedLateness ELSE watermark
    BY <1>1 DEF Fv!Ingest
  <2>3. t \in Nat /\ VelocityAllowedLateness \in Nat /\ late \in Nat
    BY VelocityAssumption DEF WatermarkInv
  <2> HIDE DEF e
  <2>4. CASE bucket = {}
    <3>1. watermark = Absent /\ late = 0
      BY <2>4 DEF WatermarkInv, Fv!WatermarkTrailsNewest
    <3>2. watermark' = t - VelocityAllowedLateness /\ late' = 0 /\ bucket' = {e}
      BY <3>1, <2>1, <2>2, <2>4
    <3>3. Cardinality({f \in bucket' : f.event < watermark'}) \in Nat
      BY <2>1, FS_Subset, FS_CardinalityType
    <3> QED BY Counts, <3>2, <3>3, <2>2, <2>3 DEF WatermarkInv, Fv!WatermarkTrailsNewest
  <2>5. CASE bucket # {}
    <3>1. /\ \E f \in bucket : watermark = f.event - VelocityAllowedLateness
          /\ \A f \in bucket : f.event - VelocityAllowedLateness <= watermark
          /\ late <= Cardinality(Behind(bucket, watermark))
      BY Counts, <2>5 DEF WatermarkInv, Fv!WatermarkTrailsNewest
    <3>2. \A f \in bucket : f.event \in Nat
      BY DEF BucketInv
    <3>3. watermark \in Int /\ watermark # Absent
      BY <3>1, <3>2, <2>3, VelocityAssumption
    <3>4. watermark' \in Int /\ watermark <= watermark' /\ t - VelocityAllowedLateness <= watermark'
      BY <2>2, <2>3, <3>3
    <3>5. \E f \in bucket' : watermark' = f.event - VelocityAllowedLateness
      BY <2>1, <2>2, <3>1
    <3>6. \A f \in bucket' : f.event - VelocityAllowedLateness <= watermark'
      BY <2>1, <2>2, <2>3, <3>1, <3>2, <3>3, <3>4
    <3>7. /\ IsFiniteSet(bucket) /\ IsFiniteSet(Behind(bucket, watermark))
          /\ IsFiniteSet(Behind(bucket', watermark'))
      BY <2>1, FS_Subset DEF BucketInv
    <3>8. Behind(bucket, watermark) \subseteq Behind(bucket', watermark')
      BY <2>1, <3>2, <3>3, <3>4
    <3>9. late' <= Cardinality(Behind(bucket', watermark'))
      <4>1. CASE t < watermark
        <5>1. late' = late + 1 /\ watermark' = watermark
          BY <4>1, <2>2, <2>3, <3>3
        <5>2. Behind(bucket', watermark') = Behind(bucket, watermark) \cup {e}
          BY <5>1, <4>1, <2>1, <2>2
        <5>3. Cardinality(Behind(bucket', watermark')) = Cardinality(Behind(bucket, watermark)) + 1
          BY <5>2, <2>1, <3>7, FS_AddElement
        <5>4. Cardinality(Behind(bucket, watermark)) \in Nat
          BY <3>7, FS_CardinalityType
        <5> QED BY <5>1, <5>3, <5>4, <3>1, <2>3
      <4>2. CASE ~(t < watermark)
        <5>1. late' = late
          BY <4>2, <2>2, <2>3
        <5>2. Cardinality(Behind(bucket, watermark)) <= Cardinality(Behind(bucket', watermark'))
          BY <3>7, <3>8, FS_Subset
        <5>3. Cardinality(Behind(bucket, watermark)) \in Nat /\ Cardinality(Behind(bucket', watermark')) \in Nat
          BY <3>7, FS_CardinalityType
        <5> QED BY <5>1, <5>2, <5>3, <3>1, <2>3
      <4> QED BY <4>1, <4>2
    <3>10. late' \in Nat /\ bucket' # {}
      BY <2>1, <2>2, <2>3
    <3> QED BY Counts, <3>5, <3>6, <3>9, <3>10 DEF WatermarkInv, Fv!WatermarkTrailsNewest
  <2> QED BY <2>4, <2>5
<1>2. CASE UNCHANGED <<bucket, watermark, late>>
  BY <1>2 DEF WatermarkInv, Fv!WatermarkTrailsNewest
<1> QED BY <1>1, <1>2 DEF Fv!Next, Fv!Ask, velocityVars

\* The events a skew check finds are those of the window that arrived later.
LEMMA SkewCounts ==
    ASSUME BucketInv, NEW k, NEW asOf \in Nat, NEW known \in Nat, NEW w \in Nat
    PROVE  Fv!Skew(k, asOf, known, w) =
             Cardinality({e \in bucket : e.key = k /\ e.event \in (asOf - w)..asOf /\ e.ingest > known})
<1> DEFINE W == Fv!InWindow(k, asOf, w)
           Before == {e \in W : e.ingest <= known}
           After == {e \in bucket : e.key = k /\ e.event \in (asOf - w)..asOf /\ e.ingest > known}
<1>1. W = Before \cup After /\ Before \cap After = {}
  BY DEF BucketInv, Fv!InWindow
<1>2. IsFiniteSet(Before) /\ IsFiniteSet(After)
  BY FS_Subset DEF BucketInv, Fv!InWindow
<1>3. Cardinality(W) = Cardinality(Before) + Cardinality(After)
  <2>1. Cardinality(Before \cup After)
          = Cardinality(Before) + Cardinality(After) - Cardinality(Before \cap After)
    BY <1>2, FS_Union
  <2> HIDE DEF W, Before, After
  <2>2. Cardinality(Before \cap After) = 0
    BY <1>1, FS_EmptySet
  <2>3. Cardinality(Before) \in Nat /\ Cardinality(After) \in Nat
    BY <1>2, FS_CardinalityType
  <2> QED BY <2>1, <2>2, <2>3, <1>1
<1>4. Cardinality(Before) \in Nat /\ Cardinality(After) \in Nat
  BY <1>2, FS_CardinalityType
<1>5. Fv!Skew(k, asOf, known, w) = Cardinality(W) - Cardinality(Before)
  BY Counts DEF Fv!Skew, Fv!Count
<1> HIDE DEF W, Before
<1> QED BY <1>3, <1>4, <1>5

\* What a question counts now is what it counted, and what it may know of the events
\* ingested since.
LEMMA CountReplays ==
    ASSUME BucketInv, AskedInv, NEW q \in asked, NEW w \in VelocityWindows
    PROVE  Fv!Count(q.key, q.asOf, q.known, w) =
             q.counts[w] + Cardinality({e \in bucket : e.key = q.key /\ e.event \in (q.asOf - w)..q.asOf
                                                       /\ e.n >= q.held /\ e.ingest <= q.known})
<1> DEFINE All == {e \in Fv!InWindow(q.key, q.asOf, w) : e.ingest <= q.known}
           Then == HeldThen(q, w)
           Since == {e \in bucket : e.key = q.key /\ e.event \in (q.asOf - w)..q.asOf
                                    /\ e.n >= q.held /\ e.ingest <= q.known}
<1>0. /\ q.asOf \in Nat /\ q.known \in Nat /\ q.held \in Nat /\ w \in Nat
      /\ q.counts[w] = Cardinality(Then)
  BY VelocityAssumption DEF AskedInv
<1>1. All = Then \cup Since /\ Then \cap Since = {}
  BY <1>0 DEF BucketInv, HeldThen, Fv!InWindow
<1>2. IsFiniteSet(Then) /\ IsFiniteSet(Since)
  BY FS_Subset DEF BucketInv, HeldThen, Fv!InWindow
<1>3. Cardinality(Then) \in Nat /\ Cardinality(Since) \in Nat
  BY <1>2, FS_CardinalityType
<1>4. Cardinality(Then \cup Since)
        = Cardinality(Then) + Cardinality(Since) - Cardinality(Then \cap Since)
  BY <1>2, FS_Union
<1>5. Fv!Count(q.key, q.asOf, q.known, w) = Cardinality(All)
  BY Counts DEF Fv!Count
<1> HIDE DEF All, Then, Since
<1>6. Cardinality(Then \cap Since) = 0
  BY <1>1, FS_EmptySet
<1>7. Fv!Count(q.key, q.asOf, q.known, w) = q.counts[w] + Cardinality(Since)
  BY <1>0, <1>1, <1>3, <1>4, <1>5, <1>6
<1> QED BY <1>7 DEF Since

VelocityInv == BucketInv /\ AskedInv /\ WatermarkInv

LEMMA InitVelocity == Fv!Init => VelocityInv
<1> SUFFICES ASSUME Fv!Init PROVE VelocityInv
  OBVIOUS
<1>1. BucketInv
  BY FS_EmptySet DEF Fv!Init, BucketInv
<1>2. AskedInv /\ WatermarkInv
  BY DEF Fv!Init, AskedInv, WatermarkInv, Fv!WatermarkTrailsNewest
<1> QED BY <1>1, <1>2 DEF VelocityInv

LEMMA VelocityInvSound == VelocityInv => Fv!VelocitySound
<1> SUFFICES ASSUME VelocityInv PROVE Fv!VelocitySound
  OBVIOUS
<1>1. Fv!CountsReplay
  <2> SUFFICES ASSUME NEW q \in asked, NEW w \in VelocityWindows
               PROVE  Fv!Count(q.key, q.asOf, q.known, w) =
                        q.counts[w] + Cardinality({e \in bucket : e.key = q.key
                                          /\ e.event \in (q.asOf - w)..q.asOf
                                          /\ e.n >= q.held /\ e.ingest <= q.known})
    BY Counts DEF Fv!CountsReplay
  <2> QED BY CountReplays DEF VelocityInv
<1>2. Fv!SkewIsLateArrivals
  <2> SUFFICES ASSUME NEW q \in asked, NEW w \in VelocityWindows
               PROVE  Fv!Skew(q.key, q.asOf, q.known, w) =
                        Cardinality({e \in bucket : e.key = q.key /\ e.event \in (q.asOf - w)..q.asOf
                                                    /\ e.ingest > q.known})
    BY Counts DEF Fv!SkewIsLateArrivals
  <2>1. q.asOf \in Nat /\ q.known \in Nat /\ w \in Nat /\ BucketInv
    BY VelocityAssumption DEF VelocityInv, AskedInv
  <2> QED BY <2>1, SkewCounts
<1> QED BY <1>1, <1>2 DEF VelocityInv, WatermarkInv, Fv!VelocitySound

LEMMA VelocityStays == VelocityInv /\ [Fv!Next]_velocityVars => VelocityInv'
BY BucketStep, AskedStep, WatermarkStep DEF VelocityInv

-----------------------------------------------------------------------------
(* Schema evolution.                                                       *)

\* Each version passed the gate against the one before it.
VersionsInv ==
    /\ versions \in Seq(Se!Schema)
    /\ \A i \in DOMAIN versions : i + 1 \in DOMAIN versions =>
          Se!IsBackwardCompatible(versions[i], versions[i + 1])

\* A message is what its version writes.
TopicInv ==
    \A m \in topic : /\ m.version \in DOMAIN versions
                     /\ m.name = versions[m.version].name
                     /\ m.values \in Se!Values(versions[m.version])

\* What one version writes every later one reads, but for a field put back.
ReadsAll(i, j) ==
    \A v \in Se!Values(versions[i]) : \A f \in SchemaField :
        Se!Legible(versions[j], v[f], f) \/ Se!PutBack(f, i, j)
ChainInv == \A i, j \in DOMAIN versions : i <= j => ReadsAll(i, j)

SchemaInv == VersionsInv /\ TopicInv /\ ChainInv /\ Se!HistoryKeepsPromises

\* A promotion of a promotion is one, or the type itself.
LEMMA PromotionsCompose ==
    \A t \in SchemaType : \A u \in Se!PROMOTIONS[t] \cap SchemaType :
        Se!PROMOTIONS[u] \subseteq {t} \cup Se!PROMOTIONS[t]
<1> SUFFICES ASSUME NEW t \in SchemaType, NEW u \in Se!PROMOTIONS[t] \cap SchemaType
             PROVE  Se!PROMOTIONS[u] \subseteq {t} \cup Se!PROMOTIONS[t]
  OBVIOUS
<1>1. \A x \in SchemaType : Se!PROMOTIONS[x] =
        CASE x = "int" -> {"long", "float", "double"} [] x = "long" -> {"float", "double"}
          [] x = "float" -> {"double"} [] x = "string" -> {"bytes"} [] x = "bytes" -> {"string"}
          [] OTHER -> {}
  BY DEF Se!PROMOTIONS
<1> QED BY <1>1

\* A version reads what it writes.
LEMMA WriterReads ==
    ASSUME NEW s \in Se!Schema, NEW v \in Se!Values(s), NEW f \in SchemaField
    PROVE  Se!Legible(s, v[f], f)
<1> SUFFICES ASSUME s.fields[f] # Se!NoField
             PROVE  IF v[f] = "absent" THEN s.fields[f].default
                    ELSE s.fields[f].types \cap ({v[f]} \cup Se!PROMOTIONS[v[f]]) # {}
  BY DEF Se!Legible
<1>1. v[f] \in s.fields[f].types
  BY DEF Se!Values
<1>2. s.fields[f].types \subseteq SchemaType
  BY DEF Se!Schema, Se!FieldDef
<1> QED BY <1>1, <1>2, SchemaAssumption

\* What a version can read of a field it has, its successor can.
LEMMA SuccessorReads ==
    ASSUME NEW old \in Se!Schema, NEW new \in Se!Schema, Se!IsBackwardCompatible(old, new),
           NEW f \in SchemaField, NEW x \in SchemaType \cup {"absent"},
           old.fields[f] # Se!NoField, Se!Legible(old, x, f)
    PROVE  Se!Legible(new, x, f)
<1> SUFFICES ASSUME new.fields[f] # Se!NoField
             PROVE  IF x = "absent" THEN new.fields[f].default
                    ELSE new.fields[f].types \cap ({x} \cup Se!PROMOTIONS[x]) # {}
  BY DEF Se!Legible
<1>1. f \in Se!Kept(old, new) /\ old.fields[f].types \subseteq SchemaType
  BY DEF Se!Kept, Se!Schema, Se!FieldDef
<1>2. /\ Se!Promotable(old.fields[f].types, new.fields[f].types)
      /\ old.fields[f].default => new.fields[f].default
  BY <1>1 DEF Se!IsBackwardCompatible
<1>3. CASE x = "absent"
  BY <1>2, <1>3 DEF Se!Legible
<1>4. CASE x # "absent"
  <2>1. PICK w \in old.fields[f].types : w \in {x} \cup Se!PROMOTIONS[x]
    BY <1>4 DEF Se!Legible
  <2>2. w \in new.fields[f].types \/ Se!PROMOTIONS[w] \cap new.fields[f].types # {}
    BY <1>2, <2>1 DEF Se!Promotable
  <2>3. Se!PROMOTIONS[w] \subseteq {x} \cup Se!PROMOTIONS[x]
    BY <1>1, <1>4, <2>1, PromotionsCompose
  <2> QED BY <1>4, <2>1, <2>2, <2>3
<1> QED BY <1>3, <1>4

LEMMA SchemaInvSound == SchemaInv => Se!EvolutionSound
<1> SUFFICES ASSUME SchemaInv PROVE Se!UpgradeReads
  BY DEF SchemaInv, Se!EvolutionSound
<1> SUFFICES ASSUME NEW m \in topic, NEW n \in DOMAIN versions, n >= m.version
             PROVE  /\ versions[n].name = m.name
                    /\ \A f \in SchemaField :
                          Se!Legible(versions[n], m.values[f], f) \/ Se!PutBack(f, m.version, n)
  BY DEF Se!UpgradeReads
<1>1. /\ m.version \in DOMAIN versions /\ m.name = versions[m.version].name
      /\ m.values \in Se!Values(versions[m.version])
  BY DEF SchemaInv, TopicInv
<1>2. m.version \in Nat /\ n \in Nat
  BY <1>1 DEF SchemaInv, VersionsInv
<1>3. ReadsAll(m.version, n)
  BY <1>1, <1>2 DEF SchemaInv, ChainInv
<1>4. versions[n].name = m.name
  BY <1>1, <1>2 DEF SchemaInv, Se!HistoryKeepsPromises
<1> QED BY <1>1, <1>3, <1>4 DEF ReadsAll

\* A merged version reads the whole history: the latest version did, and it is
\* compared with that one.
LEMMA MergeReads ==
    ASSUME SchemaInv, NEW schema \in Se!Schema, Se!Merge(schema) PROVE ChainInv'
<1> DEFINE n == Len(versions)
<1>1. /\ n \in Nat /\ DOMAIN versions = 1..n /\ DOMAIN versions' = 1..(n + 1)
      /\ versions'[n + 1] = schema /\ \A k \in 1..n : versions'[k] = versions[k]
      /\ \A k \in 1..n : versions[k] \in Se!Schema
  BY DEF SchemaInv, VersionsInv, Se!Merge
<1>2. n > 0 => Se!IsBackwardCompatible(versions[n], schema)
  BY <1>1 DEF Se!Merge
<1> HIDE DEF n
<1>3. \A k \in 1..n : \A f \in SchemaField : Se!Has(k, f)' = Se!Has(k, f)
  BY <1>1 DEF Se!Has
<1> SUFFICES ASSUME NEW i \in 1..(n + 1), NEW j \in 1..(n + 1), i <= j,
                    NEW v \in Se!Values(versions'[i]), NEW f \in SchemaField
             PROVE  Se!Legible(versions'[j], v[f], f) \/ Se!PutBack(f, i, j)'
  BY <1>1 DEF ChainInv, ReadsAll, Se!Values, Se!Legible
<1>4. CASE j \in 1..n
  <2>1. i \in 1..n /\ i..j \subseteq 1..n
    BY <1>1, <1>4
  <2>2. Se!PutBack(f, i, j)' = Se!PutBack(f, i, j)
    BY <1>3, <1>4, <2>1 DEF Se!PutBack
  <2> QED BY <1>1, <1>4, <2>1, <2>2 DEF SchemaInv, ChainInv, ReadsAll
<1>5. CASE i = n + 1
  BY <1>1, <1>5, WriterReads
<1>6. CASE i \in 1..n /\ j = n + 1
  <2>1. /\ n \in 1..n /\ n \in i..j /\ i \in i..j /\ i..n \subseteq i..j /\ i..n \subseteq 1..n
        /\ Se!IsBackwardCompatible(versions[n], schema) /\ i <= n
    BY <1>1, <1>2, <1>6
  <2>2. v \in Se!Values(versions[i]) /\ v[f] \in SchemaType \cup {"absent"}
    BY <1>1, <1>6 DEF Se!Values
  <2>3. Se!Legible(versions[n], v[f], f) \/ Se!PutBack(f, i, n)
    BY <1>1, <1>6, <2>1, <2>2 DEF SchemaInv, ChainInv, ReadsAll
  <2>4. CASE schema.fields[f] = Se!NoField
    BY <1>1, <1>6, <2>4 DEF Se!Legible
  <2>5. CASE schema.fields[f] # Se!NoField /\ Se!Has(n, f)
    <3>1. Se!PutBack(f, i, n) => Se!PutBack(f, i, j)'
      <4>1. Se!Has(j, f)'
        BY <1>1, <1>6, <2>5 DEF Se!Has
      <4> QED BY <1>3, <1>6, <2>1, <4>1 DEF Se!PutBack
    <3>2. Se!Legible(versions[n], v[f], f) => Se!Legible(schema, v[f], f)
      BY <1>1, <2>1, <2>2, <2>5, SuccessorReads DEF Se!Has
    <3> QED BY <1>1, <1>6, <2>3, <3>1, <3>2
  <2>6. CASE schema.fields[f] # Se!NoField /\ ~Se!Has(n, f)
    <3>1. CASE Se!Has(i, f)
      <4>1. Se!Has(j, f)'
        BY <1>1, <1>6, <2>6 DEF Se!Has
      <4> QED BY <1>3, <1>6, <2>1, <2>6, <3>1, <4>1 DEF Se!PutBack
    <3>2. CASE ~Se!Has(i, f)
      <4>1. v[f] = "absent"
        BY <2>2, <3>2 DEF Se!Has, Se!Values
      <4>2. schema.fields[f].default
        BY <2>1, <2>6 DEF Se!Has, Se!IsBackwardCompatible, Se!Added
      <4> QED BY <1>1, <1>6, <4>1, <4>2 DEF Se!Legible
    <3> QED BY <3>1, <3>2
  <2> QED BY <2>4, <2>5, <2>6
<1> QED BY <1>1, <1>4, <1>5, <1>6

\* The gate compares a new version with the latest only; what the history promised is
\* in the latest.
LEMMA MergeKeepsPromises ==
    ASSUME SchemaInv, NEW schema \in Se!Schema, Se!Merge(schema) PROVE Se!HistoryKeepsPromises'
<1> DEFINE n == Len(versions)
<1>1. /\ versions \in Seq(Se!Schema) /\ n \in Nat /\ DOMAIN versions = 1..n
      /\ versions' = Append(versions, schema) /\ versions' \in Seq(Se!Schema)
      /\ DOMAIN versions' = 1..(n + 1)
      /\ versions'[n + 1] = schema /\ \A k \in 1..n : versions'[k] = versions[k]
  BY DEF SchemaInv, VersionsInv, Se!Merge
<1>2. n > 0 => Se!IsBackwardCompatible(versions[n], schema)
  BY <1>1 DEF Se!Merge
<1> HIDE DEF n
<1> SUFFICES ASSUME NEW i \in 1..(n + 1), NEW j \in 1..(n + 1), i < j
             PROVE  /\ versions'[i].name = versions'[j].name
                    /\ \A f \in SchemaField :
                         (/\ versions'[i].fields[f].default /\ versions'[j].fields[f] # Se!NoField
                          /\ \A k \in i..j : versions'[k].fields[f] # Se!NoField)
                              => versions'[j].fields[f].default
  BY <1>1 DEF Se!HistoryKeepsPromises
<1>3. i \in 1..n
  BY <1>1
<1>4. CASE j \in 1..n
  <2>1. \A k \in i..j : k \in 1..n
    BY <1>1, <1>3, <1>4
  <2> QED BY <1>1, <1>3, <1>4, <2>1 DEF SchemaInv, Se!HistoryKeepsPromises
<1>5. CASE j = n + 1
  <2>1. n > 0 /\ n \in 1..n /\ n \in i..j /\ j \in i..j /\ \A k \in i..n : k \in i..j /\ k \in 1..n
    BY <1>1, <1>3, <1>5
  <2>2. versions[i].name = versions[n].name
    BY <1>1, <1>3, <2>1 DEF SchemaInv, Se!HistoryKeepsPromises
  <2>3. ASSUME NEW f \in SchemaField, versions[i].fields[f].default,
               \A k \in i..j : versions'[k].fields[f] # Se!NoField
        PROVE  schema.fields[f].default
    <3>1. versions[n].fields[f] # Se!NoField /\ schema.fields[f] # Se!NoField
      BY <1>1, <1>5, <2>1, <2>3
    <3>2. versions[n].fields[f].default
      <4>1. CASE i = n
        BY <4>1, <2>3
      <4>2. CASE i < n
        <5>1. \A k \in i..n : versions[k].fields[f] # Se!NoField
          BY <1>1, <2>1, <2>3
        <5> QED BY <1>1, <1>3, <2>1, <2>3, <3>1, <4>2, <5>1 DEF SchemaInv, Se!HistoryKeepsPromises
      <4> QED BY <1>1, <1>3, <4>1, <4>2
    <3> QED BY <1>2, <2>1, <3>1, <3>2 DEF Se!IsBackwardCompatible, Se!Kept
  <2>4. versions[n].name = schema.name
    BY <1>2, <2>1 DEF Se!IsBackwardCompatible
  <2> QED BY <1>1, <1>3, <1>5, <2>2, <2>3, <2>4
<1> QED BY <1>1, <1>4, <1>5

LEMMA SchemaStays == SchemaInv /\ [Se!Next]_schemaVars => SchemaInv'
<1> SUFFICES ASSUME SchemaInv, [Se!Next]_schemaVars PROVE SchemaInv'
  OBVIOUS
<1>1. ASSUME NEW schema \in Se!Schema, Se!Merge(schema) PROVE SchemaInv'
  <2> DEFINE n == Len(versions)
  <2>1. /\ n \in Nat /\ DOMAIN versions = 1..n /\ versions' \in Seq(Se!Schema)
        /\ DOMAIN versions' = 1..(n + 1) /\ topic' = topic
        /\ versions'[n + 1] = schema /\ \A k \in 1..n : versions'[k] = versions[k]
    BY <1>1 DEF SchemaInv, VersionsInv, Se!Merge
  <2>2. n > 0 => Se!IsBackwardCompatible(versions[n], schema)
    BY <1>1, <2>1 DEF Se!Merge
  <2> HIDE DEF n
  <2>3. ASSUME NEW i \in 1..(n + 1), i + 1 \in 1..(n + 1)
        PROVE  Se!IsBackwardCompatible(versions'[i], versions'[i + 1])
    <3>1. i \in 1..n
      BY <2>1, <2>3
    <3>2. CASE i = n
      BY <2>1, <2>2, <3>1, <3>2
    <3>3. CASE i # n
      <4>1. i + 1 \in 1..n
        BY <2>1, <3>1, <3>3
      <4> QED BY <2>1, <3>1, <4>1 DEF SchemaInv, VersionsInv
    <3> QED BY <3>2, <3>3
  <2>4. VersionsInv'
    BY <2>1, <2>3 DEF VersionsInv
  <2>5. TopicInv'
    <3> SUFFICES ASSUME NEW m \in topic
                 PROVE  /\ m.version \in 1..(n + 1) /\ m.name = versions'[m.version].name
                        /\ m.values \in Se!Values(versions'[m.version])
      BY <2>1 DEF TopicInv, Se!Values
    <3>1. m.version \in 1..n /\ versions'[m.version] = versions[m.version]
      BY <2>1 DEF SchemaInv, TopicInv
    <3> QED BY <2>1, <3>1 DEF SchemaInv, TopicInv
  <2> QED BY <1>1, <2>4, <2>5, MergeKeepsPromises, MergeReads DEF SchemaInv
<1>2. ASSUME NEW n \in DOMAIN versions, Se!Produce(n) PROVE SchemaInv'
  <2>1. versions' = versions
    BY <1>2 DEF Se!Produce
  <2>2. PICK v \in Se!Values(versions[n]) :
          topic' = topic \cup {[version |-> n, name |-> versions[n].name, values |-> v]}
    BY <1>2 DEF Se!Produce
  <2>3. TopicInv'
    BY <2>1, <2>2 DEF TopicInv, SchemaInv, Se!Values
  <2>4. ChainInv'
    BY <2>1 DEF SchemaInv, ChainInv, ReadsAll, Se!Values, Se!Legible, Se!PutBack, Se!Has
  <2> QED BY <2>1, <2>3, <2>4 DEF SchemaInv, VersionsInv, Se!HistoryKeepsPromises
<1>3. CASE UNCHANGED schemaVars
  <2>1. ChainInv'
    BY <1>3 DEF schemaVars, SchemaInv, ChainInv, ReadsAll, Se!Values, Se!Legible, Se!PutBack, Se!Has
  <2> QED BY <1>3, <2>1 DEF schemaVars, SchemaInv, VersionsInv, TopicInv, Se!HistoryKeepsPromises, Se!Values
<1> QED BY <1>1, <1>2, <1>3 DEF Se!Next

LEMMA InitSchema == Se!Init => SchemaInv
BY DEF Se!Init, SchemaInv, VersionsInv, TopicInv, ChainInv, Se!HistoryKeepsPromises

-----------------------------------------------------------------------------
(* The early-warning backtest.                                             *)

BacktestInv ==
    /\ IsFiniteSet(replayAlerts)
    /\ \A a \in replayAlerts : a.account \in ReplayAccount /\ a.day \in 0..ReplayMaxDay /\ a.tier \in Bt!Tiers
    /\ IsFiniteSet(Bt!Defaulter) /\ \A a \in Bt!Defaulter : defaulted_on[a] \in 0..ReplayMaxDay
    /\ \A a \in Bt!Judged : dispositions[a] \in BOOLEAN

LEMMA BacktestStays == BacktestInv /\ [Bt!Next]_replayVars => BacktestInv'
<1> SUFFICES ASSUME BacktestInv, [Bt!Next]_replayVars PROVE BacktestInv'
  OBVIOUS
<1>1. ASSUME NEW a \in ReplayAccount, NEW d \in 0..ReplayMaxDay, NEW t \in Bt!Tiers, Bt!Alert(a, d, t) PROVE BacktestInv'
  <2>1. PICK new : new = [account |-> a, day |-> d, tier |-> t]
    OBVIOUS
  <2>2. /\ replayAlerts' = replayAlerts \cup {new} /\ defaulted_on' = defaulted_on /\ dispositions' = dispositions
        /\ new.account \in ReplayAccount /\ new.day \in 0..ReplayMaxDay /\ new.tier \in Bt!Tiers
    BY <1>1, <2>1 DEF Bt!Alert
  <2>3. IsFiniteSet(replayAlerts')
    BY <2>2, FS_AddElement DEF BacktestInv
  <2> QED BY <2>2, <2>3 DEF BacktestInv, Bt!Defaulter, Bt!Judged
<1>2. ASSUME NEW a \in ReplayAccount, NEW d \in 0..ReplayMaxDay, Bt!Default(a, d) PROVE BacktestInv'
  <2>1. /\ DOMAIN defaulted_on' = Bt!Defaulter \cup {a} /\ defaulted_on'[a] = d
        /\ \A b \in Bt!Defaulter : b # a => defaulted_on'[b] = defaulted_on[b]
        /\ replayAlerts' = replayAlerts /\ dispositions' = dispositions
    BY <1>2 DEF Bt!Default, Bt!Defaulter
  <2>2. IsFiniteSet(Bt!Defaulter')
    BY <2>1, FS_AddElement DEF BacktestInv, Bt!Defaulter
  <2> QED BY <2>1, <2>2 DEF BacktestInv, Bt!Defaulter, Bt!Judged
<1>3. ASSUME NEW a \in ReplayAccount, NEW confirmed \in BOOLEAN, Bt!Judge(a, confirmed) PROVE BacktestInv'
  <2>1. /\ DOMAIN dispositions' = Bt!Judged \cup {a} /\ dispositions'[a] = confirmed
        /\ \A b \in Bt!Judged : b # a => dispositions'[b] = dispositions[b]
        /\ replayAlerts' = replayAlerts /\ defaulted_on' = defaulted_on
    BY <1>3 DEF Bt!Judge, Bt!Judged
  <2> QED BY <2>1 DEF BacktestInv, Bt!Defaulter, Bt!Judged
<1>4. CASE UNCHANGED replayVars
  BY <1>4 DEF replayVars, BacktestInv, Bt!Defaulter, Bt!Judged
<1> QED BY <1>1, <1>2, <1>3, <1>4 DEF Bt!Next

LEMMA InitBacktest == Bt!Init => BacktestInv
BY FS_EmptySet DEF Bt!Init, BacktestInv, Bt!Defaulter, Bt!Judged

LEMMA MaxIsGreatest ==
    ASSUME NEW low \in Int, NEW high \in Int, NEW S \in SUBSET (low..high), S # {}
    PROVE  Bt!Max(S) \in S /\ \A k \in S : k <= Bt!Max(S)
<1>1. \E m \in S : \A k \in S : m >= k
  BY GreatestExists
<1> QED BY <1>1 DEF Bt!Max

\* A warning in time is an alert of the account, that many days before the default.
LEMMA InTimeIs ==
    ASSUME BacktestInv, NEW account \in Bt!Defaulter, NEW lead \in Int, NEW tiers,
           NEW w \in Bt!InTime(account, lead, tiers)
    PROVE  /\ w \in replayAlerts /\ w.account = account /\ w.tier \in tiers
           /\ w.day \in Nat /\ defaulted_on[account] \in Nat
           /\ Bt!Lead(w) = defaulted_on[account] - w.day /\ Bt!Lead(w) >= lead
BY DEF Bt!InTime, Bt!AlertsOf, Bt!Lead, BacktestInv

LEMMA CaptureCounts ==
    ASSUME BacktestInv, NEW lead, NEW tiers
    PROVE  /\ Bt!Captured(lead, tiers) \subseteq Bt!Defaulter /\ IsFiniteSet(Bt!Captured(lead, tiers))
           /\ Cardinality(Bt!Captured(lead, tiers)) \in Nat /\ Cardinality(Bt!Defaulter) \in Nat
           /\ Cardinality(Bt!Captured(lead, tiers)) <= Cardinality(Bt!Defaulter)
<1>1. Bt!Captured(lead, tiers) \subseteq Bt!Defaulter /\ IsFiniteSet(Bt!Defaulter)
  BY DEF Bt!Captured, BacktestInv
<1> QED BY <1>1, FS_Subset, FS_CardinalityType

LEMMA CaptureGrows == BacktestInv => Bt!CaptureIsMonotone
<1> SUFFICES ASSUME BacktestInv, NEW lead \in 0..ReplayMaxDay
             PROVE  /\ Bt!Captured(lead + 1, Bt!Tiers) \subseteq Bt!Captured(lead, Bt!Tiers)
                    /\ \A t \in Bt!Tiers :
                         /\ Bt!Captured(lead, {t}) \subseteq Bt!Captured(lead, Bt!Tiers)
                         /\ Bt!MeetsTarget(lead, {t}) => Bt!MeetsTarget(lead, Bt!Tiers)
                         /\ Bt!Captured(lead, {t}) \cap Bt!NeverAlerted(Bt!Tiers) = {}
                    /\ Bt!Captured(lead, Bt!Tiers) = Bt!Captured(lead, {"amber"}) \cup Bt!Captured(lead, {"red"})
  BY DEF Bt!CaptureIsMonotone
<1>1. lead \in Int
  OBVIOUS
<1>2. Bt!Captured(lead + 1, Bt!Tiers) \subseteq Bt!Captured(lead, Bt!Tiers)
  <2> SUFFICES ASSUME NEW a \in Bt!Defaulter, NEW w \in Bt!InTime(a, lead + 1, Bt!Tiers)
               PROVE  w \in Bt!InTime(a, lead, Bt!Tiers)
    BY DEF Bt!Captured
  <2>1. Bt!Lead(w) >= lead + 1 /\ Bt!Lead(w) \in Int
    BY <1>1, InTimeIs
  <2> QED BY <1>1, <2>1 DEF Bt!InTime
<1>3. \A a : /\ \A t \in Bt!Tiers : Bt!InTime(a, lead, {t}) \subseteq Bt!InTime(a, lead, Bt!Tiers)
             /\ Bt!InTime(a, lead, Bt!Tiers) = Bt!InTime(a, lead, {"amber"}) \cup Bt!InTime(a, lead, {"red"})
             /\ \A t \in Bt!Tiers : Bt!InTime(a, lead, {t}) \subseteq Bt!AlertsOf(a, Bt!Tiers)
  BY DEF Bt!InTime, Bt!AlertsOf, Bt!Tiers
<1>4. ASSUME NEW t \in Bt!Tiers
      PROVE  /\ Bt!Captured(lead, {t}) \subseteq Bt!Captured(lead, Bt!Tiers)
             /\ Bt!MeetsTarget(lead, {t}) => Bt!MeetsTarget(lead, Bt!Tiers)
             /\ Bt!Captured(lead, {t}) \cap Bt!NeverAlerted(Bt!Tiers) = {}
  <2>1. Bt!Captured(lead, {t}) \subseteq Bt!Captured(lead, Bt!Tiers)
    BY <1>3 DEF Bt!Captured
  <2>2. Cardinality(Bt!Captured(lead, {t})) <= Cardinality(Bt!Captured(lead, Bt!Tiers))
    BY <2>1, CaptureCounts, FS_Subset
  <2>3. Bt!MeetsTarget(lead, {t}) => Bt!MeetsTarget(lead, Bt!Tiers)
    BY Counts, <2>2, CaptureCounts, BacktestAssumption DEF Bt!MeetsTarget
  <2>4. Bt!Captured(lead, {t}) \cap Bt!NeverAlerted(Bt!Tiers) = {}
    BY <1>3 DEF Bt!Captured, Bt!NeverAlerted
  <2> QED BY <2>1, <2>3, <2>4
<1>5. Bt!Captured(lead, Bt!Tiers) = Bt!Captured(lead, {"amber"}) \cup Bt!Captured(lead, {"red"})
  BY <1>3 DEF Bt!Captured
<1> QED BY <1>2, <1>4, <1>5

LEMMA LeadStaysHonest == BacktestInv => Bt!LeadIsHonest
<1> SUFFICES ASSUME BacktestInv PROVE Bt!LeadIsHonest
  OBVIOUS
<1>0. ReplayMaxDay \in Nat
  BY BacktestAssumption
<1>1. ASSUME NEW lead \in Int, NEW a \in Bt!Captured(lead, Bt!Tiers)
      PROVE  \E w \in replayAlerts : w.account = a /\ w.day + lead <= defaulted_on[a]
  <2>1. a \in Bt!Defaulter /\ Bt!InTime(a, lead, Bt!Tiers) # {}
    BY DEF Bt!Captured
  <2>2. PICK w \in Bt!InTime(a, lead, Bt!Tiers) : TRUE
    BY <2>1
  <2>3. w \in replayAlerts /\ w.account = a /\ w.day + lead <= defaulted_on[a]
    BY <2>1, <2>2, InTimeIs
  <2> QED BY <2>3
<1>2. ASSUME Bt!NoHindsight, NEW lead \in 0..ReplayMaxDay, NEW a \in Bt!Captured(lead, Bt!Tiers)
      PROVE  /\ Bt!LeadDays(a, lead, Bt!Tiers) >= 1
             /\ Bt!LeadDays(a, lead, Bt!Tiers) = Bt!Max({Bt!Lead(w) : w \in Bt!AlertsOf(a, Bt!Tiers)})
  <2> DEFINE S == {Bt!Lead(w) : w \in Bt!InTime(a, lead, Bt!Tiers)}
             T == {Bt!Lead(w) : w \in Bt!AlertsOf(a, Bt!Tiers)}
  <2>1. a \in Bt!Defaulter /\ Bt!InTime(a, lead, Bt!Tiers) # {}
    BY DEF Bt!Captured
  <2>2. \A w \in Bt!AlertsOf(a, Bt!Tiers) : Bt!Lead(w) \in 1..ReplayMaxDay
    <3> SUFFICES ASSUME NEW w \in Bt!AlertsOf(a, Bt!Tiers) PROVE Bt!Lead(w) \in 1..ReplayMaxDay
      OBVIOUS
    <3>1. w \in replayAlerts /\ w.account = a /\ Bt!Lead(w) = defaulted_on[a] - w.day
      BY DEF Bt!AlertsOf, Bt!Lead
    <3>2. w.day \in 0..ReplayMaxDay /\ defaulted_on[a] \in 0..ReplayMaxDay /\ w.day < defaulted_on[a]
      BY <1>2, <2>1, <3>1 DEF Bt!NoHindsight, BacktestInv
    <3> QED BY <1>0, <3>1, <3>2
  <2>3. S = {n \in T : n >= lead}
    BY DEF Bt!InTime
  <2>4. S # {} /\ T # {} /\ T \subseteq 1..ReplayMaxDay
    BY <2>1, <2>2, <2>3
  <2> HIDE DEF S, T
  <2>5. S \subseteq T /\ 1 \in Int /\ ReplayMaxDay \in Int /\ lead \in Int
    BY <1>0, <2>3
  <2>6. S \in SUBSET (1..ReplayMaxDay) /\ T \in SUBSET (1..ReplayMaxDay)
    BY <2>4, <2>5
  <2>7. Bt!Max(S) \in S /\ \A k \in S : k <= Bt!Max(S)
    BY <2>4, <2>5, <2>6, MaxIsGreatest
  <2>8. Bt!Max(T) \in T /\ \A k \in T : k <= Bt!Max(T)
    BY <2>4, <2>5, <2>6, MaxIsGreatest
  <2>9. /\ Bt!Max(S) \in T /\ Bt!Max(S) <= Bt!Max(T) /\ Bt!Max(S) >= lead
        /\ Bt!Max(S) \in Int /\ Bt!Max(T) \in Int /\ Bt!Max(S) >= 1
    <3> DEFINE x == Bt!Max(S)  y == Bt!Max(T)
    <3>1. x \in S /\ y \in T /\ \A k \in T : k <= y
      BY <2>7, <2>8
    <3> HIDE DEF x, y
    <3>2. x \in T /\ x <= y /\ x >= lead
      BY <2>3, <3>1
    <3>3. x \in 1..ReplayMaxDay /\ y \in 1..ReplayMaxDay
      BY <2>6, <3>1
    <3>4. x \in Int /\ y \in Int /\ x >= 1
      BY <3>3
    <3> QED BY <3>2, <3>4 DEF x, y
  <2>10. Bt!Max(T) \in S
    BY <2>3, <2>5, <2>8, <2>9
  <2>11. Bt!Max(S) = Bt!Max(T)
    BY <2>7, <2>9, <2>10
  <2> QED BY <2>9, <2>11 DEF Bt!LeadDays, S, T
<1>3. ASSUME Bt!NoHindsight, NEW lead \in 0..ReplayMaxDay, lead <= 1 PROVE Bt!TooLate(lead, Bt!Tiers) = {}
  <2> SUFFICES ASSUME NEW a \in Bt!Defaulter, Bt!AlertsOf(a, Bt!Tiers) # {}
               PROVE  Bt!InTime(a, lead, Bt!Tiers) # {}
    BY DEF Bt!TooLate, Bt!NeverAlerted, Bt!Captured
  <2>1. PICK w \in Bt!AlertsOf(a, Bt!Tiers) : TRUE
    OBVIOUS
  <2>2. Bt!Lead(w) >= 1 /\ Bt!Lead(w) \in Int
    BY <1>3, <2>1 DEF Bt!AlertsOf, Bt!Lead, Bt!NoHindsight, BacktestInv
  <2> QED BY <1>3, <2>2 DEF Bt!InTime
<1>4. \A lead \in 1..ReplayMaxDay : lead \in Int
  OBVIOUS
<1> QED BY <1>1, <1>2, <1>3, <1>4 DEF Bt!LeadIsHonest

\* A measured precision is of red alerts of judged accounts.
LEMMA PrecisionCounts ==
    ASSUME BacktestInv
    PROVE  LET red == {w \in replayAlerts : w.tier = "red" /\ w.account \in Bt!Judged}
               confirmed == {w \in red : dispositions[w.account]} IN
           /\ Bt!TierPrecision("red") = [alerts |-> Cardinality(red), confirmed |-> Cardinality(confirmed)]
           /\ Cardinality(red) \in Nat /\ Cardinality(confirmed) \in Nat
           /\ (Cardinality(red) = 0 <=> red = {}) /\ (Cardinality(confirmed) = 0 <=> confirmed = {})
<1> DEFINE red == {w \in replayAlerts : w.tier = "red" /\ w.account \in Bt!Judged}
           confirmed == {w \in red : dispositions[w.account]}
<1>1. IsFiniteSet(red) /\ IsFiniteSet(confirmed)
  <2>1. red \subseteq replayAlerts /\ confirmed \subseteq replayAlerts /\ IsFiniteSet(replayAlerts)
    BY DEF BacktestInv
  <2> QED BY <2>1, FS_Subset
<1>2. Bt!TierPrecision("red") = [alerts |-> Cardinality(red), confirmed |-> Cardinality(confirmed)]
  BY Counts DEF Bt!TierPrecision
<1> HIDE DEF red, confirmed
<1>3. /\ Cardinality(red) \in Nat /\ Cardinality(confirmed) \in Nat
      /\ (Cardinality(red) = 0 <=> red = {}) /\ (Cardinality(confirmed) = 0 <=> confirmed = {})
  BY <1>1, FS_CardinalityType, FS_EmptySet
<1> QED BY <1>2, <1>3 DEF red, confirmed

LEMMA TargetsStandOnBoth == BacktestInv => Bt!TargetsNeedBoth
<1> SUFFICES ASSUME BacktestInv, NEW months \in {ReplayMonths - 1, ReplayMonths}
             PROVE  /\ Bt!WhyNot(months) = {} =>
                         /\ months = ReplayMonths
                         /\ \E a \in Bt!Defaulter, w \in replayAlerts :
                              w.account = a /\ w.day + ReplayRequiredLead <= defaulted_on[a]
                         /\ \E w \in replayAlerts : w.tier = "red" /\ w.account \in Bt!Judged /\ dispositions[w.account]
                    /\ (\A a \in Bt!Judged : ~dispositions[a]) => Bt!WhyNot(months) # {}
                    /\ Bt!WhyNot(months) = Absent <=>
                         Bt!Judged # {} /\ \A w \in replayAlerts : w.tier = "red" => w.account \notin Bt!Judged
  BY DEF Bt!TargetsNeedBoth
<1> DEFINE red == {w \in replayAlerts : w.tier = "red" /\ w.account \in Bt!Judged}
           confirmed == {w \in red : dispositions[w.account]}
           precision == Bt!TierPrecision("red")
           why == (IF months >= ReplayMonths THEN {} ELSE {"history"})
                  \cup (IF Bt!MeetsTarget(ReplayRequiredLead, Bt!Tiers) THEN {} ELSE {"capture"})
                  \cup (IF Bt!Judged = {} THEN {"precision_not_measured"}
                        ELSE IF Bt!MeetsPrecision(precision) THEN {} ELSE {"precision"})
<1>1. /\ precision.alerts = Cardinality(red) /\ precision.confirmed = Cardinality(confirmed)
      /\ Cardinality(red) \in Nat /\ Cardinality(confirmed) \in Nat
      /\ (Cardinality(red) = 0 <=> red = {}) /\ (Cardinality(confirmed) = 0 <=> confirmed = {})
  BY PrecisionCounts
<1>2. Bt!WhyNot(months) = IF Bt!Judged # {} /\ precision.alerts = 0 THEN Absent ELSE why
  <2>1. CASE Bt!Judged = {}
    BY <2>1 DEF Bt!WhyNot
  <2>2. CASE Bt!Judged # {} /\ Bt!MeetsPrecision(precision)
    BY <2>2 DEF Bt!WhyNot
  <2>3. CASE Bt!Judged # {} /\ ~Bt!MeetsPrecision(precision)
    BY <2>3 DEF Bt!WhyNot
  <2> QED BY <2>1, <2>2, <2>3
<1>3. why \in SUBSET {"history", "capture", "precision", "precision_not_measured"}
  OBVIOUS
<1>4. why # Absent /\ Absent # {}
  <2>1. {} \in SUBSET {"history", "capture", "precision", "precision_not_measured"}
    OBVIOUS
  <2> HIDE DEF why
  <2> QED BY <1>3, <2>1, BacktestAssumption
<1>5. why = {} => /\ months >= ReplayMonths /\ Bt!MeetsTarget(ReplayRequiredLead, Bt!Tiers)
                  /\ Bt!Judged # {} /\ Bt!MeetsPrecision(precision)
  OBVIOUS
<1> HIDE DEF why, precision
<1>6. Bt!WhyNot(months) = Absent <=> Bt!Judged # {} /\ red = {}
  BY <1>1, <1>2, <1>4
<1>7. red = {} <=> \A w \in replayAlerts : w.tier = "red" => w.account \notin Bt!Judged
  OBVIOUS
<1>8. Bt!MeetsPrecision(precision) => confirmed # {}
  BY <1>1, BacktestAssumption DEF Bt!MeetsPrecision
<1>9. Bt!MeetsTarget(ReplayRequiredLead, Bt!Tiers) =>
        \E a \in Bt!Defaulter, w \in replayAlerts : w.account = a /\ w.day + ReplayRequiredLead <= defaulted_on[a]
  <2> SUFFICES ASSUME Bt!MeetsTarget(ReplayRequiredLead, Bt!Tiers)
               PROVE  \E a \in Bt!Defaulter, w \in replayAlerts :
                         w.account = a /\ w.day + ReplayRequiredLead <= defaulted_on[a]
    OBVIOUS
  <2>1. /\ Cardinality(Bt!Captured(ReplayRequiredLead, Bt!Tiers)) \in Nat /\ Cardinality(Bt!Defaulter) \in Nat
        /\ Cardinality(Bt!Defaulter) # 0
        /\ 100 * Cardinality(Bt!Captured(ReplayRequiredLead, Bt!Tiers)) >= ReplayCapturePercent * Cardinality(Bt!Defaulter)
    BY Counts, CaptureCounts, FS_EmptySet DEF Bt!MeetsTarget, BacktestInv
  <2>2. ReplayCapturePercent * Cardinality(Bt!Defaulter) > 0
    BY <2>1, BacktestAssumption
  <2>3. Cardinality(Bt!Captured(ReplayRequiredLead, Bt!Tiers)) # 0
    <3> DEFINE n == Cardinality(Bt!Captured(ReplayRequiredLead, Bt!Tiers))
               m == ReplayCapturePercent * Cardinality(Bt!Defaulter)
    <3>1. n \in Nat /\ 100 * n >= m /\ m > 0 /\ m \in Int
      BY <2>1, <2>2, BacktestAssumption
    <3> HIDE DEF n, m
    <3>2. n # 0
      BY <3>1
    <3> QED BY <3>2 DEF n
  <2>4. PICK a \in Bt!Captured(ReplayRequiredLead, Bt!Tiers) : TRUE
    BY <2>3, FS_EmptySet
  <2>5. Bt!LeadIsHonest /\ a \in Bt!Defaulter /\ Bt!InTime(a, ReplayRequiredLead, Bt!Tiers) # {}
    BY <2>4, LeadStaysHonest DEF Bt!Captured
  <2>6. PICK w \in Bt!InTime(a, ReplayRequiredLead, Bt!Tiers) : TRUE
    BY <2>5
  <2>7. w \in replayAlerts /\ w.account = a /\ w.day + ReplayRequiredLead <= defaulted_on[a]
    BY <2>5, <2>6, InTimeIs, BacktestAssumption
  <2> QED BY <2>5, <2>7
<1>10. ASSUME Bt!WhyNot(months) = {}
       PROVE  /\ months = ReplayMonths
              /\ \E a \in Bt!Defaulter, w \in replayAlerts : w.account = a /\ w.day + ReplayRequiredLead <= defaulted_on[a]
              /\ \E w \in replayAlerts : w.tier = "red" /\ w.account \in Bt!Judged /\ dispositions[w.account]
  <2>1. why = {}
    BY <1>2, <1>4, <1>10
  <2>2. months = ReplayMonths
    BY <1>5, <2>1, BacktestAssumption
  <2> QED BY <1>5, <1>8, <1>9, <2>1, <2>2
<1>11. (\A a \in Bt!Judged : ~dispositions[a]) => Bt!WhyNot(months) # {}
  BY <1>10
<1> QED BY <1>6, <1>7, <1>10, <1>11

LEMMA BacktestInvSound == BacktestInv => Bt!BacktestSound
BY CaptureGrows, LeadStaysHonest, TargetsStandOnBoth DEF Bt!BacktestSound

-----------------------------------------------------------------------------
(* PD velocity.                                                            *)

PdTypes ==
    \A a \in PdAccount : values[a] = Absent
        \/ /\ values[a].from \in Nat /\ values[a].to \in Nat /\ values[a].days \in Nat
           /\ Pv!Comparable(values[a].days)
           /\ values[a].from <= 0 => fromZero
PdInv == DOMAIN values = PdAccount /\ PdTypes

Bases == {"absolute", "relative"}

LEMMA ListKeeps ==
    ASSUME PdInv, NEW a \in PdAccount, NEW previous \in PdReading, NEW current \in PdReading, NEW days \in 0..PdMaxGap,
           Pv!List(a, previous, current, days)
    PROVE  PdInv'
<1> DEFINE new == [from |-> previous, to |-> current, days |-> days]
<1>1. /\ values' = [values EXCEPT ![a] = new] /\ Pv!Comparable(days)
      /\ fromZero' = (fromZero \/ new.from <= 0)
  BY DEF Pv!List
<1>2. /\ new.from \in Nat /\ new.to \in Nat /\ new.days \in Nat /\ new.days = days
  <2>1. days \in Int /\ days > 0
    BY <1>1 DEF Pv!Comparable
  <2> QED BY <2>1, PdAssumption
<1> HIDE DEF new
<1>3. DOMAIN values' = PdAccount /\ \A b \in PdAccount : values'[b] = IF b = a THEN new ELSE values[b]
  BY <1>1 DEF PdInv
<1> QED BY <1>1, <1>2, <1>3 DEF PdInv, PdTypes, Pv!Comparable

LEMMA PdStays == PdInv /\ [Pv!Next]_pdVars => PdInv'
<1> SUFFICES ASSUME PdInv, [Pv!Next]_pdVars PROVE PdInv'
  OBVIOUS
<1>1. CASE UNCHANGED pdVars
  BY <1>1 DEF pdVars, PdInv, PdTypes
<1> QED BY <1>1, ListKeeps DEF Pv!Next

(* The order of the ranking.                                               *)

\* A product of two positive factors keeps an inequality.
LEMMA CrossLess ==
    ASSUME NEW x \in Int, NEW y \in Int, NEW z \in Int,
           NEW a \in Nat, NEW b \in Nat, NEW c \in Nat, a > 0, b > 0, c > 0,
           x * b <= y * a, y * c <= z * b, x * b < y * a \/ y * c < z * b
    PROVE  x * c < z * a
<1>1. /\ (x * b) * c <= (y * a) * c /\ (y * c) * a <= (z * b) * a
      /\ (x * b < y * a => (x * b) * c < (y * a) * c)
      /\ (y * c < z * b => (y * c) * a < (z * b) * a)
  <2>1. \A p, q \in Int, n \in Nat : n > 0 /\ p <= q => p * n <= q * n /\ (p < q => p * n < q * n)
    OBVIOUS
  <2>2. x * b \in Int /\ y * a \in Int /\ y * c \in Int /\ z * b \in Int
    OBVIOUS
  <2> QED BY <2>1, <2>2
<1>2. (x * b) * c = (x * c) * b /\ (y * a) * c = (y * c) * a /\ (z * b) * a = (z * a) * b
  OBVIOUS
<1>3. /\ (x * b) * c \in Int /\ (y * a) * c \in Int /\ (y * c) * a \in Int /\ (z * b) * a \in Int
  OBVIOUS
<1>4. (x * c) * b < (z * a) * b
  BY <1>1, <1>2, <1>3
<1>5. SUFFICES ASSUME z * a <= x * c PROVE FALSE
  OBVIOUS
<1>6. \A p, q \in Int, n \in Nat : p <= q => p * n <= q * n
  OBVIOUS
<1>7. z * a \in Int /\ x * c \in Int
  OBVIOUS
<1>8. (z * a) * b <= (x * c) * b /\ (z * a) * b \in Int /\ (x * c) * b \in Int
  BY <1>5, <1>6, <1>7
<1> QED BY <1>4, <1>8

\* Of the ranked accounts, "less" is a strict weak order.
LEMMA LessIsAnOrder ==
    ASSUME PdInv, NEW basis \in Bases, Pv!Ranked(basis),
           NEW a \in Pv!RankedAccounts, NEW b \in Pv!RankedAccounts, NEW c \in Pv!RankedAccounts
    PROVE  /\ Pv!Less(basis, values[a], values[b]) => ~Pv!Less(basis, values[b], values[a])
           /\ Pv!Less(basis, values[a], values[b]) /\ ~Pv!Less(basis, values[c], values[b])
                => Pv!Less(basis, values[a], values[c])
<1> DEFINE u == values[a]  v == values[b]  w == values[c]
           x == Pv!Absolute(u)  y == Pv!Absolute(v)  z == Pv!Absolute(w)
           i == u.from  j == v.from  k == w.from
<1>1. /\ i \in Nat /\ j \in Nat /\ k \in Nat /\ x \in Int /\ y \in Int /\ z \in Int
      /\ basis = "relative" => i > 0 /\ j > 0 /\ k > 0
  BY DEF PdInv, PdTypes, Pv!RankedAccounts, Pv!Absolute, Pv!Ranked
<1>2. CASE basis = "absolute"
  <2>1. /\ (Pv!Less(basis, u, v) <=> x < y) /\ (Pv!Less(basis, v, u) <=> y < x)
        /\ (Pv!Less(basis, w, v) <=> z < y) /\ (Pv!Less(basis, u, w) <=> x < z)
    BY <1>2 DEF Pv!Less
  <2> HIDE DEF u, v, w, x, y, z
  <2>2. /\ x < y => ~(y < x)
        /\ x < y /\ ~(z < y) => x < z
    BY <1>1
  <2> QED BY <2>1, <2>2 DEF u, v, w, x, y, z
<1>3. CASE basis = "relative"
  <2>1. /\ (Pv!Less(basis, u, v) <=> x * j < y * i) /\ (Pv!Less(basis, v, u) <=> y * i < x * j)
        /\ (Pv!Less(basis, w, v) <=> z * j < y * k) /\ (Pv!Less(basis, u, w) <=> x * k < z * i)
    BY <1>3 DEF Pv!Less
  <2> HIDE DEF u, v, w, x, y, z, i, j, k
  <2>2. x * j \in Int /\ y * i \in Int /\ z * j \in Int /\ y * k \in Int
    BY <1>1
  <2>3. x * j < y * i => ~(y * i < x * j)
    BY <2>2
  <2>4. x * j < y * i /\ ~(z * j < y * k) => x * k < z * i
    <3> SUFFICES ASSUME x * j < y * i, ~(z * j < y * k) PROVE x * k < z * i
      OBVIOUS
    <3>1. x * j <= y * i /\ y * k <= z * j
      BY <2>2
    <3> QED BY <1>1, <1>3, <3>1, CrossLess
  <2> QED BY <2>1, <2>3, <2>4 DEF u, v, w
<1> QED BY <1>2, <1>3 DEF Bases

\* The accounts below one, by name and by number.
BelowSet(basis, a) == {b \in Pv!RankedAccounts : Pv!Less(basis, values[b], values[a])}

LEMMA RankedIsFinite == IsFiniteSet(Pv!RankedAccounts) /\ Cardinality(Pv!RankedAccounts) \in Nat
<1>1. Pv!RankedAccounts \subseteq PdAccount
  BY DEF Pv!RankedAccounts
<1> QED BY <1>1, PdAssumption, FS_Subset, FS_CardinalityType

LEMMA BelowCounts ==
    ASSUME NEW basis, NEW a
    PROVE  /\ BelowSet(basis, a) \subseteq Pv!RankedAccounts /\ IsFiniteSet(BelowSet(basis, a))
           /\ Pv!Below(basis, a) = Cardinality(BelowSet(basis, a)) /\ Pv!Below(basis, a) \in Nat
<1>1. BelowSet(basis, a) \subseteq Pv!RankedAccounts /\ Pv!Below(basis, a) = Cardinality(BelowSet(basis, a))
  BY Counts DEF BelowSet, Pv!Below
<1>2. IsFiniteSet(BelowSet(basis, a))
  BY <1>1, RankedIsFinite, FS_Subset
<1> QED BY <1>1, <1>2, FS_CardinalityType

\* An account that is less is ranked below, and one that is not is not.
LEMMA LessIsBelow ==
    ASSUME PdInv, NEW basis \in Bases, Pv!Ranked(basis), NEW a \in Pv!RankedAccounts, NEW b \in Pv!RankedAccounts
    PROVE  /\ Pv!Less(basis, values[a], values[b]) => Pv!Below(basis, a) < Pv!Below(basis, b)
           /\ ~Pv!Less(basis, values[a], values[b]) => Pv!Below(basis, b) <= Pv!Below(basis, a)
<1>1. ASSUME Pv!Less(basis, values[a], values[b]) PROVE Pv!Below(basis, a) < Pv!Below(basis, b)
  <2>1. BelowSet(basis, a) \subseteq BelowSet(basis, b) /\ a \in BelowSet(basis, b) /\ a \notin BelowSet(basis, a)
    BY <1>1, LessIsAnOrder DEF BelowSet
  <2>2. /\ Cardinality(BelowSet(basis, a)) <= Cardinality(BelowSet(basis, b))
        /\ Cardinality(BelowSet(basis, a)) # Cardinality(BelowSet(basis, b))
    BY <2>1, BelowCounts, FS_Subset
  <2> QED BY <2>2, BelowCounts
<1>2. ASSUME ~Pv!Less(basis, values[a], values[b]) PROVE Pv!Below(basis, b) <= Pv!Below(basis, a)
  <2>1. BelowSet(basis, b) \subseteq BelowSet(basis, a)
    BY <1>2, LessIsAnOrder DEF BelowSet
  <2> QED BY <2>1, BelowCounts, FS_Subset
<1> QED BY <1>1, <1>2

LEMMA BudgetIsKept == PdInv => Pv!AlertsKeepToBudget
<1> SUFFICES ASSUME PdInv, NEW basis \in Bases, Pv!Ranked(basis), NEW p \in Pv!Percentile
             PROVE  100 * Cardinality(Pv!Alerts(basis, p)) <= (100 - p) * Cardinality(Pv!RankedAccounts)
  BY Counts DEF Pv!AlertsKeepToBudget, Bases
<1> DEFINE A == Pv!Alerts(basis, p)
           n == Cardinality(Pv!RankedAccounts)
<1>1. A \subseteq Pv!RankedAccounts /\ IsFiniteSet(A) /\ Cardinality(A) \in Nat /\ n \in Nat /\ p \in Nat /\ p <= 100
  BY RankedIsFinite, FS_Subset, FS_CardinalityType DEF Pv!Alerts, Pv!Percentile
<1>2. CASE A = {}
  <2>1. Cardinality(A) = 0
    BY <1>2, FS_EmptySet
  <2>2. 0 <= (100 - p) * n
    BY <1>1
  <2> QED BY <2>1, <2>2
<1>3. CASE A # {}
  <2> DEFINE T == {Pv!Below(basis, a) : a \in A}
  <2>1. T \subseteq Nat /\ T # {}
    BY <1>1, <1>3, BelowCounts
  <2>2. PICK m \in T : \A k \in T : ~(<<k, m>> \in OpToRel(<, Nat))
    BY <2>1, NatLessThanWellFounded, WFMin
  <2>3. \A k \in T : ~(k < m)
    BY <2>1, <2>2 DEF OpToRel
  <2>4. PICK a \in A : Pv!Below(basis, a) = m
    BY <2>2
  <2>5. \A b \in A : ~Pv!Less(basis, values[b], values[a])
    <3> SUFFICES ASSUME NEW b \in A, Pv!Less(basis, values[b], values[a]) PROVE FALSE
      OBVIOUS
    <3>1. Pv!Below(basis, b) < Pv!Below(basis, a)
      BY <1>1, LessIsBelow
    <3> QED BY <2>3, <2>4, <3>1
  <2> DEFINE L == BelowSet(basis, a)
  <2>6. A \cap L = {} /\ A \cup L \subseteq Pv!RankedAccounts
    BY <1>1, <2>5, BelowCounts DEF BelowSet
  <2>7. IsFiniteSet(L) /\ Cardinality(L) \in Nat /\ m = Cardinality(L)
    BY <2>4, BelowCounts
  <2>8. 100 * m >= p * n
    BY Counts, <2>4 DEF Pv!Alerts
  <2> HIDE DEF A, L, n
  <2>9. /\ Cardinality(A \cup L) = Cardinality(A) + Cardinality(L) - Cardinality(A \cap L)
        /\ Cardinality(A \cap L) = 0 /\ Cardinality(A \cup L) <= n
    <3>1. Cardinality(A \cap L) = 0
      BY <2>6, FS_EmptySet
    <3>2. Cardinality(A \cup L) <= n
      BY <2>6, RankedIsFinite, FS_Subset DEF n
    <3> QED BY <1>1, <2>7, <3>1, <3>2, FS_Union
  <2>10. Cardinality(A) + m <= n
    BY <1>1, <2>7, <2>9
  <2>11. (100 - p) * n = 100 * n - p * n /\ p * n \in Nat
    BY <1>1
  <2> QED BY <1>1, <2>7, <2>8, <2>10, <2>11 DEF A, n
<1> QED BY <1>2, <1>3

LEMMA WorstFirst == PdInv => Pv!WorstAreAlerted
<1> SUFFICES ASSUME PdInv, NEW basis \in Bases, Pv!Ranked(basis), NEW p \in Pv!Percentile,
                    NEW a \in Pv!Alerts(basis, p), NEW b \in Pv!RankedAccounts \ Pv!Alerts(basis, p)
             PROVE  Pv!Less(basis, values[b], values[a])
  BY DEF Pv!WorstAreAlerted, Bases
<1>1. a \in Pv!RankedAccounts /\ b \in Pv!RankedAccounts
  BY DEF Pv!Alerts
<1>2. /\ Pv!Below(basis, a) \in Nat /\ Pv!Below(basis, b) \in Nat
      /\ p * Cardinality(Pv!RankedAccounts) \in Int
  BY BelowCounts, RankedIsFinite DEF Pv!Percentile
<1>3. /\ 100 * Pv!Below(basis, a) >= p * Cardinality(Pv!RankedAccounts)
      /\ ~(100 * Pv!Below(basis, b) >= p * Cardinality(Pv!RankedAccounts))
  BY Counts DEF Pv!Alerts
<1>4. Pv!Below(basis, b) < Pv!Below(basis, a)
  BY <1>2, <1>3
<1> QED BY <1>1, <1>2, <1>4, LessIsBelow

LEMMA DirectionAgrees == PdInv => Pv!BasesAgreeOnDirection
<1> SUFFICES ASSUME PdInv, Pv!Ranked("relative"), NEW a \in Pv!RankedAccounts, NEW b \in Pv!RankedAccounts,
                    Pv!Absolute(values[a]) > 0, Pv!Absolute(values[b]) <= 0
             PROVE  Pv!Below("absolute", a) > Pv!Below("absolute", b) /\ Pv!Below("relative", a) > Pv!Below("relative", b)
  BY DEF Pv!BasesAgreeOnDirection
<1> DEFINE x == Pv!Absolute(values[a])  y == Pv!Absolute(values[b])
           i == values[a].from  j == values[b].from
<1>1. i \in Nat /\ j \in Nat /\ i > 0 /\ j > 0 /\ x \in Int /\ y \in Int /\ x > 0 /\ y <= 0
  BY DEF PdInv, PdTypes, Pv!RankedAccounts, Pv!Absolute, Pv!Ranked
<1>2. Pv!Ranked("absolute")
  BY DEF Pv!Ranked
<1>3. /\ Pv!Less("absolute", values[b], values[a]) <=> y < x
      /\ Pv!Less("relative", values[b], values[a]) <=> y * i < x * j
  BY DEF Pv!Less
<1> HIDE DEF x, y, i, j
<1>4. y < x
  BY <1>1
<1>5. y * i < x * j
  <2>1. x * j > 0 /\ y * i <= 0 /\ x * j \in Int /\ y * i \in Int
    BY <1>1
  <2> QED BY <2>1
<1>6. /\ Pv!Below("absolute", b) < Pv!Below("absolute", a) /\ Pv!Below("relative", b) < Pv!Below("relative", a)
  BY <1>2, <1>3, <1>4, <1>5, LessIsBelow DEF Bases
<1> QED BY <1>6, BelowCounts

LEMMA CalendarDropsOut == PdInv => Pv!CalendarIsNotRanked
<1> SUFFICES ASSUME PdInv, Pv!Ranked("absolute"), NEW a \in Pv!RankedAccounts, NEW b \in Pv!RankedAccounts,
                    Pv!Absolute(values[a]) > 0,
                    (PdWindow - PdTolerance) * Pv!Absolute(values[b]) * values[a].days
                      > (PdWindow + PdTolerance) * Pv!Absolute(values[a]) * values[b].days
             PROVE  Pv!Below("absolute", b) > Pv!Below("absolute", a)
  BY DEF Pv!CalendarIsNotRanked
<1> DEFINE x == Pv!Absolute(values[a])  y == Pv!Absolute(values[b])
           c == values[a].days  d == values[b].days
           low == PdWindow - PdTolerance  high == PdWindow + PdTolerance
<1>1. /\ x \in Int /\ y \in Int /\ c \in Nat /\ d \in Nat /\ Pv!Comparable(c) /\ Pv!Comparable(d)
  BY DEF PdInv, PdTypes, Pv!RankedAccounts, Pv!Absolute
<1>2. /\ low \in Nat /\ high \in Nat /\ c >= low /\ c <= high /\ d >= low /\ d <= high
      /\ c > 0 /\ d > 0 /\ high > 0
  BY <1>1, PdAssumption DEF Pv!Comparable
<1>3. x > 0 /\ (low * y) * c > (high * x) * d
  OBVIOUS
<1>4. Pv!Less("absolute", values[a], values[b]) <=> x < y
  BY DEF Pv!Less
<1> HIDE DEF x, y, c, d, low, high
<1>5. x < y
  <2> SUFFICES ASSUME y <= x PROVE FALSE
    BY <1>1
  <2>1. \A p, q \in Int, n \in Nat : p <= q => p * n <= q * n /\ n * p <= n * q
    OBVIOUS
  <2>2. low * y <= low * x /\ low * y \in Int /\ low * x \in Nat /\ high * x \in Nat
    BY <1>1, <1>2, <1>3, <2>1
  <2>3. (low * y) * c <= (low * x) * c /\ (low * x) * c <= (low * x) * high
    BY <1>1, <1>2, <2>1, <2>2
  <2>4. (low * x) * high = (high * x) * low /\ (high * x) * low <= (high * x) * d
    BY <1>1, <1>2, <2>1, <2>2
  <2>5. /\ (low * y) * c \in Int /\ (low * x) * c \in Int /\ (high * x) * low \in Int
        /\ (high * x) * d \in Int
    BY <1>1, <1>2, <2>2
  <2> QED BY <1>3, <2>3, <2>4, <2>5
<1>6. Pv!Below("absolute", a) < Pv!Below("absolute", b)
  BY <1>4, <1>5, LessIsBelow DEF Bases
<1> QED BY <1>6, BelowCounts

LEMMA InitPd == Pv!Init => PdInv
BY DEF Pv!Init, PdInv, PdTypes

LEMMA PdInvSound == PdInv => Pv!PdVelocitySound
BY BudgetIsKept, WorstFirst, DirectionAgrees, CalendarDropsOut DEF Pv!PdVelocitySound

-----------------------------------------------------------------------------
(* The account-month panel.                                                *)

LEMMA DpdIsNumber == \A d \in PanelDpd : d \in Nat /\ d \in Int /\ d # Absent
BY PanelAssumption

\* What ReadMonth() leaves of a loan: months read in order, the first of them at the
\* threshold, and a disposition after which nothing is read.
LoanInv(l) ==
    /\ DOMAIN panelMonths[l] \subseteq 1..panelClock
    /\ panelMonths[l] \in [DOMAIN panelMonths[l] -> PanelDpd \cup {Absent}]
    /\ default_at[l] # 0 =>
          /\ default_at[l] \in DOMAIN panelMonths[l]
          /\ panelMonths[l][default_at[l]] # Absent
          /\ panelMonths[l][default_at[l]] >= 90
    /\ \A t \in DOMAIN panelMonths[l] :
          panelMonths[l][t] # Absent /\ panelMonths[l][t] >= 90 =>
              default_at[l] # 0 /\ default_at[l] <= t
    /\ disposition[l] # Pf!NotDisposed =>
          /\ disposition[l].code \in Pf!Codes
          /\ disposition[l].at \in Nat /\ default_at[l] <= disposition[l].at
PanelInv ==
    /\ panelClock \in Nat
    /\ panelMonths = [l \in PanelLoan |-> panelMonths[l]]
    /\ default_at \in [PanelLoan -> Nat]
    /\ disposition = [l \in PanelLoan |-> disposition[l]]
    /\ \A l \in PanelLoan : LoanInv(l)

LEMMA RowTyped ==
    ASSUME NEW r \in Pf!Rows
    PROVE  /\ r.dpd \in PanelDpd \cup {Absent}
           /\ r.code \in Pf!Codes => r.dpd = Absent /\ r.back \in {0, 1}
           /\ r = Pf!NoRow => r.dpd = Absent /\ r.code \notin Pf!Codes
BY DEF Pf!Rows, Pf!NoRow, Pf!Codes

\* A month leaves a loan alone, or adds its row.
Unread(l) ==
    /\ panelMonths'[l] = panelMonths[l]
    /\ default_at'[l] = default_at[l]
    /\ disposition'[l] = disposition[l]
Added(l, r) ==
    /\ disposition[l] = Pf!NotDisposed
    /\ panelMonths'[l] = [t \in DOMAIN panelMonths[l] \cup {panelClock + 1} |->
          IF t = panelClock + 1 THEN r.dpd ELSE panelMonths[l][t]]
    /\ default_at'[l] = IF default_at[l] = 0 /\ r.dpd # Absent /\ r.dpd >= 90
                        THEN panelClock + 1 ELSE default_at[l]
    /\ disposition'[l] = IF r.code \in Pf!Codes
                         THEN [code |-> r.code, at |-> panelClock + 1 - r.back] ELSE disposition[l]
    /\ r.code \in Pf!Codes => r.back < panelClock + 1

LEMMA MonthReads ==
    ASSUME PanelInv, NEW row \in [PanelLoan -> Pf!Rows], Pf!ReadMonth(row), NEW l \in PanelLoan
    PROVE  Unread(l) \/ Added(l, row[l])
<1>1. row[l] \in Pf!Rows /\ Pf!MayReport(l, row[l])
  BY DEF Pf!ReadMonth
<1>2. /\ panelMonths'[l] = IF row[l] = Pf!NoRow THEN panelMonths[l]
                           ELSE [t \in DOMAIN panelMonths[l] \cup {panelClock + 1} |->
                                    IF t = panelClock + 1 THEN row[l].dpd ELSE panelMonths[l][t]]
      /\ default_at'[l] = IF default_at[l] = 0 /\ row[l].dpd # Absent /\ row[l].dpd >= 90
                          THEN panelClock + 1 ELSE default_at[l]
      /\ disposition'[l] = IF row[l].code \in Pf!Codes
                           THEN [code |-> row[l].code, at |-> panelClock + 1 - row[l].back] ELSE disposition[l]
  BY DEF Pf!ReadMonth, Pf!DefaultDpd
<1>3. CASE row[l] = Pf!NoRow
  BY <1>1, <1>2, <1>3, RowTyped DEF Unread
<1>4. CASE row[l] # Pf!NoRow
  BY <1>1, <1>2, <1>4 DEF Added, Pf!MayReport
<1> QED BY <1>3, <1>4

LEMMA PanelStays == PanelInv /\ [Pf!Next]_panelVars => PanelInv'
<1> SUFFICES ASSUME PanelInv, [Pf!Next]_panelVars PROVE PanelInv'
  OBVIOUS
<1>1. CASE UNCHANGED panelVars
  BY <1>1 DEF PanelInv, LoanInv, panelVars
<1>2. ASSUME NEW row \in [PanelLoan -> Pf!Rows], Pf!ReadMonth(row) PROVE PanelInv'
  <2>1. /\ panelClock \in Nat /\ panelClock' = panelClock + 1
        /\ panelMonths' = [l \in PanelLoan |-> panelMonths'[l]]
        /\ disposition' = [l \in PanelLoan |-> disposition'[l]]
        /\ default_at' = [l \in PanelLoan |-> default_at'[l]]
    BY <1>2 DEF PanelInv, Pf!ReadMonth
  <2>2. ASSUME NEW l \in PanelLoan PROVE default_at'[l] \in Nat /\ LoanInv(l)'
    <3>1. LoanInv(l) /\ default_at[l] \in Nat
      BY DEF PanelInv
    <3>2. CASE Unread(l)
      BY <3>1, <3>2, <2>1 DEF Unread, LoanInv
    <3>3. CASE Added(l, row[l])
      <4> DEFINE r == row[l]
      <4>1. /\ r.dpd \in PanelDpd \cup {Absent}
            /\ r.code \in Pf!Codes => r.dpd = Absent /\ r.back \in {0, 1}
        BY RowTyped
      <4>2. /\ DOMAIN panelMonths'[l] = DOMAIN panelMonths[l] \cup {panelClock + 1}
            /\ DOMAIN panelMonths[l] \subseteq 1..panelClock
            /\ panelMonths'[l][panelClock + 1] = r.dpd
            /\ \A t \in DOMAIN panelMonths[l] : panelMonths'[l][t] = panelMonths[l][t]
        BY <3>1, <3>3, <2>1 DEF Added, LoanInv
      <4>3. default_at'[l] \in Nat
        BY <3>1, <3>3, <2>1 DEF Added
      <4>4. (DOMAIN panelMonths[l])' \subseteq 1..panelClock'
        BY <4>2, <2>1
      <4>5. panelMonths'[l] \in [DOMAIN panelMonths'[l] -> PanelDpd \cup {Absent}]
        BY <4>1, <3>1, <3>3 DEF Added, LoanInv
      <4>6. default_at'[l] # 0 =>
              /\ default_at'[l] \in DOMAIN panelMonths'[l]
              /\ panelMonths'[l][default_at'[l]] # Absent
              /\ panelMonths'[l][default_at'[l]] >= 90
        BY <4>2, <3>1, <3>3 DEF Added, LoanInv
      <4>7. ASSUME NEW t \in DOMAIN panelMonths'[l],
                   panelMonths'[l][t] # Absent, panelMonths'[l][t] >= 90
            PROVE  default_at'[l] # 0 /\ default_at'[l] <= t
        <5>1. CASE t = panelClock + 1
          BY <5>1, <4>7, <4>2, <3>1, <3>3, <2>1 DEF Added, LoanInv
        <5>2. CASE t \in DOMAIN panelMonths[l]
          BY <5>2, <4>7, <4>2, <3>1, <3>3, <2>1 DEF Added, LoanInv
        <5> QED BY <5>1, <5>2, <4>2
      <4>8. disposition'[l] # Pf!NotDisposed =>
              /\ disposition'[l].code \in Pf!Codes
              /\ disposition'[l].at \in Nat /\ default_at'[l] <= disposition'[l].at
        <5>1. r.code \in Pf!Codes => default_at'[l] = default_at[l] /\ default_at[l] <= panelClock
          BY <4>1, <4>2, <3>1, <3>3, <2>1 DEF Added, LoanInv, PanelInv
        <5> QED BY <4>1, <5>1, <3>1, <3>3, <2>1 DEF Added
      <4> QED BY <4>3, <4>4, <4>5, <4>6, <4>7, <4>8 DEF LoanInv
    <3> QED BY <3>2, <3>3, MonthReads, <1>2
  <2> QED BY <2>1, <2>2 DEF PanelInv
<1> QED BY <1>1, <1>2 DEF Pf!Next

LEMMA InitPanel == Pf!Init => PanelInv
BY DEF Pf!Init, PanelInv, LoanInv, Pf!NotDisposed

\* The first month, the last one and how the spell ended.
LEMMA SpellEnds ==
    ASSUME PanelInv, NEW l \in Pf!Spelled
    PROVE  /\ l \in PanelLoan /\ LoanInv(l)
           /\ DOMAIN panelMonths[l] \subseteq 1..panelClock
           /\ Pf!Earliest(l) \in DOMAIN panelMonths[l]
           /\ \A t \in DOMAIN panelMonths[l] : Pf!Earliest(l) <= t
           /\ Pf!Latest(l) \in DOMAIN panelMonths[l]
           /\ \A t \in DOMAIN panelMonths[l] : Pf!Latest(l) >= t
           /\ Pf!Event(l) # Pf!NoEvent =>
                 /\ Pf!Event(l).type \in {"default", "prepaid"}
                 /\ Pf!Event(l).at \in Nat /\ Pf!Event(l).at >= Pf!Earliest(l)
           /\ Pf!Event(l).type = "none" <=> Pf!Event(l) = Pf!NoEvent
           /\ default_at[l] # 0 => Pf!Event(l) = [type |-> "default", at |-> default_at[l]]
<1>1. /\ l \in PanelLoan /\ LoanInv(l) /\ panelClock \in Nat
      /\ DOMAIN panelMonths[l] \subseteq 1..panelClock /\ DOMAIN panelMonths[l] # {}
      /\ default_at[l] \in Nat
  BY DEF Pf!Spelled, PanelInv, LoanInv
<1>2. /\ DOMAIN panelMonths[l] \in SUBSET Nat
      /\ \A t \in DOMAIN panelMonths[l] : t <= panelClock
  BY <1>1
<1>3. /\ Pf!Earliest(l) \in DOMAIN panelMonths[l]
      /\ \A t \in DOMAIN panelMonths[l] : Pf!Earliest(l) <= t
  <2>1. \E t \in DOMAIN panelMonths[l] : \A u \in DOMAIN panelMonths[l] : t <= u
    BY <1>1, <1>2, LeastExists
  <2> QED BY <2>1 DEF Pf!Earliest
<1>4. /\ Pf!Latest(l) \in DOMAIN panelMonths[l]
      /\ \A t \in DOMAIN panelMonths[l] : Pf!Latest(l) >= t
  <2>1. \E t \in DOMAIN panelMonths[l] : \A u \in DOMAIN panelMonths[l] : t >= u
    <3>1. 1 \in Int /\ panelClock \in Int /\ DOMAIN panelMonths[l] \in SUBSET (1..panelClock)
      BY <1>1
    <3> QED BY <3>1, <1>1, GreatestExists
  <2> QED BY <2>1 DEF Pf!Latest
<1>5. Pf!Earliest(l) \in Nat
  BY <1>2, <1>3
<1>6. \/ Pf!ResolveEvent(l) = Pf!NoEvent
      \/ Pf!ResolveEvent(l).type \in {"default", "prepaid"} /\ Pf!ResolveEvent(l).at \in Nat
  <2>1. disposition[l].code \in {"loss", "prepaid"} => disposition[l].at \in Nat
    BY <1>1 DEF LoanInv, Pf!NotDisposed
  <2> QED BY <1>1, <2>1 DEF Pf!ResolveEvent, Pf!NoEvent
<1>7. /\ Pf!Event(l) # Pf!NoEvent =>
            /\ Pf!Event(l).type \in {"default", "prepaid"}
            /\ Pf!Event(l).at \in Nat /\ Pf!Event(l).at >= Pf!Earliest(l)
      /\ Pf!Event(l).type = "none" <=> Pf!Event(l) = Pf!NoEvent
  BY <1>5, <1>6 DEF Pf!Event, Pf!NoEvent
<1>8. default_at[l] # 0 => Pf!Event(l) = [type |-> "default", at |-> default_at[l]]
  BY <1>1, <1>3, <1>5 DEF Pf!Event, Pf!ResolveEvent, LoanInv
<1> QED BY <1>1, <1>3, <1>4, <1>7, <1>8

\* The worst of the months that are known.
LEMMA WorstIsKnown ==
    ASSUME PanelInv, NEW l \in PanelLoan, NEW W \in SUBSET DOMAIN panelMonths[l]
    PROVE  /\ Pf!MaxDpd(l, W) \in PanelDpd \cup {Absent}
           /\ Pf!MaxDpd(l, W) # Absent =>
                 \E t \in W : panelMonths[l][t] = Pf!MaxDpd(l, W)
           /\ \A t \in W : panelMonths[l][t] # Absent =>
                 Pf!MaxDpd(l, W) # Absent /\ panelMonths[l][t] <= Pf!MaxDpd(l, W)
<1> DEFINE known == {panelMonths[l][t] : t \in {u \in W : panelMonths[l][u] # Absent}}
<1>1. LoanInv(l) /\ panelClock \in Nat
  BY DEF PanelInv
<1>2. known \in SUBSET PanelDpd /\ PanelDpd \subseteq Nat /\ Absent \notin Nat
  BY <1>1, PanelAssumption DEF LoanInv
<1>3. Pf!MaxDpd(l, W) = IF known = {} THEN Absent ELSE CHOOSE d \in known : \A e \in known : e <= d
  BY DEF Pf!MaxDpd
<1>4. known # {} => \E d \in known : \A e \in known : e <= d
  <2> DEFINE K == {u \in W : panelMonths[l][u] # Absent}
  <2>1. IsFiniteSet(K)
    <3>1. IsFiniteSet(1..panelClock) /\ K \subseteq 1..panelClock
      BY <1>1, FS_Interval DEF LoanInv
    <3> QED BY <3>1, FS_Subset
  <2>2. \A t \in K : panelMonths[l][t] \in Int
    <3>1. \A t \in K : panelMonths[l][t] \in PanelDpd
      BY <1>1 DEF LoanInv
    <3> QED BY <3>1, DpdIsNumber
  <2>3. K # {} => \E t \in K : \A u \in K : panelMonths[l][u] <= panelMonths[l][t]
    <3> HIDE DEF K
    <3> QED BY <2>1, <2>2, FiniteGreatest
  <2> QED BY <2>3
<1>5. known # {} => Pf!MaxDpd(l, W) \in known /\ \A e \in known : e <= Pf!MaxDpd(l, W)
  BY <1>3, <1>4
<1>6. \A t \in W : panelMonths[l][t] # Absent => panelMonths[l][t] \in known
  OBVIOUS
<1> QED BY <1>2, <1>3, <1>5, <1>6

\* behavioural_rows() reads how the spell ended, the worst month of the window and the
\* clock.  These say of one loan's figures what Portfolio says of the loan.
Window(f, t) == {u \in DOMAIN f : u > t /\ u <= t + PanelHorizon}
WorstOf(f, window) ==
    LET known == {f[t] : t \in {u \in window : f[u] # Absent}}
    IN IF known = {} THEN Absent ELSE CHOOSE d \in known : \A e \in known : e <= d
Settled(default, ending) ==
    IF default # 0 THEN [type |-> "default", at |-> default]
    ELSE IF ending.code = "loss" THEN [type |-> "default", at |-> ending.at]
    ELSE IF ending.code = "prepaid" THEN [type |-> "prepaid", at |-> ending.at]
    ELSE Pf!NoEvent
First(f) == CHOOSE t \in DOMAIN f : \A u \in DOMAIN f : t <= u
EventOf(f, default, ending) ==
    IF Settled(default, ending).at < First(f) THEN Pf!NoEvent ELSE Settled(default, ending)
Ended(event, t) == event.type # "none" /\ t < event.at /\ event.at <= t + PanelHorizon
RowFrom(event, worst, t, now) ==
    IF Ended(event, t) /\ event.type = "default" THEN [label |-> "bad", by |-> "observed"]
    ELSE IF Ended(event, t) THEN [label |-> Pf!Label(Pf!OrZero(worst), FALSE), by |-> "terminated"]
    ELSE IF t + PanelHorizon > now THEN [label |-> "none", by |-> "censored"]
    ELSE IF worst = Absent THEN [label |-> "none", by |-> "unobserved"]
    ELSE [label |-> Pf!Label(worst, FALSE), by |-> "observed"]

RowsRead ==
    \A l \in Pf!Spelled : \A t \in DOMAIN panelMonths[l] :
        Pf!BehaviouralRow(l, t) =
            RowFrom(EventOf(panelMonths[l], default_at[l], disposition[l]),
                    WorstOf(panelMonths[l], Window(panelMonths[l], t)), t, panelClock)
LEMMA RowRead == PanelInv => RowsRead
<1> SUFFICES ASSUME PanelInv, NEW l \in Pf!Spelled, NEW t \in DOMAIN panelMonths[l]
             PROVE  Pf!BehaviouralRow(l, t) =
                        RowFrom(EventOf(panelMonths[l], default_at[l], disposition[l]),
                                WorstOf(panelMonths[l], Window(panelMonths[l], t)), t, panelClock)
  BY DEF RowsRead
<1>a. Pf!MaxDpd(l, Window(panelMonths[l], t)) = WorstOf(panelMonths[l], Window(panelMonths[l], t))
  BY DEF Pf!MaxDpd, WorstOf
<1>b. Pf!Event(l) = EventOf(panelMonths[l], default_at[l], disposition[l])
  BY DEF Pf!Event, EventOf, Settled, First, Pf!ResolveEvent, Pf!Earliest
<1>1. Pf!Event(l).type \in {"none", "default", "prepaid"}
  BY SpellEnds DEF Pf!NoEvent
<1>2. t \in Nat /\ t + PanelHorizon \in Nat /\ panelClock \in Nat
  <2>1. DOMAIN panelMonths[l] \subseteq 1..panelClock /\ panelClock \in Nat /\ PanelHorizon \in Nat
    BY SpellEnds, PanelAssumption DEF PanelInv
  <2> QED BY <2>1
<1> DEFINE event == Pf!Event(l)
           worst == Pf!MaxDpd(l, Window(panelMonths[l], t))
           end == t + PanelHorizon
           ended == Ended(event, t)
<1>3. Pf!BehaviouralRow(l, t) =
        CASE ended /\ event.type = "default" -> [label |-> "bad", by |-> "observed"]
          [] ended /\ event.type = "prepaid" ->
                 [label |-> Pf!Label(Pf!OrZero(worst), FALSE), by |-> "terminated"]
          [] ~ended /\ end > panelClock -> [label |-> "none", by |-> "censored"]
          [] ~ended /\ end <= panelClock /\ worst = Absent -> [label |-> "none", by |-> "unobserved"]
          [] OTHER -> [label |-> Pf!Label(worst, FALSE), by |-> "observed"]
  BY DEF Pf!BehaviouralRow, Window, Ended
<1>4. RowFrom(event, worst, t, panelClock) =
        IF ended /\ event.type = "default" THEN [label |-> "bad", by |-> "observed"]
        ELSE IF ended THEN [label |-> Pf!Label(Pf!OrZero(worst), FALSE), by |-> "terminated"]
        ELSE IF end > panelClock THEN [label |-> "none", by |-> "censored"]
        ELSE IF worst = Absent THEN [label |-> "none", by |-> "unobserved"]
        ELSE [label |-> Pf!Label(worst, FALSE), by |-> "observed"]
  BY DEF RowFrom
<1>5. ended => event.type # "none"
  BY DEF Ended
<1> HIDE DEF event, worst, ended, end
<1>6. event.type \in {"none", "default", "prepaid"} /\ end \in Nat /\ panelClock \in Nat
  BY <1>1, <1>2 DEF event, end
<1>7. Pf!BehaviouralRow(l, t) = RowFrom(event, worst, t, panelClock)
  BY <1>3, <1>4, <1>5, <1>6
<1> QED BY <1>a, <1>b, <1>7 DEF event, worst

\* A label good was earned.
LEMMA GoodRow ==
    ASSUME PanelInv, NEW l \in Pf!Spelled, NEW t \in DOMAIN panelMonths[l],
           Pf!BehaviouralRow(l, t).label = "good"
    PROVE  LET worst == Pf!MaxDpd(l, Window(panelMonths[l], t)) IN
           /\ ~(Ended(Pf!Event(l), t) /\ Pf!Event(l).type = "default")
           /\ worst # Absent => Pf!Label(worst, FALSE) = "good"
           /\ worst = Absent => Ended(Pf!Event(l), t)
<1> DEFINE worst == Pf!MaxDpd(l, Window(panelMonths[l], t))
           event == Pf!Event(l)
<1>1. Pf!BehaviouralRow(l, t) = RowFrom(event, worst, t, panelClock)
  <2>1. worst = WorstOf(panelMonths[l], Window(panelMonths[l], t))
    BY DEF Pf!MaxDpd, WorstOf
  <2>2. event = EventOf(panelMonths[l], default_at[l], disposition[l])
    BY DEF Pf!Event, EventOf, Settled, First, Pf!ResolveEvent, Pf!Earliest
  <2> QED BY <2>1, <2>2, RowRead DEF RowsRead
<1> HIDE DEF worst, event
<1>2. /\ ~(Ended(event, t) /\ event.type = "default")
      /\ worst # Absent => Pf!Label(worst, FALSE) = "good"
      /\ worst = Absent => Ended(event, t)
  <2>1. \A d : RowFrom(event, d, t, panelClock).label = "good" =>
            /\ ~(Ended(event, t) /\ event.type = "default")
            /\ Pf!Label(Pf!OrZero(d), FALSE) = "good" \/ (d # Absent /\ Pf!Label(d, FALSE) = "good")
            /\ d = Absent => Ended(event, t)
    BY DEF RowFrom
  <2>2. RowFrom(event, worst, t, panelClock).label = "good"
    BY <1>1
  <2> QED BY <2>1, <2>2 DEF Pf!OrZero
<1> QED BY <1>2 DEF worst, event

LEMMA GoodWasEarned == PanelInv => Pf!GoodIsEarned
<1> SUFFICES ASSUME PanelInv, NEW l \in Pf!Spelled, NEW t \in DOMAIN panelMonths[l],
                    Pf!BehaviouralRow(l, t).label = "good"
             PROVE  LET known == {u \in DOMAIN panelMonths[l] :
                                     Pf!InWindow(t, u) /\ panelMonths[l][u] # Absent}
                        Left(code) == /\ disposition[l].code = code
                                      /\ Pf!InWindow(t, disposition[l].at)
                    IN /\ \A u \in known : panelMonths[l][u] < 30
                       /\ known = {} => Left("prepaid")
                       /\ Left("loss") => default_at[l] \in 1..t
  BY DEF Pf!GoodIsEarned, Pf!IndeterminateDpd
<1> DEFINE worst == Pf!MaxDpd(l, Window(panelMonths[l], t))
           known == {u \in DOMAIN panelMonths[l] : Pf!InWindow(t, u) /\ panelMonths[l][u] # Absent}
<1>1. /\ ~(Ended(Pf!Event(l), t) /\ Pf!Event(l).type = "default")
      /\ worst # Absent => Pf!Label(worst, FALSE) = "good"
      /\ worst = Absent => Ended(Pf!Event(l), t)
  BY GoodRow
<1>2. /\ worst \in PanelDpd \cup {Absent}
      /\ worst # Absent => \E u \in Window(panelMonths[l], t) : panelMonths[l][u] = worst
      /\ \A u \in Window(panelMonths[l], t) : panelMonths[l][u] # Absent =>
             worst # Absent /\ panelMonths[l][u] <= worst
  <2>1. l \in PanelLoan /\ Window(panelMonths[l], t) \in SUBSET DOMAIN panelMonths[l]
    BY DEF Pf!Spelled, Window
  <2> QED BY <2>1, WorstIsKnown
<1>3. known = {u \in Window(panelMonths[l], t) : panelMonths[l][u] # Absent}
  BY DEF Window, Pf!InWindow
<1>4. /\ l \in PanelLoan /\ LoanInv(l) /\ default_at[l] \in Nat /\ t \in Nat /\ t >= Pf!Earliest(l)
      /\ Pf!Earliest(l) \in Nat /\ PanelHorizon \in Nat
  <2>1. Pf!Earliest(l) \in DOMAIN panelMonths[l] /\ Pf!Earliest(l) <= t
    BY SpellEnds
  <2>2. /\ l \in PanelLoan /\ LoanInv(l) /\ default_at[l] \in Nat /\ panelClock \in Nat
        /\ DOMAIN panelMonths[l] \subseteq 1..panelClock
    BY DEF Pf!Spelled, PanelInv, LoanInv
  <2> QED BY <2>1, <2>2, PanelAssumption
<1> HIDE DEF worst
<1>5. ASSUME NEW u \in known PROVE panelMonths[l][u] < 30
  <2>1. worst # Absent /\ panelMonths[l][u] <= worst /\ panelMonths[l][u] \in PanelDpd
    BY <1>2, <1>3, <1>4 DEF LoanInv
  <2>2. worst \in Int /\ panelMonths[l][u] \in Int
    BY <1>2, <2>1, DpdIsNumber
  <2> QED BY <1>1, <2>1, <2>2 DEF Pf!Label, Pf!DefaultDpd, Pf!IndeterminateDpd
<1>6. ASSUME known = {} PROVE disposition[l].code = "prepaid" /\ Pf!InWindow(t, disposition[l].at)
  <2>1. Ended(Pf!Event(l), t)
    BY <1>1, <1>2, <1>3, <1>6
  <2>2. Pf!Event(l).type = "prepaid" /\ t < Pf!Event(l).at /\ Pf!Event(l).at <= t + PanelHorizon
    BY <1>1, <2>1, SpellEnds DEF Ended
  <2> QED BY <2>2 DEF Pf!Event, Pf!ResolveEvent, Pf!NoEvent, Pf!InWindow
<1>7. ASSUME disposition[l].code = "loss", Pf!InWindow(t, disposition[l].at)
      PROVE  default_at[l] \in 1..t
  <2>1. /\ disposition[l].at \in Nat /\ default_at[l] <= disposition[l].at
        /\ t < disposition[l].at /\ disposition[l].at <= t + PanelHorizon
    BY <1>4, <1>7 DEF LoanInv, Pf!InWindow, Pf!NotDisposed
  <2>2. default_at[l] # 0
    <3> SUFFICES ASSUME default_at[l] = 0 PROVE FALSE
      OBVIOUS
    <3>1. Pf!ResolveEvent(l) = [type |-> "default", at |-> disposition[l].at]
      BY <1>7 DEF Pf!ResolveEvent
    <3>2. Pf!Event(l) = [type |-> "default", at |-> disposition[l].at]
      BY <3>1, <2>1, <1>4 DEF Pf!Event
    <3> QED BY <1>1, <2>1, <3>2 DEF Ended
  <2>3. ~(t < default_at[l])
    <3> SUFFICES ASSUME t < default_at[l] PROVE FALSE
      OBVIOUS
    <3>1. Pf!Event(l) = [type |-> "default", at |-> default_at[l]]
      BY <2>2, SpellEnds
    <3> QED BY <1>1, <1>4, <2>1, <3>1 DEF Ended
  <2> QED BY <1>4, <2>2, <2>3
<1> QED BY <1>5, <1>6, <1>7

\* Each event is counted once.
LEMMA EndsOnce == PanelInv => Pf!EventsCountOnce
<1> SUFFICES ASSUME PanelInv, NEW l \in Pf!Spelled
             PROVE  LET ending == {r \in Pf!HazardRows(l) : r.cause # "perform"} IN
                    /\ Pf!Cardinality(ending) = IF Pf!Event(l) = Pf!NoEvent THEN 0 ELSE 1
                    /\ \A e \in ending : \A r \in Pf!HazardRows(l) : r.at <= e.at
                    /\ DOMAIN panelMonths[l] # {} => Pf!HazardRows(l) # {}
  BY DEF Pf!EventsCountOnce
<1> DEFINE event == Pf!Event(l)
           Row(t) == [at |-> t, mob |-> t, cause |-> IF t = event.at THEN event.type ELSE "perform"]
           atRisk == {t \in DOMAIN panelMonths[l] : event = Pf!NoEvent \/ t <= event.at}
           rows == {Row(t) : t \in atRisk}
           step == IF event.at - Pf!Latest(l) > 1 THEN event.at - Pf!Latest(l) ELSE 1
           added == [at |-> event.at, mob |-> Pf!Latest(l) + step, cause |-> event.type]
           ending == {r \in Pf!HazardRows(l) : r.cause # "perform"}
<1>1. Pf!HazardRows(l) = IF event = Pf!NoEvent \/ event.at \in atRisk THEN rows ELSE rows \cup {added}
  BY DEF Pf!HazardRows
<1>2. /\ DOMAIN panelMonths[l] # {} /\ DOMAIN panelMonths[l] \subseteq 1..panelClock /\ panelClock \in Nat
      /\ event # Pf!NoEvent => event.type \in {"default", "prepaid"} /\ event.at \in Nat
                               /\ Pf!Earliest(l) \in atRisk
  <2>1. event # Pf!NoEvent => Pf!Earliest(l) <= event.at
    <3>1. DOMAIN panelMonths[l] \subseteq 1..panelClock /\ Pf!Earliest(l) \in DOMAIN panelMonths[l]
      BY SpellEnds
    <3>2. Pf!Earliest(l) \in Nat
      BY <3>1
    <3> QED BY <3>2, SpellEnds
  <2> QED BY SpellEnds, <2>1 DEF PanelInv
<1> HIDE DEF event
<1>3. CASE event = Pf!NoEvent
  <2>1. Pf!HazardRows(l) = rows /\ atRisk = DOMAIN panelMonths[l]
    BY <1>1, <1>3
  <2>2. \A r \in rows : r.cause = "perform"
    <3>1. \A t \in DOMAIN panelMonths[l] : t # 0
      BY <1>2
    <3>2. event.at = 0
      BY <1>3 DEF Pf!NoEvent
    <3> QED BY <3>1, <3>2
  <2>3. ending = {} /\ rows # {}
    <3>1. PICK t \in atRisk : TRUE
      BY <2>1, <1>2
    <3>2. Row(t) \in rows
      BY <3>1
    <3> QED BY <3>2, <2>1, <2>2
  <2> QED BY <2>1, <2>3, <1>3, Counts, FS_EmptySet DEF event
<1>4. CASE event # Pf!NoEvent
  <2>1. PICK last \in Pf!HazardRows(l) :
            /\ last.at = event.at /\ last.cause # "perform"
            /\ \A r \in Pf!HazardRows(l) : r.at <= event.at /\ (r.cause # "perform" => r = last)
    <3>1. CASE event.at \in atRisk
      <4>1. Pf!HazardRows(l) = rows /\ Row(event.at) \in rows
        BY <1>1, <3>1
      <4>2. Row(event.at).at = event.at /\ Row(event.at).cause # "perform"
        BY <1>2, <1>4
      <4>3. \A r \in rows : r.at <= event.at /\ (r.cause # "perform" => r = Row(event.at))
        BY <1>2, <1>4
      <4> QED BY <4>1, <4>2, <4>3
    <3>2. CASE event.at \notin atRisk
      <4>1. Pf!HazardRows(l) = rows \cup {added}
        BY <1>1, <1>4, <3>2
      <4>2. added.at = event.at /\ added.cause # "perform"
        BY <1>2, <1>4
      <4>3. \A r \in rows : r.at <= event.at /\ r.cause = "perform"
        BY <1>2, <1>4, <3>2
      <4>4. event.at <= event.at
        BY <1>2, <1>4
      <4> QED BY <4>1, <4>2, <4>3, <4>4
    <3> QED BY <3>1, <3>2
  <2>2. ending = {last}
    BY <2>1
  <2>3. Pf!Cardinality(ending) = 1
    BY <2>2, Counts, FS_Singleton
  <2>4. \A e \in ending : \A r \in Pf!HazardRows(l) : r.at <= e.at
    BY <2>1, <2>2
  <2> QED BY <2>1, <2>3, <2>4, <1>4 DEF event
<1> QED BY <1>3, <1>4

\* A policy that evaluates more arms fires more of them.
LEMMA StagesKeepOrder == PanelInv => Pf!StagesAgree
<1> SUFFICES ASSUME PanelInv, NEW l \in Pf!Spelled, NEW ratio \in Pf!Ratio \cup {Absent}, NEW red \in BOOLEAN,
                    NEW item, item = Pf!Item(l, ratio, red)
             PROVE  LET stages == {[policy |-> r, stage |-> Pf!Classify(r, item)] : r \in Pf!Policy} IN
                    \A s \in stages :
                       /\ \A t \in stages : Pf!Stricter(s.policy, t.policy) =>
                             Pf!Severity(t.stage) >= Pf!Severity(s.stage)
                       /\ s.stage = "one" => /\ Pf!Label(Pf!OrZero(item.dpd), FALSE) = "good"
                                             /\ ratio # Absent /\ ratio <= s.policy.sicr_threshold
                       /\ s.stage = "three" => Pf!Event(l).type = "default"
  BY DEF Pf!StagesAgree
<1> DEFINE bad == Pf!Label(Pf!OrZero(item.dpd), item.written_off = TRUE) = "bad"
           Fires(r) == Pf!Triggers(r, item) # {}
<1>1. /\ item.dpd = panelMonths[l][Pf!Latest(l)] /\ item.ratio = ratio /\ item.red = red
      /\ item.written_off = IF Pf!Event(l).type = "default" THEN TRUE ELSE Absent
  BY DEF Pf!Item
<1>2. Pf!Latest(l) \in DOMAIN panelMonths[l] /\ LoanInv(l) /\ l \in PanelLoan
  BY SpellEnds
<1>3. item.dpd # Absent => item.dpd \in Int
  <2>1. item.dpd \in PanelDpd \cup {Absent}
    BY <1>1, <1>2 DEF LoanInv
  <2> QED BY <2>1, DpdIsNumber
<1>4. Pf!OrZero(item.dpd) = IF item.dpd = Absent THEN 0 ELSE item.dpd
  BY DEF Pf!OrZero
<1>5. bad <=> Pf!OrZero(item.dpd) >= 90 \/ item.written_off = TRUE
  BY DEF Pf!Label, Pf!DefaultDpd
<1>6. \A r \in Pf!Policy :
        Fires(r) <=> \/ item.dpd # Absent /\ item.dpd >= 30
                     \/ r.ews_enabled /\ item.red
                     \/ r.sicr_threshold # Absent /\ ratio # Absent /\ ratio > r.sicr_threshold
  BY <1>1 DEF Pf!Triggers, Pf!DpdBackstop
<1>7. \A r \in Pf!Policy :
        Pf!Classify(r, item) = IF bad THEN "three" ELSE IF Fires(r) THEN "two"
                               ELSE IF r.sicr_threshold = Absent \/ ratio = Absent THEN "none" ELSE "one"
  BY <1>1 DEF Pf!Classify
<1>8. ratio # Absent => ratio \in Int
  BY DEF Pf!Ratio
<1>9. \A r \in Pf!Policy : r.sicr_threshold # Absent => r.sicr_threshold = 2
  BY DEF Pf!Policy
<1> HIDE DEF bad, Fires
<1>10. ASSUME NEW p \in Pf!Policy, NEW q \in Pf!Policy, Pf!Stricter(p, q)
       PROVE  Pf!Severity(Pf!Classify(q, item)) >= Pf!Severity(Pf!Classify(p, item))
  <2>1. Fires(p) => Fires(q)
    BY <1>6, <1>10 DEF Pf!Stricter
  <2>2. /\ Pf!Severity("none") = 1 /\ Pf!Severity("one") = 1
        /\ Pf!Severity("two") = 2 /\ Pf!Severity("three") = 3
    BY DEF Pf!Severity
  <2>3. \/ Pf!Classify(p, item) = "three" /\ Pf!Classify(q, item) = "three"
        \/ Pf!Classify(p, item) = "two" /\ Pf!Classify(q, item) = "two"
        \/ /\ Pf!Classify(p, item) \in {"none", "one"}
           /\ Pf!Classify(q, item) \in {"none", "one", "two"}
    BY <1>7, <2>1
  <2> QED BY <2>2, <2>3
<1>11. ASSUME NEW p \in Pf!Policy, Pf!Classify(p, item) = "one"
       PROVE  /\ Pf!Label(Pf!OrZero(item.dpd), FALSE) = "good"
              /\ ratio # Absent /\ ratio <= p.sicr_threshold
  <2>1. ~bad /\ ~Fires(p) /\ p.sicr_threshold # Absent /\ ratio # Absent
    BY <1>7, <1>11
  <2>2. Pf!OrZero(item.dpd) \in Int /\ Pf!OrZero(item.dpd) < 30
    BY <2>1, <1>3, <1>4, <1>6
  <2>3. ratio <= p.sicr_threshold
    BY <2>1, <1>6, <1>8, <1>9
  <2> QED BY <2>1, <2>2, <2>3 DEF Pf!Label, Pf!DefaultDpd, Pf!IndeterminateDpd
<1>12. ASSUME NEW p \in Pf!Policy, Pf!Classify(p, item) = "three" PROVE Pf!Event(l).type = "default"
  <2>1. Pf!OrZero(item.dpd) >= 90 \/ item.written_off = TRUE
    BY <1>5, <1>7, <1>12
  <2>2. CASE item.written_off = TRUE
    BY <2>2, <1>1, PanelFlagAssumption
  <2>3. CASE Pf!OrZero(item.dpd) >= 90
    <3>1. item.dpd # Absent /\ item.dpd >= 90
      BY <2>3, <1>4
    <3>2. default_at[l] # 0
      BY <3>1, <1>1, <1>2 DEF LoanInv
    <3> QED BY <3>2, SpellEnds
  <2> QED BY <2>1, <2>2, <2>3
<1>13. ASSUME NEW s \in {[policy |-> r, stage |-> Pf!Classify(r, item)] : r \in Pf!Policy}
       PROVE  s.policy \in Pf!Policy /\ s.stage = Pf!Classify(s.policy, item)
  <2>1. PICK r \in Pf!Policy : s = [policy |-> r, stage |-> Pf!Classify(r, item)]
    OBVIOUS
  <2> QED BY <2>1
<1> QED BY <1>10, <1>11, <1>12, <1>13

\* A default is dated in a month that was read, so the spell ends with it.
LEMMA DefaultEnds ==
    ASSUME NEW n \in Nat, NEW f, DOMAIN f \subseteq 1..n, NEW d \in DOMAIN f, NEW z
    PROVE  EventOf(f, d, z) = [type |-> "default", at |-> d]
<1>1. DOMAIN f \in SUBSET Nat /\ DOMAIN f # {} /\ d # 0 /\ d \in Nat
  OBVIOUS
<1>2. First(f) \in DOMAIN f /\ \A t \in DOMAIN f : First(f) <= t
  <2>1. \E t \in DOMAIN f : \A u \in DOMAIN f : t <= u
    BY <1>1, LeastExists
  <2> QED BY <2>1 DEF First
<1> QED BY <1>1, <1>2 DEF EventOf, Settled

LEMMA RowLabel ==
    ASSUME NEW event, NEW worst, NEW t, NEW now
    PROVE  RowFrom(event, worst, t, now).label =
               IF Ended(event, t) /\ event.type = "default" THEN "bad"
               ELSE IF Ended(event, t) THEN Pf!Label(Pf!OrZero(worst), FALSE)
               ELSE IF t + PanelHorizon > now THEN "none"
               ELSE IF worst = Absent THEN "none"
               ELSE Pf!Label(worst, FALSE)
BY DEF RowFrom

\* trailing_features() reads one loan's months.
TrailingOf(f, t) ==
    LET history == {u \in DOMAIN f : u <= t}
        Recent(n) == {u \in history : Pf!Cardinality({v \in history : v > u}) < n}
    IN [dpd_now |-> f[t],
        unobserved |-> Pf!Cardinality({u \in history : f[u] = Absent}),
        max_dpd_3m |-> WorstOf(f, Recent(3)),
        times_in_arrears_3m |->
            Pf!Cardinality({u \in Recent(3) : f[u] # Absent /\ f[u] >= Pf!IndeterminateDpd}),
        worst_dpd_ever |-> WorstOf(f, history)]
TrailingsRead == \A l, t : Pf!Trailing(l, t) = TrailingOf(panelMonths[l], t)
LEMMA TrailingRead == TrailingsRead
BY DEF TrailingsRead, TrailingOf, Pf!Trailing, Pf!MaxDpd, WorstOf

\* The rows of a month are cut from what is read up to it, and a label once given
\* moves only when the loan turns out to be lost.
LEMMA RowsStay == PanelInv /\ Pf!Next => Pf!RowsAreFinal
<1> SUFFICES ASSUME PanelInv, NEW row \in [PanelLoan -> Pf!Rows], Pf!ReadMonth(row),
                    NEW l \in PanelLoan, NEW t \in DOMAIN panelMonths[l]
             PROVE  /\ Pf!Trailing(l, t)' = Pf!Trailing(l, t)
                    /\ LET old == Pf!BehaviouralRow(l, t).label
                           new == Pf!BehaviouralRow(l, t)'.label
                       IN old \notin {"none", new} =>
                            /\ disposition'[l].code = "loss" /\ disposition[l] = Pf!NotDisposed
                            /\ new = "bad" /\ disposition'[l].at <= t + PanelHorizon
  BY DEF Pf!RowsAreFinal, Pf!Next
<1>1. PanelInv'
  BY PanelStays DEF Pf!Next
<1>2. /\ LoanInv(l) /\ LoanInv(l)' /\ panelClock \in Nat /\ panelClock' = panelClock + 1
      /\ DOMAIN panelMonths[l] \subseteq 1..panelClock
      /\ t \in Nat /\ t <= panelClock /\ PanelHorizon \in Nat
  <2>1. LoanInv(l) /\ LoanInv(l)' /\ panelClock \in Nat /\ panelClock' = panelClock + 1 /\ PanelHorizon \in Nat
    BY <1>1, PanelAssumption DEF PanelInv, Pf!ReadMonth
  <2> QED BY <2>1 DEF LoanInv
<1>3. Unread(l) \/ Added(l, row[l])
  BY MonthReads
<1>4. /\ \/ DOMAIN panelMonths'[l] = DOMAIN panelMonths[l]
         \/ DOMAIN panelMonths'[l] = DOMAIN panelMonths[l] \cup {panelClock + 1}
      /\ \A u \in DOMAIN panelMonths[l] : panelMonths'[l][u] = panelMonths[l][u]
  <2>1. CASE Unread(l)
    BY <2>1 DEF Unread
  <2>2. CASE Added(l, row[l])
    <3>1. panelClock + 1 \notin DOMAIN panelMonths[l]
      BY <1>2
    <3> QED BY <2>2, <3>1 DEF Added
  <2> QED BY <1>3, <2>1, <2>2
<1>5. \A W \in SUBSET DOMAIN panelMonths[l] : WorstOf(panelMonths'[l], W) = WorstOf(panelMonths[l], W)
  <2> SUFFICES ASSUME NEW W \in SUBSET DOMAIN panelMonths[l]
               PROVE  WorstOf(panelMonths'[l], W) = WorstOf(panelMonths[l], W)
    OBVIOUS
  <2>1. {panelMonths'[l][u] : u \in {v \in W : panelMonths'[l][v] # Absent}}
          = {panelMonths[l][u] : u \in {v \in W : panelMonths[l][v] # Absent}}
    <3>1. \A v \in W : panelMonths'[l][v] = panelMonths[l][v]
      BY <1>4
    <3> QED BY <3>1
  <2> DEFINE Greatest(known) == IF known = {} THEN Absent ELSE CHOOSE d \in known : \A e \in known : e <= d
  <2>2. \A f : WorstOf(f, W) = Greatest({f[u] : u \in {v \in W : f[v] # Absent}})
    BY DEF WorstOf
  <2> HIDE DEF Greatest
  <2> QED BY <2>1, <2>2
<1>6. Pf!Trailing(l, t)' = Pf!Trailing(l, t)
  <2>1. PICK f, g : f = panelMonths[l] /\ g = panelMonths'[l]
    OBVIOUS
  <2>2. TrailingsRead'
    BY TrailingRead, PTL
  <2>3. Pf!Trailing(l, t) = TrailingOf(f, t) /\ Pf!Trailing(l, t)' = TrailingOf(g, t)
    BY <2>1, <2>2, TrailingRead DEF TrailingsRead
  <2>4. PICK history : history = {u \in DOMAIN f : u <= t}
    OBVIOUS
  <2>5. {u \in DOMAIN g : u <= t} = history /\ history \subseteq DOMAIN f
    BY <1>2, <1>4, <2>1, <2>4
  <2> DEFINE Recent == {u \in history : Pf!Cardinality({v \in history : v > u}) < 3}
             Row(h) == [dpd_now |-> h[t],
                        unobserved |-> Pf!Cardinality({u \in history : h[u] = Absent}),
                        max_dpd_3m |-> WorstOf(h, Recent),
                        times_in_arrears_3m |->
                          Pf!Cardinality({u \in Recent : h[u] # Absent /\ h[u] >= Pf!IndeterminateDpd}),
                        worst_dpd_ever |-> WorstOf(h, history)]
  <2>6. TrailingOf(f, t) = Row(f)
    BY <2>4 DEF TrailingOf
  <2>7. TrailingOf(g, t) = Row(g)
    BY <2>5 DEF TrailingOf
  <2>8. /\ g[t] = f[t]
        /\ \A u \in history : g[u] = f[u]
        /\ \A u \in Recent : g[u] = f[u]
    BY <2>1, <2>5, <1>4
  <2>9. /\ {u \in history : g[u] = Absent} = {u \in history : f[u] = Absent}
        /\ {u \in Recent : g[u] # Absent /\ g[u] >= Pf!IndeterminateDpd}
             = {u \in Recent : f[u] # Absent /\ f[u] >= Pf!IndeterminateDpd}
    BY <2>8
  <2>10. WorstOf(g, Recent) = WorstOf(f, Recent) /\ WorstOf(g, history) = WorstOf(f, history)
    BY <2>1, <2>5, <1>5
  <2>11. Row(g) = Row(f)
    BY <2>8, <2>9, <2>10
  <2> QED BY <2>3, <2>6, <2>7, <2>11
<1>7. l \in Pf!Spelled /\ l \in Pf!Spelled' /\ t \in DOMAIN panelMonths'[l]
  BY <1>4 DEF Pf!Spelled
<1> DEFINE W == Window(panelMonths[l], t)
           W2 == Window(panelMonths'[l], t)
           worst == WorstOf(panelMonths[l], W)
           worst2 == WorstOf(panelMonths'[l], W2)
           event == EventOf(panelMonths[l], default_at[l], disposition[l])
           event2 == EventOf(panelMonths'[l], default_at'[l], disposition'[l])
           end == t + PanelHorizon
<1>8. /\ Pf!BehaviouralRow(l, t) = RowFrom(event, worst, t, panelClock)
      /\ Pf!BehaviouralRow(l, t)' = RowFrom(event2, worst2, t, panelClock + 1)
  <2>1. RowsRead'
    BY <1>1, RowRead, PTL
  <2> QED BY <2>1, <1>2, <1>7, RowRead DEF RowsRead
<1>9. Unread(l) \/ end <= panelClock => worst2 = worst
  <2>1. Unread(l) \/ end <= panelClock => W2 = W
    <3>1. Unread(l) => DOMAIN panelMonths'[l] = DOMAIN panelMonths[l]
      BY DEF Unread
    <3> QED BY <3>1, <1>2, <1>4 DEF Window
  <2>2. W \in SUBSET DOMAIN panelMonths[l]
    BY DEF Window
  <2> HIDE DEF W, W2
  <2> QED BY <2>1, <2>2, <1>5
<1>10. \/ event2 = event /\ (Unread(l) \/ event.type # "prepaid")
       \/ event = Pf!NoEvent /\ event2.type = "default" /\ event2.at = panelClock + 1
       \/ /\ event = Pf!NoEvent /\ event2.type = "default" /\ event2.at = disposition'[l].at
          /\ disposition'[l].code = "loss" /\ disposition[l] = Pf!NotDisposed
       \/ event = Pf!NoEvent /\ event2.type = "prepaid"
  <2>1. CASE Unread(l)
    BY <2>1 DEF Unread
  <2>2. CASE Added(l, row[l])
    <3>1. /\ disposition[l] = Pf!NotDisposed
          /\ default_at[l] # 0 => default_at'[l] = default_at[l]
          /\ default_at[l] = 0 => default_at'[l] \in {0, panelClock + 1}
      BY <2>2 DEF Added
    <3>2. default_at[l] # 0 => event = [type |-> "default", at |-> default_at[l]]
      BY <1>2, DefaultEnds DEF LoanInv
    <3>3. default_at'[l] # 0 => event2 = [type |-> "default", at |-> default_at'[l]]
      <4>1. /\ panelClock' \in Nat /\ DOMAIN panelMonths'[l] \subseteq 1..panelClock'
            /\ default_at'[l] # 0 => default_at'[l] \in DOMAIN panelMonths'[l]
        BY <1>2 DEF LoanInv
      <4> QED BY <4>1, DefaultEnds
    <3>4. default_at[l] = 0 => event = Pf!NoEvent
      BY <3>1 DEF EventOf, Settled, Pf!NotDisposed
    <3>5. default_at'[l] = 0 =>
            \/ event2 = Pf!NoEvent
            \/ event2 = [type |-> "default", at |-> disposition'[l].at] /\ disposition'[l].code = "loss"
            \/ event2.type = "prepaid"
      BY DEF EventOf, Settled
    <3> HIDE DEF event, event2
    <3>6. Pf!NoEvent.type # "prepaid"
      BY DEF Pf!NoEvent
    <3> QED BY <3>1, <3>2, <3>3, <3>4, <3>5, <3>6
  <2> QED BY <1>3, <2>1, <2>2
<1>11. event.type \in {"none", "default", "prepaid"}
  BY DEF EventOf, Settled, Pf!NoEvent
<1> HIDE DEF worst, worst2, event, event2, W, W2
<1> DEFINE old == RowFrom(event, worst, t, panelClock).label
           new == RowFrom(event2, worst2, t, panelClock + 1).label
<1>12. old = IF Ended(event, t) /\ event.type = "default" THEN "bad"
             ELSE IF Ended(event, t) THEN Pf!Label(Pf!OrZero(worst), FALSE)
             ELSE IF end > panelClock THEN "none"
             ELSE IF worst = Absent THEN "none" ELSE Pf!Label(worst, FALSE)
  BY RowLabel
<1>13. new = IF Ended(event2, t) /\ event2.type = "default" THEN "bad"
             ELSE IF Ended(event2, t) THEN Pf!Label(Pf!OrZero(worst2), FALSE)
             ELSE IF end > panelClock + 1 THEN "none"
             ELSE IF worst2 = Absent THEN "none" ELSE Pf!Label(worst2, FALSE)
  BY RowLabel
<1>14. end \in Nat /\ (Ended(event2, t) => event2.at <= end)
  BY <1>2 DEF Ended
<1>15. event2.at = panelClock + 1 /\ end <= panelClock => ~Ended(event2, t)
  BY <1>2, <1>14
<1>16. ~Ended(Pf!NoEvent, t)
  BY DEF Ended, Pf!NoEvent
<1> HIDE DEF old, new, end
<1>17. ASSUME old \notin {"none", new}
       PROVE  /\ disposition'[l].code = "loss" /\ disposition[l] = Pf!NotDisposed
              /\ new = "bad" /\ disposition'[l].at <= end
  <2>1. CASE Ended(event, t)
    <3>1. event2 = event /\ (Unread(l) \/ event.type # "prepaid")
      BY <2>1, <1>10, <1>16
    <3>2. event.type # "none"
      BY <2>1 DEF Ended
    <3>3. new = old
      BY <2>1, <3>1, <3>2, <1>9, <1>11, <1>12, <1>13
    <3> QED BY <3>3, <1>17
  <2>2. CASE ~Ended(event, t)
    <3>1. ~(end > panelClock) /\ worst # Absent /\ old = Pf!Label(worst, FALSE)
      BY <2>2, <1>12, <1>17
    <3>2. end <= panelClock /\ ~(end > panelClock + 1) /\ worst2 = worst
      BY <3>1, <1>2, <1>9, <1>14
    <3>3. Ended(event2, t)
      BY <3>1, <3>2, <1>13, <1>17
    <3>4. event2.type = "default"
      <4>1. new # Pf!Label(Pf!OrZero(worst), FALSE)
        BY <3>1, <1>17 DEF Pf!OrZero
      <4> QED BY <4>1, <3>2, <3>3, <1>13
    <3>5. event2.at # panelClock + 1 /\ event2 # event
      BY <2>2, <3>2, <3>3, <1>15
    <3>6. /\ event2.at = disposition'[l].at
          /\ disposition'[l].code = "loss" /\ disposition[l] = Pf!NotDisposed
      BY <1>10, <3>4, <3>5
    <3> QED BY <3>3, <3>4, <3>6, <1>13, <1>14
  <2> QED BY <2>1, <2>2
<1> QED BY <1>6, <1>8, <1>17 DEF old, new, end

-----------------------------------------------------------------------------
(* The ladder to full traffic.                                             *)

\* The days the rungs were taken: each after its time on the one before.
RungsInv ==
    /\ ladderDay \in Nat
    /\ ladderIncident # Absent => ladderIncident \in Int
    /\ ladderRung \in {"off", "shadow", "canary", "full"}
    /\ ladderStarted = [shadow |-> ladderStarted.shadow, canary |-> ladderStarted.canary,
                        full |-> ladderStarted.full]
    /\ ladderRung # "off" => ladderStarted.shadow \in Int
    /\ ladderRung \in {"canary", "full"} =>
          ladderStarted.canary \in Int /\ ladderStarted.canary >= ladderStarted.shadow + LadderMinShadow
    /\ La!FullTrafficEarned

\* An item of the calendar's report tells how late its activity was that day.
ItemInv(i, asOf) ==
    /\ i.activity \in DOMAIN LadderActivity
    /\ \/ i.ran = Absent /\ i.late = Absent
       \/ /\ i.ran \in Int /\ i.late > 0
          /\ i.late = asOf - (i.ran + LadderActivity[i.activity].interval + LadderGrace)
\* An activity that was left out had run in time, or has run since.
RanInTime(a, asOf) ==
    /\ lastRun[a] \in Int
    /\ \/ lastRun[a] > asOf
       \/ asOf - lastRun[a] <= LadderActivity[a].interval + LadderGrace
ReportInv ==
    /\ lastRun \in [DOMAIN LadderActivity -> Int \cup {Absent}]
    /\ overdueReport # Absent =>
          /\ overdueReport.asOf \in Nat /\ overdueReport.asOf <= ladderDay
          /\ overdueReport.over \subseteq DOMAIN LadderActivity
          /\ \A i \in overdueReport.items : ItemInv(i, overdueReport.asOf)
          /\ ~overdueReport.refused =>
                \A a \in overdueReport.over \ {i.activity : i \in overdueReport.items} :
                    RanInTime(a, overdueReport.asOf)
LadderInv == RungsInv /\ ReportInv /\ La!LiftAdmitted

LEMMA InitLadder == La!Init => LadderInv
BY LadderAssumption
   DEF La!Init, LadderInv, RungsInv, ReportInv, La!LiftAdmitted, La!Answered, La!FullTrafficEarned

LEMMA RungsStay == RungsInv /\ [La!Next]_ladderVars => RungsInv'
<1> SUFFICES ASSUME RungsInv, [La!Next]_ladderVars PROVE RungsInv'
  OBVIOUS
<1> USE LadderAssumption DEF RungsInv, La!FullTrafficEarned
<1>1. CASE La!StartShadow
  BY <1>1 DEF La!StartShadow
<1>2. CASE La!StartCanary
  <2>1. /\ ladderRung = "shadow" /\ ladderRung' = "canary" /\ ladderIncident' = Absent
        /\ ladderStarted' = [ladderStarted EXCEPT !.canary = ladderDay]
        /\ ladderDay' = ladderDay
    BY <1>2 DEF La!StartCanary
  <2>2. ladderStarted.shadow # Absent /\ La!Elapsed(ladderStarted.shadow) >= LadderMinShadow
    BY <1>2 DEF La!StartCanary, La!MayAdvance, La!ShadowStatus
  <2>3. ladderDay - ladderStarted.shadow >= LadderMinShadow
    BY <2>2 DEF La!Elapsed
  <2>4. ladderStarted'.canary = ladderDay /\ ladderStarted'.shadow = ladderStarted.shadow
        /\ ladderStarted' = [shadow |-> ladderStarted.shadow, canary |-> ladderDay, full |-> ladderStarted.full]
    BY <2>1
  <2> QED BY <2>1, <2>3, <2>4
<1>3. CASE La!Incident
  BY <1>3 DEF La!Incident
<1>4. CASE La!Configure
  BY <1>4 DEF La!Configure
<1>5. CASE La!GoFull
  <2>1. /\ ladderRung = "canary" /\ ladderRung' = "full"
        /\ ladderStarted' = [ladderStarted EXCEPT !.full = ladderDay]
        /\ UNCHANGED <<ladderDay, ladderIncident, ladderTraffic>>
    BY <1>5 DEF La!GoFull
  <2>2. /\ La!Elapsed(ladderStarted.canary) >= LadderMinCanary
        /\ La!CanaryStatus(La!CleanDays).blocking = {}
    BY <1>5 DEF La!GoFull, La!MayAdvance, La!CanaryStatus
  <2>3. ladderTraffic /\ ~(La!CleanDays < LadderMinCanary)
    BY <2>2 DEF La!CanaryStatus
  <2>4. ladderDay - ladderStarted.canary >= LadderMinCanary
    BY <2>1, <2>2 DEF La!Elapsed
  <2>5. ladderIncident # Absent => ladderDay - ladderIncident >= LadderMinCanary
    BY <2>3 DEF La!CleanDays
  <2>6. /\ ladderStarted'.full = ladderDay /\ ladderStarted'.shadow = ladderStarted.shadow
        /\ ladderStarted'.canary = ladderStarted.canary
        /\ ladderStarted' = [shadow |-> ladderStarted.shadow, canary |-> ladderStarted.canary, full |-> ladderDay]
    BY <2>1
  <2> QED BY <2>1, <2>3, <2>4, <2>5, <2>6
<1>6. CASE La!Pass
  BY <1>6 DEF La!Pass
<1>7. CASE La!Run \/ La!Report \/ La!Challenge \/ La!CompareSample
  BY <1>7 DEF La!Run, La!Report, La!Challenge, La!CompareSample
<1>8. CASE UNCHANGED ladderVars
  BY <1>8 DEF ladderVars
<1> QED BY <1>1, <1>2, <1>3, <1>4, <1>5, <1>6, <1>7, <1>8 DEF La!Next

\* overdue() leaves out only what ran in time.
LEMMA OverdueTells ==
    ASSUME ReportInv, ladderDay \in Nat, NEW S \in SUBSET DOMAIN LadderActivity,
           NEW r, r = La!Overdue(S)
    PROVE  /\ r.asOf = ladderDay /\ r.over = S
           /\ \A i \in r.items : ItemInv(i, ladderDay)
           /\ ~r.refused => \A a \in S \ {i.activity : i \in r.items} : RanInTime(a, ladderDay)
<1> DEFINE Never == {b \in S : lastRun[b] = Absent}
           Late == {b \in S : lastRun[b] # Absent /\ ladderDay > La!Due(b)}
           items == {[activity |-> a, ran |-> Absent, late |-> Absent] : a \in Never}
                    \cup {[activity |-> a, ran |-> lastRun[a], late |-> ladderDay - La!Due(a)] : a \in Late}
           refused == \E a \in S : lastRun[a] # Absent /\ lastRun[a] > ladderDay
<1>1. /\ r.asOf = ladderDay /\ r.over = S /\ r.refused = refused
      /\ r.items = IF refused THEN {} ELSE items
  BY DEF La!Overdue
<1>2. \A a \in S : /\ a \in DOMAIN LadderActivity
                   /\ lastRun[a] # Absent => lastRun[a] \in Int
                   /\ LadderActivity[a].interval \in Nat /\ LadderGrace \in Nat
                   /\ La!Due(a) = lastRun[a] + LadderActivity[a].interval + LadderGrace
  BY LadderAssumption DEF ReportInv, La!Due
<1>3. \A i \in items : ItemInv(i, ladderDay)
  BY <1>2 DEF ItemInv
<1>4. ASSUME NEW a \in Never \cup Late PROVE \E i \in items : i.activity = a
  <2>1. CASE a \in Never
    <3>1. [activity |-> a, ran |-> Absent, late |-> Absent] \in items
      BY <2>1
    <3> HIDE DEF items
    <3> QED BY <3>1
  <2>2. CASE a \in Late
    <3>1. [activity |-> a, ran |-> lastRun[a], late |-> ladderDay - La!Due(a)] \in items
      BY <2>2
    <3> HIDE DEF items
    <3> QED BY <3>1
  <2> QED BY <2>1, <2>2
<1>5. \A a \in S \ (Never \cup Late) : RanInTime(a, ladderDay)
  BY <1>2 DEF RanInTime
<1> HIDE DEF items, refused, Never, Late
<1> QED BY <1>1, <1>3, <1>4, <1>5

LEMMA ReportStays == RungsInv /\ ReportInv /\ [La!Next]_ladderVars => ReportInv'
<1> SUFFICES ASSUME RungsInv, ReportInv, [La!Next]_ladderVars PROVE ReportInv'
  OBVIOUS
<1>1. ladderDay \in Nat
  BY DEF RungsInv
<1>2. CASE La!Run
  <2>1. PICK a \in DOMAIN LadderActivity, d \in {ladderDay, ladderDay + 1} :
            lastRun' = [lastRun EXCEPT ![a] = d]
            /\ UNCHANGED <<ladderDay, overdueReport>>
    BY <1>2 DEF La!Run
  <2>2. lastRun' \in [DOMAIN LadderActivity -> Int \cup {Absent}]
    BY <2>1, <1>1 DEF ReportInv
  <2>3. ASSUME overdueReport # Absent, NEW b \in DOMAIN LadderActivity, RanInTime(b, overdueReport.asOf)
        PROVE  RanInTime(b, overdueReport.asOf)'
    <3>1. CASE b = a
      <4>1. lastRun'[b] = d /\ d \in Int /\ d >= overdueReport.asOf /\ overdueReport.asOf \in Nat
            /\ LadderActivity[b].interval \in Nat /\ LadderGrace \in Nat
        BY <3>1, <2>1, <2>3, <1>1, LadderAssumption DEF ReportInv
      <4> QED BY <4>1, <2>1 DEF RanInTime
    <3>2. CASE b # a
      BY <3>2, <2>1, <2>3 DEF RanInTime, ReportInv
    <3> QED BY <3>1, <3>2
  <2> QED BY <2>1, <2>2, <2>3 DEF ReportInv, ItemInv
<1>3. CASE La!Report
  <2>1. PICK shipped : overdueReport' = La!Overdue(La!Runnable(DOMAIN LadderActivity, shipped))
                       /\ UNCHANGED <<ladderDay, lastRun>>
    BY <1>3 DEF La!Report
  <2>2. La!Runnable(DOMAIN LadderActivity, shipped) \in SUBSET DOMAIN LadderActivity
    BY DEF La!Runnable
  <2>3. PICK S \in SUBSET DOMAIN LadderActivity : overdueReport' = La!Overdue(S)
    BY <2>1, <2>2
  <2>4. /\ overdueReport'.asOf = ladderDay /\ overdueReport'.over = S
        /\ \A i \in overdueReport'.items : ItemInv(i, ladderDay)
        /\ ~overdueReport'.refused =>
              \A a \in S \ {i.activity : i \in overdueReport'.items} : RanInTime(a, ladderDay)
    BY <2>3, <1>1, OverdueTells
  <2>5. lastRun' \in [DOMAIN LadderActivity -> Int \cup {Absent}]
    BY <2>1 DEF ReportInv
  <2>6. \A a : RanInTime(a, ladderDay) => RanInTime(a, overdueReport.asOf)'
    BY <2>1, <2>4 DEF RanInTime
  <2>7. \A i : ItemInv(i, ladderDay) => ItemInv(i, overdueReport'.asOf)
    BY <2>4
  <2> QED BY <2>1, <2>4, <2>5, <2>6, <2>7, <1>1 DEF ReportInv
<1>4. CASE La!Pass
  BY <1>4, <1>1 DEF La!Pass, ReportInv, RanInTime, ItemInv
<1>5. CASE \/ La!StartShadow \/ La!StartCanary \/ La!Incident \/ La!Configure \/ La!GoFull
           \/ La!Challenge \/ La!CompareSample
  <2>1. UNCHANGED <<ladderDay, lastRun, overdueReport>>
    BY <1>5 DEF La!StartShadow, La!StartCanary, La!Incident, La!Configure, La!GoFull,
                La!Challenge, La!CompareSample
  <2> QED BY <2>1 DEF ReportInv, RanInTime, ItemInv
<1>6. CASE UNCHANGED ladderVars
  BY <1>6 DEF ladderVars, ReportInv, RanInTime, ItemInv
<1> QED BY <1>2, <1>3, <1>4, <1>5, <1>6 DEF La!Next

\* The two gates read one window.
LEMMA LiftStays == La!LiftAdmitted /\ [La!Next]_ladderVars => La!LiftAdmitted'
<1> SUFFICES ASSUME La!LiftAdmitted, [La!Next]_ladderVars PROVE La!LiftAdmitted'
  OBVIOUS
<1>1. CASE La!Challenge
  <2>1. PICK champion \in LadderEntry, challenger \in LadderEntry :
            /\ La!Comparable(champion, challenger)
            /\ ladderAnswer' =
                  [of |-> "models", champion |-> champion, challenger |-> challenger,
                   blocking |-> La!Assess(champion, challenger),
                   evidence |-> La!Evidence("Production", challenger.window, "rehearsed", "run"),
                   overlap |-> La!OverlapDays(challenger.window)]
    BY <1>1 DEF La!Challenge
  <2> DEFINE w == challenger.window
             oot == w.from >= w.trainedTo
  <2>2. /\ champion.value \in Int /\ challenger.value \in Int /\ w # Absent
        /\ w.trainedTo \in Int /\ w.from \in Int /\ w.to \in Int /\ w.from < w.to
    BY LadderAssumption
  <2>3. La!Evidence("Production", w, "rehearsed", "run") = IF oot THEN {} ELSE {"overlaps_training"}
    BY <2>2 DEF La!Evidence, La!IsOutOfTime
  <2>4. La!OverlapDays(w) = 0 <=> oot
    BY <2>2 DEF La!OverlapDays, La!IsOutOfTime, La!EarlierOf
  <2>5. La!Assess(champion, challenger) = {} => oot /\ challenger.value - champion.value > 0
    BY <2>2 DEF La!Assess, La!IsOutOfTime, La!Lift
  <2>6. challenger.value - champion.value > 0 => "no_lift" \in La!Assess(challenger, champion)
    BY <2>2 DEF La!Assess, La!Lift
  <2>7. La!Comparable(challenger, champion)
    BY <2>1 DEF La!Comparable
  <2> HIDE DEF w
  <2> QED BY <2>1, <2>3, <2>4, <2>5, <2>6, <2>7 DEF La!LiftAdmitted, La!Answered, w
<1>2. CASE La!CompareSample
  <2>1. PICK sample : ladderAnswer' = La!Compare(sample)
    BY <1>2 DEF La!CompareSample
  <2>2. ladderAnswer'.of = "paths"
    BY <2>1 DEF La!Compare
  <2> QED BY <2>2 DEF La!LiftAdmitted, La!Answered
<1>3. CASE \/ La!StartShadow \/ La!StartCanary \/ La!Incident \/ La!Configure \/ La!GoFull
           \/ La!Pass \/ La!Run \/ La!Report
  <2>1. ladderAnswer' = Absent
    BY <1>3 DEF La!StartShadow, La!StartCanary, La!Incident, La!Configure, La!GoFull,
                La!Pass, La!Run, La!Report
  <2> QED BY <2>1 DEF La!LiftAdmitted, La!Answered
<1>4. CASE UNCHANGED ladderVars
  BY <1>4 DEF ladderVars, La!LiftAdmitted, La!Answered
<1> QED BY <1>1, <1>2, <1>3, <1>4 DEF La!Next

LEMMA LadderStays == LadderInv /\ [La!Next]_ladderVars => LadderInv'
BY RungsStay, ReportStays, LiftStays DEF LadderInv

\* What the report lists stays late until it runs again.
LEMMA OverdueStaysComplete == LadderInv => La!OverdueComplete
<1> SUFFICES ASSUME LadderInv, overdueReport # Absent, ~overdueReport.refused
             PROVE  La!OverdueComplete
  BY DEF La!OverdueComplete
<1>1. ladderDay \in Nat /\ ReportInv /\ overdueReport.asOf \in Nat /\ overdueReport.asOf <= ladderDay
  BY DEF LadderInv, RungsInv, ReportInv
<1>2. ASSUME NEW a \in overdueReport.over \ {i.activity : i \in overdueReport.items}
      PROVE  \/ lastRun[a] > overdueReport.asOf
             \/ overdueReport.asOf - lastRun[a] <= LadderActivity[a].interval + LadderGrace
  BY <1>1 DEF ReportInv, RanInTime
<1>3. ASSUME NEW i \in overdueReport.items, lastRun[i.activity] = i.ran,
             ~La!Overdue({i.activity}).refused
      PROVE  \E j \in La!Overdue({i.activity}).items :
                j.late = IF i.ran = Absent THEN Absent ELSE i.late + (ladderDay - overdueReport.asOf)
  <2> DEFINE a == i.activity
             items == {[activity |-> b, ran |-> Absent, late |-> Absent] : b \in {c \in {a} : lastRun[c] = Absent}}
                      \cup {[activity |-> b, ran |-> lastRun[b], late |-> ladderDay - La!Due(b)] :
                              b \in {c \in {a} : lastRun[c] # Absent /\ ladderDay > La!Due(c)}}
  <2>1. La!Overdue({a}).items = items
    BY <1>3 DEF La!Overdue
  <2>2. /\ a \in DOMAIN LadderActivity /\ LadderActivity[a].interval \in Nat /\ LadderGrace \in Nat
        /\ ItemInv(i, overdueReport.asOf) /\ Absent \notin Int
    BY <1>1, LadderAssumption DEF ReportInv, ItemInv
  <2>3. CASE i.ran = Absent
    <3>1. [activity |-> a, ran |-> Absent, late |-> Absent] \in items
      BY <2>3, <1>3
    <3>2. [activity |-> a, ran |-> Absent, late |-> Absent].late = Absent
      OBVIOUS
    <3> HIDE DEF items
    <3>3. PICK j \in La!Overdue({a}).items : j.late = Absent
      BY <3>1, <3>2, <2>1
    <3> QED BY <3>3, <2>3
  <2>4. CASE i.ran # Absent
    <3>1. /\ i.ran \in Int /\ i.late > 0
          /\ i.late = overdueReport.asOf - (i.ran + LadderActivity[a].interval + LadderGrace)
      BY <2>2, <2>4 DEF ItemInv
    <3>2. La!Due(a) = i.ran + LadderActivity[a].interval + LadderGrace
      BY <1>3 DEF La!Due
    <3>3. ladderDay > La!Due(a) /\ ladderDay - La!Due(a) = i.late + (ladderDay - overdueReport.asOf)
      BY <3>1, <3>2, <2>2, <1>1
    <3>4. [activity |-> a, ran |-> lastRun[a], late |-> ladderDay - La!Due(a)] \in items
      BY <3>3, <2>4, <1>3
    <3> HIDE DEF items
    <3>5. PICK j \in La!Overdue({a}).items :
              j = [activity |-> a, ran |-> lastRun[a], late |-> ladderDay - La!Due(a)]
      BY <3>4, <2>1
    <3> QED BY <3>3, <3>5, <2>4
  <2> QED BY <2>3, <2>4
<1> QED BY <1>2, <1>3 DEF La!OverdueComplete

-----------------------------------------------------------------------------
(* The components together.                                                *)

LEMMA Starts ==
    ASSUME Init
    PROVE  /\ side = "gateway" => Gw!Init
           /\ side = "desk" => Fd!Init
           /\ side = "consent" => Co!Init
           /\ side = "catalogue" => Cf!Init
           /\ side = "spine" => Sp!Init
           /\ side = "offers" => Of!Init
           /\ side = "assistant" => As!Init
           /\ side = "conversation" => Cv!Init
           /\ side = "velocity" => Fv!Init
           /\ side = "schema" => Se!Init
           /\ side = "replay" => Bt!Init
           /\ side = "pd" => Pv!Init
           /\ side = "panel" => Pf!Init
           /\ side = "ladder" => La!Init
           /\ side = "retrieval" => Rt!Init
BY DEF Init

\* A component takes only its own steps, and the others never run.
LEMMA StepsApart ==
    ASSUME Next
    PROVE  /\ side' = side
           /\ side = "gateway" => Gw!Next
           /\ side = "desk" => Fd!Next
           /\ side = "consent" => Co!Next
           /\ side = "catalogue" => Cf!Next
           /\ side = "spine" => Sp!Next
           /\ side = "offers" => Of!Next
           /\ side = "assistant" => As!Next
           /\ side = "conversation" => Cv!Next
           /\ side = "velocity" => Fv!Next
           /\ side = "schema" => Se!Next
           /\ side = "replay" => Bt!Next
           /\ side = "pd" => Pv!Next
           /\ side = "panel" => Pf!Next
           /\ side = "ladder" => La!Next
           /\ side = "retrieval" => Rt!Next
BY DEF Next, GatewayStep, DeskStep, ConsentStep, CatalogueStep, SpineStep, OffersStep,
       AssistantStep, ConversationStep, VelocityStep, SchemaStep, ReplayStep, PdStep,
       PanelStep, LadderStep, RetrievalStep

LEMMA Steps ==
    ASSUME [Next]_vars
    PROVE  /\ side' = side
           /\ side = "gateway" => [Gw!Next]_gatewayVars
           /\ side = "desk" => [Fd!Next]_deskVars
           /\ side = "consent" => [Co!Next]_consentVars
           /\ side = "catalogue" => [Cf!Next]_catalogueVars
           /\ side = "spine" => [Sp!Next]_spineVars
           /\ side = "offers" => [Of!Next]_offersVars
           /\ side = "assistant" => [As!Next]_assistantVars
           /\ side = "conversation" => [Cv!Next]_conversationVars
           /\ side = "velocity" => [Fv!Next]_velocityVars
           /\ side = "schema" => [Se!Next]_schemaVars
           /\ side = "replay" => [Bt!Next]_replayVars
           /\ side = "pd" => [Pv!Next]_pdVars
           /\ side = "panel" => [Pf!Next]_panelVars
           /\ side = "ladder" => [La!Next]_ladderVars
           /\ side = "retrieval" => [Rt!Next]_retrievalVars
<1>1. CASE UNCHANGED vars
  BY <1>1 DEF vars
<1> QED BY <1>1, StepsApart

\* What is on screen came from the latest load, in its own frame and traced: for any
\* route table that passes its audit, any requests, and any number of connections and
\* of loads (useLoad(), GatewayClient.request(), GatewayRequestHandler).
THEOREM ScreenStaysFaithful == Spec => []ScreenFaithful
<1> DEFINE Inv == side = "gateway" => LoadsInv /\ ScreenInv
<1>1. Init => Inv
  BY Starts, InitFaithful
<1>2. Inv /\ [Next]_vars => Inv'
  BY Steps, NextLoads, NextScreen
<1>3. Inv => ScreenFaithful
  BY DEF ScreenFaithful, ScreenInv
<1> HIDE DEF Inv
<1> QED BY <1>1, <1>2, <1>3, PTL DEF Spec

\* A replayed verdict is that of its day, no use leaves its purpose, every score tells
\* its coverage, and the spine loses no loan and no case without a cause: for any
\* customers, artifacts and extracts (ConsentArtifact, FeatureCatalogue, build_spine()).
THEOREM CustomersStaySound == Spec => []CustomerSound
<1> DEFINE Inv == /\ side = "consent" => Co!ConsentInv
                  /\ side = "catalogue" => Cf!ConsentInv
                  /\ side = "spine" => SpineInv
<1>1. Init => Inv
  BY Starts, Co!InitFile, Cf!InitFile, InitSpine, ConsentAssumption, CatalogueAssumption
     DEF Co!ConsentInv, Cf!ConsentInv
<1>2. Inv /\ [Next]_vars => Inv'
  BY Steps, Co!ConsentStep, Cf!ConsentStep, SpineStays, ConsentAssumption, CatalogueAssumption
     DEF consentVars, catalogueVars, Co!vars, Co!scoreVars, Cf!vars, Cf!scoreVars
<1>3. Inv => CustomerSound
  BY Co!ConsentInvSound, Cf!ConsentInvSound, SpineInvSound, ConsentAssumption, CatalogueAssumption
     DEF CustomerSound
<1> HIDE DEF Inv
<1> QED BY <1>1, <1>2, <1>3, PTL DEF Spec

\* Every offer made keeps the caps it was judged by, lies between the floor and the
\* ceiling of the table its rate comes from, up to its arm's offset, fails the audit of
\* stressed affordability only on a flow that fell since, and logs its propensity,
\* whatever the price does between the feasible set and the choice: for any borrowers,
\* arms and tables (build_feasible_set(), offerable_rate, LinUCB.select(), audit()).
THEOREM OffersStaySound == Spec => []OffersSound
<1> DEFINE Inv == side = "offers" => OffersInv
<1>1. Init => Inv
  BY Starts, InitOffers
<1>2. Inv /\ [Next]_vars => Inv'
  BY Steps, OffersStay
<1>3. Inv => OffersSound
  BY OffersInvSound DEF OffersSound
<1> HIDE DEF Inv
<1> QED BY <1>1, <1>2, <1>3, PTL DEF Spec

\* The desk's figures add up over any split of its signals, no case closes without a
\* disposition, and a count that a decision used is recomputed as it was, whatever is
\* ingested later, but for the events backdated behind the decision, one each: for any
\* bands, cases, windows and lateness (CaseQueue, VelocityCounter).
THEOREM FraudStaysSound == Spec => []FraudSound
<1> DEFINE Inv == (side = "desk" => DeskInv) /\ (side = "velocity" => VelocityInv)
<1>1. Init => Inv
  BY Starts, InitDesk, InitVelocity
<1>2. Inv /\ [Next]_vars => Inv'
  BY Steps, DeskStays, VelocityStays
<1>3. Inv => FraudSound
  BY DeskInvSound, VelocityInvSound DEF FraudSound
<1> HIDE DEF Inv
<1> QED BY <1>1, <1>2, <1>3, PTL DEF Spec

\* A label that training may have used is neither withdrawn nor changed by any later
\* step, and a row of the panel, once given, moves only where the month a loan was lost
\* becomes known and then to bad: for any cases, codes, analysts, loans and months
\* (CaseQueue.close(), training_labels(), behavioural_rows()).
THEOREM LabelsAreKept == Spec => TrainingDataStands
<1> DEFINE Inv == (side = "desk" => DeskInv) /\ (side = "panel" => PanelInv)
           Stands == (side = "desk" => Fd!LabelKept) /\ (side = "panel" => Pf!RowsAreFinal)
<1>1. Init => Inv
  BY Starts, InitDesk, InitPanel
<1>2. Inv /\ [Next]_vars => Inv'
  BY Steps, DeskStays, PanelStays
<1>3. Inv /\ Next => Stands
  BY StepsApart, LabelsStay, RowsStay
<1>4. Inv /\ [Next]_vars => [Stands]_vars
  BY <1>3
<1> HIDE DEF Inv
<1> QED BY <1>1, <1>2, <1>4, PTL DEF Spec, TrainingDataStands

\* Numbers stay grounded, citations resolve, calls keep to what is declared and to the
\* rate, reasons are the approved ones, a turn is fenced and redacted, and retrieval
\* returns what is in force, leaves out nothing but for better and fuses fairly: for any
\* documents, tools, sessions, libraries, turns and chunks, whatever is indexed again or
\* fails to be encoded (assistant/*.py, scoring/reasons.py).
THEOREM AssistantStaysSound == Spec => []AssistantSound
<1> DEFINE Inv == /\ side = "assistant" => AssistantInv
                  /\ side = "conversation" => ConversationInv
                  /\ side = "retrieval" => RetrievalInv
<1>1. Init => Inv
  BY Starts, InitAssistant, InitConversation, InitRetrieval
<1>2. Inv /\ [Next]_vars => Inv'
  BY Steps, AssistantStays, ConversationStays, RetrievalStays
<1>3. Inv => AssistantSound
  BY AssistantInvSound, ConversationInvSound, RetrievalInvSound DEF AssistantSound
<1> HIDE DEF Inv
<1> QED BY <1>1, <1>2, <1>3, PTL DEF Spec

\* In a history of versions of any length each reads what every earlier one wrote, but
\* for fields removed and put back; the backtest passes on both targets only, and the PD
\* alerts keep to their budget, worst first, on both bases; a loan of the panel defaults
\* once, a month called good has no arrears known and no first default in its window and
\* stages keep their order; full traffic is earned: for any fields, accounts, alerts,
\* readings, loans and evaluations (streaming/compat.py, ews/backtest.py,
\* ews/velocity.py, portfolio/panel.py, portfolio/staging.py, serving/shadow.py).
THEOREM DataStaysSound == Spec => []DataSound
<1> DEFINE Inv == /\ side = "schema" => SchemaInv
                  /\ side = "replay" => BacktestInv
                  /\ side = "pd" => PdInv
                  /\ side = "panel" => PanelInv
                  /\ side = "ladder" => LadderInv
<1>1. Init => Inv
  BY Starts, InitSchema, InitBacktest, InitPd, InitPanel, InitLadder
<1>2. Inv /\ [Next]_vars => Inv'
  BY Steps, SchemaStays, BacktestStays, PdStays, PanelStays, LadderStays
<1>3. Inv => DataSound
  <2>1. LadderInv => La!FullTrafficEarned /\ La!LiftAdmitted
    BY DEF LadderInv, RungsInv
  <2> QED BY <2>1, SchemaInvSound, BacktestInvSound, PdInvSound, GoodWasEarned, EndsOnce,
             StagesKeepOrder, OverdueStaysComplete DEF DataSound
<1> HIDE DEF Inv
<1> QED BY <1>1, <1>2, <1>3, PTL DEF Spec
=============================================================================
