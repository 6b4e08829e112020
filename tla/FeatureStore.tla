---------------------------- MODULE FeatureStore ----------------------------
(***************************************************************************)
(* Point-in-time features (featurestore/pit.py), the store that serves     *)
(* them (featurestore/ports.py) and the skew comparison between what was   *)
(* served and what a training join rebuilds (featurestore/skew.py).        *)
(*                                                                         *)
(* One feature; an entity's history is a set of rows, and `seq`, the order *)
(* of add(), stands for the position a stable sort leaves a row in.        *)
(***************************************************************************)
EXTENDS Naturals, FiniteSets, WellFoundedInduction, TLAPS

CONSTANTS
    Entity, Value,
    NoValue,            \* the join's None
    Ttl,                \* spec.ttl; NoTtl for a feature without one
    NoTtl,
    MaxTime, MaxRows    \* bounds: instants and the rows ever added

ASSUME FeatureAssumption ==
    /\ NoValue \notin Value
    /\ Ttl \in (Nat \ {0}) \cup {NoTtl}
    /\ NoTtl \notin Nat
    /\ MaxTime \in Nat /\ MaxRows \in Nat

VARIABLES
    history,    \* FeatureSource._by_entity
    added,      \* calls of add()
    now,        \* the platform clock
    served      \* history: what get_online_features() returned, and when

vars == <<history, added, now, served>>

Row == [event : Nat, created : Nat, value : Value, seq : Nat]
\* What was served, at what instant, with how many rows added by then.
Read == [entity : Entity, at : Nat, value : Value \cup {NoValue}, rows : Nat]

Init ==
    /\ history = [e \in Entity |-> {}]
    /\ added = 0
    /\ now = 0
    /\ served = {}

-----------------------------------------------------------------------------
(* FeatureSource.                                                          *)

\* Mutant: a row is knowable once it is true in the world.
KnowableByEvent(e, at) == {r \in history[e] : r.event <= at}
\* True by `at`, and known to the platform by `at`.
Knowable(e, at) == {r \in history[e] : r.event <= at /\ r.created <= at}

\* The order of the sorted bucket; a row added later follows its ties.
Precedes(r, s) ==
    \/ r.event < s.event
    \/ r.event = s.event /\ r.created < s.created
    \/ r.event = s.event /\ r.created = s.created /\ r.seq <= s.seq

Latest(rows) == CHOOSE r \in rows : \A s \in rows : Precedes(s, r)

\* Mutant: the row is stale on the day its time to live is up.
FreshBefore(r, at) == Ttl = NoTtl \/ at < r.event + Ttl
Fresh(r, at) == Ttl = NoTtl \/ at <= r.event + Ttl

\* Mutant: the time to live is asked of the rows before the latest is taken of
\* the sorted bucket, in the order the rows were added.
AsOfLastAdded(e, at) ==
    LET rows == {r \in Knowable(e, at) : Fresh(r, at)} IN
    IF rows = {} THEN NoValue
    ELSE (CHOOSE r \in rows : \A s \in rows : s.seq <= r.seq).value
\* as_of(): the latest knowable row, or nothing when that one is stale.
Candidate(rows, at) ==
    IF rows # {} /\ Fresh(Latest(rows), at) THEN Latest(rows).value ELSE NoValue
AsOf(e, at) == Candidate(Knowable(e, at), at)

\* The column of one training row: its value, or why it has none.
Status(e, at) ==
    CASE AsOf(e, at) # NoValue                             -> "value"
      [] AsOf(e, at) = NoValue /\ Knowable(e, at) # {}     -> "expired"
      [] OTHER                                             -> "missing"

-----------------------------------------------------------------------------
Add(e, event, created, value) ==
    /\ added < MaxRows
    /\ history' = [history EXCEPT ![e] = @ \cup
          {[event |-> event, created |-> created, value |-> value, seq |-> added]}]
    /\ added' = added + 1
    /\ UNCHANGED <<now, served>>

\* Mutant: FeatureValue accepts a fact dated after its arrival.
IngestUnchecked(e, event, created, value) == Add(e, event, created, value)
\* add(): a row with the two timestamps its caller gives it.  FeatureValue
\* refuses only a fact dated after its own arrival; nothing compares either
\* timestamp with the clock or with what was already served.
Ingest(e, event, created, value) ==
    /\ event <= created
    /\ Add(e, event, created, value)

\* get_online_features(): as_of() the clock.
Serve(e) ==
    /\ served' = served \cup
          {[entity |-> e, at |-> now, value |-> AsOf(e, now), rows |-> added]}
    /\ UNCHANGED <<history, added, now>>

Tick ==
    /\ now < MaxTime
    /\ now' = now + 1
    /\ UNCHANGED <<history, added, served>>

Next ==
    \/ \E e \in Entity, event, created \in 0..MaxTime, value \in Value :
          Ingest(e, event, created, value)
    \/ \E e \in Entity : Serve(e)
    \/ Tick

Spec == Init /\ [][Next]_vars

-----------------------------------------------------------------------------
(* get_historical_features() over what was served, and compare().          *)

TrainingRow(read) == [read EXCEPT !.value = AsOf(read.entity, read.at)]
SkewFindings == {read \in served : TrainingRow(read) # read}

-----------------------------------------------------------------------------
(* Properties.                                                             *)

\* No row reports a fact before it was true, and each add() has its own place.
TypeOK ==
    /\ history \in [Entity -> SUBSET Row]
    /\ added \in Nat /\ now \in Nat
    /\ served \subseteq Read
    /\ \A e \in Entity : \A r \in history[e] :
          r.event <= r.created /\ r.created <= MaxTime /\ r.seq < added
    /\ \A e \in Entity : \A r, s \in history[e] : r.seq = s.seq => r = s
    /\ \A s \in served : s.at <= now /\ s.rows <= added

\* All training/serving skew is a row backdated behind the read: where the join
\* disagrees with what was served, it has a value, and that of a row which was
\* added after the read under timestamps at or before it (featurestore/skew.py:
\* "an online value that was written late").  A late row whose arrival time is
\* after the read changes nothing, and no value served goes missing.
SkewIsBackdated ==
    \A read \in SkewFindings : \E r \in history[read.entity] :
        /\ r.event <= read.at /\ r.created <= read.at
        /\ r.seq >= read.rows
        /\ TrainingRow(read).value = r.value

\* A row says "expired" exactly when everything knowable is past its time to
\* live, and has a value exactly when something knowable is not.
StatusIsTruthful ==
    \A e \in Entity : \A at \in 0..MaxTime :
        /\ Status(e, at) = "missing" <=>
              ~\E r \in history[e] : r.event <= at /\ r.created <= at
        /\ Status(e, at) = "value" <=>
              \E r \in history[e] : /\ r.event <= at /\ r.created <= at
                                    /\ Ttl # NoTtl => at - r.event <= Ttl

\* A correction wins: the value joined is never one that a later report of the
\* same event, knowable at the observation point, has replaced.
CorrectionWins ==
    \A e \in Entity : \A at \in 0..MaxTime : AsOf(e, at) # NoValue =>
        \E r \in Knowable(e, at) :
            /\ r.value = AsOf(e, at)
            /\ ~\E s \in Knowable(e, at) :
                  s.event > r.event \/ (s.event = r.event /\ s.created > r.created)

-----------------------------------------------------------------------------
(***************************************************************************)
(* What the point-in-time join rebuilds of what was served, for any        *)
(* entities, values, time to live and number of late arrivals.             *)
(***************************************************************************)

(* A non-empty set of naturals below a bound has a greatest element.       *)
LEMMA GreatestNat ==
    ASSUME NEW b \in Nat, NEW S, S \subseteq 0..b, S # {}
    PROVE  \E m \in S : \A n \in S : n <= m
<1> DEFINE D == {b - n : n \in S}
<1>1. D \subseteq Nat /\ D # {}
  <2>1. \A n \in S : n \in 0..b /\ b - n \in Nat
    OBVIOUS
  <2> QED BY <2>1
<1>2. PICK x \in D : \A y \in D : ~(<<y, x>> \in OpToRel(<, Nat))
  <2> HIDE DEF D
  <2> QED BY <1>1, NatLessThanWellFounded, WFMin
<1>3. \A y \in D : ~(y < x)
  BY <1>1, <1>2 DEF OpToRel
<1>4. PICK m \in S : x = b - m
  OBVIOUS
<1>5. \A n \in S : ~(b - n < b - m)
  BY <1>3, <1>4
<1> QED
  BY <1>5

(* The sorted bucket of a typed history has a last row: as_of() has a      *)
(* candidate whenever something is knowable.                               *)
LEMMA LatestExists ==
    ASSUME NEW K, K \subseteq Row, K # {}, NEW b \in Nat,
           \A r \in K : r.event <= b /\ r.created <= b /\ r.seq <= b
    PROVE  \E r \in K : \A s \in K : Precedes(s, r)
<1> DEFINE E == {r.event : r \in K}
<1>1. PICK e \in E : \A n \in E : n <= e
  <2>1. E \subseteq 0..b /\ E # {}
    BY DEF Row
  <2> HIDE DEF E
  <2> QED BY <2>1, GreatestNat
<1> DEFINE KE == {r \in K : r.event = e}
           C == {r.created : r \in KE}
<1>2. PICK c \in C : \A n \in C : n <= c
  <2>1. C \subseteq 0..b /\ C # {}
    BY DEF Row
  <2> HIDE DEF C
  <2> QED BY <2>1, GreatestNat
<1> DEFINE KC == {r \in KE : r.created = c}
           Q == {r.seq : r \in KC}
<1>3. PICK q \in Q : \A n \in Q : n <= q
  <2>1. Q \subseteq 0..b /\ Q # {}
    BY DEF Row
  <2> HIDE DEF Q
  <2> QED BY <2>1, GreatestNat
<1>4. PICK r \in KC : r.seq = q
  OBVIOUS
<1>5. ASSUME NEW s \in K PROVE Precedes(s, r)
  <2>1. s.event \in Nat /\ s.created \in Nat /\ s.seq \in Nat /\ e \in Nat /\ c \in Nat /\ q \in Nat
    BY DEF Row
  <2>2. s.event <= e
    BY <1>1
  <2>3. s.event = e => s.created <= c
    BY <1>2
  <2>4. s.event = e /\ s.created = c => s.seq <= q
    BY <1>3
  <2>5. r.event = e /\ r.created = c /\ r.seq = q
    BY <1>4
  <2> QED BY <2>1, <2>2, <2>3, <2>4, <2>5 DEF Precedes
<1> QED
  BY <1>4, <1>5

(* What as_of() reads: the last knowable row of the sorted bucket.         *)
LEMMA LatestIsKnowable ==
    ASSUME TypeOK, NEW e \in Entity, NEW at \in Nat, Knowable(e, at) # {}
    PROVE  /\ Latest(Knowable(e, at)) \in Knowable(e, at)
           /\ \A s \in Knowable(e, at) : Precedes(s, Latest(Knowable(e, at)))
<1>1. /\ Knowable(e, at) \subseteq Row
      /\ MaxTime + added \in Nat
      /\ \A r \in Knowable(e, at) :
            /\ r.event <= MaxTime + added
            /\ r.created <= MaxTime + added
            /\ r.seq <= MaxTime + added
  BY FeatureAssumption DEF Knowable, TypeOK, Row
<1>2. \E r \in Knowable(e, at) : \A s \in Knowable(e, at) : Precedes(s, r)
  BY <1>1, LatestExists
<1> QED
  BY <1>2 DEF Latest

(* Rows stay typed, each true before it was known and each in its own place *)
(* of the order of add(); reads lie in the past of the clock.               *)
THEOREM FeatureTypeCorrect == Spec => []TypeOK
<1>1. Init => TypeOK
  BY DEF Init, TypeOK
<1>2. TypeOK /\ [Next]_vars => TypeOK'
  <2> SUFFICES ASSUME TypeOK, [Next]_vars PROVE TypeOK'
    OBVIOUS
  <2>1. ASSUME NEW e \in Entity, NEW event \in 0..MaxTime, NEW created \in 0..MaxTime,
               NEW value \in Value, Ingest(e, event, created, value)
        PROVE  TypeOK'
    <3> DEFINE row == [event |-> event, created |-> created, value |-> value, seq |-> added]
    <3>1. /\ history \in [Entity -> SUBSET Row] /\ added \in Nat /\ now \in Nat
          /\ event \in Nat /\ created \in Nat /\ created <= MaxTime /\ MaxTime \in Nat
      BY FeatureAssumption DEF TypeOK
    <3>2. row \in Row
      BY <3>1 DEF Row
    <3>3. history' = [history EXCEPT ![e] = @ \cup {row}] /\ added' = added + 1
          /\ now' = now /\ served' = served /\ event <= created
      BY <2>1 DEF Ingest, Add
    <3>4. history' \in [Entity -> SUBSET Row]
      BY <3>1, <3>2, <3>3
    <3>5. ASSUME NEW f \in Entity, NEW r \in history[f]
          PROVE  r.event <= r.created /\ r.created <= MaxTime /\ r.seq < added /\ r.seq \in Nat
      BY <3>1 DEF TypeOK, Row
    <3>6. ASSUME NEW f \in Entity, NEW r \in history'[f] PROVE r \in history[f] \/ r = row
      BY <3>1, <3>3
    <3>7. ASSUME NEW f \in Entity, NEW r \in history'[f]
          PROVE  r.event <= r.created /\ r.created <= MaxTime /\ r.seq < added'
      <4>1. CASE r \in history[f]
        BY <4>1, <3>1, <3>3, <3>5
      <4>2. CASE r = row
        BY <4>2, <3>1, <3>3
      <4> QED BY <3>6, <3>7, <4>1, <4>2
    <3>8. ASSUME NEW f \in Entity, NEW r \in history'[f], NEW s \in history'[f], r.seq = s.seq
          PROVE  r = s
      <4>1. CASE r \in history[f] /\ s \in history[f]
        BY <4>1, <3>8 DEF TypeOK
      <4>2. CASE r \in history[f] /\ s = row
        BY <4>2, <3>1, <3>5, <3>8
      <4>3. CASE r = row /\ s \in history[f]
        BY <4>3, <3>1, <3>5, <3>8
      <4> QED BY <3>6, <3>8, <4>1, <4>2, <4>3
    <3>9. ASSUME NEW s \in served PROVE s.at <= now /\ s.rows <= added + 1
      BY <3>1 DEF TypeOK, Read
    <3> QED BY <3>1, <3>3, <3>4, <3>7, <3>8, <3>9 DEF TypeOK
  <2>2. ASSUME NEW e \in Entity, Serve(e) PROVE TypeOK'
    <3>1. AsOf(e, now) \in Value \cup {NoValue}
      <4>1. CASE Knowable(e, now) # {} /\ Fresh(Latest(Knowable(e, now)), now)
        <5>1. Latest(Knowable(e, now)) \in Row
          BY <4>1, LatestIsKnowable DEF Knowable, TypeOK
        <5> QED BY <4>1, <5>1 DEF AsOf, Candidate, Row
      <4>2. CASE ~(Knowable(e, now) # {} /\ Fresh(Latest(Knowable(e, now)), now))
        BY <4>2 DEF AsOf, Candidate
      <4> QED BY <4>1, <4>2
    <3> QED BY <2>2, <3>1 DEF Serve, TypeOK, Read
  <2>3. ASSUME Tick PROVE TypeOK'
    BY <2>3 DEF Tick, TypeOK, Row, Read
  <2>4. CASE UNCHANGED vars
    BY <2>4 DEF vars, TypeOK
  <2> QED BY <2>1, <2>2, <2>3, <2>4 DEF Next
<1> QED
  BY <1>1, <1>2, PTL DEF Spec

-----------------------------------------------------------------------------
(* as_of() has a value exactly when the latest knowable row is fresh.       *)
LEMMA ValueWhenFresh ==
    ASSUME TypeOK, NEW e \in Entity, NEW at \in Nat
    PROVE  /\ AsOf(e, at) # NoValue <=>
                Knowable(e, at) # {} /\ Fresh(Latest(Knowable(e, at)), at)
           /\ AsOf(e, at) # NoValue => AsOf(e, at) = Latest(Knowable(e, at)).value
<1>1. CASE Knowable(e, at) # {}
  <2>1. Latest(Knowable(e, at)) \in Row
    BY <1>1, LatestIsKnowable DEF Knowable, TypeOK
  <2>2. Latest(Knowable(e, at)).value # NoValue
    BY <2>1, FeatureAssumption DEF Row
  <2> QED BY <1>1, <2>2 DEF AsOf, Candidate
<1>2. CASE Knowable(e, at) = {}
  BY <1>2 DEF AsOf, Candidate
<1> QED
  BY <1>1, <1>2

(* A row that is not the latest goes stale no later than the latest does.   *)
LEMMA FreshIsMonotone ==
    ASSUME NEW r \in Row, NEW s \in Row, Precedes(r, s), NEW at \in Nat, Fresh(r, at)
    PROVE  Fresh(s, at)
BY FeatureAssumption DEF Row, Precedes, Fresh

-----------------------------------------------------------------------------
\* The rows a read could see, and what as_of() makes of them.
SeenBy(read) == {r \in Knowable(read.entity, read.at) : r.seq < read.rows}
ReadsStand == \A s \in served : s.value = Candidate(SeenBy(s), s.at)

(* Where the join disagrees with a read, the row it joins came after it: it *)
(* is not among those the read saw, which alone would rebuild the value.    *)
LEMMA StandingReadsAreBackdated == TypeOK /\ ReadsStand => SkewIsBackdated
<1> SUFFICES ASSUME TypeOK, ReadsStand, NEW read \in SkewFindings
             PROVE  \E r \in history[read.entity] :
                       /\ r.event <= read.at /\ r.created <= read.at
                       /\ r.seq >= read.rows
                       /\ TrainingRow(read).value = r.value
  BY DEF SkewIsBackdated
<1> DEFINE e == read.entity
           at == read.at
           K == Knowable(e, at)
           last == Latest(K)
<1>1. /\ read \in served /\ read \in Read /\ e \in Entity /\ at \in Nat /\ read.rows \in Nat
      /\ read.value = Candidate(SeenBy(read), at)
  BY DEF SkewFindings, TypeOK, Read, ReadsStand
<1>2. AsOf(e, at) # read.value
  BY <1>1 DEF SkewFindings, TrainingRow, Read
<1>3. SeenBy(read) \subseteq K /\ K \subseteq history[e] /\ history[e] \subseteq Row
  BY <1>1 DEF SeenBy, Knowable, TypeOK
<1>4. K # {}
  <2>1. CASE K = {}
    BY <2>1, <1>1, <1>2, <1>3 DEF AsOf, Candidate
  <2> QED BY <2>1
<1>5. last \in K /\ \A s \in K : Precedes(s, last)
  BY <1>1, <1>4, LatestIsKnowable
<1> HIDE DEF last
<1>6. ASSUME last.seq < read.rows PROVE FALSE
  <2>1. last \in SeenBy(read)
    BY <1>5, <1>6 DEF SeenBy
  <2>2. Latest(SeenBy(read)) \in SeenBy(read)
        /\ \A s \in SeenBy(read) : Precedes(s, Latest(SeenBy(read)))
    BY <2>1, <1>3, <1>5 DEF Latest
  <2> DEFINE l == Latest(SeenBy(read))
  <2>3. Precedes(last, l) /\ Precedes(l, last) /\ l \in Row /\ last \in Row
        /\ l \in history[e] /\ last \in history[e]
    BY <2>1, <2>2, <1>3, <1>5
  <2>4. l.seq = last.seq
    <3> HIDE DEF l
    <3> QED BY <2>3 DEF Precedes, Row
  <2>5. l = last
    <3> HIDE DEF l
    <3> QED BY <1>1, <2>3, <2>4 DEF TypeOK
  <2>6. Candidate(SeenBy(read), at) = Candidate(K, at)
    BY <2>1, <2>5, <1>4 DEF Candidate, last
  <2> QED BY <2>6, <1>1, <1>2 DEF AsOf
<1>7. last.seq \in Nat /\ last \in Row
  BY <1>3, <1>5 DEF Row
<1>8. Fresh(last, at)
  <2>1. CASE ~Fresh(last, at)
    <3>1. AsOf(e, at) = NoValue
      BY <2>1 DEF AsOf, Candidate, last
    <3>2. ASSUME SeenBy(read) # {} PROVE ~Fresh(Latest(SeenBy(read)), at)
      <4>1. /\ \A r \in SeenBy(read) :
                  r.event <= MaxTime + added /\ r.created <= MaxTime + added
                  /\ r.seq <= MaxTime + added
            /\ MaxTime + added \in Nat
        BY <1>1, <1>3, FeatureAssumption DEF TypeOK, Row
      <4>2. \E r \in SeenBy(read) : \A s \in SeenBy(read) : Precedes(s, r)
        BY <4>1, <3>2, <1>3, LatestExists
      <4>3. Latest(SeenBy(read)) \in SeenBy(read)
        BY <4>2 DEF Latest
      <4>4. Precedes(Latest(SeenBy(read)), last) /\ Latest(SeenBy(read)) \in Row
        BY <4>3, <1>3, <1>5
      <4> QED BY <4>4, <1>1, <1>7, <2>1, FreshIsMonotone
    <3>3. Candidate(SeenBy(read), at) = NoValue
      BY <3>2 DEF Candidate
    <3> QED BY <3>1, <3>3, <1>1, <1>2
  <2> QED BY <2>1
<1>9. AsOf(e, at) = last.value
  BY <1>4, <1>8 DEF AsOf, Candidate, last
<1>10. TrainingRow(read).value = last.value
  BY <1>1, <1>9 DEF TrainingRow, Read
<1>11. last \in history[e] /\ last.event <= at /\ last.created <= at
  BY <1>5 DEF Knowable
<1> QED
  BY <1>1, <1>6, <1>7, <1>10, <1>11

(* Training/serving skew is backdating and nothing else: the rows a read    *)
(* could see never change, whatever is added afterwards.                    *)
THEOREM SkewOnlyByBackdating == Spec => []SkewIsBackdated
<1>1. Init => ReadsStand
  BY DEF Init, ReadsStand
<1>2. TypeOK /\ ReadsStand /\ [Next]_vars => ReadsStand'
  <2> SUFFICES ASSUME TypeOK, ReadsStand, [Next]_vars PROVE ReadsStand'
    OBVIOUS
  <2>1. ASSUME NEW e \in Entity, NEW event \in 0..MaxTime, NEW created \in 0..MaxTime,
               NEW value \in Value, Ingest(e, event, created, value)
        PROVE  ReadsStand'
    <3>0. served' = served
      BY <2>1 DEF Ingest, Add
    <3> SUFFICES ASSUME NEW s \in served PROVE s.value = Candidate(SeenBy(s)', s.at)
      BY <3>0 DEF ReadsStand
    <3>1. /\ s.entity \in Entity /\ s.rows \in Nat /\ s.rows <= added /\ added \in Nat
          /\ history \in [Entity -> SUBSET Row]
      BY DEF TypeOK, Read
    <3>2. SeenBy(s)' = SeenBy(s)
      BY <2>1, <3>1 DEF Ingest, Add, Knowable, SeenBy
    <3> QED BY <3>2 DEF ReadsStand
  <2>2. ASSUME NEW e \in Entity, Serve(e) PROVE ReadsStand'
    <3> DEFINE new == [entity |-> e, at |-> now, value |-> AsOf(e, now), rows |-> added]
    <3>1. history' = history /\ served' = served \cup {new}
      BY <2>2 DEF Serve
    <3>2. ASSUME NEW s \in served' PROVE SeenBy(s)' = SeenBy(s)
      BY <3>1 DEF SeenBy, Knowable
    <3>3. SeenBy(new) = Knowable(e, now)
      BY DEF SeenBy, Knowable, TypeOK
    <3>4. new.value = Candidate(SeenBy(new), new.at)
      BY <3>3 DEF AsOf
    <3>5. ASSUME NEW s \in served' PROVE s.value = Candidate(SeenBy(s)', s.at)
      <4>1. CASE s \in served
        BY <3>2, <4>1 DEF ReadsStand
      <4>2. CASE s = new
        BY <3>2, <3>4, <4>2
      <4> QED BY <3>1, <4>1, <4>2
    <3> QED BY <3>5 DEF ReadsStand
  <2>3. ASSUME history' = history, served' = served PROVE ReadsStand'
    <3> SUFFICES ASSUME NEW s \in served PROVE s.value = Candidate(SeenBy(s)', s.at)
      BY <2>3 DEF ReadsStand
    <3>1. SeenBy(s)' = SeenBy(s)
      BY <2>3 DEF SeenBy, Knowable
    <3> QED BY <3>1 DEF ReadsStand
  <2> QED BY <2>1, <2>2, <2>3 DEF Next, Tick, vars
<1> QED
  BY <1>1, <1>2, StandingReadsAreBackdated, FeatureTypeCorrect, PTL DEF Spec

-----------------------------------------------------------------------------
(* The status of a training row is truthful: the latest row decides for all *)
(* of them, because an older one expires first.                             *)
THEOREM StatusTruthful == Spec => []StatusIsTruthful
<1>1. TypeOK => StatusIsTruthful
  <2> SUFFICES ASSUME TypeOK, NEW e \in Entity, NEW at \in 0..MaxTime
               PROVE  /\ Status(e, at) = "missing" <=>
                            ~\E r \in history[e] : r.event <= at /\ r.created <= at
                      /\ Status(e, at) = "value" <=>
                            \E r \in history[e] : /\ r.event <= at /\ r.created <= at
                                                  /\ Ttl # NoTtl => at - r.event <= Ttl
    BY DEF StatusIsTruthful
  <2> DEFINE last == Latest(Knowable(e, at))
  <2>1. at \in Nat /\ history[e] \subseteq Row
    BY FeatureAssumption DEF TypeOK
  <2>2. (AsOf(e, at) # NoValue) <=> (Knowable(e, at) # {} /\ Fresh(last, at))
    BY <2>1, ValueWhenFresh
  <2>3. (\E r \in Knowable(e, at) : Fresh(r, at)) <=> (Knowable(e, at) # {} /\ Fresh(last, at))
    <3>1. ASSUME NEW r \in Knowable(e, at), Fresh(r, at) PROVE Fresh(last, at)
      <4>1. last \in Knowable(e, at) /\ Precedes(r, last)
        BY <2>1, LatestIsKnowable
      <4>2. r \in Row /\ last \in Row
        BY <2>1, <4>1 DEF Knowable
      <4> HIDE DEF last
      <4> QED BY <2>1, <3>1, <4>1, <4>2, FreshIsMonotone
    <3>2. Knowable(e, at) # {} => last \in Knowable(e, at)
      BY <2>1, LatestIsKnowable
    <3> HIDE DEF last
    <3> QED BY <3>1, <3>2
  <2>4. (\E r \in Knowable(e, at) : Fresh(r, at))
          <=> \E r \in history[e] : /\ r.event <= at /\ r.created <= at
                                    /\ Ttl # NoTtl => at - r.event <= Ttl
    <3>1. ASSUME NEW r \in history[e]
          PROVE  Fresh(r, at) <=> (Ttl # NoTtl => at - r.event <= Ttl)
      BY <2>1, FeatureAssumption DEF Fresh, Row
    <3> QED BY <3>1 DEF Knowable
  <2>5. (Status(e, at) = "value") <=> (AsOf(e, at) # NoValue)
    BY DEF Status
  <2>6. (Status(e, at) = "missing") <=> (AsOf(e, at) = NoValue /\ Knowable(e, at) = {})
    BY DEF Status
  <2>7. (Knowable(e, at) = {}) <=> ~\E r \in history[e] : r.event <= at /\ r.created <= at
    BY DEF Knowable
  <2> HIDE DEF last
  <2> QED BY <2>2, <2>3, <2>4, <2>5, <2>6, <2>7
<1> QED
  BY <1>1, FeatureTypeCorrect, PTL

(* A correction wins: the row joined is the last in the order of the sorted *)
(* bucket, so no knowable row reports a later event, or the same one later. *)
THEOREM CorrectionsWin == Spec => []CorrectionWins
<1>1. TypeOK => CorrectionWins
  <2> SUFFICES ASSUME TypeOK, NEW e \in Entity, NEW at \in 0..MaxTime, AsOf(e, at) # NoValue
               PROVE  \E r \in Knowable(e, at) :
                        /\ r.value = AsOf(e, at)
                        /\ ~\E s \in Knowable(e, at) :
                              s.event > r.event \/ (s.event = r.event /\ s.created > r.created)
    BY DEF CorrectionWins
  <2>1. at \in Nat /\ Knowable(e, at) # {}
    BY FeatureAssumption, ValueWhenFresh DEF TypeOK
  <2>2. PICK r \in Knowable(e, at) :
          r.value = AsOf(e, at) /\ \A s \in Knowable(e, at) : Precedes(s, r)
    BY <2>1, ValueWhenFresh, LatestIsKnowable
  <2>3. Knowable(e, at) \subseteq Row
    BY DEF TypeOK, Knowable
  <2>4. ASSUME NEW s \in Knowable(e, at)
        PROVE  ~(s.event > r.event \/ (s.event = r.event /\ s.created > r.created))
    BY <2>2, <2>3 DEF Precedes, Row
  <2> QED BY <2>2, <2>4
<1> QED
  BY <1>1, FeatureTypeCorrect, PTL

=============================================================================
