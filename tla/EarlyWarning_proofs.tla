------------------------ MODULE EarlyWarning_proofs -------------------------
(***************************************************************************)
(* The early-warning loop disables no signal that no officer ever called   *)
(* irrelevant, keeps a disabled one silent and holds back the right alerts *)
(* at the cap, for any signals, alerts, floor, cap and window.             *)
(***************************************************************************)
EXTENDS EarlyWarning, FiniteSetTheorems, TLAPS

LEMMA InitTypes == Init => TypeOK
<1> SUFFICES ASSUME Init PROVE TypeOK
  OBVIOUS
<1>1. Opened = {} /\ Disposed = {} /\ Known = {}
  BY DEF Init, Opened, Disposed, Known
<1>2. IsFiniteSet({})
  BY FS_EmptySet
<1>3. /\ catalog \in [Signal -> SignalDefinition \cup {NotRegistered}]
      /\ cases \in [AlertId -> Case \cup {NotOpen}]
      /\ dispositions \in [AlertId -> Disposition \cup {NoDisposition}]
  BY DEF Init
<1>4. day = 0 /\ 0 \in 0..MaxDay
  BY EwsAssumption DEF Init
<1>5. floor_ratified \in BOOLEAN /\ assigned = {} /\ condemned = {} /\ rebuked = {}
  BY DEF Init
<1> QED
  BY <1>1, <1>2, <1>3, <1>4, <1>5 DEF TypeOK

(* What an alert that is raised adds: one case, opened by active signals.  *)
LEMMA RaisedCase ==
    ASSUME TypeOK, NEW a \in AlertId, NEW fired \in SUBSET Signal,
           NEW cp \in BOOLEAN, NEW adverse \in BOOLEAN, NEW velocity \in BOOLEAN,
           RaiseAlert(a, fired, cp, adverse, velocity)
    PROVE  /\ cases' \in [AlertId -> Case \cup {NotOpen}]
           /\ a \notin Opened /\ Opened' = Opened \cup {a}
           /\ \A b \in Opened : cases'[b] = cases[b]
           /\ cases'[a].nth = Cardinality(Opened)
           /\ cases'[a].signals = fired /\ fired \subseteq Active /\ fired # {}
           /\ IsFiniteSet(Opened') /\ Cardinality(Opened') = Cardinality(Opened) + 1
<1> DEFINE c == [tier |-> TierOf(cp, adverse, velocity), raised |-> day,
                 nth |-> Cardinality(Opened), signals |-> fired]
<1>1. c \in Case
  <2>1. Cardinality(Opened) \in Nat
    BY FS_CardinalityType DEF TypeOK
  <2>2. TierOf(cp, adverse, velocity) \in Tier
    BY DEF RaiseAlert
  <2> QED BY <2>1, <2>2 DEF Case, TypeOK
<1>2. cases' = [cases EXCEPT ![a] = c] /\ a \notin Opened /\ fired \subseteq Active /\ fired # {}
  BY DEF RaiseAlert
<1>3. c.nth = Cardinality(Opened) /\ c.signals = fired
  OBVIOUS
<1> HIDE DEF c
<1>4. cases' \in [AlertId -> Case \cup {NotOpen}] /\ cases'[a] = c
  BY <1>1, <1>2 DEF TypeOK
<1>5. c # NotOpen
  BY <1>1, AbsentAssumption
<1>6. Opened' = Opened \cup {a} /\ \A b \in Opened : cases'[b] = cases[b]
  BY <1>2, <1>4, <1>5 DEF Opened, TypeOK
<1>7. IsFiniteSet(Opened') /\ Cardinality(Opened') = Cardinality(Opened) + 1
  BY <1>2, <1>6, FS_AddElement DEF TypeOK
<1> QED
  BY <1>2, <1>3, <1>4, <1>6, <1>7

LEMMA StepKeepsTypes ==
    ASSUME TypeOK, Next
    PROVE  TypeOK'
<1>1. ASSUME NEW s \in Signal, NEW v \in SignalVersion, NEW e \in Evidence \cup {NoEvidence},
             Register(s, v, e)
      PROVE  TypeOK'
  <2>1. [version |-> v, precision |-> e, enabled |-> TRUE] \in SignalDefinition
    BY DEF SignalDefinition
  <2>2. catalog' \in [Signal -> SignalDefinition \cup {NotRegistered}]
    BY <1>1, <2>1 DEF Register, TypeOK
  <2>3. Known \subseteq Known'
    BY <1>1, <2>1, AbsentAssumption DEF Register, Known, TypeOK
  <2>4. Opened' = Opened /\ Disposed' = Disposed
    BY <1>1 DEF Register, Opened, Disposed
  <2> QED BY <1>1, <2>2, <2>3, <2>4 DEF Register, TypeOK
<1>2. CASE RatifyFloor
  BY <1>2 DEF RatifyFloor, Known, Opened, Disposed, TypeOK
<1>3. ASSUME NEW a \in AlertId, NEW fired \in SUBSET Signal,
             NEW cp \in BOOLEAN, NEW adverse \in BOOLEAN, NEW velocity \in BOOLEAN,
             RaiseAlert(a, fired, cp, adverse, velocity)
      PROVE  TypeOK'
  <2>1. UNCHANGED <<catalog, floor_ratified, dispositions, assigned, condemned, day, rebuked>>
    BY <1>3 DEF RaiseAlert
  <2>2. Known' = Known /\ Disposed' = Disposed
    BY <2>1 DEF Known, Disposed
  <2> QED BY <1>3, <2>1, <2>2, RaisedCase DEF TypeOK
<1>4. ASSUME NEW a \in AlertId, NEW confirmed \in BOOLEAN, RecordDisposition(a, confirmed)
      PROVE  TypeOK'
  <2>1. [confirmed |-> confirmed, disposed |-> day] \in Disposition
    BY DEF Disposition, TypeOK
  <2>2. dispositions' \in [AlertId -> Disposition \cup {NoDisposition}]
    BY <1>4, <2>1 DEF RecordDisposition, TypeOK
  <2>3. Opened' = Opened /\ Known' = Known /\ Disposed' \subseteq Disposed \cup {a}
    BY <1>4 DEF RecordDisposition, Opened, Disposed, Known, TypeOK
  <2>4. a \in Opened /\ cases[a].signals \subseteq Signal
    BY <1>4 DEF RecordDisposition, Opened, TypeOK, Case
  <2>5. rebuked' \subseteq Signal
    BY <1>4, <2>4 DEF RecordDisposition, TypeOK
  <2> QED BY <1>4, <2>2, <2>3, <2>4, <2>5 DEF RecordDisposition, TypeOK
<1>5. CASE OfficerPass
  BY <1>5 DEF OfficerPass, Assigned, OpenCases, Known, Opened, Disposed, TypeOK
<1>6. ASSUME NEW s \in Signal, RetireDegraded(s)
      PROVE  TypeOK'
  BY <1>6 DEF RetireDegraded, Known, Opened, Disposed, TypeOK
<1>7. CASE ApplyRetirements
  <2>1. ASSUME NEW s \in condemned
        PROVE  [catalog[s] EXCEPT !.enabled = FALSE] \in SignalDefinition
    BY DEF Known, SignalDefinition, TypeOK
  <2>2. catalog' \in [Signal -> SignalDefinition \cup {NotRegistered}]
    BY <1>7, <2>1 DEF ApplyRetirements, TypeOK
  <2>3. Known' = Known
    BY <1>7, <2>1, AbsentAssumption DEF ApplyRetirements, Known, TypeOK
  <2>4. Opened' = Opened /\ Disposed' = Disposed
    BY <1>7 DEF ApplyRetirements, Opened, Disposed
  <2> QED BY <1>7, <2>2, <2>3, <2>4 DEF ApplyRetirements, TypeOK
<1>8. CASE NextDay
  <2>1. day' \in 0..MaxDay
    BY <1>8, EwsAssumption DEF NextDay, TypeOK
  <2> QED BY <1>8, <2>1 DEF NextDay, Known, Opened, Disposed, TypeOK
<1> QED
  BY <1>1, <1>2, <1>3, <1>4, <1>5, <1>6, <1>7, <1>8 DEF Next

(* The catalogue, the cases and the dispositions keep their shape.         *)
THEOREM EwsTypeCorrect == Spec => []TypeOK
<1>1. TypeOK /\ UNCHANGED vars => TypeOK'
  BY DEF TypeOK, vars, Known, Opened, Disposed
<1> QED
  BY <1>1, InitTypes, StepKeepsTypes, PTL DEF Spec

-----------------------------------------------------------------------------
(* Retirement.                                                             *)

(* An alert is raised by a shippable signal, whose backtest holds the      *)
(* floor: where alerts exist the floor is a proportion.                    *)
LEMMA ShippableHoldsFloor ==
    ASSUME TypeOK, NEW s \in Active
    PROVE  Floor[1] <= Floor[2]
<1> DEFINE e == catalog[s].precision
<1>1. /\ s \in Known /\ e # NoEvidence /\ e.total >= MinAlerts
      /\ ~(e.confirmed * Floor[2] < Floor[1] * e.total)
  BY DEF Active, Shippable, BelowFloor
<1>2. e \in Evidence
  BY <1>1 DEF Known, TypeOK, SignalDefinition
<1>3. /\ e.confirmed \in Nat /\ e.total \in Nat /\ e.confirmed <= e.total /\ e.total > 0
      /\ Floor[1] \in Nat /\ Floor[2] \in Nat
  BY <1>1, <1>2, EwsAssumption DEF PrecisionEvidence
<1> HIDE DEF e
<1>4. ASSUME NEW c \in Nat, NEW t \in Nat, NEW p \in Nat, NEW q \in Nat,
             c <= t, t > 0, p > q
      PROVE  c * q < p * t
  <2>1. c * q <= t * q
    BY <1>4
  <2>2. t * q < t * p
    BY <1>4
  <2>3. t * p = p * t /\ c * q \in Nat /\ t * q \in Nat /\ t * p \in Nat
    BY <1>4
  <2> QED BY <2>1, <2>2, <2>3
<1> QED
  BY <1>1, <1>3, <1>4

(* A signal degrades only on an officer's word: where the floor is a       *)
(* proportion, a window of confirmations is never below it.                *)
LEMMA DegradedByAnOfficer ==
    ASSUME TypeOK, Floor[1] <= Floor[2], NEW s \in Signal, Degraded(s)
    PROVE  \E a \in InWindow(s) : ~dispositions[a].confirmed
<1> SUFFICES ASSUME \A a \in InWindow(s) : dispositions[a].confirmed
             PROVE  FALSE
  OBVIOUS
<1>1. Confirmed(InWindow(s)) = InWindow(s)
  BY DEF Confirmed
<1> DEFINE n == Cardinality(InWindow(s))
<1>2. n \in Nat
  <2>1. InWindow(s) \subseteq Opened
    BY DEF InWindow, TypeOK
  <2> QED BY <2>1, FS_Subset, FS_CardinalityType DEF TypeOK
<1>3. n * Floor[2] < Floor[1] * n
  BY <1>1 DEF Degraded, BelowFloor
<1> HIDE DEF n
<1>4. n * Floor[1] <= n * Floor[2] /\ n * Floor[1] = Floor[1] * n
  BY <1>2, EwsAssumption
<1> QED
  BY <1>2, <1>3, <1>4, EwsAssumption

(* What keeps the retirements honest: a rejected alert stays rebuked, a    *)
(* signal awaiting retirement has one, and alerts exist only under a floor *)
(* that is a proportion.                                                   *)
RetirementInv ==
    /\ condemned \subseteq rebuked
    /\ GoodSignalsSurvive
    /\ \A a \in Disposed : dispositions[a].confirmed \/ cases[a].signals \subseteq rebuked
    /\ Opened # {} => Floor[1] <= Floor[2]

LEMMA StepKeepsRetirement ==
    ASSUME TypeOK, TypeOK', RetirementInv, Next
    PROVE  RetirementInv'
<1>1. ASSUME NEW s \in Signal, NEW v \in SignalVersion, NEW e \in Evidence \cup {NoEvidence},
             Register(s, v, e)
      PROVE  RetirementInv'
  <2>1. \A t \in Known' : catalog'[t].enabled \/ (t \in Known /\ catalog'[t] = catalog[t])
    BY <1>1 DEF Register, Known, TypeOK
  <2>2. Opened' = Opened /\ Disposed' = Disposed
    BY <1>1 DEF Register, Opened, Disposed
  <2> QED BY <1>1, <2>1, <2>2 DEF Register, RetirementInv, GoodSignalsSurvive
<1>2. CASE RatifyFloor
  BY <1>2 DEF RatifyFloor, RetirementInv, GoodSignalsSurvive, Known, Opened, Disposed
<1>3. ASSUME NEW a \in AlertId, NEW fired \in SUBSET Signal,
             NEW cp \in BOOLEAN, NEW adverse \in BOOLEAN, NEW velocity \in BOOLEAN,
             RaiseAlert(a, fired, cp, adverse, velocity)
      PROVE  RetirementInv'
  <2>1. UNCHANGED <<catalog, floor_ratified, dispositions, assigned, condemned, day, rebuked>>
    BY <1>3 DEF RaiseAlert
  <2>2. Known' = Known /\ Disposed' = Disposed
    BY <2>1 DEF Known, Disposed
  <2>3. \A b \in Disposed : cases'[b] = cases[b]
    BY <1>3, RaisedCase DEF TypeOK
  <2>4. Floor[1] <= Floor[2]
    <3>1. fired \subseteq Active /\ fired # {}
      BY <1>3 DEF RaiseAlert
    <3> QED BY <3>1, ShippableHoldsFloor
  <2> QED BY <2>1, <2>2, <2>3, <2>4 DEF RetirementInv, GoodSignalsSurvive
<1>4. ASSUME NEW a \in AlertId, NEW confirmed \in BOOLEAN, RecordDisposition(a, confirmed)
      PROVE  RetirementInv'
  <2>1. Opened' = Opened /\ Known' = Known /\ UNCHANGED <<catalog, cases, condemned>>
    BY <1>4 DEF RecordDisposition, Opened, Known
  <2>2. rebuked \subseteq rebuked' /\ (confirmed \/ cases[a].signals \subseteq rebuked')
    BY <1>4 DEF RecordDisposition
  <2>3. \A b \in Disposed' : b # a => b \in Disposed /\ dispositions'[b] = dispositions[b]
    BY <1>4 DEF RecordDisposition, Disposed, TypeOK
  <2>4. dispositions'[a].confirmed = confirmed
    BY <1>4 DEF RecordDisposition, TypeOK
  <2>5. \A b \in Disposed' : dispositions'[b].confirmed \/ cases'[b].signals \subseteq rebuked'
    BY <2>1, <2>2, <2>3, <2>4 DEF RetirementInv
  <2> QED BY <2>1, <2>2, <2>5 DEF RetirementInv, GoodSignalsSurvive
<1>5. CASE OfficerPass
  BY <1>5 DEF OfficerPass, RetirementInv, GoodSignalsSurvive, Known, Opened, Disposed
<1>6. ASSUME NEW s \in Signal, RetireDegraded(s)
      PROVE  RetirementInv'
  <2>1. condemned' = condemned \cup {s} /\ Degraded(s)
    BY <1>6 DEF RetireDegraded
  <2>2. InWindow(s) # {} /\ InWindow(s) \subseteq Opened
    BY <2>1 DEF Degraded, InWindow, TypeOK
  <2>3. PICK a \in InWindow(s) : ~dispositions[a].confirmed
    BY <2>1, <2>2, DegradedByAnOfficer DEF RetirementInv
  <2>4. s \in rebuked
    BY <2>3 DEF InWindow, RetirementInv
  <2> QED BY <1>6, <2>1, <2>4
             DEF RetireDegraded, RetirementInv, GoodSignalsSurvive, Known, Opened, Disposed
<1>7. CASE ApplyRetirements
  <2>1. \A s \in Known' : s \in Known /\ (catalog'[s] = catalog[s] \/ s \in condemned)
    BY <1>7 DEF ApplyRetirements, Known, TypeOK
  <2>2. Opened' = Opened /\ Disposed' = Disposed
    BY <1>7 DEF ApplyRetirements, Opened, Disposed
  <2> QED BY <1>7, <2>1, <2>2 DEF ApplyRetirements, RetirementInv, GoodSignalsSurvive
<1>8. CASE NextDay
  BY <1>8 DEF NextDay, RetirementInv, GoodSignalsSurvive, Known, Opened, Disposed
<1> QED
  BY <1>1, <1>2, <1>3, <1>4, <1>5, <1>6, <1>7, <1>8 DEF Next

(* A signal is disabled only after an officer called one of its alerts     *)
(* irrelevant.                                                             *)
THEOREM OnlyRebukedSignalsRetire == Spec => []GoodSignalsSurvive
<1>1. Init => RetirementInv
  BY DEF Init, RetirementInv, GoodSignalsSurvive, Known, Opened, Disposed
<1>2. TypeOK /\ TypeOK' /\ RetirementInv /\ [Next]_vars => RetirementInv'
  <2>1. RetirementInv /\ UNCHANGED vars => RetirementInv'
    BY DEF vars, RetirementInv, GoodSignalsSurvive, Known, Opened, Disposed
  <2> QED BY <2>1, StepKeepsRetirement
<1>3. RetirementInv => GoodSignalsSurvive
  BY DEF RetirementInv
<1> QED
  BY <1>1, <1>2, <1>3, EwsTypeCorrect, PTL DEF Spec

-----------------------------------------------------------------------------
(* The officer's cap.                                                      *)

(* The tie-break: no two cases were opened at the same place.              *)
CaseOrder ==
    /\ \A a \in Opened : cases[a].nth < Cardinality(Opened)
    /\ \A a, b \in Opened : cases[a].nth = cases[b].nth => a = b

LEMMA StepKeepsOrder ==
    ASSUME TypeOK, CaseOrder, [Next]_vars
    PROVE  CaseOrder'
<1>1. ASSUME NEW a \in AlertId, NEW fired \in SUBSET Signal,
             NEW cp \in BOOLEAN, NEW adverse \in BOOLEAN, NEW velocity \in BOOLEAN,
             RaiseAlert(a, fired, cp, adverse, velocity)
      PROVE  CaseOrder'
  <2>1. /\ a \notin Opened /\ Opened' = Opened \cup {a}
        /\ \A b \in Opened : cases'[b] = cases[b]
        /\ cases'[a].nth = Cardinality(Opened)
        /\ Cardinality(Opened') = Cardinality(Opened) + 1
    BY <1>1, RaisedCase
  <2>2. Cardinality(Opened) \in Nat /\ \A b \in Opened : cases[b].nth \in Nat
    BY FS_CardinalityType DEF TypeOK, Opened, Case
  <2>3. \A b \in Opened : cases'[b].nth = cases[b].nth /\ cases[b].nth < Cardinality(Opened)
    BY <2>1 DEF CaseOrder
  <2>4. \A b \in Opened' : cases'[b].nth < Cardinality(Opened')
    BY <2>1, <2>2, <2>3
  <2>5. ASSUME NEW b \in Opened', NEW c \in Opened', cases'[b].nth = cases'[c].nth
        PROVE  b = c
    BY <2>1, <2>2, <2>3, <2>5 DEF CaseOrder
  <2> QED BY <2>4, <2>5 DEF CaseOrder
<1>2. CASE cases' = cases
  BY <1>2 DEF CaseOrder, Opened
<1> QED
  BY <1>1, <1>2 DEF Next, vars, Register, RatifyFloor, RecordDisposition, OfficerPass,
     RetireDegraded, ApplyRetirements, NextDay

(* The worklist's order is a strict total order on the opened cases.       *)
LEMMA OutranksIsAnOrder ==
    ASSUME TypeOK, CaseOrder
    PROVE  /\ \A a \in Opened : ~Outranks(a, a)
           /\ \A a, b, c \in Opened : Outranks(a, b) /\ Outranks(b, c) => Outranks(a, c)
           /\ \A a, b \in Opened : a # b => Outranks(a, b) \/ Outranks(b, a)
<1>1. \A a \in Opened : /\ cases[a].tier \in {"RED", "AMBER"}
                        /\ cases[a].raised \in Nat /\ cases[a].nth \in Nat
  BY EwsAssumption DEF TypeOK, Opened, Case, Tier
<1>2. ASSUME NEW a \in Opened
      PROVE  ~Outranks(a, a)
  BY <1>1 DEF Outranks
<1>3. ASSUME NEW a \in Opened, NEW b \in Opened, NEW c \in Opened, Outranks(a, b), Outranks(b, c)
      PROVE  Outranks(a, c)
  BY <1>1, <1>3 DEF Outranks
<1>4. ASSUME NEW a \in Opened, NEW b \in Opened, a # b
      PROVE  Outranks(a, b) \/ Outranks(b, a)
  <2>1. cases[a].nth # cases[b].nth
    BY <1>4 DEF CaseOrder
  <2> QED BY <1>1, <2>1 DEF Outranks
<1> QED
  BY <1>2, <1>3, <1>4

(* Ranks: an alert's rank is the number of alerts that outrank it.         *)
Ahead(S, a) == {b \in S : Outranks(b, a)}

LEMMA RanksAreOrdered ==
    ASSUME TypeOK, CaseOrder, NEW S \in SUBSET Opened
    PROVE  /\ IsFiniteSet(S) /\ Cardinality(S) \in Nat
           /\ \A a \in S : Cardinality(Ahead(S, a)) \in 0 .. Cardinality(S) - 1
           /\ \A a, b \in S : Outranks(a, b) => Cardinality(Ahead(S, a)) < Cardinality(Ahead(S, b))
<1>1. IsFiniteSet(S) /\ Cardinality(S) \in Nat
  BY FS_Subset, FS_CardinalityType DEF TypeOK
<1>2. \A a \in S : /\ IsFiniteSet(Ahead(S, a)) /\ Cardinality(Ahead(S, a)) \in Nat
                   /\ Ahead(S, a) \subseteq S
  BY <1>1, FS_Subset, FS_CardinalityType DEF Ahead
<1>3. ASSUME NEW a \in S
      PROVE  Cardinality(Ahead(S, a)) \in 0 .. Cardinality(S) - 1
  <2>1. a \notin Ahead(S, a)
    BY OutranksIsAnOrder DEF Ahead
  <2>2. Ahead(S, a) \in SUBSET S /\ Ahead(S, a) # S
    BY <2>1, <1>2
  <2>3. Cardinality(Ahead(S, a)) <= Cardinality(S) /\ Cardinality(Ahead(S, a)) # Cardinality(S)
    BY <1>1, <2>2, FS_Subset
  <2> QED BY <1>1, <1>2, <2>3
<1>4. ASSUME NEW a \in S, NEW b \in S, Outranks(a, b)
      PROVE  Cardinality(Ahead(S, a)) < Cardinality(Ahead(S, b))
  <2>1. a \in Ahead(S, b) /\ a \notin Ahead(S, a)
    BY <1>4, OutranksIsAnOrder DEF Ahead
  <2>2. Ahead(S, a) \in SUBSET Ahead(S, b) /\ Ahead(S, a) # Ahead(S, b)
    BY <1>4, <2>1, OutranksIsAnOrder DEF Ahead
  <2>3. /\ Cardinality(Ahead(S, a)) <= Cardinality(Ahead(S, b))
        /\ Cardinality(Ahead(S, a)) # Cardinality(Ahead(S, b))
    BY <1>2, <2>2, FS_Subset
  <2> QED BY <1>2, <2>3
<1> QED
  BY <1>1, <1>3, <1>4

(* Every rank below the number of alerts is held by exactly one alert, so  *)
(* when an alert waits, exactly Cap alerts are assigned.                   *)
LEMMA CapIsFilled ==
    ASSUME TypeOK, CaseOrder, NEW S \in SUBSET Opened, NEW b \in S \ Assigned(S)
    PROVE  Cardinality(Assigned(S)) = Cap
<1> DEFINE n == Cardinality(S)
           rank == [a \in S |-> Cardinality(Ahead(S, a))]
           first == [a \in Assigned(S) |-> Cardinality(Ahead(S, a))]
<1>1. /\ IsFiniteSet(S) /\ n \in Nat
      /\ \A a \in S : Cardinality(Ahead(S, a)) \in 0 .. n - 1
  BY RanksAreOrdered
<1>2. ASSUME NEW a \in S, NEW c \in S, Cardinality(Ahead(S, a)) = Cardinality(Ahead(S, c))
      PROVE  a = c
  <2>1. Outranks(a, c) => FALSE
    BY <1>1, <1>2, RanksAreOrdered
  <2>2. Outranks(c, a) => FALSE
    BY <1>1, <1>2, RanksAreOrdered
  <2> QED BY <2>1, <2>2, OutranksIsAnOrder
<1>3. IsFiniteSet(0 .. n - 1) /\ Cardinality(0 .. n - 1) = n
  BY <1>1, FS_Interval
<1>4. rank \in Surjection(S, 0 .. n - 1)
  <2>1. rank \in Injection(S, 0 .. n - 1)
    BY <1>1, <1>2 DEF Injection, IsInjective
  <2> HIDE DEF rank
  <2> QED BY <1>1, <1>3, <2>1, FS_Injection
<1>5. Cap \in Nat /\ Cap > 0 /\ Cap <= n - 1
  <2>1. ~(Cardinality(Ahead(S, b)) < Cap)
    BY DEF Assigned, Ahead
  <2> QED BY <1>1, <2>1, EwsAssumption
<1>6. Assigned(S) = {a \in S : Cardinality(Ahead(S, a)) < Cap}
  BY DEF Assigned, Ahead
<1>7. first \in Bijection(Assigned(S), 0 .. Cap - 1)
  <2>1. first \in [Assigned(S) -> 0 .. Cap - 1]
    BY <1>1, <1>5, <1>6
  <2>2. \A a, c \in Assigned(S) : first[a] = first[c] => a = c
    BY <1>2, <1>6
  <2>3. ASSUME NEW r \in 0 .. Cap - 1
        PROVE  \E a \in Assigned(S) : first[a] = r
    <3>1. r \in 0 .. n - 1
      BY <1>1, <1>5
    <3>2. PICK a \in S : rank[a] = r
      BY <1>4, <3>1 DEF Surjection
    <3>3. Cardinality(Ahead(S, a)) = r /\ a \in Assigned(S)
      BY <1>5, <1>6, <3>2
    <3> QED BY <3>3
  <2> HIDE DEF first
  <2> QED BY <2>1, <2>2, <2>3 DEF Bijection, Injection, IsInjective, Surjection
<1>8. IsFiniteSet(Assigned(S))
  BY <1>1, <1>6, FS_Subset
<1>9. Cardinality(0 .. Cap - 1) = Cap
  BY <1>5, FS_Interval
<1> HIDE DEF first
<1> QED
  BY <1>7, <1>8, <1>9, FS_Bijection DEF ExistsBijection

(* The day's assignment holds back the right alerts.                       *)
LEMMA AssignmentIsWorstFirst ==
    ASSUME TypeOK, CaseOrder, NEW S \in SUBSET Opened,
           NEW b \in S \ Assigned(S), NEW a \in Assigned(S)
    PROVE  /\ ~(cases[b].tier = "RED" /\ cases[a].tier = "AMBER")
           /\ cases[a].tier = cases[b].tier => cases[a].raised <= cases[b].raised
<1>1. /\ a \in S /\ Cardinality(Ahead(S, a)) < Cap
      /\ b \in S /\ ~(Cardinality(Ahead(S, b)) < Cap)
  BY DEF Assigned, Ahead
<1>2. Cardinality(Ahead(S, a)) \in Nat /\ Cardinality(Ahead(S, b)) \in Nat
  BY <1>1, RanksAreOrdered
<1>3. ~Outranks(b, a)
  BY <1>1, <1>2, RanksAreOrdered, EwsAssumption
<1>4. cases[a].raised \in Nat /\ cases[b].raised \in Nat
  BY <1>1, EwsAssumption DEF TypeOK, Opened, Case
<1> QED
  BY <1>3, <1>4 DEF Outranks

(* At the cap no Red waits behind an Amber, no alert behind a younger one  *)
(* of its tier, and nothing waits while the officer has room.              *)
THEOREM WorstCasesFirst == Spec => WorstFirst
<1>1. Init => CaseOrder
  BY DEF Init, CaseOrder, Opened
<1>2. TypeOK /\ CaseOrder /\ [Next]_vars => CaseOrder'
  BY StepKeepsOrder
<1> DEFINE Pass == assigned' \notin {assigned, {}} =>
              \A b \in OpenCases \ assigned' :
                  /\ Cardinality(assigned') = Cap
                  /\ \A a \in assigned' :
                        /\ ~(cases[b].tier = "RED" /\ cases[a].tier = "AMBER")
                        /\ cases[a].tier = cases[b].tier => cases[a].raised <= cases[b].raised
<1>3. TypeOK /\ CaseOrder /\ [Next]_vars => [Pass]_vars
  <2> SUFFICES ASSUME TypeOK, CaseOrder, [Next]_vars, assigned' \notin {assigned, {}}
               PROVE  Pass
    OBVIOUS
  <2>1. assigned' = Assigned(OpenCases)
    BY DEF Next, vars, Register, RatifyFloor, RaiseAlert, RecordDisposition, OfficerPass,
       RetireDegraded, ApplyRetirements, NextDay
  <2>2. OpenCases \in SUBSET Opened
    BY DEF OpenCases
  <2> QED BY <2>1, <2>2, CapIsFilled, AssignmentIsWorstFirst
<1> QED
  BY <1>1, <1>2, <1>3, EwsTypeCorrect, PTL DEF Spec, WorstFirst
=============================================================================
