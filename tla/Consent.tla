------------------------------ MODULE Consent ------------------------------
(***************************************************************************)
(* Consent artifacts and the decisions taken under them                    *)
(* (privacy/consent.py).  An artifact is frozen: a revocation stores       *)
(* another one under the same id.  A decision keeps the instant it was     *)
(* taken at, and a replay asks permits() as of that instant.  The features *)
(* of a model are registered once (scoring/features.py), and an applicant  *)
(* is scored on those that the consents in force allow.                    *)
(***************************************************************************)
EXTENDS Naturals, FiniteSets, TLAPS

CONSTANTS
    Purpose, DataCategory,
    ConsentId,
    Feature,            \* [name, source, needs, protected] that modellers declare
    NoConsent,          \* needs of a feature the bank holds for the credit anyway
    KnownSource,        \* the source registry
    ProtectedName,      \* PROTECTED_NAMES
    MaxTime,            \* bound: the clock
    MaxScores           \* bound: scores kept

VARIABLES
    clock,
    consents,           \* consent id -> artifact on file
    uses,               \* decisions that require() let through
    catalogue,          \* the features registered
    scores              \* scores given, with the features used and the absent ones

scoreVars == <<catalogue, scores>>
vars == <<clock, consents, uses, scoreVars>>

Never == MaxTime + 2     \* expires_at or revoked_at is None

Artifact ==
    [purposes : SUBSET Purpose, categories : SUBSET DataCategory,
     granted_at : 0..MaxTime, expires_at : 1..Never, revoked_at : 0..Never]

\* ConsentArtifact.__post_init__.
Accepted(a) ==
    /\ a.purposes # {}
    /\ a.categories # {}
    /\ a.expires_at > a.granted_at
    /\ a.revoked_at >= a.granted_at

\* Mutant: an expired or a revoked artifact permits nothing at any time.
PermitsNow(a, purpose, category, at) ==
    /\ purpose \in a.purposes /\ category \in a.categories
    /\ at >= a.granted_at
    /\ clock < a.expires_at
    /\ clock < a.revoked_at

\* permits(): as of a time.
Permits(a, purpose, category, at) ==
    /\ purpose \in a.purposes /\ category \in a.categories
    /\ at >= a.granted_at
    /\ at < a.expires_at
    /\ at < a.revoked_at

-----------------------------------------------------------------------------
Init ==
    /\ clock = 0
    /\ consents = << >>
    /\ uses = {}
    /\ catalogue = {} /\ scores = {}

Grant(id, purposes, categories, expires) ==
    LET a == [purposes |-> purposes, categories |-> categories, granted_at |-> clock,
              expires_at |-> expires, revoked_at |-> Never]
    IN /\ id \notin DOMAIN consents
       /\ Accepted(a)
       /\ consents' = [i \in DOMAIN consents \cup {id} |-> IF i = id THEN a ELSE consents[i]]
       /\ UNCHANGED <<clock, uses, scoreVars>>

\* The customer withdraws: the artifact on file is replaced.
Revoke(id) ==
    LET a == [consents[id] EXCEPT !.revoked_at = clock]
    IN /\ consents[id].revoked_at = Never
       /\ Accepted(a)
       /\ consents' = [consents EXCEPT ![id] = a]
       /\ UNCHANGED <<clock, uses, scoreVars>>

\* A decision needs the data: require() raises unless the artifact permits it now.
Use(id, purpose, category) ==
    /\ Permits(consents[id], purpose, category, clock)
    /\ uses' = uses \cup {[id |-> id, purpose |-> purpose, category |-> category, at |-> clock]}
    /\ UNCHANGED <<clock, consents, scoreVars>>

\* Mutant: the flag alone keeps a feature out, not its name.
RefusedByFlag(f) == f.protected

\* A protected attribute or a proxy for one, by flag or by name.
Refused(f) == f.protected \/ f.name \in ProtectedName

\* FeatureCatalogue.register(): each name once, and from a registered source.
Register(f) ==
    /\ ~Refused(f)
    /\ \A g \in catalogue : g.name # f.name
    /\ f.source \in KnownSource
    /\ catalogue' = catalogue \cup {f}
    /\ UNCHANGED <<clock, consents, uses, scores>>

\* Mutant: one consent opens every feature that needs one.
AvailableForAny(purposes) == {f \in catalogue : f.needs = NoConsent \/ purposes # {}}

\* FeatureCatalogue.available_for().
AvailableFor(purposes) == {f \in catalogue : f.needs = NoConsent \/ f.needs \in purposes}

\* What the caller passes: the purposes that the artifact permits now, for any
\* category of data.
InForce(id) == {p \in Purpose : \E c \in DataCategory : Permits(consents[id], p, c, clock)}

\* An applicant is scored on what is available, and the record says what was not.
Score(id) ==
    LET used == AvailableFor(InForce(id)) IN
    /\ catalogue # {} /\ Cardinality(scores) < MaxScores
    /\ scores' = scores \cup {[id |-> id, at |-> clock, used |-> used, absent |-> catalogue \ used]}
    /\ UNCHANGED <<clock, consents, uses, catalogue>>

Tick == clock < MaxTime /\ clock' = clock + 1 /\ UNCHANGED <<consents, uses, scoreVars>>

Next ==
    \/ \E id \in ConsentId, ps \in SUBSET Purpose, cs \in SUBSET DataCategory, e \in 1..Never :
          Grant(id, ps, cs, e)
    \/ \E id \in DOMAIN consents :
          Revoke(id) \/ Score(id) \/ \E p \in Purpose, c \in DataCategory : Use(id, p, c)
    \/ \E f \in Feature : Register(f)
    \/ Tick

Spec == Init /\ [][Next]_vars

-----------------------------------------------------------------------------
(* Properties.                                                             *)

TypeOK ==
    /\ clock \in 0..MaxTime
    /\ \A id \in DOMAIN consents : consents[id] \in Artifact
    /\ \A u \in uses : u.id \in DOMAIN consents /\ u.at \in 0..clock

\* A decision replayed later is judged by the consent that was in force when it
\* was taken: neither its expiry nor a revocation since then changes the verdict.
\* A revocation at the very instant of the decision is the exception.
VerdictStands ==
    \A u \in uses :
        \/ Permits(consents[u.id], u.purpose, u.category, u.at)
        \/ consents[u.id].revoked_at = u.at

\* Outside what was granted nothing was ever used, nor after the consent ended.
PurposeLimited ==
    \A u \in uses :
        LET a == consents[u.id] IN
        /\ u.purpose \in a.purposes /\ u.category \in a.categories
        /\ a.granted_at <= u.at /\ u.at < a.expires_at /\ u.at <= a.revoked_at

\* A score replayed later shows its coverage: each feature it used needed no consent or
\* one in force then, a revocation at that instant apart; each it is said to have gone
\* without needed one that was not; and none of them is a protected attribute.
CoverageStands ==
    \A s \in scores :
        LET a == consents[s.id]
            InForceThen(f) == \E c \in DataCategory : Permits(a, f.needs, c, s.at)
        IN /\ \A f \in s.used : f.needs = NoConsent \/ InForceThen(f) \/ a.revoked_at = s.at
           /\ \A f \in s.absent : f.needs # NoConsent /\ ~InForceThen(f)
           /\ \A f \in s.used \cup s.absent : f.name \notin ProtectedName

ConsentSound == TypeOK /\ VerdictStands /\ PurposeLimited /\ CoverageStands

-----------------------------------------------------------------------------
(* Proofs.                                                                 *)

\* What is on file is an artifact granted by now, and what was recorded, a decision
\* under one.
FileInv ==
    /\ clock \in 0..MaxTime
    /\ consents = [id \in DOMAIN consents |-> consents[id]]
    /\ \A id \in DOMAIN consents : consents[id] \in Artifact /\ consents[id].granted_at <= clock
    /\ \A u \in uses : u.id \in DOMAIN consents /\ u.at \in 0..clock
    /\ \A s \in scores : s.id \in DOMAIN consents /\ s.at \in 0..clock
    /\ \A f \in catalogue : f.name \notin ProtectedName

\* Of two states of an artifact: the second is the first, or its revocation now.
KeptOrRevoked(a, b) ==
    /\ b.purposes = a.purposes /\ b.categories = a.categories
    /\ b.granted_at = a.granted_at /\ b.expires_at = a.expires_at
    /\ \/ b.revoked_at = a.revoked_at
       \/ a.revoked_at = Never /\ b.revoked_at = clock

LEMMA InitFile == ASSUME MaxTime \in Nat PROVE Init => FileInv /\ PurposeLimited /\ CoverageStands
BY DEF Init, FileInv, PurposeLimited, CoverageStands

LEMMA NextArtifact ==
    ASSUME MaxTime \in Nat, FileInv, [Next]_vars
    PROVE  /\ clock <= clock' /\ clock' \in 0..MaxTime
           /\ consents' = [id \in DOMAIN consents' |-> consents'[id]]
           /\ \A id \in DOMAIN consents :
                id \in DOMAIN consents' /\ KeptOrRevoked(consents[id], consents'[id])
           /\ \A id \in DOMAIN consents' :
                consents'[id] \in Artifact /\ consents'[id].granted_at <= clock
<1>1. ASSUME consents' = consents
      PROVE  /\ consents' = [id \in DOMAIN consents' |-> consents'[id]]
             /\ \A id \in DOMAIN consents :
                  id \in DOMAIN consents' /\ KeptOrRevoked(consents[id], consents'[id])
             /\ \A id \in DOMAIN consents' :
                  consents'[id] \in Artifact /\ consents'[id].granted_at <= clock
  BY <1>1 DEF FileInv, KeptOrRevoked
<1>2. ASSUME NEW id \in ConsentId, NEW ps \in SUBSET Purpose, NEW cs \in SUBSET DataCategory,
             NEW e \in 1..Never, Grant(id, ps, cs, e)
      PROVE  /\ clock' = clock
             /\ consents' = [i \in DOMAIN consents' |-> consents'[i]]
             /\ \A i \in DOMAIN consents :
                  i \in DOMAIN consents' /\ KeptOrRevoked(consents[i], consents'[i])
             /\ \A i \in DOMAIN consents' :
                  consents'[i] \in Artifact /\ consents'[i].granted_at <= clock
  <2> DEFINE a == [purposes |-> ps, categories |-> cs, granted_at |-> clock,
                   expires_at |-> e, revoked_at |-> Never]
  <2>1. a \in Artifact /\ a.granted_at = clock /\ clock <= clock
    BY DEF Artifact, FileInv, Never
  <2>2. /\ id \notin DOMAIN consents /\ clock' = clock
        /\ consents' = [i \in DOMAIN consents \cup {id} |-> IF i = id THEN a ELSE consents[i]]
    BY <1>2 DEF Grant
  <2> HIDE DEF a
  <2> QED BY <2>1, <2>2 DEF FileInv, KeptOrRevoked
<1>3. ASSUME NEW id \in DOMAIN consents, Revoke(id)
      PROVE  /\ clock' = clock
             /\ consents' = [i \in DOMAIN consents' |-> consents'[i]]
             /\ \A i \in DOMAIN consents :
                  i \in DOMAIN consents' /\ KeptOrRevoked(consents[i], consents'[i])
             /\ \A i \in DOMAIN consents' :
                  consents'[i] \in Artifact /\ consents'[i].granted_at <= clock
  <2> DEFINE a == [consents[id] EXCEPT !.revoked_at = clock]
  <2>1. /\ a \in Artifact /\ a.granted_at <= clock
        /\ consents[id].revoked_at = Never => KeptOrRevoked(consents[id], a)
    <3>1. consents[id] \in Artifact /\ consents[id].granted_at <= clock /\ clock \in 0..Never
      BY DEF FileInv, Never
    <3> QED BY <3>1 DEF Artifact, KeptOrRevoked
  <2>2. clock' = clock /\ consents[id].revoked_at = Never /\ consents' = [consents EXCEPT ![id] = a]
    BY <1>3 DEF Revoke
  <2> HIDE DEF a
  <2> QED BY <2>1, <2>2 DEF FileInv, KeptOrRevoked
<1>4. ASSUME NEW id, Score(id) \/ \E p \in Purpose, c \in DataCategory : Use(id, p, c)
      PROVE  consents' = consents /\ clock' = clock
  BY <1>4 DEF Score, Use
<1>5. ASSUME NEW f, Register(f) PROVE consents' = consents /\ clock' = clock
  BY <1>5 DEF Register
<1>6. Tick => consents' = consents /\ clock' = clock + 1 /\ clock < MaxTime
  BY DEF Tick
<1>7. UNCHANGED vars => consents' = consents /\ clock' = clock
  BY DEF vars
<1>8. clock \in Nat /\ clock <= MaxTime
  BY DEF FileInv
<1> QED
  BY <1>1, <1>2, <1>3, <1>4, <1>5, <1>6, <1>7, <1>8 DEF Next

\* A decision of the past keeps its verdict when its artifact is kept or revoked.
LEMMA PastIsKept ==
    ASSUME MaxTime \in Nat, clock \in 0..MaxTime, NEW a \in Artifact, NEW b \in Artifact,
           KeptOrRevoked(a, b), NEW at \in 0..clock, NEW p, NEW c
    PROVE  /\ Permits(b, p, c, at) => Permits(a, p, c, at)
           /\ Permits(a, p, c, at) => Permits(b, p, c, at) \/ b.revoked_at = at
           /\ a.revoked_at = at => b.revoked_at = at
           /\ at <= a.revoked_at => at <= b.revoked_at
<1>1. a.revoked_at \in Nat /\ b.revoked_at \in Nat /\ at <= clock /\ clock < Never /\ at \in Nat
      /\ clock \in Nat /\ Never \in Nat
  BY DEF Artifact, Never
<1>2. /\ b.purposes = a.purposes /\ b.categories = a.categories
      /\ b.granted_at = a.granted_at /\ b.expires_at = a.expires_at
      /\ b.revoked_at = a.revoked_at \/ (a.revoked_at = Never /\ b.revoked_at = clock)
  BY DEF KeptOrRevoked
<1> QED BY <1>1, <1>2 DEF Permits

LEMMA NextFile ==
    ASSUME MaxTime \in Nat, FileInv, [Next]_vars
    PROVE  FileInv'
<1>1. /\ clock <= clock' /\ clock' \in 0..MaxTime
      /\ consents' = [id \in DOMAIN consents' |-> consents'[id]]
      /\ \A id \in DOMAIN consents : id \in DOMAIN consents'
      /\ \A id \in DOMAIN consents' : consents'[id] \in Artifact /\ consents'[id].granted_at <= clock
  BY NextArtifact
<1>2. \A id \in DOMAIN consents' : consents'[id] \in Artifact' /\ consents'[id].granted_at <= clock'
  <2> SUFFICES ASSUME NEW id \in DOMAIN consents'
               PROVE  consents'[id] \in Artifact' /\ consents'[id].granted_at <= clock'
    OBVIOUS
  <2>1. consents'[id].granted_at \in Nat /\ clock \in Nat /\ clock' \in Nat
    BY <1>1 DEF Artifact, FileInv
  <2> QED BY <1>1, <2>1 DEF Artifact, Never
<1>3. ASSUME NEW u \in uses' PROVE u.id \in DOMAIN consents' /\ u.at \in 0..clock'
  <2>1. CASE u \in uses
    BY <2>1, <1>1 DEF FileInv
  <2>2. ASSUME NEW id \in DOMAIN consents, NEW p, NEW c, Use(id, p, c)
        PROVE  u \in uses \/ (u.id = id /\ u.at = clock /\ clock' = clock)
    BY <2>2 DEF Use
  <2>3. u \in uses \/ \E id \in DOMAIN consents : u.id = id /\ u.at = clock /\ clock' = clock
    BY <2>2 DEF Next, Grant, Revoke, Score, Register, Tick, vars, scoreVars
  <2> QED BY <2>1, <2>3, <1>1 DEF FileInv
<1>4. ASSUME NEW s \in scores' PROVE s.id \in DOMAIN consents' /\ s.at \in 0..clock'
  <2>1. CASE s \in scores
    BY <2>1, <1>1 DEF FileInv
  <2>2. ASSUME NEW id \in DOMAIN consents, Score(id)
        PROVE  s \in scores \/ (s.id = id /\ s.at = clock /\ clock' = clock)
    BY <2>2 DEF Score
  <2>3. s \in scores \/ \E id \in DOMAIN consents : s.id = id /\ s.at = clock /\ clock' = clock
    BY <2>2 DEF Next, Grant, Revoke, Use, Register, Tick, vars, scoreVars
  <2> QED BY <2>1, <2>3, <1>1 DEF FileInv
<1>5. ASSUME NEW f \in catalogue' PROVE f.name \notin ProtectedName
  <2>1. ASSUME NEW g \in Feature, Register(g) PROVE f \in catalogue \/ f.name \notin ProtectedName
    BY <2>1 DEF Register, Refused
  <2>2. f \in catalogue \/ f.name \notin ProtectedName
    BY <2>1 DEF Next, Grant, Revoke, Use, Score, Tick, vars, scoreVars
  <2> QED BY <2>2 DEF FileInv
<1> QED BY <1>1, <1>2, <1>3, <1>4, <1>5 DEF FileInv

LEMMA NextPurposes ==
    ASSUME MaxTime \in Nat, FileInv, PurposeLimited, [Next]_vars
    PROVE  PurposeLimited'
<1> SUFFICES ASSUME NEW u \in uses'
             PROVE  LET a == consents'[u.id] IN
                    /\ u.purpose \in a.purposes /\ u.category \in a.categories
                    /\ a.granted_at <= u.at /\ u.at < a.expires_at /\ u.at <= a.revoked_at
  BY DEF PurposeLimited
<1>1. CASE u \in uses
  <2> DEFINE a == consents[u.id]
             b == consents'[u.id]
  <2>1. /\ u.purpose \in a.purposes /\ u.category \in a.categories
        /\ a.granted_at <= u.at /\ u.at < a.expires_at /\ u.at <= a.revoked_at
    BY <1>1 DEF PurposeLimited
  <2>2. /\ a \in Artifact /\ b \in Artifact /\ u.at \in 0..clock /\ clock \in 0..MaxTime
        /\ KeptOrRevoked(a, b)
    BY <1>1, NextArtifact DEF FileInv
  <2> HIDE DEF a, b
  <2>3. u.at <= b.revoked_at
    BY <2>1, <2>2, PastIsKept
  <2>4. /\ b.purposes = a.purposes /\ b.categories = a.categories
        /\ b.granted_at = a.granted_at /\ b.expires_at = a.expires_at
    BY <2>2 DEF KeptOrRevoked
  <2>5. /\ u.purpose \in b.purposes /\ u.category \in b.categories
        /\ b.granted_at <= u.at /\ u.at < b.expires_at /\ u.at <= b.revoked_at
    BY <2>1, <2>3, <2>4
  <2> QED BY <2>5 DEF b
<1>2. ASSUME NEW id \in DOMAIN consents, NEW p, NEW c, Use(id, p, c), u \notin uses
      PROVE  LET a == consents'[u.id] IN
             /\ u.purpose \in a.purposes /\ u.category \in a.categories
             /\ a.granted_at <= u.at /\ u.at < a.expires_at /\ u.at <= a.revoked_at
  <2>1. /\ u = [id |-> id, purpose |-> p, category |-> c, at |-> clock]
        /\ consents' = consents /\ Permits(consents[id], p, c, clock)
    BY <1>2 DEF Use
  <2>2. clock \in Nat /\ consents[id].revoked_at \in Nat /\ consents[id].granted_at \in Nat
    BY DEF FileInv, Artifact, Never
  <2>3. /\ p \in consents[id].purposes /\ c \in consents[id].categories
        /\ consents[id].granted_at <= clock /\ clock < consents[id].expires_at
        /\ clock <= consents[id].revoked_at
    BY <2>1, <2>2 DEF Permits
  <2> QED BY <2>1, <2>3
<1>3. u \in uses \/ \E id \in DOMAIN consents, p \in Purpose, c \in DataCategory : Use(id, p, c)
  BY DEF Next, Grant, Revoke, Score, Register, Tick, vars, scoreVars
<1> QED BY <1>1, <1>2, <1>3

\* What CoverageStands says of one score, with the artifact it was given under.
Covers(s, a) ==
    /\ \A f \in s.used :
          \/ f.needs = NoConsent
          \/ \E c \in DataCategory : Permits(a, f.needs, c, s.at)
          \/ a.revoked_at = s.at
    /\ \A f \in s.absent :
          f.needs # NoConsent /\ ~\E c \in DataCategory : Permits(a, f.needs, c, s.at)
    /\ \A f \in s.used \cup s.absent : f.name \notin ProtectedName

LEMMA CoverageByScore == CoverageStands <=> \A s \in scores : Covers(s, consents[s.id])
BY DEF CoverageStands, Covers

LEMMA NextCoverage ==
    ASSUME MaxTime \in Nat, FileInv, CoverageStands, [Next]_vars
    PROVE  CoverageStands'
<1> SUFFICES ASSUME NEW s \in scores' PROVE Covers(s, consents'[s.id])
  BY DEF CoverageStands, Covers
<1>1. CASE s \in scores
  <2> DEFINE a == consents[s.id]
             b == consents'[s.id]
  <2>1. Covers(s, a)
    BY <1>1, CoverageByScore
  <2>2. /\ a \in Artifact /\ b \in Artifact /\ s.at \in 0..clock /\ clock \in 0..MaxTime
        /\ KeptOrRevoked(a, b)
    BY <1>1, NextArtifact DEF FileInv
  <2> HIDE DEF a, b
  <2>3. \A p, c : /\ Permits(b, p, c, s.at) => Permits(a, p, c, s.at)
                  /\ Permits(a, p, c, s.at) => Permits(b, p, c, s.at) \/ b.revoked_at = s.at
    BY <2>2, PastIsKept
  <2>4. a.revoked_at = s.at => b.revoked_at = s.at
    BY <2>2, PastIsKept
  <2>5. Covers(s, b)
    BY <2>1, <2>3, <2>4, Zenon DEF Covers
  <2> QED BY <2>5 DEF b
<1>2. ASSUME NEW id \in DOMAIN consents, Score(id), s \notin scores
      PROVE  Covers(s, consents'[s.id])
  <2> DEFINE used == AvailableFor(InForce(id))
  <2>1. /\ s.id = id /\ s.at = clock /\ s.used = used /\ s.absent = catalogue \ used
        /\ consents' = consents
    BY <1>2 DEF Score
  <2>2. \A f \in used : f \in catalogue /\ (f.needs = NoConsent \/ f.needs \in InForce(id))
    BY DEF AvailableFor
  <2>3. \A f \in catalogue \ used : f.needs # NoConsent /\ f.needs \notin InForce(id)
    BY DEF AvailableFor
  <2>4. \A p : p \in InForce(id) <=> \E c \in DataCategory : Permits(consents[id], p, c, clock)
    <3>1. consents[id].purposes \subseteq Purpose
      BY DEF FileInv, Artifact
    <3> QED BY <3>1 DEF InForce, Permits
  <2> HIDE DEF used
  <2> QED BY <2>1, <2>2, <2>3, <2>4 DEF Covers, FileInv
<1>3. s \in scores \/ \E id \in DOMAIN consents : Score(id)
  BY DEF Next, Grant, Revoke, Use, Register, Tick, vars, scoreVars
<1> QED BY <1>1, <1>2, <1>3

\* The file, the decisions and the scores, as every step keeps them.
ConsentInv == FileInv /\ PurposeLimited /\ CoverageStands

LEMMA ConsentStep == ASSUME MaxTime \in Nat PROVE ConsentInv /\ [Next]_vars => ConsentInv'
BY NextFile, NextPurposes, NextCoverage DEF ConsentInv

LEMMA ConsentInvSound == ASSUME MaxTime \in Nat, ConsentInv PROVE ConsentSound
<1>1. TypeOK
  BY DEF ConsentInv, FileInv, TypeOK
<1>2. ASSUME NEW u \in uses
      PROVE  \/ Permits(consents[u.id], u.purpose, u.category, u.at)
             \/ consents[u.id].revoked_at = u.at
  <2>1. u.at \in Nat /\ consents[u.id].revoked_at \in Nat
    BY DEF ConsentInv, FileInv, Artifact, Never
  <2> QED BY <2>1 DEF ConsentInv, PurposeLimited, Permits
<1> QED BY <1>1, <1>2 DEF ConsentInv, ConsentSound, VerdictStands

\* However long a decision or a score lies before it is replayed, it is judged by the
\* consent that was in force when it was taken, and it kept within its purpose: for
\* any customers, purposes and lengths of time (privacy/consent.py, scoring/features.py).
THEOREM ConsentHolds ==
    ASSUME MaxTime \in Nat
    PROVE  Spec => []ConsentSound
BY InitFile, ConsentStep, ConsentInvSound, PTL DEF Spec, ConsentInv

=============================================================================
