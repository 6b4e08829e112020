--------------------------- MODULE ModelRegistry ---------------------------
(***************************************************************************)
(* The model registry and its promotion gate (mlops/ports.py,              *)
(* mlops/promotion.py), and the replay of logged decisions against the     *)
(* registry (decisionlog/replay.py).                                       *)
(*                                                                         *)
(* Days stand for timestamps, triplets for (code commit, data snapshot,    *)
(* config hash).  A model computes a function of its triplet, so the       *)
(* triplet also stands for the scores it gives.                            *)
(***************************************************************************)
EXTENDS Naturals, TLAPS

CONSTANTS
    Version,            \* (name, version) pairs
    Triplet,
    Fingerprint,        \* contents of the Appendix A definitions
    MinimumShadow,      \* MINIMUM_SHADOW in days
    NotRegistered, Never,
    RegisterStages,     \* stages register() is called with
    MaxDay              \* bound: days

ASSUME RegistryAssumption ==
    /\ MinimumShadow \in Nat /\ MaxDay \in Nat
    /\ Never \notin Nat
ASSUME StagesAssumption == RegisterStages \subseteq {"None", "Staging", "Production", "Archived"}

Stage == {"None", "Staging", "Production", "Archived"}

Artifact ==
    [triplet : Triplet, fingerprint : Fingerprint, stage : Stage,
     card : BOOLEAN, validation : BOOLEAN, shadow_started : Nat \cup {Never}]
ASSUME NotRegisteredAssumption == NotRegistered \notin Artifact

VARIABLES
    registry,       \* InMemoryRegistry._artifacts
    day,            \* the clock
    definitions,    \* fingerprint() of the current Appendix A
    decisions,      \* (version, triplet) of every logged model decision
    superseded      \* history: decisions whose version was registered again since

vars == <<registry, day, definitions, decisions, superseded>>

Registered == {v \in Version : registry[v] # NotRegistered}
InStage(s) == {v \in Registered : registry[v].stage = s}

Init ==
    /\ registry = [v \in Version |-> NotRegistered]
    /\ day = 0
    /\ definitions \in Fingerprint
    /\ decisions = {}
    /\ superseded = {}

-----------------------------------------------------------------------------
(* mlops/promotion.py.                                                     *)

\* Mutant: a version may go straight to Production.
LegalTransitionsOpen(from) == Stage \ {from}
LegalTransitions(from) ==
    CASE from = "None"       -> {"Staging", "Archived"}
      [] from = "Staging"    -> {"Production", "Archived", "None"}
      [] from = "Production" -> {"Archived", "Staging"}
      [] from = "Archived"   -> {"Staging"}

ShadowLongEnough(a) == a.shadow_started # Never /\ day >= a.shadow_started + MinimumShadow

\* Mutant: the independent validation report is not asked for.
CanPromoteUnvalidated(a, target, via_ci, warm) ==
    /\ target \in LegalTransitions(a.stage)
    /\ via_ci
    /\ target = "Production" =>
          a.card /\ ShadowLongEnough(a) /\ warm /\ a.fingerprint = definitions
\* can_promote(): every condition, none short-circuited.
CanPromote(a, target, via_ci, warm) ==
    /\ target \in LegalTransitions(a.stage)
    /\ via_ci
    /\ target = "Production" =>
          /\ a.card
          /\ a.validation
          /\ ShadowLongEnough(a)
          /\ warm
          /\ a.fingerprint = definitions

-----------------------------------------------------------------------------
(* InMemoryRegistry.                                                       *)

\* register(): the entry of the version is set, whatever was there.
Register(v, a) ==
    /\ registry' = [registry EXCEPT ![v] = a]
    /\ superseded' = superseded \cup {d \in decisions : d[1] = v}
    /\ UNCHANGED <<day, definitions, decisions>>

\* An artifact as a training pipeline hands it to register(): fresh evidence only.
FreshArtifact ==
    {[triplet |-> t, fingerprint |-> definitions, stage |-> s,
      card |-> FALSE, validation |-> FALSE, shadow_started |-> Never] :
        t \in Triplet, s \in RegisterStages}

\* The callers of get() complete the artifact in place.
Complete(v, a) ==
    /\ registry' = [registry EXCEPT ![v] = a]
    /\ UNCHANGED <<day, definitions, decisions, superseded>>

AttachEvidence(v) ==
    /\ v \in Registered
    /\ ~(registry[v].card /\ registry[v].validation)
    /\ \/ ~registry[v].card /\ Complete(v, [registry[v] EXCEPT !.card = TRUE])
       \/ ~registry[v].validation /\ Complete(v, [registry[v] EXCEPT !.validation = TRUE])

StartShadow(v) ==
    /\ v \in InStage("Staging")
    /\ registry[v].shadow_started = Never
    /\ Complete(v, [registry[v] EXCEPT !.shadow_started = day])

\* Mutant: archiving a version evicts it from the registry.
TransitionEvicting(v, target, via_ci, warm) ==
    /\ v \in Registered
    /\ CanPromote(registry[v], target, via_ci, warm)
    /\ registry' = IF target = "Archived" THEN [registry EXCEPT ![v] = NotRegistered]
                   ELSE [registry EXCEPT ![v].stage = target]
    /\ UNCHANGED <<day, definitions, decisions, superseded>>
\* transition(): the stage is assigned only when can_promote() allows it.
Transition(v, target, via_ci, warm) ==
    /\ v \in Registered
    /\ CanPromote(registry[v], target, via_ci, warm)
    /\ registry' = [registry EXCEPT ![v].stage = target]
    /\ UNCHANGED <<day, definitions, decisions, superseded>>

\* Mutant: the record names the stage of the model in place of its triplet.
DecideByStage(v) ==
    /\ v \in InStage("Production")
    /\ decisions' = decisions \cup {<<v, registry[v].stage>>}
    /\ UNCHANGED <<registry, day, definitions, superseded>>
\* A production model decides; its decision record names version and triplet.
Decide(v) ==
    /\ v \in InStage("Production")
    /\ decisions' = decisions \cup {<<v, registry[v].triplet>>}
    /\ superseded' = superseded \ {<<v, registry[v].triplet>>}
    /\ UNCHANGED <<registry, day, definitions>>

\* Appendix A is amended.
Amend(fp) ==
    /\ fp # definitions
    /\ definitions' = fp
    /\ UNCHANGED <<registry, day, decisions, superseded>>

NextDay ==
    /\ day < MaxDay
    /\ day' = day + 1
    /\ UNCHANGED <<registry, definitions, decisions, superseded>>

Next ==
    \/ \E v \in Version :
          \/ \E a \in FreshArtifact : Register(v, a)
          \/ AttachEvidence(v)
          \/ StartShadow(v)
          \/ \E target \in Stage, via_ci, warm \in BOOLEAN : Transition(v, target, via_ci, warm)
          \/ Decide(v)
    \/ \E fp \in Fingerprint : Amend(fp)
    \/ NextDay

Spec == Init /\ [][Next]_vars

-----------------------------------------------------------------------------
(* decisionlog/replay.py: the version named by the record is loaded from   *)
(* the registry and scores again; the logged score is the triplet's.       *)

Loads(d) == d[1] \in Registered
Replays(d) == Loads(d) /\ registry[d[1]].triplet = d[2]

-----------------------------------------------------------------------------
(* Properties.                                                             *)

\* The registry maps versions to artifacts and the rest keeps its type.
TypeOK ==
    /\ registry \in [Version -> Artifact \cup {NotRegistered}]
    /\ day \in Nat
    /\ definitions \in Fingerprint
    /\ decisions \subseteq Version \X Triplet
    /\ superseded \subseteq decisions

\* No model is in Production that lacks a model card, an independent validation
\* or MinimumShadow days since its shadow began, however often it was demoted,
\* archived or registered again.
ProductionWasGated ==
    \A v \in InStage("Production") :
        registry[v].card /\ registry[v].validation /\ ShadowLongEnough(registry[v])

\* The version every logged decision names can still be loaded, and it is still
\* the artifact that decided unless that version was registered again since: no
\* promotion, demotion, archiving or completion of an artifact changes a replay.
ReplayFaithful == \A d \in decisions : Loads(d) /\ (Replays(d) \/ d \in superseded)

\* A model never reaches Production on definitions that are no longer current,
\* and never from anywhere but Staging, as the same artifact.
PromotionStep ==
    [][\A v \in Version :
          v \in InStage("Production")' /\ v \notin InStage("Production") =>
              /\ v \in InStage("Staging")
              /\ registry'[v].triplet = registry[v].triplet
              /\ registry'[v].fingerprint = definitions]_vars

-----------------------------------------------------------------------------
(***************************************************************************)
(* What the promotion gate guarantees for every set of versions, triplets  *)
(* and definitions, every shadow period and any number of days.            *)
(***************************************************************************)

(* A fresh artifact is an artifact: register() stores what it is given.    *)
LEMMA FreshArtifactType ==
    ASSUME definitions \in Fingerprint
    PROVE  FreshArtifact \subseteq Artifact
<1> SUFFICES ASSUME NEW a \in FreshArtifact PROVE a \in Artifact
  OBVIOUS
<1>1. PICK t \in Triplet, s \in RegisterStages :
        a = [triplet |-> t, fingerprint |-> definitions, stage |-> s,
             card |-> FALSE, validation |-> FALSE, shadow_started |-> Never]
  BY DEF FreshArtifact
<1>2. s \in Stage
  BY StagesAssumption DEF Stage
<1> QED
  BY <1>1, <1>2 DEF Artifact

(* The registry, the clock and the histories keep their types through      *)
(* every operation: InMemoryRegistry only ever holds whole artifacts.      *)
THEOREM RegistryTypeCorrect == Spec => []TypeOK
<1>1. Init => TypeOK
  BY DEF Init, TypeOK
<1>2. TypeOK /\ [Next]_vars => TypeOK'
  <2> SUFFICES ASSUME TypeOK, [Next]_vars PROVE TypeOK'
    OBVIOUS
  <2> USE DEF TypeOK
  <2>0. \A v \in Registered : v \in Version /\ registry[v] \in Artifact
    BY DEF Registered
  <2>1. ASSUME NEW v \in Version, NEW a \in FreshArtifact, Register(v, a) PROVE TypeOK'
    BY <2>1, FreshArtifactType DEF Register
  <2>2. ASSUME NEW v \in Version, AttachEvidence(v) PROVE TypeOK'
    <3>1. PICK a \in Artifact : Complete(v, a)
      <4>1. CASE Complete(v, [registry[v] EXCEPT !.card = TRUE])
        BY <2>0, <2>2, <4>1 DEF AttachEvidence, Artifact
      <4>2. CASE Complete(v, [registry[v] EXCEPT !.validation = TRUE])
        BY <2>0, <2>2, <4>2 DEF AttachEvidence, Artifact
      <4> QED BY <2>2, <4>1, <4>2 DEF AttachEvidence
    <3> QED BY <3>1 DEF Complete
  <2>3. ASSUME NEW v \in Version, StartShadow(v) PROVE TypeOK'
    <3>1. [registry[v] EXCEPT !.shadow_started = day] \in Artifact
      BY <2>0, <2>3 DEF StartShadow, InStage, Artifact
    <3> QED BY <2>3, <3>1 DEF StartShadow, Complete
  <2>5. ASSUME NEW v \in Version, NEW target \in Stage, NEW via_ci \in BOOLEAN, NEW warm \in BOOLEAN,
               Transition(v, target, via_ci, warm)
        PROVE  TypeOK'
    <3>1. [registry[v] EXCEPT !.stage = target] \in Artifact
      BY <2>0, <2>5 DEF Transition, Artifact
    <3> QED BY <2>5, <3>1 DEF Transition
  <2>6. ASSUME NEW v \in Version, Decide(v) PROVE TypeOK'
    <3>1. registry[v].triplet \in Triplet
      BY <2>0, <2>6 DEF Decide, InStage, Artifact
    <3> QED BY <2>6, <3>1 DEF Decide
  <2>7. ASSUME NEW fp \in Fingerprint, Amend(fp) PROVE TypeOK'
    BY <2>7 DEF Amend
  <2>8. ASSUME NextDay PROVE TypeOK'
    BY <2>8, RegistryAssumption DEF NextDay
  <2>9. CASE UNCHANGED vars
    BY <2>9 DEF vars
  <2> QED
    BY <2>1, <2>2, <2>3, <2>5, <2>6, <2>7, <2>8, <2>9 DEF Next
<1> QED
  BY <1>1, <1>2, PTL DEF Spec

-----------------------------------------------------------------------------
(* The artifact of v carries what the gate asks for.                       *)
Evident(v) ==
    /\ registry[v].card
    /\ registry[v].validation
    /\ registry[v].shadow_started # Never
    /\ day >= registry[v].shadow_started + MinimumShadow

(* The gate holds standing: ProductionWasGated is inductive once no        *)
(* artifact is registered in Production, because evidence is only ever     *)
(* added to an artifact and the clock only moves forward.                  *)
THEOREM NoUngatedProduction ==
    ASSUME "Production" \notin RegisterStages
    PROVE  Spec => []ProductionWasGated
<1>1. Init => ProductionWasGated
  BY DEF Init, ProductionWasGated, InStage, Registered
<1>2. TypeOK /\ ProductionWasGated /\ [Next]_vars => ProductionWasGated'
  <2> SUFFICES ASSUME TypeOK, ProductionWasGated, [Next]_vars,
                      NEW w \in Version, registry'[w] # NotRegistered,
                      registry'[w].stage = "Production"
               PROVE  Evident(w)'
    BY DEF ProductionWasGated, InStage, Registered, ShadowLongEnough, Evident
  <2>0. /\ registry \in [Version -> Artifact \cup {NotRegistered}]
        /\ day \in Nat
        /\ \A v \in Version : registry[v] # NotRegistered => registry[v] \in Artifact
    BY DEF TypeOK
  <2>a. ASSUME registry'[w] = registry[w], day' = day \/ day' = day + 1
        PROVE  Evident(w)'
    BY <2>0, <2>a, RegistryAssumption
       DEF ProductionWasGated, InStage, Registered, ShadowLongEnough, Evident, Artifact
  <2>1. ASSUME NEW v \in Version, NEW a \in FreshArtifact, Register(v, a)
        PROVE  Evident(w)'
    <3>1. a.stage # "Production"
      BY DEF FreshArtifact
    <3> QED BY <2>0, <2>1, <2>a, <3>1 DEF Register
  <2>2. ASSUME NEW v \in Version, AttachEvidence(v)
        PROVE  Evident(w)'
    <3>1. CASE w # v
      BY <2>0, <2>2, <2>a, <3>1 DEF AttachEvidence, Complete
    <3>2. CASE w = v
      <4>0. registry[v] \in Artifact /\ day' = day
        BY <2>0, <2>2 DEF AttachEvidence, Complete, Registered
      <4>1. \/ registry'[v] = [registry[v] EXCEPT !.card = TRUE]
            \/ registry'[v] = [registry[v] EXCEPT !.validation = TRUE]
        BY <2>0, <2>2 DEF AttachEvidence, Complete
      <4>2. registry[v].stage = "Production" /\ v \in Registered
        BY <2>2, <3>2, <4>0, <4>1 DEF Artifact, AttachEvidence
      <4>3. registry[v].card /\ registry[v].validation
        BY <4>2 DEF ProductionWasGated, InStage
      <4> QED BY <2>2, <4>3 DEF AttachEvidence
    <3> QED BY <3>1, <3>2
  <2>3. ASSUME NEW v \in Version, StartShadow(v)
        PROVE  Evident(w)'
    <3>1. registry[v] \in Artifact /\ registry[v].stage = "Staging"
      BY <2>0, <2>3 DEF StartShadow, InStage, Registered
    <3>2. w # v
      BY <2>0, <2>3, <3>1 DEF StartShadow, Complete, Artifact
    <3> QED BY <2>0, <2>3, <2>a, <3>2 DEF StartShadow, Complete
  <2>5. ASSUME NEW v \in Version, NEW target \in Stage, NEW via_ci \in BOOLEAN, NEW warm \in BOOLEAN,
               Transition(v, target, via_ci, warm)
        PROVE  Evident(w)'
    <3>1. CASE w # v
      BY <2>0, <2>5, <2>a, <3>1 DEF Transition
    <3>2. CASE w = v
      <4>0. registry[v] \in Artifact /\ day' = day
        BY <2>0, <2>5 DEF Transition, Registered
      <4>1. registry'[v] = [registry[v] EXCEPT !.stage = target]
        BY <2>0, <2>5 DEF Transition
      <4>2. target = "Production"
        BY <3>2, <4>0, <4>1 DEF Artifact
      <4>3. registry[v].card /\ registry[v].validation /\ ShadowLongEnough(registry[v])
        BY <2>5, <4>2 DEF Transition, CanPromote
      <4> QED BY <3>2, <4>0, <4>1, <4>3 DEF Artifact, ShadowLongEnough, Evident
    <3> QED BY <3>1, <3>2
  <2>6. ASSUME NEW v \in Version, Decide(v)
        PROVE  Evident(w)'
    BY <2>6, <2>a DEF Decide
  <2>7. ASSUME NEW fp \in Fingerprint, Amend(fp)
        PROVE  Evident(w)'
    BY <2>7, <2>a DEF Amend
  <2>8. ASSUME NextDay
        PROVE  Evident(w)'
    BY <2>8, <2>a DEF NextDay
  <2>9. ASSUME UNCHANGED vars
        PROVE  Evident(w)'
    BY <2>9, <2>a DEF vars
  <2> QED
    BY <2>1, <2>2, <2>3, <2>5, <2>6, <2>7, <2>8, <2>9 DEF Next
<1> QED
  BY <1>1, <1>2, RegistryTypeCorrect, PTL DEF Spec

-----------------------------------------------------------------------------
(* A step to Production is a transition() of a staged artifact whose       *)
(* definitions are current: no operation of the registry reaches           *)
(* Production another way, whatever the order of demotions, archivings,    *)
(* re-registrations and amendments of Appendix A.                          *)
THEOREM PromotionsAreGated ==
    ASSUME "Production" \notin RegisterStages
    PROVE  Spec => PromotionStep
<1> DEFINE Promoted(v) == v \in InStage("Production")' /\ v \notin InStage("Production")
           Good(v) == /\ v \in InStage("Staging")
                      /\ registry'[v].triplet = registry[v].triplet
                      /\ registry'[v].fingerprint = definitions
<1>1. TypeOK /\ [Next]_vars => [\A v \in Version : Promoted(v) => Good(v)]_vars
  <2> SUFFICES ASSUME TypeOK, Next, NEW w \in Version, Promoted(w)
               PROVE  Good(w)
    OBVIOUS
  <2>0. /\ registry \in [Version -> Artifact \cup {NotRegistered}]
        /\ \A v \in Version : registry[v] # NotRegistered => registry[v] \in Artifact
    BY DEF TypeOK
  <2>1. /\ registry'[w] # NotRegistered /\ registry'[w].stage = "Production"
        /\ registry[w] = NotRegistered \/ registry[w].stage # "Production"
    BY DEF InStage, Registered
  <2>2. registry'[w] # registry[w]
    BY <2>1
  <2>3. ASSUME NEW v \in Version, NEW a \in FreshArtifact, Register(v, a) PROVE FALSE
    <3>1. a.stage # "Production"
      BY DEF FreshArtifact
    <3> QED BY <2>0, <2>1, <2>2, <2>3, <3>1 DEF Register
  <2>4. ASSUME NEW v \in Version, AttachEvidence(v) PROVE FALSE
    <3>1. registry[v] \in Artifact /\ registry[v] # NotRegistered
      BY <2>0, <2>4 DEF AttachEvidence, Registered
    <3>2. w = v /\ \/ registry'[v] = [registry[v] EXCEPT !.card = TRUE]
                   \/ registry'[v] = [registry[v] EXCEPT !.validation = TRUE]
      BY <2>0, <2>2, <2>4 DEF AttachEvidence, Complete
    <3> QED BY <2>1, <3>1, <3>2 DEF Artifact
  <2>5. ASSUME NEW v \in Version, StartShadow(v) PROVE FALSE
    <3>1. registry[v] \in Artifact /\ registry[v].stage = "Staging"
      BY <2>0, <2>5 DEF StartShadow, InStage, Registered
    <3>2. w = v /\ registry'[v] = [registry[v] EXCEPT !.shadow_started = day]
      BY <2>0, <2>2, <2>5 DEF StartShadow, Complete
    <3> QED BY <2>1, <3>1, <3>2 DEF Artifact
  <2>6. ASSUME NEW v \in Version, NEW target \in Stage, NEW via_ci \in BOOLEAN, NEW warm \in BOOLEAN,
               Transition(v, target, via_ci, warm)
        PROVE  Good(w)
    <3>1. registry[v] \in Artifact /\ v \in Registered
      BY <2>0, <2>6 DEF Transition, Registered
    <3>2. w = v /\ registry'[v] = [registry[v] EXCEPT !.stage = target]
      BY <2>0, <2>2, <2>6 DEF Transition
    <3>3. target = "Production"
      BY <2>1, <3>1, <3>2 DEF Artifact
    <3>4. target \in LegalTransitions(registry[v].stage) /\ registry[v].fingerprint = definitions
      BY <2>6, <3>3 DEF Transition, CanPromote
    <3>5. registry[v].stage = "Staging"
      BY <3>1, <3>3, <3>4 DEF LegalTransitions, Artifact, Stage
    <3> QED BY <3>1, <3>2, <3>4, <3>5 DEF Artifact, InStage
  <2>7. ASSUME registry' = registry PROVE FALSE
    BY <2>2, <2>7
  <2> QED
    BY <2>3, <2>4, <2>5, <2>6, <2>7 DEF Next, Decide, Amend, NextDay
<1> QED
  BY <1>1, RegistryTypeCorrect, PTL DEF Spec, PromotionStep

-----------------------------------------------------------------------------
(* No operation but a second registration takes an artifact out of the      *)
(* registry or changes the triplet it was registered with: stages, evidence *)
(* and shadow periods come and go around it.                                *)
LEMMA TripletsStay ==
    ASSUME TypeOK, Next, NEW w \in Registered
    PROVE  /\ registry'[w] # NotRegistered
           /\ \/ registry'[w].triplet = registry[w].triplet
              \/ \E a \in FreshArtifact : Register(w, a)
<1>0. /\ registry \in [Version -> Artifact \cup {NotRegistered}]
      /\ w \in Version /\ registry[w] # NotRegistered
      /\ \A v \in Registered : v \in Version /\ registry[v] \in Artifact
  BY DEF TypeOK, Registered
<1>1. ASSUME NEW v \in Version, NEW a \in FreshArtifact, Register(v, a)
      PROVE  registry'[w] # NotRegistered /\ (registry'[w] = registry[w] \/ v = w)
  <2>1. a \in Artifact
    BY FreshArtifactType DEF TypeOK
  <2> QED BY <1>0, <1>1, <2>1, NotRegisteredAssumption DEF Register
<1>2. ASSUME NEW v \in Registered, NEW a \in Artifact,
             registry' = [registry EXCEPT ![v] = a], a.triplet = registry[v].triplet
      PROVE  registry'[w] # NotRegistered /\ registry'[w].triplet = registry[w].triplet
  BY <1>0, <1>2, NotRegisteredAssumption
<1>3. ASSUME NEW v \in Version, AttachEvidence(v)
      PROVE  registry'[w] # NotRegistered /\ registry'[w].triplet = registry[w].triplet
  <2>1. v \in Registered /\ registry[v] \in Artifact
    BY <1>0, <1>3 DEF AttachEvidence
  <2>2. /\ [registry[v] EXCEPT !.card = TRUE] \in Artifact
        /\ [registry[v] EXCEPT !.validation = TRUE] \in Artifact
    BY <2>1 DEF Artifact
  <2> QED BY <1>2, <1>3, <2>1, <2>2 DEF AttachEvidence, Complete, Artifact
<1>4. ASSUME NEW v \in Version, StartShadow(v)
      PROVE  registry'[w] # NotRegistered /\ registry'[w].triplet = registry[w].triplet
  <2>1. v \in Registered /\ registry[v] \in Artifact
    BY <1>0, <1>4 DEF StartShadow, InStage
  <2>2. [registry[v] EXCEPT !.shadow_started = day] \in Artifact
    BY <2>1 DEF Artifact, TypeOK
  <2> QED BY <1>2, <1>4, <2>1, <2>2 DEF StartShadow, Complete, Artifact
<1>5. ASSUME NEW v \in Version, NEW target \in Stage, NEW via_ci \in BOOLEAN, NEW warm \in BOOLEAN,
             Transition(v, target, via_ci, warm)
      PROVE  registry'[w] # NotRegistered /\ registry'[w].triplet = registry[w].triplet
  <2>1. v \in Registered /\ registry[v] \in Artifact
    BY <1>0, <1>5 DEF Transition
  <2>2. PICK a : a = [registry[v] EXCEPT !.stage = target]
    OBVIOUS
  <2>3. a \in Artifact /\ a.triplet = registry[v].triplet
    BY <2>1, <2>2 DEF Artifact
  <2>4. registry' = [registry EXCEPT ![v] = a]
    BY <1>5, <2>2 DEF Transition
  <2> QED BY <1>2, <2>1, <2>3, <2>4
<1>6. ASSUME registry' = registry
      PROVE  registry'[w] # NotRegistered /\ registry'[w].triplet = registry[w].triplet
  BY <1>0, <1>6
<1> QED
  BY <1>0, <1>1, <1>3, <1>4, <1>5, <1>6 DEF Next, Decide, Amend, NextDay

(* The version of every logged decision can be loaded for as long as the log *)
(* is kept: archived, demoted or promoted again, it is the artifact that     *)
(* decided, until the version is registered a second time.                   *)
THEOREM DecisionsReplay == Spec => []ReplayFaithful
<1>1. Init => ReplayFaithful
  BY DEF Init, ReplayFaithful
<1>2. TypeOK /\ ReplayFaithful /\ [Next]_vars => ReplayFaithful'
  <2> SUFFICES ASSUME TypeOK, ReplayFaithful, [Next]_vars, NEW d \in decisions'
               PROVE  Loads(d)' /\ (Replays(d)' \/ d \in superseded')
    BY DEF ReplayFaithful
  <2>0. Registered \subseteq Version
    BY DEF Registered
  <2>1. ASSUME NEW v \in Version, Decide(v) PROVE Loads(d)' /\ (Replays(d)' \/ d \in superseded')
    <3>1. registry' = registry /\ v \in Registered
      BY <2>1 DEF Decide, InStage
    <3>2. CASE d = <<v, registry[v].triplet>>
      BY <3>1, <3>2 DEF Loads, Replays, Registered
    <3>3. CASE d # <<v, registry[v].triplet>>
      BY <2>1, <3>1, <3>3 DEF Decide, ReplayFaithful, Loads, Replays, Registered
    <3> QED BY <3>2, <3>3
  <2>2. ASSUME Next, decisions' = decisions, superseded \subseteq superseded',
               \A a \in FreshArtifact : Register(d[1], a) => d \in superseded'
        PROVE  Loads(d)' /\ (Replays(d)' \/ d \in superseded')
    <3>1. d[1] \in Registered /\ (registry[d[1]].triplet = d[2] \/ d \in superseded)
      BY <2>2 DEF ReplayFaithful, Loads, Replays
    <3>2. /\ registry'[d[1]] # NotRegistered
          /\ \/ registry'[d[1]].triplet = registry[d[1]].triplet
             \/ \E a \in FreshArtifact : Register(d[1], a)
      BY <2>2, <3>1, TripletsStay
    <3> QED BY <2>0, <2>2, <3>1, <3>2 DEF Loads, Replays, Registered
  <2>3. ASSUME NEW v \in Version, NEW a \in FreshArtifact, Register(v, a)
        PROVE  /\ decisions' = decisions /\ superseded \subseteq superseded'
               /\ \A b \in FreshArtifact : Register(d[1], b) => d \in superseded'
    BY <2>3 DEF Register
  <2>4. ASSUME UNCHANGED <<decisions, superseded>>, NEW b \in FreshArtifact, Register(d[1], b)
        PROVE  d \in superseded'
    BY <2>4 DEF Register
  <2>5. CASE UNCHANGED vars
    BY <2>5 DEF vars, ReplayFaithful, Loads, Replays, Registered
  <2> QED
    BY <2>1, <2>2, <2>3, <2>4, <2>5
       DEF Next, AttachEvidence, Complete, StartShadow, Transition, Amend, NextDay
<1> QED
  BY <1>1, <1>2, RegistryTypeCorrect, PTL DEF Spec

=============================================================================
