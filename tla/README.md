# A verification of AILendingHub in TLA+

AILendingHub is a Python package (`src/src/lending_hub`, shortened to `lh/`
below) with a Next.js front end (`src/frontend/src`, shortened to `fe/`). It
decides loan applications, explains and logs the decisions, governs the models
that take them, watches the book for early warnings, prices offers, answers
customers from approved documents and gives officers a screen to work on. This
directory models the parts whose correctness depends on the order in which
things happen or on boundaries a test hardly reaches, checks them with TLC and
proves the central facts with TLAPS.

Run `tlc -config <run>.cfg <module>` with the pairs of the table under *Runs*,
and `tlapm <module>` on `Components_proofs`, `DecisionLog_proofs`,
`EarlyWarning_proofs`, `Orchestrator_proofs`, `FeatureStore`, `ModelRegistry`,
`Workbench` and `Consent`. The first takes about a quarter of an hour.

## 1. Inventory

| Component | State it keeps | Operations | What is hard about it | Modelled in |
|---|---|---|---|---|
| decision log `lh/decisionlog/store.py`, `record.py` | a JSONL file; `_last_hash` cached per object | `append`, `read_all`, `verify` | crash between hash, write and cache; torn lines; two objects on one file; an operator editing the file | DecisionLog |
| decision replay `lh/decisionlog/replay.py` | none; reads log and registry | `spot_audit` | the registry may have changed since the decision | ModelRegistry |
| orchestrator `lh/serving/orchestrator.py`, bands `bands.py` | `bands`, `scorer`, `model_ref`, the log | `decide`, `outcome_for` | each attribute read twice in a call, and perhaps gone the second time; model server failing in the middle; one person signing twice | Orchestrator, Bands, DecisionService |
| rollout `lh/serving/shadow.py`, `parity.py`; `lh/learning` cadence, challenger | daily comparisons, last runs | status functions, `compare`, `overdue` | the clean-day clock; evidence that is stale, of another population or unreviewed | Ladder |
| model registry and gate `lh/mlops`, standing criterion `lh/learning/promotion.py` | artifacts by (name, version), mutable in place | `register`, `get`, `transition`, `can_promote` | long sequences of stage moves; stale evidence; versions registered again | ModelRegistry, Ladder |
| estimators on logged decisions `lh/learning` uplift, off-policy, graph | none | estimates, Louvain | missing overlap; a loop without a limit | Targeting, Communities |
| feature store `lh/featurestore` | sorted rows per entity | `add`, `as_of`, joins, `compare` | late rows, corrections, time-to-live | FeatureStore |
| early warning `lh/ews` | catalogue, cases, dispositions; detector windows | register, evaluate, route, retire; detect | decisions taken on one version of a signal and applied to the next; precision of judged alerts only | EarlyWarning, PdVelocity, AgriTriggers, Backtest, Monitors |
| fraud `lh/fraud` | case queue, labels, velocity windows, entity graph | `open_case`, `close`, `training_labels`, detectors | double closing, late events, chained identities | FraudDesk, FraudVelocity, EntityGraph, Documents, Targeting |
| privacy `lh/privacy`, feature catalogue `lh/scoring/features.py` | consents, registered features | `permits`, `available_for` | boundaries of validity in time | Consent |
| identity spine `lh/identity` | joined loans, audit | `build_spine` | keys that do not join; order of rows | IdentitySpine |
| streaming `lh/streaming`, lakehouse `lh/lakehouse` | schemas, tables, balances | compatibility, lineage, reconciliation | producers that lag | SchemaEvolution, Lakehouse |
| reco `lh/reco` | feasible sets, bandit posteriors, decision log | constrain, price, select, update, audit | exploration within constraints | Offers |
| portfolio `lh/portfolio` | the account-month panel | staging, flows, curves, losses, monitors | censoring; each event once | Portfolio, Workouts, Monitors |
| scoring `lh/scoring` | samples, bins, trees, cards | split, bin, fit, validate, explain | leakage between blocks; monotone fits; missing values | TrainingSample, Binning, TreeModel, Scorecard, Validation |
| agri `lh/agri` | plots, tiles, seasons, decisions by district | register, income, drought, disparity | partial records; ties; who owns the plot | AgriInputs |
| assistant `lh/assistant` | documents, tools, index, vectors | submit, retrieve, answer, guard | citations that expire; stores that drift apart | Assistant, Chunking, Retrieval, Conversation |
| gateway `lh/gateway` | routes | HTTP dispatch | keep-alive connections, refusals | Gateway |
| front end `fe/` | page state, form state | load, submit, confirm | answers racing navigation; stale confirmation | Workbench, Gateway |
| source registry `lh/sources`, baselines, tools | none | parse, print | | not modelled (section 6), but for `load_panel()` in Portfolio and the schema gate |

How they meet. The orchestrator reads features, applies rules, asks the model
server, maps the score through the bands and appends a record to the decision
log. The record names the model's version and triplet, which replay later loads
from the registry. The registry admits a version to Production through
`can_promote`; the standing criterion judges the evidence apart, and `transition()`
does not ask it. The ladder then lets the version take traffic. Scores are computed on features that the consents in
force allow, from a sample that the panel and the training table cut. The early
warning loop consumes scores, raises alerts, takes dispositions and retires
signals. The front end talks to the gateway over HTTP; its case screen shows a
decision and posts an override of it.

What makes each part correct is stated as the properties below. What in it is
hard to test is listed line by line in `PROJECT.json` under `hazards`.

## 2. Modules

### DecisionLog: the hash chain
`file` is the JSONL file, `last_hash[h]` the cache of each `DecisionLog` object
`h`, `phase` and `pending` where its `append()` stands. `append()` is
`BeginAppend` (the record is chained to the cache), `WriteLine` (the line
reaches the file), `EndAppend` (the cache follows and the hash is returned); a
process may end before each (`Crash`), inside the write (`CrashInWrite`), and
the write may fail and leave the object in use (`ShortWrite`). SHA-256 is taken
to be injective: a digest is the sequence of contents it stands for. `Digest`
pairs the content with `prev_hash`, as `content_hash()` does. `ChainValid` is
`verify()`. The operator's actions (edit, remove, swap, copy, truncate) are
external: no code under `src/` performs them, the tests of the log do. The
operator computes no hash anew: the digest has no key, so whoever does can
rewrite the file from any line on.

### Bands, Orchestrator, DecisionService: deciding
`Bands` holds the pure part: groundedness, dual control (distinct people, not
signatures), the order of the exceptions of `outcome_for()`, and the mapping of
a probability, scaled to integers so that the cutoffs and the values beside
them are all reached. `Orchestrator` cuts `decide()` at every read of an attribute
that a deployment can set: `FetchAndApplyRules`; `CheckScorer` and `Score`, which
test the scorer and call it; the branches `DecideByRule`, `DecideByFallback` and
`DecideByModel`; `CheckBands` (or `DecideWithoutBands`) and `DecideByBands`;
`CheckModel` and `NameModel` for the two reads of `model_ref`; `CheckVersion` and
`Record` for those of the policy version. An attribute set to None between its two
reads makes the call raise (`ScoreVanished`, `BandsVanished`, `VersionVanished`) or
names None as its model; `RecordRefused` is the constructor of the record.
`SwapBands`, `SetModelRef`, `SetScorer` are deployments; `withdrawn` remembers the
calls that were running when one set something to None. `ServerDown` and `ServerUp`
are the model server.
`DecisionService` is the abstract specification: a request is answered at most
once, by a record that explains its own outcome under the configuration it
names. `Promise == INSTANCE DecisionService WITH ...` maps its `bands` and
`answers` to those of the calls, and `ImplementsPromise == Promise!Spec` says
that every behaviour of the calls is one of the service.

### ModelRegistry: promotion, amendment, replay
`registry` maps a (name, version) to its artifact. `Transition` is
`transition()` behind `CanPromote`, which is the conjunction `can_promote()`
accumulates. `Register` stores whatever it is given, over the artifact of the same
version too; `superseded` remembers the decisions whose version was so replaced.
`Complete` is what callers do to the mutable artifact `get()` hands out: attach
the card and the validation report, start the shadow clock. `Decide` logs a
decision with version and triplet; `Loads` says whether a replay finds the version
it names and `Replays` whether that is still the same model. The standing criterion
is in Ladder: the registry does not consult it.

### EarlyWarning: from signal to retirement
`catalog` is `SignalCatalog.signals`, `cases` and `dispositions` the two
dictionaries of the case manager, `condemned` the retirement decisions taken
and not yet applied, `assigned` the day's assignment. `RaiseAlert` is evaluation,
tiering by the two-key rule and `open_case()` in one step; `OfficerPass` is
`apply_officer_cap()` with its sort key; `RetireDegraded` computes the rolling
precision over the window with the evidence `PrecisionEvidence` gives for it, and `ApplyRetirements` acts on it, as two steps
because the code separates them. Time is in days and stops at `MaxDay`; days
after that still end (the assignment is cleared), which is why the run has no
deadlock. The SLA clock of an alert is not kept (see section 5).

### FeatureStore: point-in-time features
`history` holds the rows of each entity, with event time and created time, `served` what
was returned online. `AsOf` is `as_of()`: knowable rows, the latest in sort
order, then its time to live. `TrainingRow` is the join and `SkewFindings` the
comparison. `Ingest` takes both times from its caller, as `add()` does, which refuses
only a fact dated after its own arrival: a row may be dated behind reads that were
already served. Each read so remembers how many rows had been added by then.

### Workbench: the officer's case screen
`mount` is the page on screen: opening another case mounts a new one, as the
framework does for a change of the dynamic segment. `page`, `shown`, `reasons`,
`submitting` are the page's state hooks, `form` those of the override control.
Loads and posts are sets of requests in flight, served in one step and answered
in another, so that answers come late, out of order, or after their page is
gone (`LoadAnswered` then honours the `cancelled` flag of the effect). The
gateway is external: it accepts an override, issuing a new decision whose answer
may be lost, or refuses it. A refusal, an error and a lost answer all replace
the screen and are one kind, `failed`.

### The component modules and their drivers
The components below run apart from each other. The first state of a driver
chooses a `side`, and that component then runs alone. One run so covers them all,
and the sizes of their state spaces add up instead of multiplying. There are three drivers:

- `Components` instantiates the fifteen whose properties are proved, for any
  values of their constants, and states what is assumed of each constant beside its
  instance. `OtherSide` stands for the components that are not among them.
- `MCComponents` extends it with small values and seven more components. Its `AllSpec`, as
  long as it runs one of the fifteen, is `Components!Spec` on those values.
- `MCScoring` extends the feature store with the components that make
  samples, bins, trees and scorecards of data, and passages of documents.

The properties of a component are gathered in its `...Sound` operator, and the
drivers' properties in those of a subsystem. In all of them an operation that
raises changes nothing and is no step.

*Front and desk.*
- **Gateway**: one request after another on a keep-alive connection, from
  `useLoad()` through the client to the handler and back. `leftover` is the
  body a refused request left unread, parsed as the next request. Latest load on screen; refusal told
  from fault; no score without its triplet; a load ends (liveness).
- **FraudDesk**: bands, cases, dispositions, labels. A closed case has its
  outcome and analyst; the desk's figures add up; a label never changes.
- **FraudVelocity**: events late and out of order against the watermark. A
  count a decision used is recomputed whatever arrives later, but for what arrives
under a receipt time the decision already knew.
- **EntityGraph**: blocking, pairwise comparison, components. Rings partition the applications, none
  exists without evidence and two records that match exactly are in one.
- **Documents**: a statement and a slip, then altered. One altered figure is evident or reported as not checkable;
  the aggregator's figure wins.
- **Targeting**: the supervised fraud layer, its evaluation and the friction it costs, uplift with its
  Qini curve, and the off-policy value. Two routes to one figure must meet: the
  curve ends at the effect, the value is right if the propensities or if the
  reward model are.

*Customer.*
- **Consent** (with its proofs): grants, revocations, uses, features and scores. A replayed
  verdict is that of its day; nothing was used outside its purpose; a score
  says truly which features it went without.
- **IdentitySpine**: `build_spine()` row by row. Counts do not depend on row order;
  each case is explained by a loan or a cause.
- **Offers**: constraints, feasible sets, pricing, the bandit and the audit. No logged offer breaks a cap on the
  cash flow its set was built on, or the floor and ceiling of its price up to its arm's offset; the audit finds
  it unaffordable only after that flow fell; propensities add up over the arms. UCB scores are replaced by any available arm.

*Assistant.*
- **Assistant**: dated documents, tools, rate limit, validator, faithfulness
  gate. Numbers are grounded, citations resolve later as they did.
- **Chunking**: nothing is lost, only what cannot be divided exceeds the ceiling.
- **Retrieval**: index, table and vectors drift apart when encoding fails;
  nothing stale is returned and the lexical leg crowds nothing out.
- **Conversation**: reasons to templates, the checks of one turn, redaction, the
  golden set. A customer hears the principal reasons as approved, or nothing.

*Portfolio and monitors.*
- **Portfolio**: the account-month panel and the rows cut from each loan's months; staging, flows, incidence, product
  limit, Fine and Gray, vintage curves, which must agree with each other. A row never moves once given.
- **Workouts**: exposure, conversion factors and losses on both bases, recovery
  by recovery.
- **Monitors**: ADWIN, CUSUM, the seasonal outlier test and Bayesian change
  points over one series.
- **Backtest**, **PdVelocity**, **AgriTriggers**: capture and lead without
  hindsight, the precision of judged Red alerts, and a report that names each target missed; alerts within their budget; sustained stress and no pressure in a drought.

*Scoring and rollout.*
- **TrainingSample**: target table and splits; out of time means it.
- **Binning**: pooling is the least-squares isotonic fit (checked against its
  max-min reference); no row is lost.
- **TreeModel**: one boosted tree with exact rationals; monotone directions,
  Shapley attributions that reconcile, principal reasons. It runs twice, on the
  second side with NaN among the values.
- **Scorecard**: screening, fit (an oracle), elimination of wrong signs, points, reasons. The log replays to the card.
- **Validation**: reliability, shift, swap set, fairness and exit criteria, and the
  daily shadow comparisons with their mean disagreement.
- **Ladder**: shadow, canary, full, the parity of two paths, the champion's
  comparison, the monitors' calendar. Full traffic was earned day by day; a
  lift that counts is out of time, on the same population and reviewed.
- **Communities**: Louvain node by node. Modularity rises with each move, so the method ends (liveness).

*Data.*
- **SchemaEvolution**: each version reads what every earlier one wrote, but for fields removed and put back;
  the gate itself compares neighbours.
- **Lakehouse**: lineage is complete; a reconciliation that passes means balances agree. It runs
  twice: `lake` for the tables, `gl` for the balances.
- **AgriInputs**: plots, tiles, the drought record, downscaled yield, income and
  disparity. It runs twice: `holdings` for plots and tiles, `lending` for the record, yields and districts.

## 3. Runs

| Run | Module | Properties |
|---|---|---|
| `declog_restart` | DecisionLog | `TypeOK`, `NoFalseAlarm`, `AckedDurable`, `EvidenceIsPermanent` |
| `declog_shared` | DecisionLog | `NoEditSurvives`, `HashPinsPrefix` |
| `orch_config_swap` | MCOrchestrator | `TypeOK`, `DualControl`, `RiskOrdering`, `OutageNeverScores`, `EveryCallAnswered` |
| `orch_promise` | MCOrchestrator | `ImplementsPromise` |
| `orch_swap_midflight` | MCOrchestrator | `RecordNamesDecidingBands`, violated |
| `registry` | ModelRegistry | `TypeOK`, `ProductionWasGated`, `ReplayFaithful`, `PromotionStep` |
| `ews` | MCEarlyWarning | `TypeOK`, `GoodSignalsSurvive`, `WorstFirst` |
| `scoring` | MCScoring | `TypeOK`, `SkewIsBackdated`, `StatusIsTruthful`, `CorrectionWins`, `ScoringSound` |
| `workbench` | Workbench | `TypeOK`, `ShowsThisCase`, `OneOverrideAtATime`, `ConfirmedChoice` |
| `override_note` | Workbench | `RequiredNoteGiven`, violated |
| `components` | MCComponents | `ScreenFaithful`, `FraudSound`, `CustomerSound`, `OffersSound`, `AssistantSound`, `DataSound`, `PortfolioSound`, `WaitsEnd`, `TrainingDataStands`, `ModularityRises` |
| `nan_routing` | MCScoring | `ScoredAsTrained`, violated |

`PROJECT.json` says of each run what it shows. The largest are
`orch_promise` with 2.5 million distinct states and `registry` with one; none takes three
minutes, the longest being `orch_config_swap` (547,000, with liveness) and `components`
(318,000, of many small components).

**Bounds.**
- *Decision log.* Four writes (one handle) and three (two handles), two
  contents. Three lines are what a removal, a swap or a copy inside the file needs, and
  the fourth is an append after it; two contents make an edit possible. One
  intervention at a time in `EvidenceIsPermanent`: a second could undo the first.
  Truncation is left out there, because it does go unseen (section 5).
- *Orchestrator.* Two calls, so that one can be between its two reads while the
  other runs; two changes, so that a configuration goes away and comes back; two
  effective configs and one that a single person signed twice; a score at each cutoff.
  `orch_config_swap` reconfigures between any two reads and has no policy rules, which
  read nothing that changes; `orch_promise` has them, a cutoff still pending and scores
  between the cutoffs and above one, and reconfigures only between calls: the run `orch_swap_midflight` shows what happens otherwise.
- *Registry.* Two versions and two triplets, so that one version's evidence
  could pass for another's; two contents of the definitions; a shadow of two
  days within four days of clock. A version may be registered again at any time.
- *Early warning.* Two signals in two versions, two alerts, a cap of one, a
  window of two days in three: an alert can be inside the window, leave it, and
  compete for the cap.
- *Feature store.* Three rows of two values over three instants, with a time to
  live of one: a late row, a backdated one, a correction and an expiry in every order.
- *Workbench.* Two pages and two overrides over two applications: an answer can
  come to a page that has been left, and a second override can follow the first.
- *Components.* Each instance states its bounds in `MCComponents`, `MCScoring` or
  `components.cfg`. They are the
  smallest at which the cases that the properties are about occur: values on both
  sides of each threshold and on it (bands, caps, token limits, minimum sizes);
  three events of one key under any receipt times, with a lateness of one, so that one is late and one backdated;
  cash flows that can fall after a set was built on them; two loans
  of unequal length, so that one leaves the panel before the other; four vintages,
  so that each block of a split can be a month of its own; five rows of a sample,
  so that a leaf has siblings on both levels; three schema versions, since the
  gate compares two; all graphs of four nodes, so that Louvain has a second
  level; six observations, so that a window is cut more than once.
- *Arithmetic.* Ratios are exact pairs, shares are parts of a whole that every
  count divides, logarithms and quantiles are tables. Boundaries are kept and
  rounding is left out.
- *Symmetry* is used in `ews`, for signals, versions and alerts, and in `scoring`, for
  the values of a feature: their specifications only compare them.

**Deadlock** is checked where the system must go on (`registry`, `ews`).
It is off in the decision log, the orchestrator and the workbench, which may rightly
stop: an unreadable log refuses every process, every call has returned, the
last page shows a failure. It is off in `components` and `scoring` because a component that
has used its bounded inputs is done.

**Fairness.** `orch_config_swap` needs it for `EveryCallAnswered`: weak
fairness of each call's own steps (a thread inside `decide()` runs on; nothing
in it waits on another) and of `ServerUp`, an assumption on the environment.
It is stated for a call that starts with a configured `model_ref` and loses no
attribute on its way (`withdrawn`): without the first the constructor of the record
raises, without the second a read of None does. `components`
needs it for `WaitsEnd`: weak fairness of `Serve(k)` on each connection (a
threading server handles every connection in a thread of its own) and of
`Progress(n)` of each load (the browser settles a promise once its answer or the failure of its
connection is there); no fairness that connections stay whole. Louvain is a
sequential loop, so its every step is weakly fair.

**Mutants.** Every property of a passing run is broken by a plausible bug written
beside the definition it would replace (marked *Mutant* in the modules).

## 4. Theorems

| Module | Theorem | Says |
|---|---|---|
| DecisionLog_proofs | `TypeCorrect` | `Spec => []TypeOK` |
| | `EditsAreEvident` | `Spec => []NoEditSurvives` |
| | `ChainSurvivesRestart` | `[]NoFalseAlarm`, for one handle and whole-line writes |
| | `AckedRecordsAreOnFile` | `[]AckedDurable`, under the same assumptions |
| | `HashesPinPrefixes` | `Spec => []HashPinsPrefix` |
| | `TamperingStaysEvident` | `[]EvidenceIsPermanent`, for one handle, whole-line writes, no truncation and one intervention |
| Orchestrator_proofs | `OrchestratorTypeCorrect` | `Spec => []TypeOK` |
| | `DualControlHolds` | `Spec => []DualControl` |
| | `RiskOrderingHolds` | `Spec => []RiskOrdering` |
| | `OutageIsADecisionPath` | `Spec => []OutageNeverScores` |
| | `DecideKeepsItsPromise` | `Spec => ImplementsPromise`, if nothing is deployed while a call runs |
| ModelRegistry | `RegistryTypeCorrect` | `Spec => []TypeOK` |
| | `NoUngatedProduction` | `[]ProductionWasGated`, if `register()` is never given the stage Production |
| | `PromotionsAreGated` | `PromotionStep`, under the same assumption |
| | `DecisionsReplay` | `Spec => []ReplayFaithful` |
| EarlyWarning_proofs | `EwsTypeCorrect` | `Spec => []TypeOK` |
| | `OnlyRebukedSignalsRetire` | `Spec => []GoodSignalsSurvive` |
| | `WorstCasesFirst` | `Spec => WorstFirst` |
| FeatureStore | `FeatureTypeCorrect` | `Spec => []TypeOK` |
| | `SkewOnlyByBackdating` | `Spec => []SkewIsBackdated` |
| | `StatusTruthful` | `Spec => []StatusIsTruthful` |
| | `CorrectionsWin` | `Spec => []CorrectionWins` |
| Workbench | `ScreenTypeCorrect` | `Spec => []TypeOK` |
| | `ScreenShowsItsCase` | `[]ShowsThisCase` |
| | `OneOverrideInFlight` | `Spec => []OneOverrideAtATime` |
| | `WhatIsPostedWasConfirmed` | `Spec => ConfirmedChoice` |
| Components_proofs | `ScreenStaysFaithful` | `Spec => []ScreenFaithful` |
| | `CustomersStaySound` | `Spec => []CustomerSound`: consents, the feature catalogue, the identity spine |
| | `OffersStaySound` | `Spec => []OffersSound` |
| | `FraudStaysSound` | `Spec => []FraudSound`: the desk, the velocity counters |
| | `LabelsAreKept` | `Spec => TrainingDataStands`: the desk's labels, the panel's rows |
| | `AssistantStaysSound` | `Spec => []AssistantSound`: answers, conversations, retrieval |
| | `DataStaysSound` | `Spec => []DataSound`: schemas, backtest, PD velocity, panel, ladder |
| Consent | `ConsentHolds` | `Spec => []ConsentSound` |

The assumptions are of two kinds. Those of the modules say what a constant is
(a set of stages, an ordering of cutoffs, a value outside a type), and TLC
evaluates them in the runs. Those of a theorem are conditions on the deployment
that the code does not enforce, and each is needed: without one handle, whole
lines, no truncation, a single intervention, a register() without Production or a quiet
configuration, the property is false, as sections 3 and 5 and the violation runs show.

**Decision log.** `NoEditSurvives` is not inductive: nothing in it says where a
line came from once it is damaged. `LogInv` adds that every line is *traceable*:
it is garbage, or its stored hash belongs to an entry that some `append()` wrote. An
edit keeps the hash, so it keeps traceability; and a line that is traceable and
passes the content check is that entry itself, because the digest is injective
(`GenuineLine`). The lemmas `SliceLines`, `ConcatLines` and `OperatorLines` carry the
invariant through the operator's rewriting of the file. `CleanInv` serves the
conditional theorems: while nobody tampers the chain is valid, the last
line is terminated, the open handle's cache is the tail's hash, except that in
phase "written" the pending entry is the tail. `ExtendChain` is the step that
appends to a valid chain.

That a valid chain pins its prefixes (`HashIsPrefix`) is an induction along the file. It is made
as an argument by least counterexample, from the well-ordering of the naturals
(`WFMin`): the first line whose hash is not the digest of its prefix has a
predecessor whose hash is, and is chained to it. It follows that a
hash tells the place of its line (`HashTellsPlace`), so after a removal
(`RemovedLine`), a copy or a swap (`CopiedLine`, `TamperBreaks`) some line inside the
file is not chained to its predecessor. Appending leaves that line where it is (`BreakStays`),
and so does a restart, which reads the last line alone.

**Orchestrator.** What a record says is fixed in several steps, between which the
configuration and the server change. `DecisionInv` therefore speaks of a call in
each of its phases: what it has scored (`ScoredOnce`), what the tests it has passed still
say of its own locals (`Tested`), that its decision is justified by
the bands it read and by nothing read later (`Justified`, `BandsDecided`), and that its record repeats
the decision (`Recorded`). The proof has a step for each read, those that raise included. `DualControlHolds`, `OutageIsADecisionPath` and `RiskOrderingHolds` are read
off it, the last one with `BandsMonotone`, which is about the code's two comparisons. For the
refinement every step is mapped: `Record` is the service's answer, a deployment is its
reconfiguration, the rest stutters. `QuietInv` carries what the call has computed
until `Record` reads `bands` a last time, and is invariant only
if nothing is deployed in between.

**Registry.** `ProductionWasGated` needs the evidence of artifacts that are not
in Production yet to survive the moves between stages, and the clock to be
monotone (`Evident`). `DecisionsReplay` needs that no action but a registration
changes a triplet (`TripletsStay`) and that no artifact leaves the registry; what a
registration replaces is in `superseded`, and leaves it when the new artifact decides
the same way again.

**Early warning.** `GoodSignalsSurvive` is strengthened by `RetirementInv`: a
retirement in flight condemns rebuked signals only, and an alert that was disposed of as
irrelevant has rebuked all its signals. That a signal below its floor has such an alert
(`DegradedByAnOfficer`) is arithmetic: precision is the confirmed over the judged, and
cannot be below a floor of at most one if all were confirmed. That the floor is at most one is not assumed: an
alert needs a shippable signal, and a signal is shippable on a precision that reaches the floor
(`ShippableHoldsFloor`). `WorstFirst` is about the sort key, which is an order with ties unless every case
has a place of its own (`CaseOrder`): then the ranks are distinct, fill an initial segment
(`RanksAreOrdered`, `CapIsFilled`), and the first `Cap` of them are the worst.

**Feature store.** The join cannot always rebuild what was read, since `add()`
takes any created time. What holds is that each read is rebuilt from the rows added
before it (`ReadsStand`, over `SeenBy`), because rows are only ever added, under numbers of their
own. So where the join disagrees, its latest row is a newer one, dated behind the read
(`StandingReadsAreBackdated`); that it has a value at all is `FreshIsMonotone`. `GreatestNat` and `LatestExists` show
that a non-empty set of rows has a latest one, with which `FeatureTypeCorrect` types the value that is served.
`StatusTruthful` needs that the latest event is the freshest (`FreshIsMonotone`): if it has expired, all have.
`CorrectionsWin` needs that what `AsOf` returns is the latest row's value and not another one's (`ValueWhenFresh`).

**Workbench.** `ShowsThisCase` is not inductive: the state says nothing of what
the answers in flight will show. `CaseInv` adds that a load of the page on screen
asks for its application and is answered with a decision of that application
(`LoadMatches`), that an override was posted for a decision of its page's
application and is answered with another one of it (`PostMatches`), and that the
gateway's decision in force for an application is one of its own. An answer for a
page that was left may show anything, because it is not applied; a page number
is used once, so no later page can be mistaken for it. The only assumption is that the
applications are finitely many, for the initial numbering of their decisions.
`OneOverrideInFlight` restates the cardinality as equality of any two posts of the page
(`Pending`); `WhatIsPostedWasConfirmed` needs that the form holds what was asked
while the prompt is open (`PromptInv`): every other change of the form closes it, and
the note, which does not, is no part of the claim (`override_note` shows why).

**Components.** A behaviour of `Components` is one of the component its first
state chose: `Starts` and `Steps` give, from each component's own lemmas, that its
invariant holds first and is kept, and `StepsApart` that the others stand still. The
theorems at the end join these. Two facts about integers serve several
components, `GreatestExists` and `LeastExists`: the well-ordering of a bounded set.

- *Gateway.* `LoadsInv` says that a connection carries one waiting load and that a load's
  answer is one its own request can have, whatever body was left unread before it; `OutcomeIsRight` says
  that `outcome()` of the client is right about each of those; `ScreenInv` adds that the screen was set by the load
  it names. Nothing is assumed.
- *Fraud desk.* `DeskInv` adds to `ClosedIsDisposed` the types of queue and taxonomy. That the
  figures add up is no sum over data: the closed cases of two signals are disjoint
  groups, whose cardinalities add (`GroupsAdd`).
- *Velocity.* `BucketInv` numbers the events in the order of their ingest and `WatermarkInv` ties the watermark to the
  newest event and the late ones to those behind it. A decision counted what it knew of the events held
  then (`HeldThen`, `AskedInv`); today's count of its question splits into those and the events delivered
  since under a receipt time it knew (`CountReplays`). Nothing is assumed of receipt times.
- *Spine.* `SpineInv` says, after each row, what spine and audit hold of the rows read so far, and that
  the extracts are read in order. Assumed: the answer of `normalise()` for a rejected key is no key.
- *Offers.* `OffersInv` says that every offer of a set, and every logged one, was assessed and keeps the caps on
  the flow its set was built on, that the rate in force is the offerable rate of the table and loss on record
  (`QuoteInv`), and that a decision has the propensity of its choice. That a DSCR above the floor leaves the
  instalment payable (`FloorCovers`) needs a floor of at least one, below which the code refuses
  the caps. The instalment is a power, which the provers cannot type, so its type is assumed for
  the offers that can be made, and TLC evaluates the assumption.
- *Assistant.* A citation resolves later as it did because nothing an answer rests on leaves the corpus
  (`SourcesStay`); the rate holds because the limiter forgets no call of its window (`LimiterInv`). The governance
  report is a count over disjoint parts of the corpus (`CorpusInv`, `GovernanceCounts`).
- *Conversations.* `ConversationInv` follows the reasons from the decision into the text that is said; and no
  pattern of `redact()` leaves what another one takes (`PatternsTake`, `RedactLeavesNothing`).
- *Retrieval.* `RetrievalInv` types the tables and says that the retriever's two tell one corpus; the vector store
  may hold anything encoded before. A ranked list is defined by counting what precedes each hit:
  `RankingLists` shows that such a list is in order and complete, `CutKeeps` that a cut loses nothing better
  than what it keeps, `FusedLists` and `ShareFalls` that a passage ranked above another by both legs ends
  above it. Assumed: chunk ids are integers (ties are broken by them), frequencies natural, and `Scale` a
  common multiple of the divisors of reciprocal rank fusion, so that the shares are exact.
- *Schemas.* `SchemaInv`: each version passed the gate against the one before, a message is what its version
  writes, and each version reads all that came before it but for fields put back (`ChainInv`). `SuccessorReads`
  shows what one pass gives a reader; with `PromotionsCompose`, that a promotion of a promotion is one, it carries
  the whole history to the next version (`MergeReads`).
- *Backtest.* `BacktestInv` is typing; the work is in what follows from it, that an alert in time for a
  longer lead is in time for a shorter one (`CaptureGrows`, `LeadStaysHonest`) and that the report passes on both targets (`TargetsStandOnBoth`).
- *PD velocity.* The ranking compares ratios by cross multiplication; `LessIsAnOrder` shows
  that this is an order, which needs positive denominators (`fromZero` keeps the others out), and `BelowCounts` that an account's place counts those below it. Assumed: PDs
  are natural and a window is no narrower than its tolerance, as in `ews/velocity.py` (30 days and 5).
- *Panel.* `PanelInv` says that months are read in order, that the default date is the first month at the
  threshold and no later than a disposition, and what a disposition is. The rows of a month are functions of the months up to
  it, and a label, once given, moves only when the loan turns out to be lost (`RowLabel`, `RowsStay`); what a good one
  was given for is `GoodRow`. Days past due are assumed
  natural, and what stands for an unknown to be neither a number nor TRUE.
- *Ladder.* `RungsInv` says that each rung was taken after its time on the one before, `ReportInv` that an item of
  the report tells how late its activity was that day and that one left out had run in time. Assumed:
  a window of an evaluation ends after it starts, which `EvaluationWindow` checks, and intervals are whole days.

**Consent.** A use is judged when it happens and replayed later, on an artifact
that may have been revoked since. `PastIsKept` shows that a revocation changes no
verdict of an earlier instant; only the instant of the revocation itself is
ambiguous, and the property says so. `FileInv` types artifacts, uses and scores
and puts every one of them in the past.

**Model-checked only.**
- Liveness, out of the prover's reach: `EveryCallAnswered`, `WaitsEnd`.
- The promises that do not hold (`RecordNamesDecidingBands`, `RequiredNoteGiven`, `ScoredAsTrained`).
- `PortfolioSound`, `ScoringSound`, `ModularityRises`: what recursive functions and folds
  over data return (sorting, pooling, sums, walks over graphs), which needs an
  induction over that data. `MCScoring` moreover reaches the recursive operators of TreeModel.

## 5. Where code and comments disagree

Shown by a run (`findings` in `PROJECT.json`): a record names bands that did not
decide (`lh/serving/orchestrator.py:189`); a required note can be erased after
the confirmation (`fe/components/workbench/OverrideControl.tsx:225`); a NaN is
fitted in one child and scored in the other (`lh/scoring/gbm.py:137`).

Shown by a model while it was built, or evident from the code, and left to
prose. Operators in brackets state the promise and stay in the module, unchecked,
for whoever repairs the code.

*Deciding, logging, governing.*
- `lh/decisionlog/store.py:55`: two objects on one path both chain to what each
  last saw, and the second one's record breaks the chain.
- `lh/decisionlog/store.py:70`, "Walk the chain and confirm nothing was edited
  or removed": removing the last records leaves a chain that verifies.
- `lh/decisionlog/store.py:58`: after a write that failed half-way the object
  stays in use, and the next acknowledged record is glued to the fragment and
  cannot be read.
- `lh/serving/orchestrator.py:162`, "say which of the two reasons applies rather
  than merging them": a probability outside [0, 1] is reported as bands without dual approval.
- `lh/serving/orchestrator.py:145`, "queue for re-score": nothing queues.
- `lh/serving/orchestrator.py`: the scorer (134, 136), the bands (151, 153 and 112, 114) and the
  model reference (186, twice) are read again after they were tested; one set to None in between
  makes `decide()` raise, or the record names None as its model, passes its constructor
  (`record.py:104`) and has no `to_dict()` (127).
- `lh/mlops/ports.py:34`: `register()` overwrites a version that decisions already
  name, so they no longer replay.
- `lh/mlops/promotion.py:3`, stage moves "only via CI pipelines": `register()` stores any stage it is handed.
- `lh/mlops/promotion.py:5`, "shadow >= 4 weeks": the clock also runs outside Staging.
- `lh/learning/promotion.py:10`, "Every promotion, forever, is subject to it":
  `transition()` (`lh/mlops/ports.py:42`) does not consult the standing criterion, so a version
  it would refuse reaches Production; the criterion never
  asks for a positive lift (293-323), which `challenger.assess` does.
- `lh/learning/cadence.py:153`: one `last_run` in the future raises for the whole report.
- `lh/serving/shadow.py:182`: the clean days are the caller's figure.

*Early warning, fraud, customer.*
- `lh/ews/routing.py:234`, "A disposed alert never breaches retrospectively":
  the case manager stores the disposition beside the alert, never on it.
- `lh/ews/routing.py:382`, precision is None "when no alerts fired": also when
  alerts fired and nobody disposed of them yet.
- `lh/ews/signals.py:271`: registering v1, v2, v1 gives one version two definitions.
- `lh/ews/signals.py:188`: a retirement decided on the old version's alerts disables the new one.
- `lh/ews/velocity.py:287`: the portfolio minimum counts two readings of one
  account twice (`MinimumIsOfAccounts`). `lh/ews/agri_triggers.py:259`: two
  observations of one date are consecutive revisits.
- `lh/ews/backtest.py:385`: with accounts judged and none of them alerted Red the report
  does not say so but raises, for a precision over no alert; 317: a judgement is of the
  account, so each of its alerts in the tier counts as confirmed with it.
- `lh/fraud/routing.py:303`: two cases of one application closed with
  contradicting outcomes both become labels. `lh/fraud/velocity.py:137`: an
  event delivered twice counts twice; 88: an event delivered after a decision under a receipt
  time before it changes that decision's count.
- `lh/featurestore/pit.py:104`: a row added with a created time before a read that was served makes
  the join differ from what was served, and nothing compares that time with a clock.
- `lh/privacy/consent.py:95`: a revocation at the very instant of a decision
  flips its replayed verdict. `lh/scoring/features.py:259` looks at a consent's
  purposes and not at its data categories.
- `lh/identity/spine.py:245`: the last row of a key wins and hides that the
  systems disagree (`DisagreementReported`).
- `lh/reco/feasible.py:254`: the DSCR headroom has the opposite sign to the one its
  comment gives, so the binding constraint is wrong (`HeadroomSigned`).
  `lh/reco/suitability.py:273`, "an offer can be feasible and fail it": the set and the audit judge
  the same stressed flow, so it fails only when that was estimated lower in between.
  `lh/reco/bandit.py:113`: an arm's offset is added after the price was clipped, and can take the
  offer below the floor or above the ceiling.
  `lh/reco/bandit.py:396`: a reward delivered twice is learnt twice.

*Assistant, gateway.*
- `lh/assistant/registry.py:197`: the content hash leaves out kind, tags,
  owner and what a document supersedes.
- `lh/assistant/answer.py:463`: a kept sentence may carry a citation that does not resolve.
- `lh/assistant/chunking.py:426`, an oversize chunk without a table is a bug: one
  long sentence is such a chunk (`OversizeHoldsTable`).
- `lh/assistant/retrieval.py:548`: the vector store is asked for its hits before the
  dates are looked at, so expired passages crowd out those in force
  (`DenseCrowdsOut`); a failed encoding (498) leaves the old text's vector.
- `lh/assistant/guardrails.py:485`: a card number in groups of four loses three of
  them to the Aadhaar pattern and keeps its last.
- `lh/gateway/server.py:237`: a request answered before its body is read leaves the
  body on the connection, and it is parsed as a request and answered by a page (`EveryBranchIsJson`).
- `lh/gateway/routes.py:334`: whether a route is blocked is judged by one call with empty arguments.
- `fe/components/workbench/OverrideControl.tsx:36`, against a "single-click
  override": after a success the prompt stays open, so the next override of the
  new decision takes one click.

*Portfolio, scoring, data.*
- `lh/portfolio/panel.py:66`: the months of a repurchased loan are labelled good,
  though its future was cut off (`CensoringIsNotGood`); a terminated loan with nothing
  observed reads good (307), and an event in a month without a row gets the wrong
  months on book (403).
- `lh/portfolio/panel.py:235`, a default in the window "includes the loss dispositions": the rows look for
  the loan's one event, its first default, so a loan that defaulted, cured and was then sold at a loss reads good in
  the months before the sale (`LossIsNeverGood`).
- `lh/portfolio/staging.py:263`: an arm that could not be evaluated is passed over while the
  provenance says that every arm was.
- `lh/portfolio/lgd.py`: a two-stage model can be promotable and unable to give an expected loss.
- `lh/portfolio/health.py:304`: neither side of the chart is reset after an alarm, and when both exceed, one is named.
- `lh/portfolio/opsanomaly.py`: a flat series with one spike has no spread and so no outlier.
- `lh/serving/parity.py:137`: a score missing on one path counts as agreement.
- `lh/streaming/compat.py:118`: neighbours are compared, so a field removed and added
  again with another type leaves old messages unreadable, which is the only way (`LatestReadsAll`).
- `lh/agri/boundary.py:111`: a delineation without a borrower takes the plot from
  the borrower who has it (`PlotsAreKept`); `lh/agri/registry.py:279` admits boundaries whose gate
  was not passed (`ScorableIsAdmissible`).
- `lh/agri/disparate.py:123`: negative weights leave [0, 1]; when all rates tie, the
  disparity is said not to be explained by agronomy.
- `lh/learning/uplift.py`: the curve's diagonal is a left sum and the curve a trapezoid; a prefix without a control credits every cure.

## 6. Not modelled, and why

- Numerical fits: logistic, Cox, two-stage loss, hazard and distribution fits,
  the yield regression, the boosting loop around the modelled tree, spectral
  indices, geometry, the crop model, Wilson intervals, standard errors. Where
  control depends on a fit, the fit is an oracle (`Scorecard`) or its result an input.
- The source registry (validation of YAML records), retention rules and
  tokenisation: each call depends on its argument alone.
- The sampling of `spot_audit()`, latency measurement, the payloads of the
  computed gateway handlers, the job poller (no route serves it) and the layout of the pages.
- Parsers but for `load_panel()`, scripts, report writers and stubs that raise
  (MLflow, Feast).
- The `Idempotency-Key` the client sends: nothing under `src/` reads it.
- The SLA clock of an alert, survivorship over the spine, freshness of topics.

## 7. Plan

Done: the modules of section 2 and the theorems of section 4. Next:

1. Proofs: the parts of `ScoringSound` that need no sum (the split of TrainingSample, one
   altered figure in Documents), for which they would move under `Components`; then what the proved invariants
   give together (a decision whose record verifies replays on its model).
2. Composition: DecisionLog under Orchestrator (the append may fail after the
   outcome was fixed), ModelRegistry under Orchestrator (the version serving
   against the one named), Consent with replay.
3. Extension: retention against the log, the registries of sources and features
   together, the portfolio fits' row counts.
