---------------------------- MODULE FraudVelocity ----------------------------
(* The velocity counter of fraud/velocity.py: application events that reach the  *)
(* platform late and out of order, the watermark that tells late from on time,   *)
(* and the counts an application is scored with, each asked as of an event time  *)
(* and with what had arrived by a known-at time.                                *)
EXTENDS Integers, FiniteSets

CONSTANTS
    EventKey,           \* device, phone or address keys
    AllowedLateness,    \* how far the watermark trails the newest event
    Windows,            \* the window lengths
    Never,              \* a watermark that is not set yet
    MaxTime,            \* bound: instants
    MaxEvents,          \* bound: events ingested
    MaxAsked            \* bound: questions asked

VARIABLES
    bucket,     \* the events held: [key, event, ingest, n], the n-th ingested
    watermark,
    late,       \* late_events
    asked       \* history: the counts served, with their arguments and the
                \* events held by then
velocityVars == <<bucket, watermark, late, asked>>

(* Both times are the caller's; ApplicationEvent refuses only an ingest time     *)
(* before the event time.  No clock of the counter's own is compared with them.  *)
Ingest(k, t, at) ==
    /\ t <= at
    /\ Cardinality(bucket) < MaxEvents
    /\ bucket' = bucket \union {[key |-> k, event |-> t, ingest |-> at,
                                 n |-> Cardinality(bucket)]}
    /\ late' = late + (IF watermark # Never /\ t < watermark THEN 1 ELSE 0)
    /\ watermark' = IF watermark = Never \/ t - AllowedLateness > watermark
                    THEN t - AllowedLateness ELSE watermark
    /\ UNCHANGED asked

InWindow(k, asOf, w) == {e \in bucket : e.key = k /\ asOf - w <= e.event /\ e.event <= asOf}

(* Mutant of Count: the ingestion filter is left out.                           *)
CountAll(k, asOf, known, w) == Cardinality(InWindow(k, asOf, w))

Count(k, asOf, known, w) == Cardinality({e \in InWindow(k, asOf, w) : e.ingest <= known})

(* skew_check(): what a backtest counts beyond what the decision could see.     *)
Skew(k, asOf, known, w) == Cardinality(InWindow(k, asOf, w)) - Count(k, asOf, known, w)

(* for_application(): a decision asks of the events up to its observation point  *)
(* that it may know; count() refuses a known-at time before that point.         *)
Ask(k, asOf, known) ==
    /\ asOf <= known
    /\ Cardinality(asked) < MaxAsked
    /\ asked' = asked \union {[key |-> k, asOf |-> asOf, known |-> known,
                               held |-> Cardinality(bucket),
                               counts |-> [w \in Windows |-> Count(k, asOf, known, w)]]}
    /\ UNCHANGED <<bucket, watermark, late>>

Init ==
    /\ bucket = {}
    /\ watermark = Never
    /\ late = 0
    /\ asked = {}

Next ==
    \/ \E k \in EventKey, t, at \in 0..MaxTime : Ingest(k, t, at)
    \/ \E k \in EventKey, asOf, known \in 0..MaxTime : Ask(k, asOf, known)

Spec == Init /\ [][Next]_velocityVars

-----------------------------------------------------------------------------
(* A count a decision used is recomputed from its as-of and known-at times as it  *)
(* was, but for the events of its window which the stream delivered afterwards    *)
(* under a receipt time the decision already knew: late events never change it,    *)
(* backdated ones are all that does (velocity.py count).                         *)
CountsReplay ==
    \A q \in asked : \A w \in Windows :
        Count(q.key, q.asOf, q.known, w) =
            q.counts[w] + Cardinality({e \in bucket : e.key = q.key /\ e.event \in (q.asOf - w)..q.asOf
                                                      /\ e.n >= q.held /\ e.ingest <= q.known})

(* The skew reported for a past decision is the number of its window's events     *)
(* with a receipt time after it (velocity.py skew_check).                       *)
SkewIsLateArrivals ==
    \A q \in asked : \A w \in Windows :
        Skew(q.key, q.asOf, q.known, w) =
            Cardinality({e \in bucket : e.key = q.key /\ e.event \in (q.asOf - w)..q.asOf
                                        /\ e.ingest > q.known})

(* The watermark is the newest event less the allowed lateness, in whatever order *)
(* events came, and an event counted late lies before it (velocity.py ingest).    *)
WatermarkTrailsNewest ==
    IF bucket = {} THEN watermark = Never /\ late = 0
    ELSE /\ \E e \in bucket : watermark = e.event - AllowedLateness
         /\ \A e \in bucket : e.event - AllowedLateness <= watermark
         /\ late <= Cardinality({e \in bucket : e.event < watermark})

VelocitySound == CountsReplay /\ SkewIsLateArrivals /\ WatermarkTrailsNewest
=============================================================================
