----------------------------- MODULE EntityGraph -----------------------------
(* Entity resolution for fraud (fraud/entity_resolution.py): applications are     *)
(* blocked on shared keys, compared pairwise within a block, and joined in a      *)
(* graph of applications and the phones, accounts, devices, places and employers  *)
(* they share; a component of the graph is a candidate ring.                     *)
(*                                                                            *)
(* A name is abstracted to [text, start]: what Jaro-Winkler compares and the three *)
(* letters it is blocked on.  Similar stands for the score against the threshold. *)
(* The other fields hold what they are normalised to: two employers written in a *)
(* script that normalise_name() drops are one value here, as they are one node    *)
(* there.                                                                        *)
EXTENDS Naturals, FiniteSets

CONSTANTS
    Application,    \* application -> [phone, account, device, geo, employer, name]
    Similar,        \* pairs of name texts at or above name_threshold
    Absent          \* a field that was not supplied

VARIABLES
    records,        \* the applications resolved together, growing day by day
    ring            \* application -> the applications of its component
entityVars == <<records, ring>>

Field(a, f) == Application[a][f]
Shares(a, b, f) == Field(a, f) # Absent /\ Field(a, f) = Field(b, f)
Named(a, b) == Field(a, "name") # Absent /\ Field(b, "name") # Absent

(* compare(): the name evidence against the threshold, and the exact contact      *)
(* evidence that makes a match deterministic.                                   *)
NamesSimilar(a, b) ==
    /\ Named(a, b)
    /\ \/ Field(a, "name").text = Field(b, "name").text
       \/ {Field(a, "name").text, Field(b, "name").text} \in Similar

Deterministic(a, b) == \E f \in {"phone", "account", "device"} : Shares(a, b, f)

BlockedTogether(a, b) ==
    \/ \E f \in {"phone", "account", "device", "geo"} : Shares(a, b, f)
    \/ Named(a, b) /\ Field(a, "name").start = Field(b, "name").start

CandidatePairs(rs) == {p \in rs \X rs : p[1] # p[2] /\ BlockedTogether(p[1], p[2])}

(* build_graph(): one node per application and per value of a shared field.      *)
NodeFields == {"phone", "account", "device", "geo", "employer"}
ApplicantNode(a) == <<"applicant", a>>

NameEdges(rs) ==
    {{ApplicantNode(p[1]), ApplicantNode(p[2])} :
        p \in {q \in CandidatePairs(rs) :
                NamesSimilar(q[1], q[2]) /\ ~Deterministic(q[1], q[2])}}

(* Mutant of FieldEdges: the phone is matched but draws no edge.                *)
FieldEdgesNoPhone(rs) ==
    {{ApplicantNode(x[1]), <<x[2], Field(x[1], x[2])>>} :
        x \in {y \in rs \X NodeFields : y[2] # "phone" /\ Field(y[1], y[2]) # Absent}}

FieldEdges(rs) ==
    {{ApplicantNode(x[1]), <<x[2], Field(x[1], x[2])>>} :
        x \in {y \in rs \X NodeFields : Field(y[1], y[2]) # Absent}}

(* components(): what one node grows to until no edge leaves it.                *)
Component(n, edges) ==
    LET grown[i \in 0..Cardinality(edges)] ==
            IF i = 0 THEN {n}
            ELSE LET inner == grown[i - 1]
                 IN  inner \union UNION {e \in edges : e \cap inner # {}}
    IN  grown[Cardinality(edges)]

Rings(rs) ==
    LET edges == FieldEdges(rs) \union NameEdges(rs)
    IN  [a \in rs |-> LET c == Component(ApplicantNode(a), edges)
                      IN  {b \in rs : ApplicantNode(b) \in c}]

(* A day's batch: resolve() is run again over every record so far.              *)
Add(a) == /\ a \notin records
          /\ records' = records \union {a}
          /\ ring' = Rings(records')

Init == records = {} /\ ring = Rings({})
Next == \E a \in DOMAIN Application : Add(a)
Spec == Init /\ [][Next]_entityVars

-----------------------------------------------------------------------------
(* The rings partition the applications: none is in two, none is lost             *)
(* (components, resolve).                                                       *)
RingsPartition == \A a, b \in records : a \in ring[a] /\ (b \in ring[a] => ring[a] = ring[b])

(* A deterministic match draws no edge of its own, and is still in one ring with  *)
(* its counterpart through the node they share (build_graph).                    *)
DeterministicStaysJoined == \A a, b \in records : Deterministic(a, b) => b \in ring[a]

(* No ring without evidence: a ring splits into no two parts that share no field   *)
(* and hold no pair that was compared and found alike (candidate_pairs, compare).  *)
Linked(a, b) == (\E f \in NodeFields : Shares(a, b, f)) \/ (NamesSimilar(a, b) /\ BlockedTogether(a, b))
RingsAreEvidenced ==
    \A a \in records : \A s \in SUBSET ring[a] :
        s \notin {{}, ring[a]} => \E x \in s, y \in ring[a] \ s : Linked(x, y)

EntitySound == RingsPartition /\ DeterministicStaysJoined /\ RingsAreEvidenced
=============================================================================
