-------------------------- MODULE SchemaEvolution --------------------------
(***************************************************************************)
(* The versions of a topic's schema and the messages written under them:   *)
(* check_backward() of streaming/compat.py as the CI gate of               *)
(* tools/check_schema_compatibility.py, which compares each version with   *)
(* the one before it.  Producers lag behind; messages stay on the topic.   *)
(***************************************************************************)
EXTENDS Naturals, Sequences, FiniteSets

CONSTANTS
    Field,
    Type,           \* type names the fields use
    Record,         \* names a record may carry
    MaxVersions,    \* bound: versions of the schema
    MaxMessages     \* bound: messages on the topic

VARIABLES
    versions,       \* the schema files in the order of their numbers
    topic           \* messages: the version they were written under, their values

schemaVars == <<versions, topic>>

\* A field is a union of types, with a default or without.
NoField == [types |-> {}, default |-> FALSE]
FieldDef == [types : SUBSET Type \ {{}}, default : BOOLEAN]
Schema == [name : Record, fields : [Field -> FieldDef \cup {NoField}]]

PROMOTIONS == [t \in Type |->
    CASE t = "int" -> {"long", "float", "double"} [] t = "long" -> {"float", "double"}
      [] t = "float" -> {"double"} [] t = "string" -> {"bytes"} [] t = "bytes" -> {"string"}
      [] OTHER -> {}]

\* Mutant: one branch of the union that can be read is enough.
PromotableSome(old, new) ==
    old = {} \/ \E t \in old : t \in new \/ PROMOTIONS[t] \cap new # {}

\* _promotable(): a reader can take every branch of the old type.
Promotable(old, new) == \A t \in old : t \in new \/ PROMOTIONS[t] \cap new # {}

Added(old, new) == {f \in Field : old.fields[f] = NoField /\ new.fields[f] # NoField}
Kept(old, new) == {f \in Field : old.fields[f] # NoField /\ new.fields[f] # NoField}

\* check_backward(): no issue of severity BREAKING.  A removed field is a warning.
IsBackwardCompatible(old, new) ==
    /\ old.name = new.name
    /\ \A f \in Added(old, new) : new.fields[f].default
    /\ \A f \in Kept(old, new) :
         /\ Promotable(old.fields[f].types, new.fields[f].types)
         /\ old.fields[f].default => new.fields[f].default

-----------------------------------------------------------------------------
Init == versions = <<>> /\ topic = {}

\* A new version is merged when the gate finds nothing breaking; the first has
\* nothing to be compared with.
Merge(schema) ==
    /\ Len(versions) < MaxVersions
    /\ versions # <<>> => IsBackwardCompatible(versions[Len(versions)], schema)
    /\ versions' = Append(versions, schema)
    /\ UNCHANGED topic

\* A producer writes with any version, the latest or one it still runs.
Values(schema) ==
    {v \in [Field -> Type \cup {"absent"}] :
        \A f \in Field : IF schema.fields[f] = NoField THEN v[f] = "absent"
                         ELSE v[f] \in schema.fields[f].types}
Produce(n) ==
    /\ Cardinality(topic) < MaxMessages
    /\ \E v \in Values(versions[n]) :
          topic' = topic \cup {[version |-> n, name |-> versions[n].name, values |-> v]}
    /\ UNCHANGED versions

Next ==
    \/ \E schema \in Schema : Merge(schema)
    \/ \E n \in DOMAIN versions : Produce(n)

Spec == Init /\ [][Next]_schemaVars

-----------------------------------------------------------------------------
(* Properties.                                                             *)

\* Avro resolution: what the writer left out has a default, what it wrote can be
\* promoted to a branch of the reader's type.
Legible(reader, value, f) ==
    reader.fields[f] # NoField =>
        IF value = "absent" THEN reader.fields[f].default
        ELSE reader.fields[f].types \cap ({value} \cup PROMOTIONS[value]) # {}
CanRead(reader, message) ==
    /\ reader.name = message.name
    /\ \A f \in Field : Legible(reader, message.values[f], f)

\* A field of version i that went and came back by version n.
Has(i, f) == versions[i].fields[f] # NoField
PutBack(f, i, n) == Has(i, f) /\ Has(n, f) /\ \E k \in i..n : ~Has(k, f)

\* A version reads every message of every version before it, however many lie
\* between and whatever producers still run, but for a field that was removed and
\* put back on the way: the gate, which compares neighbours, misses nothing else.
UpgradeReads ==
    \A m \in topic : \A n \in DOMAIN versions : n >= m.version =>
        /\ versions[n].name = m.name
        /\ \A f \in Field : Legible(versions[n], m.values[f], f) \/ PutBack(f, m.version, n)

\* No schema of the history takes back a default, and the record keeps its name.
HistoryKeepsPromises ==
    \A i, j \in DOMAIN versions : i < j =>
        /\ versions[i].name = versions[j].name
        /\ \A f \in Field :
              (/\ versions[i].fields[f].default /\ versions[j].fields[f] # NoField
               /\ \A k \in i..j : versions[k].fields[f] # NoField)
                  => versions[j].fields[f].default

EvolutionSound == UpgradeReads /\ HistoryKeepsPromises

\* A new version reads what the old ones wrote.  It does not when a field was removed
\* and put back with another type.
LatestReadsAll ==
    versions # <<>> => \A m \in topic : CanRead(versions[Len(versions)], m)

=============================================================================
