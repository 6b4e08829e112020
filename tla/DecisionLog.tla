---------------------------- MODULE DecisionLog ----------------------------
(***************************************************************************)
(* The append-only, hash-chained decision log of                           *)
(* lending_hub/decisionlog/store.py.                                       *)
(*                                                                         *)
(* The JSONL file is a sequence of lines.  A line is an entry (a record's  *)
(* content, its prev_hash and the stored _hash) or Garbage: text that      *)
(* json.loads rejects.  SHA-256 is taken to be injective, so a digest is   *)
(* the pair it was computed from, and since prev_hash is itself a digest   *)
(* that pair unfolds into the sequence of contents up to the record; None  *)
(* is the empty sequence, which no digest equals.                          *)
(*                                                                         *)
(* A handle is one DecisionLog object.  append() is split where another    *)
(* process, a crash or an operator can get in between: the digest is       *)
(* computed from the cached _last_hash, the line is written, the cache is  *)
(* updated.  What no code under src/ does to the file (editing, removing,  *)
(* reordering or copying a line) is the operator's doing and is counted by *)
(* MaxTampers.  He changes contents and lines but computes no digest: the  *)
(* hash has no key, and who computes it anew for a whole tail leaves no    *)
(* trace.                                                                  *)
(***************************************************************************)
EXTENDS Naturals, Sequences

CONSTANTS
    Handles,        \* DecisionLog objects that may be open on the one path
    Content,        \* record contents: everything to_dict() holds but prev_hash
    Garbage,        \* a line json.loads rejects
    Faults,         \* what may go wrong inside append()
    TamperKinds,    \* what an operator may do to the file
    MaxRecords,     \* bound: lines ever written
    MaxTampers      \* bound: operator interventions

ASSUME BoundsAssumption == MaxRecords \in Nat /\ MaxTampers \in Nat
ASSUME FaultsAssumption ==
    Faults \subseteq {"crash_before_write", "crash_after_write",
                       "crash_unterminated", "crash_torn", "short_write"}
ASSUME TamperKindsAssumption ==
    TamperKinds \subseteq {"edit", "remove", "swap", "copy", "truncate"}

VARIABLES
    file,           \* the lines of the JSONL file
    terminated,     \* the last line ends in a newline
    last_hash,      \* _last_hash of each handle
    phase,          \* where each handle is: "closed", "open", "pending", "written"
    pending,        \* the entry an append() in progress is about to write
    written,        \* history: every entry handed to write()
    acked,          \* history: every entry whose append() returned
    writes,         \* history: number of write() calls
    tampers         \* history: the interventions that took place

vars == <<file, terminated, last_hash, phase, pending, written, acked, writes, tampers>>
history == <<written, acked, writes, tampers>>

None == <<>>

\* Mutant: prev_hash is left out of the hashed payload.
DigestUnchained(content, prev) == <<content>>
\* Mutant: only prev_hash is hashed, so an edit of the content goes unseen.
DigestOfLink(content, prev) == Append(prev, CHOOSE c \in Content : TRUE)
\* content_hash(): SHA-256 over the canonical JSON, prev_hash included.
Digest(content, prev) == Append(prev, content)

Entry == [content : Content, prev : Seq(Content), hash : Seq(Content)]
Line == Entry \cup {Garbage}
ASSUME GarbageAssumption == Garbage \notin Entry

\* The record as append() chains it: prev_hash replaced by the cached hash,
\* the digest computed over content and prev_hash together.
Chained(content, prev) ==
    [content |-> content, prev |-> prev, hash |-> Digest(content, prev)]

\* read_all() and _tail_hash() parse every line and raise on the first bad one.
Readable == \A i \in DOMAIN file : file[i] # Garbage

TailHash == IF file = <<>> THEN None ELSE file[Len(file)].hash

\* The checks of one iteration of verify(): the link to the line before, then
\* the content against its stored hash.
Expected(i) == IF i = 1 THEN None ELSE file[i-1].hash
\* Mutant: verify() never compares prev_hash with the line before.
LinkIgnored(i) == i \in DOMAIN file
LinkOK(i)   == file[i].prev = Expected(i)
ContentOK(i) == Digest(file[i].content, file[i].prev) = file[i].hash

\* verify() answers valid when no iteration returned early, and raises when the
\* file cannot be parsed.
ChainValid == Readable /\ \A i \in DOMAIN file : LinkOK(i) /\ ContentOK(i)

Init ==
    /\ file = <<>>
    /\ terminated = TRUE
    /\ last_hash = [h \in Handles |-> None]
    /\ phase = [h \in Handles |-> "closed"]
    /\ pending = [h \in Handles |-> Garbage]
    /\ written = {}
    /\ acked = {}
    /\ writes = 0
    /\ tampers = <<>>

-----------------------------------------------------------------------------
(* The code.                                                               *)

\* Mutant: the constructor starts every process with an empty cache.
OpenLogWithoutTail(h) ==
    /\ phase[h] = "closed"
    /\ phase' = [phase EXCEPT ![h] = "open"]
    /\ UNCHANGED <<file, terminated, last_hash, pending, history>>

\* DecisionLog(path): the tail hash is read once and cached.  On an unparsable
\* file the constructor raises and no handle exists.
OpenLog(h) ==
    /\ phase[h] = "closed"
    /\ Readable
    /\ last_hash' = [last_hash EXCEPT ![h] = TailHash]
    /\ phase' = [phase EXCEPT ![h] = "open"]
    /\ UNCHANGED <<file, terminated, pending, history>>

\* append(), up to the open() of the file: chain to the cached hash.
BeginAppend(h, content) ==
    /\ phase[h] = "open"
    /\ pending' = [pending EXCEPT ![h] = Chained(content, last_hash[h])]
    /\ phase' = [phase EXCEPT ![h] = "pending"]
    /\ UNCHANGED <<file, terminated, last_hash, history>>

\* A text appended to the file starts a line only if the last one was ended.
WriteText(text) ==
    file' = IF terminated THEN Append(file, text)
                          ELSE [file EXCEPT ![Len(file)] = Garbage]

\* Mutant: the file is opened for writing ("w"), which empties it first.
WriteLineTruncating(h) ==
    /\ phase[h] = "pending"
    /\ writes < MaxRecords
    /\ file' = <<pending[h]>>
    /\ terminated' = TRUE
    /\ phase' = [phase EXCEPT ![h] = "written"]
    /\ written' = written \cup {pending[h]}
    /\ writes' = writes + 1
    /\ UNCHANGED <<last_hash, pending, acked, tampers>>

\* Mutant: the hash is returned before the line is written.
EarlyAckWriteLine(h) ==
    /\ phase[h] = "pending"
    /\ phase' = [phase EXCEPT ![h] = "written"]
    /\ UNCHANGED <<file, terminated, last_hash, pending, history>>

\* append(): the line and its newline reach the file.
WriteLine(h) ==
    /\ phase[h] = "pending"
    /\ writes < MaxRecords
    /\ WriteText(pending[h])
    /\ terminated' = TRUE
    /\ phase' = [phase EXCEPT ![h] = "written"]
    /\ written' = written \cup {pending[h]}
    /\ writes' = writes + 1
    /\ UNCHANGED <<last_hash, pending, acked, tampers>>

\* append(): the cache follows the file and the hash is returned.
EndAppend(h) ==
    /\ phase[h] = "written"
    /\ last_hash' = [last_hash EXCEPT ![h] = pending[h].hash]
    /\ phase' = [phase EXCEPT ![h] = "open"]
    /\ acked' = acked \cup {pending[h]}
    /\ pending' = [pending EXCEPT ![h] = Garbage]
    /\ UNCHANGED <<file, terminated, written, writes, tampers>>

\* The process holding the handle exits or dies between two calls or inside one.
Closed(h) ==
    /\ phase' = [phase EXCEPT ![h] = "closed"]
    /\ pending' = [pending EXCEPT ![h] = Garbage]
    /\ last_hash' = [last_hash EXCEPT ![h] = None]

Crash(h) ==
    /\ \/ phase[h] = "open"
       \/ phase[h] = "pending" /\ "crash_before_write" \in Faults
       \/ phase[h] = "written" /\ "crash_after_write" \in Faults
    /\ Closed(h)
    /\ UNCHANGED <<file, terminated, history>>

\* Some of the line reaches the file and write() does not complete.
Partial(text) ==
    /\ writes < MaxRecords
    /\ WriteText(text)
    /\ terminated' = FALSE
    /\ writes' = writes + 1
    /\ written' = IF text = Garbage THEN written ELSE written \cup {text}
    /\ UNCHANGED <<acked, tampers>>

\* The process dies inside write(): the JSON text is complete but for its
\* newline, or is cut short.
CrashInWrite(h) ==
    /\ phase[h] = "pending"
    /\ \/ "crash_unterminated" \in Faults /\ Partial(pending[h])
       \/ "crash_torn" \in Faults /\ Partial(Garbage)
    /\ Closed(h)

\* write() raises after a part of the line (the disk is full): append() raises,
\* the assignment to _last_hash is never reached and the object stays in use.
ShortWrite(h) ==
    /\ phase[h] = "pending"
    /\ "short_write" \in Faults
    /\ Partial(Garbage)
    /\ phase' = [phase EXCEPT ![h] = "open"]
    /\ pending' = [pending EXCEPT ![h] = Garbage]
    /\ UNCHANGED last_hash

-----------------------------------------------------------------------------
(* The operator: the file is rewritten line by line, as the tests of the   *)
(* log do it, so every line of the result ends in a newline.               *)

Tamper(kind, newFile) ==
    /\ kind \in TamperKinds
    /\ Len(tampers) < MaxTampers
    /\ file' = newFile
    /\ terminated' = TRUE
    /\ tampers' = Append(tampers, kind)
    /\ UNCHANGED <<last_hash, phase, pending, written, acked, writes>>

EditRecord(i, content) ==
    /\ file[i] # Garbage
    /\ content # file[i].content
    /\ Tamper("edit", [file EXCEPT ![i].content = content])

RemoveRecord(i) ==
    /\ i < Len(file)
    /\ Tamper("remove", SubSeq(file, 1, i-1) \o SubSeq(file, i+1, Len(file)))

SwapRecords(i) ==
    /\ i < Len(file)
    /\ file[i] # file[i+1]
    /\ Tamper("swap", [file EXCEPT ![i] = file[i+1], ![i+1] = file[i]])

CopyRecord(i, j) ==
    Tamper("copy", SubSeq(file, 1, j) \o <<file[i]>> \o SubSeq(file, j+1, Len(file)))

TruncateTail(n) ==
    /\ n < Len(file)
    /\ Tamper("truncate", SubSeq(file, 1, n))

-----------------------------------------------------------------------------
AppendStep ==
    \E h \in Handles :
        \/ \E content \in Content : BeginAppend(h, content)
        \/ WriteLine(h)
        \/ EndAppend(h)

Operator ==
    \E i \in DOMAIN file :
        \/ \E content \in Content : EditRecord(i, content)
        \/ RemoveRecord(i)
        \/ SwapRecords(i)
        \/ \E j \in 0..Len(file) : CopyRecord(i, j)
        \/ TruncateTail(i - 1)

Next ==
    \/ \E h \in Handles : OpenLog(h) \/ Crash(h) \/ CrashInWrite(h) \/ ShortWrite(h)
    \/ AppendStep
    \/ Operator

Spec == Init /\ [][Next]_vars

-----------------------------------------------------------------------------
(* Properties.                                                             *)

\* Every line is an entry or garbage, every cache a digest or None.
TypeOK ==
    /\ file \in Seq(Line)
    /\ terminated \in BOOLEAN
    /\ last_hash \in [Handles -> Seq(Content)]
    /\ phase \in [Handles -> {"closed", "open", "pending", "written"}]
    /\ pending \in [Handles -> Line]
    /\ written \subseteq Entry
    /\ acked \subseteq written
    /\ writes \in Nat
    /\ tampers \in Seq({"edit", "remove", "swap", "copy", "truncate"})

\* verify() never calls an untouched log broken: whatever the handles did, and
\* wherever they crashed, a file nobody tampered with walks clean.
NoFalseAlarm == tampers = <<>> => ChainValid

\* An edited record whose hash was not computed anew never verifies: if the chain
\* is valid, every line is byte for byte an entry that some append() wrote.
NoEditSurvives == ChainValid => \A i \in DOMAIN file : file[i] \in written

\* A valid chain pins its own order: the stored hash of line i is the digest of
\* exactly the contents of lines 1 to i, so no reordering, removal inside the
\* log or copy of a line can hide in it.
HashPinsPrefix ==
    ChainValid =>
        \A i \in DOMAIN file :
            file[i].hash = [k \in 1..i |-> file[k].content]

\* One intervention other than cutting the tail is evident for ever: no restart
\* and no later append makes the log verify again.
EvidenceIsPermanent == tampers # <<>> => ~ChainValid

\* A record whose append() returned is on file until somebody removes it.
AckedDurable == tampers = <<>> => \A e \in acked : \E i \in DOMAIN file : file[i] = e

=============================================================================
