------------------------- MODULE DecisionLog_proofs -------------------------
(***************************************************************************)
(* What is proved of the decision log for every set of handles, contents   *)
(* and faults, and every bound.                                            *)
(***************************************************************************)
EXTENDS DecisionLog, SequenceTheorems, WellFoundedInduction, TLAPS

\* A slice of the file is a sequence of lines already in the file.
LEMMA SliceLines ==
    ASSUME NEW f \in Seq(Line), NEW a \in Nat, NEW b \in Nat, a >= 1, b <= Len(f)
    PROVE  /\ SubSeq(f, a, b) \in Seq(Line)
           /\ Range(SubSeq(f, a, b)) \subseteq Range(f)
<1>1. SubSeq(f, a, b) \in Seq(Line)
  OBVIOUS
<1>2. \A i \in DOMAIN SubSeq(f, a, b) :
         SubSeq(f, a, b)[i] = f[a + i - 1] /\ a + i - 1 \in DOMAIN f
  OBVIOUS
<1> QED BY <1>1, <1>2 DEF Range

\* Concatenating two such slices adds no line.
LEMMA ConcatLines ==
    ASSUME NEW f \in Seq(Line), NEW g \in Seq(Line), NEW R,
           Range(f) \subseteq R, Range(g) \subseteq R
    PROVE  f \o g \in Seq(Line) /\ Range(f \o g) \subseteq R
BY RangeConcatenation, ConcatProperties

-----------------------------------------------------------------------------
(* The inductive invariant behind TypeOK and NoEditSurvives: an entry in   *)
(* flight is chained, a written one is recorded, and the link and the hash *)
(* of every line on file, which no edit of a content changes, are those of *)
(* an entry that was written.                                              *)

InFlight == \A h \in Handles :
    /\ phase[h] \in {"pending", "written"} =>
          /\ pending[h] \in Entry
          /\ pending[h].hash = Digest(pending[h].content, pending[h].prev)
    /\ phase[h] = "written" => pending[h] \in written

WrittenChained == \A e \in written : e.hash = Digest(e.content, e.prev)

Traceable(line) ==
    line # Garbage => \E e \in written : e.prev = line.prev /\ e.hash = line.hash

FileTraceable == \A l \in Range(file) : Traceable(l)

LogInv ==
    /\ TypeOK
    /\ ~terminated => file # <<>>
    /\ InFlight
    /\ WrittenChained
    /\ FileTraceable

\* A new file is empty: nothing is in flight and every cache is None.
LEMMA InitLogInv == Init => LogInv
<1> SUFFICES ASSUME Init PROVE LogInv
  OBVIOUS
<1> USE DEF Init
<1>1. TypeOK BY DEF TypeOK, Line, None
<1>2. InFlight BY DEF InFlight
<1>3. WrittenChained BY DEF WrittenChained
<1>4. FileTraceable BY DEF FileTraceable, Range
<1> QED BY <1>1, <1>2, <1>3, <1>4 DEF LogInv

\* A text written to the file leaves the other lines, and adds itself or garbage.
LEMMA WriteTextLines ==
    ASSUME LogInv, NEW text \in Line, WriteText(text)
    PROVE  /\ file' \in Seq(Line)
           /\ file' # <<>>
           /\ Range(file') \subseteq Range(file) \cup {text, Garbage}
<1> USE DEF Range
<1>0. file \in Seq(Line) /\ terminated \in BOOLEAN /\ (~terminated => file # <<>>)
  BY DEF LogInv, TypeOK
<1>1. CASE terminated
  <2>1. file' = Append(file, text) BY <1>1 DEF WriteText
  <2> QED BY <1>0, <2>1
<1>2. CASE ~terminated
  <2>1. file' = [file EXCEPT ![Len(file)] = Garbage] BY <1>2 DEF WriteText
  <2>2. Garbage \in Line BY DEF Line
  <2>3. Len(file) \in 1..Len(file) BY <1>0, <1>2
  <2>4. /\ file' \in Seq(Line)
        /\ Len(file') = Len(file)
        /\ \A j \in 1..Len(file) : file'[j] = IF j = Len(file) THEN Garbage ELSE file[j]
    BY <1>0, <2>1, <2>2, <2>3, ExceptSeq
  <2> QED BY <1>0, <2>3, <2>4
<1> QED BY <1>1, <1>2

\* The operator keeps the lines he has, but for the content of an edited one.
LEMMA OperatorLines ==
    ASSUME LogInv, Operator
    PROVE  /\ file' \in Seq(Line)
           /\ \A l \in Range(file') :
                 l = Garbage \/ (\E m \in Range(file) : m # Garbage /\ l.prev = m.prev /\ l.hash = m.hash)
<1>0. file \in Seq(Line)
  BY DEF LogInv, TypeOK
<1>1. PICK i \in DOMAIN file :
        \/ \E content \in Content : EditRecord(i, content)
        \/ RemoveRecord(i)
        \/ SwapRecords(i)
        \/ \E j \in 0..Len(file) : CopyRecord(i, j)
        \/ TruncateTail(i - 1)
  BY DEF Operator
<1>2. i \in 1..Len(file) /\ i \in Nat /\ Len(file) \in Nat
  BY <1>0
<1>3. ASSUME file' \in Seq(Line), Range(file') \subseteq Range(file)
      PROVE  \A l \in Range(file') :
                 l = Garbage \/ (\E m \in Range(file) : m # Garbage /\ l.prev = m.prev /\ l.hash = m.hash)
  BY <1>3
<1>4. ASSUME NEW content \in Content, EditRecord(i, content)
      PROVE  /\ file' \in Seq(Line)
             /\ \A l \in Range(file') :
                 l = Garbage \/ (\E m \in Range(file) : m # Garbage /\ l.prev = m.prev /\ l.hash = m.hash)
  <2> DEFINE edited == [file[i] EXCEPT !.content = content]
  <2>1. file[i] # Garbage /\ file' = [file EXCEPT ![i] = edited]
    BY <1>4 DEF EditRecord, Tamper
  <2>2. file[i] \in Entry
    BY <1>0, <1>2, <2>1 DEF Line
  <2>3. edited \in Entry /\ edited.prev = file[i].prev /\ edited.hash = file[i].hash
    BY <2>2 DEF Entry
  <2> HIDE DEF edited
  <2>4. edited \in Line BY <2>3 DEF Line
  <2>5. /\ file' \in Seq(Line)
        /\ Len(file') = Len(file)
        /\ \A j \in 1..Len(file) : file'[j] = IF j = i THEN edited ELSE file[j]
    BY <1>0, <1>2, <2>1, <2>4, ExceptSeq
  <2>6. ASSUME NEW l \in Range(file'), l # Garbage
        PROVE  \E m \in Range(file) : m # Garbage /\ l.prev = m.prev /\ l.hash = m.hash
    <3>1. PICK j \in 1..Len(file) : l = file'[j]
      BY <2>5, <2>6 DEF Range
    <3>2. CASE j = i
      BY <1>0, <1>2, <2>1, <2>3, <2>5, <3>1, <3>2 DEF Range
    <3>3. CASE j # i
      BY <1>0, <2>5, <2>6, <3>1, <3>3 DEF Range
    <3> QED BY <3>2, <3>3
  <2> QED BY <2>5, <2>6
<1>5. CASE RemoveRecord(i)
  <2>1. /\ i < Len(file)
        /\ file' = SubSeq(file, 1, i-1) \o SubSeq(file, i+1, Len(file))
    BY <1>5 DEF RemoveRecord, Tamper
  <2>2. /\ SubSeq(file, 1, i-1) \in Seq(Line)
        /\ Range(SubSeq(file, 1, i-1)) \subseteq Range(file)
    BY <1>0, <1>2, SliceLines
  <2>3. /\ SubSeq(file, i+1, Len(file)) \in Seq(Line)
        /\ Range(SubSeq(file, i+1, Len(file))) \subseteq Range(file)
    BY <1>0, <1>2, SliceLines
  <2>4. file' \in Seq(Line) /\ Range(file') \subseteq Range(file)
    BY <2>1, <2>2, <2>3, ConcatLines
  <2> QED BY <1>3, <2>4
<1>6. CASE SwapRecords(i)
  <2>1. i < Len(file) /\ file' = [file EXCEPT ![i] = file[i+1], ![i+1] = file[i]]
    BY <1>6 DEF SwapRecords, Tamper
  <2>2. file[i] \in Line /\ file[i+1] \in Line /\ i+1 \in 1..Len(file)
    BY <1>0, <1>2, <2>1
  <2> DEFINE half == [file EXCEPT ![i] = file[i+1]]
  <2>3. /\ half \in Seq(Line)
        /\ Len(half) = Len(file)
        /\ \A j \in 1..Len(file) : half[j] = IF j = i THEN file[i+1] ELSE file[j]
    BY <1>0, <1>2, <2>2, ExceptSeq
  <2>4. file' = [half EXCEPT ![i+1] = file[i]]
    BY <2>1
  <2> HIDE DEF half
  <2>5. /\ file' \in Seq(Line)
        /\ Len(file') = Len(file)
        /\ \A j \in 1..Len(file) : file'[j] = IF j = i+1 THEN file[i] ELSE half[j]
    BY <2>2, <2>3, <2>4, ExceptSeq
  <2>6. Range(file') \subseteq Range(file)
    BY <1>0, <1>2, <2>2, <2>3, <2>5 DEF Range
  <2> QED BY <1>3, <2>5, <2>6
<1>7. ASSUME NEW j \in 0..Len(file), CopyRecord(i, j)
      PROVE  file' \in Seq(Line) /\ Range(file') \subseteq Range(file)
  <2>1. file' = SubSeq(file, 1, j) \o <<file[i]>> \o SubSeq(file, j+1, Len(file))
    BY <1>7 DEF CopyRecord, Tamper
  <2>2. /\ SubSeq(file, 1, j) \in Seq(Line)
        /\ Range(SubSeq(file, 1, j)) \subseteq Range(file)
    BY <1>0, <1>2, SliceLines
  <2>3. /\ SubSeq(file, j+1, Len(file)) \in Seq(Line)
        /\ Range(SubSeq(file, j+1, Len(file))) \subseteq Range(file)
    BY <1>0, <1>2, SliceLines
  <2>4. <<file[i]>> \in Seq(Line) /\ Range(<<file[i]>>) \subseteq Range(file)
    BY <1>0, <1>2 DEF Range
  <2>5. /\ SubSeq(file, 1, j) \o <<file[i]>> \in Seq(Line)
        /\ Range(SubSeq(file, 1, j) \o <<file[i]>>) \subseteq Range(file)
    BY <2>2, <2>4, ConcatLines
  <2> QED BY <2>1, <2>3, <2>5, ConcatLines
<1>8. CASE TruncateTail(i - 1)
  <2>1. file' = SubSeq(file, 1, i - 1)
    BY <1>8 DEF TruncateTail, Tamper
  <2>2. file' \in Seq(Line) /\ Range(file') \subseteq Range(file)
    BY <1>0, <1>2, <2>1, SliceLines
  <2> QED BY <1>3, <2>2
<1> QED BY <1>1, <1>3, <1>4, <1>5, <1>6, <1>7, <1>8

\* A step of the code or of the operator preserves the invariant.
LEMMA NextLogInv == LogInv /\ [Next]_vars => LogInv'
<1> SUFFICES ASSUME LogInv, [Next]_vars PROVE LogInv'
  OBVIOUS
<1> USE DEF LogInv
<1>1. ASSUME NEW h \in Handles, OpenLog(h) PROVE LogInv'
  <2> USE <1>1 DEF OpenLog, history
  <2>1. TailHash \in Seq(Content)
    <3>1. CASE file = <<>> BY <3>1 DEF TailHash, None
    <3>2. CASE file # <<>>
      <4>1. file \in Seq(Line) /\ Len(file) \in DOMAIN file BY <3>2 DEF TypeOK
      <4>2. file[Len(file)] \in Entry BY <4>1 DEF Readable, Line
      <4> QED BY <3>2, <4>2 DEF TailHash, Entry
    <3> QED BY <3>1, <3>2
  <2>2. TypeOK' BY <2>1 DEF TypeOK
  <2>3. InFlight' BY DEF InFlight, TypeOK
  <2>4. WrittenChained' /\ FileTraceable' BY DEF WrittenChained, FileTraceable, Traceable
  <2> QED BY <2>2, <2>3, <2>4
<1>2. ASSUME NEW h \in Handles, NEW content \in Content, BeginAppend(h, content) PROVE LogInv'
  <2> USE <1>2 DEF BeginAppend, history
  <2>1. /\ Chained(content, last_hash[h]) \in Entry
        /\ Chained(content, last_hash[h]).hash =
             Digest(Chained(content, last_hash[h]).content, Chained(content, last_hash[h]).prev)
    BY DEF Chained, Entry, Digest, TypeOK
  <2>2. TypeOK' BY <2>1 DEF TypeOK, Line
  <2>3. InFlight' BY <2>1 DEF InFlight, TypeOK
  <2>4. WrittenChained' /\ FileTraceable' BY DEF WrittenChained, FileTraceable, Traceable
  <2> QED BY <2>2, <2>3, <2>4
<1>3. ASSUME NEW h \in Handles, WriteLine(h) PROVE LogInv'
  <2> USE <1>3 DEF WriteLine
  <2>1. pending[h] \in Entry /\ pending[h] \in Line
    BY DEF InFlight, Line
  <2>2. /\ file' \in Seq(Line)
        /\ file' # <<>>
        /\ Range(file') \subseteq Range(file) \cup {pending[h], Garbage}
    BY <2>1, WriteTextLines
  <2>3. TypeOK' BY <2>1, <2>2 DEF TypeOK
  <2>4. InFlight' BY DEF InFlight, TypeOK
  <2>5. WrittenChained' BY DEF WrittenChained, InFlight
  <2>6. FileTraceable' BY <2>2 DEF FileTraceable, Traceable
  <2> QED BY <2>3, <2>4, <2>5, <2>6
<1>4. ASSUME NEW h \in Handles, EndAppend(h) PROVE LogInv'
  <2> USE <1>4 DEF EndAppend
  <2>1. pending[h] \in Entry /\ pending[h] \in written
    BY DEF InFlight
  <2>2. TypeOK' BY <2>1 DEF TypeOK, Entry, Line
  <2>3. InFlight' BY DEF InFlight, TypeOK
  <2>4. WrittenChained' /\ FileTraceable' BY DEF WrittenChained, FileTraceable, Traceable
  <2> QED BY <2>2, <2>3, <2>4
<1>5. ASSUME NEW h \in Handles, Crash(h) PROVE LogInv'
  <2> USE <1>5 DEF Crash, Closed, history
  <2>1. TypeOK' BY DEF TypeOK, Line, None
  <2>2. InFlight' BY DEF InFlight, TypeOK
  <2>3. WrittenChained' /\ FileTraceable' BY DEF WrittenChained, FileTraceable, Traceable
  <2> QED BY <2>1, <2>2, <2>3
<1>6. ASSUME NEW text \in Line, Partial(text),
             text # Garbage => text \in Entry /\ text.hash = Digest(text.content, text.prev)
      PROVE  /\ file' \in Seq(Line) /\ file' # <<>>
             /\ written' \subseteq Entry /\ written \subseteq written'
             /\ WrittenChained' /\ FileTraceable'
  <2>1. /\ file' \in Seq(Line)
        /\ file' # <<>>
        /\ Range(file') \subseteq Range(file) \cup {text, Garbage}
    BY <1>6, WriteTextLines DEF Partial
  <2>2. written' = IF text = Garbage THEN written ELSE written \cup {text}
    BY <1>6 DEF Partial
  <2>3. written' \subseteq Entry /\ written \subseteq written' BY <1>6, <2>2 DEF TypeOK
  <2>4. WrittenChained' BY <1>6, <2>2 DEF WrittenChained
  <2>5. FileTraceable' BY <1>6, <2>1, <2>2 DEF FileTraceable, Traceable
  <2> QED BY <2>1, <2>3, <2>4, <2>5
<1>7. ASSUME NEW h \in Handles, CrashInWrite(h) PROVE LogInv'
  <2>1. Garbage \in Line /\ pending[h] \in Line /\ (pending[h] # Garbage => pending[h] \in Entry)
    BY DEF TypeOK, Line
  <2>2. PICK text \in Line :
           /\ Partial(text)
           /\ text # Garbage => text \in Entry /\ text.hash = Digest(text.content, text.prev)
    BY <1>7, <2>1 DEF CrashInWrite, InFlight
  <2>3. /\ file' \in Seq(Line) /\ file' # <<>>
        /\ written' \subseteq Entry /\ written \subseteq written'
        /\ WrittenChained' /\ FileTraceable'
    BY <1>6, <2>2
  <2>4. terminated' = FALSE /\ writes' = writes + 1 /\ UNCHANGED <<acked, tampers>>
    BY <2>2 DEF Partial
  <2>5. /\ phase' = [phase EXCEPT ![h] = "closed"]
        /\ pending' = [pending EXCEPT ![h] = Garbage]
        /\ last_hash' = [last_hash EXCEPT ![h] = None]
        /\ None \in Seq(Content)
    BY <1>7 DEF CrashInWrite, Closed, None
  <2>6. TypeOK'
    <3>1. terminated' \in BOOLEAN BY <2>4
    <3>2. acked' \subseteq written' BY <2>3, <2>4 DEF TypeOK
    <3>3. writes' \in Nat /\ tampers' = tampers BY <2>4 DEF TypeOK
    <3> QED BY <2>1, <2>3, <2>5, <3>1, <3>2, <3>3 DEF TypeOK
  <2>7. InFlight' BY <2>3, <2>5 DEF InFlight, TypeOK
  <2> QED BY <2>3, <2>6, <2>7
<1>8. ASSUME NEW h \in Handles, ShortWrite(h) PROVE LogInv'
  <2>1. Garbage \in Line BY DEF Line
  <2>2. /\ file' \in Seq(Line) /\ file' # <<>>
        /\ written' \subseteq Entry /\ written \subseteq written'
        /\ WrittenChained' /\ FileTraceable'
    BY <1>6, <1>8, <2>1 DEF ShortWrite
  <2>3. terminated' = FALSE /\ writes' = writes + 1 /\ UNCHANGED <<acked, tampers>>
    BY <1>8 DEF ShortWrite, Partial
  <2>4. /\ phase' = [phase EXCEPT ![h] = "open"]
        /\ pending' = [pending EXCEPT ![h] = Garbage]
        /\ last_hash' = last_hash
    BY <1>8 DEF ShortWrite
  <2>5. TypeOK'
    <3>1. terminated' \in BOOLEAN BY <2>3
    <3>2. acked' \subseteq written' BY <2>2, <2>3 DEF TypeOK
    <3>3. writes' \in Nat /\ tampers' = tampers BY <2>3 DEF TypeOK
    <3> QED BY <2>1, <2>2, <2>4, <3>1, <3>2, <3>3 DEF TypeOK
  <2>6. InFlight' BY <2>2, <2>4 DEF InFlight, TypeOK
  <2> QED BY <2>2, <2>5, <2>6
<1>9. ASSUME Operator PROVE LogInv'
  <2>1. /\ file' \in Seq(Line)
        /\ \A l \in Range(file') :
              l = Garbage \/ (\E m \in Range(file) : m # Garbage /\ l.prev = m.prev /\ l.hash = m.hash)
    BY <1>9, OperatorLines
  <2>2. PICK kind, newFile : Tamper(kind, newFile)
    BY <1>9 DEF Operator, EditRecord, RemoveRecord, SwapRecords, CopyRecord, TruncateTail
  <2> USE <2>2 DEF Tamper
  <2>3. TypeOK' BY <2>1, TamperKindsAssumption DEF TypeOK
  <2>4. InFlight' BY DEF InFlight
  <2>5. WrittenChained' BY DEF WrittenChained
  <2>6. FileTraceable' BY <2>1 DEF FileTraceable, Traceable
  <2> QED BY <2>3, <2>4, <2>5, <2>6
<1>10. CASE UNCHANGED vars
  BY <1>10 DEF vars, TypeOK, InFlight, WrittenChained, FileTraceable, Traceable
<1> QED
  BY <1>1, <1>2, <1>3, <1>4, <1>5, <1>7, <1>8, <1>9, <1>10 DEF Next, AppendStep

\* The variables keep their types in every reachable state, whatever the number
\* of handles, the faults and the interventions.
THEOREM TypeCorrect == Spec => []TypeOK
<1>1. LogInv => TypeOK BY DEF LogInv
<1> QED BY InitLogInv, NextLogInv, <1>1, PTL DEF Spec

\* If a line passes the content check of verify(), it is an entry that was written:
\* the digest is injective, so the content is the one that was hashed.
LEMMA GenuineLine ==
    ASSUME LogInv, ChainValid, NEW i \in DOMAIN file
    PROVE  file[i] \in written
<1>1. file[i] \in Entry /\ file[i] \in Range(file) /\ file[i] # Garbage
  BY DEF LogInv, TypeOK, ChainValid, Readable, Line, Range
<1>2. PICK e \in written : e.prev = file[i].prev /\ e.hash = file[i].hash
  BY <1>1 DEF LogInv, FileTraceable, Traceable
<1>3. e \in Entry /\ e.hash = Append(e.prev, e.content)
  BY <1>2 DEF LogInv, TypeOK, WrittenChained, Digest
<1>4. file[i].hash = Append(file[i].prev, file[i].content)
  BY DEF ChainValid, ContentOK, Digest
<1>5. /\ e.content \in Content /\ file[i].content \in Content
      /\ file[i].prev \in Seq(Content)
      /\ Append(file[i].prev, e.content) = Append(file[i].prev, file[i].content)
  BY <1>1, <1>2, <1>3, <1>4 DEF Entry
<1>6. e.content = file[i].content
  BY <1>5, AppendInjective
<1>7. \A r \in Entry : r = [content |-> r.content, prev |-> r.prev, hash |-> r.hash]
  BY DEF Entry
<1>8. e = file[i]
  BY <1>1, <1>2, <1>3, <1>6, <1>7
<1> QED BY <1>8

\* No edit of the log survives verify(): with any number of handles, any faults
\* and any interventions that compute no hash anew, a chain that verifies holds only lines that some
\* append() wrote, unaltered.
THEOREM EditsAreEvident == Spec => []NoEditSurvives
<1>1. LogInv => NoEditSurvives BY GenuineLine DEF NoEditSurvives
<1> QED BY InitLogInv, NextLogInv, <1>1, PTL DEF Spec

-----------------------------------------------------------------------------
(* One handle and whole-line writes: the cache agrees with the file.       *)

OneHandle == \A g, h \in Handles : g = h
WholeLines == Faults \subseteq {"crash_before_write", "crash_after_write"}

CacheCurrent == \A h \in Handles :
    /\ phase[h] \in {"open", "pending"} => last_hash[h] = TailHash
    /\ phase[h] = "pending" => pending[h].prev = last_hash[h]
    /\ phase[h] = "written" => file # <<>> /\ file[Len(file)] = pending[h]

OnFile == \A e \in written : e \in Range(file)

CleanInv ==
    tampers = <<>> => /\ terminated = TRUE
                      /\ ChainValid
                      /\ CacheCurrent
                      /\ OnFile

\* A line chained to the hash of the last line extends a valid chain.
LEMMA ExtendChain ==
    ASSUME LogInv, ChainValid, NEW e \in Entry,
           e.prev = TailHash, e.hash = Digest(e.content, e.prev),
           file' = Append(file, e)
    PROVE  /\ ChainValid'
           /\ file' # <<>> /\ file'[Len(file')] = e
           /\ Range(file) \subseteq Range(file') /\ e \in Range(file')
<1>1. file \in Seq(Line) /\ e \in Line
  BY DEF LogInv, TypeOK, Line
<1>2. /\ Len(file') = Len(file) + 1
      /\ DOMAIN file = 1..Len(file)
      /\ DOMAIN file' = 1..(Len(file) + 1)
      /\ \A i \in 1..Len(file) : file'[i] = file[i]
      /\ file'[Len(file) + 1] = e
      /\ Len(file) \in Nat
  BY <1>1, AppendProperties
<1>3. ASSUME NEW i \in DOMAIN file'
      PROVE  file'[i] # Garbage /\ LinkOK(i)' /\ ContentOK(i)'
  <2>1. CASE i \in 1..Len(file)
    <3>1. file[i] # Garbage /\ LinkOK(i) /\ ContentOK(i)
      BY <1>2, <2>1 DEF ChainValid, Readable
    <3>2. file'[i] = file[i] /\ (i # 1 => file'[i-1] = file[i-1])
      BY <1>2, <2>1
    <3> QED BY <3>1, <3>2 DEF LinkOK, ContentOK, Expected, Digest, None
  <2>2. CASE i = Len(file) + 1
    <3>1. file'[i] = e /\ e # Garbage
      BY <1>2, <2>2, GarbageAssumption
    <3>2. CASE Len(file) = 0
      <4>1. TailHash = None /\ i = 1
        BY <1>1, <2>2, <3>2 DEF TailHash
      <4> QED BY <3>1, <4>1 DEF LinkOK, ContentOK, Expected, Digest, None
    <3>3. CASE Len(file) # 0
      <4>1. file # <<>>
        BY <1>1, <3>3
      <4>2. i - 1 = Len(file) /\ i # 1 /\ Len(file) \in 1..Len(file)
        BY <1>2, <2>2, <3>3
      <4>3. file'[i - 1] = file[Len(file)]
        BY <1>2, <4>2
      <4>4. TailHash = file'[i-1].hash
        BY <4>1, <4>3 DEF TailHash
      <4> QED BY <3>1, <4>2, <4>4 DEF LinkOK, ContentOK, Expected, Digest, None
    <3> QED BY <3>2, <3>3
  <2> QED BY <1>2, <2>1, <2>2
<1>4. ChainValid'
  BY <1>3 DEF ChainValid, Readable
<1> QED BY <1>1, <1>2, <1>4 DEF Range

\* Under one handle and whole-line writes a step keeps the cache on the tail.
LEMMA NextCleanInv ==
    ASSUME OneHandle, WholeLines
    PROVE  LogInv /\ CleanInv /\ [Next]_vars => CleanInv'
<1> SUFFICES ASSUME LogInv, CleanInv, [Next]_vars, tampers' = <<>>
             PROVE  (terminated = TRUE)' /\ ChainValid' /\ CacheCurrent' /\ OnFile'
  BY DEF CleanInv
<1>1. tampers \in Seq({"edit", "remove", "swap", "copy", "truncate"})
  BY DEF LogInv, TypeOK
<1>2. ~Operator
  <2>1. SUFFICES ASSUME Operator PROVE FALSE
    OBVIOUS
  <2>2. PICK kind \in TamperKinds : tampers' = Append(tampers, kind)
    BY <2>1 DEF Operator, EditRecord, RemoveRecord, SwapRecords, CopyRecord, TruncateTail, Tamper
  <2> QED BY <1>1, <2>2, TamperKindsAssumption, AppendProperties
<1>3. tampers = <<>>
  BY <1>2 DEF Next, AppendStep, OpenLog, Crash, CrashInWrite, ShortWrite, BeginAppend,
              WriteLine, EndAppend, Partial, history, vars
<1>4. terminated = TRUE /\ ChainValid /\ CacheCurrent /\ OnFile
  BY <1>3 DEF CleanInv
<1>5. ASSUME UNCHANGED <<file, terminated, written>> PROVE (terminated = TRUE)' /\ ChainValid' /\ OnFile'
  BY <1>4, <1>5 DEF ChainValid, Readable, LinkOK, ContentOK, Expected, OnFile
<1>6. ASSUME NEW h \in Handles, OpenLog(h) PROVE (terminated = TRUE)' /\ ChainValid' /\ CacheCurrent' /\ OnFile'
  <2>1. CacheCurrent'
    BY <1>4, <1>6, OneHandle DEF OpenLog, CacheCurrent, OneHandle, TailHash, LogInv, TypeOK
  <2> QED BY <1>5, <1>6, <2>1 DEF OpenLog, history
<1>7. ASSUME NEW h \in Handles, NEW content \in Content, BeginAppend(h, content)
      PROVE  (terminated = TRUE)' /\ ChainValid' /\ CacheCurrent' /\ OnFile'
  <2>1. CacheCurrent'
    BY <1>4, <1>7, OneHandle
    DEF BeginAppend, Chained, CacheCurrent, OneHandle, TailHash, LogInv, TypeOK
  <2> QED BY <1>5, <1>7, <2>1 DEF BeginAppend, history
<1>8. ASSUME NEW h \in Handles, WriteLine(h) PROVE (terminated = TRUE)' /\ ChainValid' /\ CacheCurrent' /\ OnFile'
  <2>1. /\ pending[h] \in Entry
        /\ pending[h].hash = Digest(pending[h].content, pending[h].prev)
        /\ pending[h].prev = TailHash
    BY <1>4, <1>8 DEF WriteLine, LogInv, InFlight, CacheCurrent
  <2>2. file' = Append(file, pending[h])
    BY <1>4, <1>8 DEF WriteLine, WriteText
  <2>3. /\ ChainValid'
        /\ file' # <<>> /\ file'[Len(file')] = pending[h]
        /\ Range(file) \subseteq Range(file') /\ pending[h] \in Range(file')
    BY <1>4, <2>1, <2>2, ExtendChain
  <2>4. CacheCurrent'
    BY <1>8, <2>3, OneHandle DEF WriteLine, CacheCurrent, OneHandle, LogInv, TypeOK
  <2>5. OnFile'
    BY <1>4, <1>8, <2>3 DEF WriteLine, OnFile
  <2>6. (terminated = TRUE)'
    BY <1>8 DEF WriteLine
  <2> QED BY <2>3, <2>4, <2>5, <2>6
<1>9. ASSUME NEW h \in Handles, EndAppend(h) PROVE (terminated = TRUE)' /\ ChainValid' /\ CacheCurrent' /\ OnFile'
  <2>1. CacheCurrent'
    BY <1>4, <1>9, OneHandle DEF EndAppend, CacheCurrent, OneHandle, TailHash, LogInv, TypeOK
  <2> QED BY <1>5, <1>9, <2>1 DEF EndAppend
<1>10. ASSUME NEW h \in Handles, Crash(h) PROVE (terminated = TRUE)' /\ ChainValid' /\ CacheCurrent' /\ OnFile'
  <2>1. CacheCurrent'
    BY <1>4, <1>10, OneHandle DEF Crash, Closed, CacheCurrent, OneHandle, LogInv, TypeOK
  <2> QED BY <1>5, <1>10, <2>1 DEF Crash, history
<1>11. ASSUME NEW h \in Handles PROVE ~CrashInWrite(h) /\ ~ShortWrite(h)
  BY WholeLines DEF WholeLines, CrashInWrite, ShortWrite
<1>12. CASE UNCHANGED vars
  <2>1. CacheCurrent'
    BY <1>4, <1>12 DEF vars, CacheCurrent, TailHash
  <2> QED BY <1>5, <1>12, <2>1 DEF vars
<1> QED BY <1>2, <1>6, <1>7, <1>8, <1>9, <1>10, <1>11, <1>12 DEF Next, AppendStep

\* With one handle and whole-line writes, across any crashes and restarts, a log
\* nobody tampered with verifies: verify() raises no false alarm.
THEOREM ChainSurvivesRestart ==
    ASSUME OneHandle, WholeLines
    PROVE  Spec => []NoFalseAlarm
<1>1. Init => CleanInv
  BY DEF Init, CleanInv, ChainValid, Readable, CacheCurrent, OnFile
<1>2. CleanInv => NoFalseAlarm
  BY DEF CleanInv, NoFalseAlarm
<1> QED BY <1>1, <1>2, InitLogInv, NextLogInv, NextCleanInv, PTL DEF Spec

\* Under the same conditions a record whose append() returned is on file.
THEOREM AckedRecordsAreOnFile ==
    ASSUME OneHandle, WholeLines
    PROVE  Spec => []AckedDurable
<1>1. Init => CleanInv
  BY DEF Init, CleanInv, ChainValid, Readable, CacheCurrent, OnFile
<1>2. LogInv /\ CleanInv => AckedDurable
  BY DEF LogInv, TypeOK, CleanInv, OnFile, Range, AckedDurable
<1> QED BY <1>1, <1>2, InitLogInv, NextLogInv, NextCleanInv, PTL DEF Spec

-----------------------------------------------------------------------------
(* A valid chain pins its own order.                                       *)

\* What verify() accepts: entries, each linked to the one before and hashed over
\* its link and its content.
Chain(f) ==
    /\ f \in Seq(Entry)
    /\ \A i \in DOMAIN f : /\ f[i].prev = IF i = 1 THEN <<>> ELSE f[i-1].hash
                          /\ f[i].hash = Append(f[i].prev, f[i].content)

LEMMA ValidFileIsChain ==
    TypeOK /\ ChainValid => Chain(file)
BY DEF TypeOK, ChainValid, Readable, Line, LinkOK, ContentOK, Digest, Expected, None, Chain

\* Line by line: the digest of line i is that of line i - 1 with one content more.
LEMMA HashIsPrefix ==
    ASSUME NEW f, Chain(f)
    PROVE  \A i \in DOMAIN f : f[i].hash = [k \in 1..i |-> f[k].content]
<1> DEFINE Contents(i) == [k \in 1..i |-> f[k].content]
           B == {i \in DOMAIN f : f[i].hash # Contents(i)}
<1> SUFFICES ASSUME B # {} PROVE FALSE
  OBVIOUS
<1>1. f \in Seq(Entry) /\ DOMAIN f = 1..Len(f) /\ Len(f) \in Nat
  BY DEF Chain
<1>2. PICK m \in B : \A n \in B : ~(n < m)
  <2>1. B \subseteq Nat
    BY <1>1
  <2> HIDE DEF B
  <2>2. PICK m \in B : \A n \in B : ~(<<n, m>> \in OpToRel(<, Nat))
    BY <2>1, NatLessThanWellFounded, WFMin
  <2> QED BY <2>1, <2>2 DEF OpToRel
<1>3. m \in 1..Len(f) /\ f[m].hash # Contents(m)
  BY <1>1, <1>2
<1>4. /\ f[m] \in Entry
      /\ f[m].prev = IF m = 1 THEN <<>> ELSE f[m-1].hash
      /\ f[m].hash = Append(f[m].prev, f[m].content)
  BY <1>1, <1>3 DEF Chain
<1>5. CASE m = 1
  <2>1. Append(<<>>, f[1].content) = [k \in 1..1 |-> f[k].content]
    OBVIOUS
  <2> QED BY <1>3, <1>4, <1>5, <2>1
<1>6. CASE m # 1
  <2>1. m - 1 \in 1..Len(f) /\ m - 1 \notin B
    <3>1. m - 1 \in 1..Len(f) /\ m - 1 < m
      BY <1>1, <1>3, <1>6
    <3>2. m - 1 \notin B
      <4> HIDE DEF B
      <4> QED BY <1>2, <3>1
    <3> QED BY <3>1, <3>2
  <2>2. f[m].prev = Contents(m - 1)
    BY <1>1, <1>4, <1>6, <2>1
  <2>0. \A k \in 1..m : k \in 1..Len(f)
    BY <1>1, <1>3
  <2>3. ASSUME NEW k \in 1..m
        PROVE  f[k] \in Entry /\ f[k].content \in Content
    <3>1. f[k] \in Entry
      BY <1>1, <2>0
    <3> QED BY <3>1 DEF Entry
  <2>4. Contents(m - 1) \in Seq(Content) /\ Len(Contents(m - 1)) = m - 1
    BY <1>3, <1>4, <1>6, <2>2, <2>3 DEF Entry
  <2>5. Append(Contents(m - 1), f[m].content) = Contents(m)
    BY <1>3, <1>6, <2>3, <2>4
  <2> QED BY <1>3, <1>4, <2>2, <2>5
<1> QED
  BY <1>5, <1>6

\* The stored hash of line i of a valid chain is the digest of exactly the
\* contents of lines 1 to i.
THEOREM HashesPinPrefixes == Spec => []HashPinsPrefix
<1>1. TypeOK => HashPinsPrefix
  BY ValidFileIsChain, HashIsPrefix DEF HashPinsPrefix
<1> QED BY <1>1, TypeCorrect, PTL

\* In a chain a hash tells the place of its line: no line of one chain stands at
\* another place of another chain.
LEMMA HashTellsPlace ==
    ASSUME NEW f, NEW g, Chain(f), Chain(g), NEW k \in DOMAIN f, NEW l \in DOMAIN g, f[k] = g[l]
    PROVE  k = l
<1>1. f[k].hash = [n \in 1..k |-> f[n].content] /\ g[l].hash = [n \in 1..l |-> g[n].content]
  BY HashIsPrefix
<1>2. 1..k = 1..l
  BY <1>1
<1>3. k \in Nat \ {0} /\ l \in Nat \ {0}
  BY DEF Chain
<1> QED BY <1>2, <1>3

-----------------------------------------------------------------------------
(* Tampering leaves a mark that no append removes.                         *)

NoTruncation == "truncate" \notin TamperKinds

\* A break in the chain stays where it is: later lines come after it.
LEMMA BreakStays ==
    ASSUME LogInv, ~ChainValid, NEW text \in Line, WriteText(text)
    PROVE  ~ChainValid'
<1>0. /\ file \in Seq(Line) /\ terminated \in BOOLEAN /\ (~terminated => file # <<>>)
      /\ DOMAIN file = 1..Len(file) /\ Len(file) \in Nat
  BY DEF LogInv, TypeOK
<1>1. CASE ~terminated
  <2>1. file' = [file EXCEPT ![Len(file)] = Garbage] /\ Len(file) \in DOMAIN file
    BY <1>0, <1>1 DEF WriteText
  <2> QED BY <1>0, <2>1 DEF ChainValid, Readable
<1>2. CASE terminated
  <2>1. file' = Append(file, text)
    BY <1>2 DEF WriteText
  <2>2. \A i \in DOMAIN file : i \in DOMAIN file' /\ file'[i] = file[i]
    BY <1>0, <2>1
  <2>3. PICK i \in DOMAIN file : file[i] = Garbage \/ ~(LinkOK(i) /\ ContentOK(i))
    BY DEF ChainValid, Readable
  <2>4. i # 1 => i - 1 \in DOMAIN file
    BY <1>0
  <2>5. ~(file'[i] # Garbage /\ LinkOK(i)' /\ ContentOK(i)')
    BY <2>2, <2>3, <2>4 DEF LinkOK, ContentOK, Expected, None, Digest
  <2> QED BY <2>2, <2>5 DEF ChainValid, Readable
<1> QED
  BY <1>0, <1>1, <1>2

\* What stands where after a line is removed or copied.
LEMMA RemovedLine ==
    ASSUME NEW f \in Seq(Entry), NEW i \in 1..Len(f), i < Len(f),
           NEW g, g = SubSeq(f, 1, i-1) \o SubSeq(f, i+1, Len(f))
    PROVE  i \in DOMAIN g /\ g[i] = f[i+1]
<1> DEFINE x == SubSeq(f, 1, i-1)
           y == SubSeq(f, i+1, Len(f))
<1>1. x \in Seq(Entry) /\ Len(x) = i - 1
  BY SubSeqProperties
<1>2. y \in Seq(Entry) /\ Len(y) = Len(f) - i /\ y[1] = f[i+1]
  BY SubSeqProperties
<1> HIDE DEF x, y
<1>3. (x \o y) \in Seq(Entry) /\ Len(x \o y) = Len(f) - 1 /\ (x \o y)[i] = y[1]
  <2>1. /\ (x \o y) \in Seq(Entry) /\ Len(x \o y) = Len(x) + Len(y)
        /\ \A k \in 1..Len(x) + Len(y) :
              (x \o y)[k] = IF k <= Len(x) THEN x[k] ELSE y[k - Len(x)]
    BY <1>1, <1>2, ConcatProperties
  <2>2. Len(f) \in Nat /\ i \in 1..Len(f) /\ i < Len(f)
    OBVIOUS
  <2>3. i \in 1..Len(x) + Len(y) /\ ~(i <= Len(x)) /\ i - Len(x) = 1 /\ Len(x) + Len(y) = Len(f) - 1
    BY ONLY <1>1, <1>2, <2>2
  <2> QED BY ONLY <2>1, <2>3
<1>4. g = x \o y
  BY DEF x, y
<1>5. DOMAIN (x \o y) = 1..Len(f) - 1
  BY ONLY <1>3
<1>6. i \in 1..Len(f) - 1
  OBVIOUS
<1> QED
  BY ONLY <1>2, <1>3, <1>4, <1>5, <1>6

LEMMA CopiedLine ==
    ASSUME NEW f \in Seq(Entry), NEW i \in 1..Len(f), NEW j \in 0..Len(f),
           NEW g, g = SubSeq(f, 1, j) \o <<f[i]>> \o SubSeq(f, j+1, Len(f))
    PROVE  /\ j + 1 \in DOMAIN g /\ g[j+1] = f[i]
           /\ j < Len(f) => j + 2 \in DOMAIN g /\ g[j+2] = f[j+1]
<1> DEFINE x == SubSeq(f, 1, j)
           y == SubSeq(f, j+1, Len(f))
           z == x \o <<f[i]>>
<1>1. x \in Seq(Entry) /\ Len(x) = j
  BY SubSeqProperties
<1>2. y \in Seq(Entry) /\ Len(y) = Len(f) - j /\ (j < Len(f) => y[1] = f[j+1])
  BY SubSeqProperties
<1> HIDE DEF x, y
<1>3. <<f[i]>> \in Seq(Entry) /\ Len(<<f[i]>>) = 1 /\ <<f[i]>>[1] = f[i]
  OBVIOUS
<1>4. z \in Seq(Entry) /\ Len(z) = j + 1 /\ z[j+1] = f[i]
  BY <1>1, <1>3, ConcatProperties
<1> HIDE DEF z
<1>5. /\ z \o y \in Seq(Entry) /\ Len(z \o y) = Len(f) + 1
      /\ (z \o y)[j+1] = f[i]
      /\ j < Len(f) => (z \o y)[j+2] = y[1]
  <2>1. /\ (z \o y) \in Seq(Entry) /\ Len(z \o y) = Len(z) + Len(y)
        /\ \A k \in 1..Len(z) + Len(y) :
              (z \o y)[k] = IF k <= Len(z) THEN z[k] ELSE y[k - Len(z)]
    BY <1>2, <1>4, ConcatProperties
  <2>2. j + 1 \in 1..Len(z) + Len(y) /\ j + 1 <= Len(z) /\ Len(z) + Len(y) = Len(f) + 1
    BY <1>2, <1>4
  <2>3. ASSUME j < Len(f)
        PROVE  j + 2 \in 1..Len(z) + Len(y) /\ ~(j + 2 <= Len(z)) /\ j + 2 - Len(z) = 1
    BY <1>2, <1>4, <2>3
  <2> QED BY <1>4, <2>1, <2>2, <2>3
<1>6. g = z \o y
  BY DEF x, y, z
<1> HIDE DEF z
<1>7. DOMAIN (z \o y) = 1..Len(f) + 1
  BY ONLY <1>5
<1>8. j + 1 \in 1..Len(f) + 1 /\ (j < Len(f) => j + 2 \in 1..Len(f) + 1)
  OBVIOUS
<1> QED
  BY ONLY <1>2, <1>5, <1>6, <1>7, <1>8

\* An edit, a removal, a swap or a copy breaks a valid chain: the digest no longer
\* fits the content, or a hash stands at a place that is not its own.
LEMMA TamperBreaks ==
    ASSUME LogInv, ChainValid, NoTruncation, Operator, TypeOK'
    PROVE  ~ChainValid'
<1> SUFFICES ASSUME ChainValid' PROVE FALSE
  OBVIOUS
<1>0. Chain(file) /\ Chain(file')
  BY DEF LogInv, TypeOK, ChainValid, Readable, Line, LinkOK, ContentOK, Digest, Expected, None, Chain
<1>1. PICK i \in DOMAIN file :
        \/ \E content \in Content : EditRecord(i, content)
        \/ RemoveRecord(i)
        \/ SwapRecords(i)
        \/ \E j \in 0..Len(file) : CopyRecord(i, j)
        \/ TruncateTail(i - 1)
  BY DEF Operator
<1>2. /\ file \in Seq(Entry) /\ DOMAIN file = 1..Len(file) /\ Len(file) \in Nat
      /\ i \in 1..Len(file)
  BY <1>0 DEF Chain
<1>3. \A k \in DOMAIN file, l \in DOMAIN file' : file[k] = file'[l] => k = l
  BY <1>0, HashTellsPlace
<1>4. ASSUME NEW content \in Content, EditRecord(i, content)
      PROVE  FALSE
  <2>1. content # file[i].content /\ file' = [file EXCEPT ![i].content = content]
    BY <1>4 DEF EditRecord, Tamper
  <2>2. /\ file'[i].content = content /\ file'[i].prev = file[i].prev
        /\ file'[i].hash = file[i].hash /\ i \in DOMAIN file'
    BY <1>2, <2>1 DEF Entry
  <2>3. Append(file[i].prev, file[i].content) = Append(file[i].prev, content)
    BY <2>2 DEF ChainValid, ContentOK, Digest
  <2>4. file[i].prev \in Seq(Content) /\ file[i].content \in Content
    <3>1. file[i] \in Entry
      BY <1>2
    <3> QED BY <3>1 DEF Entry
  <2> QED BY <2>1, <2>3, <2>4, AppendInjective
<1>5. CASE RemoveRecord(i)
  <2>1. /\ i < Len(file)
        /\ file' = SubSeq(file, 1, i-1) \o SubSeq(file, i+1, Len(file))
    BY <1>5 DEF RemoveRecord, Tamper
  <2>2. i \in DOMAIN file' /\ file'[i] = file[i+1]
    BY <1>2, <2>1, RemovedLine
  <2>3. i + 1 \in DOMAIN file
    BY <1>2, <2>1
  <2>4. i + 1 = i
    BY <1>3, <2>2, <2>3
  <2> QED BY <1>2, <2>4
<1>6. CASE SwapRecords(i)
  <2>1. i < Len(file) /\ file' = [file EXCEPT ![i] = file[i+1], ![i+1] = file[i]]
    BY <1>6 DEF SwapRecords, Tamper
  <2>2. i \in DOMAIN file' /\ file'[i] = file[i+1]
    BY <1>2, <2>1
  <2>3. i + 1 \in DOMAIN file
    BY <1>2, <2>1
  <2>4. i + 1 = i
    BY <1>3, <2>2, <2>3
  <2> QED BY <1>2, <2>4
<1>7. ASSUME NEW j \in 0..Len(file), CopyRecord(i, j)
      PROVE  FALSE
  <2>1. file' = SubSeq(file, 1, j) \o <<file[i]>> \o SubSeq(file, j+1, Len(file))
    BY <1>7 DEF CopyRecord, Tamper
  <2>2. /\ j + 1 \in DOMAIN file' /\ file'[j+1] = file[i]
        /\ j < Len(file) => j + 2 \in DOMAIN file' /\ file'[j+2] = file[j+1]
    BY <1>2, <2>1, CopiedLine
  <2>3. i = j + 1
    BY <1>3, <2>2
  <2>4. j < Len(file) /\ j + 1 \in DOMAIN file
    BY <1>2, <2>3
  <2>5. j + 1 = j + 2
    BY <1>3, <2>2, <2>4
  <2> QED BY <2>5
<1>8. ~TruncateTail(i - 1)
  BY DEF TruncateTail, Tamper, NoTruncation
<1> QED
  BY <1>1, <1>4, <1>5, <1>6, <1>7, <1>8

\* One intervention that is not a cut of the tail stays evident, whatever is
\* restarted or appended after it.
THEOREM TamperingStaysEvident ==
    ASSUME OneHandle, WholeLines, NoTruncation, MaxTampers <= 1
    PROVE  Spec => []EvidenceIsPermanent
<1>1. Init => CleanInv
  BY DEF Init, CleanInv, ChainValid, Readable, CacheCurrent, OnFile
<1>2. Init => EvidenceIsPermanent
  BY DEF Init, EvidenceIsPermanent
<1>3. LogInv /\ LogInv' /\ CleanInv /\ EvidenceIsPermanent /\ [Next]_vars => EvidenceIsPermanent'
  <2> SUFFICES ASSUME LogInv, LogInv', CleanInv, EvidenceIsPermanent, [Next]_vars, tampers' # <<>>
               PROVE  ~ChainValid'
    BY DEF EvidenceIsPermanent
  <2>1. CASE Operator
    <3>1. Len(tampers) < MaxTampers
      BY <2>1 DEF Operator, EditRecord, RemoveRecord, SwapRecords, CopyRecord, TruncateTail, Tamper
    <3>2. tampers = <<>>
      BY <3>1, BoundsAssumption DEF LogInv, TypeOK
    <3> QED BY <2>1, <3>2, TamperBreaks DEF CleanInv, LogInv
  <2>2. ASSUME ~Operator
        PROVE  tampers' = tampers
    BY <2>2 DEF Next, AppendStep, OpenLog, Crash, CrashInWrite, ShortWrite, BeginAppend,
                WriteLine, EndAppend, Partial, history, vars
  <2>3. ASSUME UNCHANGED <<file, tampers>>
        PROVE  ~ChainValid'
    BY <2>3 DEF EvidenceIsPermanent, ChainValid, Readable, LinkOK, ContentOK, Expected
  <2>4. ASSUME NEW h \in Handles, WriteLine(h)
        PROVE  ~ChainValid'
    <3>1. pending[h] \in Line /\ WriteText(pending[h]) /\ tampers' = tampers
      BY <2>4 DEF WriteLine, LogInv, TypeOK
    <3> QED BY <3>1, BreakStays DEF EvidenceIsPermanent
  <2>5. ASSUME NEW h \in Handles PROVE ~CrashInWrite(h) /\ ~ShortWrite(h)
    BY WholeLines DEF WholeLines, CrashInWrite, ShortWrite
  <2> QED
    BY <2>1, <2>2, <2>3, <2>4, <2>5
       DEF Next, AppendStep, OpenLog, Crash, BeginAppend, EndAppend, history, vars
<1> QED
  BY <1>1, <1>2, <1>3, InitLogInv, NextLogInv, NextCleanInv, PTL DEF Spec

=============================================================================
