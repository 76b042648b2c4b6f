---------------------------- MODULE Events_proofs ----------------------------
(***************************************************************************)
(* Proofs about the three parts whose news reaches the event loop through  *)
(* a callback: for any hashing threads and any number of results, that     *)
(* the two vectors of JobResults neither lose, repeat nor reorder one; for *)
(* any stream, that LineReader passes its lines on; and for any number of  *)
(* threads and nonces, that a benchmark's result is complete when it is    *)
(* reported.                                                               *)
(***************************************************************************)
EXTENDS JobResults, Bench, LineReader, SequenceTheorems, FiniteSetTheorems, TLAPS

-----------------------------------------------------------------------------
(* JobResults.                                                             *)

\* A thread on its way through submit carries a result.
CarriesInv == \A w \in Workers : pc[w] \in {"submit", "push"} => result[w] \in 1..MaxResults

IInv == TypeOK /\ CarriesInv /\ DeliveredOnceInOrder

-----------------------------------------------------------------------------
(* The effect of the three steps that move results, on sequences.          *)

LEMMA PushKeepsOrder ==
  ASSUME NEW d \in Results, NEW p \in Results, NEW m \in Results, NEW r \in 1..MaxResults
  PROVE  Append(d \o p \o m, r) = d \o p \o Append(m, r)
<1> DEFINE S == 1..MaxResults
<1>1. d \in Seq(S) /\ p \in Seq(S) /\ m \in Seq(S) /\ r \in S
  BY DEF Results
<1>2. d \o p \in Seq(S) /\ (d \o p) \o m \in Seq(S) /\ <<r>> \in Seq(S)
  BY <1>1
<1> HIDE DEF S
<1>3. Append(d \o p \o m, r) = ((d \o p) \o m) \o <<r>>
  BY <1>1, <1>2, AppendIsConcat
<1>4. ((d \o p) \o m) \o <<r>> = (d \o p) \o (m \o <<r>>)
  <2>1. m \in Seq(S) /\ d \o p \in Seq(S) /\ <<r>> \in Seq(S)
    BY <1>1, <1>2
  <2> DEFINE t == d \o p
             u == <<r>>
  <2> HIDE DEF t, u
  <2>2. t \in Seq(S) /\ u \in Seq(S)
    BY <2>1 DEF t, u
  <2>3. (t \o m) \o u = t \o (m \o u)
    BY <2>1, <2>2, ConcatAssociative, SMTT(40)
  <2> QED
    BY <2>3 DEF t, u
<1>5. m \o <<r>> = Append(m, r)
  BY <1>1, AppendIsConcat
<1> QED
  BY <1>3, <1>4, <1>5

LEMMA SwapKeepsOrder ==
  ASSUME NEW d \in Results, NEW m \in Results
  PROVE  d \o <<>> \o m = d \o m \o <<>>
<1> DEFINE S == 1..MaxResults
<1>1. d \in Seq(S) /\ m \in Seq(S) /\ d \o m \in Seq(S)
  BY DEF Results
<1> HIDE DEF S
<1>2. d \o <<>> = d /\ (d \o m) \o <<>> = d \o m
  BY <1>1, ConcatEmptySeq
<1> QED
  BY <1>2

LEMMA DeliverKeepsOrder ==
  ASSUME NEW d \in Results, NEW p \in Results, NEW m \in Results
  PROVE  (d \o p) \o <<>> \o m = d \o p \o m
<1> DEFINE S == 1..MaxResults
<1>1. d \o p \in Seq(S)
  BY DEF Results
<1> HIDE DEF S
<1>2. (d \o p) \o <<>> = d \o p
  BY <1>1, ConcatEmptySeq
<1> QED
  BY <1>2

-----------------------------------------------------------------------------

LEMMA InitInv == Init => IInv
<1> SUFFICES ASSUME Init PROVE IInv
  OBVIOUS
<1>1. TypeOK
  <2>1. <<>> \in Results /\ 0 \in 0..MaxResults
    BY MaxResultsAssumption DEF Results
  <2>2. pc \in [Workers -> {"hash", "submit", "push", "exit"}]
    BY DEF Init
  <2>3. result \in [Workers -> 0..MaxResults]
    BY <2>1 DEF Init
  <2> QED
    BY <2>1, <2>2, <2>3 DEF Init, TypeOK
<1>2. CarriesInv
  BY DEF Init, CarriesInv
<1>3. DeliveredOnceInOrder
  BY DEF Init, DeliveredOnceInOrder
<1> QED
  BY <1>1, <1>2, <1>3 DEF IInv

\* Steps of a hashing thread.
LEMMA ThreadInv ==
  ASSUME IInv, NEW w \in Workers, Find(w) \/ Submission(w)
  PROVE  IInv'
<1> USE MaxResultsAssumption DEF IInv, threadVars, queueVars, Goto
<1>1. CASE Find(w)
  <2>1. found + 1 \in 1..MaxResults
    BY <1>1 DEF Find, TypeOK
  <2>2. TypeOK'
    BY <1>1, <2>1 DEF Find, TypeOK
  <2>3. CarriesInv'
    BY <1>1, <2>1 DEF Find, TypeOK, CarriesInv
  <2>4. DeliveredOnceInOrder'
    BY <1>1 DEF Find, DeliveredOnceInOrder
  <2> QED
    BY <2>2, <2>3, <2>4
<1>2. CASE Submit(w)
  <2>1. TypeOK' /\ CarriesInv'
    BY <1>2 DEF Submit, TypeOK, CarriesInv
  <2>2. DeliveredOnceInOrder'
    BY <1>2 DEF Submit, DeliveredOnceInOrder
  <2> QED
    BY <2>1, <2>2
<1>3. CASE Push(w)
  <2>1. result[w] \in 1..MaxResults
    BY <1>3 DEF Push, CarriesInv
  <2>2. CASE handler = "set"
    <3>1. m_results' = Append(m_results, result[w]) /\ pushed' = Append(pushed, result[w])
      BY <1>3, <2>2 DEF Push
    <3>2. m_results' \in Results /\ pushed' \in Results
      BY <2>1, <3>1 DEF TypeOK, Results
    <3>3. TypeOK' /\ CarriesInv'
      BY <1>3, <2>2, <3>2 DEF Push, TypeOK, CarriesInv
    <3>4. DeliveredOnceInOrder'
      <4>1. UNCHANGED <<delivered, m_processingResults>>
        BY <1>3, Zenon DEF Push
      <4>2. /\ delivered \in Results /\ m_processingResults \in Results /\ m_results \in Results
            /\ pushed = delivered \o m_processingResults \o m_results
        BY Zenon DEF TypeOK, DeliveredOnceInOrder
      <4>3. Append(delivered \o m_processingResults \o m_results, result[w])
              = delivered \o m_processingResults \o Append(m_results, result[w])
        <5>1. \A d, p, m \in Results, r \in 1..MaxResults :
                 Append(d \o p \o m, r) = d \o p \o Append(m, r)
          BY PushKeepsOrder
        <5> QED
          BY <2>1, <4>2, <5>1, Zenon
      <4> QED
        BY <3>1, <4>1, <4>2, <4>3, Zenon DEF DeliveredOnceInOrder
    <3> QED
      BY <3>3, <3>4
  <2>3. CASE handler # "set"
    <3>1. TypeOK' /\ CarriesInv'
      BY <1>3, <2>3 DEF Push, TypeOK, CarriesInv
    <3>2. DeliveredOnceInOrder'
      BY <1>3, <2>3 DEF Push, DeliveredOnceInOrder
    <3> QED
      BY <3>1, <3>2
  <2> QED
    BY <2>2, <2>3
<1>4. CASE Exit(w)
  <2>1. TypeOK' /\ CarriesInv'
    BY <1>4 DEF Exit, TypeOK, CarriesInv
  <2>2. DeliveredOnceInOrder'
    BY <1>4 DEF Exit, DeliveredOnceInOrder
  <2> QED
    BY <2>1, <2>2
<1> QED
  BY <1>1, <1>2, <1>3, <1>4 DEF Submission

\* Steps of the event loop.
LEMMA LoopInv ==
  ASSUME IInv, LoopStep \/ Stop
  PROVE  IInv'
<1> USE DEF IInv, threadVars, queueVars
<1>1. CASE Swap
  <2>1. m_processingResults = <<>> /\ m_results' = <<>> /\ m_processingResults' = m_results
    BY <1>1 DEF Swap, TypeOK
  <2>2. TypeOK' /\ CarriesInv'
    BY <1>1, <2>1 DEF Swap, TypeOK, CarriesInv
  <2>3. DeliveredOnceInOrder'
    BY <1>1, <2>1, SwapKeepsOrder DEF Swap, TypeOK, DeliveredOnceInOrder
  <2> QED
    BY <2>2, <2>3
<1>2. CASE Deliver
  <2>1. delivered' = delivered \o m_processingResults /\ m_processingResults' = <<>>
    BY <1>2 DEF Deliver
  <2>2. delivered' \in Results /\ m_processingResults' \in Results
    BY <2>1 DEF TypeOK, Results
  <2>3. TypeOK' /\ CarriesInv'
    BY <1>2, <2>1, <2>2 DEF Deliver, TypeOK, CarriesInv
  <2>4. DeliveredOnceInOrder'
    BY <1>2, <2>1, DeliverKeepsOrder DEF Deliver, TypeOK, DeliveredOnceInOrder
  <2> QED
    BY <2>3, <2>4
<1>3. CASE Wake \/ Stop \/ Forget \/ Join
  <2>1. TypeOK' /\ CarriesInv'
    BY <1>3 DEF Wake, Stop, Forget, Join, TypeOK, CarriesInv
  <2>2. DeliveredOnceInOrder'
    BY <1>3 DEF Wake, Stop, Forget, Join, DeliveredOnceInOrder
  <2> QED
    BY <2>1, <2>2
<1> QED
  BY <1>1, <1>2, <1>3 DEF LoopStep

LEMMA StutterInv == IInv /\ UNCHANGED vars => IInv'
BY DEF IInv, TypeOK, CarriesInv, DeliveredOnceInOrder, vars, threadVars, queueVars

THEOREM Inductive == Spec => []IInv
<1>1. IInv /\ [Next]_vars => IInv'
  BY ThreadInv, LoopInv, StutterInv DEF Next, Stopped
<1> QED
  BY InitInv, <1>1, PTL DEF Spec

\* The variables keep their types, and the vector the loop swaps in is empty.
THEOREM TypeCorrect == Spec => []TypeOK
<1>1. IInv => TypeOK
  BY DEF IInv
<1> QED
  BY Inductive, <1>1, PTL

\* What has been delivered, is being delivered and waits for delivery is
\* always exactly what was submitted, in that order.
THEOREM OnceInOrder == Spec => []DeliveredOnceInOrder
<1>1. IInv => DeliveredOnceInOrder
  BY DEF IInv
<1> QED
  BY Inductive, <1>1, PTL

-----------------------------------------------------------------------------
(* Lines: bytes of the stream, and the line that getline is in.            *)

LEMMA BytesFacts ==
  ASSUME NEW a \in Nat, NEW b \in Nat, a <= b
  PROVE  /\ Bytes(a, b) \in Seq(Nat) /\ Len(Bytes(a, b)) = b - a
         /\ Bytes(a, b) = <<>> <=> a = b
BY DEF Bytes

LEMMA BytesJoin ==
  ASSUME NEW a \in Nat, NEW b \in Nat, NEW e \in Nat, a <= b, b <= e
  PROVE  Bytes(a, b) \o Bytes(b, e) = Bytes(a, e)
BY DEF Bytes

LEMMA BytesCut ==
  ASSUME NEW a \in Nat, NEW e \in Nat, a < e
  PROVE  SubSeq(Bytes(a, e), 1, Len(Bytes(a, e)) - 1) = Bytes(a, e - 1)
BY DEF Bytes

\* The bytes that are parsed end in the line that begins after b.
Begun(b) == b \in newlines \cup {0} /\ b <= parsed /\ \A n \in newlines : n <= b \/ parsed < n

\* The buffer holds what is parsed of that line, if the line fits it.
Kept(b) ==
  /\ buffer = <<>> <=> b = parsed
  /\ \A e \in newlines : NextNewline(b, e) /\ e - b <= ChunkSize => buffer = Bytes(b, parsed)

Entries == [end : newlines, text : Seq(Nat)]

ReaderTypeOK ==
  /\ newlines \in SUBSET (1..MaxBytes)
  /\ arrived \in 0..MaxBytes /\ parsed \in 0..arrived /\ parsing \in BOOLEAN
  /\ buffer \in Seq(Nat)
  /\ cut \in SUBSET newlines
  /\ received \in Seq(Entries)

ReaderInv ==
  /\ ReaderTypeOK /\ LinesIntact
  /\ \A n \in cut : n <= parsed
  /\ \A n \in DOMAIN received : received[n].end <= parsed
  /\ IF parsing THEN arrived - parsed <= ChunkSize /\ (parsed = arrived => parsed \in newlines)
     ELSE parsed = arrived
  /\ \E b \in Nat : Begun(b) /\ Kept(b)

LEMMA AddFacts ==
  ASSUME NEW data \in Seq(Nat), buffer \in Seq(Nat)
  PROVE  Add(data) \in Seq(Nat)
BY DEF Add

LEMMA EntryFacts ==
  ASSUME ReaderInv, NEW n \in DOMAIN received
  PROVE  received[n].end \in newlines /\ received[n].end \in Nat /\ received[n].end <= parsed
<1>1. received \in Seq(Entries) /\ newlines \in SUBSET Nat
  BY DEF ReaderInv, ReaderTypeOK
<1>2. received[n] \in Entries
  BY <1>1
<1>3. received[n].end \in newlines
  BY <1>2 DEF Entries
<1>4. received[n].end <= parsed
  BY DEF ReaderInv
<1> QED
  BY <1>1, <1>3, <1>4

LEMMA ReaderInitInv ==
  ASSUME ReaderInit
  PROVE  ReaderInv
<1> USE LineReaderAssumption DEF ReaderInit
<1>1. ReaderTypeOK
  <2>1. received \in Seq(Entries) /\ buffer \in Seq(Nat)
    OBVIOUS
  <2>2. newlines \in SUBSET (1..MaxBytes) /\ arrived \in 0..MaxBytes /\ parsed \in 0..arrived
    OBVIOUS
  <2>3. parsing \in BOOLEAN /\ cut \in SUBSET newlines
    OBVIOUS
  <2> QED
    BY <2>1, <2>2, <2>3, Zenon DEF ReaderTypeOK
<1>2. LinesIntact
  <2>1. \A e \in newlines : ~(e <= parsed)
    OBVIOUS
  <2> QED
    BY <2>1 DEF LinesIntact
<1>3. Begun(0) /\ Kept(0)
  <2>1. Bytes(0, 0) = <<>>
    BY BytesFacts
  <2> QED
    BY <2>1 DEF Begun, Kept
<1> QED
  BY <1>1, <1>2, <1>3 DEF ReaderInv

LEMMA ArriveInv ==
  ASSUME ReaderInv, NEW size \in 1..ChunkSize, Arrive(size)
  PROVE  ReaderInv'
<1>1. /\ ~parsing /\ arrived + size <= MaxBytes /\ arrived' = arrived + size /\ parsing' = TRUE
      /\ newlines' = newlines /\ parsed' = parsed /\ buffer' = buffer /\ cut' = cut
      /\ received' = received
  BY DEF Arrive
<1>2. ReaderTypeOK'
  <2>1. Entries' = Entries
    BY <1>1 DEF Entries
  <2>2. arrived' \in 0..MaxBytes /\ parsed' \in 0..arrived'
    BY <1>1, LineReaderAssumption DEF ReaderInv, ReaderTypeOK
  <2> QED
    BY <1>1, <2>1, <2>2 DEF ReaderInv, ReaderTypeOK
<1>3. LinesIntact'
  BY <1>1 DEF ReaderInv, LinesIntact, Whole, NextNewline
<1>4. \E b \in Nat : Begun(b)' /\ Kept(b)'
  BY <1>1 DEF ReaderInv, Begun, Kept, NextNewline
<1>5. arrived' - parsed' <= ChunkSize /\ parsed' # arrived'
  BY <1>1, LineReaderAssumption DEF ReaderInv, ReaderTypeOK
<1> QED
  BY <1>1, <1>2, <1>3, <1>4, <1>5 DEF ReaderInv

\* What is received when a line ends, and that nothing else is.
LEMMA EndOfLineReceived ==
  ASSUME ReaderInv, NEW end \in 1..MaxBytes, EndOfLine(end), NEW b \in Nat, Begun(b), Kept(b)
  PROVE  /\ b \in newlines \cup {0} /\ NextNewline(b, end)
         /\ IF b + 1 < end
            THEN \E x \in Seq(Nat) :
                   /\ received' = Append(received, [end |-> end, text |-> x])
                   /\ end - b <= ChunkSize => x = Bytes(b, end - 1)
            ELSE received' = received
<1> DEFINE data == Bytes(parsed, end)
           line == IF buffer # <<>> THEN Add(data) ELSE data
           text == SubSeq(line, 1, Len(line) - 1)
<1>1. /\ end <= arrived /\ NextNewline(parsed, end)
      /\ received' = IF buffer # <<>> \/ Len(data) > 1
                     THEN Append(received, [end |-> end, text |-> text]) ELSE received
  BY DEF EndOfLine
<1>2. b <= parsed /\ parsed < end /\ parsed <= end /\ parsed \in Nat /\ end \in Nat
  BY <1>1 DEF Begun, NextNewline, ReaderInv, ReaderTypeOK
<1>3. b \in newlines \cup {0} /\ NextNewline(b, end)
  BY <1>1, <1>2 DEF NextNewline, Begun, ReaderInv, ReaderTypeOK
<1>4. buffer \in Seq(Nat)
  BY DEF ReaderInv, ReaderTypeOK
<1>5. data \in Seq(Nat) /\ Len(data) = end - parsed /\ Len(data) > 0
  <2>1. data \in Seq(Nat) /\ Len(data) = end - parsed
    BY <1>2, BytesFacts, Zenon
  <2> HIDE DEF data
  <2> QED
    BY <1>2, <2>1
<1>6. buffer # <<>> \/ Len(data) > 1 <=> b + 1 < end
  BY <1>2, <1>5 DEF Kept
<1>7. line \in Seq(Nat) /\ Len(line) > 0
  BY <1>4, <1>5 DEF Add
<1>8. text \in Seq(Nat)
  <2> HIDE DEF line
  <2>1. Len(line) - 1 \in 0..Len(line)
    BY <1>7
  <2> QED
    BY <1>7, <2>1
<1>9. ASSUME end - b <= ChunkSize PROVE text = Bytes(b, end - 1)
  <2>1. buffer = Bytes(b, parsed) /\ end \in newlines
    BY <1>3, <1>9 DEF Kept, NextNewline
  <2>2. Len(buffer) = parsed - b
    BY <1>2, <2>1, BytesFacts
  <2>3. Add(data) = buffer \o data
    BY <1>2, <1>5, <1>9, <2>2, LineReaderAssumption DEF Add
  <2>4. buffer \o data = Bytes(b, end)
    BY <1>2, <2>1, BytesJoin, Zenon
  <2>5. buffer = <<>> => data = Bytes(b, end)
    BY <1>1, <1>2, <2>1, BytesFacts
  <2>6. line = Bytes(b, end)
    BY <2>3, <2>4, <2>5
  <2>7. b < end
    BY <1>2
  <2> HIDE DEF line
  <2> QED
    BY <1>2, <2>6, <2>7, BytesCut, Zenon
<1> HIDE DEF data, line, text
<1>10. CASE b + 1 < end
  <2>1. received' = Append(received, [end |-> end, text |-> text])
    BY <1>1, <1>6, <1>10
  <2> QED
    BY <1>3, <1>8, <1>9, <1>10, <2>1
<1>11. CASE ~(b + 1 < end)
  <2>1. received' = received
    BY <1>1, <1>6, <1>11
  <2> QED
    BY <1>3, <1>11, <2>1
<1> QED
  BY <1>10, <1>11

LEMMA EndOfLineInv ==
  ASSUME ReaderInv, NEW end \in 1..MaxBytes, EndOfLine(end)
  PROVE  ReaderInv'
<1>1. PICK b \in Nat : Begun(b) /\ Kept(b)
  BY DEF ReaderInv
<1>2. /\ end <= arrived /\ NextNewline(parsed, end) /\ buffer' = <<>> /\ parsed' = end
      /\ newlines' = newlines /\ arrived' = arrived /\ parsing' = parsing /\ parsing /\ cut' = cut
  BY DEF EndOfLine
<1>3. /\ parsed < end /\ parsed \in Nat /\ end \in newlines /\ arrived \in Nat /\ b <= parsed
      /\ end \notin cut
  BY <1>1, <1>2 DEF NextNewline, ReaderInv, ReaderTypeOK, Begun
<1>4. received \in Seq(Entries)
  BY DEF ReaderInv, ReaderTypeOK
<1>5. \A m \in 1..Len(received) : received[m].end < end /\ received[m].end \in Nat
  <2> SUFFICES ASSUME NEW m \in 1..Len(received) PROVE received[m].end < end /\ received[m].end \in Nat
    OBVIOUS
  <2>1. m \in DOMAIN received
    BY <1>4
  <2>2. received[m].end \in Nat /\ received[m].end <= parsed /\ end \in Nat
    BY <2>1, EntryFacts
  <2> QED
    BY <1>3, <2>2
<1>6. b \in newlines \cup {0} /\ NextNewline(b, end)
  BY <1>1, EndOfLineReceived
<1>7. \A d \in newlines \cup {0}, e \in newlines :
        Whole(d, e) /\ e <= end => e <= parsed \/ (e = end /\ d = b)
  BY <1>2, <1>3, <1>6 DEF Whole, NextNewline, ReaderInv, ReaderTypeOK
<1>8. \E x \in Nat : Begun(x)' /\ Kept(x)'
  <2>1. Begun(end)' /\ Kept(end)'
    <3>1. Bytes(end, end) = <<>>
      BY BytesFacts
    <3> QED
      BY <1>2, <1>3, <3>1 DEF Begun, Kept
  <2> QED
    BY <2>1
<1>9. received' \in Seq(Entries) /\ LinesIntact' /\ \A n \in DOMAIN received' : received'[n].end <= end
  <2>1. CASE b + 1 < end
    <3>1. PICK x \in Seq(Nat) : /\ received' = Append(received, [end |-> end, text |-> x])
                                /\ end - b <= ChunkSize => x = Bytes(b, end - 1)
      BY <1>1, <2>1, EndOfLineReceived
    <3> DEFINE r == [end |-> end, text |-> x]
    <3>2. r \in Entries /\ r.end = end /\ r.text = x
      BY <1>3 DEF Entries
    <3> HIDE DEF r
    <3>3. /\ received' \in Seq(Entries) /\ Len(received') = Len(received) + 1
          /\ DOMAIN received' = 1..(Len(received) + 1) /\ DOMAIN received = 1..Len(received)
          /\ received'[Len(received) + 1] = r
          /\ \A n \in 1..Len(received) : received'[n] = received[n]
      BY <1>4, <3>1, <3>2 DEF r
    <3>5. \A m, n \in DOMAIN received' : m < n => received'[m].end < received'[n].end
      <4> SUFFICES ASSUME NEW m \in DOMAIN received', NEW n \in DOMAIN received', m < n
                   PROVE  received'[m].end < received'[n].end
        OBVIOUS
      <4>1. m \in 1..Len(received) /\ Len(received) \in Nat /\ received'[m] = received[m]
        BY <1>4, <3>3
      <4>2. CASE n = Len(received) + 1
        BY <1>5, <3>2, <3>3, <4>1, <4>2
      <4>3. CASE n \in 1..Len(received)
        BY <3>3, <4>1, <4>3 DEF ReaderInv, LinesIntact
      <4> QED
        BY <3>3, <4>1, <4>2, <4>3
    <3>6. \A d \in newlines \cup {0}, e \in newlines :
            Whole(d, e) /\ e <= end => \E n \in DOMAIN received' : received'[n].end = e
      <4> SUFFICES ASSUME NEW d \in newlines \cup {0}, NEW e \in newlines, Whole(d, e), e <= end
                   PROVE  \E n \in DOMAIN received' : received'[n].end = e
        OBVIOUS
      <4>1. CASE e = end
        BY <1>4, <3>2, <3>3, <4>1
      <4>2. CASE e # end
        <5>1. e <= parsed
          BY <1>7, <4>2
        <5>2. PICK n \in DOMAIN received : received[n].end = e
          BY <5>1 DEF ReaderInv, LinesIntact
        <5>3. n \in DOMAIN received' /\ received'[n] = received[n]
          BY <1>4, <3>3, <5>2
        <5> QED
          BY <5>2, <5>3
      <4> QED
        BY <4>1, <4>2
    <3>7. \A n \in DOMAIN received' : \E d \in newlines \cup {0} :
            /\ Whole(d, received'[n].end)
            /\ received'[n].end - d <= ChunkSize =>
                 received'[n].text = Bytes(d, received'[n].end - 1)
      <4> SUFFICES ASSUME NEW n \in DOMAIN received'
                   PROVE  \E d \in newlines \cup {0} :
                            /\ Whole(d, received'[n].end)
                            /\ received'[n].end - d <= ChunkSize =>
                                 received'[n].text = Bytes(d, received'[n].end - 1)
        OBVIOUS
      <4>1. CASE n = Len(received) + 1
        <5>1. received'[n].end = end /\ received'[n].text = x
          BY <3>2, <3>3, <4>1
        <5>2. Whole(b, end)
          BY <1>3, <1>6, <2>1 DEF Whole
        <5> QED
          BY <1>6, <3>1, <5>1, <5>2
      <4>2. CASE n \in 1..Len(received)
        <5>1. n \in DOMAIN received /\ received'[n] = received[n]
          BY <3>3, <4>2
        <5> QED
          BY <5>1 DEF ReaderInv, LinesIntact
      <4> QED
        BY <1>4, <3>3, <4>1, <4>2
    <3>8. \A n \in DOMAIN received' : received'[n].end <= end
      <4> SUFFICES ASSUME NEW n \in DOMAIN received' PROVE received'[n].end <= end
        OBVIOUS
      <4>1. CASE n = Len(received) + 1
        BY <1>3, <3>2, <3>3, <4>1 DEF ReaderInv, ReaderTypeOK
      <4>2. CASE n \in 1..Len(received)
        BY <1>3, <1>5, <3>3, <4>2 DEF ReaderInv, ReaderTypeOK
      <4> QED
        BY <1>4, <3>3, <4>1, <4>2
    <3>9. LinesIntact'
      BY <1>2, <3>5, <3>6, <3>7, Zenon DEF LinesIntact, Whole, NextNewline
    <3> QED
      BY <3>3, <3>8, <3>9
  <2>2. CASE ~(b + 1 < end)
    <3>1. received' = received
      BY <1>1, <2>2, EndOfLineReceived
    <3>2. \A n \in DOMAIN received : received[n].end <= end
      <4> SUFFICES ASSUME NEW n \in DOMAIN received PROVE received[n].end <= end
        OBVIOUS
      <4>1. n \in 1..Len(received)
        BY <1>4
      <4> QED
        BY <1>3, <1>5, <4>1 DEF ReaderInv, ReaderTypeOK
    <3>3. \A d \in newlines \cup {0}, e \in newlines : Whole(d, e) /\ e <= end => e <= parsed
      BY <1>7, <2>2 DEF Whole
    <3>4. LinesIntact'
      BY <1>2, <3>1, <3>3 DEF ReaderInv, LinesIntact, Whole, NextNewline
    <3> QED
      BY <1>4, <3>1, <3>2, <3>4
  <2> QED
    BY <2>1, <2>2
<1>10. ReaderTypeOK'
  <2>1. buffer' \in Seq(Nat)
    BY <1>2
  <2>2. Entries' = Entries
    BY <1>2 DEF Entries
  <2> QED
    BY <1>2, <1>3, <1>9, <2>1, <2>2 DEF ReaderInv, ReaderTypeOK
<1>11. \A n \in cut' : n <= parsed'
  <2> SUFFICES ASSUME NEW n \in cut PROVE n <= end
    BY <1>2
  <2>1. n \in Nat /\ n <= parsed /\ end \in Nat
    BY DEF ReaderInv, ReaderTypeOK
  <2> QED
    BY <1>3, <2>1
<1>12. arrived' - parsed' <= ChunkSize
  BY <1>2, <1>3, LineReaderAssumption DEF ReaderInv, ReaderTypeOK
<1> QED
  BY <1>2, <1>3, <1>8, <1>9, <1>10, <1>11, <1>12 DEF ReaderInv

\* What the buffer holds when getline is through with the chunk.
LEMMA RestKept ==
  ASSUME ReaderInv, Rest, NEW b \in Nat, Begun(b), Kept(b)
  PROVE  Begun(b)' /\ Kept(b)' /\ buffer' \in Seq(Nat)
<1> DEFINE data == Bytes(parsed, arrived)
<1>1. /\ parsing /\ \A n \in newlines : n <= parsed \/ arrived < n
      /\ buffer' = IF parsed = arrived THEN <<>> ELSE Add(data)
      /\ parsed' = arrived /\ newlines' = newlines
  BY DEF Rest
<1>2. /\ parsed \in Nat /\ arrived \in Nat /\ parsed <= arrived /\ b <= parsed
      /\ buffer \in Seq(Nat) /\ arrived - parsed <= ChunkSize
      /\ parsed = arrived => parsed \in newlines
  BY <1>1 DEF ReaderInv, ReaderTypeOK, Begun
<1>3. Begun(b)'
  BY <1>1, <1>2 DEF Begun, ReaderInv, ReaderTypeOK
<1>4. CASE parsed = arrived
  <2>1. b = parsed
    BY <1>2, <1>4 DEF Begun
  <2>2. buffer = <<>> /\ buffer' = <<>> /\ parsed' = parsed
    BY <1>1, <1>4, <2>1 DEF Kept
  <2> QED
    BY <1>1, <1>2, <1>3, <2>2 DEF Kept, NextNewline
<1>5. CASE parsed # arrived
  <2>1. data \in Seq(Nat) /\ Len(data) = arrived - parsed
    BY <1>2, BytesFacts, Zenon
  <2>2. buffer' = Add(data)
    BY <1>1, <1>5
  <2>3. ASSUME NEW e \in newlines, NextNewline(b, e), e - b <= ChunkSize
        PROVE  buffer' = Bytes(b, arrived)
    <3>1. buffer = Bytes(b, parsed)
      BY <2>3 DEF Kept
    <3>2. Len(buffer) = parsed - b
      BY <1>2, <3>1, BytesFacts
    <3>3. arrived < e /\ e \in Nat
      BY <1>1, <1>2, <2>3 DEF NextNewline, Begun, ReaderInv, ReaderTypeOK
    <3>4. arrived - b <= ChunkSize
      BY <1>2, <2>3, <3>3, LineReaderAssumption
    <3>5. buffer \o data = Bytes(b, arrived)
      BY <1>2, <3>1, BytesJoin, Zenon
    <3> HIDE DEF data
    <3> QED
      BY <1>2, <2>1, <2>2, <3>2, <3>4, <3>5, LineReaderAssumption DEF Add
  <2> HIDE DEF data
  <2>4. buffer' # <<>> /\ buffer' \in Seq(Nat)
    BY <1>2, <1>5, <2>1, <2>2, LineReaderAssumption DEF Add
  <2>5. b # arrived
    BY <1>2, <1>5
  <2> QED
    BY <1>1, <1>3, <2>3, <2>4, <2>5 DEF Kept, NextNewline
<1> QED
  BY <1>4, <1>5

LEMMA RestInv ==
  ASSUME ReaderInv, Rest
  PROVE  ReaderInv'
<1>1. /\ parsing /\ \A n \in newlines : n <= parsed \/ arrived < n
      /\ parsing' = FALSE /\ parsed' = arrived /\ newlines' = newlines /\ arrived' = arrived
      /\ cut' = cut /\ received' = received
  BY DEF Rest
<1>2. /\ parsed \in Nat /\ arrived \in Nat /\ parsed <= arrived
      /\ received \in Seq(Entries) /\ cut \in SUBSET newlines /\ newlines \in SUBSET Nat
  BY DEF ReaderInv, ReaderTypeOK
<1>3. \E b \in Nat : Begun(b)' /\ Kept(b)' /\ buffer' \in Seq(Nat)
  BY RestKept DEF ReaderInv
<1>4. ReaderTypeOK'
  <2>1. Entries' = Entries
    BY <1>1 DEF Entries
  <2>2. arrived' \in 0..MaxBytes /\ parsed' \in 0..arrived' /\ parsing' \in BOOLEAN
    <3>1. arrived \in 0..MaxBytes /\ arrived \in 0..arrived
      BY <1>2 DEF ReaderInv, ReaderTypeOK
    <3> QED
      BY <1>1, <3>1
  <2>3. newlines' \in SUBSET (1..MaxBytes) /\ cut' \in SUBSET newlines'
    BY <1>1 DEF ReaderInv, ReaderTypeOK
  <2>4. buffer' \in Seq(Nat) /\ received' \in Seq(Entries')
    BY <1>1, <1>2, <1>3, <2>1
  <2> QED
    BY <2>2, <2>3, <2>4, Zenon DEF ReaderTypeOK
<1>5. LinesIntact'
  <2>1. \A d \in newlines \cup {0}, e \in newlines : Whole(d, e) /\ e <= arrived => e <= parsed
    BY <1>1, <1>2
  <2> QED
    BY <1>1, <2>1 DEF ReaderInv, LinesIntact, Whole, NextNewline
<1>6. \A n \in cut' : n <= parsed'
  <2> SUFFICES ASSUME NEW n \in cut PROVE n <= arrived
    BY <1>1
  <2>1. n \in Nat /\ n <= parsed
    BY <1>2 DEF ReaderInv
  <2> QED
    BY <1>2, <2>1
<1>7. \A n \in DOMAIN received' : received'[n].end <= parsed'
  <2> SUFFICES ASSUME NEW n \in DOMAIN received PROVE received[n].end <= arrived
    BY <1>1
  <2>1. received[n].end \in Nat /\ received[n].end <= parsed
    BY EntryFacts
  <2> QED
    BY <1>2, <2>1
<1> QED
  BY <1>1, <1>3, <1>4, <1>5, <1>6, <1>7 DEF ReaderInv

LEMMA ResetInv ==
  ASSUME ReaderInv, NEW end \in 1..MaxBytes, Reset(end)
  PROVE  ReaderInv'
<1>1. /\ ~parsing /\ arrived \notin newlines \cup {0} /\ NextNewline(arrived, end)
      /\ parsing' = parsing /\ parsed' = end /\ arrived' = end /\ buffer' = <<>>
      /\ newlines' = newlines /\ cut' = cut \cup {end} /\ received' = received
  BY DEF Reset
<1>2. /\ parsed = arrived /\ arrived \in Nat /\ end \in newlines /\ arrived < end
      /\ received \in Seq(Entries) /\ cut \in SUBSET newlines /\ newlines \in SUBSET Nat
      /\ newlines \in SUBSET (1..MaxBytes)
  BY <1>1 DEF ReaderInv, ReaderTypeOK, NextNewline
<1>3. Begun(end)' /\ Kept(end)'
  <2>1. Bytes(end, end) = <<>>
    BY BytesFacts
  <2> QED
    BY <1>1, <1>2, <2>1 DEF Begun, Kept
<1>4. ReaderTypeOK'
  <2>1. Entries' = Entries
    BY <1>1 DEF Entries
  <2>2. buffer' \in Seq(Nat)
    BY <1>1
  <2> QED
    BY <1>1, <1>2, <2>1, <2>2 DEF ReaderInv, ReaderTypeOK
<1>5. \A n \in DOMAIN received : received[n].end <= parsed /\ received[n].end \in newlines
  BY EntryFacts
<1>6. LinesIntact'
  <2>1. \A d \in newlines \cup {0}, e \in newlines : Whole(d, e)' <=> Whole(d, e) /\ e # end
    BY <1>1 DEF Whole, NextNewline
  <2>2. \A d \in newlines \cup {0}, e \in newlines :
          Whole(d, e) /\ e # end /\ e <= end => e <= parsed
    BY <1>1, <1>2 DEF NextNewline
  <2>3. \A n \in DOMAIN received : received[n].end # end
    BY <1>2, <1>5
  <2> QED
    BY <1>1, <1>5, <2>1, <2>2, <2>3 DEF ReaderInv, LinesIntact
<1>7. \A n \in cut' : n <= parsed'
  <2> SUFFICES ASSUME NEW n \in cut PROVE n <= end
    BY <1>1, <1>2
  <2>1. n \in Nat /\ n <= parsed /\ end \in Nat
    BY <1>2 DEF ReaderInv
  <2> QED
    BY <1>2, <2>1
<1>8. \A n \in DOMAIN received' : received'[n].end <= parsed'
  <2> SUFFICES ASSUME NEW n \in DOMAIN received PROVE received[n].end <= end
    BY <1>1
  <2>1. received[n].end \in Nat /\ received[n].end <= parsed /\ end \in Nat
    BY <1>2, <1>5
  <2> QED
    BY <1>2, <2>1
<1> QED
  BY <1>1, <1>3, <1>4, <1>6, <1>7, <1>8 DEF ReaderInv

\* Whatever the stream and wherever it is cut into chunks, lines that fit the buffer
\* are passed on unchanged, once and in order, and a line that does not fit spoils
\* no other (LineReader::getline, add and reset).
THEOREM PassesLinesOn == ReaderSpec => []LinesIntact
<1>1. ReaderInit => ReaderInv
  BY ReaderInitInv
<1>2. ReaderInv /\ [ReaderNext]_readerVars => ReaderInv'
  <2> SUFFICES ASSUME ReaderInv, [ReaderNext]_readerVars PROVE ReaderInv'
    OBVIOUS
  <2>1. CASE UNCHANGED readerVars
    <3>1. Entries' = Entries
      BY <2>1 DEF Entries, readerVars
    <3> QED
      BY <2>1, <3>1 DEF readerVars, ReaderInv, ReaderTypeOK, LinesIntact, Whole, NextNewline,
         Begun, Kept
  <2> QED
    BY <2>1, ArriveInv, EndOfLineInv, RestInv, ResetInv DEF ReaderNext, NoMoreData
<1>3. ReaderInv => LinesIntact
  BY DEF ReaderInv
<1> QED
  BY <1>1, <1>2, <1>3, PTL DEF ReaderSpec

-----------------------------------------------------------------------------
(* The benchmark.                                                          *)

Labels == {"test", "outer", "add", "save", "hash", "round", "sum", "done",
           "unlock", "exit", "failed", "crash"}

BenchTypeOK ==
  /\ state \in {"set", "null"} /\ remaining \in Int
  /\ benchAsync \in {None, "idle", "sent"}
  /\ request \in {"none", "create", "start", "done"}
  /\ jobNow \in {"warm", "bench"}
  /\ drawn \in 0..Size
  /\ seqNow \in Nat /\ paused \in BOOLEAN
  /\ loop \in {"start", "idle", "reset", "touch", "join", "stopped"}
  /\ at \in [Threads -> Labels]
  /\ got \in [Threads -> {None, "warm", "bench"}]
  /\ own \in [Threads -> {None, "warm", "bench"}]
  /\ seq \in [Threads -> Nat] /\ nonce \in [Threads -> 0..Size]
  /\ current \in [Threads -> 0..Size]
  /\ counted \in [0..(Size - 1) -> Nat]
  /\ reported \in BOOLEAN /\ confused \in BOOLEAN

-----------------------------------------------------------------------------
(* The threads that are through.                                           *)

Through(w) == at[w] \in {"unlock", "exit"}
Busy == {w \in Threads : ~Through(w)}

\* While the state is there, it knows how many threads are not through, and no
\* thread has left but by BenchState::done.
CountInv ==
  state = "set" =>
    /\ seqNow # 0
    /\ loop = "start" => benchAsync = None
    /\ benchAsync # None => remaining = Cardinality(Busy)
    /\ benchAsync = None => \A w \in Threads : ~Through(w)
    /\ benchAsync = "sent" => remaining = 0 /\ jobNow = "bench" /\ \E w \in Threads : Through(w)
    /\ \A w \in Threads : Through(w) => own[w] = "bench" /\ nonce[w] = Size

-----------------------------------------------------------------------------
(* Where the nonces are.                                                   *)

\* The thread has drawn a nonce for the benchmark.
Holding(w) == own[w] = "bench" /\ at[w] # "save"

JobInv ==
  /\ request = "create" => jobNow = "warm"
  /\ jobNow = "warm" => loop # "reset"
  /\ \A w \in Threads :
       /\ own[w] = "bench" => jobNow = "bench"
       /\ at[w] = "add" => /\ got[w] # None
                           /\ got[w] = "bench" => jobNow = "bench"
                           /\ own[w] = "bench" => got[w] = "bench"
       /\ at[w] = "sum" => own[w] = "bench" /\ current[w] < Size
       /\ at[w] \in {"save", "round", "hash"} => own[w] # None
       /\ at[w] = "round" /\ own[w] = "bench" => nonce[w] < Size
       /\ at[w] = "done" => own[w] = "bench" /\ nonce[w] = Size

\* The nonce is in w's blob, or its hash is about to be added.
Keeps(w, n) == (Holding(w) /\ nonce[w] = n) \/ (at[w] = "sum" /\ current[w] = n)

\* The counter counts nonces of the benchmark.
Counting == jobNow = "bench" /\ loop # "reset" /\ ~confused

\* Before that, none is drawn; then each is still to be drawn, or with one
\* thread, or counted.
LedgerInv ==
  /\ ~Counting /\ ~confused =>
       /\ \A w \in Threads : ~Holding(w) /\ at[w] # "sum"
       /\ \A n \in 0..(Size - 1) : counted[n] = 0
  /\ Counting =>
       /\ \A w \in Threads : Holding(w) => nonce[w] <= drawn
       /\ \A w \in Threads : at[w] = "sum" => nonce[w] # current[w]
       /\ \A n \in 0..(Size - 1) :
            /\ n >= drawn => counted[n] = 0 /\ \A w \in Threads : ~Keeps(w, n)
            /\ n < drawn => \/ counted[n] = 0 /\ \E w \in Threads : Keeps(w, n)
                            \/ counted[n] = 1 /\ \A w \in Threads : ~Keeps(w, n)
            /\ \A v, w \in Threads : Keeps(v, n) /\ Keeps(w, n) => v = w

BenchInv == BenchTypeOK /\ CountInv /\ JobInv /\ LedgerInv /\ ResultComplete
-----------------------------------------------------------------------------
(* Initially.                                                              *)

LEMMA BenchInitInv == BenchInit => BenchInv
<1> SUFFICES ASSUME BenchInit PROVE BenchInv
  OBVIOUS
<1>0. Size \in Nat \ {0}
  BY BenchAssumption
<1>1. BenchTypeOK
  <2>1. at \in [Threads -> Labels] /\ counted \in [0..(Size - 1) -> Nat]
    BY <1>0 DEF BenchInit, Labels
  <2>2. got \in [Threads -> {None, "warm", "bench"}] /\ own \in [Threads -> {None, "warm", "bench"}]
    BY DEF BenchInit
  <2>3. /\ seq \in [Threads -> Nat] /\ nonce \in [Threads -> 0..Size]
        /\ current \in [Threads -> 0..Size]
    BY <1>0 DEF BenchInit
  <2>4. /\ state = "set" /\ remaining = 0 /\ benchAsync = None /\ request = "none"
        /\ jobNow \in {"warm", "bench"} /\ drawn = 0 /\ seqNow = 1 /\ paused = FALSE
        /\ loop = "start" /\ reported = FALSE /\ confused = FALSE
    BY DEF BenchInit
  <2>5. remaining \in Int /\ drawn \in 0..Size /\ seqNow \in Nat
    BY <1>0, <2>4, SMT
  <2>6. paused \in BOOLEAN /\ reported \in BOOLEAN /\ confused \in BOOLEAN
    BY <2>4, Zenon
  <2>7. /\ state \in {"set", "null"} /\ benchAsync \in {None, "idle", "sent"}
        /\ request \in {"none", "create", "start", "done"}
        /\ loop \in {"start", "idle", "reset", "touch", "join", "stopped"}
    BY <2>4
  <2> QED
    BY <2>1, <2>2, <2>3, <2>4, <2>5, <2>6, <2>7, Zenon DEF BenchTypeOK
<1>2. CountInv
  BY DEF BenchInit, CountInv, Through, None
<1>3. JobInv
  BY DEF BenchInit, JobInv, None
<1>4. LedgerInv
  <2>1. \A w \in Threads : own[w] = None /\ at[w] = "test"
    BY DEF BenchInit
  <2>2. \A w \in Threads, n \in Nat : ~Holding(w) /\ ~Keeps(w, n) /\ at[w] # "sum"
    BY <2>1 DEF Holding, Keeps, None
  <2>3. drawn = 0 /\ \A n \in 0..(Size - 1) : counted[n] = 0
    BY DEF BenchInit
  <2> QED
    BY <1>0, <2>2, <2>3 DEF LedgerInv
<1>5. ResultComplete
  BY DEF BenchInit, ResultComplete
<1> QED
  BY <1>1, <1>2, <1>3, <1>4, <1>5 DEF BenchInv

-----------------------------------------------------------------------------
(* The types.                                                              *)

LEMMA LoopTypes ==
  ASSUME BenchTypeOK, BenchLoop \/ CreateReply \/ RequestFails \/ Toggle \/ Quiet
  PROVE  BenchTypeOK'
<1>0. Size \in Nat \ {0} /\ Cardinality(Threads) \in Nat
  BY BenchAssumption, FS_CardinalityType
<1>1. CASE BenchStart
  BY <1>0, <1>1 DEF BenchStart, BenchTypeOK, stateVars, loopVars, ownVars, historyVars
<1>2. CASE CreateReply
  BY <1>0, <1>2 DEF CreateReply, BenchTypeOK, stateVars, loopVars, ownVars, historyVars
<1>3. CASE BenchReset
  BY <1>0, <1>3 DEF BenchReset, BenchTypeOK, stateVars, loopVars, ownVars, historyVars
<1>4. CASE BenchTouch
  BY <1>0, <1>4 DEF BenchTouch, BenchTypeOK, stateVars, loopVars, ownVars, historyVars
<1>5. CASE Toggle
  BY <1>0, <1>5 DEF Toggle, BenchTypeOK, stateVars, loopVars, ownVars, historyVars
<1>6. CASE RequestFails
  BY <1>0, <1>6 DEF RequestFails, BenchTypeOK, stateVars, loopVars, ownVars, historyVars
<1>7. CASE Report
  BY <1>0, <1>7 DEF Report, BenchTypeOK, stateVars, loopVars, ownVars, historyVars
<1>8. CASE TimerStops
  BY <1>0, <1>8 DEF TimerStops, BenchTypeOK, stateVars, loopVars, ownVars, historyVars
<1>9. CASE BenchJoin
  BY <1>0, <1>9 DEF BenchJoin, BenchTypeOK, stateVars, loopVars, ownVars, historyVars
<1>10. CASE Quiet
  BY <1>0, <1>10 DEF Quiet, BenchTypeOK, stateVars, loopVars, ownVars, historyVars, benchVars
<1> QED
  BY <1>1, <1>2, <1>3, <1>4, <1>5, <1>6, <1>7, <1>8, <1>9, <1>10 DEF BenchLoop

LEMMA ThreadTypes ==
  ASSUME BenchTypeOK, JobInv, NEW w \in Threads, HashingStep(w)
  PROVE  BenchTypeOK'
<1>0. Size \in Nat \ {0} /\ Reserve \in Nat \ {0}
  BY BenchAssumption
<1>1. CASE SelfTest(w)
  BY <1>0, <1>1 DEF SelfTest, To, Labels, BenchTypeOK, stateVars, loopVars, ownVars, historyVars
<1>2. CASE FetchJob(w)
  BY <1>0, <1>2 DEF FetchJob, To, Labels, BenchTypeOK, stateVars, loopVars, ownVars, historyVars
<1>3. CASE LeaveLoop(w)
  BY <1>0, <1>3 DEF LeaveLoop, To, Labels, BenchTypeOK, stateVars, loopVars, ownVars, historyVars
<1>4. CASE AddJob(w)
  BY <1>0, <1>4 DEF AddJob, To, Labels, BenchTypeOK, stateVars, loopVars, ownVars, historyVars
<1>5. CASE DrawNonce(w)
  <2>1. drawn' \in 0..Size
    BY <1>0, <1>5 DEF DrawNonce, BenchTypeOK
  <2>2. at' \in [Threads -> Labels] /\ current' \in [Threads -> 0..Size] /\ confused' \in BOOLEAN
    BY <1>0, <1>5 DEF DrawNonce, BenchTypeOK, Labels, To
  <2> QED
    BY <1>0, <1>5, <2>1, <2>2 DEF DrawNonce, BenchTypeOK, stateVars, loopVars, ownVars, historyVars
<1>6. CASE Hash(w)
  <2>1. UNCHANGED <<stateVars, loopVars, drawn, ownVars, historyVars>>
    BY <1>6, Zenon DEF Hash
  <2>2. \E label \in Labels : at' = [at EXCEPT ![w] = label]
    BY <1>6 DEF Hash, To, Labels
  <2>3. at' \in [Threads -> Labels]
    BY <2>2 DEF BenchTypeOK
  <2> QED
    BY <2>1, <2>3 DEF BenchTypeOK, stateVars, loopVars, ownVars, historyVars
<1>7. CASE Sum(w)
  <2>1. counted' \in [0..(Size - 1) -> Nat]
    BY <1>0, <1>7 DEF Sum, BenchTypeOK, JobInv
  <2> QED
    BY <1>0, <1>7, <2>1 DEF Sum, To, Labels, BenchTypeOK, stateVars, loopVars, ownVars, historyVars
<1>8. CASE Done(w)
  BY <1>0, <1>8 DEF Done, To, Labels, BenchTypeOK, stateVars, loopVars, ownVars, historyVars
<1>9. CASE DoneOnNull(w)
  BY <1>0, <1>9 DEF DoneOnNull, To, Labels, BenchTypeOK, stateVars, loopVars, ownVars, historyVars
<1>10. CASE Unlock(w)
  BY <1>0, <1>10 DEF Unlock, To, Labels, BenchTypeOK, stateVars, loopVars, ownVars, historyVars
<1> QED
  BY <1>1, <1>2, <1>3, <1>4, <1>5, <1>6, <1>7, <1>8, <1>9, <1>10 DEF HashingStep

-----------------------------------------------------------------------------
(* The jobs.                                                               *)

LEMMA LoopJobs ==
  ASSUME BenchTypeOK, JobInv, BenchLoop \/ CreateReply \/ RequestFails \/ Toggle \/ Quiet
  PROVE  JobInv'
<1>1. CASE BenchStart
  BY <1>1 DEF BenchStart, BenchTypeOK, JobInv, stateVars, loopVars, ownVars, historyVars
<1>2. CASE CreateReply
  BY <1>2 DEF CreateReply, BenchTypeOK, JobInv, stateVars, loopVars, ownVars, historyVars
<1>3. CASE BenchReset
  BY <1>3 DEF BenchReset, BenchTypeOK, JobInv, stateVars, loopVars, ownVars, historyVars
<1>4. CASE BenchTouch
  BY <1>4 DEF BenchTouch, BenchTypeOK, JobInv, stateVars, loopVars, ownVars, historyVars
<1>5. CASE Toggle
  BY <1>5 DEF Toggle, BenchTypeOK, JobInv, stateVars, loopVars, ownVars, historyVars
<1>6. CASE RequestFails
  BY <1>6 DEF RequestFails, BenchTypeOK, JobInv, stateVars, loopVars, ownVars, historyVars
<1>7. CASE Report
  BY <1>7 DEF Report, BenchTypeOK, JobInv, stateVars, loopVars, ownVars, historyVars
<1>8. CASE TimerStops
  BY <1>8 DEF TimerStops, BenchTypeOK, JobInv, stateVars, loopVars, ownVars, historyVars
<1>9. CASE BenchJoin
  BY <1>9 DEF BenchJoin, BenchTypeOK, JobInv, stateVars, loopVars, ownVars, historyVars
<1>10. CASE Quiet
  BY <1>10 DEF Quiet, BenchTypeOK, JobInv, stateVars, loopVars, ownVars, historyVars, benchVars
<1> QED
  BY <1>1, <1>2, <1>3, <1>4, <1>5, <1>6, <1>7, <1>8, <1>9, <1>10 DEF BenchLoop

LEMMA ThreadJobs ==
  ASSUME BenchTypeOK, JobInv, NEW w \in Threads, HashingStep(w)
  PROVE  JobInv'
<1>0. Size \in Nat \ {0}
  BY BenchAssumption
<1>1. CASE SelfTest(w)
  BY <1>0, <1>1 DEF SelfTest, To, None, BenchTypeOK, JobInv, stateVars, loopVars, ownVars, historyVars
<1>2. CASE FetchJob(w)
  BY <1>0, <1>2 DEF FetchJob, To, None, BenchTypeOK, JobInv, stateVars, loopVars, ownVars, historyVars
<1>3. CASE LeaveLoop(w)
  BY <1>0, <1>3 DEF LeaveLoop, To, None, BenchTypeOK, JobInv, stateVars, loopVars, ownVars, historyVars
<1>4. CASE AddJob(w)
  BY <1>0, <1>4 DEF AddJob, To, None, BenchTypeOK, JobInv, stateVars, loopVars, ownVars, historyVars
<1>5. CASE DrawNonce(w)
  BY <1>0, <1>5 DEF DrawNonce, To, None, BenchTypeOK, JobInv, stateVars, loopVars, ownVars, historyVars
<1>6. CASE Hash(w)
  BY <1>0, <1>6 DEF Hash, To, None, BenchTypeOK, JobInv, stateVars, loopVars, ownVars, historyVars
<1>7. CASE Sum(w)
  BY <1>0, <1>7 DEF Sum, To, None, BenchTypeOK, JobInv, stateVars, loopVars, ownVars, historyVars
<1>8. CASE Done(w)
  BY <1>0, <1>8 DEF Done, To, None, BenchTypeOK, JobInv, stateVars, loopVars, ownVars, historyVars
<1>9. CASE DoneOnNull(w)
  BY <1>0, <1>9 DEF DoneOnNull, To, None, BenchTypeOK, JobInv, stateVars, loopVars, ownVars, historyVars
<1>10. CASE Unlock(w)
  BY <1>0, <1>10 DEF Unlock, To, None, BenchTypeOK, JobInv, stateVars, loopVars, ownVars, historyVars
<1> QED
  BY <1>1, <1>2, <1>3, <1>4, <1>5, <1>6, <1>7, <1>8, <1>9, <1>10 DEF HashingStep

-----------------------------------------------------------------------------
(* The count of threads, and the result.                                   *)

LEMMA BusyFinite == IsFiniteSet(Busy) /\ Cardinality(Busy) \in Nat
  BY BenchAssumption, FS_Subset, FS_CardinalityType DEF Busy

\* As long as nobody gets through, the same threads are busy.
LEMMA SameBusy ==
  ASSUME \A v \in Threads : Through(v)' = Through(v)
  PROVE  Busy' = Busy
  BY DEF Busy

LEMMA LoopCounts ==
  ASSUME BenchInv, BenchLoop \/ CreateReply \/ RequestFails \/ Toggle \/ Quiet
  PROVE  CountInv' /\ ResultComplete'
<1>1. BenchTypeOK /\ CountInv /\ JobInv /\ LedgerInv /\ ResultComplete
  BY DEF BenchInv
<1>2. UNCHANGED <<at, nonce, own, counted, confused>>
  BY DEF BenchLoop, BenchStart, CreateReply, BenchReset, BenchTouch, Toggle, RequestFails, Report,
         TimerStops, BenchJoin, Quiet, stateVars, loopVars, ownVars, historyVars, benchVars
<1>3. Busy' = Busy /\ \A v \in Threads : Through(v)' = Through(v)
  BY <1>2, SameBusy DEF Through
<1>4. CASE BenchStart
  <2>1. state = "set" => Busy = Threads
    BY <1>1, <1>4 DEF BenchStart, CountInv, Busy
  <2>2. state = "set" => benchAsync = None
    BY <1>1, <1>4 DEF BenchStart, CountInv
  <2>3. ResultComplete'
    BY <1>1, <1>2, <1>4 DEF BenchStart, ResultComplete, historyVars
  <2> QED
    BY <1>1, <1>2, <1>3, <1>4, <2>1, <2>2, <2>3 DEF BenchStart, CountInv, None
<1>5. CASE CreateReply
  BY <1>1, <1>2, <1>3, <1>5 DEF CreateReply, BenchTypeOK, CountInv, JobInv, ResultComplete, stateVars, loopVars, ownVars, historyVars
<1>6. CASE BenchReset
  BY <1>1, <1>2, <1>3, <1>6 DEF BenchReset, BenchTypeOK, CountInv, JobInv, ResultComplete, stateVars, loopVars, ownVars, historyVars
<1>7. CASE BenchTouch
  BY <1>1, <1>2, <1>3, <1>7 DEF BenchTouch, BenchTypeOK, CountInv, JobInv, ResultComplete, stateVars, loopVars, ownVars, historyVars
<1>8. CASE Toggle
  BY <1>1, <1>2, <1>3, <1>8 DEF Toggle, BenchTypeOK, CountInv, JobInv, ResultComplete, stateVars, loopVars, ownVars, historyVars
<1>9. CASE RequestFails
  BY <1>1, <1>2, <1>9 DEF RequestFails, Finished, CountInv, ResultComplete, stateVars, loopVars, ownVars, historyVars
<1>10. CASE Report
  <2>1. Busy = {} /\ jobNow = "bench" /\ loop = "idle" /\ \E w \in Threads : TRUE
    BY <1>1, <1>10, BusyFinite, FS_EmptySet DEF Report, CountInv, None
  <2>2. \A w \in Threads : Through(w) /\ own[w] = "bench" /\ nonce[w] = Size
    BY <1>1, <1>10, <2>1 DEF Report, CountInv, Busy
  <2>3. \A w \in Threads : Holding(w) /\ \A n \in 0..(Size - 1) : ~Keeps(w, n)
    BY <2>2, BenchAssumption DEF Holding, Keeps, Through
  <2>4. ASSUME ~confused PROVE \A n \in 0..(Size - 1) : counted[n] = 1
    <3>1. Counting
      BY <2>1, <2>4 DEF Counting
    <3>2. drawn = Size
      BY <1>1, <2>1, <2>2, <2>3, <3>1, BenchAssumption DEF LedgerInv, BenchTypeOK
    <3> QED
      BY <1>1, <2>3, <3>1, <3>2, BenchAssumption DEF LedgerInv
  <2>5. DOMAIN counted = 0..(Size - 1)
    BY <1>1 DEF BenchTypeOK
  <2>6. ResultComplete'
    BY <1>2, <2>2, <2>4, <2>5 DEF ResultComplete, Through
  <2> QED
    BY <1>10, <2>6 DEF Report, CountInv
<1>11. CASE TimerStops
  BY <1>1, <1>2, <1>11 DEF TimerStops, Finished, CountInv, ResultComplete, stateVars, loopVars, ownVars, historyVars
<1>12. CASE BenchJoin
  BY <1>1, <1>2, <1>3, <1>12 DEF BenchJoin, BenchTypeOK, CountInv, JobInv, ResultComplete, stateVars, loopVars, ownVars, historyVars
<1>13. CASE Quiet
  BY <1>1, <1>2, <1>3, <1>13 DEF Quiet, BenchTypeOK, CountInv, JobInv, ResultComplete, stateVars, loopVars, ownVars, historyVars, benchVars
<1> QED
  BY <1>4, <1>5, <1>6, <1>7, <1>8, <1>9, <1>10, <1>11, <1>12, <1>13 DEF BenchLoop

LEMMA ThreadCounts ==
  ASSUME BenchInv, NEW w \in Threads, HashingStep(w)
  PROVE  CountInv' /\ ResultComplete'
<1>1. BenchTypeOK /\ CountInv /\ JobInv /\ LedgerInv /\ ResultComplete
  BY DEF BenchInv
<1>2. reported' = reported /\ seqNow' = seqNow /\ state' = state /\ loop' = loop /\ jobNow' = jobNow
  BY DEF HashingStep, SelfTest, FetchJob, LeaveLoop, AddJob, DrawNonce, Hash, Sum, Done, DoneOnNull,
         Unlock, stateVars, loopVars, historyVars
\* A thread that is through touches nothing.
<1>3. ResultComplete'
  <2>1. CASE reported /\ at[w] \in {"unlock", "exit"}
    <3>1. Unlock(w)
      BY <2>1 DEF HashingStep, SelfTest, FetchJob, LeaveLoop, AddJob, DrawNonce, Hash, Sum, Done, DoneOnNull
    <3> QED
      BY <1>1, <2>1, <3>1 DEF Unlock, To, BenchTypeOK, ResultComplete, historyVars
  <2> QED
    BY <1>1, <1>2, <2>1 DEF ResultComplete
<1>4. CASE SelfTest(w) \/ FetchJob(w) \/ AddJob(w) \/ DrawNonce(w) \/ Hash(w) \/ Sum(w) \/ DoneOnNull(w)
  <2>1. UNCHANGED <<remaining, benchAsync>>
    BY <1>4 DEF SelfTest, FetchJob, AddJob, DrawNonce, Hash, Sum, DoneOnNull, stateVars
  <2>2. ~Through(w) /\ ~Through(w)' /\ \A v \in Threads \ {w} : at'[v] = at[v]
    BY <1>1, <1>4 DEF SelfTest, FetchJob, AddJob, DrawNonce, Hash, Sum, DoneOnNull, To, Through, BenchTypeOK
  <2>3. \A v \in Threads \ {w} : own'[v] = own[v] /\ nonce'[v] = nonce[v]
    BY <1>1, <1>4 DEF SelfTest, FetchJob, AddJob, DrawNonce, Hash, Sum, DoneOnNull, BenchTypeOK, ownVars
  <2>4. \A v \in Threads : Through(v)' = Through(v)
    BY <2>2 DEF Through
  <2>5. Busy' = Busy
    BY <2>4, SameBusy
  <2>6. CountInv'
    BY <1>1, <1>2, <2>1, <2>2, <2>3, <2>4, <2>5 DEF CountInv
  <2> QED
    BY <1>3, <2>6
<1>5. CASE LeaveLoop(w)
  <2>1. state # "set"
    BY <1>1, <1>5 DEF LeaveLoop, CountInv
  <2> QED
    BY <1>2, <1>3, <2>1 DEF CountInv
<1>6. CASE Unlock(w)
  <2>1. \A v \in Threads : Through(v)' = Through(v)
    BY <1>1, <1>6 DEF Unlock, To, Through, BenchTypeOK
  <2>2. Busy' = Busy
    BY <2>1, SameBusy
  <2>3. UNCHANGED <<remaining, benchAsync, own, nonce>>
    BY <1>6 DEF Unlock, ownVars
  <2>4. CountInv'
    BY <1>1, <1>2, <2>1, <2>2, <2>3 DEF CountInv
  <2> QED
    BY <1>3, <2>4
<1>7. CASE Done(w)
  <2>1. /\ at[w] = "done" /\ state = "set" /\ benchAsync # None
        /\ remaining' = remaining - 1
        /\ benchAsync' = (IF remaining' = 0 THEN "sent" ELSE benchAsync)
        /\ UNCHANGED <<own, nonce>>
    BY <1>7 DEF Done, ownVars
  <2>2. /\ ~Through(w) /\ Through(w)'
        /\ \A v \in Threads \ {w} : Through(v)' = Through(v)
    BY <1>1, <1>7 DEF Done, To, Through, BenchTypeOK
  <2>3. Busy' = Busy \ {w} /\ w \in Busy
    BY <2>2 DEF Busy
  <2>4. Cardinality(Busy') = Cardinality(Busy) - 1
    BY <2>3, BusyFinite, FS_RemoveElement
  <2>5. remaining = Cardinality(Busy) /\ Cardinality(Busy) # 0
    BY <1>1, <2>1, <2>3, BusyFinite, FS_EmptySet DEF CountInv
  <2>6. own[w] = "bench" /\ nonce[w] = Size /\ jobNow = "bench"
    BY <1>1, <2>1 DEF JobInv
  <2>7. remaining' = Cardinality(Busy')
    BY <2>1, <2>4, <2>5
  <2>8. benchAsync' = "sent" => remaining' = 0
    BY <1>1, <2>1, <2>5 DEF CountInv
  <2>9. \A v \in Threads : Through(v)' => own'[v] = "bench" /\ nonce'[v] = Size
    BY <1>1, <2>1, <2>2, <2>6 DEF CountInv
  <2>10. loop # "start" /\ seqNow # 0
    BY <1>1, <2>1 DEF CountInv
  <2>11. benchAsync' # None
    BY <2>1 DEF None
  <2>12. CountInv'
    BY <1>2, <2>2, <2>6, <2>7, <2>8, <2>9, <2>10, <2>11 DEF CountInv
  <2> QED
    BY <1>3, <2>12
<1> QED
  BY <1>4, <1>5, <1>6, <1>7 DEF HashingStep

-----------------------------------------------------------------------------
(* Where the nonces are.                                                   *)

LEMMA LoopLedger ==
  ASSUME BenchInv, BenchLoop \/ CreateReply \/ RequestFails \/ Toggle \/ Quiet
  PROVE  LedgerInv'
<1>1. BenchTypeOK /\ JobInv /\ LedgerInv
  BY DEF BenchInv
<1>2. UNCHANGED <<at, nonce, own, current, counted, confused>>
  BY DEF BenchLoop, BenchStart, CreateReply, BenchReset, BenchTouch, Toggle, RequestFails, Report,
         TimerStops, BenchJoin, Quiet, stateVars, loopVars, ownVars, historyVars, benchVars
<1>3. \A v \in Threads : (Holding(v)' <=> Holding(v)) /\ \A n \in 0..(Size - 1) : Keeps(v, n)' <=> Keeps(v, n)
  BY <1>2 DEF Holding, Keeps
\* Only the reset begins to count.
<1>4. CASE BenchReset
  <2>1. ~Counting /\ drawn' = 0
    BY <1>4 DEF BenchReset, Counting
  <2>2. CASE confused
    BY <1>2, <2>2 DEF LedgerInv, Counting
  <2>3. CASE ~confused
    <3>1. /\ \A v \in Threads : ~Holding(v) /\ at[v] # "sum"
          /\ \A n \in 0..(Size - 1) : counted[n] = 0
      BY <1>1, <2>1, <2>3 DEF LedgerInv
    <3>2. \A v \in Threads, n \in 0..(Size - 1) : ~Keeps(v, n)
      BY <3>1 DEF Keeps
    <3> QED
      BY <1>2, <1>3, <2>1, <3>1, <3>2, BenchAssumption DEF LedgerInv
  <2> QED
    BY <2>2, <2>3
\* When the real job is stored, no thread has it.
<1>5. CASE CreateReply
  <2>1. ~Counting /\ ~Counting'
    BY <1>1, <1>5 DEF CreateReply, JobInv, Counting
  <2> QED
    BY <1>1, <1>2, <1>3, <2>1 DEF LedgerInv
<1>6. CASE BenchStart \/ BenchTouch \/ Report \/ TimerStops \/ BenchJoin \/ RequestFails \/ Toggle \/ Quiet
  <2>1. drawn' = drawn /\ jobNow' = jobNow
    BY <1>6 DEF BenchStart, BenchTouch, Report, TimerStops, BenchJoin, RequestFails, Toggle, Quiet,
                stateVars, loopVars, benchVars
  <2>2. (loop # "reset" /\ loop' # "reset") \/ loop' = loop
    BY <1>6 DEF BenchStart, BenchTouch, Report, TimerStops, BenchJoin, RequestFails, Toggle, Quiet,
                loopVars, benchVars
  <2>3. Counting' = Counting
    BY <1>2, <2>1, <2>2 DEF Counting
  <2> QED
    BY <1>1, <1>2, <1>3, <2>1, <2>3 DEF LedgerInv
<1> QED
  BY <1>4, <1>5, <1>6 DEF BenchLoop

LEMMA ThreadLedger ==
  ASSUME BenchInv, NEW w \in Threads, HashingStep(w)
  PROVE  LedgerInv'
<1>1. BenchTypeOK /\ JobInv /\ LedgerInv /\ Size \in Nat \ {0} /\ BenchTypeOK'
  BY BenchAssumption, ThreadTypes DEF BenchInv
<1>2. loop' = loop /\ jobNow' = jobNow
  BY DEF HashingStep, SelfTest, FetchJob, LeaveLoop, AddJob, DrawNonce, Hash, Sum, Done, DoneOnNull,
         Unlock, loopVars
\* Most steps move no nonce.
<1>3. CASE \/ SelfTest(w) \/ FetchJob(w) \/ LeaveLoop(w) \/ AddJob(w) \/ Hash(w)
           \/ Done(w) \/ DoneOnNull(w) \/ Unlock(w)
  <2>1. UNCHANGED <<drawn, nonce, current, counted, confused>>
    BY <1>3 DEF SelfTest, FetchJob, LeaveLoop, AddJob, Hash, Done, DoneOnNull, Unlock, ownVars, historyVars
  <2>2. Counting' = Counting
    BY <1>2, <2>1 DEF Counting
  <2>3. \A v \in Threads \ {w} : at'[v] = at[v] /\ own'[v] = own[v]
    BY <1>1, <1>3 DEF SelfTest, FetchJob, LeaveLoop, AddJob, Hash, Done, DoneOnNull, Unlock, To,
                      BenchTypeOK, ownVars
  <2>4. at[w] # "sum" /\ at'[w] # "sum"
    BY <1>1, <1>3 DEF SelfTest, FetchJob, LeaveLoop, AddJob, Hash, Done, DoneOnNull, Unlock, To, BenchTypeOK
  <2>5. Holding(w)' <=> Holding(w)
    <3>1. CASE AddJob(w)
      BY <1>1, <3>1 DEF AddJob, To, Holding, BenchTypeOK, JobInv
    <3>2. CASE ~AddJob(w)
      BY <1>1, <1>3, <3>2 DEF SelfTest, FetchJob, LeaveLoop, Hash, Done, DoneOnNull, Unlock, To,
                              Holding, BenchTypeOK, ownVars
    <3> QED
      BY <3>1, <3>2
  <2>6. \A v \in Threads : /\ Holding(v)' <=> Holding(v)
                           /\ (at'[v] = "sum") = (at[v] = "sum")
    BY <2>3, <2>4, <2>5 DEF Holding
  <2>7. \A v \in Threads, n \in 0..(Size - 1) : Keeps(v, n)' <=> Keeps(v, n)
    BY <2>1, <2>6 DEF Keeps
  <2> QED
    BY <1>1, <2>1, <2>2, <2>6, <2>7 DEF LedgerInv
\* The nonce that is drawn is the next one, and nobody's.
<1>4. CASE DrawNonce(w)
  <2>1. /\ at[w] \in {"save", "round"} /\ UNCHANGED <<own, counted>>
        /\ nonce' = [nonce EXCEPT ![w] = drawn]
        /\ \A v \in Threads \ {w} : /\ at'[v] = at[v] /\ current'[v] = current[v]
                                    /\ own'[v] = own[v] /\ nonce'[v] = nonce[v]
    BY <1>1, <1>4 DEF DrawNonce, To, BenchTypeOK
  <2>2. CASE confused'
    BY <2>2 DEF LedgerInv, Counting
  <2>3. CASE ~confused' /\ own[w] # "bench"
    <3>1. ~Counting /\ ~Counting' /\ ~confused
      BY <1>1, <1>2, <1>4, <2>3 DEF DrawNonce, Counting, BenchTypeOK
    <3>2. at'[w] # "sum" /\ ~Holding(w)'
      BY <1>1, <1>4, <2>1, <2>3 DEF DrawNonce, To, Holding, BenchTypeOK
    <3>3. \A v \in Threads : ~Holding(v)' /\ at'[v] # "sum"
      BY <1>1, <2>1, <3>1, <3>2 DEF LedgerInv, Holding
    <3> QED
      BY <1>1, <2>1, <3>1, <3>3 DEF LedgerInv
  <2>4. CASE ~confused' /\ own[w] = "bench"
    <3>1. Counting /\ Counting' /\ ~confused
      BY <1>1, <1>2, <1>4, <2>4 DEF DrawNonce, Counting, JobInv
    <3>2. /\ drawn' = (IF drawn + 1 < Size THEN drawn + 1 ELSE Size)
          /\ nonce'[w] = drawn /\ drawn \in 0..Size
      BY <1>1, <1>4, <2>4 DEF DrawNonce, BenchTypeOK
    <3>3. /\ at[w] = "round" => at'[w] = "sum" /\ current'[w] = nonce[w]
          /\ at[w] = "save" => at'[w] = "hash"
          /\ Holding(w)'
      BY <1>1, <1>4, <2>1, <2>4 DEF DrawNonce, To, Holding, BenchTypeOK
    <3>4. \A v \in Threads \ {w} : /\ Holding(v)' <=> Holding(v)
                                  /\ \A n \in 0..(Size - 1) : Keeps(v, n)' <=> Keeps(v, n)
      BY <2>1 DEF Holding, Keeps
    <3>5. \A n \in 0..(Size - 1) : Keeps(w, n)' <=> (Keeps(w, n) \/ n = drawn)
      <4>1. CASE at[w] = "save"
        BY <2>1, <3>2, <3>3, <4>1 DEF Keeps, Holding
      <4>2. CASE at[w] = "round"
        BY <2>1, <2>4, <3>2, <3>3, <4>2 DEF Keeps, Holding
      <4> QED
        BY <2>1, <4>1, <4>2
    <3>6. \A n \in 0..(Size - 1) : n >= drawn => counted[n] = 0 /\ \A v \in Threads : ~Keeps(v, n)
      BY <1>1, <3>1 DEF LedgerInv
    <3>7. at[w] = "round" => nonce[w] < drawn
      <4>1. SUFFICES ASSUME at[w] = "round" PROVE nonce[w] < drawn
        OBVIOUS
      <4>2. nonce[w] \in 0..(Size - 1) /\ Keeps(w, nonce[w])
        BY <1>1, <2>4, <4>1 DEF JobInv, BenchTypeOK, Keeps, Holding
      <4> QED
        BY <3>2, <3>6, <4>2
    <3>8. \A v \in Threads : Holding(v)' => nonce'[v] <= drawn'
      <4>1. \A v \in Threads : Holding(v) => nonce[v] <= drawn
        BY <1>1, <3>1, Zenon DEF LedgerInv
      <4>2. drawn <= drawn' /\ drawn \in Int /\ drawn' \in Int
        BY <3>2
      <4>3. \A v \in Threads \ {w} : nonce'[v] = nonce[v] /\ nonce[v] \in Int
        BY <1>1, <2>1 DEF BenchTypeOK
      <4> QED
        BY <3>2, <3>4, <4>1, <4>2, <4>3
    <3>9. \A v \in Threads : at'[v] = "sum" => nonce'[v] # current'[v]
      <4>1. \A v \in Threads \ {w} : at'[v] = "sum" => nonce'[v] # current'[v]
        BY <1>1, <2>1, <3>1 DEF LedgerInv
      <4>2. at'[w] = "sum" => at[w] = "round" /\ nonce'[w] = drawn /\ current'[w] = nonce[w]
        BY <2>1, <3>2, <3>3
      <4>3. drawn \in Int /\ nonce[w] \in Int
        BY <1>1 DEF BenchTypeOK
      <4> QED
        BY <3>7, <4>1, <4>2, <4>3
    <3>10. ASSUME NEW n \in 0..(Size - 1)
           PROVE  /\ n >= drawn' => counted'[n] = 0 /\ \A v \in Threads : ~Keeps(v, n)'
                  /\ n < drawn' => \/ counted'[n] = 0 /\ \E v \in Threads : Keeps(v, n)'
                                   \/ counted'[n] = 1 /\ \A v \in Threads : ~Keeps(v, n)'
                  /\ \A u, v \in Threads : Keeps(u, n)' /\ Keeps(v, n)' => u = v
      <4>1. CASE n = drawn
        <5>1. n < drawn' /\ counted'[n] = 0
          <6>1. n < drawn' /\ n >= drawn
            BY <1>1, <3>2, <4>1
          <6> QED
            BY <2>1, <3>6, <6>1
        <5>2. Keeps(w, n)'
          BY <3>5, <4>1
        <5>3. \A v \in Threads \ {w} : ~Keeps(v, n)'
          BY <3>4, <3>6, <3>2, <4>1
        <5>4. \A v \in Threads : Keeps(v, n)' => v = w
          BY <5>3
        <5>5. ~(n >= drawn')
          BY <1>1, <3>2, <4>1
        <5> QED
          BY <5>1, <5>2, <5>4, <5>5
      <4>2. CASE n # drawn
        <5>1. \A v \in Threads : Keeps(v, n)' <=> Keeps(v, n)
          BY <3>4, <3>5, <4>2
        <5>2. n < drawn' <=> n < drawn
          BY <1>1, <3>2, <4>2
        <5>3. n >= drawn' <=> n >= drawn
          BY <1>1, <3>2, <4>2
        <5> QED
          BY <1>1, <2>1, <3>1, <5>1, <5>2, <5>3 DEF LedgerInv
      <4> QED
        BY <4>1, <4>2
    <3> QED
      BY <3>1, <3>8, <3>9, <3>10 DEF LedgerInv
  <2> QED
    BY <2>2, <2>3, <2>4
\* A nonce that is counted leaves the only thread that has it.
<1>5. CASE Sum(w)
  <2>1. /\ at[w] = "sum" /\ at'[w] = "hash" /\ UNCHANGED <<drawn, own, nonce, confused>>
        /\ counted' = [counted EXCEPT ![current[w]] = @ + 1]
        /\ \A v \in Threads \ {w} : at'[v] = at[v] /\ current'[v] = current[v]
    BY <1>1, <1>5 DEF Sum, To, BenchTypeOK
  <2>2. Counting' = Counting
    BY <1>2, <2>1 DEF Counting
  <2>3. CASE ~Counting
    <3>1. confused
      BY <1>1, <2>1, <2>3 DEF LedgerInv
    <3> QED
      BY <2>1, <2>2, <2>3, <3>1 DEF LedgerInv
  <2>4. CASE Counting
    <3>1. current[w] \in 0..(Size - 1) /\ nonce[w] # current[w]
      BY <1>1, <2>1, <2>4 DEF BenchTypeOK, JobInv, LedgerInv
    <3>2. \A v \in Threads : Holding(v)' <=> Holding(v)
      BY <2>1 DEF Holding
    <3>3. \A v \in Threads \ {w}, n \in 0..(Size - 1) : Keeps(v, n)' <=> Keeps(v, n)
      BY <2>1, <3>2 DEF Keeps
    <3>4. \A n \in 0..(Size - 1) : Keeps(w, n)' <=> (Keeps(w, n) /\ n # current[w])
      BY <2>1, <3>1, <3>2 DEF Keeps
    <3>5. Keeps(w, current[w])
      BY <2>1 DEF Keeps
    <3>6. \A v \in Threads : Holding(v)' => nonce'[v] <= drawn'
      BY <1>1, <2>1, <2>4, <3>2 DEF LedgerInv
    <3>7. \A v \in Threads : at'[v] = "sum" => nonce'[v] # current'[v]
      BY <1>1, <2>1, <2>4 DEF LedgerInv
    <3>8. ASSUME NEW n \in 0..(Size - 1)
          PROVE  /\ n >= drawn' => counted'[n] = 0 /\ \A v \in Threads : ~Keeps(v, n)'
                 /\ n < drawn' => \/ counted'[n] = 0 /\ \E v \in Threads : Keeps(v, n)'
                                  \/ counted'[n] = 1 /\ \A v \in Threads : ~Keeps(v, n)'
                 /\ \A u, v \in Threads : Keeps(u, n)' /\ Keeps(v, n)' => u = v
      <4>1. CASE n = current[w]
        <5>1. n < drawn /\ counted[n] = 0 /\ \A v \in Threads \ {w} : ~Keeps(v, n)
          <6>1. Keeps(w, n) /\ drawn \in Int /\ n \in Int
            BY <1>1, <3>5, <4>1 DEF BenchTypeOK
          <6>2. /\ n >= drawn => ~Keeps(w, n)
                /\ n < drawn => counted[n] = 0 \/ ~Keeps(w, n)
                /\ \A u, v \in Threads : Keeps(u, n) /\ Keeps(v, n) => u = v
            BY <1>1, <2>4, Zenon DEF LedgerInv
          <6> QED
            BY <6>1, <6>2
        <5>2. counted'[n] = 1
          BY <1>1, <2>1, <4>1, <5>1 DEF BenchTypeOK
        <5>3. \A v \in Threads : ~Keeps(v, n)'
          BY <3>3, <3>4, <4>1, <5>1
        <5>4. n < drawn' /\ ~(n >= drawn')
          BY <1>1, <2>1, <5>1 DEF BenchTypeOK
        <5> QED
          BY <5>2, <5>3, <5>4
      <4>2. CASE n # current[w]
        <5>1. counted'[n] = counted[n]
          BY <1>1, <2>1, <4>2 DEF BenchTypeOK
        <5>2. \A v \in Threads : Keeps(v, n)' <=> Keeps(v, n)
          BY <3>3, <3>4, <4>2
        <5>3. drawn' = drawn
          BY <2>1
        <5> QED
          BY <1>1, <2>4, <5>1, <5>2, <5>3 DEF LedgerInv
      <4> QED
        BY <4>1, <4>2
    <3> QED
      BY <2>2, <2>4, <3>6, <3>7, <3>8 DEF LedgerInv
  <2> QED
    BY <2>3, <2>4
<1> QED
  BY <1>3, <1>4, <1>5 DEF HashingStep

-----------------------------------------------------------------------------
(* The theorems.                                                           *)

LEMMA BenchNextInv == BenchInv /\ [BenchNext]_benchVars => BenchInv'
<1> SUFFICES ASSUME BenchInv, [BenchNext]_benchVars PROVE BenchInv'
  OBVIOUS
<1>1. CASE BenchLoop \/ CreateReply \/ RequestFails \/ Toggle \/ Quiet
  BY <1>1, LoopTypes, LoopJobs, LoopCounts, LoopLedger DEF BenchInv
<1>2. CASE \E w \in Threads : HashingStep(w)
  BY <1>2, ThreadTypes, ThreadJobs, ThreadCounts, ThreadLedger DEF BenchInv
<1>3. CASE UNCHANGED benchVars
  <2>1. UNCHANGED <<state, remaining, benchAsync, holder, request, jobNow, seqNow, paused, loop, toggles,
                    drawn, at, got, own, seq, nonce, current, counted, reported, confused>>
    BY <1>3 DEF benchVars, stateVars, loopVars, ownVars, historyVars
  <2>2. BenchTypeOK' /\ JobInv' /\ ResultComplete'
    BY <2>1 DEF BenchInv, BenchTypeOK, JobInv, ResultComplete
  <2>3. CountInv'
    BY <2>1 DEF BenchInv, CountInv, Through, Busy
  <2>4. LedgerInv'
    BY <2>1 DEF BenchInv, LedgerInv, Holding, Keeps, Counting
  <2> QED
    BY <2>2, <2>3, <2>4 DEF BenchInv
<1> QED
  BY <1>1, <1>2, <1>3 DEF BenchNext

LEMMA BenchInvHolds == BenchSpec => []BenchInv
  BY BenchInitInv, BenchNextInv, PTL DEF BenchSpec

\* BenchState::done, with any number of threads: when onBenchDone is called, all of
\* them are through, and the sum of an unconfused benchmark has every nonce once.
THEOREM CompleteWhenReported == BenchSpec => []ResultComplete
<1>1. BenchInv => ResultComplete
  BY DEF BenchInv
<1> QED
  BY BenchInvHolds, <1>1, PTL

\* The count that BenchState::done lowers is that of the threads that are not
\* through, so that it never falls below zero.
THEOREM RemainingCounts ==
  BenchSpec => [](state = "set" /\ benchAsync # None => remaining = Cardinality(Busy))
<1>1. BenchInv => (state = "set" /\ benchAsync # None => remaining = Cardinality(Busy))
  BY DEF BenchInv, CountInv
<1> QED
  BY BenchInvHolds, <1>1, PTL
=============================================================================
