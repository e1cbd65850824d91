------------------------ MODULE WritableStreamProofs ------------------------
(***************************************************************************)
(* Proofs about WritableStream for every set of chunks, every size and     *)
(* every high water mark, zero and below included.                         *)
(***************************************************************************)
EXTENDS WritableStream, SequenceTheorems, TLAPS

\* The prefix sums kept by writeOrBuffer(): one more than there are chunks, each one
\* the previous one plus a chunk, and so never decreasing.
TotalsInv ==
    /\ Len(totals) = Len(accepted) + 1
    /\ totals[1] = 0
    /\ \A i \in 1 .. Len(accepted) : totals[i + 1] = totals[i] + Size[accepted[i]]
    /\ \A i, j \in 1 .. Len(totals) : i <= j => totals[i] <= totals[j]

\* state.writing says whether the underlying system holds a chunk.
InflightInv ==
    /\ writing => Len(inflight) = 1
    /\ ~writing => inflight = <<>>

\* A call is suspended in the _write() of the chunk that is being written, as long as no
\* onwrite() came before its _write() returned.
NestedInv == stack # <<>> /\ ~nested => writing

\* 'finish' is emitted once, after end(); a scheduled emitFinish() found nothing
\* pending, and only a late write can have changed that since.
FinishInv ==
    /\ ended => ending
    /\ finishes = IF ended THEN 1 ELSE 0
    /\ finishTicks = 1 => ending /\ (late \/ flushed = accepted)

\* The inductive invariant.
IInv ==
    /\ TypeOK
    /\ TotalsInv
    /\ InflightInv
    /\ NestedInv
    /\ NothingLost
    /\ LengthIsPending
    /\ NoStall
    /\ DrainToCome
    /\ Backpressure
    /\ FinishInv
    /\ FinishUnlessLate

-----------------------------------------------------------------------------
(***************************************************************************)
(* Facts about sequences.                                                  *)
(***************************************************************************)

\* The queue moves up: taking the head of b next to f changes nothing in f \o b.
LEMMA ShiftHead ==
    ASSUME NEW S, NEW f \in Seq(S), NEW b \in Seq(S), b # <<>>
    PROVE  (f \o <<Head(b)>>) \o Tail(b) = f \o b
  <1>1. b = <<Head(b)>> \o Tail(b) /\ Head(b) \in S /\ Tail(b) \in Seq(S)
    BY HeadTailProperties
  <1>2. QED
    BY <1>1, ConcatAssociative

\* A chunk appended to the last part of three is appended to the whole.
LEMMA AppendAssociative ==
    ASSUME NEW S, NEW f \in Seq(S), NEW b \in Seq(S), NEW c \in S
    PROVE  f \o Append(b, c) = Append(f \o b, c)
  <1>1. <<c>> \in Seq(S) /\ f \o b \in Seq(S)
    BY ConcatProperties
  <1>2. f \o (b \o <<c>>) = (f \o b) \o <<c>>
    BY <1>1, ConcatAssociative
  <1>3. QED
    BY <1>1, <1>2, AppendIsConcat

LEMMA AppendNotEmpty ==
    ASSUME NEW S, NEW b \in Seq(S), NEW c \in S
    PROVE  Append(b, c) \in Seq(S) /\ Append(b, c) # <<>>
  <1>1. Append(b, c) \in Seq(S) /\ Len(Append(b, c)) = Len(b) + 1
    BY AppendProperties
  <1>2. Len(b) \in Nat
    BY LenProperties
  <1>3. QED
    BY <1>1, <1>2

\* Length and first middle element of a concatenation of three.
LEMMA ThreeParts ==
    ASSUME NEW S, NEW f \in Seq(S), NEW m \in Seq(S), NEW b \in Seq(S)
    PROVE  /\ f \o m \o b \in Seq(S)
           /\ Len(f \o m \o b) = Len(f) + Len(m) + Len(b)
           /\ Len(m) = 1 => (f \o m \o b)[Len(f) + 1] = m[1]
  <1>1. f \o m \in Seq(S) /\ Len(f \o m) = Len(f) + Len(m)
    BY ConcatProperties
  <1>2. (f \o m) \o b \in Seq(S) /\ Len((f \o m) \o b) = Len(f) + Len(m) + Len(b)
    BY <1>1, ConcatProperties
  <1>3. ASSUME Len(m) = 1
        PROVE  (f \o m \o b)[Len(f) + 1] = m[1]
    <2>1. Len(f) \in Nat /\ Len(b) \in Nat
      BY LenProperties
    <2>2. Len(f) + 1 \in 1 .. Len(f) + Len(m) /\ Len(f) + 1 \in 1 .. Len(f \o m) + Len(b)
      BY <1>1, <1>3, <2>1
    <2>3. (f \o m)[Len(f) + 1] = m[Len(f) + 1 - Len(f)]
      BY <2>1, <2>2, ConcatProperties
    <2>4. ((f \o m) \o b)[Len(f) + 1] = (f \o m)[Len(f) + 1]
      BY <1>1, <1>3, <2>1, <2>2, ConcatProperties
    <2>5. Len(f) + 1 - Len(f) = 1
      BY <2>1
    <2>6. QED
      BY <2>3, <2>4, <2>5
  <1>4. QED
    BY <1>2, <1>3

-----------------------------------------------------------------------------
(***************************************************************************)
(* What the invariant says about pending chunks.                           *)
(***************************************************************************)

\* The three parts of the accepted chunks add up, and the chunk being written is the
\* one after those flushed.
LEMMA Parts ==
    ASSUME IInv
    PROVE  /\ Len(accepted) = Len(flushed) + Len(inflight) + Len(buffer)
           /\ inflight # <<>> => /\ Len(inflight) = 1
                                 /\ accepted[Len(flushed) + 1] = inflight[1]
           /\ ~writing => inflight = <<>> /\ writingLength = 0
           /\ writing => inflight # <<>> /\ writingLength = Size[inflight[1]]
           /\ writingLength <= length
  <1>1. /\ flushed \in Seq(Chunk) /\ inflight \in Seq(Chunk) /\ buffer \in Seq(Chunk)
        /\ accepted = flushed \o inflight \o buffer
        /\ writing \in BOOLEAN
    BY DEF IInv, TypeOK, NothingLost
  <1>2. /\ Len(accepted) = Len(flushed) + Len(inflight) + Len(buffer)
        /\ Len(inflight) = 1 => accepted[Len(flushed) + 1] = inflight[1]
    BY <1>1, ThreeParts
  <1>3. inflight # <<>> => Len(inflight) = 1
    BY <1>1 DEF IInv, InflightInv
  <1>4. /\ Len(flushed) \in Nat /\ Len(inflight) \in Nat /\ Len(buffer) \in Nat
        /\ totals \in Seq(Nat)
    BY <1>1, LenProperties DEF IInv, TypeOK
  <1>5. Len(inflight) = 0 => writingLength = 0
    BY <1>2, <1>4 DEF IInv, TotalsInv, LengthIsPending
  <1>6. Len(inflight) = 1 => writingLength = Size[inflight[1]]
    <2>1. SUFFICES ASSUME Len(inflight) = 1
                   PROVE  writingLength = Size[inflight[1]]
      OBVIOUS
    <2>2. Len(flushed) + 1 \in 1 .. Len(accepted) /\ Len(flushed) + 1 \in 1 .. Len(totals)
      BY <1>2, <1>4, <2>1 DEF IInv, TotalsInv
    <2>3. totals[Len(flushed) + 1 + 1] = totals[Len(flushed) + 1] + Size[inflight[1]]
      BY <1>2, <2>1, <2>2 DEF IInv, TotalsInv
    <2>4. totals[Len(flushed) + 1] \in Nat /\ inflight[1] \in Chunk
      <3>1. 1 \in 1 .. Len(inflight)
        BY <2>1
      <3>2. QED
        BY <1>1, <1>4, <2>2, <3>1, ElementOfSeq
    <2>5. /\ writingLength = totals[Len(flushed) + 1 + 1] - totals[Len(flushed) + 1]
          /\ Size[inflight[1]] \in Nat
      BY <2>1, <2>4, <1>4, ConstantsAssumption DEF IInv, LengthIsPending
    <2>6. QED
      BY <2>3, <2>4, <2>5
  <1>7. writingLength <= length
    <2> DEFINE a == Len(flushed) + 1
               b == Len(flushed) + Len(inflight) + 1
               c == Len(accepted) + 1
    <2>1. /\ a \in 1 .. Len(totals) /\ b \in 1 .. Len(totals) /\ c \in 1 .. Len(totals)
          /\ b <= c
      BY <1>2, <1>4 DEF IInv, TotalsInv
    <2>2. totals[a] \in Nat /\ totals[b] \in Nat /\ totals[c] \in Nat
      BY <1>4, <2>1, ElementOfSeq
    <2>3. totals[b] <= totals[c]
      BY <2>1 DEF IInv, TotalsInv
    <2>4. length = totals[c] - totals[a] /\ writingLength = totals[b] - totals[a]
      BY DEF IInv, LengthIsPending
    <2>5. QED
      BY <2>2, <2>3, <2>4
  <1>8. writing => Len(inflight) = 1 /\ inflight # <<>>
    <2>1. Len(inflight) = 1 => inflight # <<>>
      OBVIOUS
    <2>2. QED
      BY <2>1 DEF IInv, InflightInv
  <1>9. ~writing => inflight = <<>> /\ Len(inflight) = 0
    BY DEF IInv, InflightInv
  <1>10. QED
    BY <1>2, <1>3, <1>5, <1>6, <1>7, <1>8, <1>9

\* A stream with nothing queued and nothing being written has flushed everything.
LEMMA NothingPending ==
    ASSUME IInv, ~writing, buffer = <<>>
    PROVE  flushed = accepted /\ length = 0
  <1>1. inflight = <<>>
    BY Parts
  <1>2. flushed = accepted
    BY <1>1, ConcatEmptySeq DEF IInv, TypeOK, NothingLost
  <1>3. QED
    BY <1>2 DEF IInv, TypeOK, TotalsInv, LengthIsPending

-----------------------------------------------------------------------------
(***************************************************************************)
(* The invariant holds initially and every action preserves it.            *)
(***************************************************************************)

LEMMA InitIInv == Init => IInv
  <1> SUFFICES ASSUME Init
               PROVE  IInv
    OBVIOUS
  <1> USE DEF Init
  <1>1. TypeOK
    <2>1. <<>> \in Seq(Chunk) /\ <<>> \in Seq(Frame) /\ <<0>> \in Seq(Nat)
      OBVIOUS
    <2>2. QED
      BY <2>1, ConstantsAssumption DEF TypeOK
  <1>2. TotalsInv
    BY DEF TotalsInv
  <1>3. InflightInv /\ NestedInv /\ NothingLost
    BY ConcatEmptySeq, EmptySeq DEF InflightInv, NestedInv, NothingLost
  <1>4. LengthIsPending
    BY DEF LengthIsPending
  <1>5. NoStall /\ DrainToCome /\ FinishInv /\ FinishUnlessLate
    BY DEF NoStall, DrainToCome, FinishInv, FinishUnlessLate
  <1>6. Backpressure
    BY DEF Backpressure
  <1>7. QED
    BY <1>1, <1>2, <1>3, <1>4, <1>5, <1>6 DEF IInv

\* write() and end(chunk) on a stream that has not emitted 'finish'.
LEMMA AcceptIInv ==
    ASSUME IInv, NEW c \in Chunk, NEW f \in Frame,
           ~ended,
           WriteOrBuffer(c, f),
           UNCHANGED <<highWaterMark, ready, ended, flushed, finishes, unwound, nested, rejected>>
    PROVE  IInv'
  <1> DEFINE n == Len(accepted)
  <1>1. /\ accepted \in Seq(Chunk) /\ totals \in Seq(Nat) /\ buffer \in Seq(Chunk)
        /\ inflight \in Seq(Chunk) /\ flushed \in Seq(Chunk) /\ length \in Nat
        /\ stack \in Seq(Frame) /\ Size[c] \in Nat /\ writingLength \in Nat
    BY ConstantsAssumption DEF IInv, TypeOK
  <1>2. /\ Len(totals) = n + 1 /\ n \in Nat /\ n + 1 \in 1 .. Len(totals)
        /\ totals[n + 1] \in Nat
    BY <1>1, LenProperties, ElementOfSeq DEF IInv, TotalsInv
  <1>3. /\ length' = length + Size[c]
        /\ accepted' = Append(accepted, c)
        /\ totals' = Append(totals, totals[n + 1] + Size[c])
        /\ late' = (late \/ ending)
    BY <1>2 DEF WriteOrBuffer
  <1>4. /\ accepted' \in Seq(Chunk) /\ Len(accepted') = n + 1
        /\ \A i \in 1 .. n : accepted'[i] = accepted[i]
        /\ accepted'[n + 1] = c
    BY <1>1, <1>3, AppendProperties
  <1>5. /\ totals' \in Seq(Nat) /\ Len(totals') = n + 2
        /\ \A i \in 1 .. n + 1 : totals'[i] = totals[i]
        /\ totals'[n + 2] = totals[n + 1] + Size[c]
    <2>1. totals[n + 1] + Size[c] \in Nat
      BY <1>1, <1>2
    <2>2. QED
      BY <1>1, <1>2, <1>3, <2>1, AppendProperties
  <1>6. TotalsInv'
    <2>1. \A i \in 1 .. n + 1 : totals'[i + 1] = totals'[i] + Size[accepted'[i]]
      BY <1>2, <1>4, <1>5 DEF IInv, TotalsInv
    <2>2. \A i \in 1 .. n + 1 : totals[i] <= totals[n + 1] /\ totals[i] \in Nat
      BY <1>1, <1>2, ElementOfSeq DEF IInv, TotalsInv
    <2>3. \A i, j \in 1 .. n + 2 : i <= j => totals'[i] <= totals'[j]
      <3>1. SUFFICES ASSUME NEW i \in 1 .. n + 2, NEW j \in 1 .. n + 2, i <= j
                     PROVE  totals'[i] <= totals'[j]
        OBVIOUS
      <3>2. CASE j \in 1 .. n + 1
        <4>1. i \in 1 .. n + 1
          BY <1>2, <3>1, <3>2
        <4>2. totals[i] <= totals[j]
          BY <1>2, <3>1, <3>2, <4>1 DEF IInv, TotalsInv
        <4>3. QED
          BY <1>5, <3>2, <4>1, <4>2
      <3>3. CASE j = n + 2 /\ i \in 1 .. n + 1
        <4>1. totals[i] <= totals[n + 1] /\ totals[i] \in Nat
          BY <2>2, <3>3
        <4>2. totals[i] <= totals[n + 1] + Size[c]
          BY <1>1, <1>2, <4>1
        <4>3. QED
          BY <1>5, <3>3, <4>2
      <3>4. CASE i = n + 2 /\ j = n + 2
        <4>1. totals'[n + 2] \in Nat
          BY <1>1, <1>2, <1>5
        <4>2. QED
          BY <3>4, <4>1
      <3>5. QED
        BY <1>2, <3>1, <3>2, <3>3, <3>4
    <2>4. totals'[1] = 0
      BY <1>2, <1>5 DEF IInv, TotalsInv
    <2>5. QED
      BY <1>2, <1>4, <1>5, <2>1, <2>3, <2>4 DEF TotalsInv
  <1>7. /\ Len(flushed) \in Nat /\ Len(inflight) \in Nat /\ Len(buffer) \in Nat
        /\ n = Len(flushed) + Len(inflight) + Len(buffer)
    BY <1>1, LenProperties, Parts
  <1>8. /\ length' = totals'[Len(accepted') + 1] - totals'[Len(flushed) + 1]
        /\ totals'[Len(flushed) + 1] = totals[Len(flushed) + 1]
        /\ totals[Len(flushed) + 1] \in Nat
    <2>1. Len(flushed) + 1 \in 1 .. n + 1
      BY <1>2, <1>7
    <2>2. totals[Len(flushed) + 1] \in Nat
      BY <1>1, <1>2, <2>1, ElementOfSeq
    <2>3. length = totals[n + 1] - totals[Len(flushed) + 1]
      BY DEF IInv, LengthIsPending
    <2>4. QED
      <3>1. totals'[Len(accepted') + 1] = totals[n + 1] + Size[c]
        <4>1. Len(accepted') + 1 = n + 2
          BY <1>2, <1>4
        <4>2. QED
          BY <1>5, <4>1
      <3>2. totals'[Len(flushed) + 1] = totals[Len(flushed) + 1]
        BY <1>5, <2>1
      <3>3. QED
        <4>1. length + Size[c] = totals[n + 1] + Size[c] - totals[Len(flushed) + 1]
          BY <1>1, <1>2, <2>2, <2>3
        <4>2. length' = length + Size[c]
          BY <1>3
        <4>3. QED
          BY <1>1, <1>2, <2>2, <3>1, <3>2, <4>1, <4>2
  <1>9. FinishInv' /\ FinishUnlessLate'
    <2>1. late \in BOOLEAN /\ ending \in BOOLEAN /\ finishTicks \in {0, 1}
      BY DEF IInv, TypeOK
    <2>2. ended' = ended
      OBVIOUS
    <2>3. finishTicks = 1 => late'
      BY <1>3 DEF IInv, FinishInv
    <2>4. CASE UNCHANGED <<ending, finishTicks>>
      BY <1>3, <2>1, <2>2, <2>3, <2>4 DEF IInv, FinishInv, FinishUnlessLate
    <2>5. CASE ending' = TRUE /\ (finishTicks' = finishTicks)
      BY <1>3, <2>1, <2>2, <2>3, <2>5 DEF IInv, FinishInv, FinishUnlessLate
    <2>6. CASE MustBuffer /\ buffer' # <<>>
      BY <2>4, <2>5, <2>6 DEF WriteOrBuffer, AfterWriteOrBuffer, EndWritable
    <2>7. buffer' = Append(buffer, c) => buffer' # <<>>
      BY <1>1, AppendNotEmpty
    <2>8. QED
      BY <2>4, <2>6, <2>7 DEF WriteOrBuffer
  <1>10. CASE MustBuffer
    <2>1. /\ buffer' = Append(buffer, c)
          /\ needDrain' = (needDrain \/ length' >= highWaterMark)
          /\ UNCHANGED <<writing, writingLength, inflight, stack, highWaterMark, ready, ended,
                         flushed, finishes, unwound, nested, rejected>>
      BY <1>10 DEF WriteOrBuffer, CheckHighWaterMark
    <2>2. buffer' \in Seq(Chunk) /\ buffer' # <<>>
      BY <1>1, <2>1, AppendNotEmpty
    <2>3. ending' \in BOOLEAN /\ finishTicks' \in {0, 1} /\ (ending => ending')
      <3>1. ending \in BOOLEAN /\ finishTicks \in {0, 1}
        BY DEF IInv, TypeOK
      <3>2. \/ ending' = ending /\ finishTicks' = finishTicks
            \/ ending' = TRUE /\ finishTicks' = finishTicks
        BY <1>10, <2>2 DEF WriteOrBuffer, AfterWriteOrBuffer, EndWritable
      <3>3. QED
        BY ONLY <3>1, <3>2
    <2>4. TypeOK'
      <3>1. /\ highWaterMark \in Int /\ ready \in BOOLEAN /\ writing \in BOOLEAN
            /\ writingLength \in Nat /\ needDrain \in BOOLEAN /\ ending \in BOOLEAN
            /\ ended \in BOOLEAN /\ stack \in Seq(Frame) /\ inflight \in Seq(Chunk)
            /\ flushed \in Seq(Chunk) /\ late \in BOOLEAN /\ finishes \in {0, 1}
            /\ unwound \in BOOLEAN /\ nested \in BOOLEAN /\ rejected \in Nat
        BY DEF IInv, TypeOK
      <3>2. length' \in Nat /\ late' \in BOOLEAN
        BY <1>1, <1>3, <3>1
      <3>3. needDrain' \in BOOLEAN
        BY ONLY <2>1, <3>1
      <3>4. accepted' \in Seq(Chunk) /\ totals' \in Seq(Nat)
        BY <1>4, <1>5
      <3>5. QED
        BY ONLY <2>1, <2>2, <2>3, <3>1, <3>2, <3>3, <3>4 DEF TypeOK
    <2>5. InflightInv' /\ NestedInv'
      BY <2>1 DEF IInv, InflightInv, NestedInv
    <2>6. NothingLost'
      <3>1. flushed \o inflight \in Seq(Chunk)
        BY <1>1, ConcatProperties
      <3>2. QED
        <4>1. accepted' = Append((flushed \o inflight) \o buffer, c)
          BY <1>3 DEF IInv, NothingLost
        <4>2. (flushed \o inflight) \o Append(buffer, c)
                = Append((flushed \o inflight) \o buffer, c)
          <5>1. c \in Chunk /\ buffer \in Seq(Chunk)
            BY <1>1
          <5>2. PICK x : x = flushed \o inflight
            OBVIOUS
          <5>3. x \o Append(buffer, c) = Append(x \o buffer, c)
            <6>1. x \in Seq(Chunk)
              BY <3>1, <5>2
            <6>2. QED
              BY ONLY <5>1, <6>1, AppendAssociative
          <5>4. QED
            BY ONLY <5>2, <5>3
        <4>3. QED
          BY <2>1, <4>1, <4>2 DEF NothingLost
    <2>7. LengthIsPending'
      <3>1. Len(flushed) + Len(inflight) + 1 \in 1 .. n + 1
        BY <1>7
      <3>2. QED
        BY <1>5, <1>8, <2>1, <3>1 DEF IInv, LengthIsPending
    <2>8. NoStall'
      BY <1>10, <2>1 DEF IInv, NoStall, MustBuffer
    <2>9. DrainToCome'
      BY <1>10, <2>1, <2>2, <2>3, <2>8 DEF IInv, DrainToCome, ForgottenAtZero, NoStall
    <2>10. Backpressure'
      BY <2>1, <2>4 DEF Backpressure, TypeOK
    <2>11. QED
      BY <1>6, <1>9, <2>4, <2>5, <2>6, <2>7, <2>8, <2>9, <2>10 DEF IInv
  <1>11. CASE ~MustBuffer
    <2>1. ready /\ ~writing /\ buffer = <<>>
      BY <1>11 DEF MustBuffer
    <2>2. /\ writing' = TRUE /\ writingLength' = Size[c] /\ inflight' = <<c>>
          /\ stack' = <<f>> \o stack
          /\ UNCHANGED <<buffer, needDrain, ending, finishTicks, highWaterMark, ready, ended,
                         flushed, finishes, unwound, nested, rejected>>
      BY <1>11, <2>1 DEF WriteOrBuffer, DoWrite
    <2>3. stack' \in Seq(Frame) /\ stack' # <<>>
      <3>1. <<f>> \in Seq(Frame) /\ Len(<<f>>) = 1
        OBVIOUS
      <3>2. stack' \in Seq(Frame) /\ Len(stack') = 1 + Len(stack)
        BY <1>1, <2>2, <3>1, ConcatProperties
      <3>3. QED
        BY <1>1, <3>2, LenProperties
    <2>4. TypeOK'
      <3>1. <<c>> \in Seq(Chunk)
        OBVIOUS
      <3>2. QED
        BY <1>1, <1>3, <1>4, <1>5, <2>2, <2>3, <3>1 DEF IInv, TypeOK
    <2>5. InflightInv' /\ NestedInv'
      BY <2>2 DEF InflightInv, NestedInv
    <2>6. flushed = accepted /\ length = 0
      BY <2>1, NothingPending
    <2>7. NothingLost'
      <3>1. <<c>> \in Seq(Chunk) /\ accepted \o <<c>> \in Seq(Chunk)
        BY <1>1, ConcatProperties
      <3>2. QED
        <4>1. accepted' = accepted \o <<c>>
          BY <1>1, <1>3, AppendIsConcat
        <4>2. (accepted \o <<c>>) \o <<>> = accepted \o <<c>>
          BY <3>1, ConcatEmptySeq
        <4>3. QED
          BY <2>1, <2>2, <2>6, <4>1, <4>2 DEF NothingLost
    <2>8. LengthIsPending'
      <3>1. Len(inflight') = 1
        BY <2>2
      <3>2. QED
        BY <1>1, <1>2, <1>3, <1>4, <1>8, <2>2, <2>6, <3>1 DEF LengthIsPending
    <2>9. NoStall' /\ DrainToCome'
      BY <2>2 DEF NoStall, DrainToCome
    <2>10. Backpressure'
      BY <2>3 DEF Backpressure
    <2>11. QED
      BY <1>6, <1>9, <2>4, <2>5, <2>7, <2>8, <2>9, <2>10 DEF IInv
  <1>12. QED
    BY <1>10, <1>11

\* _onwrite(): the chunk being written is flushed and the queue goes on.
LEMMA OnWriteIInv ==
    ASSUME IInv, OnWrite
    PROVE  IInv'
  <1>1. /\ flushed \in Seq(Chunk) /\ inflight \in Seq(Chunk) /\ buffer \in Seq(Chunk)
        /\ accepted \in Seq(Chunk) /\ totals \in Seq(Nat)
        /\ length \in Nat /\ writingLength \in Nat
    BY DEF IInv, TypeOK
  <1>2. /\ Len(inflight) = 1 /\ writing /\ writingLength <= length
        /\ Len(accepted) = Len(flushed) + 1 + Len(buffer)
    BY Parts DEF OnWrite
  <1>3. /\ length' = length - writingLength
        /\ flushed' = flushed \o inflight
        /\ nested' = (nested \/ stack # <<>>)
        /\ UNCHANGED <<highWaterMark, ready, ending, stack, finishTicks, accepted, totals, late,
                       unwound, rejected>>
    BY DEF OnWrite, LengthAfterWrite
  <1>4. /\ flushed' \in Seq(Chunk) /\ Len(flushed') = Len(flushed) + 1
        /\ Len(flushed) \in Nat /\ Len(buffer) \in Nat
        /\ accepted = flushed' \o buffer
    BY <1>1, <1>2, <1>3, ConcatProperties, LenProperties DEF IInv, NothingLost
  <1>5. length' \in Nat
    BY <1>1, <1>2, <1>3
  <1>6. TotalsInv' /\ NestedInv' /\ nested' \in BOOLEAN
    BY <1>3 DEF IInv, TypeOK, TotalsInv, NestedInv
  <1>7. length' = totals[Len(accepted) + 1] - totals[Len(flushed) + 1 + 1]
    <2>1. /\ Len(flushed) + 1 \in 1 .. Len(totals)
          /\ Len(flushed) + 1 + 1 \in 1 .. Len(totals)
          /\ Len(accepted) + 1 \in 1 .. Len(totals)
      BY <1>1, <1>2, <1>4, LenProperties DEF IInv, TotalsInv
    <2>2. /\ totals[Len(flushed) + 1] \in Nat /\ totals[Len(flushed) + 1 + 1] \in Nat
          /\ totals[Len(accepted) + 1] \in Nat
      BY <1>1, <2>1, ElementOfSeq
    <2>3. /\ length = totals[Len(accepted) + 1] - totals[Len(flushed) + 1]
          /\ writingLength = totals[Len(flushed) + 1 + 1] - totals[Len(flushed) + 1]
      BY <1>2 DEF IInv, LengthIsPending
    <2>4. length - writingLength = totals[Len(accepted) + 1] - totals[Len(flushed) + 1 + 1]
      BY <2>2, <2>3
    <2>5. length' = length - writingLength
      BY <1>3
    <2>6. QED
      BY <2>2, <2>4, <2>5
  <1>8. FinishInv' /\ FinishUnlessLate'
    <2>1. flushed # accepted
      BY <1>2, <1>4
    <2>2. ended => late
      BY <2>1 DEF IInv, FinishUnlessLate
    <2>3. /\ ended \in BOOLEAN /\ ending \in BOOLEAN /\ late \in BOOLEAN
          /\ finishTicks \in {0, 1} /\ finishes \in {0, 1}
      BY DEF IInv, TypeOK
    <2>4. finishTicks = 1 => ending /\ late
      BY <2>1 DEF IInv, FinishInv
    <2>5. CASE UNCHANGED <<ended, finishes>>
      BY <1>3, <2>2, <2>3, <2>4, <2>5 DEF IInv, FinishInv, FinishUnlessLate
    <2>6. CASE buffer = <<>> /\ ending /\ EmitFinish
      <3>1. flushed' = accepted
        BY <1>4, <2>6, ConcatEmptySeq
      <3>2. QED
        BY <1>3, <2>2, <2>3, <2>4, <2>6, <3>1 DEF IInv, FinishInv, FinishUnlessLate, EmitFinish
    <2>7. QED
      BY <2>5, <2>6 DEF OnWrite, WriteBuffered, OnEmptyBuffer
  <1>9. CASE buffer = <<>>
    <2>1. /\ writing' = FALSE /\ writingLength' = 0 /\ inflight' = <<>>
          /\ buffer' = <<>>
          /\ ~ending => needDrain' = FALSE
          /\ ending => needDrain' = needDrain
      BY <1>9 DEF OnWrite, WriteBuffered, OnEmptyBuffer, EmitDrain, EmitFinish
    <2>2. ended' \in BOOLEAN /\ finishes' \in {0, 1} /\ needDrain' \in BOOLEAN
      <3>1. ended' \in BOOLEAN
        BY <1>9 DEF IInv, TypeOK, OnWrite, WriteBuffered, OnEmptyBuffer, EmitFinish
      <3>2. finishes' \in {0, 1}
        BY <1>8, <3>1 DEF FinishInv
      <3>3. QED
        BY <2>1, <3>1, <3>2 DEF IInv, TypeOK
    <2>3. TypeOK'
      <3>1. <<>> \in Seq(Chunk)
        OBVIOUS
      <3>2. QED
        BY <1>3, <1>4, <1>5, <1>6, <2>1, <2>2, <3>1 DEF IInv, TypeOK
    <2>4. InflightInv' /\ NoStall'
      BY <2>1 DEF InflightInv, NoStall
    <2>5. NothingLost'
      BY <1>3, <1>4, <1>9, <2>1, ConcatEmptySeq DEF NothingLost
    <2>6. length' = 0
      <3>1. Len(accepted) + 1 = Len(flushed) + 1 + 1
        BY <1>2, <1>4, <1>9
      <3>2. Len(accepted) + 1 \in 1 .. Len(totals)
        BY <1>1, LenProperties DEF IInv, TotalsInv
      <3>3. totals[Len(accepted) + 1] \in Nat
        BY <1>1, <3>2, ElementOfSeq
      <3>4. QED
        BY <1>7, <3>1, <3>3
    <2>7. LengthIsPending'
      <3>1. Len(flushed') + Len(inflight') + 1 = Len(flushed') + 1
        BY <1>4, <2>1
      <3>2. totals[Len(flushed') + 1] \in Nat
        <4>1. Len(flushed') + 1 \in 1 .. Len(totals)
          BY <1>1, <1>2, <1>4, LenProperties DEF IInv, TotalsInv
        <4>2. QED
          BY <1>1, <4>1, ElementOfSeq
      <3>3. QED
        BY <1>3, <1>4, <1>7, <2>1, <3>1, <3>2 DEF LengthIsPending
    <2>8. DrainToCome'
      BY <1>3, <2>1 DEF DrainToCome
    <2>9. Backpressure'
      BY <2>1 DEF Backpressure
    <2>10. QED
      BY <1>6, <1>8, <2>3, <2>4, <2>5, <2>7, <2>8, <2>9 DEF IInv
  <1>10. CASE buffer # <<>>
    <2>1. /\ writing' = TRUE /\ writingLength' = Size[Head(buffer)]
          /\ inflight' = <<Head(buffer)>> /\ buffer' = Tail(buffer)
          /\ UNCHANGED <<needDrain, ended, finishes>>
      BY <1>10 DEF OnWrite, WriteBuffered, DoWrite
    <2>2. Head(buffer) \in Chunk /\ Tail(buffer) \in Seq(Chunk) /\ Head(buffer) = buffer[1]
      BY <1>1, <1>10, HeadTailProperties
    <2>3. Size[Head(buffer)] \in Nat /\ <<Head(buffer)>> \in Seq(Chunk)
      BY <2>2, ConstantsAssumption
    <2>4. TypeOK'
      BY <1>3, <1>4, <1>5, <1>6, <2>1, <2>2, <2>3 DEF IInv, TypeOK
    <2>5. InflightInv' /\ NoStall' /\ DrainToCome'
      BY <2>1 DEF InflightInv, NoStall, DrainToCome
    <2>6. NothingLost'
      BY <1>1, <1>3, <1>4, <1>10, <2>1, ShiftHead DEF NothingLost
    <2>7. LengthIsPending'
      <3>1. /\ Len(buffer) >= 1 /\ Len(flushed') + 1 = Len(flushed) + 2
            /\ Len(flushed') + 1 \in 1 .. Len(accepted)
            /\ Len(flushed') + 1 \in 1 .. Len(totals)
        BY <1>1, <1>2, <1>4, <1>10, EmptySeq DEF IInv, TotalsInv
      <3>2. accepted[Len(flushed') + 1] = Head(buffer)
        BY <1>1, <1>4, <2>2, <3>1, ConcatProperties
      <3>3. totals[Len(flushed') + 1 + 1] = totals[Len(flushed') + 1] + Size[Head(buffer)]
        BY <3>1, <3>2 DEF IInv, TotalsInv
      <3>4. totals[Len(flushed') + 1] \in Nat
        BY <1>1, <3>1, ElementOfSeq
      <3>5. Len(flushed') + Len(inflight') + 1 = Len(flushed') + 1 + 1
        BY <1>4, <2>1
      <3>6. writingLength' = totals'[Len(flushed') + Len(inflight') + 1] - totals'[Len(flushed') + 1]
        BY <1>3, <2>1, <2>3, <3>3, <3>4, <3>5
      <3>7. length' = totals'[Len(accepted') + 1] - totals'[Len(flushed') + 1]
        BY <1>3, <1>4, <1>7
      <3>8. QED
        BY <3>6, <3>7 DEF LengthIsPending
    <2>8. Backpressure'
      BY <1>1, <1>2, <1>3, <1>5, <2>1 DEF IInv, TypeOK, Backpressure
    <2>9. QED
      BY <1>6, <1>8, <2>4, <2>5, <2>6, <2>7, <2>8 DEF IInv
  <1>11. QED
    BY <1>9, <1>10

\* _readyToWrite(), on an idle stream, with a queue, or during a write.
LEMMA ReadyToWriteIInv ==
    ASSUME IInv, ReadyToWrite
    PROVE  IInv'
  <1>1. /\ ready' = TRUE
        /\ UNCHANGED <<length, highWaterMark, ending, stack, finishTicks, accepted, totals,
                       flushed, late, unwound, nested, rejected>>
        /\ TypeOK
    BY DEF ReadyToWrite, IInv
  <1>2. TotalsInv' /\ NestedInv'
    BY <1>1 DEF IInv, TotalsInv, NestedInv, ReadyToWrite, WriteBuffered, DoWrite
  <1>3. CASE writing
    <2>1. UNCHANGED <<buffer, writing, writingLength, inflight, needDrain, ended, finishes>>
      BY <1>3 DEF ReadyToWrite, WriteBuffered
    <2>2. TypeOK'
      BY <1>1, <2>1 DEF TypeOK
    <2>3. /\ InflightInv' /\ NothingLost' /\ LengthIsPending' /\ NoStall' /\ DrainToCome'
          /\ Backpressure' /\ FinishInv' /\ FinishUnlessLate'
      BY <1>1, <1>3, <2>1
      DEF IInv, InflightInv, NothingLost, LengthIsPending, NoStall, DrainToCome,
          ForgottenAtZero, Backpressure, FinishInv, FinishUnlessLate
    <2>4. QED
      BY <1>2, <2>2, <2>3 DEF IInv
  <1>4. CASE ~writing /\ buffer = <<>>
    <2>1. flushed = accepted /\ length = 0 /\ inflight = <<>> /\ writingLength = 0
      BY <1>4, NothingPending, Parts
    <2>2. /\ UNCHANGED <<buffer, inflight>> /\ writing' = FALSE /\ writingLength' = 0
          /\ ~ending => needDrain' = FALSE
          /\ ending => needDrain' = needDrain
      BY <1>4, <2>1
      DEF ReadyToWrite, WriteBuffered, OnEmptyBuffer, EmitDrain, EmitFinish
    <2>3. \/ UNCHANGED <<ended, finishes>>
          \/ ending /\ ended' = TRUE /\ finishes' = IF ended THEN finishes ELSE finishes + 1
      BY <1>4 DEF ReadyToWrite, WriteBuffered, OnEmptyBuffer, EmitFinish
    <2>4. FinishInv' /\ FinishUnlessLate' /\ ended' \in BOOLEAN /\ finishes' \in {0, 1}
      <3>1. /\ ended \in BOOLEAN /\ finishes \in {0, 1} /\ FinishInv
            /\ (ended => finishes = 1) /\ (~ended => finishes = 0)
        BY DEF IInv, TypeOK, FinishInv
      <3>2. \/ UNCHANGED <<ended, finishes>>
            \/ ending /\ ended' = TRUE /\ finishes' = 1
        BY <2>3, <3>1
      <3>3. CASE UNCHANGED <<ended, finishes>>
        BY <1>1, <2>1, <3>1, <3>3 DEF FinishInv, FinishUnlessLate
      <3>4. CASE ending /\ ended' = TRUE /\ finishes' = 1
        BY <1>1, <2>1, <3>1, <3>4 DEF FinishInv, FinishUnlessLate
      <3>5. QED
        BY <3>2, <3>3, <3>4
    <2>5. TypeOK'
      BY <1>1, <2>2, <2>4 DEF TypeOK
    <2>6. InflightInv' /\ NoStall' /\ DrainToCome'
      BY <1>1, <1>4, <2>1, <2>2 DEF InflightInv, NoStall, DrainToCome
    <2>7. NothingLost' /\ LengthIsPending'
      BY <1>1, <2>1, <2>2 DEF IInv, NothingLost, LengthIsPending
    <2>8. Backpressure'
      BY <1>4, <2>2 DEF Backpressure
    <2>9. QED
      BY <1>2, <2>4, <2>5, <2>6, <2>7, <2>8 DEF IInv
  <1>5. CASE ~writing /\ buffer # <<>>
    <2>1. /\ writing' = TRUE /\ writingLength' = Size[Head(buffer)]
          /\ inflight' = <<Head(buffer)>> /\ buffer' = Tail(buffer)
          /\ UNCHANGED <<needDrain, ended, finishes>>
      BY <1>5 DEF ReadyToWrite, WriteBuffered, DoWrite
    <2>2. /\ flushed \in Seq(Chunk) /\ buffer \in Seq(Chunk) /\ totals \in Seq(Nat)
          /\ accepted \in Seq(Chunk) /\ inflight = <<>>
          /\ Len(accepted) = Len(flushed) + Len(buffer) /\ Len(buffer) \in Nat \ {0}
          /\ Len(flushed) \in Nat
      BY <1>1, <1>5, Parts, EmptySeq, LenProperties DEF TypeOK
    <2>3. Head(buffer) \in Chunk /\ Tail(buffer) \in Seq(Chunk) /\ Head(buffer) = buffer[1]
      BY <1>5, <2>2, HeadTailProperties
    <2>4. Size[Head(buffer)] \in Nat /\ <<Head(buffer)>> \in Seq(Chunk)
      BY <2>3, ConstantsAssumption
    <2>5. TypeOK'
      BY <1>1, <2>1, <2>3, <2>4 DEF TypeOK
    <2>6. InflightInv' /\ NoStall' /\ DrainToCome'
      BY <2>1 DEF InflightInv, NoStall, DrainToCome
    <2>7. accepted = flushed \o buffer
      BY <2>2, ConcatEmptySeq DEF IInv, NothingLost
    <2>8. NothingLost'
      BY <1>1, <1>5, <2>1, <2>2, <2>7, ShiftHead DEF NothingLost
    <2>9. LengthIsPending'
      <3>1. /\ Len(flushed) + 1 \in 1 .. Len(accepted)
            /\ Len(flushed) + 1 \in 1 .. Len(totals)
        BY <2>2 DEF IInv, TotalsInv
      <3>2. accepted[Len(flushed) + 1] = Head(buffer)
        BY <2>2, <2>3, <2>7, <3>1, ConcatProperties
      <3>3. totals[Len(flushed) + 1 + 1] = totals[Len(flushed) + 1] + Size[Head(buffer)]
        BY <3>1, <3>2 DEF IInv, TotalsInv
      <3>4. totals[Len(flushed) + 1] \in Nat
        BY <2>2, <3>1, ElementOfSeq
      <3>5. Len(flushed) + Len(inflight') + 1 = Len(flushed) + 1 + 1
        BY <2>1, <2>2
      <3>6. QED
        BY <1>1, <2>1, <2>4, <3>3, <3>4, <3>5 DEF IInv, LengthIsPending
    <2>10. Backpressure' /\ FinishInv' /\ FinishUnlessLate'
      BY <1>1, <1>5, <2>1 DEF IInv, Backpressure, FinishInv, FinishUnlessLate
    <2>11. QED
      BY <1>2, <2>5, <2>6, <2>8, <2>9, <2>10 DEF IInv
  <1>6. QED
    BY <1>3, <1>4, <1>5

\* The calls that move no chunk: the rest of a suspended writeOrBuffer(), end()
\* without a chunk, the nextTick callback, an exception and a refused write.
LEMMA NoChunkIInv ==
    ASSUME IInv, WriteReturn \/ End \/ FinishTick \/ Unwind \/ WriteAfterEnd
    PROVE  IInv'
  <1>1. /\ UNCHANGED <<buffer, length, highWaterMark, ready, writing, writingLength, inflight,
                       accepted, totals, flushed, late, nested>>
        /\ TypeOK
    BY DEF WriteReturn, End, FinishTick, Unwind, WriteAfterEnd, history, state, IInv
  <1>2. /\ TotalsInv' /\ InflightInv' /\ NestedInv' /\ NothingLost' /\ LengthIsPending'
        /\ NoStall'
    <2>1. stack' # <<>> => stack # <<>>
      BY DEF WriteReturn, End, FinishTick, Unwind, WriteAfterEnd
    <2>2. QED
      BY <1>1, <2>1
      DEF IInv, TotalsInv, InflightInv, NestedInv, NothingLost, LengthIsPending, NoStall
  <1>3. ~writing /\ buffer = <<>> => flushed = accepted /\ length = 0
    BY NothingPending
  <1>4. CASE WriteReturn
    <2>1. /\ Tail(stack) \in Seq(Frame) /\ stack' = Tail(stack)
          /\ needDrain' = (needDrain \/ length >= highWaterMark)
          /\ UNCHANGED <<ended, finishes, unwound, rejected>>
      BY <1>1, <1>4, HeadTailProperties DEF WriteReturn, CheckHighWaterMark, history, TypeOK
    <2>2. \/ UNCHANGED <<ending, finishTicks>>
          \/ /\ ending' = TRUE
             /\ finishTicks' = IF ~ending /\ ~writing /\ buffer = <<>> THEN finishTicks + 1
                                                                       ELSE finishTicks
      BY <1>4 DEF WriteReturn, AfterWriteOrBuffer, EndWritable
    <2>3. FinishInv' /\ FinishUnlessLate' /\ finishTicks' \in {0, 1} /\ ending' \in BOOLEAN
      <3>1. /\ FinishInv /\ FinishUnlessLate /\ ending \in BOOLEAN /\ finishTicks \in {0, 1}
            /\ ~ending => finishTicks = 0
        BY DEF IInv, TypeOK, FinishInv
      <3>2. CASE UNCHANGED <<ending, finishTicks>>
        BY <1>1, <2>1, <3>1, <3>2 DEF FinishInv, FinishUnlessLate
      <3>3. CASE ending' = TRUE /\ finishTicks' = finishTicks
        BY <1>1, <2>1, <3>1, <3>3 DEF FinishInv, FinishUnlessLate
      <3>4. CASE ending' = TRUE /\ finishTicks' = 1 /\ flushed = accepted
        BY <1>1, <2>1, <3>1, <3>4 DEF FinishInv, FinishUnlessLate
      <3>5. CASE ~ending /\ ~writing /\ buffer = <<>> /\ ending' = TRUE
                 /\ finishTicks' = finishTicks + 1
        BY <1>3, <3>1, <3>4, <3>5
      <3>6. QED
        BY <2>2, <3>2, <3>3, <3>5
    <2>4. TypeOK'
      BY <1>1, <2>1, <2>3 DEF TypeOK
    <2>5. Backpressure'
      BY <1>1, <2>1 DEF Backpressure
    <2>6. DrainToCome'
      <3>1. length >= highWaterMark => writing \/ buffer # <<>> \/ highWaterMark <= 0
        BY <1>1, <1>3 DEF TypeOK
      <3>2. writing \/ nested
        BY <1>4 DEF IInv, NestedInv, WriteReturn
      <3>3. length >= highWaterMark => writing \/ ~ready \/ ForgottenAtZero
        BY <3>1, <3>2 DEF IInv, NoStall, ForgottenAtZero
      <3>4. QED
        BY <1>1, <2>1, <2>2, <3>3 DEF IInv, DrainToCome, ForgottenAtZero
    <2>7. QED
      BY <1>2, <2>3, <2>4, <2>5, <2>6 DEF IInv
  <1>5. CASE End
    <2>1. /\ UNCHANGED <<needDrain, ended, stack, finishes, unwound, rejected>>
          /\ ~ending /\ ending' = TRUE
          /\ finishTicks' = IF ~writing /\ buffer = <<>> THEN finishTicks + 1 ELSE finishTicks
      BY <1>5 DEF End, EndWritable, history
    <2>2. FinishInv' /\ FinishUnlessLate' /\ finishTicks' \in {0, 1}
      BY <1>1, <1>3, <2>1 DEF IInv, TypeOK, FinishInv, FinishUnlessLate
    <2>3. TypeOK'
      BY <1>1, <2>1, <2>2 DEF TypeOK
    <2>4. Backpressure' /\ DrainToCome'
      BY <1>1, <2>1 DEF IInv, Backpressure, DrainToCome, ForgottenAtZero
    <2>5. QED
      BY <1>2, <2>2, <2>3, <2>4 DEF IInv
  <1>6. CASE FinishTick
    <2>1. /\ UNCHANGED <<needDrain, ending, stack, unwound, rejected>>
          /\ finishTicks = 1 /\ finishTicks' = 0 /\ ended' = TRUE
          /\ finishes' = IF ended THEN finishes ELSE finishes + 1
      BY <1>1, <1>6 DEF FinishTick, EmitFinish, TypeOK
    <2>2. FinishInv' /\ FinishUnlessLate' /\ finishes' \in {0, 1}
      BY <1>1, <2>1 DEF IInv, TypeOK, FinishInv, FinishUnlessLate
    <2>3. TypeOK'
      BY <1>1, <2>1, <2>2 DEF TypeOK
    <2>4. Backpressure' /\ DrainToCome'
      BY <1>1, <2>1 DEF IInv, Backpressure, DrainToCome, ForgottenAtZero
    <2>5. QED
      BY <1>2, <2>2, <2>3, <2>4 DEF IInv
  <1>7. CASE Unwind \/ WriteAfterEnd
    <2>1. /\ UNCHANGED <<needDrain, ending, ended, finishTicks, finishes>>
          /\ \/ stack' = <<>> /\ unwound' = TRUE /\ UNCHANGED rejected
             \/ UNCHANGED <<stack, unwound>> /\ rejected' = rejected + 1
      BY <1>7 DEF Unwind, WriteAfterEnd, state
    <2>2. TypeOK'
      <3>1. <<>> \in Seq(Frame)
        OBVIOUS
      <3>2. stack' \in Seq(Frame) /\ unwound' \in BOOLEAN /\ rejected' \in Nat
        <4>1. CASE stack' = <<>> /\ unwound' = TRUE /\ UNCHANGED rejected
          BY <1>1, <3>1, <4>1 DEF TypeOK
        <4>2. CASE UNCHANGED <<stack, unwound>> /\ rejected' = rejected + 1
          BY <1>1, <4>2 DEF TypeOK
        <4>3. QED
          BY <2>1, <4>1, <4>2
      <3>3. QED
        BY <1>1, <2>1, <3>2 DEF TypeOK
    <2>3. FinishInv' /\ FinishUnlessLate' /\ DrainToCome' /\ Backpressure'
      BY <1>1, <2>1
      DEF IInv, FinishInv, FinishUnlessLate, DrainToCome, ForgottenAtZero, Backpressure
    <2>4. QED
      BY <1>2, <2>2, <2>3 DEF IInv
  <1>8. QED
    BY <1>4, <1>5, <1>6, <1>7

LEMMA NextIInv == IInv /\ [Next]_vars => IInv'
  <1> SUFFICES ASSUME IInv, [Next]_vars
               PROVE  IInv'
    OBVIOUS
  <1>1. CASE \E c \in Chunk : Write(c)
    BY <1>1, AcceptIInv DEF Write, Frame
  <1>2. CASE \E c \in Chunk : EndWithChunk(c)
    BY <1>2, AcceptIInv DEF EndWithChunk, Frame
  <1>3. CASE OnWrite
    BY <1>3, OnWriteIInv
  <1>4. CASE ReadyToWrite
    BY <1>4, ReadyToWriteIInv
  <1>5. CASE WriteReturn \/ End \/ FinishTick \/ Unwind \/ WriteAfterEnd
    BY <1>5, NoChunkIInv
  <1>6. CASE UNCHANGED vars
    BY <1>6
    DEF vars, state, history, IInv, TypeOK, TotalsInv, InflightInv, NestedInv, NothingLost,
        LengthIsPending, NoStall, DrainToCome, ForgottenAtZero, Backpressure, FinishInv,
        FinishUnlessLate
  <1>7. QED
    BY <1>1, <1>2, <1>3, <1>4, <1>5, <1>6 DEF Next, User, System

LEMMA Invariance == Spec => []IInv
  BY InitIInv, NextIInv, PTL DEF Spec

-----------------------------------------------------------------------------
(***************************************************************************)
(* The theorems.                                                           *)
(***************************************************************************)

\* The state of stream_writable.js keeps its types: in particular state.length never
\* goes below zero, and 'finish' is scheduled and emitted at most once.
THEOREM TypeCorrect == Spec => []TypeOK
  BY Invariance, PTL DEF IInv

\* No chunk is dropped, duplicated or reordered on its way through the buffer,
\* whatever the listeners called by write() and onwrite() do.
THEOREM Lossless == Spec => []NothingLost
  BY Invariance, PTL DEF IInv

\* The byte count that drives backpressure is exact.
THEOREM ExactLength == Spec => []LengthIsPending
  BY Invariance, PTL DEF IInv

\* write() and 'drain' keep the promise of every high water mark: a stream with chunks pending
\* that holds that much has told its user to wait, and the completion that wakes a user who
\* waits is still to come; with a mark of zero or less (stream_writable.js:40-41 takes any
\* number) the latter holds only until a _write() answers before it returns.
THEOREM FlowControl == Spec => [](Backpressure /\ DrainToCome /\ NoStall)
  BY Invariance, PTL DEF IInv

\* Unless a chunk was accepted after end(), 'finish' means that all was flushed.
THEOREM FinishSound == Spec => []FinishUnlessLate
  BY Invariance, PTL DEF IInv

\* A step of the stream is a step of the ordered sink or leaves it alone.
LEMMA SinkStep ==
    ASSUME IInv, IInv', [Next]_vars
    PROVE  [Sink!Next]_Sink!vars
  <1> DEFINE done == ended /\ ~late
  <1> USE DEF Sink!vars
  <1>1. /\ ended \in BOOLEAN /\ ended' \in BOOLEAN /\ late \in BOOLEAN /\ late' \in BOOLEAN
        /\ done => flushed = accepted
    BY DEF IInv, TypeOK, FinishInv, FinishUnlessLate
  <1>2. done' => flushed' = accepted'
    BY DEF IInv, FinishInv, FinishUnlessLate
  <1>3. CASE \E c \in Chunk : Write(c) \/ EndWithChunk(c)
    <2>1. PICK c \in Chunk : Write(c) \/ EndWithChunk(c)
      BY <1>3
    <2>2. Sink!Accept(c)
      BY <2>1 DEF Write, EndWithChunk, WriteOrBuffer, Sink!Accept
    <2>3. QED
      BY <2>2 DEF Sink!Next
  <1>4. CASE OnWrite
    <2>1. /\ Len(inflight) = 1 /\ accepted[Len(flushed) + 1] = inflight[1]
          /\ Len(accepted) = Len(flushed) + 1 + Len(buffer)
      BY <1>4, Parts DEF OnWrite
    <2>2. /\ flushed \in Seq(Chunk) /\ inflight \in Seq(Chunk) /\ Len(flushed) \in Nat
          /\ Len(buffer) \in Nat
      BY LenProperties DEF IInv, TypeOK
    <2>3. /\ flushed' = flushed \o inflight /\ UNCHANGED accepted
      BY <1>4 DEF OnWrite
    <2>4. inflight = <<inflight[1]>> /\ inflight[1] \in Chunk
      BY <2>1, <2>2
    <2>5. flushed' = Append(flushed, accepted[Len(flushed) + 1])
      BY <2>1, <2>2, <2>3, <2>4, AppendIsConcat
    <2>6. Len(flushed) < Len(accepted) /\ flushed # accepted
      BY <2>1, <2>2
    <2>7. ~done /\ done' \in {FALSE, flushed' = accepted}
      BY <1>1, <1>2, <2>3, <2>6
    <2>8. Sink!Flush
      BY <2>3, <2>5, <2>6, <2>7 DEF Sink!Flush
    <2>9. QED
      BY <2>8 DEF Sink!Next
  <1>5. CASE ReadyToWrite \/ FinishTick
    <2>1. UNCHANGED <<accepted, flushed, late>>
      BY <1>5 DEF ReadyToWrite, FinishTick
    <2>2. ended => ended'
      BY <1>5
      DEF ReadyToWrite, FinishTick, EmitFinish, WriteBuffered, OnEmptyBuffer
    <2>3. CASE done' = done
      BY <2>1, <2>3
    <2>4. CASE ~done /\ done' = TRUE
      BY <1>2, <2>1, <2>4 DEF Sink!Next, Sink!Finish
    <2>5. done' = done \/ (~done /\ done' = TRUE)
      BY <1>1, <2>1, <2>2
    <2>6. QED
      BY <2>3, <2>4, <2>5
  <1>6. CASE WriteReturn \/ End \/ Unwind \/ WriteAfterEnd \/ UNCHANGED vars
    BY <1>6 DEF WriteReturn, End, Unwind, WriteAfterEnd, vars, history, state
  <1>7. QED
    BY <1>3, <1>4, <1>5, <1>6 DEF Next, User, System

\* The stream implements the ordered sink of its documentation.
THEOREM SinkRefinement == Spec => ImplementsSink
  <1>1. Init => Sink!Init
    BY DEF Init, Sink!Init
  <1>2. IInv /\ IInv' /\ [Next]_vars => [Sink!Next]_Sink!vars
    BY SinkStep
  <1>3. QED
    BY <1>1, <1>2, Invariance, PTL DEF Spec, ImplementsSink, Sink!Spec

=============================================================================
