---------------------------- MODULE BufferProofs ----------------------------
(***************************************************************************)
(* Proofs about Buffer: for every width of numbers, every buffer and every *)
(* argument, buffers keep their type, no call touches memory outside, and  *)
(* the bytes are the ones that were meant.                                 *)
(***************************************************************************)
EXTENDS Buffer, WellFoundedInduction, TLAPS

-----------------------------------------------------------------------------
(* Facts about numbers.                                                    *)

\* The base of bytes is at least 4, so that the widths are as they should be.
LEMMA Bases == /\ ByteBase \in Nat /\ ByteBase >= 4
               /\ Uint32Max \in Nat
               /\ SizeMax \in Nat /\ SizeMax > 3
<1>1. HexBase \in Nat /\ HexBase >= 2
  BY ConstantsAssumption
<1>2. ByteBase \in Nat /\ ByteBase >= 4
  BY <1>1 DEF ByteBase
<1>3. ByteBase * ByteBase \in Nat /\ ByteBase * ByteBase >= 4
  BY <1>2
<1>4. (ByteBase * ByteBase) * (ByteBase * ByteBase) >= 4 /\ (ByteBase * ByteBase) * (ByteBase * ByteBase) \in Nat
  BY <1>3
<1>5. Uint32Max \in Nat /\ Uint32Max >= 3
  BY <1>4 DEF Uint32Max
<1>6. (ByteBase * ByteBase) * (ByteBase * ByteBase) >= 16
  <2> DEFINE q == ByteBase * ByteBase
  <2>1. q \in Nat /\ q >= 4
    BY <1>3
  <2>2. q * q >= 16
    BY <2>1
  <2> QED
    BY <2>2
<1> QED
  BY <1>2, <1>4, <1>5, <1>6, ConstantsAssumption DEF Uint32Max

\* A remainder is below its divisor and not above the number divided.
LEMMA Remainder ==
    ASSUME NEW a \in Nat, NEW p \in Nat \ {0}
    PROVE  a % p \in Nat /\ a % p <= a
<1>1. a % p \in 0 .. p - 1
  OBVIOUS
<1>2. a = p * (a \div p) + (a % p) /\ a \div p \in Nat
  OBVIOUS
<1>3. p * (a \div p) >= 0
  BY <1>2
<1> QED
  BY <1>1, <1>2, <1>3

\* bound_range() keeps every index that came from a number within its limit.
LEMMA ClampRange ==
    ASSUME NEW x \in Int, NEW junk \in 0 .. SizeMax, NEW upper \in Nat
    PROVE  Clamp(x, junk, upper) \in 0 .. upper
<1>1. ToSize(x, junk) \in 0 .. SizeMax
  BY Bases DEF ToSize
<1> QED
  BY <1>1, Bases DEF Clamp, BoundRange

\* A difference of sizes that is not negative does not wrap.
LEMMA NoWrap ==
    ASSUME NEW a \in 0 .. SizeMax, NEW b \in 0 .. a
    PROVE  SizeMinus(a, b) = a - b
BY Bases DEF SizeMinus

-----------------------------------------------------------------------------
(* Buffers as a set, so that bufs is a sequence over it.                   *)

Buffers ==
    {buf \in [length : Nat, bytes : UNION {[0 .. n - 1 -> Byte] : n \in Nat}] : IsBuffer(buf)}

\* A record with a length and that many bytes is a buffer.
LEMMA BufferIntro ==
    ASSUME NEW n \in 0 .. SizeMax, NEW f \in [0 .. n - 1 -> Byte]
    PROVE  [length |-> n, bytes |-> f] \in Buffers
<1>1. n \in Nat
  BY Bases
<1>2. f \in UNION {[0 .. m - 1 -> Byte] : m \in Nat}
  BY <1>1
<1> QED
  BY <1>1, <1>2 DEF Buffers, IsBuffer

\* What a buffer consists of.
LEMMA BufferElim ==
    ASSUME NEW buf \in Buffers
    PROVE  /\ buf.length \in 0 .. SizeMax
           /\ buf.length \in Nat
           /\ buf.bytes \in [0 .. buf.length - 1 -> Byte]
BY DEF Buffers, IsBuffer

\* New bytes of the same number keep a buffer a buffer, of the same length.
LEMMA BufferExcept ==
    ASSUME NEW buf \in Buffers, NEW f \in [0 .. buf.length - 1 -> Byte]
    PROVE  /\ [buf EXCEPT !.bytes = f] \in Buffers
           /\ [buf EXCEPT !.bytes = f].length = buf.length
<1>1. buf = [length |-> buf.length, bytes |-> buf.bytes]
  BY DEF Buffers
<1>2. [buf EXCEPT !.bytes = f] = [length |-> buf.length, bytes |-> f]
  BY <1>1
<1>3. [length |-> buf.length, bytes |-> f] \in Buffers
  BY BufferIntro, BufferElim
<1> QED
  BY <1>2, <1>3

\* calloc() gives a buffer.
LEMMA CreateType ==
    ASSUME NEW n \in 0 .. SizeMax
    PROVE  Create(n) \in Buffers /\ Create(n).length = n
<1>1. [j \in 0 .. n - 1 |-> 0] \in [0 .. n - 1 -> Byte]
  BY Bases DEF Byte
<1> QED
  BY <1>1, BufferIntro DEF Create

\* A string or array of bytes is one too.
LEMMA OfSequenceType ==
    ASSUME NEW s \in Seq(Byte), Len(s) <= SizeMax
    PROVE  OfSequence(s) \in Buffers /\ OfSequence(s).length = Len(s)
<1>1. Len(s) \in 0 .. SizeMax
  BY Bases
<1>2. [j \in 0 .. Len(s) - 1 |-> s[j + 1]] \in [0 .. Len(s) - 1 -> Byte]
  <2>1. \A j \in 0 .. Len(s) - 1 : j + 1 \in 1 .. Len(s)
    BY <1>1, Bases
  <2>2. \A j \in 1 .. Len(s) : s[j] \in Byte
    OBVIOUS
  <2> QED
    BY <2>1, <2>2
<1> QED
  BY <1>1, <1>2, BufferIntro DEF OfSequence

-----------------------------------------------------------------------------
(* The loop of iotjs_bufferwrap_copy_internal.                             *)

\* A set of accesses that are all inside.
Inside(accesses) == \A t \in accesses : 0 <= t[2] /\ t[2] < t[1]

\* The loop makes no more rounds than source range and room allow.
LEMMA CopiedRange ==
    ASSUME NEW from \in Nat, NEW to \in Nat, NEW at \in Nat, NEW length \in Nat
    PROVE  /\ Copied(from, to, at, length) \in Nat
           /\ Copied(from, to, at, length) > 0 =>
                 /\ from + Copied(from, to, at, length) <= to
                 /\ at + Copied(from, to, at, length) <= length
BY DEF Copied

\* If the range lies in the source, the loop stays in source and target.
LEMMA CopyInside ==
    ASSUME NEW dst \in Buffers, NEW src \in Buffers, NEW from \in Nat, NEW to \in Nat,
           NEW at \in Nat, to <= src.length
    PROVE  Inside(CopyTouches(dst, src, from, to, at))
<1> DEFINE n == Copied(from, to, at, dst.length)
<1>1. dst.length \in Nat /\ src.length \in Nat
  BY BufferElim
<1>2. n \in Nat /\ (n > 0 => from + n <= to /\ at + n <= dst.length)
  BY <1>1, CopiedRange
<1> HIDE DEF n
<1>3. ASSUME NEW k \in 0 .. n - 1
      PROVE  0 <= from + k /\ from + k < src.length /\ 0 <= at + k /\ at + k < dst.length
  BY <1>1, <1>2
<1>4. CopyTouches(dst, src, from, to, at)
        = {<<src.length, from + k>> : k \in 0 .. n - 1} \cup {<<dst.length, at + k>> : k \in 0 .. n - 1}
  BY DEF CopyTouches, n
<1> QED
  BY <1>3, <1>4 DEF Inside

\* And it leaves a buffer,
LEMMA CopyType ==
    ASSUME NEW dst \in Buffers, NEW src \in Buffers, NEW from \in Nat,
           NEW to \in Nat, NEW at \in Nat, to <= src.length
    PROVE  CopyInternal(dst, src, from, to, at) \in Buffers
<1> DEFINE n == Copied(from, to, at, dst.length)
           new == [j \in 0 .. dst.length - 1 |->
                      IF at <= j /\ j < at + n THEN src.bytes[from + (j - at)]
                                               ELSE dst.bytes[j]]
<1>1. /\ dst.length \in Nat /\ src.length \in Nat
      /\ dst.bytes \in [0 .. dst.length - 1 -> Byte]
      /\ src.bytes \in [0 .. src.length - 1 -> Byte]
  BY BufferElim
<1>2. n \in Nat /\ (n > 0 => from + n <= to /\ at + n <= dst.length)
  BY <1>1, CopiedRange
<1>3. new \in [0 .. dst.length - 1 -> Byte]
  <2> HIDE DEF n
  <2>1. ASSUME NEW j \in 0 .. dst.length - 1, at <= j, j < at + n
        PROVE  src.bytes[from + (j - at)] \in Byte
    <3>1. from + (j - at) \in 0 .. src.length - 1
      BY <1>1, <1>2, <2>1
    <3> QED
      BY <1>1, <3>1
  <2> QED
    BY <1>1, <2>1
<1>4. CopyInternal(dst, src, from, to, at) = [dst EXCEPT !.bytes = new]
  BY DEF CopyInternal
<1> HIDE DEF new
<1> QED
  BY <1>3, <1>4, BufferExcept

\* of the same length.
LEMMA CopyLength ==
    ASSUME NEW dst \in Buffers, NEW src, NEW from, NEW to, NEW at
    PROVE  CopyInternal(dst, src, from, to, at).length = dst.length
<1>1. dst = [length |-> dst.length, bytes |-> dst.bytes]
  BY DEF Buffers
<1> QED
  BY <1>1 DEF CopyInternal

\* The same within one buffer.
LEMMA CopyWithinType ==
    ASSUME NEW buf \in Buffers, NEW from \in Nat, NEW to \in Nat, NEW at \in Nat,
           to <= buf.length
    PROVE  CopyWithin(buf, from, to, at) \in Buffers
<1> DEFINE n == Copied(from, to, at, buf.length)
           period == IF from < at THEN at - from ELSE n
           new == [j \in 0 .. buf.length - 1 |->
                      IF at <= j /\ j < at + n THEN buf.bytes[from + ((j - at) % period)]
                                               ELSE buf.bytes[j]]
<1>1. buf.length \in Nat /\ buf.bytes \in [0 .. buf.length - 1 -> Byte]
  BY BufferElim
<1>2. n \in Nat /\ (n > 0 => from + n <= to /\ at + n <= buf.length)
  BY <1>1, CopiedRange
<1>3. ASSUME NEW j \in 0 .. buf.length - 1, at <= j, j < at + n
      PROVE  buf.bytes[from + ((j - at) % period)] \in Byte
  <2> HIDE DEF n
  <2>1. n > 0 /\ j - at \in Nat /\ j - at < n
    BY <1>1, <1>2, <1>3
  <2>2. period \in Nat \ {0}
    <3>1. CASE from < at
      BY <3>1
    <3>2. CASE ~(from < at)
      BY <1>2, <2>1, <3>2
    <3> QED
      BY <3>1, <3>2
  <2> HIDE DEF period
  <2>3. (j - at) % period \in Nat /\ (j - at) % period <= j - at
    <3> DEFINE a == j - at
    <3>1. a \in Nat
      BY <2>1
    <3> HIDE DEF a
    <3>2. a % period \in Nat /\ a % period <= a
      BY <2>2, <3>1, Remainder
    <3> QED
      BY <3>2 DEF a
  <2>4. from + ((j - at) % period) \in 0 .. buf.length - 1
    BY <1>1, <1>2, <2>1, <2>3
  <2> QED
    BY <1>1, <2>4
<1>4. new \in [0 .. buf.length - 1 -> Byte]
  <2> HIDE DEF n, period
  <2> QED
    BY <1>1, <1>3
<1>5. CopyWithin(buf, from, to, at) = [buf EXCEPT !.bytes = new]
  BY DEF CopyWithin
<1> HIDE DEF new
<1> QED
  BY <1>4, <1>5, BufferExcept

-----------------------------------------------------------------------------
(* The ranges the handlers compute.                                        *)

\* A range that may be given to the loop: it ends within the source.
Fits(r, src) == r[1] \in Nat /\ r[2] \in Nat /\ r[3] \in Nat /\ r[2] <= src.length

\* The handler Copy, whatever its numbers.
LEMMA CopyRangeFits ==
    ASSUME NEW dst \in Buffers, NEW src \in Buffers, NEW ts \in Int, NEW ss \in Int,
           NEW se \in Int
    PROVE  Fits(CopyRange(dst, src, ts, ss, se, 0), src)
<1>1. dst.length \in Nat /\ src.length \in Nat /\ 0 \in 0 .. SizeMax
  BY BufferElim, Bases
<1>2. /\ Clamp(ts, 0, dst.length) \in 0 .. dst.length
      /\ Clamp(ss, 0, src.length) \in 0 .. src.length
      /\ Clamp(se, 0, src.length) \in 0 .. src.length
  BY <1>1, ClampRange
<1> QED
  BY <1>1, <1>2 DEF CopyRange, Fits

\* The handlers Write and WriteUInt8.
LEMMA WriteRangeFits ==
    ASSUME NEW dst \in Buffers, NEW src \in Buffers, NEW offset \in Int, NEW length \in Int,
           NEW junk \in 0 .. SizeMax
    PROVE  Fits(WriteRange(dst, src, offset, length, junk), src)
<1> DEFINE at == Clamp(offset, junk, dst.length)
           room == Clamp(length, junk, SizeMinus(dst.length, at))
<1>1. dst.length \in 0 .. SizeMax /\ dst.length \in Nat /\ src.length \in Nat
  BY BufferElim
<1>2. at \in 0 .. dst.length
  BY <1>1, ClampRange
<1> HIDE DEF at
<1>3. SizeMinus(dst.length, at) = dst.length - at
  BY <1>1, <1>2, NoWrap
<1>4. room \in 0 .. dst.length - at
  <2>1. dst.length - at \in Nat
    BY <1>1, <1>2
  <2> QED
    BY <1>3, <2>1, ClampRange
<1> HIDE DEF room
<1>5. BoundRange(room, 0, src.length) \in 0 .. src.length
  BY <1>1, <1>2, <1>4 DEF BoundRange
<1>6. WriteRange(dst, src, offset, length, junk) = <<0, BoundRange(room, 0, src.length), at>>
  BY DEF WriteRange, at, room
<1> QED
  BY <1>1, <1>2, <1>5, <1>6 DEF Fits

\* The handler Slice: the new buffer is as long as the range.
LEMMA SliceRangeFits ==
    ASSUME NEW buf \in Buffers, NEW start \in Int, NEW end \in Int
    PROVE  /\ Fits(SliceRange(buf, start, end), buf)
           /\ SliceRange(buf, start, end)[2] - SliceRange(buf, start, end)[1] \in 0 .. SizeMax
<1>1. buf.length \in 0 .. SizeMax /\ buf.length \in Nat /\ SizeMax \in Nat
  BY BufferElim, Bases
<1>2. ASSUME NEW x \in Int
      PROVE  SliceIndex(buf, x) \in 0 .. buf.length
  <2>1. (x + buf.length) % (SizeMax + 1) \in Nat
    BY <1>1
  <2> QED
    BY <1>1, <2>1 DEF SliceIndex, BoundRange
<1> DEFINE from == SliceIndex(buf, start)
           to == SliceIndex(buf, end)
<1>3. from \in 0 .. buf.length /\ to \in 0 .. buf.length
  BY <1>2
<1> HIDE DEF from, to
<1>4. SliceRange(buf, start, end) = <<from, IF to < from THEN from ELSE to, 0>>
  BY DEF SliceRange, from, to
<1> QED
  BY <1>1, <1>3, <1>4 DEF Fits

-----------------------------------------------------------------------------
(* Single bytes.                                                           *)

\* writeUInt8() of the binding, with any offset.
LEMMA PutFits ==
    ASSUME NEW buf \in Buffers, NEW value \in Byte, NEW offset \in Int, NEW junk \in 0 .. SizeMax
    PROVE  /\ PutByte(buf, value, offset, junk) \in Buffers
           /\ PutByte(buf, value, offset, junk).length = buf.length
           /\ Inside(PutTouches(buf, offset, junk))
<1> DEFINE src == OfSequence(<<value>>)
           r == WriteRange(buf, src, offset, 1, junk)
           zero == OfSequence(<<0>>)
           q == WriteRange(buf, zero, offset, 1, junk)
<1>1. 0 \in Byte /\ 1 <= SizeMax
  BY Bases DEF Byte
<1>2. src \in Buffers /\ zero \in Buffers
  <2>1. <<value>> \in Seq(Byte) /\ Len(<<value>>) = 1 /\ <<0>> \in Seq(Byte) /\ Len(<<0>>) = 1
    BY <1>1
  <2> QED
    BY <1>1, <2>1, OfSequenceType
<1> HIDE DEF src, zero
<1>3. Fits(r, src) /\ Fits(q, zero)
  BY <1>2, WriteRangeFits
<1> HIDE DEF r, q
<1>4. PutByte(buf, value, offset, junk) = CopyInternal(buf, src, r[1], r[2], r[3])
  BY DEF PutByte, src, r
<1>5. PutTouches(buf, offset, junk) = CopyTouches(buf, zero, q[1], q[2], q[3])
  BY DEF PutTouches, zero, q
<1>6. Inside(CopyTouches(buf, zero, q[1], q[2], q[3]))
  BY <1>2, <1>3, CopyInside DEF Fits
<1>7. r[1] \in Nat /\ r[2] \in Nat /\ r[3] \in Nat /\ r[2] <= src.length
  BY <1>3 DEF Fits
<1>8. CopyInternal(buf, src, r[1], r[2], r[3]) \in Buffers
  BY <1>2, <1>7, CopyType
<1>9. CopyInternal(buf, src, r[1], r[2], r[3]).length = buf.length
  BY CopyLength
<1> QED
  BY <1>4, <1>5, <1>6, <1>8, <1>9

\* readUInt8() of the binding: length - 1 wraps only for the empty buffer, and
\* that has no memory to read.
LEMMA GetInside ==
    ASSUME NEW buf \in Buffers, NEW offset \in Int, NEW junk \in 0 .. SizeMax
    PROVE  Inside(GetTouches(buf, offset, junk))
<1>1. buf.length \in 0 .. SizeMax /\ buf.length \in Nat
  BY BufferElim
<1>2. CASE buf.length = 0
  BY <1>2 DEF GetTouches, Inside
<1>3. CASE buf.length # 0
  <2>1. SizeMinus(buf.length, 1) = buf.length - 1 /\ buf.length - 1 \in Nat
    BY <1>1, <1>3, NoWrap
  <2>2. BytePosition(buf, offset, junk) \in 0 .. buf.length - 1
    BY <2>1, ClampRange DEF BytePosition
  <2> QED
    BY <1>1, <1>3, <2>2 DEF GetTouches, Inside
<1> QED
  BY <1>2, <1>3

\* A byte of a number.
LEMMA DigitType ==
    ASSUME NEW value \in Nat, NEW k \in 0 .. 3
    PROVE  Digit(value, k) \in Byte
<1>1. ByteBase \in Nat \ {0} /\ ByteBase * ByteBase \in Nat \ {0}
  BY Bases
<1>2. (ByteBase * ByteBase) * ByteBase \in Nat \ {0}
  BY <1>1
<1>3. Place(k) \in Nat \ {0}
  BY <1>1, <1>2 DEF Place
<1>4. value \div Place(k) \in Nat
  BY <1>3
<1>5. (value \div Place(k)) % ByteBase \in 0 .. ByteBase - 1
  BY <1>1, <1>4
<1> QED
  BY <1>5 DEF Digit, Byte

-----------------------------------------------------------------------------
(* The invariant, and the calls one by one.                                *)

Inv ==
    /\ bufs \in Seq(Buffers)
    /\ calls \in 0 .. MaxCalls
    /\ Inside(touched)

\* Any call that leaves buffers and makes accesses inside keeps the invariant.
LEMMA CallKeeps ==
    ASSUME Inv, NEW made \in Seq(Buffers), NEW accesses, Inside(accesses), Call(made, accesses)
    PROVE  Inv'
<1>1. calls' \in 0 .. MaxCalls
  BY ConstantsAssumption DEF Inv, Call
<1>2. bufs' = made /\ touched' = accesses
  BY DEF Call
<1>3. Inside(touched')
  BY <1>2
<1> QED
  BY <1>1, <1>2, <1>3 DEF Inv, Inside

\* A call that throws changes nothing.
LEMMA ThrowsKeeps ==
    ASSUME Inv, Throws
    PROVE  Inv'
<1>1. Inside({})
  BY DEF Inside
<1> QED
  BY <1>1, CallKeeps DEF Inv, Throws

\* A call that only reads.
LEMMA ReadsKeeps ==
    ASSUME Inv, NEW accesses, Inside(accesses), Reads(accesses)
    PROVE  Inv'
BY CallKeeps DEF Inv, Reads

\* A call that makes a buffer.
LEMMA MakesKeeps ==
    ASSUME Inv, NEW buf \in Buffers, NEW accesses, Inside(accesses), Makes(buf, accesses)
    PROVE  Inv'
<1>1. Append(bufs, buf) \in Seq(Buffers)
  BY DEF Inv
<1> QED
  BY <1>1, CallKeeps DEF Makes

\* A call that changes one buffer.
LEMMA ChangesKeeps ==
    ASSUME Inv, NEW b \in DOMAIN bufs, NEW buf \in Buffers, NEW accesses, Inside(accesses),
           Changes(b, buf, accesses)
    PROVE  Inv'
<1>1. [bufs EXCEPT ![b] = buf] \in Seq(Buffers)
  BY DEF Inv
<1> QED
  BY <1>1, CallKeeps DEF Changes

\* The elements of bufs are buffers.
LEMMA Elements ==
    ASSUME Inv, NEW b \in DOMAIN bufs
    PROVE  bufs[b] \in Buffers
BY DEF Inv

\* An argument or its default is an integer.
LEMMA DefaultType ==
    ASSUME NEW x \in Arguments, NEW d \in Int
    PROVE  Default(x, d) \in Int
BY ConstantsAssumption DEF Arguments, Default

\* Two sets of accesses.
LEMMA InsideUnion ==
    ASSUME NEW A, NEW B, Inside(A), Inside(B)
    PROVE  Inside(A \cup B)
BY DEF Inside

\* new Buffer(size)
LEMMA NewSizeKeeps ==
    ASSUME Inv, NEW size \in Numbers, size <= MaxLength, NewSize(size)
    PROVE  Inv'
<1> DEFINE n == IF size > 0 THEN Unsigned(size) ELSE 0
<1>1. n \in 0 .. SizeMax
  <2>1. size \in Int
    BY ConstantsAssumption
  <2>2. size % (Uint32Max + 1) \in 0 .. Uint32Max
    BY <2>1, Bases
  <2> QED
    BY <2>2, Bases, ConstantsAssumption DEF Unsigned
<1> HIDE DEF n
<1>2. Create(n) \in Buffers
  BY <1>1, CreateType
<1>3. Inside({})
  BY DEF Inside
<1>4. Makes(Create(n), {})
  BY DEF NewSize, n
<1> QED
  BY <1>2, <1>3, <1>4, MakesKeeps

\* new Buffer(array)
LEMMA NewArrayKeeps ==
    ASSUME Inv, NEW array \in Arrays, NewArray(array)
    PROVE  Inv'
<1>1. array \in Seq(Byte) /\ Len(array) <= SizeMax /\ Len(array) \in 0 .. SizeMax
  BY ConstantsAssumption, Bases
<1> DEFINE new == Create(Len(array))
           accesses == UNION {PutTouches(new, i, 0) : i \in 0 .. Len(array) - 1}
<1>2. new \in Buffers
  BY <1>1, CreateType
<1> HIDE DEF new
<1>3. 0 \in Byte /\ 0 \in 0 .. SizeMax
  BY Bases DEF Byte
<1>4. \A i \in 0 .. Len(array) - 1 : Inside(PutTouches(new, i, 0))
  BY <1>2, <1>3, PutFits
<1>5. Inside(accesses)
  BY <1>4 DEF Inside
<1>6. OfSequence(array) \in Buffers
  BY <1>1, OfSequenceType
<1>7. Makes(OfSequence(array), accesses)
  BY DEF NewArray, new
<1> HIDE DEF accesses
<1> QED
  BY <1>5, <1>6, <1>7, MakesKeeps

\* new Buffer(string)
LEMMA NewStringKeeps ==
    ASSUME Inv, NEW string \in Strings, NewString(string)
    PROVE  Inv'
<1>1. string \in Seq(Byte) /\ Len(string) <= SizeMax /\ Len(string) \in 0 .. SizeMax /\ Len(string) \in Int
  BY ConstantsAssumption, Bases
<1> DEFINE new == Create(Len(string))
           src == OfSequence(string)
           r == WriteRange(new, src, 0, Len(string), 0)
<1>2. new \in Buffers /\ src \in Buffers
  BY <1>1, CreateType, OfSequenceType
<1> HIDE DEF new, src
<1>3. Fits(r, src)
  <2>1. 0 \in Int /\ 0 \in 0 .. SizeMax
    BY Bases
  <2> QED
    BY <1>1, <1>2, <2>1, WriteRangeFits
<1>4. Makes(CopyInternal(new, src, r[1], r[2], r[3]), CopyTouches(new, src, r[1], r[2], r[3]))
  BY DEF NewString, new, src
<1> HIDE DEF r
<1>5. r[1] \in Nat /\ r[2] \in Nat /\ r[3] \in Nat /\ r[2] <= src.length
  BY <1>3 DEF Fits
<1>6. CopyInternal(new, src, r[1], r[2], r[3]) \in Buffers
  BY <1>2, <1>5, CopyType
<1>7. Inside(CopyTouches(new, src, r[1], r[2], r[3]))
  BY <1>2, <1>5, CopyInside
<1> QED
  BY <1>4, <1>6, <1>7, MakesKeeps

\* Two hexadecimal digits make a byte.
LEMMA HexType ==
    ASSUME NEW string \in HexStrings,
           \A i \in 0 .. (Len(string) \div 2) - 1 : HexPair(string, i)
    PROVE  HexDecode(string) \in Buffers
<1> DEFINE n == Len(string) \div 2
<1>1. Len(string) \in Nat /\ Len(string) <= SizeMax
  BY ConstantsAssumption
<1>2. n \in Nat /\ 2 * n <= Len(string) /\ n \in 0 .. SizeMax
  BY <1>1, Bases
<1>3. ASSUME NEW j \in 0 .. n - 1
      PROVE  string[2*j + 1] * HexBase + string[2*j + 2] \in Byte
  <2> HIDE DEF n
  <2>1. 2*j + 1 \in 1 .. Len(string) /\ 2*j + 2 \in 1 .. Len(string)
    BY <1>1, <1>2
  <2>2. /\ string[2*j + 1] \in {NoDigit} \cup (0 .. HexBase - 1)
        /\ string[2*j + 2] \in {NoDigit} \cup (0 .. HexBase - 1)
    BY <2>1, ConstantsAssumption
  <2>3. HexPair(string, j)
    BY DEF n
  <2>4. string[2*j + 1] \in 0 .. HexBase - 1 /\ string[2*j + 2] \in 0 .. HexBase - 1
    BY <2>2, <2>3 DEF HexPair
  <2>5. ASSUME NEW x \in 0 .. HexBase - 1, NEW y \in 0 .. HexBase - 1
        PROVE  x * HexBase + y \in 0 .. HexBase * HexBase - 1
    <3>1. HexBase \in Nat /\ x \in Nat /\ y \in Nat
      BY ConstantsAssumption
    <3>2. x * HexBase <= (HexBase - 1) * HexBase
      BY <3>1
    <3>3. (HexBase - 1) * HexBase = HexBase * HexBase - HexBase
      BY <3>1
    <3>4. x * HexBase \in Nat /\ HexBase * HexBase \in Nat
      BY <3>1
    <3> QED
      BY <3>1, <3>2, <3>3, <3>4
  <2> QED
    BY <2>4, <2>5 DEF Byte, ByteBase
<1>4. [j \in 0 .. n - 1 |-> string[2*j + 1] * HexBase + string[2*j + 2]] \in [0 .. n - 1 -> Byte]
  BY <1>3
<1>5. HexDecode(string) = [length |-> n, bytes |-> [j \in 0 .. n - 1 |-> string[2*j + 1] * HexBase + string[2*j + 2]]]
  BY DEF HexDecode
<1> HIDE DEF n
<1> QED
  BY <1>2, <1>4, <1>5, BufferIntro

\* new Buffer(string, 'hex'), decoded or refused
LEMMA NewHexKeeps ==
    ASSUME Inv, NEW string \in HexStrings, NewHex(string)
    PROVE  Inv'
<1> DEFINE rounds == HexRounds(string)
           decoded == {i \in rounds : HexPair(string, i)}
           accesses == {<<Len(string), 2 * i>> : i \in rounds}
                          \cup {<<Len(string), 2 * i + 1>> : i \in rounds}
                          \cup {<<Len(string) \div 2, i>> : i \in decoded}
<1>1. Len(string) \in Nat /\ Len(string) \div 2 \in Nat /\ 2 * (Len(string) \div 2) <= Len(string)
  BY ConstantsAssumption
<1>2. \A i \in rounds : i \in 0 .. (Len(string) \div 2) - 1
  BY DEF HexRounds
<1>3. \A i \in decoded : i \in rounds /\ HexPair(string, i)
  OBVIOUS
<1> HIDE DEF rounds, decoded
<1>4. Inside(accesses)
  <2>1. Inside({<<Len(string), 2 * i>> : i \in rounds})
    BY <1>1, <1>2 DEF Inside
  <2>2. Inside({<<Len(string), 2 * i + 1>> : i \in rounds})
    BY <1>1, <1>2 DEF Inside
  <2>3. Inside({<<Len(string) \div 2, i>> : i \in decoded})
    BY <1>1, <1>2, <1>3 DEF Inside
  <2> QED
    BY <2>1, <2>2, <2>3, InsideUnion
<1>5. IF decoded = 0 .. (Len(string) \div 2) - 1
      THEN Makes(HexDecode(string), accesses)
      ELSE Call(bufs, accesses)
  BY DEF NewHex, rounds, decoded
<1> HIDE DEF accesses
<1>6. CASE decoded = 0 .. (Len(string) \div 2) - 1
  <2>1. HexDecode(string) \in Buffers
    BY <1>3, <1>6, HexType
  <2> QED
    BY <1>4, <1>5, <1>6, <2>1, MakesKeeps
<1>7. CASE decoded # 0 .. (Len(string) \div 2) - 1
  BY <1>4, <1>5, <1>7, CallKeeps DEF Inv
<1> QED
  BY <1>6, <1>7

\* new Buffer(buffer)
LEMMA NewBufferKeeps ==
    ASSUME Inv, NEW b \in DOMAIN bufs, NewBuffer(b)
    PROVE  Inv'
<1> DEFINE src == bufs[b]
           new == Create(src.length)
           r == CopyRange(new, src, 0, 0, src.length, 0)
<1>1. src \in Buffers
  BY Elements
<1> HIDE DEF src
<1>2. src.length \in Int /\ src.length \in 0 .. SizeMax /\ 0 \in Int
  BY <1>1, BufferElim
<1>3. new \in Buffers
  BY <1>2, CreateType
<1> HIDE DEF new
<1>4. Fits(r, src)
  BY <1>1, <1>2, <1>3, CopyRangeFits
<1>5. Makes(CopyInternal(new, src, r[1], r[2], r[3]), CopyTouches(new, src, r[1], r[2], r[3]))
  BY DEF NewBuffer, new, src
<1> HIDE DEF r
<1>6. r[1] \in Nat /\ r[2] \in Nat /\ r[3] \in Nat /\ r[2] <= src.length
  BY <1>4 DEF Fits
<1>7. CopyInternal(new, src, r[1], r[2], r[3]) \in Buffers
  BY <1>1, <1>3, <1>6, CopyType
<1>8. Inside(CopyTouches(new, src, r[1], r[2], r[3]))
  BY <1>1, <1>3, <1>6, CopyInside
<1> QED
  BY <1>5, <1>7, <1>8, MakesKeeps

\* Buffer.concat([a, b])
LEMMA ConcatKeeps ==
    ASSUME Inv, NEW a \in DOMAIN bufs, NEW b \in DOMAIN bufs, Concat(a, b)
    PROVE  Inv'
<1> DEFINE x == bufs[a]
           y == bufs[b]
           new == Create(x.length + y.length)
           r == CopyRange(new, x, 0, 0, x.length, 0)
           q == CopyRange(new, y, x.length, 0, y.length, 0)
           half == CopyInternal(new, x, r[1], r[2], r[3])
<1>1. x \in Buffers /\ y \in Buffers
  BY Elements
<1>2. x.length \in Nat /\ y.length \in Nat
  BY <1>1, BufferElim
<1>3. x.length + y.length \in 0 .. SizeMax
  BY <1>2, ConstantsAssumption DEF Concat
<1>4. Makes(CopyInternal(half, y, q[1], q[2], q[3]),
            CopyTouches(new, x, r[1], r[2], r[3]) \cup CopyTouches(half, y, q[1], q[2], q[3]))
  BY DEF Concat
<1> HIDE DEF x, y
<1>5. new \in Buffers
  BY <1>3, CreateType
<1> HIDE DEF new
<1>6. Fits(r, x) /\ Fits(q, y)
  <2>1. 0 \in Int /\ x.length \in Int /\ y.length \in Int
    BY <1>2
  <2> QED
    BY <1>1, <1>5, <2>1, CopyRangeFits
<1> HIDE DEF r, q
<1>7. /\ r[1] \in Nat /\ r[2] \in Nat /\ r[3] \in Nat /\ r[2] <= x.length
      /\ q[1] \in Nat /\ q[2] \in Nat /\ q[3] \in Nat /\ q[2] <= y.length
  BY <1>6 DEF Fits
<1>8. half \in Buffers
  BY <1>1, <1>5, <1>7, CopyType
<1>9. Inside(CopyTouches(new, x, r[1], r[2], r[3]))
  BY <1>1, <1>5, <1>7, CopyInside
<1> HIDE DEF half
<1>10. CopyInternal(half, y, q[1], q[2], q[3]) \in Buffers
  BY <1>1, <1>7, <1>8, CopyType
<1>11. Inside(CopyTouches(half, y, q[1], q[2], q[3]))
  BY <1>1, <1>7, <1>8, CopyInside
<1>12. Inside(CopyTouches(new, x, r[1], r[2], r[3]) \cup CopyTouches(half, y, q[1], q[2], q[3]))
  BY <1>9, <1>11, InsideUnion
<1> QED
  BY <1>4, <1>10, <1>12, MakesKeeps

\* buffer.slice(start, end)
LEMMA SliceKeeps ==
    ASSUME Inv, NEW b \in DOMAIN bufs, NEW start \in Arguments, NEW end \in Arguments,
           Slice(b, start, end)
    PROVE  Inv'
<1> DEFINE buf == bufs[b]
           r == SliceRange(buf, Default(start, 0), Default(end, buf.length))
           new == Create(r[2] - r[1])
<1>1. buf \in Buffers
  BY Elements
<1>2. Makes(CopyInternal(new, buf, r[1], r[2], r[3]), CopyTouches(new, buf, r[1], r[2], r[3]))
  BY DEF Slice
<1> HIDE DEF buf
<1>3. Default(start, 0) \in Int /\ Default(end, buf.length) \in Int
  BY <1>1, BufferElim, DefaultType
<1>4. Fits(r, buf) /\ r[2] - r[1] \in 0 .. SizeMax
  BY <1>1, <1>3, SliceRangeFits
<1> HIDE DEF r
<1>5. new \in Buffers
  BY <1>4, CreateType
<1> HIDE DEF new
<1>6. r[1] \in Nat /\ r[2] \in Nat /\ r[3] \in Nat /\ r[2] <= buf.length
  BY <1>4 DEF Fits
<1>7. CopyInternal(new, buf, r[1], r[2], r[3]) \in Buffers
  BY <1>1, <1>5, <1>6, CopyType
<1>8. Inside(CopyTouches(new, buf, r[1], r[2], r[3]))
  BY <1>1, <1>5, <1>6, CopyInside
<1> QED
  BY <1>2, <1>7, <1>8, MakesKeeps

\* buffer.copy(target, targetStart, sourceStart, sourceEnd)
LEMMA CopyKeeps ==
    ASSUME Inv, NEW b \in DOMAIN bufs, NEW t \in DOMAIN bufs,
           NEW ts \in Arguments, NEW ss \in Arguments, NEW se \in Arguments,
           Copy(b, t, ts, ss, se)
    PROVE  Inv'
<1> DEFINE x == bufs[b]
           y == bufs[t]
           r == CopyRange(y, x, Default(ts, 0), Default(ss, 0), Default(se, x.length), 0)
<1>1. x \in Buffers /\ y \in Buffers
  BY Elements
<1>2. Throws \/ Changes(t, CopyTo(b, t, r), CopyTouches(y, x, r[1], r[2], r[3]))
  BY DEF Copy
<1>3. CopyTo(b, t, r) = IF b = t THEN CopyWithin(x, r[1], r[2], r[3])
                                 ELSE CopyInternal(y, x, r[1], r[2], r[3])
  BY DEF CopyTo
<1> HIDE DEF x, y
<1>4. Default(ts, 0) \in Int /\ Default(ss, 0) \in Int /\ Default(se, x.length) \in Int
  <2>1. x.length \in Int /\ 0 \in Int
    BY <1>1, BufferElim
  <2>2. Default(se, x.length) \in Int
    BY <2>1, DefaultType
  <2> QED
    BY <2>1, <2>2, DefaultType
<1>5. Fits(r, x)
  BY <1>1, <1>4, CopyRangeFits
<1> HIDE DEF r
<1>6. r[1] \in Nat /\ r[2] \in Nat /\ r[3] \in Nat /\ r[2] <= x.length
  BY <1>5 DEF Fits
<1>7. CopyWithin(x, r[1], r[2], r[3]) \in Buffers
  BY <1>1, <1>6, CopyWithinType
<1>8. CopyInternal(y, x, r[1], r[2], r[3]) \in Buffers
  BY <1>1, <1>6, CopyType
<1>9. CopyTo(b, t, r) \in Buffers
  BY <1>3, <1>7, <1>8
<1>10. Inside(CopyTouches(y, x, r[1], r[2], r[3]))
  BY <1>1, <1>6, CopyInside
<1> QED
  BY <1>2, <1>9, <1>10, ThrowsKeeps, ChangesKeeps

\* buffer.write(string, offset, length)
LEMMA WriteKeeps ==
    ASSUME Inv, NEW b \in DOMAIN bufs, NEW string \in Strings,
           NEW offset \in Arguments, NEW length \in Arguments,
           Write(b, string, offset, length)
    PROVE  Inv'
<1> DEFINE buf == bufs[b]
           src == OfSequence(string)
           o == Default(offset, 0)
           len == Default(length, buf.length - o)
           r == WriteRange(buf, src, o, len, 0)
<1>1. buf \in Buffers
  BY Elements
<1>2. Throws \/ Changes(b, CopyInternal(buf, src, r[1], r[2], r[3]),
                           CopyTouches(buf, src, r[1], r[2], r[3]))
  BY DEF Write
<1>3. src \in Buffers
  BY ConstantsAssumption, OfSequenceType
<1> HIDE DEF buf, src
<1>4. o \in Int
  BY DefaultType
<1>5. len \in Int /\ 0 \in 0 .. SizeMax
  <2> HIDE DEF o
  <2>1. buf.length - o \in Int
    BY <1>1, <1>4, BufferElim
  <2> QED
    BY <2>1, DefaultType, Bases
<1> HIDE DEF o, len
<1>6. Fits(r, src)
  BY <1>1, <1>3, <1>4, <1>5, WriteRangeFits
<1> HIDE DEF r
<1>7. r[1] \in Nat /\ r[2] \in Nat /\ r[3] \in Nat /\ r[2] <= src.length
  BY <1>6 DEF Fits
<1>8. CopyInternal(buf, src, r[1], r[2], r[3]) \in Buffers
  BY <1>1, <1>3, <1>7, CopyType
<1>9. Inside(CopyTouches(buf, src, r[1], r[2], r[3]))
  BY <1>1, <1>3, <1>7, CopyInside
<1> QED
  BY <1>2, <1>8, <1>9, ThrowsKeeps, ChangesKeeps

\* buffer.fill(value)
LEMMA FillKeeps ==
    ASSUME Inv, NEW b \in DOMAIN bufs, NEW value \in Values, Fill(b, value)
    PROVE  Inv'
<1> DEFINE buf == bufs[b]
           f == [j \in 0 .. buf.length - 1 |-> value % ByteBase]
           accesses == UNION {PutTouches(buf, i, 0) : i \in 0 .. buf.length - 1}
<1>1. buf \in Buffers
  BY Elements
<1>2. Changes(b, [buf EXCEPT !.bytes = f], accesses)
  BY DEF Fill
<1> HIDE DEF buf
<1>3. value % ByteBase \in Byte
  <2>1. value \in Nat /\ ByteBase \in Nat \ {0}
    BY ConstantsAssumption, Bases
  <2> QED
    BY <2>1 DEF Byte
<1>4. f \in [0 .. buf.length - 1 -> Byte]
  BY <1>3
<1> HIDE DEF f
<1>5. [buf EXCEPT !.bytes = f] \in Buffers
  BY <1>1, <1>4, BufferExcept
<1>6. Inside(accesses)
  <2>1. 0 \in Byte /\ 0 \in 0 .. SizeMax
    BY Bases DEF Byte
  <2>2. \A i \in 0 .. buf.length - 1 : Inside(PutTouches(buf, i, 0))
    BY <1>1, <2>1, PutFits
  <2> QED
    BY <2>2 DEF Inside
<1> HIDE DEF accesses
<1> QED
  BY <1>2, <1>5, <1>6, ChangesKeeps

\* The common part of writeUInt8, writeUInt16LE and writeUInt32LE.
LEMMA WriteIntKeeps ==
    ASSUME Inv, NEW b \in DOMAIN bufs, NEW n \in Nat, NEW value, NEW offset \in Int,
           NEW noAssert, NEW written \in Buffers, NEW junk \in Junk,
           WriteInt(b, n, value, offset, noAssert, written, junk)
    PROVE  Inv'
<1> DEFINE buf == bufs[b]
           accesses == UNION {PutTouches(buf, offset + k, junk) : k \in 0 .. n - 1}
<1>1. buf \in Buffers
  BY Elements
<1>2. Throws \/ Changes(b, written, accesses)
  BY DEF WriteInt
<1> HIDE DEF buf
<1>3. 0 \in Byte /\ junk \in 0 .. SizeMax
  BY Bases, ConstantsAssumption DEF Byte
<1>4. \A k \in 0 .. n - 1 : Inside(PutTouches(buf, offset + k, junk))
  <2>1. \A k \in 0 .. n - 1 : offset + k \in Int
    OBVIOUS
  <2> QED
    BY <1>1, <1>3, <2>1, PutFits
<1>5. Inside(accesses)
  BY <1>4 DEF Inside
<1> HIDE DEF accesses
<1> QED
  BY <1>2, <1>5, ThrowsKeeps, ChangesKeeps

\* The bytes of a number that is written leave a buffer.
LEMMA PutNumberType ==
    ASSUME NEW buf \in Buffers, NEW value \in Nat, NEW o \in Int, NEW junk \in 0 .. SizeMax
    PROVE  /\ Put8(buf, value, o, junk) \in Buffers
           /\ Put16(buf, value, o, junk) \in Buffers
           /\ Put32(buf, value, o, junk) \in Buffers
<1>1. /\ Digit(value, 0) \in Byte /\ Digit(value, 1) \in Byte
      /\ Digit(value, 2) \in Byte /\ Digit(value, 3) \in Byte
  BY DigitType
<1>2. \A x \in Buffers : Put8(x, value, o, junk) \in Buffers
  BY <1>1, PutFits DEF Put8
<1>3. Put16(buf, value, o, junk) \in Buffers
  <2>1. o + 1 \in Int
    OBVIOUS
  <2> QED
    BY <1>1, <1>2, <2>1, PutFits DEF Put16
<1>4. Put32(buf, value, o, junk) \in Buffers
  <2> DEFINE b3 == PutByte(buf, Digit(value, 3), o + 3, junk)
             b2 == PutByte(b3, Digit(value, 2), o + 2, junk)
             b1 == PutByte(b2, Digit(value, 1), o + 1, junk)
  <2>1. o + 1 \in Int /\ o + 2 \in Int /\ o + 3 \in Int
    OBVIOUS
  <2>2. b3 \in Buffers
    BY <1>1, <2>1, PutFits
  <2>3. b2 \in Buffers
    <3> HIDE DEF b3
    <3> QED
      BY <1>1, <2>1, <2>2, PutFits
  <2>4. b1 \in Buffers
    <3> HIDE DEF b2
    <3> QED
      BY <1>1, <2>1, <2>3, PutFits
  <2>5. Put32(buf, value, o, junk) = Put8(b1, value, o, junk)
    BY DEF Put32
  <2> HIDE DEF b1
  <2> QED
    BY <1>2, <2>4, <2>5
<1> QED
  BY <1>2, <1>3, <1>4

\* >>> 0 makes an integer of an integer.
LEMMA UnsignedType ==
    ASSUME NEW x \in Numbers
    PROVE  Unsigned(x) \in Nat
BY ConstantsAssumption, Bases DEF Unsigned

\* writeUInt8, writeUInt16LE and writeUInt32LE
LEMMA WriteNumberKeeps ==
    ASSUME Inv, NEW b \in DOMAIN bufs, NEW value \in Values, NEW x \in Numbers,
           NEW noAssert \in BOOLEAN, NEW junk \in Junk,
           \/ WriteUInt8(b, value, x, noAssert, junk)
           \/ WriteUInt16LE(b, value, x, noAssert, junk)
           \/ WriteUInt32LE(b, value, x, noAssert, junk)
    PROVE  Inv'
<1> DEFINE buf == bufs[b]
           o == Unsigned(x)
<1>1. /\ buf \in Buffers /\ value \in Nat /\ o \in Int /\ junk \in 0 .. SizeMax
      /\ 1 \in Nat /\ 2 \in Nat /\ 4 \in Nat
  BY Elements, UnsignedType, ConstantsAssumption
<1>2. /\ Put8(buf, value, o, junk) \in Buffers
      /\ Put16(buf, value, o, junk) \in Buffers
      /\ Put32(buf, value, o, junk) \in Buffers
  <2> HIDE DEF buf, o
  <2> QED
    BY <1>1, PutNumberType
<1>3. \/ WriteInt(b, 1, value, o, noAssert, Put8(buf, value, o, junk), junk)
      \/ WriteInt(b, 2, value, o, noAssert, Put16(buf, value, o, junk), junk)
      \/ WriteInt(b, 4, value, o, noAssert, Put32(buf, value, o, junk), junk)
  BY DEF WriteUInt8, WriteUInt16LE, WriteUInt32LE
<1> HIDE DEF buf, o
<1>4. CASE WriteInt(b, 1, value, o, noAssert, Put8(buf, value, o, junk), junk)
  BY <1>1, <1>2, <1>4, WriteIntKeeps
<1>5. CASE WriteInt(b, 2, value, o, noAssert, Put16(buf, value, o, junk), junk)
  BY <1>1, <1>2, <1>5, WriteIntKeeps
<1>6. CASE WriteInt(b, 4, value, o, noAssert, Put32(buf, value, o, junk), junk)
  BY <1>1, <1>2, <1>6, WriteIntKeeps
<1> QED
  BY <1>3, <1>4, <1>5, <1>6

\* buffer.toString(start, end)
LEMMA ToStringKeeps ==
    ASSUME Inv, NEW b \in DOMAIN bufs, NEW start \in Arguments, NEW end \in Arguments,
           ToString(b, start, end)
    PROVE  Inv'
<1> DEFINE buf == bufs[b]
           r == CopyRange(buf, buf, 0, Default(start, 0), Default(end, buf.length), 0)
           S == {k \in r[1] .. r[2] - 1 : \A m \in r[1] .. k - 1 : buf.bytes[m] # 0}
           accesses == {<<buf.length, i>> : i \in S}
<1>1. buf \in Buffers
  BY Elements
<1>2. Reads(accesses)
  BY DEF ToString
<1> HIDE DEF buf
<1>3. Default(start, 0) \in Int /\ Default(end, buf.length) \in Int /\ 0 \in Int
  BY <1>1, BufferElim, DefaultType
<1>4. Fits(r, buf)
  BY <1>1, <1>3, CopyRangeFits
<1> HIDE DEF r
<1>5. r[1] \in Nat /\ r[2] \in Nat /\ r[2] <= buf.length /\ buf.length \in Nat
  BY <1>1, <1>4, BufferElim DEF Fits
<1>6. \A k \in S : 0 <= k /\ k < buf.length
  BY <1>5
<1> HIDE DEF S
<1>7. Inside(accesses)
  BY <1>6 DEF Inside
<1> QED
  BY <1>2, <1>7, ReadsKeeps

\* toString('hex'), compare() and equals(), and the read functions
LEMMA LookKeeps ==
    ASSUME Inv, Look
    PROVE  Inv'
<1>1. ASSUME NEW b \in DOMAIN bufs, NEW start \in Arguments, NEW end \in Arguments,
             ToString(b, start, end)
      PROVE  Inv'
  BY <1>1, ToStringKeeps
<1>2. ASSUME NEW b \in DOMAIN bufs, ToHex(b)
      PROVE  Inv'
  <2>1. Inside({<<bufs[b].length, i>> : i \in 0 .. bufs[b].length - 1})
    BY Elements, BufferElim DEF Inside
  <2> QED
    BY <1>2, <2>1, ReadsKeeps DEF ToHex
<1>3. ASSUME NEW a \in DOMAIN bufs, NEW b \in DOMAIN bufs, CompareTo(a, b)
      PROVE  Inv'
  <2> DEFINE A == {<<bufs[a].length, i>> : i \in {k \in 0 .. bufs[a].length - 1 : k < bufs[b].length}}
             B == {<<bufs[b].length, i>> : i \in {k \in 0 .. bufs[b].length - 1 : k < bufs[a].length}}
  <2>1. Inside(A)
    BY Elements, BufferElim DEF Inside
  <2>2. Inside(B)
    BY Elements, BufferElim DEF Inside
  <2>3. Reads(A \cup B)
    BY <1>3 DEF CompareTo
  <2> HIDE DEF A, B
  <2>4. Inside(A \cup B)
    BY <2>1, <2>2, InsideUnion
  <2> QED
    BY <2>3, <2>4, ReadsKeeps
<1>4. ASSUME NEW b \in DOMAIN bufs, NEW n \in {1, 2}, NEW x \in Numbers,
             NEW noAssert \in BOOLEAN, NEW junk \in Junk, ReadInt(b, n, x, noAssert, junk)
      PROVE  Inv'
  <2> DEFINE buf == bufs[b]
             o == Unsigned(x)
             accesses == UNION {GetTouches(buf, o + k, junk) : k \in 0 .. n - 1}
  <2>1. buf \in Buffers /\ o \in Int /\ junk \in 0 .. SizeMax
    BY Elements, UnsignedType, ConstantsAssumption
  <2>2. Throws \/ Reads(accesses)
    BY <1>4 DEF ReadInt
  <2> HIDE DEF buf, o
  <2>3. \A k \in 0 .. n - 1 : Inside(GetTouches(buf, o + k, junk))
    <3>1. \A k \in 0 .. n - 1 : o + k \in Int
      BY <2>1
    <3> QED
      BY <2>1, <3>1, GetInside
  <2>4. Inside(accesses)
    BY <2>3 DEF Inside
  <2> HIDE DEF accesses
  <2> QED
    BY <2>2, <2>4, ThrowsKeeps, ReadsKeeps
<1> QED
  BY <1>1, <1>2, <1>3, <1>4 DEF Look

-----------------------------------------------------------------------------
(* The theorems.                                                           *)

\* Every call keeps the invariant.
LEMMA NextKeeps ==
    ASSUME Inv, [Next]_vars
    PROVE  Inv'
<1>1. CASE MakeOne
  <2>1. ASSUME NEW size \in Numbers, size <= MaxLength, NewSize(size)
        PROVE  Inv'
    BY <2>1, NewSizeKeeps
  <2>2. ASSUME NEW array \in Arrays, NewArray(array)
        PROVE  Inv'
    BY <2>2, NewArrayKeeps
  <2>3. ASSUME NEW string \in Strings, NewString(string)
        PROVE  Inv'
    BY <2>3, NewStringKeeps
  <2>4. ASSUME NEW string \in HexStrings, NewHex(string)
        PROVE  Inv'
    BY <2>4, NewHexKeeps
  <2>5. ASSUME NEW b \in DOMAIN bufs, NewBuffer(b)
        PROVE  Inv'
    BY <2>5, NewBufferKeeps
  <2>6. ASSUME NEW a \in DOMAIN bufs, NEW b \in DOMAIN bufs, Concat(a, b)
        PROVE  Inv'
    BY <2>6, ConcatKeeps
  <2>7. ASSUME NEW b \in DOMAIN bufs, NEW start \in Arguments, NEW end \in Arguments,
               Slice(b, start, end)
        PROVE  Inv'
    BY <2>7, SliceKeeps
  <2> QED
    BY <1>1, <2>1, <2>2, <2>3, <2>4, <2>5, <2>6, <2>7 DEF MakeOne
<1>2. CASE Modify
  <2>1. ASSUME NEW b \in DOMAIN bufs, NEW t \in DOMAIN bufs, NEW ts \in Arguments,
               NEW ss \in Arguments, NEW se \in Arguments, Copy(b, t, ts, ss, se)
        PROVE  Inv'
    BY <2>1, CopyKeeps
  <2>2. ASSUME NEW b \in DOMAIN bufs, NEW string \in Strings, NEW offset \in Arguments,
               NEW length \in Arguments, Write(b, string, offset, length)
        PROVE  Inv'
    BY <2>2, WriteKeeps
  <2>3. ASSUME NEW b \in DOMAIN bufs, NEW value \in Values, Fill(b, value)
        PROVE  Inv'
    BY <2>3, FillKeeps
  <2> QED
    BY <1>2, <2>1, <2>2, <2>3 DEF Modify
<1>3. CASE ModifyInt
  BY <1>3, WriteNumberKeeps DEF ModifyInt
<1>4. CASE Look
  BY <1>4, LookKeeps
<1>5. CASE UNCHANGED vars
  BY <1>5 DEF Inv, Inside, vars
<1> QED
  BY <1>1, <1>2, <1>3, <1>4, <1>5 DEF Next

\* The invariant holds for every width of numbers and every sequence of calls.
THEOREM Invariance == Spec => []Inv
<1>1. Init => Inv
  <2> SUFFICES ASSUME Init PROVE Inv
    OBVIOUS
  <2>1. <<>> \in Seq(Buffers) /\ Inside({})
    BY DEF Inside
  <2> QED
    BY <2>1, ConstantsAssumption DEF Init, Inv
<1>2. Inv /\ [Next]_vars => Inv'
  BY NextKeeps
<1> QED
  BY <1>1, <1>2, PTL DEF Spec

\* Buffers keep their type, and no call of the binding touches memory outside the buffers
\* and strings it is given, whatever numbers are passed.
THEOREM MemorySafe == Spec => [](TypeOK /\ InBounds)
<1>1. Inv => TypeOK /\ InBounds
  <2> SUFFICES ASSUME Inv PROVE TypeOK /\ InBounds
    OBVIOUS
  <2>1. \A b \in DOMAIN bufs : IsBuffer(bufs[b])
    BY Elements DEF Buffers
  <2> QED
    BY <2>1 DEF Inv, TypeOK, InBounds, Inside
<1> QED
  BY <1>1, Invariance, PTL

-----------------------------------------------------------------------------
(* The bytes are the ones that were meant: facts about numbers and sets.   *)

\* The least element of a set of numbers is the one that is least.
LEMMA LeastIs ==
    ASSUME NEW S \in SUBSET Int, NEW m \in S, \A y \in S : m <= y
    PROVE  Least(S) = m
<1>1. Least(S) \in S /\ \A y \in S : Least(S) <= y
  BY Zenon DEF Least
<1>2. Least(S) \in Int /\ m \in Int /\ Least(S) <= m /\ m <= Least(S)
  BY <1>1
<1> QED
  BY <1>2

\* The lesser of two numbers.
LEMMA LeastOfTwo ==
    ASSUME NEW a \in Int, NEW b \in Int
    PROVE  Least({a, b}) = IF a <= b THEN a ELSE b
<1> DEFINE m == IF a <= b THEN a ELSE b
<1>1. {a, b} \in SUBSET Int /\ m \in {a, b} /\ \A y \in {a, b} : m <= y
  OBVIOUS
<1> HIDE DEF m
<1>2. Least({a, b}) = m
  BY <1>1, LeastIs
<1> QED
  BY <1>2 DEF m

\* The least of three numbers.
LEMMA LeastOfThree ==
    ASSUME NEW a \in Int, NEW b \in Int, NEW c \in Int
    PROVE  Least({a, b, c}) = IF a <= b THEN IF a <= c THEN a ELSE c
                              ELSE IF b <= c THEN b ELSE c
<1> DEFINE m == IF a <= b THEN IF a <= c THEN a ELSE c ELSE IF b <= c THEN b ELSE c
<1>1. {a, b, c} \in SUBSET Int /\ m \in {a, b, c} /\ \A y \in {a, b, c} : m <= y
  OBVIOUS
<1> HIDE DEF m
<1>2. Least({a, b, c}) = m
  BY <1>1, LeastIs
<1> QED
  BY <1>2 DEF m

\* Every nonempty set of positions has a first one.
LEMMA FirstExists ==
    ASSUME NEW S \in SUBSET Nat, S # {}
    PROVE  \E x \in S : \A y \in S : x <= y
<1> DEFINE R == {p \in Nat \X Nat : p[1] < p[2]}
<1>1. IsWellFoundedOn(R, Nat)
  BY NatLessThanWellFounded, Zenon DEF OpToRel
<1> HIDE DEF R
<1>2. PICK x \in S : \A y \in S : ~(<<y, x>> \in R)
  BY <1>1, WFMin, Zenon
<1>3. \A y \in S : ~(y < x)
  BY <1>2 DEF R
<1> QED
  BY <1>3

\* Dividing by p and then by m is dividing by their product.
LEMMA DivTwice ==
    ASSUME NEW v \in Nat, NEW p \in Nat \ {0}, NEW m \in Nat \ {0}
    PROVE  v \div (p * m) = (v \div p) \div m
<1> DEFINE q == v \div p
           t == q \div m
           d == v % p
           e == q % m
<1>1. q \in Nat /\ d \in 0 .. p - 1 /\ v = p * q + d
  OBVIOUS
<1> HIDE DEF q, d
<1>2. t \in Nat /\ e \in 0 .. m - 1 /\ q = m * t + e
  BY <1>1
<1> HIDE DEF t, e
<1>3. p * m \in Nat \ {0}
  OBVIOUS
<1>4. p * q = (p * m) * t + p * e
  BY <1>1, <1>2
<1>5. p * e + d \in Nat
  BY <1>1, <1>2
<1>6. p * e <= p * (m - 1)
  BY <1>2
<1>7. p * (m - 1) = p * m - p
  OBVIOUS
<1>8. p * e + d < p * m
  BY <1>1, <1>2, <1>3, <1>5, <1>6, <1>7
<1> DEFINE pm == p * m
           f == p * e + d
<1>9. v = pm * t + f /\ f \in 0 .. pm - 1 /\ pm \in Nat \ {0}
  BY <1>1, <1>2, <1>3, <1>4, <1>5, <1>8
<1> HIDE DEF pm, f
<1>10. v \div pm = t
  BY <1>2, <1>9
<1> QED
  BY <1>10 DEF pm, q, t

\* The digits of a number of one, two and four bytes are the number.
LEMMA DigitsOfNumber ==
    ASSUME NEW v \in Nat
    PROVE  /\ v < Place(1) => Digit(v, 0) = v
           /\ v < Place(2) => Digit(v, 0) + Digit(v, 1) * ByteBase = v
           /\ v < Place(4) =>
                 (Digit(v, 0) + Digit(v, 1) * ByteBase)
                    + (Digit(v, 2) + Digit(v, 3) * ByteBase) * Place(2) = v
<1> DEFINE B == ByteBase
           q1 == v \div B
           q2 == q1 \div B
           q3 == q2 \div B
<1>1. B \in Nat \ {0} /\ B * B \in Nat \ {0}
  BY Bases
<1>2. /\ Place(0) = 1 /\ Place(1) = B /\ Place(2) = B * B /\ Place(3) = (B * B) * B
      /\ Place(4) = (B * B) * (B * B)
  <2>1. (B * B) * (B * B) \in Nat
    BY <1>1
  <2> QED
    BY <2>1 DEF Place, Uint32Max
<1> HIDE DEF B
<1>3. v \div (B * B) = q2
  BY <1>1, DivTwice
<1>4. v \div ((B * B) * B) = q3
  <2>1. v \div ((B * B) * B) = (v \div (B * B)) \div B
    BY <1>1, DivTwice
  <2> QED
    BY <2>1, <1>3
<1>5. v \div 1 = v
  OBVIOUS
<1>6. /\ Digit(v, 0) = v % B /\ Digit(v, 1) = q1 % B
      /\ Digit(v, 2) = q2 % B /\ Digit(v, 3) = q3 % B
  BY <1>2, <1>3, <1>4, <1>5 DEF Digit, B
<1>7. q1 \in Nat /\ v % B \in 0 .. B - 1 /\ v = B * q1 + (v % B)
  BY <1>1
<1> HIDE DEF q1
<1>8. q2 \in Nat /\ q1 % B \in 0 .. B - 1 /\ q1 = B * q2 + (q1 % B)
  BY <1>1, <1>7
<1> HIDE DEF q2
<1>9. q3 \in Nat /\ q2 % B \in 0 .. B - 1 /\ q2 = B * q3 + (q2 % B)
  BY <1>1, <1>8
<1> HIDE DEF q3
<1>10. v < B => v % B = v
  BY <1>1
<1>11. ASSUME v < B * B PROVE q1 % B = q1
  <2>1. q1 < B
    <3>1. SUFFICES ASSUME q1 >= B PROVE FALSE
      BY <1>1, <1>7
    <3>2. B * q1 >= B * B
      BY <1>1, <1>7, <3>1
    <3> QED
      BY <1>1, <1>7, <1>11, <3>2
  <2> QED
    BY <1>1, <1>7, <2>1
<1>12. ASSUME v < (B * B) * (B * B) PROVE q3 % B = q3
  <2> DEFINE S == B * B
  <2>1. S \in Nat \ {0} /\ q2 = v \div S
    BY <1>1, <1>3
  <2> HIDE DEF S
  <2>2. v = S * q2 + (v % S) /\ v % S \in 0 .. S - 1
    BY <2>1
  <2>3. q2 < S
    <3>1. SUFFICES ASSUME q2 >= S PROVE FALSE
      BY <1>8, <2>1
    <3>2. S * q2 >= S * S
      BY <1>8, <2>1, <3>1
    <3>3. v < S * S
      BY <1>12 DEF S
    <3> QED
      BY <1>8, <2>1, <2>2, <3>2, <3>3
  <2>4. q3 < B
    <3>1. SUFFICES ASSUME q3 >= B PROVE FALSE
      BY <1>1, <1>9
    <3>2. B * q3 >= B * B
      BY <1>1, <1>9, <3>1
    <3> QED
      BY <1>1, <1>8, <1>9, <2>3, <3>2 DEF S
  <2> QED
    BY <1>1, <1>9, <2>4
<1>13. ASSUME v < (B * B) * (B * B)
       PROVE  ((v % B) + (q1 % B) * B) + ((q2 % B) + (q3 % B) * B) * (B * B) = v
  <2>1. (q2 % B) + (q3 % B) * B = q2
    <3>1. q3 % B = q3
      BY <1>12, <1>13
    <3>2. (q3 % B) * B = B * q3
      BY <1>1, <1>9, <3>1
    <3> QED
      BY <1>1, <1>9, <3>2
  <2>2. (v % B) + (q1 % B) * B + q2 * (B * B) = v
    <3>1. v = B * (B * q2 + (q1 % B)) + (v % B)
      BY <1>7, <1>8
    <3>2. B * (B * q2 + (q1 % B)) = (B * B) * q2 + B * (q1 % B)
      BY <1>1, <1>8
    <3> QED
      BY <1>1, <1>7, <1>8, <3>1, <3>2
  <2> QED
    BY <1>1, <2>1, <2>2
<1>14. v < B * B => (v % B) + (q1 % B) * B = v
  BY <1>1, <1>7, <1>11
<1> QED
  BY <1>2, <1>6, <1>10, <1>13, <1>14 DEF B

-----------------------------------------------------------------------------
(* The bytes are the ones that were meant: copy() and slice().             *)

\* A number that is no index above SIZE_MAX is cut to the range it is meant for.
LEMMA ClampExact ==
    ASSUME NEW x \in Int, x < SizeMax, NEW upper \in Nat
    PROVE  Clamp(x, 0, upper) = IF x < 0 THEN 0 ELSE IF x > upper THEN upper ELSE x
BY Bases DEF Clamp, BoundRange, ToSize

\* An index of slice() is cut to the buffer, and counts from the end if it is negative.
LEMMA SliceIndexExact ==
    ASSUME NEW buf \in Buffers, NEW x \in Int, x < SizeMax
    PROVE  SliceIndex(buf, x) =
              Least({buf.length, AtLeast0(IF x < 0 THEN x + buf.length ELSE x)})
<1> DEFINE y == AtLeast0(IF x < 0 THEN x + buf.length ELSE x)
<1>1. buf.length \in 0 .. SizeMax /\ buf.length \in Nat /\ SizeMax \in Nat
  BY BufferElim, Bases
<1>2. y \in Int /\ y = IF x >= 0 THEN x ELSE IF -x > buf.length THEN 0 ELSE x + buf.length
  BY <1>1 DEF AtLeast0
<1>3. ASSUME x < 0, ~(-x > buf.length)
      PROVE  (x + buf.length) % (SizeMax + 1) = x + buf.length
  BY <1>1, <1>3
<1>4. SliceIndex(buf, x) = IF y > buf.length THEN buf.length ELSE y
  <2>1. CASE x >= 0
    BY <1>1, <1>2, <2>1 DEF SliceIndex, BoundRange
  <2>2. CASE x < 0 /\ -x > buf.length
    BY <1>1, <1>2, <2>2 DEF SliceIndex, BoundRange
  <2>3. CASE x < 0 /\ ~(-x > buf.length)
    <3>1. SliceIndex(buf, x) = BoundRange(x + buf.length, 0, buf.length)
      BY <1>1, <1>3, <2>3 DEF SliceIndex
    <3> QED
      BY <1>1, <1>2, <2>3, <3>1 DEF BoundRange
  <2> QED
    BY <2>1, <2>2, <2>3
<1> HIDE DEF y
<1>5. Least({buf.length, y}) = IF buf.length <= y THEN buf.length ELSE y
  BY <1>1, <1>2, LeastOfTwo
<1> QED
  BY <1>1, <1>2, <1>4, <1>5 DEF y

\* The loop of a copy, whatever its range, is the splice of as many bytes as it has rounds.
LEMMA CopyIsSplice ==
    ASSUME NEW dst, NEW src, NEW from \in Nat, NEW to \in Nat, NEW at \in Nat,
           dst.length \in Nat
    PROVE  CopyInternal(dst, src, from, to, at)
              = Spliced(dst, src, from, at, Copied(from, to, at, dst.length))
<1> DEFINE n == Copied(from, to, at, dst.length)
           f == [j \in 0 .. dst.length - 1 |->
                   IF at <= j /\ j < at + n THEN src.bytes[from + (j - at)] ELSE dst.bytes[j]]
           g == [j \in 0 .. dst.length - 1 |->
                   IF at <= j /\ j < at + n THEN src.bytes[from + j - at] ELSE dst.bytes[j]]
<1>1. \A j \in 0 .. dst.length - 1 : from + (j - at) = from + j - at
  OBVIOUS
<1>2. f = g
  BY <1>1
<1> QED
  BY <1>2 DEF CopyInternal, Spliced

\* Nothing is spliced from anywhere to anywhere.
LEMMA SpliceNothing ==
    ASSUME NEW dst, NEW src, NEW from, NEW at \in Int, dst.length \in Nat
    PROVE  Spliced(dst, src, from, at, 0)
              = [dst EXCEPT !.bytes = [j \in 0 .. dst.length - 1 |-> dst.bytes[j]]]
<1> DEFINE f == [j \in 0 .. dst.length - 1 |->
                   IF at <= j /\ j < at + 0 THEN src.bytes[from + j - at] ELSE dst.bytes[j]]
<1>1. \A j \in 0 .. dst.length - 1 : ~(at <= j /\ j < at + 0)
  OBVIOUS
<1>2. f = [j \in 0 .. dst.length - 1 |-> dst.bytes[j]]
  BY <1>1
<1> QED
  BY <1>2 DEF Spliced

\* slice() gives the bytes between the positions its indices name.
LEMMA SliceIsExact == Inv => SliceExact
<1> SUFFICES ASSUME Inv, NEW b \in DOMAIN bufs, NEW start \in Numbers, NEW end \in Numbers
             PROVE  LET buf == bufs[b]
                        place(x) ==
                           Least({buf.length, AtLeast0(IF x < 0 THEN x + buf.length ELSE x)})
                        n == AtLeast0(place(end) - place(start))
                        r == SliceRange(buf, start, end)
                    IN  CopyInternal(Create(r[2] - r[1]), buf, r[1], r[2], r[3])
                           = Spliced(Create(n), buf, place(start), 0, n)
  BY DEF SliceExact
<1> DEFINE buf == bufs[b]
           place(x) == Least({buf.length, AtLeast0(IF x < 0 THEN x + buf.length ELSE x)})
           from == SliceIndex(buf, start)
           to == SliceIndex(buf, end)
           n == AtLeast0(to - from)
           r == SliceRange(buf, start, end)
<1>1. buf \in Buffers
  BY Elements
<1>2. start \in Int /\ start < SizeMax /\ end \in Int /\ end < SizeMax
  BY ConstantsAssumption, NumbersAssumption
<1>3. place(start) = from /\ place(end) = to
  BY <1>1, <1>2, SliceIndexExact
<1>4. from \in Nat /\ to \in Nat
  <2>1. buf.length \in Nat
    BY <1>1, BufferElim
  <2>2. \A x \in Int : AtLeast0(IF x < 0 THEN x + buf.length ELSE x) \in Nat
    BY <2>1 DEF AtLeast0
  <2>3. \A y \in Nat : Least({buf.length, y}) \in Nat
    BY <2>1, LeastOfTwo
  <2> QED
    BY <1>2, <1>3, <2>2, <2>3
<1> HIDE DEF buf, place
<1>5. r = <<from, IF to < from THEN from ELSE to, 0>>
  BY DEF SliceRange
<1> HIDE DEF from, to, r
<1>6. n \in Nat /\ r[2] - r[1] = n /\ r[1] = from /\ r[2] = from + n /\ r[3] = 0
  BY <1>4, <1>5 DEF AtLeast0
<1> HIDE DEF n
<1>7. Create(n).length = n
  BY DEF Create
<1>8. Copied(from, from + n, 0, n) = n
  BY <1>4, <1>6 DEF Copied
<1>9. CopyInternal(Create(n), buf, from, from + n, 0) = Spliced(Create(n), buf, from, 0, n)
  BY <1>4, <1>6, <1>7, <1>8, CopyIsSplice
<1>10. n = AtLeast0(place(end) - place(start))
  BY <1>3 DEF n
<1> QED
  BY <1>3, <1>6, <1>9, <1>10 DEF buf, place, r

\* The number of rounds of a copy is what source range and target allow.
LEMMA CopyCount ==
    ASSUME NEW dst \in Buffers, NEW src \in Buffers, NEW ts \in Int, NEW ss \in Int,
           NEW se \in Int, ts < SizeMax, ss < SizeMax, se < SizeMax, ts >= 0
    PROVE  LET r == CopyRange(dst, src, ts, ss, se, 0)
               from == AtLeast0(ss)
               n == AtLeast0(Least({se - from, src.length - from, dst.length - ts}))
           IN  /\ r[1] \in Nat /\ r[2] \in Nat /\ r[3] \in Nat /\ n \in Nat /\ from \in Nat
               /\ Copied(r[1], r[2], r[3], dst.length) = n
               /\ n > 0 => r[1] = from /\ r[3] = ts
<1> DEFINE r == CopyRange(dst, src, ts, ss, se, 0)
           from == AtLeast0(ss)
           least == Least({se - from, src.length - from, dst.length - ts})
           n == AtLeast0(least)
           L == src.length
           M == dst.length
           end == IF se < 0 THEN 0 ELSE IF se > L THEN L ELSE se
           cut == IF from > L THEN L ELSE from
<1>1. L \in Nat /\ M \in Nat
  BY BufferElim
<1>2. from \in Nat /\ from = IF ss < 0 THEN 0 ELSE ss
  BY DEF AtLeast0
<1>3. /\ Clamp(ts, 0, M) = IF ts > M THEN M ELSE ts
      /\ Clamp(ss, 0, L) = cut
      /\ Clamp(se, 0, L) = end
  BY <1>1, <1>2, ClampExact
<1>4. r = <<cut, IF end < cut THEN cut ELSE end, IF ts > M THEN M ELSE ts>>
  BY <1>3 DEF CopyRange
<1> HIDE DEF L, M, from, r
<1>5. least = IF se - from <= L - from
              THEN IF se - from <= M - ts THEN se - from ELSE M - ts
              ELSE IF L - from <= M - ts THEN L - from ELSE M - ts
  <2> DEFINE x == se - from
             y == L - from
             z == M - ts
  <2>1. x \in Int /\ y \in Int /\ z \in Int
    BY <1>1, <1>2
  <2>2. least = Least({x, y, z})
    BY DEF L, M
  <2> HIDE DEF x, y, z, least
  <2>3. Least({x, y, z}) = IF x <= y THEN IF x <= z THEN x ELSE z ELSE IF y <= z THEN y ELSE z
    BY <2>1, LeastOfThree
  <2> QED
    BY <2>2, <2>3 DEF x, y, z
<1> HIDE DEF least
<1>6. least \in Int /\ n \in Nat /\ n = IF least < 0 THEN 0 ELSE least
  BY <1>1, <1>2, <1>5 DEF AtLeast0
<1> HIDE DEF n
<1>7. /\ r[1] = cut /\ r[2] = (IF end < cut THEN cut ELSE end)
      /\ r[3] = (IF ts > M THEN M ELSE ts)
  BY <1>4
<1>8. r[1] \in Nat /\ r[2] \in Nat /\ r[3] \in Nat
  BY <1>1, <1>2, <1>7
<1>9. CASE from > L \/ end <= from \/ ts >= M
  <2>1. least <= 0
    BY <1>1, <1>2, <1>5, <1>9
  <2>2. Copied(r[1], r[2], r[3], M) = 0
    BY <1>1, <1>2, <1>7, <1>9 DEF Copied
  <2> QED
    BY <1>2, <1>6, <1>8, <2>1, <2>2 DEF from, least, n, r, L, M
<1>10. CASE ~(from > L \/ end <= from \/ ts >= M)
  <2>1. r[1] = from /\ r[2] = end /\ r[3] = ts /\ end \in Nat
    BY <1>1, <1>2, <1>7, <1>10
  <2>2. end - from = IF se - from <= L - from THEN se - from ELSE L - from
    BY <1>1, <1>2, <1>10
  <2>3. Copied(from, end, ts, M) = least
    BY <1>1, <1>2, <1>5, <1>10, <2>1, <2>2 DEF Copied
  <2>4. least > 0
    BY <1>1, <1>2, <1>5, <1>10, <2>2
  <2> QED
    BY <1>2, <1>6, <1>8, <2>1, <2>3, <2>4 DEF from, least, n, r, L, M
<1> QED
  BY <1>9, <1>10

\* copy() moves the bytes it names to the place it names, and no others.
LEMMA CopyIsExact == Inv => CopyExact
<1> SUFFICES ASSUME Inv, NEW b \in DOMAIN bufs, NEW t \in DOMAIN bufs,
                    NEW ts \in Numbers, NEW ss \in Numbers, NEW se \in Numbers
             PROVE  LET from == AtLeast0(ss)
                        n == AtLeast0(Least({se - from, bufs[b].length - from,
                                             bufs[t].length - ts}))
                        r == CopyRange(bufs[t], bufs[b], ts, ss, se, 0)
                    IN  (ts >= 0 /\ ~(b = t /\ from < ts /\ ts < from + n)) =>
                           CopyTo(b, t, r) = Spliced(bufs[t], bufs[b], from, ts, n)
  BY DEF CopyExact
<1> DEFINE src == bufs[b]
           dst == bufs[t]
           from == AtLeast0(ss)
           n == AtLeast0(Least({se - from, src.length - from, dst.length - ts}))
           r == CopyRange(dst, src, ts, ss, se, 0)
<1> SUFFICES ASSUME ts >= 0, ~(b = t /\ from < ts /\ ts < from + n)
             PROVE  CopyTo(b, t, r) = Spliced(dst, src, from, ts, n)
  OBVIOUS
<1>1. src \in Buffers /\ dst \in Buffers
  BY Elements
<1>2. ts \in Int /\ ss \in Int /\ se \in Int /\ ts < SizeMax /\ ss < SizeMax /\ se < SizeMax
  BY ConstantsAssumption, NumbersAssumption
<1>3. /\ r[1] \in Nat /\ r[2] \in Nat /\ r[3] \in Nat /\ n \in Nat /\ from \in Nat
      /\ Copied(r[1], r[2], r[3], dst.length) = n
      /\ n > 0 => r[1] = from /\ r[3] = ts
  BY <1>1, <1>2, CopyCount
<1>4. dst.length \in Nat
  BY <1>1, BufferElim
<1>5. b = t => ~(from < ts /\ ts < from + n)
  OBVIOUS
<1> HIDE DEF from, n, r
<1>6. Spliced(dst, src, r[1], r[3], n) = Spliced(dst, src, from, ts, n)
  <2>1. CASE n = 0
    <3> PICK x, y : x = r[1] /\ y = r[3]
      OBVIOUS
    <3> PICK d : d = dst
      OBVIOUS
    <3>1. x \in Int /\ y \in Int /\ from \in Int /\ ts \in Int /\ d.length \in Nat
      BY <1>2, <1>3, <1>4
    <3>2. Spliced(d, src, x, y, 0)
             = [d EXCEPT !.bytes = [j \in 0 .. d.length - 1 |-> d.bytes[j]]]
      BY ONLY <3>1, SpliceNothing
    <3>3. Spliced(d, src, from, ts, 0)
             = [d EXCEPT !.bytes = [j \in 0 .. d.length - 1 |-> d.bytes[j]]]
      BY ONLY <3>1, SpliceNothing
    <3> QED
      BY <2>1, <3>2, <3>3
  <2>2. CASE n > 0
    BY <1>3, <2>2
  <2> QED
    BY <1>3, <2>1, <2>2
<1>7. CASE b # t
  <2>1. CopyTo(b, t, r) = CopyInternal(dst, src, r[1], r[2], r[3])
    BY <1>7 DEF CopyTo
  <2>2. CopyInternal(dst, src, r[1], r[2], r[3]) = Spliced(dst, src, r[1], r[3], n)
    BY <1>3, <1>4, CopyIsSplice
  <2> QED
    BY <1>6, <2>1, <2>2
<1>8. CASE b = t
  <2> DEFINE period == IF r[1] < r[3] THEN r[3] - r[1] ELSE n
             f == [j \in 0 .. src.length - 1 |->
                     IF r[3] <= j /\ j < r[3] + n THEN src.bytes[r[1] + ((j - r[3]) % period)]
                                                 ELSE src.bytes[j]]
             g == [j \in 0 .. src.length - 1 |->
                     IF r[3] <= j /\ j < r[3] + n THEN src.bytes[r[1] + j - r[3]]
                                                 ELSE src.bytes[j]]
  <2>1. ASSUME NEW j \in 0 .. src.length - 1, r[3] <= j, j < r[3] + n
        PROVE  r[1] + ((j - r[3]) % period) = r[1] + j - r[3]
    <3>1. j \in Int /\ j - r[3] \in Nat /\ j - r[3] < n
      BY <1>3, <1>4, <1>8, <2>1
    <3>2. period \in Nat /\ period >= n /\ period > 0
      BY <1>3, <1>5, <1>8, <3>1
    <3> HIDE DEF period
    <3>3. (j - r[3]) % period = j - r[3]
      BY <1>3, <3>1, <3>2
    <3> QED
      BY <1>3, <3>1, <3>3
  <2>2. f = g
    BY <2>1
  <2>3. CopyTo(b, t, r) = [src EXCEPT !.bytes = f]
    BY <1>3, <1>8 DEF CopyTo, CopyWithin
  <2>4. Spliced(dst, src, r[1], r[3], n) = [src EXCEPT !.bytes = g]
    BY <1>8 DEF Spliced
  <2> QED
    BY <1>6, <2>2, <2>3, <2>4
<1> QED
  BY <1>7, <1>8

-----------------------------------------------------------------------------
(* The bytes are the ones that were meant: numbers.                        *)

\* writeUInt8() of the binding at a position of the buffer puts that byte.
LEMMA PutExact ==
    ASSUME NEW buf \in Buffers, NEW value \in Byte, NEW o \in 0 .. buf.length - 1
    PROVE  /\ PutByte(buf, value, o, 0) \in Buffers
           /\ PutByte(buf, value, o, 0).length = buf.length
           /\ \A j \in 0 .. buf.length - 1 :
                 PutByte(buf, value, o, 0).bytes[j] = IF j = o THEN value ELSE buf.bytes[j]
<1> DEFINE src == OfSequence(<<value>>)
           new == PutByte(buf, value, o, 0)
<1>1. /\ buf.length \in 0 .. SizeMax /\ buf.length \in Nat /\ SizeMax \in Nat /\ SizeMax > 3
      /\ o \in Int /\ o >= 0 /\ o < buf.length
  BY BufferElim, Bases
<1>2. src.length = 1 /\ src.bytes[0] = value
  BY DEF OfSequence
<1>3. Clamp(o, 0, buf.length) = o
  BY <1>1, ClampExact
<1>4. SizeMinus(buf.length, o) = buf.length - o
  BY <1>1, NoWrap
<1>5. Clamp(1, 0, buf.length - o) = 1
  <2>1. buf.length - o \in Nat /\ ~(1 > buf.length - o) /\ 1 \in Int /\ 1 < SizeMax
    BY <1>1
  <2> QED
    BY <2>1, ClampExact
<1>6. BoundRange(1, 0, 1) = 1
  BY <1>1 DEF BoundRange
<1> HIDE DEF src
<1>7. WriteRange(buf, src, o, 1, 0) = <<0, 1, o>>
  BY <1>2, <1>3, <1>4, <1>5, <1>6 DEF WriteRange
<1>8. new = CopyInternal(buf, src, 0, 1, o)
  BY <1>7 DEF PutByte, src
<1>9. Copied(0, 1, o, buf.length) = 1
  BY <1>1 DEF Copied
<1>10. new = [buf EXCEPT !.bytes = [j \in 0 .. buf.length - 1 |->
                 IF o <= j /\ j < o + 1 THEN src.bytes[0 + (j - o)] ELSE buf.bytes[j]]]
  BY <1>8, <1>9 DEF CopyInternal
<1>11. new \in Buffers /\ new.length = buf.length
  <2>1. o \in Int /\ 0 \in 0 .. SizeMax
    BY <1>1
  <2> QED
    BY <2>1, PutFits
<1> HIDE DEF new
<1>12. buf = [length |-> buf.length, bytes |-> buf.bytes]
  BY DEF Buffers
<1>13. ASSUME NEW j \in 0 .. buf.length - 1
       PROVE  new.bytes[j] = IF j = o THEN value ELSE buf.bytes[j]
  <2>1. new.bytes[j] = IF o <= j /\ j < o + 1 THEN src.bytes[0 + (j - o)] ELSE buf.bytes[j]
    BY <1>10, <1>12
  <2>2. CASE j = o
    BY <1>1, <1>2, <2>1, <2>2
  <2>3. CASE j # o
    BY <1>1, <2>1, <2>3
  <2> QED
    BY <2>2, <2>3
<1> QED
  BY <1>11, <1>13 DEF new

\* readUInt8() of the binding at a position of the buffer gets that byte.
LEMMA GetExact ==
    ASSUME NEW buf \in Buffers, NEW o \in 0 .. buf.length - 1
    PROVE  GetByte(buf, o, 0) = buf.bytes[o]
<1>1. /\ buf.length \in 0 .. SizeMax /\ buf.length \in Nat /\ SizeMax \in Nat
      /\ o \in Int /\ o >= 0 /\ o < buf.length /\ buf.length # 0
  BY BufferElim, Bases
<1>2. SizeMinus(buf.length, 1) = buf.length - 1
  BY <1>1, NoWrap
<1>3. Clamp(o, 0, buf.length - 1) = o
  BY <1>1, ClampExact
<1> QED
  BY <1>1, <1>2, <1>3 DEF GetByte, BytePosition

\* writeUInt8() is read back, with and without a sign, and no other byte has changed.
LEMMA ReadBackOne ==
    ASSUME NEW buf \in Buffers, NEW v \in Nat, NEW o \in Nat, v < Place(1),
           o + 1 <= buf.length
    PROVE  LET new == Put8(buf, v, o, 0)
           IN  /\ Get8(new, o, 0) = v
               /\ GetSigned8(new, o, 0) \in {v, v - ByteBase}
               /\ 2 * GetSigned8(new, o, 0) \in -ByteBase .. ByteBase - 1
               /\ \A j \in 0 .. buf.length - 1 :
                     j \in o .. o + 1 - 1 \/ new.bytes[j] = buf.bytes[j]
<1> DEFINE new == Put8(buf, v, o, 0)
<1>1. buf.length \in Nat /\ o \in 0 .. buf.length - 1 /\ ByteBase \in Nat
  BY BufferElim, Bases
<1>2. Digit(v, 0) = v /\ v \in Byte /\ v < ByteBase
  BY DigitsOfNumber, DigitType, Bases DEF Place
<1>3. /\ new \in Buffers /\ new.length = buf.length
      /\ \A j \in 0 .. buf.length - 1 : new.bytes[j] = IF j = o THEN v ELSE buf.bytes[j]
  BY <1>1, <1>2, PutExact DEF Put8
<1> HIDE DEF new
<1>4. GetByte(new, o, 0) = v
  BY <1>1, <1>3, GetExact
<1>5. GetSigned8(new, o, 0) = IF 2 * v < ByteBase THEN v ELSE v - ByteBase
  BY <1>1, <1>4 DEF GetSigned8
<1>6. \A j \in 0 .. buf.length - 1 : j \in o .. o + 1 - 1 \/ new.bytes[j] = buf.bytes[j]
  BY <1>1, <1>3
<1>7. /\ GetSigned8(new, o, 0) \in {v, v - ByteBase}
      /\ 2 * GetSigned8(new, o, 0) \in -ByteBase .. ByteBase - 1
  BY <1>1, <1>2, <1>5
<1> QED
  BY <1>4, <1>6, <1>7 DEF new, Get8

\* writeUInt16LE() is read back, and no other byte has changed.
LEMMA ReadBackTwo ==
    ASSUME NEW buf \in Buffers, NEW v \in Nat, NEW o \in Nat, v < Place(2),
           o + 2 <= buf.length
    PROVE  LET new == Put16(buf, v, o, 0)
           IN  /\ Get16(new, o, 0) = v
               /\ \A j \in 0 .. buf.length - 1 :
                     j \in o .. o + 2 - 1 \/ new.bytes[j] = buf.bytes[j]
<1> DEFINE low == Put8(buf, v, o, 0)
           new == Put16(buf, v, o, 0)
<1>1. buf.length \in Nat /\ o \in 0 .. buf.length - 1 /\ o + 1 \in 0 .. buf.length - 1
  BY BufferElim
<1>2. Digit(v, 0) \in Byte /\ Digit(v, 1) \in Byte
  BY DigitType
<1>3. /\ low \in Buffers /\ low.length = buf.length
      /\ \A j \in 0 .. buf.length - 1 : low.bytes[j] = IF j = o THEN Digit(v, 0) ELSE buf.bytes[j]
  BY <1>1, <1>2, PutExact DEF Put8
<1> HIDE DEF low
<1>4. new = PutByte(low, Digit(v, 1), o + 1, 0)
  BY DEF Put16, low
<1>5. /\ new \in Buffers /\ new.length = buf.length
      /\ \A j \in 0 .. buf.length - 1 :
            new.bytes[j] = IF j = o + 1 THEN Digit(v, 1) ELSE low.bytes[j]
  BY <1>1, <1>2, <1>3, <1>4, PutExact
<1> HIDE DEF new
<1>6. GetByte(new, o, 0) = Digit(v, 0) /\ GetByte(new, o + 1, 0) = Digit(v, 1)
  <2>1. GetByte(new, o, 0) = new.bytes[o] /\ GetByte(new, o + 1, 0) = new.bytes[o + 1]
    BY <1>1, <1>5, GetExact
  <2> QED
    BY <1>1, <1>3, <1>5, <2>1
<1>7. Get16(new, o, 0) = v
  BY <1>6, DigitsOfNumber DEF Get16
<1>8. \A j \in 0 .. buf.length - 1 : j \in o .. o + 2 - 1 \/ new.bytes[j] = buf.bytes[j]
  BY <1>1, <1>3, <1>5
<1> QED
  BY <1>7, <1>8 DEF new

\* writeUInt32LE() is read back in two halves, and no other byte has changed.
LEMMA ReadBackFour ==
    ASSUME NEW buf \in Buffers, NEW v \in Nat, NEW o \in Nat, v < Place(4),
           o + 4 <= buf.length
    PROVE  LET new == Put32(buf, v, o, 0)
           IN  /\ Get16(new, o, 0) + Get16(new, o + 2, 0) * Place(2) = v
               /\ \A j \in 0 .. buf.length - 1 :
                     j \in o .. o + 4 - 1 \/ new.bytes[j] = buf.bytes[j]
<1> DEFINE D(k) == Digit(v, k)
           b3 == PutByte(buf, D(3), o + 3, 0)
           b2 == PutByte(b3, D(2), o + 2, 0)
           b1 == PutByte(b2, D(1), o + 1, 0)
           new == PutByte(b1, D(0), o, 0)
           P == 0 .. buf.length - 1
<1>0. Put32(buf, v, o, 0) = new
  BY DEF Put32, Put8
<1>1. /\ buf.length \in Nat /\ o \in P /\ o + 1 \in P /\ o + 2 \in P /\ o + 3 \in P
      /\ (o + 2) + 1 = o + 3
  BY BufferElim
<1>2. \A k \in 0 .. 3 : D(k) \in Byte
  BY DigitType
<1> HIDE DEF D
<1>3. /\ b3 \in Buffers /\ b3.length = buf.length
      /\ \A j \in P : b3.bytes[j] = IF j = o + 3 THEN D(3) ELSE buf.bytes[j]
  BY <1>1, <1>2, PutExact
<1> HIDE DEF b3
<1>4. /\ b2 \in Buffers /\ b2.length = buf.length
      /\ \A j \in P : b2.bytes[j] = IF j = o + 2 THEN D(2) ELSE b3.bytes[j]
  BY <1>1, <1>2, <1>3, PutExact
<1> HIDE DEF b2
<1>5. /\ b1 \in Buffers /\ b1.length = buf.length
      /\ \A j \in P : b1.bytes[j] = IF j = o + 1 THEN D(1) ELSE b2.bytes[j]
  BY <1>1, <1>2, <1>4, PutExact
<1> HIDE DEF b1
<1>6. /\ new \in Buffers /\ new.length = buf.length
      /\ \A j \in P : new.bytes[j] = IF j = o THEN D(0) ELSE b1.bytes[j]
  BY <1>1, <1>2, <1>5, PutExact
<1> HIDE DEF new
<1>7. /\ new.bytes[o] = D(0) /\ new.bytes[o + 1] = D(1)
      /\ new.bytes[o + 2] = D(2) /\ new.bytes[o + 3] = D(3)
  BY <1>1, <1>3, <1>4, <1>5, <1>6
<1>8. /\ GetByte(new, o, 0) = D(0) /\ GetByte(new, o + 1, 0) = D(1)
      /\ GetByte(new, o + 2, 0) = D(2) /\ GetByte(new, (o + 2) + 1, 0) = D(3)
  BY <1>1, <1>6, <1>7, GetExact
<1>9. Get16(new, o, 0) + Get16(new, o + 2, 0) * Place(2)
         = (D(0) + D(1) * ByteBase) + (D(2) + D(3) * ByteBase) * Place(2)
  BY <1>8 DEF Get16
<1>10. Get16(new, o, 0) + Get16(new, o + 2, 0) * Place(2) = v
  BY <1>9, DigitsOfNumber DEF D
<1>11. \A j \in 0 .. buf.length - 1 : j \in o .. o + 4 - 1 \/ new.bytes[j] = buf.bytes[j]
  BY <1>1, <1>3, <1>4, <1>5, <1>6
<1> QED
  BY <1>0, <1>10, <1>11

\* What the write functions accept is read back from every buffer at every offset.
LEMMA ReadBackHolds == Inv => ReadBack
<1> SUFFICES ASSUME Inv, NEW b \in DOMAIN bufs, NEW value \in Values, NEW x \in Numbers,
                    NEW n \in {1, 2, 4},
                    ~(ValueRefused(value, n, FALSE) \/ Refused(bufs[b], Unsigned(x), n, FALSE))
             PROVE  LET buf == bufs[b]
                        o == Unsigned(x)
                        new == CASE n = 1 -> Put8(buf, value, o, 0)
                                 [] n = 2 -> Put16(buf, value, o, 0)
                                 [] n = 4 -> Put32(buf, value, o, 0)
                    IN  /\ n = 1 => /\ Get8(new, o, 0) = value
                                    /\ GetSigned8(new, o, 0) \in {value, value - ByteBase}
                                    /\ 2 * GetSigned8(new, o, 0) \in -ByteBase .. ByteBase - 1
                        /\ n = 2 => Get16(new, o, 0) = value
                        /\ n = 4 => Get16(new, o, 0) + Get16(new, o + 2, 0) * Place(2) = value
                        /\ \A j \in 0 .. buf.length - 1 :
                              j \in o .. o + n - 1 \/ new.bytes[j] = buf.bytes[j]
  BY DEF ReadBack
<1> DEFINE buf == bufs[b]
           o == Unsigned(x)
<1>1. buf \in Buffers /\ buf.length \in Nat
  BY Elements, BufferElim
<1>2. value \in Nat /\ o \in Nat
  BY ConstantsAssumption, Bases DEF Unsigned
<1>3. value < Place(n) /\ o + n <= buf.length
  <2>1. Place(n) \in Int
    BY Bases DEF Place
  <2> QED
    BY <1>1, <1>2, <2>1 DEF ValueRefused, Refused
<1> HIDE DEF buf, o
<1>4. CASE n = 1
  BY <1>1, <1>2, <1>3, <1>4, ReadBackOne DEF buf, o
<1>5. CASE n = 2
  BY <1>1, <1>2, <1>3, <1>5, ReadBackTwo DEF buf, o
<1>6. CASE n = 4
  BY <1>1, <1>2, <1>3, <1>6, ReadBackFour DEF buf, o
<1> QED
  BY <1>4, <1>5, <1>6

-----------------------------------------------------------------------------
(* The bytes are the ones that were meant: order and hexadecimal form.     *)

Differ(a, b) == {i \in 0 .. a.length - 1 : i < b.length /\ a.bytes[i] # b.bytes[i]}

\* Position i is the first at which a and b differ.
FirstDiffer(a, b, i) == i \in Differ(a, b) /\ \A k \in Differ(a, b) : i <= k

\* compare() looks at the first difference, then at the lengths.
LEMMA CompareFacts ==
    ASSUME NEW a \in Buffers, NEW b \in Buffers
    PROVE  /\ Differ(a, b) \in SUBSET Nat
           /\ Differ(a, b) = {} =>
                 Compare(a, b) = IF a.length < b.length THEN -1
                                 ELSE IF a.length > b.length THEN 1 ELSE 0
           /\ Differ(a, b) # {} => \E i : FirstDiffer(a, b, i)
           /\ \A i : FirstDiffer(a, b, i) =>
                 Compare(a, b) = IF Char(a.bytes[i]) < Char(b.bytes[i]) THEN -1 ELSE 1
<1> DEFINE common == {i \in 0 .. a.length - 1 : i < b.length}
           differ == {i \in common : a.bytes[i] # b.bytes[i]}
           first == CHOOSE i \in differ : \A k \in differ : i <= k
<1>1. differ = Differ(a, b)
  BY DEF Differ
<1>2. Differ(a, b) \in SUBSET Nat
  BY BufferElim DEF Differ
<1>3. Differ(a, b) # {} => \E i : FirstDiffer(a, b, i)
  BY <1>2, FirstExists DEF FirstDiffer
<1>4. Compare(a, b) =
        IF Differ(a, b) # {} THEN IF Char(a.bytes[first]) < Char(b.bytes[first]) THEN -1 ELSE 1
        ELSE IF a.length < b.length THEN -1 ELSE IF a.length > b.length THEN 1 ELSE 0
  BY <1>1 DEF Compare
<1>5. ASSUME NEW i, FirstDiffer(a, b, i) PROVE first = i
  <2>1. i \in differ /\ \A k \in differ : i <= k
    BY <1>1, <1>5 DEF FirstDiffer
  <2> HIDE DEF differ
  <2>2. first \in differ /\ \A k \in differ : first <= k
    BY <2>1, Zenon
  <2> HIDE DEF first
  <2>3. first <= i /\ i <= first /\ first \in Nat /\ i \in Nat
    BY <1>1, <1>2, <2>1, <2>2
  <2> QED
    BY <2>3
<1> HIDE DEF first
<1>6. ASSUME NEW i, FirstDiffer(a, b, i)
      PROVE  Compare(a, b) = IF Char(a.bytes[i]) < Char(b.bytes[i]) THEN -1 ELSE 1
  <2>1. Differ(a, b) # {}
    BY <1>6 DEF FirstDiffer
  <2>2. first = i
    BY <1>5, <1>6
  <2> QED
    BY <1>4, <2>1, <2>2
<1> QED
  BY <1>2, <1>3, <1>4, <1>6

\* Two bytes are different characters, signed or not.
LEMMA CharInjective ==
    ASSUME NEW x \in Byte, NEW y \in Byte
    PROVE  Char(x) \in Int /\ Char(y) \in Int /\ (Char(x) = Char(y) => x = y)
BY Bases, ConstantsAssumption DEF Char, Byte

\* The first difference of b and a is that of a and b.
LEMMA DifferSymmetric ==
    ASSUME NEW a \in Buffers, NEW b \in Buffers
    PROVE  /\ Differ(a, b) = Differ(b, a)
           /\ \A i \in Differ(a, b) :
                 /\ i \in Nat /\ i < a.length /\ i < b.length
                 /\ a.bytes[i] \in Byte /\ b.bytes[i] \in Byte /\ a.bytes[i] # b.bytes[i]
           /\ \A i \in Nat : i < a.length /\ i < b.length /\ i \notin Differ(a, b) =>
                 a.bytes[i] = b.bytes[i]
<1>1. /\ a.length \in Nat /\ b.length \in Nat
      /\ a.bytes \in [0 .. a.length - 1 -> Byte] /\ b.bytes \in [0 .. b.length - 1 -> Byte]
  BY BufferElim
<1>2. Differ(a, b) = Differ(b, a)
  BY <1>1 DEF Differ
<1> QED
  BY <1>1, <1>2 DEF Differ

\* compare() is 0 for equal buffers only.
LEMMA CompareZero ==
    ASSUME NEW a \in Buffers, NEW b \in Buffers
    PROVE  (Compare(a, b) = 0) <=> (a = b)
<1>1. /\ a.length \in Nat /\ b.length \in Nat
      /\ a.bytes \in [0 .. a.length - 1 -> Byte] /\ b.bytes \in [0 .. b.length - 1 -> Byte]
  BY BufferElim
<1>2. /\ a = [length |-> a.length, bytes |-> a.bytes]
      /\ b = [length |-> b.length, bytes |-> b.bytes]
  BY DEF Buffers
<1>3. CASE Differ(a, b) # {}
  <2>1. PICK i : FirstDiffer(a, b, i)
    BY <1>3, CompareFacts
  <2>2. Compare(a, b) # 0
    BY <2>1, CompareFacts
  <2>3. a # b
    BY <1>3 DEF Differ
  <2> QED
    BY <2>2, <2>3
<1>4. CASE Differ(a, b) = {}
  <2>1. Compare(a, b) = IF a.length < b.length THEN -1 ELSE IF a.length > b.length THEN 1 ELSE 0
    BY <1>4, CompareFacts
  <2>2. Compare(a, b) = 0 <=> a.length = b.length
    BY <1>1, <2>1
  <2>3. ASSUME a.length = b.length PROVE a = b
    <3>1. \A i \in 0 .. a.length - 1 : a.bytes[i] = b.bytes[i]
      BY <1>1, <1>4, <2>3 DEF Differ
    <3>2. a.bytes = b.bytes
      BY <1>1, <2>3, <3>1
    <3> QED
      BY <1>2, <2>3, <3>2
  <2> QED
    BY <2>2, <2>3
<1> QED
  BY <1>3, <1>4

\* Exchanging the arguments exchanges the sign.
LEMMA CompareOpposite ==
    ASSUME NEW a \in Buffers, NEW b \in Buffers
    PROVE  Compare(a, b) = -Compare(b, a)
<1>1. a.length \in Nat /\ b.length \in Nat
  BY BufferElim
<1>2. CASE Differ(a, b) # {}
  <2>1. PICK i : FirstDiffer(a, b, i)
    BY <1>2, CompareFacts
  <2>2. FirstDiffer(b, a, i)
    BY <2>1, DifferSymmetric DEF FirstDiffer
  <2>3. i \in Differ(a, b)
    BY <2>1 DEF FirstDiffer
  <2>4. a.bytes[i] \in Byte /\ b.bytes[i] \in Byte /\ a.bytes[i] # b.bytes[i]
    BY <2>3, DifferSymmetric
  <2>5. /\ Char(a.bytes[i]) \in Int /\ Char(b.bytes[i]) \in Int
        /\ Char(a.bytes[i]) # Char(b.bytes[i])
    BY <2>4, CharInjective
  <2>6. /\ Compare(a, b) = IF Char(a.bytes[i]) < Char(b.bytes[i]) THEN -1 ELSE 1
        /\ Compare(b, a) = IF Char(b.bytes[i]) < Char(a.bytes[i]) THEN -1 ELSE 1
    BY <2>1, <2>2, CompareFacts
  <2> QED
    BY <2>5, <2>6
<1>3. CASE Differ(a, b) = {}
  <2>1. Differ(b, a) = {}
    BY <1>3, DifferSymmetric
  <2>2. /\ Compare(a, b) = IF a.length < b.length THEN -1 ELSE IF a.length > b.length THEN 1 ELSE 0
        /\ Compare(b, a) = IF b.length < a.length THEN -1 ELSE IF b.length > a.length THEN 1 ELSE 0
    BY <1>3, <2>1, CompareFacts
  <2> QED
    BY <1>1, <2>2
<1> QED
  BY <1>2, <1>3

\* a and b agree up to position i, where a ends or has the lower character: a is below b.
Below(a, b, i) ==
    /\ i \in Nat /\ i <= a.length /\ i < b.length
    /\ \A k \in 0 .. i - 1 : a.bytes[k] = b.bytes[k]
    /\ i < a.length => Char(a.bytes[i]) < Char(b.bytes[i])

\* compare() is -1 exactly when one buffer is below the other.
LEMMA CompareLess ==
    ASSUME NEW a \in Buffers, NEW b \in Buffers
    PROVE  (Compare(a, b) = -1) <=> (\E i : Below(a, b, i))
<1>1. a.length \in Nat /\ b.length \in Nat
  BY BufferElim
<1>2. ASSUME Compare(a, b) = -1 PROVE \E i : Below(a, b, i)
  <2>1. CASE Differ(a, b) = {}
    <3>1. a.length < b.length
      BY <1>1, <1>2, <2>1, CompareFacts
    <3>2. \A k \in 0 .. a.length - 1 : a.bytes[k] = b.bytes[k]
      BY <1>1, <2>1, <3>1 DEF Differ
    <3>3. Below(a, b, a.length)
      BY <1>1, <3>1, <3>2 DEF Below
    <3> QED
      BY <3>3
  <2>2. CASE Differ(a, b) # {}
    <3>1. PICK i : FirstDiffer(a, b, i)
      BY <2>2, CompareFacts
    <3>2. i \in Nat /\ i < a.length /\ i < b.length
      BY <3>1, DifferSymmetric DEF FirstDiffer
    <3>3. Char(a.bytes[i]) < Char(b.bytes[i])
      BY <1>2, <3>1, CompareFacts
    <3>4. \A k \in 0 .. i - 1 : a.bytes[k] = b.bytes[k]
      <4>1. SUFFICES ASSUME NEW k \in 0 .. i - 1, a.bytes[k] # b.bytes[k] PROVE FALSE
        OBVIOUS
      <4>2. k \in Differ(a, b) /\ k < i
        BY <1>1, <3>2, <4>1 DEF Differ
      <4> QED
        BY <3>1, <3>2, <4>2 DEF FirstDiffer
    <3>5. Below(a, b, i)
      BY <1>1, <3>2, <3>3, <3>4 DEF Below
    <3> QED
      BY <3>5
  <2> QED
    BY <2>1, <2>2
<1>3. ASSUME NEW i, Below(a, b, i) PROVE Compare(a, b) = -1
  <2>1. /\ i \in Nat /\ i <= a.length /\ i < b.length
        /\ \A k \in 0 .. i - 1 : a.bytes[k] = b.bytes[k]
        /\ i < a.length => Char(a.bytes[i]) < Char(b.bytes[i])
    BY <1>3 DEF Below
  <2>2. CASE i = a.length
    <3>1. Differ(a, b) = {}
      BY <1>1, <2>1, <2>2 DEF Differ
    <3> QED
      BY <1>1, <2>1, <2>2, <3>1, CompareFacts
  <2>3. CASE i < a.length
    <3>1. a.bytes[i] # b.bytes[i]
      <4>1. SUFFICES ASSUME a.bytes[i] = b.bytes[i] PROVE FALSE
        OBVIOUS
      <4>2. b.bytes[i] \in Byte
        <5>1. b.bytes \in [0 .. b.length - 1 -> Byte] /\ i \in 0 .. b.length - 1
          BY <1>1, <2>1, BufferElim
        <5> QED
          BY <5>1
      <4>3. Char(b.bytes[i]) \in Int
        BY <4>2, CharInjective
      <4> QED
        BY <2>1, <2>3, <4>1, <4>3
    <3>2. i \in Differ(a, b)
      BY <1>1, <2>1, <2>3, <3>1 DEF Differ
    <3>3. \A k \in Differ(a, b) : i <= k
      BY <1>1, <2>1 DEF Differ
    <3>4. FirstDiffer(a, b, i)
      BY <3>2, <3>3 DEF FirstDiffer
    <3> QED
      BY <2>1, <2>3, <3>4, CompareFacts
  <2> QED
    BY <1>1, <2>1, <2>2, <2>3
<1> QED
  BY <1>2, <1>3

\* The order is transitive.
LEMMA CompareTransitive ==
    ASSUME NEW a \in Buffers, NEW b \in Buffers, NEW c \in Buffers,
           Compare(a, b) = -1, Compare(b, c) = -1
    PROVE  Compare(a, c) = -1
<1>1. a.length \in Nat /\ b.length \in Nat /\ c.length \in Nat
  BY BufferElim
<1>2. PICK i : Below(a, b, i)
  BY CompareLess
<1>3. PICK j : Below(b, c, j)
  BY CompareLess
<1>4. /\ i \in Nat /\ i <= a.length /\ i < b.length
      /\ \A k \in 0 .. i - 1 : a.bytes[k] = b.bytes[k]
      /\ i < a.length => Char(a.bytes[i]) < Char(b.bytes[i])
  BY <1>2 DEF Below
<1>5. /\ j \in Nat /\ j <= b.length /\ j < c.length
      /\ \A k \in 0 .. j - 1 : b.bytes[k] = c.bytes[k]
      /\ j < b.length => Char(b.bytes[j]) < Char(c.bytes[j])
  BY <1>3 DEF Below
<1>6. CASE i < j
  <2>1. b.bytes[i] = c.bytes[i]
    BY <1>4, <1>5, <1>6
  <2>2. Below(a, c, i)
    BY <1>1, <1>4, <1>5, <1>6, <2>1 DEF Below
  <2> QED
    BY <2>2, CompareLess
<1>7. CASE j < i
  <2>1. a.bytes[j] = b.bytes[j]
    BY <1>4, <1>5, <1>7
  <2>2. Below(a, c, j)
    BY <1>1, <1>4, <1>5, <1>7, <2>1 DEF Below
  <2> QED
    BY <2>2, CompareLess
<1>8. CASE i = j
  <2>1. \A k \in 0 .. i - 1 : a.bytes[k] = c.bytes[k]
    BY <1>4, <1>5, <1>8
  <2>2. ASSUME i < a.length PROVE Char(a.bytes[i]) < Char(c.bytes[i])
    <3>1. a.bytes[i] \in Byte /\ b.bytes[i] \in Byte /\ c.bytes[i] \in Byte
      <4>1. /\ a.bytes \in [0 .. a.length - 1 -> Byte] /\ i \in 0 .. a.length - 1
            /\ b.bytes \in [0 .. b.length - 1 -> Byte] /\ i \in 0 .. b.length - 1
            /\ c.bytes \in [0 .. c.length - 1 -> Byte] /\ i \in 0 .. c.length - 1
        BY <1>1, <1>4, <1>5, <1>8, <2>2, BufferElim
      <4> QED
        BY <4>1
    <3>2. Char(a.bytes[i]) \in Int /\ Char(b.bytes[i]) \in Int /\ Char(c.bytes[i]) \in Int
      BY <3>1, CharInjective
    <3> QED
      BY <1>4, <1>5, <1>8, <2>2, <3>2
  <2>3. Below(a, c, i)
    BY <1>1, <1>4, <1>5, <1>8, <2>1, <2>2 DEF Below
  <2> QED
    BY <2>3, CompareLess
<1> QED
  BY <1>4, <1>5, <1>6, <1>7, <1>8

\* A buffer that goes through its hexadecimal form is the same buffer.
LEMMA HexThereAndBack ==
    ASSUME NEW buf \in Buffers
    PROVE  HexDecode(ToHexString(buf)) = buf
<1> DEFINE n == buf.length
           s == ToHexString(buf)
<1>1. n \in Nat /\ buf.bytes \in [0 .. n - 1 -> Byte]
  BY BufferElim
<1>2. buf = [length |-> n, bytes |-> buf.bytes]
  BY DEF Buffers
<1>3. HexBase \in Nat \ {0}
  BY ConstantsAssumption
<1> HIDE DEF n
<1>4. ASSUME NEW i \in 1 .. 2 * n
      PROVE  s[i] = IF i % 2 = 1 THEN buf.bytes[(i - 1) \div 2] \div HexBase
                                 ELSE buf.bytes[(i - 1) \div 2] % HexBase
  BY DEF ToHexString, n
<1>5. DOMAIN s = 1 .. 2 * n
  BY DEF ToHexString, n
<1>6. Len(s) = 2 * n /\ Len(s) \div 2 = n
  <2>1. s = [i \in 1 .. 2 * n |-> s[i]]
    BY <1>5 DEF ToHexString, n
  <2> HIDE DEF s
  <2>2. Len(s) = 2 * n
    BY <1>1, <1>5, <2>1
  <2> QED
    BY <1>1, <2>2
<1> HIDE DEF s
<1>7. ASSUME NEW j \in 0 .. n - 1
      PROVE  s[2*j + 1] * HexBase + s[2*j + 2] = buf.bytes[j]
  <2>1. /\ j \in Nat /\ 2*j + 1 \in 1 .. 2 * n /\ 2*j + 2 \in 1 .. 2 * n
        /\ (2*j + 1) % 2 = 1 /\ (2*j + 2) % 2 = 0
        /\ ((2*j + 1) - 1) \div 2 = j /\ ((2*j + 2) - 1) \div 2 = j
    BY <1>1
  <2>2. buf.bytes[j] \in Nat
    BY <1>1, Bases DEF Byte
  <2>3. s[2*j + 1] = buf.bytes[j] \div HexBase /\ s[2*j + 2] = buf.bytes[j] % HexBase
    BY <1>4, <2>1
  <2> DEFINE x == buf.bytes[j]
  <2> HIDE DEF x
  <2>4. x \in Nat => (x \div HexBase) * HexBase + (x % HexBase) = x
    <3>1. SUFFICES ASSUME x \in Nat PROVE (x \div HexBase) * HexBase + (x % HexBase) = x
      OBVIOUS
    <3>2. /\ x = HexBase * (x \div HexBase) + (x % HexBase)
          /\ x \div HexBase \in Nat /\ x % HexBase \in Nat
      BY <1>3, <3>1
    <3> QED
      BY <1>3, <3>2
  <2> QED
    BY <2>2, <2>3, <2>4 DEF x
<1>8. [j \in 0 .. n - 1 |-> s[2*j + 1] * HexBase + s[2*j + 2]] = buf.bytes
  BY <1>1, <1>7
<1>9. HexDecode(s) = [length |-> n, bytes |-> buf.bytes]
  BY <1>6, <1>8 DEF HexDecode
<1> QED
  BY <1>2, <1>9 DEF s

\* compare() orders all buffers, and all go through their hexadecimal form.
LEMMA OrderAndHexHold == Inv => OrderAndHex
<1> SUFFICES ASSUME Inv PROVE OrderAndHex
  OBVIOUS
<1>1. \A b \in DOMAIN bufs : bufs[b] \in Buffers
  BY Elements
<1> QED
  BY <1>1, CompareZero, CompareOpposite, CompareTransitive, HexThereAndBack DEF OrderAndHex

\* Whatever numbers are passed, copy() and slice() move the range they name, a number that
\* was written is read back, compare() is a total order and the hexadecimal form stands for
\* its bytes.
THEOREM BytesAreExact == Spec => []BytesExact
<1>1. Inv => BytesExact
  BY CopyIsExact, SliceIsExact, ReadBackHolds, OrderAndHexHold DEF BytesExact
<1> QED
  BY <1>1, Invariance, PTL
=============================================================================
