------------------------------- MODULE Buffer -------------------------------
(***************************************************************************)
(* Buffers: the JavaScript class (js/buffer.js) over the bytes in C        *)
(* (modules/iotjs_module_buffer.c).  A JavaScript index is any number; it  *)
(* is made a 32-bit integer by ~~ or >>> 0, crosses into C as a double, is *)
(* made a size_t there, and is bounded.  A buffer keeps its bytes from     *)
(* position 0 on, as in C.                                                 *)
(*                                                                         *)
(* The width of the numbers is a parameter: a byte has two hexadecimal     *)
(* digits of base HexBase, and four bytes make a 32-bit number.  SizeMax   *)
(* is SIZE_MAX: equal to Uint32Max on a 32-bit target, above it otherwise. *)
(***************************************************************************)
EXTENDS Integers, Sequences, FiniteSets

CONSTANTS
    HexBase,      \* 16 in the code: the values of one hexadecimal digit
    SizeMax,      \* SIZE_MAX
    SignedChar,   \* whether the C type char is signed on the target
    Numbers,      \* the indices and lengths a program passes, after ~~
    Undefined,    \* an argument that is left out
    Values,       \* the values a program writes with writeUInt...()
    Strings,      \* the strings a program passes, as their CESU-8 bytes
    HexStrings,   \* strings for 'hex', as digits; NoDigit is any other character
    Arrays,       \* the arrays a program makes buffers of
    Junk,         \* what the conversion of a number above SIZE_MAX may give
    MaxCalls,     \* bound: calls made
    MaxLength     \* bound: length of a buffer made by size or by concat()

ByteBase == HexBase * HexBase

Uint32Max == (ByteBase * ByteBase) * (ByteBase * ByteBase) - 1

Byte == 0 .. ByteBase - 1

NoDigit == -1

ASSUME ConstantsAssumption ==
    /\ HexBase \in Nat /\ HexBase >= 2
    /\ SizeMax \in Nat /\ SizeMax >= Uint32Max
    /\ SignedChar \in BOOLEAN
    /\ Numbers \subseteq Int
    /\ Undefined \notin Int
    /\ Values \subseteq Nat
    /\ Strings \subseteq Seq(Byte)
    /\ HexStrings \subseteq Seq({NoDigit} \cup (0 .. HexBase - 1))
    /\ Arrays \subseteq Seq(Byte)
    /\ \A s \in Strings \cup HexStrings \cup Arrays : Len(s) <= SizeMax
    /\ Junk \subseteq 0 .. SizeMax
    /\ MaxCalls \in Nat
    /\ MaxLength \in Nat /\ MaxLength < SizeMax

\* An index after ~~ is below 2^31, and so below SIZE_MAX on every target.
ASSUME NumbersAssumption == \A x \in Numbers : x < SizeMax

VARIABLES
    bufs,      \* the buffers made so far
    calls,     \* number of calls made
    touched    \* history: <<size, position>> for each memory access of the last call

vars == <<bufs, calls, touched>>

-----------------------------------------------------------------------------
(* From JavaScript numbers to positions.                                   *)

\* x >>> 0
Unsigned(x) == x % (Uint32Max + 1)

\* iotjs_convert_double_to_sizet.  A number above SIZE_MAX is converted by
\* undefined behaviour: junk is what the build makes of it.
ToSize(x, junk) ==
    IF x < 0 THEN SizeMax ELSE IF x <= SizeMax THEN x ELSE junk

BoundRange(index, low, upper) ==
    IF index = SizeMax THEN low ELSE IF index > upper THEN upper ELSE index

Clamp(x, junk, upper) == BoundRange(ToSize(x, junk), 0, upper)

\* a - b for two values of type size_t
SizeMinus(a, b) == (a - b) % (SizeMax + 1)

\* An argument that is left out gets its default.
Arguments == Numbers \cup {Undefined}

Default(x, d) == IF x = Undefined THEN d ELSE x

-----------------------------------------------------------------------------
(* The bytes in C.                                                         *)

\* iotjs_bufferwrap_create: calloc() for the bytes, none for length 0
Create(length) == [length |-> length, bytes |-> [j \in 0 .. length - 1 |-> 0]]

OfSequence(s) == [length |-> Len(s), bytes |-> [j \in 0 .. Len(s) - 1 |-> s[j + 1]]]

\* The number of rounds of the loop in iotjs_bufferwrap_copy_internal.
Copied(from, to, at, length) ==
    IF from >= to \/ at >= length THEN 0
    ELSE IF to - from < length - at THEN to - from ELSE length - at

\* iotjs_bufferwrap_copy_internal: bytes are copied upwards one by one.
CopyInternal(dst, src, from, to, at) ==
    LET n == Copied(from, to, at, dst.length)
    IN  [dst EXCEPT !.bytes =
            [j \in 0 .. dst.length - 1 |->
                IF at <= j /\ j < at + n THEN src.bytes[from + (j - at)] ELSE dst.bytes[j]]]

\* The same loop within one buffer: when the target begins inside the source
\* range, it reads what it has written, and the first bytes are repeated.
CopyWithin(buf, from, to, at) ==
    LET n == Copied(from, to, at, buf.length)
        period == IF from < at THEN at - from ELSE n
    IN  [buf EXCEPT !.bytes =
            [j \in 0 .. buf.length - 1 |->
                IF at <= j /\ j < at + n THEN buf.bytes[from + ((j - at) % period)]
                                         ELSE buf.bytes[j]]]

\* Buffer b copied to buffer t.
CopyTo(b, t, r) ==
    IF b = t THEN CopyWithin(bufs[b], r[1], r[2], r[3])
             ELSE CopyInternal(bufs[t], bufs[b], r[1], r[2], r[3])

\* The memory that loop reads and writes.
CopyTouches(dst, src, from, to, at) ==
    LET rounds == 0 .. Copied(from, to, at, dst.length) - 1
    IN  {<<src.length, from + k>> : k \in rounds} \cup {<<dst.length, at + k>> : k \in rounds}

\* The range <<from, to, at>> the handler Copy makes of its arguments.
CopyRange(dst, src, targetStart, sourceStart, sourceEnd, junk) ==
    LET at == Clamp(targetStart, junk, dst.length)
        from == Clamp(sourceStart, junk, src.length)
        end == Clamp(sourceEnd, junk, src.length)
    IN  <<from, IF end < from THEN from ELSE end, at>>

\* The range the handler Write makes of its arguments.
WriteRange(dst, src, offset, length, junk) ==
    LET at == Clamp(offset, junk, dst.length)
        room == Clamp(length, junk, SizeMinus(dst.length, at))
    IN  <<0, BoundRange(room, 0, src.length), at>>

\* Mutant of SliceIndex: a negative index counts as 0.
SliceIndexNoWrap(buf, x) == Clamp(x, 0, buf.length)

\* The handler Slice: a negative index counts from the end.
SliceIndex(buf, x) ==
    BoundRange(IF x >= 0 THEN x
               ELSE IF -x > buf.length THEN SizeMax
               ELSE (x + buf.length) % (SizeMax + 1),
               0, buf.length)

SliceRange(buf, start, end) ==
    LET from == SliceIndex(buf, start)
        to == SliceIndex(buf, end)
    IN  <<from, IF to < from THEN from ELSE to, 0>>

\* The handlers WriteUInt8 and ReadUInt8.
PutByte(buf, value, offset, junk) ==
    LET r == WriteRange(buf, OfSequence(<<value>>), offset, 1, junk)
    IN  CopyInternal(buf, OfSequence(<<value>>), r[1], r[2], r[3])

PutTouches(buf, offset, junk) ==
    LET r == WriteRange(buf, OfSequence(<<0>>), offset, 1, junk)
    IN  CopyTouches(buf, OfSequence(<<0>>), r[1], r[2], r[3])

\* Mutant of BytePosition: the limit is the length, not the last position.
BytePositionFull(buf, offset, junk) == Clamp(offset, junk, buf.length)

BytePosition(buf, offset, junk) == Clamp(offset, junk, SizeMinus(buf.length, 1))

GetByte(buf, offset, junk) ==
    IF buf.length = 0 THEN 0 ELSE buf.bytes[BytePosition(buf, offset, junk)]

GetTouches(buf, offset, junk) ==
    IF buf.length = 0 THEN {} ELSE {<<buf.length, BytePosition(buf, offset, junk)>>}

\* hex_decode: pair i of a string has two digits; the loop ends at the first
\* pair that has not.
HexPair(s, i) == NoDigit \notin {s[2*i + 1], s[2*i + 2]}

HexRounds(s) == {i \in 0 .. (Len(s) \div 2) - 1 : \A k \in 0 .. i - 1 : HexPair(s, k)}

HexDecode(s) ==
    [length |-> Len(s) \div 2,
     bytes |-> [j \in 0 .. (Len(s) \div 2) - 1 |-> s[2*j + 1] * HexBase + s[2*j + 2]]]

\* The handler ToHexString.
ToHexString(buf) ==
    [i \in 1 .. 2 * buf.length |->
        LET byte == buf.bytes[(i - 1) \div 2]
        IN  IF i % 2 = 1 THEN byte \div HexBase ELSE byte % HexBase]

\* A byte as a value of the C type char.
Char(byte) == IF SignedChar /\ 2 * byte >= ByteBase THEN byte - ByteBase ELSE byte

\* iotjs_bufferwrap_compare
Compare(a, b) ==
    LET common == {i \in 0 .. a.length - 1 : i < b.length}
        differ == {i \in common : a.bytes[i] # b.bytes[i]}
        first == CHOOSE i \in differ : \A k \in differ : i <= k
    IN  IF differ # {} THEN IF Char(a.bytes[first]) < Char(b.bytes[first]) THEN -1 ELSE 1
        ELSE IF a.length < b.length THEN -1 ELSE IF a.length > b.length THEN 1 ELSE 0

-----------------------------------------------------------------------------
(* The calls of the class Buffer.                                          *)

Call(made, accesses) ==
    /\ calls < MaxCalls
    /\ calls' = calls + 1
    /\ bufs' = made
    /\ touched' = accesses

\* A call that throws, or only reads, leaves every buffer as it is.
Reads(accesses) == Call(bufs, accesses)
Throws == Call(bufs, {})
Makes(buf, accesses) == Call(Append(bufs, buf), accesses)
Changes(b, buf, accesses) == Call([bufs EXCEPT ![b] = buf], accesses)

\* new Buffer(size)
NewSize(size) == Makes(Create(IF size > 0 THEN Unsigned(size) ELSE 0), {})

\* new Buffer(array): writeUInt8() for every element
NewArray(array) ==
    LET new == Create(Len(array))
    IN  Makes(OfSequence(array),
              UNION {PutTouches(new, i, 0) : i \in 0 .. Len(array) - 1})

\* buffer.copy(target, targetStart, sourceStart, sourceEnd)
Copy(b, t, targetStart, sourceStart, sourceEnd) ==
    LET ts == Default(targetStart, 0)
        ss == Default(sourceStart, 0)
        se == Default(sourceEnd, bufs[b].length)
        r == CopyRange(bufs[t], bufs[b], ts, ss, se, 0)
    IN  IF se > ss /\ ts < 0
        THEN Throws
        ELSE Changes(t, CopyTo(b, t, r), CopyTouches(bufs[t], bufs[b], r[1], r[2], r[3]))

\* new Buffer(buffer) copies the other one.
NewBuffer(b) ==
    LET new == Create(bufs[b].length)
        r == CopyRange(new, bufs[b], 0, 0, bufs[b].length, 0)
    IN  Makes(CopyInternal(new, bufs[b], r[1], r[2], r[3]),
              CopyTouches(new, bufs[b], r[1], r[2], r[3]))

\* Buffer.concat([a, b]); the loop over the list is unrolled for two buffers.
Concat(a, b) ==
    LET new == Create(bufs[a].length + bufs[b].length)
        r == CopyRange(new, bufs[a], 0, 0, bufs[a].length, 0)
        q == CopyRange(new, bufs[b], bufs[a].length, 0, bufs[b].length, 0)
        half == CopyInternal(new, bufs[a], r[1], r[2], r[3])
    IN  /\ bufs[a].length + bufs[b].length <= MaxLength
        /\ Makes(CopyInternal(half, bufs[b], q[1], q[2], q[3]),
                 CopyTouches(new, bufs[a], r[1], r[2], r[3])
                    \cup CopyTouches(half, bufs[b], q[1], q[2], q[3]))

\* buffer.write(string, offset, length)
Write(b, string, offset, length) ==
    LET buf == bufs[b]
        src == OfSequence(string)
        o == Default(offset, 0)
        r == WriteRange(buf, src, o, Default(length, buf.length - o), 0)
    IN  IF Len(string) > 0 /\ (o < 0 \/ o >= buf.length)
        THEN Throws
        ELSE Changes(b, CopyInternal(buf, src, r[1], r[2], r[3]),
                        CopyTouches(buf, src, r[1], r[2], r[3]))

\* new Buffer(string): a buffer of byteLength(string), then write(string)
NewString(string) ==
    LET new == Create(Len(string))
        src == OfSequence(string)
        r == WriteRange(new, src, 0, Len(string), 0)
    IN  Makes(CopyInternal(new, src, r[1], r[2], r[3]),
              CopyTouches(new, src, r[1], r[2], r[3]))

\* new Buffer(string, 'hex'): byteLength() halves the length, so an odd digit at
\* the end is ignored; the bytes are decoded into a second piece of memory of that
\* length and copied; a pair that has not two digits makes the constructor throw.
NewHex(string) ==
    LET rounds == HexRounds(string)
        decoded == {i \in rounds : HexPair(string, i)}
        accesses == {<<Len(string), 2 * i>> : i \in rounds}
                       \cup {<<Len(string), 2 * i + 1>> : i \in rounds}
                       \cup {<<Len(string) \div 2, i>> : i \in decoded}
    IN  IF decoded = 0 .. (Len(string) \div 2) - 1
        THEN Makes(HexDecode(string), accesses)
        ELSE Call(bufs, accesses)

\* buffer.slice(start, end)
Slice(b, start, end) ==
    LET buf == bufs[b]
        r == SliceRange(buf, Default(start, 0), Default(end, buf.length))
        new == Create(r[2] - r[1])
    IN  Makes(CopyInternal(new, buf, r[1], r[2], r[3]),
              CopyTouches(new, buf, r[1], r[2], r[3]))

\* buffer.toString(start, end): strnlen() reads up to the first zero
ToString(b, start, end) ==
    LET buf == bufs[b]
        r == CopyRange(buf, buf, 0, Default(start, 0), Default(end, buf.length), 0)
    IN  Reads({<<buf.length, i>> : i \in
                 {k \in r[1] .. r[2] - 1 : \A m \in r[1] .. k - 1 : buf.bytes[m] # 0}})

\* buffer.toString('hex'): an empty buffer has no memory, and the call throws
ToHex(b) == Reads({<<bufs[b].length, i>> : i \in 0 .. bufs[b].length - 1})

\* buffer.equals() and buffer.compare()
CompareTo(a, b) ==
    Reads({<<bufs[a].length, i>> : i \in {k \in 0 .. bufs[a].length - 1 : k < bufs[b].length}}
       \cup {<<bufs[b].length, i>> : i \in {k \in 0 .. bufs[b].length - 1 : k < bufs[a].length}})

\* buffer.fill(value): writeUInt8() at every position
Fill(b, value) ==
    Changes(b, [bufs[b] EXCEPT !.bytes = [j \in 0 .. bufs[b].length - 1 |-> value % ByteBase]],
            UNION {PutTouches(bufs[b], i, 0) : i \in 0 .. bufs[b].length - 1})

\* 2^(8k)
Place(k) ==
    CASE k = 0 -> 1
      [] k = 1 -> ByteBase
      [] k = 2 -> ByteBase * ByteBase
      [] k = 3 -> ByteBase * ByteBase * ByteBase
      [] k = 4 -> Uint32Max + 1

\* checkInt() and checkOffset(): the sum is a double and does not wrap.
Refused(buf, offset, n, noAssert) == ~noAssert /\ offset + n > buf.length

ValueRefused(value, n, noAssert) == ~noAssert /\ value >= Place(n)

\* Byte k of a number: a shift and a mask.
Digit(value, k) == (value \div Place(k)) % ByteBase

\* The writes of writeUInt8, writeUInt16LE and writeUInt32LE, in their order.
Put8(buf, value, offset, junk) == PutByte(buf, Digit(value, 0), offset, junk)

Put16(buf, value, offset, junk) ==
    PutByte(Put8(buf, value, offset, junk), Digit(value, 1), offset + 1, junk)

Put32(buf, value, offset, junk) ==
    LET b3 == PutByte(buf, Digit(value, 3), offset + 3, junk)
        b2 == PutByte(b3, Digit(value, 2), offset + 2, junk)
        b1 == PutByte(b2, Digit(value, 1), offset + 1, junk)
    IN  Put8(b1, value, offset, junk)

WriteInt(b, n, value, offset, noAssert, written, junk) ==
    IF ValueRefused(value, n, noAssert) \/ Refused(bufs[b], offset, n, noAssert)
    THEN Throws
    ELSE Changes(b, written, UNION {PutTouches(bufs[b], offset + k, junk) : k \in 0 .. n - 1})

WriteUInt8(b, value, x, noAssert, junk) ==
    WriteInt(b, 1, value, Unsigned(x), noAssert,
             Put8(bufs[b], value, Unsigned(x), junk), junk)

WriteUInt16LE(b, value, x, noAssert, junk) ==
    WriteInt(b, 2, value, Unsigned(x), noAssert,
             Put16(bufs[b], value, Unsigned(x), junk), junk)

WriteUInt32LE(b, value, x, noAssert, junk) ==
    WriteInt(b, 4, value, Unsigned(x), noAssert,
             Put32(bufs[b], value, Unsigned(x), junk), junk)

\* What readUInt8, readInt8 and readUInt16LE return.
Get8(buf, offset, junk) == GetByte(buf, offset, junk)

GetSigned8(buf, offset, junk) ==
    LET val == GetByte(buf, offset, junk)
    IN  IF 2 * val < ByteBase THEN val ELSE -(ByteBase - 1 - val + 1)

Get16(buf, offset, junk) ==
    GetByte(buf, offset, junk) + GetByte(buf, offset + 1, junk) * ByteBase

ReadInt(b, n, x, noAssert, junk) ==
    IF Refused(bufs[b], Unsigned(x), n, noAssert)
    THEN Throws
    ELSE Reads(UNION {GetTouches(bufs[b], Unsigned(x) + k, junk) : k \in 0 .. n - 1})

-----------------------------------------------------------------------------
Init ==
    /\ bufs = <<>>
    /\ calls = 0
    /\ touched = {}

MakeOne ==
    \/ \E size \in Numbers : size <= MaxLength /\ NewSize(size)
    \/ \E array \in Arrays : NewArray(array)
    \/ \E string \in Strings : NewString(string)
    \/ \E string \in HexStrings : NewHex(string)
    \/ \E b \in DOMAIN bufs : NewBuffer(b)
    \/ \E a, b \in DOMAIN bufs : Concat(a, b)
    \/ \E b \in DOMAIN bufs, start, end \in Arguments : Slice(b, start, end)

Modify ==
    \/ \E b, t \in DOMAIN bufs, ts, ss, se \in Arguments : Copy(b, t, ts, ss, se)
    \/ \E b \in DOMAIN bufs, string \in Strings, offset, length \in Arguments :
          Write(b, string, offset, length)
    \/ \E b \in DOMAIN bufs, value \in Values : Fill(b, value)

ModifyInt ==
    \E b \in DOMAIN bufs, value \in Values, x \in Numbers, noAssert \in BOOLEAN, junk \in Junk :
        \/ WriteUInt8(b, value, x, noAssert, junk)
        \/ WriteUInt16LE(b, value, x, noAssert, junk)
        \/ WriteUInt32LE(b, value, x, noAssert, junk)

Look ==
    \/ \E b \in DOMAIN bufs, start, end \in Arguments : ToString(b, start, end)
    \/ \E b \in DOMAIN bufs : ToHex(b)
    \/ \E a, b \in DOMAIN bufs : CompareTo(a, b)
    \/ \E b \in DOMAIN bufs, n \in {1, 2}, x \in Numbers, noAssert \in BOOLEAN, junk \in Junk :
          ReadInt(b, n, x, noAssert, junk)

Next == MakeOne \/ Modify \/ ModifyInt \/ Look

Spec == Init /\ [][Next]_vars

-----------------------------------------------------------------------------
(* Properties.                                                             *)

IsBuffer(buf) ==
    /\ buf.length \in 0 .. SizeMax
    /\ buf.bytes \in [0 .. buf.length - 1 -> Byte]

\* Every buffer has exactly as many bytes as its length says, which
\* iotjs_bufferwrap_length() asserts of the length JavaScript keeps.
TypeOK ==
    /\ \A b \in DOMAIN bufs : IsBuffer(bufs[b])
    /\ calls \in 0 .. MaxCalls

\* Whatever numbers a program passes, negative, too large or left out, with and
\* without noAssert, the C code reads and writes only memory of the buffers
\* and strings it was given: bound_range() and the loops' tests suffice, the
\* empty buffer and the wrap-around of size_t included.
InBounds == \A t \in touched : 0 <= t[2] /\ t[2] < t[1]

\* The bytes of src from position from, n of them, put at position at of dst.
Spliced(dst, src, from, at, n) ==
    [dst EXCEPT !.bytes = [j \in 0 .. dst.length - 1 |->
        IF at <= j /\ j < at + n THEN src.bytes[from + j - at] ELSE dst.bytes[j]]]

Least(S) == CHOOSE x \in S : \A y \in S : x <= y

AtLeast0(x) == IF x < 0 THEN 0 ELSE x

\* A copy() that is not refused moves as many bytes as both the source range and
\* the room in the target allow, to the right place, and nothing else; but a copy
\* of a buffer onto a later part of the same range is excepted.
CopyExact ==
    \A b, t \in DOMAIN bufs, ts, ss, se \in Numbers :
        LET from == AtLeast0(ss)
            n == AtLeast0(Least({se - from, bufs[b].length - from, bufs[t].length - ts}))
            r == CopyRange(bufs[t], bufs[b], ts, ss, se, 0)
        IN  (ts >= 0 /\ ~(b = t /\ from < ts /\ ts < from + n)) =>
               CopyTo(b, t, r)
                  = Spliced(bufs[t], bufs[b], from, ts, n)

\* slice() with any indices gives the bytes between the two positions they name,
\* where a negative index counts from the end and both are cut to the buffer.
SliceExact ==
    \A b \in DOMAIN bufs, start, end \in Numbers :
        LET buf == bufs[b]
            place(x) == Least({buf.length, AtLeast0(IF x < 0 THEN x + buf.length ELSE x)})
            n == AtLeast0(place(end) - place(start))
            r == SliceRange(buf, start, end)
        IN  CopyInternal(Create(r[2] - r[1]), buf, r[1], r[2], r[3])
               = Spliced(Create(n), buf, place(start), 0, n)

\* A number that writeUInt..() accepts without noAssert is read back by the read
\* functions at the same offset, byte by byte, and no other byte has changed.
ReadBack ==
    \A b \in DOMAIN bufs, value \in Values, x \in Numbers, n \in {1, 2, 4} :
        LET buf == bufs[b]
            o == Unsigned(x)
            new == CASE n = 1 -> Put8(buf, value, o, 0)
                     [] n = 2 -> Put16(buf, value, o, 0)
                     [] n = 4 -> Put32(buf, value, o, 0)
        IN  ~(ValueRefused(value, n, FALSE) \/ Refused(buf, o, n, FALSE)) =>
               /\ n = 1 => /\ Get8(new, o, 0) = value
                           /\ GetSigned8(new, o, 0) \in {value, value - ByteBase}
                           /\ 2 * GetSigned8(new, o, 0) \in -ByteBase .. ByteBase - 1
               /\ n = 2 => Get16(new, o, 0) = value
               /\ n = 4 => Get16(new, o, 0) + Get16(new, o + 2, 0) * Place(2) = value
               /\ \A j \in 0 .. buf.length - 1 : j \in o .. o + n - 1 \/ new.bytes[j] = buf.bytes[j]

\* compare() orders buffers: 0 only for equal bytes, opposite for exchanged
\* arguments, transitive; and a buffer that goes through its hexadecimal form is
\* the same buffer.
OrderAndHex ==
    \A a, b \in DOMAIN bufs :
        /\ (Compare(bufs[a], bufs[b]) = 0) <=> (bufs[a] = bufs[b])
        /\ Compare(bufs[a], bufs[b]) = -Compare(bufs[b], bufs[a])
        /\ \A c \in DOMAIN bufs :
              Compare(bufs[a], bufs[b]) = -1 /\ Compare(bufs[b], bufs[c]) = -1
                 => Compare(bufs[a], bufs[c]) = -1
        /\ HexDecode(ToHexString(bufs[a])) = bufs[a]

\* Whatever the arguments, the bytes are the ones that were meant: copy() and slice() move
\* the range they name, numbers are read back, compare() is an order, and hexadecimal
\* digits stand for their bytes.
BytesExact == CopyExact /\ SliceExact /\ ReadBack /\ OrderAndHex

\* docs/api/IoT.js-API-Buffer.md:237-239: compare() "returns with `-1` if the first
\* different byte is lower".  Bytes are compared as char, so where char is
\* signed a byte of the upper half is lower than one of the lower half.
FirstByteDecides ==
    \A a, b \in DOMAIN bufs :
        LET x == bufs[a]
            y == bufs[b]
        IN  x.length > 0 /\ y.length > 0 /\ x.bytes[0] < y.bytes[0] => Compare(x, y) = -1
=============================================================================
