----------------------------- MODULE CodecValues -----------------------------
(***************************************************************************)
(* The scalar value codec of src/gel-protocol/src/serialization/decode/    *)
(* raw_scalar.rs: RawCodec::decode of every fixed-layout scalar, the       *)
(* ScalarArg::encode implementations of this file, and the Range and       *)
(* Vector argument encoders.                                               *)
(*                                                                         *)
(* Data abstraction: a buffer is a sequence of fields [w, v], a field      *)
(* being what one put_*/get_* call writes or reads (w bytes holding v).    *)
(* A byte string is a sequence of one-byte fields whose value is "a"       *)
(* (part of valid UTF-8) or "bad".  Junk is the value of a field that lost *)
(* its last byte.  A vector's f32 elements are one field of 4 * len bytes. *)
(* The decoders read a field only after the size checks that make it       *)
(* whole, as the code does.                                                *)
(***************************************************************************)
EXTENDS Integers, Sequences, SequencesExt

CONSTANTS
    Junk,       \* model value: a field cut short
    None,       \* model value: Option::None, and "nothing sent yet"
    DayMicros,  \* 86_400 * 1_000_000, scaled down to keep TLC's integers small
    VecLens,    \* vector lengths the application encodes
    U16,        \* 2^16: the width of the vector length field
    Ints        \* small integers standing for every integer field

F(w, v) == [w |-> w, v |-> v]
ByteLen(buf) == FoldLeft(LAMBDA acc, f : acc + f.w, 0, buf)

Ok(v)   == [ok |-> TRUE, v |-> v]
Err(e)  == [ok |-> FALSE, err |-> e]

(* Rust types with a RawCodec implementation here, by wire layout; a      *)
(* ConfigMemory is an i64 on the wire.                                     *)
FixedWidth == [i16 |-> 2, i32 |-> 4, i64 |-> 8, f32 |-> 4, f64 |-> 8,
               ConfigMemory |-> 8]
Fixed      == DOMAIN FixedWidth
Types == Fixed \cup {"bool", "uuid", "str", "json", "bytes", "Duration",
                     "RelativeDuration", "DateDuration", "LocalTime",
                     "Decimal", "BigInt"}

Signs == [pos |-> 0, neg |-> 16384]   \* 0x0000 and 0x4000

-----------------------------------------------------------------------------
(* ensure_exact_size *)
EnsureExactSize(buf, n) ==
    IF ByteLen(buf) = n THEN None
    ELSE IF ByteLen(buf) < n THEN "Underflow" ELSE "ExtraData"

(* str::from_utf8 *)
Utf8(buf) == \A i \in DOMAIN buf : buf[i].v # "bad"

(* Mutant: the days and months of a Duration are not checked. *)
DecodeDurationUnchecked(buf) ==
    IF EnsureExactSize(buf, 16) # None THEN Err(EnsureExactSize(buf, 16))
    ELSE Ok([micros |-> buf[1].v])

(* Duration::decode: 16 bytes; days and months are reserved zeros. *)
DecodeDuration(buf) ==
    IF EnsureExactSize(buf, 16) # None THEN Err(EnsureExactSize(buf, 16))
    ELSE IF buf[2].v # 0 \/ buf[3].v # 0 THEN Err("NonZeroReservedBytes")
    ELSE Ok([micros |-> buf[1].v])

(* Decimal::decode (withDscale) and BigInt::decode (~withDscale): at least *)
(* the 8-byte header, a sign of 0 or 0x4000, then exactly ndigits u16.      *)
(* BigInt checks decimal_digits = 0 before the size of the digits.          *)
DecodeNumeric(buf, withDscale) ==
    IF ByteLen(buf) < 8 THEN Err("Underflow")
    ELSE LET ndigits == buf[1].v
             rest == SubSeq(buf, 5, Len(buf))
             negative == buf[3].v = Signs.neg
             digits == [i \in 1..Len(rest) |-> rest[i].v]
         IN IF buf[3].v \notin {Signs.pos, Signs.neg} THEN Err("BadSign")
            ELSE IF ~withDscale /\ buf[4].v # 0 THEN Err("NonZeroReservedBytes")
            ELSE IF EnsureExactSize(rest, ndigits * 2) # None
                 THEN Err(EnsureExactSize(rest, ndigits * 2))
            ELSE IF withDscale
                 THEN Ok([negative |-> negative, weight |-> buf[2].v,
                          dscale |-> buf[4].v, digits |-> digits])
            ELSE Ok([negative |-> negative, weight |-> buf[2].v, digits |-> digits])

(* Mutant: the end of the day is let in (0..=86_400 * 1_000_000). *)
DecodeLocalTimeInclusive(buf) ==
    IF EnsureExactSize(buf, 8) # None THEN Err(EnsureExactSize(buf, 8))
    ELSE IF buf[1].v \in 0..DayMicros THEN Ok([micros |-> buf[1].v])
    ELSE Err("InvalidDate")

(* LocalTime::decode: an i64 within (0..86_400 * 1_000_000). *)
DecodeLocalTime(buf) ==
    IF EnsureExactSize(buf, 8) # None THEN Err(EnsureExactSize(buf, 8))
    ELSE IF buf[1].v \in 0..(DayMicros - 1) THEN Ok([micros |-> buf[1].v])
    ELSE Err("InvalidDate")

(* RelativeDuration::decode and DateDuration::decode: 16 bytes; a       *)
(* DateDuration's micros are reserved zeros.                             *)
DecodeDurations(t, buf) ==
    IF EnsureExactSize(buf, 16) # None THEN Err(EnsureExactSize(buf, 16))
    ELSE IF t = "DateDuration" /\ buf[1].v # 0 THEN Err("NonZeroReservedBytes")
    ELSE Ok([micros |-> IF t = "DateDuration" THEN 0 ELSE buf[1].v,
             days |-> buf[2].v, months |-> buf[3].v])

(* <&[u8]>::decode and Bytes::decode: the whole buffer. *)
DecodeBytes(buf) == Ok([i \in DOMAIN buf |-> buf[i].v])

(* bool::decode *)
DecodeBool(buf) ==
    IF EnsureExactSize(buf, 1) # None THEN Err(EnsureExactSize(buf, 1))
    ELSE IF buf[1].v \in {0, 1} THEN Ok(buf[1].v = 1)
    ELSE Err("InvalidBool")

(* RawCodec::decode, by type. *)
Decode(t, buf) ==
    CASE t \in Fixed ->
           IF EnsureExactSize(buf, FixedWidth[t]) # None
           THEN Err(EnsureExactSize(buf, FixedWidth[t])) ELSE Ok(buf[1].v)
      [] t = "bool" -> DecodeBool(buf)
      [] t = "uuid" ->
           IF EnsureExactSize(buf, 16) # None THEN Err(EnsureExactSize(buf, 16))
           ELSE Ok(buf[1].v)
      [] t = "str" ->
           IF Utf8(buf) THEN Ok([i \in DOMAIN buf |-> buf[i].v])
           ELSE Err("InvalidUtf8")
      [] t = "json" ->
           IF ByteLen(buf) < 1 THEN Err("Underflow")
           ELSE IF buf[1].v # 1 THEN Err("InvalidJsonFormat")
           ELSE IF ~Utf8(Tail(buf)) THEN Err("InvalidUtf8")
           ELSE Ok([i \in 1..(Len(buf) - 1) |-> buf[i + 1].v])
      [] t = "Duration" -> DecodeDuration(buf)
      [] t = "bytes" -> DecodeBytes(buf)
      [] t \in {"RelativeDuration", "DateDuration"} -> DecodeDurations(t, buf)
      [] t = "LocalTime" -> DecodeLocalTime(buf)
      [] t = "Decimal" -> DecodeNumeric(buf, TRUE)
      [] t = "BigInt"  -> DecodeNumeric(buf, FALSE)

-----------------------------------------------------------------------------
(* Range flags (range::EMPTY, LB_INC, UB_INC, LB_INF, UB_INF). *)
EMPTY == 1
LB_INC == 2
UB_INC == 4
LB_INF == 8
UB_INF == 16
HasFlag(flags, bit) == (flags \div bit) % 2 = 1

(* length_prefixed(|e| x.encode(e)) for an i64 bound: i32 length, value. *)
Bound(x) == IF x = None THEN <<>> ELSE <<F(4, 8), F(8, x)>>

(* Mutant: the inclusivity of the lower bound is not written. *)
EncodeRangeNoLbInc(r) ==
    LET flags == IF r.empty THEN EMPTY
                 ELSE (IF r.inc_upper THEN UB_INC ELSE 0)
                      + (IF r.lower = None THEN LB_INF ELSE 0)
                      + (IF r.upper = None THEN UB_INF ELSE 0)
    IN <<F(1, flags)>> \o Bound(r.lower) \o Bound(r.upper)

(* Range<T>::encode: the flags byte (distinct bits, so + is |), then each  *)
(* bound that is Some, whether or not the range is empty.                  *)
EncodeRange(r) ==
    LET flags == IF r.empty THEN EMPTY
                 ELSE (IF r.inc_lower THEN LB_INC ELSE 0)
                      + (IF r.inc_upper THEN UB_INC ELSE 0)
                      + (IF r.lower = None THEN LB_INF ELSE 0)
                      + (IF r.upper = None THEN UB_INF ELSE 0)
    IN <<F(1, flags)>> \o Bound(r.lower) \o Bound(r.upper)

(* VectorRef::encode: u16 length (`len as u16`), u16 reserved, the f32s. *)
EncodeVector(n) ==
    <<F(2, n % U16), F(2, 0)>> \o (IF n = 0 THEN <<>> ELSE <<F(4 * n, "f32")>>)

(* ScalarArg::encode of Bytes: the bytes as they are. *)
EncodeBytes(v) == [i \in DOMAIN v |-> F(1, v[i])]

(* ScalarArg::encode of ConfigMemory: reserve(8), put_i64(self.0). *)
EncodeConfigMemory(v) == <<F(8, v)>>

(* ScalarArg::encode of the types of this file (bool, i16..i64, Uuid,     *)
(* String and &str, Json); the others call codec::encode_* outside this    *)
(* tree and are written as spec 4.3's table lays them out.                 *)
Encode(t, v) ==
    CASE t \in Fixed \ {"ConfigMemory"} -> <<F(FixedWidth[t], v)>>
      [] t = "ConfigMemory" -> EncodeConfigMemory(v)
      [] t = "bool" -> <<F(1, IF v THEN 1 ELSE 0)>>
      [] t = "uuid" -> <<F(16, v)>>
      [] t = "str"  -> [i \in DOMAIN v |-> F(1, v[i])]
      [] t = "json" -> <<F(1, 1)>> \o [i \in DOMAIN v |-> F(1, v[i])]
      [] t = "bytes" -> EncodeBytes(v)
      [] t = "Duration" -> <<F(8, v.micros), F(4, 0), F(4, 0)>>
      [] t \in {"RelativeDuration", "DateDuration"} ->
            <<F(8, v.micros), F(4, v.days), F(4, v.months)>>
      [] t = "LocalTime" -> <<F(8, v.micros)>>
      [] t \in {"Decimal", "BigInt"} ->
            <<F(2, Len(v.digits)), F(2, v.weight),
              F(2, IF v.negative THEN Signs.neg ELSE Signs.pos),
              F(2, IF t = "Decimal" THEN v.dscale ELSE 0)>>
              \o [i \in DOMAIN v.digits |-> F(2, v.digits[i])]
      [] t = "range"  -> EncodeRange(v)
      [] t = "vector" -> EncodeVector(v)

-----------------------------------------------------------------------------
(* The decoders of range and vector values live in codec.rs, outside this  *)
(* tree; these follow spec 4.3's table.  A range: the flags, then a        *)
(* length-prefixed bound unless its _INF flag (or EMPTY) is set, then      *)
(* nothing more.                                                           *)
DecodeRange(buf) ==
    LET flags == buf[1].v
        empty == HasFlag(flags, EMPTY)
        hasLo == ~empty /\ ~HasFlag(flags, LB_INF)
        hasUp == ~empty /\ ~HasFlag(flags, UB_INF)
        need  == 1 + (IF hasLo THEN 12 ELSE 0) + (IF hasUp THEN 12 ELSE 0)
    IN IF EnsureExactSize(buf, need) # None THEN Err(EnsureExactSize(buf, need))
       ELSE Ok([lower |-> IF hasLo THEN buf[3].v ELSE None,
                upper |-> IF hasUp THEN buf[IF hasLo THEN 5 ELSE 3].v ELSE None,
                inc_lower |-> HasFlag(flags, LB_INC),
                inc_upper |-> HasFlag(flags, UB_INC), empty |-> empty])

(* A vector: u16 length, u16 reserved, then exactly length f32s. *)
DecodeVector(buf) ==
    IF ByteLen(buf) < 4 THEN Err("Underflow")
    ELSE IF buf[2].v # 0 THEN Err("NonZeroReservedBytes")
    ELSE IF EnsureExactSize(buf, 4 + 4 * buf[1].v) # None
         THEN Err(EnsureExactSize(buf, 4 + 4 * buf[1].v))
    ELSE Ok(buf[1].v)

DecodeAny(t, buf) ==
    CASE t = "range"  -> DecodeRange(buf)
      [] t = "vector" -> DecodeVector(buf)
      [] OTHER        -> Decode(t, buf)

(* Equality of values, except that an empty range is any range with        *)
(* `empty` set and no bounds: its inclusivity flags are not on the wire.    *)
SameValue(t, a, b) ==
    IF t = "range" /\ a.empty THEN b.empty /\ b.lower = None /\ b.upper = None
    ELSE a = b
-----------------------------------------------------------------------------
(* The values an application encodes: Rust values of each type.  A String *)
(* is always valid UTF-8; an empty range has no bounds (Range::empty()).   *)
Strs == {<<>>, <<"a">>}
Digits == {<<>>, <<1>>}
Ranges ==
    [lower : {None} \cup Ints, upper : {None} \cup Ints,
     inc_lower : BOOLEAN, inc_upper : BOOLEAN, empty : {FALSE}]
      \cup [lower : {None}, upper : {None}, inc_lower : BOOLEAN,
             inc_upper : BOOLEAN, empty : {TRUE}]

Values(t) ==
    CASE t \in Fixed -> Ints
      [] t = "bool" -> BOOLEAN
      [] t = "uuid" -> Ints
      [] t \in {"str", "json"} -> Strs
      [] t = "bytes" -> {<<>>, <<0>>}
      [] t = "Duration" -> [micros : Ints]
      [] t = "RelativeDuration" -> [micros : Ints, days : Ints, months : Ints]
      [] t = "DateDuration" -> [micros : {0}, days : Ints, months : Ints]
      [] t = "LocalTime" -> [micros : {0, DayMicros - 1}]
      [] t = "Decimal" ->
           [negative : BOOLEAN, weight : {0}, dscale : {0, 1}, digits : Digits]
      [] t = "BigInt" -> [negative : BOOLEAN, weight : {0}, digits : Digits]
      [] t = "range" -> Ranges
      [] t = "vector" -> VecLens

ArgTypes == Types \cup {"range", "vector"}

(* The buffers a server (or a damaged stream) may deliver for a type: each *)
(* field of the type's layout over a domain with out-of-spec values, then  *)
(* possibly one byte more or one byte less.                                *)
Header(n, sign, dscale) == <<F(2, n), F(2, 0), F(2, sign), F(2, dscale)>>
Layouts(t) ==
    CASE t \in Fixed -> {<<F(FixedWidth[t], i)>> : i \in Ints}
      [] t = "bool" -> {<<F(1, b)>> : b \in {0, 1, 2}}
      [] t = "uuid" -> {<<F(16, 0)>>}
      [] t = "str" -> {<<>>, <<F(1, "a")>>, <<F(1, "bad")>>}
      [] t = "bytes" -> {<<>>, <<F(1, 0)>>}
      [] t = "json" -> {<<F(1, f)>> \o r : f \in {1, 2},
                        r \in {<<>>, <<F(1, "a")>>, <<F(1, "bad")>>}}
      [] t \in {"Duration", "RelativeDuration", "DateDuration"} ->
           {<<F(8, m), F(4, d), F(4, o)>> : m \in Ints, d \in {0, 1}, o \in {0, 1}}
      [] t = "LocalTime" -> {<<F(8, m)>> : m \in {-1, 0, DayMicros - 1, DayMicros}}
      [] t \in {"Decimal", "BigInt"} ->
           {Header(n, sg, ds) \o [i \in 1..k |-> F(2, 1)] :
              n \in 0..2, sg \in {0, 1, Signs.neg}, ds \in {0, 1}, k \in 0..2}

(* One byte cut off the last field. *)
Truncated(b) ==
    LET l == b[Len(b)]
    IN IF l.w = 1 THEN Front(b) ELSE [b EXCEPT ![Len(b)] = F(l.w - 1, Junk)]

(* The extra byte: a UTF-8 character in a string, else a zero. *)
ExtraByte(t) == F(1, IF t \in {"str", "json"} THEN "a" ELSE 0)

RawBuffers(t) ==
    UNION {{b, b \o <<ExtraByte(t)>>} \cup (IF b = <<>> THEN {} ELSE {Truncated(b)}) :
             b \in Layouts(t)}

-----------------------------------------------------------------------------
VARIABLES
    sent,   \* None, or [t, v, raw]: what was written into buf
    buf,    \* the buffer handed to the decoder
    res     \* None, or the Result of decoding buf

vars == <<sent, buf, res>>

Errors == {"Underflow", "ExtraData", "InvalidUtf8", "InvalidJsonFormat",
           "InvalidBool", "BadSign", "NonZeroReservedBytes", "InvalidDate"}

(* What each Rust type can hold; a LocalTime is within one day. *)
Shape(t) ==
    CASE t \in Fixed \cup {"uuid"} -> Int
      [] t = "bool" -> BOOLEAN
      [] t \in {"str", "json"} -> Seq({"a"})
      [] t = "bytes" -> Seq(Int)
      [] t = "Duration" -> [micros : Int]
      [] t \in {"RelativeDuration", "DateDuration"} ->
           [micros : Int, days : Int, months : Int]
      [] t = "LocalTime" -> [micros : 0..(DayMicros - 1)]
      [] t = "Decimal" ->
           [negative : BOOLEAN, weight : Int, dscale : Int, digits : Seq(Int)]
      [] t = "BigInt" -> [negative : BOOLEAN, weight : Int, digits : Seq(Int)]
      [] t = "range" ->
           [lower : {None} \cup Int, upper : {None} \cup Int,
            inc_lower : BOOLEAN, inc_upper : BOOLEAN, empty : BOOLEAN]
      [] t = "vector" -> Nat

TypeOK ==
    /\ \/ sent = None
       \/ sent \in [t : ArgTypes, v : {None}, raw : {TRUE}]
       \/ sent.t \in ArgTypes /\ sent.raw = FALSE /\ sent.v \in Values(sent.t)
    /\ res = None \/ res \in [ok : {FALSE}, err : Errors]
                  \/ (sent # None /\ res \in [ok : {TRUE}, v : Shape(sent.t)])

Init ==
    /\ sent = None
    /\ buf = <<>>
    /\ res = None

(* The application encodes an argument value (ScalarArg::encode). *)
ClientEncodes(t, v) ==
    /\ sent' = [t |-> t, v |-> v, raw |-> FALSE]
    /\ buf' = Encode(t, v)
    /\ res' = None

(* The server writes a value, well formed or not. *)
ServerWrites(t, b) ==
    /\ sent' = [t |-> t, v |-> None, raw |-> TRUE]
    /\ buf' = b
    /\ res' = None

(* The buffer is decoded as the type it was written for. *)
DecodeBuffer ==
    /\ sent # None /\ res = None
    /\ res' = DecodeAny(sent.t, buf)
    /\ UNCHANGED <<sent, buf>>

Next ==
    \/ \E t \in ArgTypes : \E v \in Values(t) : ClientEncodes(t, v)
    \/ \E t \in Types : \E b \in RawBuffers(t) : ServerWrites(t, b)
    \/ DecodeBuffer

Spec == Init /\ [][Next]_vars
-----------------------------------------------------------------------------
(* The reference: spec 4.3's table read as a layout, with "extra bytes =>  *)
(* ExtraData, missing bytes => Underflow" and the error named for each     *)
(* constraint of a field.  It fixes which buffers are valid and which      *)
(* errors are right, not the order in which a decoder finds them.          *)
SpecSize(t, b) ==
    CASE t \in Fixed -> FixedWidth[t]
      [] t = "bool" -> 1
      [] t \in {"uuid", "Duration", "RelativeDuration", "DateDuration"} -> 16
      [] t = "LocalTime" -> 8
      [] t \in {"Decimal", "BigInt"} ->
           IF ByteLen(b) >= 8 THEN 8 + 2 * b[1].v ELSE 8
      [] t \in {"str", "bytes"} -> ByteLen(b)
      [] t = "json" -> IF ByteLen(b) >= 1 THEN ByteLen(b) ELSE 1

(* Field i of the layout arrived whole and holds a value outside ok. *)
BadField(b, i, ok) == i \in DOMAIN b /\ b[i].v # Junk /\ b[i].v \notin ok

SpecErrors(t, b) ==
    LET size == SpecSize(t, b)
        badBytes(from) == \E i \in from..Len(b) : b[i].v = "bad"
    IN  (IF ByteLen(b) < size THEN {"Underflow"} ELSE {})
          \cup (IF ByteLen(b) > size THEN {"ExtraData"} ELSE {})
          \cup (IF t = "bool" /\ BadField(b, 1, {0, 1}) THEN {"InvalidBool"} ELSE {})
          \cup (IF t = "str" /\ badBytes(1) THEN {"InvalidUtf8"} ELSE {})
          \cup (IF t = "json" /\ badBytes(2) THEN {"InvalidUtf8"} ELSE {})
          \cup (IF t = "json" /\ BadField(b, 1, {1}) THEN {"InvalidJsonFormat"} ELSE {})
          \cup (IF \/ (t = "Duration" /\ (BadField(b, 2, {0}) \/ BadField(b, 3, {0})))
                  \/ (t = "DateDuration" /\ BadField(b, 1, {0}))
                  \/ (t = "BigInt" /\ BadField(b, 4, {0}))
               THEN {"NonZeroReservedBytes"} ELSE {})
          \cup (IF t = "LocalTime" /\ BadField(b, 1, 0..(DayMicros - 1))
               THEN {"InvalidDate"} ELSE {})
          \cup (IF t \in {"Decimal", "BigInt"} /\ BadField(b, 3, {Signs.pos, Signs.neg})
               THEN {"BadSign"} ELSE {})

(* Spec 4.3, exact-size and field checks on decode: RawCodec::decode        *)
(* accepts a server's buffer exactly when the spec's layout does, and every *)
(* error it returns is one the spec names for that buffer (a missing or     *)
(* extra byte, a reserved field that is not zero, a bad sign, bool, JSON    *)
(* format or UTF-8, a LocalTime outside one day).                           *)
DecodeAsSpecified ==
    (sent # None /\ sent.raw /\ res # None) =>
        IF res.ok THEN SpecErrors(sent.t, buf) = {}
        ELSE res.err \in SpecErrors(sent.t, buf)

(* Spec 4.3, "Encoding is the exact inverse of decoding": every argument   *)
(* the application encodes, scalars, ranges and vectors, decodes to the    *)
(* same value (the flags byte of Range<T>::encode, the length field of     *)
(* VectorRef::encode).                                                     *)
RoundTrip ==
    (sent # None /\ ~sent.raw /\ res # None) =>
        res.ok /\ SameValue(sent.t, sent.v, res.v)
====
