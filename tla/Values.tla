------------------------------- MODULE Values -------------------------------
(***************************************************************************)
(* Value: what it keeps in its own eight bytes and what behind a pointer,  *)
(* and the conversions of its integers: casts to another kind, and         *)
(* transformNumeric, which makes a number of a literal and its sign.       *)
(***************************************************************************)
EXTENDS ValueKinds

\* Powers of two, stated for the provers, who have no fact about powers.
ASSUME PowersAssumption ==
    \A m, n \in 0 .. 8 * ByteBits :
        2 ^ n \in Nat \ {0} /\ (m < n => 2 * 2 ^ m <= 2 ^ n) /\ (m + 1 = n => 2 ^ n = 2 * 2 ^ m)

VARIABLES value,    \* a Value: its kind, and its number if that is an integer
          meant,    \* the number it should have
          outcome   \* "value" or "nullopt", the last result

valueVars == <<value, meant, outcome>>

-----------------------------------------------------------------------------
\* Mutant of HeldInline: durations, which are trivial and of a fixed width, are kept inline too.
HeldInlineDuration ==
    {"kBool", "kInt8", "kInt16", "kInt32", "kInt64", "kUint8", "kUint16", "kUint32", "kUint64",
     "kFloat32", "kFloat64", "kDate", "kLocalTime", "kZonedTime", "kLocalDatetime", "kZonedDatetime",
     "kDuration"}

\* union Data: what is not a pointer.
HeldInline ==
    {"kBool", "kInt8", "kInt16", "kInt32", "kInt64", "kUint8", "kUint16", "kUint32", "kUint64",
     "kFloat32", "kFloat64", "kDate", "kLocalTime", "kZonedTime", "kLocalDatetime", "kZonedDatetime"}
HeldByPointer ==
    {"kNull", "kString", "kBytes", "kList", "kPath", "kRecord", "kNode", "kEdge", "kRef", "kDuration"}

SignedInts == {"kInt8", "kInt16", "kInt32", "kInt64"}
UnsignedInts == {"kUint8", "kUint16", "kUint32", "kUint64"}

IsSignedInt(v) == v.kind \in SignedInts
IsInteger(v) == v.kind \in SignedInts \cup UnsignedInts
IsNumeric(v) == IsInteger(v) \/ v.kind \in {"kFloat32", "kFloat64"}

Bits(kind) == ByteBits * TypeTraits[kind].bytes
Least(kind) == IF kind \in SignedInts THEN -(2 ^ (Bits(kind) - 1)) ELSE 0
Greatest(kind) == Least(kind) + 2 ^ Bits(kind) - 1
Fits(n, kind) == n \in Least(kind) .. Greatest(kind)

\* Mutant of StaticCast: the sign bit of the result is ignored.
StaticCastUnsigned(n, kind) == n % 2 ^ Bits(kind)

\* static_cast to an integer type keeps the low bits.
StaticCast(n, kind) == Least(kind) + ((n - Least(kind)) % 2 ^ Bits(kind))

GetInteger(v) == StaticCast(v.num, "kInt64")
GetUnsignedInteger(v) == v.num

DoCastNumeric(n, to) == [kind |-> to, num |-> StaticCast(n, to)]

\* Unary minus of a Value: a null when the kind has no such number.
Null == [kind |-> "kNull", num |-> 0]
UnaryMinus(v) == IF Fits(-v.num, v.kind) THEN [v EXCEPT !.num = -@] ELSE Null

Int64(n) == [kind |-> "kInt64", num |-> n]
NullOpt == [kind |-> "nullopt", num |-> 0]

TransformSigned(v, negate) ==
    IF ~negate THEN v
    ELSE IF UnaryMinus(v) # Null THEN UnaryMinus(v)
    ELSE IF GetInteger(v) > Least("kInt64") THEN Int64(-GetInteger(v))
    ELSE NullOpt

\* Mutant of TransformUnsigned: the least number of an int64_t is taken for an overflow.
TransformUnsignedShort(v, negate) ==
    LET u == GetUnsignedInteger(v)
    IN  IF ~negate THEN IF Fits(u, "kInt64") THEN Int64(u) ELSE NullOpt
        ELSE IF u < StaticCast(Least("kInt64"), "kUint64") THEN Int64(StaticCast(-u, "kInt64"))
        ELSE NullOpt

TransformUnsigned(v, negate) ==
    LET u == GetUnsignedInteger(v)
    IN  IF ~negate THEN IF Fits(u, "kInt64") THEN Int64(u) ELSE NullOpt
        ELSE IF u <= StaticCast(Least("kInt64"), "kUint64") THEN Int64(StaticCast(-u, "kInt64"))
        ELSE NullOpt

\* Of a floating-point number only the kind is kept.
TransformNumeric(v, negate) ==
    IF ~IsInteger(v) THEN v
    ELSE IF IsSignedInt(v) THEN TransformSigned(v, negate)
    ELSE TransformUnsigned(v, negate)

-----------------------------------------------------------------------------
\* The numbers around the limits of a kind.
Edges(kind) ==
    {n \in {Least(kind), Least(kind) + 1, -1, 0, 1, 2 ^ TypeTraits[kind].precision - 1,
            2 ^ TypeTraits[kind].precision, Greatest(kind)} : Fits(n, kind)}

ValueInit ==
    /\ \/ \E kind \in SignedInts \cup UnsignedInts : \E n \in Edges(kind) :
              value = [kind |-> kind, num |-> n]
       \/ \E kind \in (HeldInline \cup HeldByPointer) \ (SignedInts \cup UnsignedInts) :
              value = [kind |-> kind, num |-> 0]
    /\ meant = value.num
    /\ outcome = "value"

\* The kinds an integer can be cast to without a change: a larger precision, or as large a one of
\* the same signedness.
Widens(from, to) ==
    \/ TypeTraits[from].precision < TypeTraits[to].precision /\ (from \in SignedInts => to \in SignedInts)
    \/ TypeTraits[from].precision = TypeTraits[to].precision /\ (from \in SignedInts <=> to \in SignedInts)

Cast(to) ==
    /\ IsInteger(value)
    /\ value' = DoCastNumeric(IF IsSignedInt(value) THEN GetInteger(value)
                              ELSE GetUnsignedInteger(value), to)
    /\ meant' = IF Widens(value.kind, to) THEN meant ELSE value'.num
    /\ UNCHANGED outcome

Transform(negate) ==
    /\ IsNumeric(value)
    /\ outcome = "value"
    /\ LET r == TransformNumeric(value, negate)
       IN  IF r = NullOpt THEN outcome' = "nullopt" /\ UNCHANGED value
           ELSE value' = r /\ UNCHANGED outcome
    /\ meant' = IF negate THEN -meant ELSE meant

ValueNext ==
    \/ outcome = "value" /\ \E to \in SignedInts \cup UnsignedInts : Cast(to)
    \/ \E negate \in BOOLEAN : Transform(negate)

ValueSpec == ValueInit /\ [][ValueNext]_valueVars

-----------------------------------------------------------------------------
\* "std::nullopt will be returned if range overflow is detected" (Value.h:331-336): a literal and its
\* sign become that very number or nothing, and nothing only if no int64_t is that number.  A cast
\* to a wider kind keeps the number.
NumberKept ==
    IF outcome = "nullopt" THEN ~Fits(meant, "kInt64") ELSE value.num = meant

\* The tables that place values agree: Value keeps in its own bytes (Value.h:38-70) exactly the kinds
\* that ValueTypeKind.h calls trivial and of fixed width and that have at most eight bytes, as the
\* comments on union Data say; what unableInline refuses is behind a pointer; no kind that can
\* be a property makes isTrivialType throw (:1385-1409); and the two notions of a number are one.
\* unableInline alone does not tell the place: it refuses neither Ref, Bytes nor Null, which are
\* behind pointers, and for Bytes isTrivialType throws.
ValueFitsItsKind ==
    LET kind == value.kind
    IN  /\ kind \in HeldInline <=> /\ IsFixedWidth(kind) = "true" /\ TypeTraits[kind].bytes <= 8
                                   /\ IsTrivialType(kind) = "true"
        /\ UnableInline(kind) => kind \in HeldByPointer /\ kind \notin HeldInline
        /\ kind \in PropertyTypeDispatch => IsTrivialType(kind) # "throws"
        /\ IsNumeric(value) <=> IsNumericType(kind) = "true"
=============================================================================
