----------------------------- MODULE ValueKinds -----------------------------
(***************************************************************************)
(* ValueTypeKind and its traits: for every kind the code that orders it,   *)
(* the flags and the four C++ types of TypeTraits, and the switches that   *)
(* dispatch on a kind, each as the set of kinds it has a case for.         *)
(***************************************************************************)
EXTENDS Integers

CONSTANT ByteBits   \* the bits of a byte

ASSUME ByteBitsAssumption == ByteBits \in Nat \ {0}

-----------------------------------------------------------------------------
(* TypeTraits.  types: NativeType, ViewType, WriterType, MemoryType.       *)

Flags(flags, native, view, writer, memory) ==
    [flags |-> flags, types |-> <<native, view, writer, memory>>, bytes |-> 0, precision |-> 0]

\* A type that is its own view, writer and memory type.
Plain(flags, native, bytes) ==
    [Flags(flags \cup {"primitive", "fixed"}, native, native, native, native) EXCEPT !.bytes = bytes]

\* The precision of the unsigned kinds is that of the signed ones.
SignedTraits(name, bytes) ==
    [Plain({"numeric", "signed"}, name, bytes) EXCEPT !.precision = ByteBits * bytes - 1]
UnsignedTraits(name, bytes) ==
    [Plain({"numeric"}, name, bytes) EXCEPT !.precision = ByteBits * bytes - 1]
FloatTraits(name, bytes, precision) ==
    [Plain({"numeric", "signed"}, name, bytes) EXCEPT !.precision = precision]

NodeTraits == Flags({"refGetter"}, "Node", "NodeView", "NodeWriter", "NodeHeader")
EdgeTraits == Flags({"refGetter"}, "Edge", "EdgeView", "EdgeWriter", "EdgeHeader")
RefTraits == [Flags({}, "Ref", "Ref", "Ref", "Ref") EXCEPT !.bytes = 8]
BoolTraits == Plain({}, "bool", 1)
Int8Traits == SignedTraits("int8_t", 1)
Int16Traits == SignedTraits("int16_t", 2)
Int32Traits == SignedTraits("int32_t", 4)
Int64Traits == SignedTraits("int64_t", 8)
Uint8Traits == UnsignedTraits("uint8_t", 1)
Uint16Traits == UnsignedTraits("uint16_t", 2)
Uint32Traits == UnsignedTraits("uint32_t", 4)
Uint64Traits == UnsignedTraits("uint64_t", 8)
Float32Traits == FloatTraits("float", 4, 23)
Float64Traits == FloatTraits("double", 8, 52)
BytesTraits == Flags({"primitive", "refGetter"}, "String", "StringView", "StringWriter", "StringView")
StringTraits == Flags({"primitive", "refGetter"}, "String", "StringView", "StringWriter", "StringView")
ListTraits == Flags({"refGetter"}, "List", "ListView", "ListWriter", "ListHeader")
PathTraits == Flags({"refGetter"}, "Path", "PathView", "PathWriter", "PathHeader")
RecordTraits == Flags({"refGetter"}, "Record", "RecordView", "RecordWriter", "Unit")
LocalTimeTraits == Plain({"refGetter", "temporal"}, "LocalTime", 8)
ZonedTimeTraits == Plain({"refGetter", "temporal"}, "ZonedTime", 8)
DurationTraits == Plain({"refGetter", "temporal"}, "Duration", 16)
LocalDatetimeTraits == Plain({"refGetter", "temporal"}, "LocalDatetime", 8)
ZonedDatetimeTraits == Plain({"refGetter", "temporal"}, "ZonedDatetime", 8)
DateTraits == Plain({"refGetter", "temporal"}, "Date", 4)
AnyTraits == Flags({"refGetter"}, "Value", "DynamicView", "ScalarWriter", "ScalarData")
NullTraits == Flags({"refGetter", "fixed"}, "NullValue", "NullView", "NullWriter", "Unit")
InvalidTraits == Flags({}, "bool", "none", "none", "none")

TypeTraits ==
    [kNode |-> NodeTraits, kEdge |-> EdgeTraits, kNull |-> NullTraits, kBool |-> BoolTraits,
     kInt8 |-> Int8Traits, kUint8 |-> Uint8Traits, kInt16 |-> Int16Traits, kUint16 |-> Uint16Traits,
     kInt32 |-> Int32Traits, kUint32 |-> Uint32Traits, kInt64 |-> Int64Traits,
     kUint64 |-> Uint64Traits, kFloat32 |-> Float32Traits, kFloat64 |-> Float64Traits,
     kBytes |-> BytesTraits, kString |-> StringTraits, kList |-> ListTraits, kPath |-> PathTraits,
     kRecord |-> RecordTraits, kLocalTime |-> LocalTimeTraits, kDuration |-> DurationTraits,
     kDate |-> DateTraits, kLocalDatetime |-> LocalDatetimeTraits, kZonedTime |-> ZonedTimeTraits,
     kZonedDatetime |-> ZonedDatetimeTraits, kRef |-> RefTraits, kAny |-> AnyTraits,
     kInvalid |-> InvalidTraits]

\* enum ValueTypeKind
KindCode ==
    [kNode |-> 1, kEdge |-> 2, kNull |-> 3, kBool |-> 4, kInt8 |-> 5, kUint8 |-> 6, kInt16 |-> 7,
     kUint16 |-> 8, kInt32 |-> 9, kUint32 |-> 10, kInt64 |-> 11, kUint64 |-> 12, kFloat32 |-> 13,
     kFloat64 |-> 14, kBytes |-> 15, kString |-> 16, kList |-> 17, kPath |-> 18, kRecord |-> 19,
     kLocalTime |-> 21, kDuration |-> 22, kDate |-> 23, kLocalDatetime |-> 24, kZonedTime |-> 25,
     kZonedDatetime |-> 32, kRef |-> 33, kFunction |-> 253, kAny |-> 254, kInvalid |-> 255]

Kinds == DOMAIN KindCode

-----------------------------------------------------------------------------
(* Dispatch.  A kind without a case makes the dispatch throw.              *)

TypeDispatch == Kinds \ {"kFunction"}
PropertyTypeDispatch == TypeDispatch \ {"kNode", "kEdge", "kBytes", "kPath", "kRef", "kInvalid"}
PhysicalTypeDispatch == TypeDispatch \ {"kBytes", "kAny", "kInvalid"}
PhysicalTypeWithAnyDispatch == PhysicalTypeDispatch \cup {"kAny"}

\* A trait of a kind, behind a dispatch with these cases.
Dispatch(cases, kind, trait) ==
    IF kind \notin cases THEN "throws" ELSE IF trait THEN "true" ELSE "false"

Has(kind, flag) == Dispatch(TypeDispatch, kind, flag \in TypeTraits[kind].flags)
IsPrimitiveType(kind) == Has(kind, "primitive")
IsNumericType(kind) == Has(kind, "numeric")
IsFixedWidth(kind) == Has(kind, "fixed")

\* CHECK_IF_TYPE_IS_TRIVIAL
IsTrivialType(kind) ==
    Dispatch(PhysicalTypeWithAnyDispatch, kind,
             \A i \in 1 .. 4 : TypeTraits[kind].types[i] = TypeTraits[kind].types[1])

UnableInline(kind) ==
    kind \in {"kString", "kList", "kDuration", "kRecord", "kNode", "kEdge", "kPath"}
=============================================================================
