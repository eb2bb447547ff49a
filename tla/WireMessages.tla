---------------------------- MODULE WireMessages ----------------------------
(***************************************************************************)
(* The messages of the repository as Wire types, and a transfer: a batch   *)
(* of objects is written to one buffer, the buffer arrives whole or cut at *)
(* any byte, and the objects are read from it until a read fails.          *)
(***************************************************************************)
EXTENDS Wire

\* What may be sent: a sequence of [t |-> type, objects |-> set of objects, trailer |-> what follows],
\* the last a type and an object of the same encoding.
CONSTANT Catalogue

VARIABLES batch,     \* what is sent
          sent,      \* how many of its objects are written
          arrived,   \* bytes that arrived, -1 while the sender writes
          buf,       \* the IOBuf
          got        \* the results of the reads

wireVars == <<batch, sent, arrived, buf, got>>

-----------------------------------------------------------------------------
(* Layouts.  The writer of Value is not in the repository: a kind byte and *)
(* a payload stand for it.                                                 *)

ValueLayout == Pair(Scalar(1), Scalar(1))
Properties == UnorderedMap(Str, ValueLayout)
ErrorLayout == Members(<<Scalar(8), Str>>)
ResultLayout(t) == Result(t, ErrorLayout)
LocalDatetimeLayout == Scalar(8)
ZonedDatetimeLayout == LocalDatetimeLayout
DateLayout == Members(<<Scalar(2), Scalar(1), Scalar(1)>>)
LocalTimeLayout == Members(<<Scalar(1), Scalar(1), Scalar(1), Scalar(4)>>)
ZonedTimeLayout == LocalTimeLayout
DurationLayout == Members(<<Scalar(8), Scalar(4), Scalar(4)>>)
EdgeIDLayout == Members(<<Scalar(8), Scalar(8), Scalar(8), Scalar(4), Scalar(4)>>)
NodeLayout == Members(<<Scalar(8), Scalar(4), Properties>>)
EdgeLayout == Members(<<EdgeIDLayout, Properties>>)
RowLayout == Vector(ValueLayout)
ListLayout == Vector(ValueLayout)
PathLayout == Vector(ValueLayout)
RecordLayout == Properties
RefLayout == Members(<<Scalar(4), Scalar(4)>>)
GraphLayout == Unsupported
HostAddressLayout == Members(<<Str, Scalar(4)>>)
MemoryUsageLayout(debug) == Members([i \in 1 .. (IF debug THEN 12 ELSE 2) |-> Scalar(8)])

\* Kinds 0 and 1 stand for a basic type, without a body, and a type with one.
ValueTypeLayout == Tagged([kind \in 0 .. 1 |-> IF kind = 0 THEN NoMember ELSE Scalar(1)], FALSE)
ObjectTypeLayout == Tagged([kind \in 0 .. 1 |-> Vector(Scalar(2))], TRUE)
FieldTypeLayout == Members(<<Str, ValueTypeLayout>>)
RowTypeLayout == Members(<<Vector(FieldTypeLayout)>>)
DescriptorLayout == Members(<<RowTypeLayout, Scalar(1), Scalar(1)>>)

-----------------------------------------------------------------------------
WireInit ==
    /\ \E i \in DOMAIN Catalogue : \E o \in Catalogue[i].objects :
           batch = <<[t |-> Catalogue[i].t, v |-> o], Catalogue[i].trailer>>
    /\ sent = 0
    /\ arrived = -1
    /\ buf = <<>>
    /\ got = <<>>

WriteNext ==
    /\ sent < Len(batch)
    /\ LET o == batch[sent + 1] IN buf' = buf \o Write(o.t, o.v)
    /\ sent' = sent + 1
    /\ UNCHANGED <<batch, arrived, got>>

Deliver ==
    /\ sent = Len(batch)
    /\ arrived = -1
    /\ arrived' \in 0 .. Len(buf)
    /\ buf' = SubSeq(buf, 1, arrived')
    /\ UNCHANGED <<batch, sent, got>>

AllOk == \A i \in DOMAIN got : got[i].ok

ReadNext ==
    /\ arrived # -1
    /\ Len(got) < Len(batch)
    /\ AllOk
    /\ \E r \in {Read(batch[Len(got) + 1].t, buf)} :
           /\ got' = Append(got, [ok |-> r.ok, val |-> r.val])
           /\ buf' = r.rest
    /\ UNCHANGED <<batch, sent, arrived>>

WireNext == WriteNext \/ Deliver \/ ReadNext

-----------------------------------------------------------------------------
\* The bytes announced for the first i objects.
Announced(i) ==
    FoldLeft(LAMBDA sum, o : sum + EncodedSize(o.t, o.v), 0, SubSeq(batch, 1, i))

\* An object as the reader has it: a null shared or unique pointer comes back as a default object,
\* and the elements of a map or set in any order.
RECURSIVE Same(_, _, _)
Same(t, v, w) ==
    CASE t.k = "pointer" /\ v = <<>> -> w = IF t.made THEN <<Fresh(t.of)>> ELSE <<>>
      [] t.k = "pointer" /\ v # <<>> -> Len(w) = 1 /\ Same(t.of, v[1], w[1])
      [] t.k \in {"tuple", "derived"} -> \A i \in DOMAIN t.of : Same(t.of[i], v[i], w[i])
      [] t.k = "counted" /\ t.unique # "no" -> Range(v) = Range(w) /\ Len(v) = Len(w)
      [] t.k = "counted" /\ t.unique = "no" ->
             Len(v) = Len(w) /\ \A i \in DOMAIN v : Same(t.of, v[i], w[i])
      [] t.k = "result" -> v[1] = w[1] /\ Same(t.of[v[1]], v[2], w[2])
      [] OTHER -> v = w

\* The writers reserve encodedSize bytes and then store through the tail of the buffer
\* (BufferReaderWriter.h:399-404): what a write appends is exactly what was announced, so it
\* neither runs past the reserved bytes nor leaves the length wrong.
SizesExact == arrived = -1 => Len(buf) = Announced(sent)

\* The readers that lose a status: that of a BitSet drops all of them (BindingTableCommon.h:217-232)
\* and that of a derived message drops its base's (CommonDefine.h:266-289).
DropsStatus(t) == t.k \in {"bitset", "derived"}

\* An object all of whose bytes arrived is read without an error, as it was written, and the
\* next read starts at the next object.  A read of an object that did not arrive completely fails:
\* the "Data not enough" of the readers (BufferReaderWriter.h:88-94) reaches the caller, and
\* KVDecoder throws.  Nothing is said of a cut buffer from the first object on whose reader drops a
\* status: that object is read without an error and leaves bytes of its own to the next one, which
\* is what CutIsReported is about.
RoundTrip ==
    \A i \in DOMAIN got :
        /\ (Announced(i) <= arrived /\ batch[i].t.k # "unsupported")
               => got[i].ok /\ Same(batch[i].t, batch[i].v, got[i].val)
        /\ (Announced(i) > arrived /\ \A j \in 1 .. i : ~DropsStatus(batch[j].t)) => ~got[i].ok

\* When every object of the batch was read without an error, every byte of it arrived: the "Data not
\* enough" status of the readers says when they could not "deserialize an object from the head of the
\* target buffer" (BufferReaderWriter.h:33-36, 88-94).  Violated: the reader of a BitSet returns OK
\* whatever its parts say and leaves what it could not use in the buffer, where the reader of the next
\* object takes it for its own.
CutIsReported == AllOk /\ Len(got) = Len(batch) => arrived = Announced(Len(batch))
=============================================================================
