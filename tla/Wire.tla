-------------------------------- MODULE Wire --------------------------------
(***************************************************************************)
(* The binary encodings of the repository, as operators on types: the one  *)
(* of BufferReaderWriter.h and that of KVEncoder and KVDecoder.            *)
(*                                                                         *)
(* A type is a record that says which specialisation of BufferReaderWriter *)
(* or which overload of encode and decode handles it.  An object of a      *)
(* scalar type is a number, of a pointer type <<>> or <<object>>, of every *)
(* other type a sequence.  A buffer is a sequence of bytes, and a byte is  *)
(* a number below Radix, 2^8 in the code.  Read returns the status, the    *)
(* object and what is left of the buffer.                                  *)
(* Messages built from these types are in WireMessages.                    *)
(***************************************************************************)
EXTENDS Integers, Sequences, FiniteSets, SequencesExt

CONSTANT Radix   \* the number of values of a byte

ASSUME RadixAssumption == Radix \in Nat /\ Radix >= 2

-----------------------------------------------------------------------------
(* The specialisations.                                                    *)

Scalar(n) == [k |-> "scalar", n |-> n, big |-> FALSE]
Trivial(n) == Scalar(n)                       \* memcpy of a struct of n bytes
NoMember == [k |-> "tuple", of |-> <<>>]
SharedPtr(t) == [k |-> "pointer", of |-> t, made |-> TRUE]
UniquePtr(t) == [k |-> "pointer", of |-> t, made |-> TRUE]
Optional(t) == [k |-> "pointer", of |-> t, made |-> FALSE]
Pair(t1, t2) == [k |-> "tuple", of |-> <<t1, t2>>]
Tuple(ts) == [k |-> "tuple", of |-> ts]

\* A size of four bytes, then the elements: read at once (bulk) or one by one.
Counted(t, bulk, unique) ==
    [k |-> "counted", size |-> Scalar(4), of |-> t, bulk |-> bulk, unique |-> unique]

Vector(t) == Counted(t, t.k = "scalar", "no")
Str == Vector(Scalar(1))
Deque(t) == Counted(t, FALSE, "no")
UnorderedMap(t1, t2) == Counted(Pair(t1, t2), FALSE, "key")
OrderedMap(t1, t2) == UnorderedMap(t1, t2)
UnorderedSet(t) == Counted(t, FALSE, "element")
OrderedSet(t) == UnorderedSet(t)

\* FoldWrapper: the members of a message, one after the other.
Members(ts) == Tuple(ts)

\* SERIALIZE_EACH_MEMBER_BASE: the base, whose status is dropped, then the members.
Derived(base, ts) == [k |-> "derived", of |-> <<base, Members(ts)>>]

\* A pointer to one of several classes, told apart by a kind byte.  A kind that is not known is an
\* error (strict) or a null pointer.
Tagged(body, strict) == [k |-> "tagged", of |-> body, strict |-> strict]

\* Result: whether it is a value, then the value or the error.
Result(t, error) == [k |-> "result", of |-> (0 :> error @@ 1 :> t)]

BitSet == [k |-> "bitset"]

Unsupported == [k |-> "unsupported"]

\* KVEncoder and KVDecoder: integers and sizes in big-endian order, one buffer, no status.  What the
\* decoder takes past the end of the buffer makes StringPiece throw, which is a failed read here.
KVInteger(n) == [k |-> "scalar", n |-> n, big |-> TRUE]
KVEnum(n) == KVInteger(n)
KVBool == KVInteger(1)
KVZonedDatetime == KVInteger(8)
KVString == [Str EXCEPT !.size = KVInteger(4)]
KVHostAddress == Tuple(<<KVString, KVInteger(4)>>)
KVPair(t1, t2) == Tuple(<<t1, t2>>)
KVVector(t) == [Deque(t) EXCEPT !.size = KVInteger(4)]
KVMap(t1, t2) == [OrderedMap(t1, t2) EXCEPT !.size = KVInteger(4)]
KVUnorderedMap(t1, t2) == KVMap(t1, t2)

-----------------------------------------------------------------------------
(* Writing.                                                                *)

\* Mutant of Bytes: a small integer is stored as a 32-bit word.
BytesAsWord(v, n) == [i \in 1 .. (IF n = 2 THEN 4 ELSE n) |-> (v \div Radix ^ (i - 1)) % Radix]

\* The n bytes of a number, in the little-endian order of the machine.
Bytes(v, n) == [i \in 1 .. n |-> (v \div Radix ^ (i - 1)) % Radix]

ScalarBytes(t, v) == IF t.big THEN Reverse(Bytes(v, t.n)) ELSE Bytes(v, t.n)

RECURSIVE Write(_, _)
Write(t, v) ==
    CASE t.k = "scalar" -> ScalarBytes(t, v)
      [] t.k = "pointer" -> IF v = <<>> THEN Bytes(0, 1) ELSE Bytes(1, 1) \o Write(t.of, v[1])
      [] t.k \in {"tuple", "derived"} -> FlattenSeq([i \in DOMAIN v |-> Write(t.of[i], v[i])])
      [] t.k = "counted" ->
             ScalarBytes(t.size, Len(v)) \o FlattenSeq([i \in DOMAIN v |-> Write(t.of, v[i])])
      [] t.k = "tagged" -> IF v = <<>> THEN Bytes(0, 1)
                           ELSE Bytes(1, 1) \o Bytes(v[1], 1) \o Write(t.of[v[1]], v[2])
      [] t.k = "result" -> Bytes(v[1], 1) \o Write(t.of[v[1]], v[2])
      [] t.k = "bitset" -> Bytes(v[1], 8) \o Bytes(Len(v[2]), 8) \o v[2]
      [] t.k = "unsupported" -> <<>>

\* What the writers reserve in the buffer before they write through its tail.
RECURSIVE EncodedSize(_, _)
EncodedSize(t, v) ==
    CASE t.k = "scalar" -> t.n
      [] t.k = "pointer" -> 1 + (IF v = <<>> THEN 0 ELSE EncodedSize(t.of, v[1]))
      [] t.k \in {"tuple", "derived"} ->
             FoldLeft(LAMBDA sum, i : sum + EncodedSize(t.of[i], v[i]), 0, [i \in DOMAIN v |-> i])
      [] t.k = "counted" -> FoldLeft(LAMBDA sum, e : sum + EncodedSize(t.of, e), 4, v)
      [] t.k = "tagged" -> 1 + (IF v = <<>> THEN 0 ELSE 1 + EncodedSize(t.of[v[1]], v[2]))
      [] t.k = "result" -> 1 + EncodedSize(t.of[v[1]], v[2])
      [] t.k = "bitset" -> 2 * 8 + Len(v[2])
      [] t.k = "unsupported" -> 0

-----------------------------------------------------------------------------
(* Reading.  Every object is read into one made by its default constructor.*)

Number(b) == FoldRight(LAMBDA digit, n : digit + Radix * n, b, 0)

RECURSIVE Fresh(_)
Fresh(t) ==
    CASE t.k = "scalar" -> 0
      [] t.k \in {"tuple", "derived"} -> [i \in DOMAIN t.of |-> Fresh(t.of[i])]
      [] t.k = "result" -> <<1, Fresh(t.of[1])>>
      [] t.k = "bitset" -> <<0, <<>>>>
      [] OTHER -> <<>>

Ok(v, b) == [ok |-> TRUE, val |-> v, rest |-> b]
Failed(v, b) == [ok |-> FALSE, val |-> v, rest |-> b]

\* Mutant of ReadScalar: the length check is left out of the status.
ReadScalarUnchecked(t, b) ==
    LET first == SubSeq(b, 1, t.n)
    IN  IF Len(b) < t.n THEN Ok(0, <<>>)
        ELSE Ok(Number(IF t.big THEN Reverse(first) ELSE first), SubSeq(b, t.n + 1, Len(b)))

ReadScalar(t, b) ==
    LET first == SubSeq(b, 1, t.n)
    IN  IF Len(b) < t.n THEN Failed(0, b)
        ELSE Ok(Number(IF t.big THEN Reverse(first) ELSE first), SubSeq(b, t.n + 1, Len(b)))

ReadBulk(n, size, b) ==
    IF Len(b) < n * size THEN Failed([i \in 1 .. n |-> 0], b)
    ELSE Ok([i \in 1 .. n |-> Number(SubSeq(b, (i - 1) * size + 1, i * size))],
            SubSeq(b, n * size + 1, Len(b)))

\* emplace keeps the element that is there.
Emplace(unique, s, e) ==
    LET held == \E i \in DOMAIN s :
                    \/ unique = "key" /\ s[i][1] = e[1]
                    \/ unique = "element" /\ s[i] = e
    IN  IF held THEN s ELSE Append(s, e)

ReadBits(b) ==
    LET size == ReadScalar(Scalar(8), b)
        needed == ReadScalar(Scalar(8), size.rest)
        bits == ReadBulk(needed.val, 1, needed.rest)
    IN  Ok(<<size.val, bits.val>>, bits.rest)

RECURSIVE Read(_, _), ReadParts(_, _), ReadElements(_, _, _, _)

\* Objects of the types ts, one after the other, up to the first that fails.
ReadParts(ts, b) ==
    IF ts = <<>> THEN Ok(<<>>, b)
    ELSE LET p == Read(Head(ts), b)
             others == ReadParts(Tail(ts), p.rest)
         IN  IF p.ok THEN [others EXCEPT !.val = <<p.val>> \o @]
             ELSE Failed(<<p.val>> \o Fresh(Tuple(Tail(ts))), p.rest)

\* n more elements of a container that has those of s.
ReadElements(t, n, s, b) ==
    IF n = 0 THEN Ok(s, b)
    ELSE LET e == Read(t.of, b)
         IN  IF e.ok THEN ReadElements(t, n - 1, Emplace(t.unique, s, e.val), e.rest)
             ELSE Failed(s, e.rest)

Read(t, b) ==
    CASE t.k = "scalar" -> ReadScalar(t, b)
      [] t.k = "pointer" ->
             LET has == ReadScalar(Scalar(1), b)
                 obj == Read(t.of, has.rest)
                 none == IF t.made THEN <<Fresh(t.of)>> ELSE <<>>
             IN  IF ~has.ok THEN Failed(none, has.rest)
                 ELSE IF has.val = 0 THEN Ok(none, has.rest)
                 ELSE [obj EXCEPT !.val = <<@>>]
      [] t.k = "tuple" -> ReadParts(t.of, b)
      [] t.k = "derived" ->
             LET base == Read(t.of[1], b)
                 own == Read(t.of[2], base.rest)
             IN  [own EXCEPT !.val = <<base.val, @>>]
      [] t.k = "counted" ->
             LET n == ReadScalar(t.size, b)
             IN  IF ~n.ok THEN Failed(<<>>, n.rest)
                 ELSE IF t.bulk THEN ReadBulk(n.val, t.of.n, n.rest)
                 ELSE ReadElements(t, n.val, <<>>, n.rest)
      [] t.k = "tagged" ->
             LET has == ReadScalar(Scalar(1), b)
                 kind == ReadScalar(Scalar(1), has.rest)
                 body == Read(t.of[kind.val], kind.rest)
             IN  IF ~has.ok \/ has.val = 0 THEN [has EXCEPT !.val = <<>>]
                 ELSE IF ~kind.ok THEN Failed(<<>>, kind.rest)
                 ELSE IF kind.val \notin DOMAIN t.of
                      THEN [ok |-> ~t.strict, val |-> <<>>, rest |-> kind.rest]
                 ELSE [body EXCEPT !.val = <<kind.val, @>>]
      [] t.k = "result" ->
             LET which == ReadScalar(Scalar(1), b)
                 body == Read(t.of[which.val], which.rest)
             IN  IF ~which.ok THEN Failed(Fresh(t), which.rest)
                 ELSE IF ~body.ok THEN Failed(Fresh(t), body.rest)
                 ELSE [body EXCEPT !.val = <<which.val, @>>]
      [] t.k = "bitset" -> ReadBits(b)
      [] t.k = "unsupported" -> Failed(<<>>, b)
=============================================================================
