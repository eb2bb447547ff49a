----------------------------- MODULE ValueTypes -----------------------------
(***************************************************************************)
(* The objects that describe the types of values: one class per kind, the  *)
(* constructed types that hold pointers to other type objects, clone(),    *)
(* which copies a type deeply, and supertypeOf() where the class defines   *)
(* it in its body.  The objects live in a heap; an address is an index.    *)
(***************************************************************************)
EXTENDS ValueKinds, Sequences, FiniteSets

CONSTANTS BasicTypes,   \* the classes without parts that the heap starts with
          FieldNames,   \* the names of a record's or an element's fields, numbers
          Operands,     \* those of them the constructors are given
          MaxMade,      \* bound: objects in the heap that a constructor may follow
          MaxClones     \* bound: calls of clone()

ASSUME FieldNamesAssumption == FieldNames \subseteq Nat

VARIABLES types,    \* the heap of type objects
          copies    \* the clones: where they are, the objects made for them, what they should say

typeVars == <<types, copies>>

-----------------------------------------------------------------------------
(* The classes that have no parts: the kind, and the kinds their           *)
(* supertypeOf() accepts.                                                  *)

\* DEFINE_TYPE_INFO and the classes written like it.
OneKind(kind) == [kind |-> kind, contains |-> {kind}]
BoolValueType == OneKind("kBool")
DurationValueType == OneKind("kDuration")
StringValueType == OneKind("kString")
BytesValueType == [kind |-> "kBytes", contains |-> {"kBytes", "kString"}]
DateValueType == OneKind("kDate")
LocalTimeValueType == OneKind("kLocalTime")
ZonedTimeValueType == OneKind("kZonedTime")
LocalDatetimeValueType ==
    [kind |-> "kLocalDatetime", contains |-> {"kLocalDatetime", "kDate", "kLocalTime"}]
ZonedDatetimeValueType ==
    [kind |-> "kZonedDatetime", contains |-> {"kZonedDatetime", "kDate", "kZonedTime"}]
NullValueType == OneKind("kNull")
\* It contains null and not itself.
InvalidValueType == [kind |-> "kInvalid", contains |-> {"kNull"}]
\* supertypeOf() of the numeric classes is defined elsewhere.
NumericValueType(kind) == [kind |-> kind, contains |-> {}]

ClassOf ==
    [Bool |-> BoolValueType, Duration |-> DurationValueType, String |-> StringValueType,
     Bytes |-> BytesValueType, Date |-> DateValueType, LocalTime |-> LocalTimeValueType,
     ZonedTime |-> ZonedTimeValueType, LocalDatetime |-> LocalDatetimeValueType,
     ZonedDatetime |-> ZonedDatetimeValueType, Null |-> NullValueType,
     Invalid |-> InvalidValueType, Int32 |-> NumericValueType("kInt32"),
     Float64 |-> NumericValueType("kFloat64"),
     Any |-> OneKind("kAny"), List |-> OneKind("kList"), Path |-> OneKind("kPath"),
     Record |-> OneKind("kRecord"), GraphReference |-> OneKind("kRef"),
     BindingTableReference |-> OneKind("kRef"), NodeReference |-> OneKind("kNode"),
     EdgeReference |-> OneKind("kEdge"), Function |-> OneKind("kFunction")]

\* The classes whose supertypeOf() is in the header.
DefinesSupertype ==
    {"Bool", "Duration", "String", "Bytes", "Date", "LocalTime", "ZonedTime", "LocalDatetime",
     "ZonedDatetime", "Null", "Invalid"}

KindOf(o) == ClassOf[o.class].kind

-----------------------------------------------------------------------------
(* Objects.  parts: the addresses of the types it points to, by position   *)
(* or by field name (a function's result is at 0); group: group_ of a      *)
(* list; fields: the fields of a node or edge type; nodes, edges: the      *)
(* sets of a graph reference, in the order of ValueTypeLess.               *)

Object(class) ==
    [class |-> class, parts |-> <<>>, group |-> FALSE, fields |-> {}, nodes |-> <<>>, edges |-> <<>>]

\* The default constructor of a list gives it an open Any as its child, which every
\* constructor and doClone() replaces.
ListOf(child, group) == [Object("List") EXCEPT !.parts = <<child>>, !.group = group]
PathOf(children) == [Object("Path") EXCEPT !.parts = children]
RecordOf(fieldTypes) == [Object("Record") EXCEPT !.parts = fieldTypes]
TableOf(record) == [Object("BindingTableReference") EXCEPT !.parts = <<record>>]
FunctionOf(args, ret) ==
    [Object("Function") EXCEPT !.parts = [i \in 0 .. Len(args) |-> IF i = 0 THEN ret ELSE args[i]]]
GraphOf(nodeTypes, edgeTypes) ==
    [Object("GraphReference") EXCEPT !.nodes = nodeTypes, !.edges = edgeTypes]
ElementOf(class, fields) == [Object(class) EXCEPT !.fields = fields]

\* ValueType::compare, and a stand-in for that of node and edge types, which look at
\* the object types: here, at how many fields these have.
Compare(h, a, b) ==
    LET code(x) == KindCode[KindOf(h[x])] * (Cardinality(FieldNames) + 1)
                   + Cardinality(h[x].fields)
    IN  code(a) - code(b)

\* ValueTypeSet::emplace: nothing when an equivalent element is there.
InsertType(h, set, a) ==
    IF \E i \in DOMAIN set : Compare(h, set[i], a) = 0
    THEN set
    ELSE SelectSeq(set, LAMBDA b : Compare(h, b, a) < 0) \o <<a>>
         \o SelectSeq(set, LAMBDA b : Compare(h, b, a) > 0)

RECURSIVE SetOf(_, _)
SetOf(h, addresses) ==
    IF addresses = <<>> THEN <<>>
    ELSE InsertType(h, SetOf(h, SubSeq(addresses, 1, Len(addresses) - 1)), addresses[Len(addresses)])

-----------------------------------------------------------------------------
(* clone().  copied gives the clones of the object's parts; the graph      *)
(* reference copies its sets, and so keeps the node and edge types.        *)

BasicClone(o) == Object(o.class)
AnyClone(h, o, copied) ==
    [Object("Any") EXCEPT !.parts = SetOf(h, [i \in DOMAIN o.parts |-> copied[i]])]
\* Mutant of ListDoClone: the child is shared with the original.
ListDoCloneShallow(o, copied) == ListOf(o.parts[1], o.group)
ListDoClone(o, copied) == ListOf(copied[1], o.group)
PathDoClone(o, copied) == PathOf(copied)
RecordDoClone(o, copied) == RecordOf(copied)
GraphDoClone(o) == GraphOf(o.nodes, o.edges)
\* recordType_ and ret_ must not be null here.
TableClone(o, copied) == TableOf(copied[1])
ElementClone(o) == ElementOf(o.class, o.fields)
FunctionDoClone(o, copied) == [Object("Function") EXCEPT !.parts = copied]

Cloned(h, o, copied) ==
    CASE o.class = "Any" -> AnyClone(h, o, copied)
      [] o.class = "List" -> ListDoClone(o, copied)
      [] o.class = "Path" -> PathDoClone(o, copied)
      [] o.class = "Record" -> RecordDoClone(o, copied)
      [] o.class = "BindingTableReference" -> TableClone(o, copied)
      [] o.class = "Function" -> FunctionDoClone(o, copied)
      [] o.class = "GraphReference" -> GraphDoClone(o)
      [] o.class \in {"NodeReference", "EdgeReference"} -> ElementClone(o)
      [] OTHER -> BasicClone(o)

\* The heap with a clone of the object at a as its last object.  The parts are cloned
\* one after the other, each into the heap the one before it left.
RECURSIVE WithClone(_, _)
WithClone(h, a) ==
    LET o == h[a]
        RECURSIVE parts(_)
        parts(todo) ==   \* the heap and the clones of the parts in todo
            IF todo = {} THEN [heap |-> h, at |-> <<>>]
            ELSE LET p    == CHOOSE x \in todo : \A y \in todo : y <= x
                     rest == parts(todo \ {p})
                     more == WithClone(rest.heap, o.parts[p])
                 IN  [heap |-> more,
                      at |-> [x \in todo |-> IF x = p THEN Len(more) ELSE rest.at[x]]]
        done == parts(DOMAIN o.parts)
    IN  Append(done.heap, Cloned(done.heap, o, done.at))

\* What a type says: its class, and what its parts say.  The node and edge types of a
\* graph reference are told apart by their identity, since clones share them.
RECURSIVE Shape(_, _)
Shape(h, a) == [h[a] EXCEPT !.parts = [p \in DOMAIN h[a].parts |-> Shape(h, h[a].parts[p])]]

-----------------------------------------------------------------------------
(* supertypeOf() of the classes that define it, with SUPERTYPE_OF_ANY.     *)

IsOpen(o) == o.class = "Any" /\ o.parts = <<>>

\* Mutant of SupertypeOf: one variant of a closed union is enough.
SupertypeOfSome(h, a, b) ==
    IF h[b].class = "Any"
    THEN \E i \in DOMAIN h[b].parts : KindOf(h[h[b].parts[i]]) \in ClassOf[h[a].class].contains
    ELSE KindOf(h[b]) \in ClassOf[h[a].class].contains

RECURSIVE SupertypeOf(_, _, _)
SupertypeOf(h, a, b) ==
    IF h[b].class = "Any"
    THEN ~IsOpen(h[b]) /\ \A i \in DOMAIN h[b].parts : SupertypeOf(h, a, h[b].parts[i])
    ELSE KindOf(h[b]) \in ClassOf[h[a].class].contains

-----------------------------------------------------------------------------
RECURSIVE HeapOf(_)
HeapOf(classes) ==
    IF classes = {} THEN <<>>
    ELSE LET class == CHOOSE c \in classes : TRUE IN Append(HeapOf(classes \ {class}), Object(class))

TypeInit ==
    /\ types = HeapOf(BasicTypes)
               \o <<ElementOf("NodeReference", FieldNames), ElementOf("EdgeReference", FieldNames)>>
    /\ copies = {}

AddressesOf(classes) == {a \in DOMAIN types : types[a].class \in classes}

Make(o) ==
    /\ Len(types) < MaxMade
    /\ types' = Append(types, o)
    /\ UNCHANGED copies

MakeAny(a, b) == Make([Object("Any") EXCEPT !.parts = SetOf(types, <<a, b>>)])
MakeOpenAny == Make(Object("Any"))
MakeList(a, group) == Make(ListOf(a, group))
MakePath(a, b, c) == Make(PathOf(<<a, b, c>>))
\* With names twice, as the constructor from pairs allows, the first one counts.
MakeRecord(f, a, g, b) == Make(RecordOf([n \in {f, g} |-> IF n = f THEN a ELSE b]))
MakeTable(a) == Make(TableOf(a))
MakeFunction(a, b) == Make(FunctionOf(<<a>>, b))
MakeGraph == Make(GraphOf(<<>>, <<>>))

\* What is done to an object of a clone's own changes what the clone says.
Touched(a) ==
    copies' = {IF a \in c.own THEN [c EXCEPT !.shape = Shape(types', c.at)] ELSE c : c \in copies}

PushNodeType(g, a) ==
    /\ types' = [types EXCEPT ![g].nodes = InsertType(types, @, a)]
    /\ Touched(g)
PushEdgeType(g, a) ==
    /\ types' = [types EXCEPT ![g].edges = InsertType(types, @, a)]
    /\ Touched(g)
\* dropFields(), defined elsewhere.
DropFields(a, f) ==
    /\ f \in types[a].fields
    /\ types' = [types EXCEPT ![a].fields = @ \ {f}]
    /\ Touched(a)

Clone(a) ==
    /\ Cardinality(copies) < MaxClones
    /\ types' = WithClone(types, a)
    /\ copies' = copies \cup {[at |-> Len(types'), own |-> Len(types) + 1 .. Len(types'),
                               shape |-> Shape(types, a)]}

Leaves == AddressesOf(Operands \cup {"NodeReference", "List", "GraphReference"})
NodeTypes == AddressesOf({"NodeReference"})
EdgeTypes == AddressesOf({"EdgeReference"})

TypeNext ==
    \/ \E a, b \in AddressesOf(Operands) : MakeAny(a, b)
    \/ MakeOpenAny
    \/ \E a \in Leaves, group \in BOOLEAN : MakeList(a, group)
    \/ \E a \in NodeTypes, b \in EdgeTypes, c \in NodeTypes : MakePath(a, b, c)
    \/ \E f, g \in FieldNames, a, b \in NodeTypes \cup EdgeTypes : MakeRecord(f, a, g, b)
    \/ \E a \in AddressesOf({"Record"}) : MakeTable(a)
    \/ \E a \in NodeTypes, b \in EdgeTypes : MakeFunction(a, b)
    \/ MakeGraph
    \/ \E g \in AddressesOf({"GraphReference"}), a \in NodeTypes : PushNodeType(g, a)
    \/ \E g \in AddressesOf({"GraphReference"}), a \in EdgeTypes : PushEdgeType(g, a)
    \/ \E a \in NodeTypes \cup EdgeTypes, f \in FieldNames : DropFields(a, f)
    \/ \E a \in DOMAIN types \ AddressesOf(BasicTypes) : Clone(a)

-----------------------------------------------------------------------------
\* A clone says what the original said when it was cloned, whatever is done later to the
\* original and to the types it is made of: only a change of one of the clone's own
\* objects changes it.  Of a graph reference this is which node and edge types belong to
\* it, and not what these say, since clones share them.
CloneKeepsShape == \A c \in copies : Shape(types, c.at) = c.shape

\* The types of the heap that the type at a contains: by its supertypeOf(), for a union by
\* that of one of its variants, and all of them for an open Any.
Elements(a) ==
    LET of(x) == {c \in AddressesOf(DefinesSupertype) : SupertypeOf(types, x, c)}
    IN  CASE IsOpen(types[a]) -> DOMAIN types
          [] types[a].class = "Any" -> UNION {of(types[a].parts[i]) : i \in DOMAIN types[a].parts}
          [] OTHER -> of(a)

\* "T1 contains all elements of T2, then T1 is supertype of T2" (the comment on supertypeOf()),
\* and the other way round: what a type accepts, it accepts together with everything that is
\* accepted by it, through a closed union on the right too, and never an open one.  So
\* supertypeOf() is a preorder.  The invalid type is left out on the right: it contains null
\* and not itself, so that inclusion says nothing about it.
SupertypeIsInclusion ==
    LET plain == DefinesSupertype \ {"Invalid"}
        only(a) == \/ types[a].class \in plain
                   \/ /\ types[a].class = "Any"
                      /\ \A i \in DOMAIN types[a].parts : types[types[a].parts[i]].class \in plain
    IN  \A a \in AddressesOf(DefinesSupertype), b \in DOMAIN types :
            only(b) => (SupertypeOf(types, a, b) <=> Elements(b) \subseteq Elements(a))
=============================================================================
