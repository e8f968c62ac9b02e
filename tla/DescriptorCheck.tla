--------------------------- MODULE DescriptorCheck ---------------------------
(***************************************************************************)
(* The descriptor check of the scalar codec (src/gel-protocol/src/         *)
(* serialization/decode/raw_scalar.rs and the derived enum decoder of      *)
(* src/gel-derive/src/enums.rs): before a value is encoded or decoded, the *)
(* binding of a Rust type checks the server's type descriptor at a         *)
(* TypePos.                                                                *)
(*                                                                         *)
(* The client receives descriptor blocks one descriptor at a time; the     *)
(* server orders them so that every reference points to a lower position  *)
(* (spec 7, "Descriptor graphs").  A protocol error or reset invalidates   *)
(* the block.  Against the current block the application binds any Rust    *)
(* type at any position; `checked` records the last check and its outcome. *)
(*                                                                         *)
(* Data abstraction: a type UUID is a member of Ids; a descriptor is a     *)
(* record [kind, id, ref] whose `ref` is Scalar.base_type_pos or           *)
(* Range.type_pos; Tuple stands for every other descriptor kind.           *)
(***************************************************************************)
EXTENDS Naturals, Sequences

CONSTANTS
    Ids,        \* scalar type UUIDs
    StrId,      \* the UUID of std::str (String::uuid())
    NoId,       \* model value: the descriptor carries no scalar id
    NoPos,      \* model value: Option<TypePos>::None
    None,       \* model value: nothing checked yet
    Leaves,     \* the non-range bindings under test (see LeafBindings)
    MaxDescs,   \* bound on the number of descriptors in a block
    MaxNest     \* bound on the nesting of Range<Range<...>> bindings

ASSUME StrId \in Ids /\ NoId \notin Ids /\ MaxDescs \in Nat /\ MaxNest \in Nat

VARIABLES
    desc,       \* the descriptor block: desc[i + 1] is at TypePos i
    proto,      \* the connection's major protocol version
    checked     \* None, or [pos, bind, ok]: the last check_descriptor call

vars == <<desc, proto, checked>>

Protos == {1, 2}

(* The descriptors that may sit at position n: references point below n. *)
DescsAt(n) ==
    [kind : {"BaseScalar"}, id : Ids, ref : {NoPos}]
      \cup [kind : {"Scalar"}, id : Ids, ref : {NoPos} \cup 0..(n - 1)]
      \cup [kind : {"Range"}, id : {NoId}, ref : 0..(n - 1)]
      \cup [kind : {"Enumeration", "Tuple"}, id : {NoId}, ref : {NoPos}]

(* DescriptorContext::get *)
Get(d, pos) == d[pos + 1]

(* The Rust types bound to a position.  A leaf is:
   Scalar(id)   every ScalarArg whose check_descriptor is
                check_scalar(ctx, pos, uuid, name): i16..f64, bool, Uuid,
                Json, bytes, Decimal, BigInt, durations, dates, Vector
   String       String
   Str          &str
   EnumValue    gel_protocol::value::EnumValue
   DerivedEnum  an enum with #[derive(Queryable)]
   A binding wraps a leaf in `ranges` layers of Range<T>. *)
LeafBindings ==
    [kind : {"Scalar"}, id : Ids]
      \cup [kind : {"String", "Str", "EnumValue", "DerivedEnum"}, id : {StrId}]

Bindings == [leaf : Leaves, ranges : 0..MaxNest]

-----------------------------------------------------------------------------
(* Mutant: the protocol-version guard of the second arm is dropped. *)
RECURSIVE CheckScalarAnyProto(_, _, _, _)
CheckScalarAnyProto(d, pos, id, proto_) ==
    LET x == Get(d, pos) IN
    IF x.kind = "Scalar" /\ x.ref # NoPos
    THEN CheckScalarAnyProto(d, x.ref, id, proto_)
    ELSE \/ x.kind = "Scalar" /\ x.id = id
         \/ x.kind = "BaseScalar" /\ x.id = id

(* check_scalar: a Scalar with a base type is judged by its base; else a   *)
(* Scalar matches on protocol 2 and a BaseScalar matches on its id.        *)
RECURSIVE CheckScalar(_, _, _, _)
CheckScalar(d, pos, id, proto_) ==
    LET x == Get(d, pos) IN
    IF x.kind = "Scalar" /\ x.ref # NoPos THEN CheckScalar(d, x.ref, id, proto_)
    ELSE \/ x.kind = "Scalar" /\ proto_ = 2 /\ x.id = id
         \/ x.kind = "BaseScalar" /\ x.id = id

(* String::check_descriptor *)
CheckString(d, pos, proto_) == CheckScalar(d, pos, StrId, proto_)

(* <&str>::check_descriptor: an Enumeration, else check_scalar for str. *)
CheckStr(d, pos, proto_) ==
    \/ Get(d, pos).kind = "Enumeration"
    \/ CheckScalar(d, pos, StrId, proto_)

(* EnumValue::check_descriptor: the Enumeration arm is empty, and every    *)
(* path ends in Err(ctx.wrong_type(desc, "enum")).                         *)
CheckEnumValue(d, pos) == FALSE

(* The derived Queryable::check_descriptor of an enum: Enumeration only. *)
CheckDerivedEnum(d, pos) == Get(d, pos).kind = "Enumeration"

(* ScalarArg::check_descriptor of a leaf type: the scalar types call        *)
(* check_scalar with their own UUID.                                        *)
CheckLeaf(d, pos, leaf, proto_) ==
    CASE leaf.kind = "Scalar"      -> CheckScalar(d, pos, leaf.id, proto_)
      [] leaf.kind = "String"      -> CheckString(d, pos, proto_)
      [] leaf.kind = "Str"         -> CheckStr(d, pos, proto_)
      [] leaf.kind = "EnumValue"   -> CheckEnumValue(d, pos)
      [] leaf.kind = "DerivedEnum" -> CheckDerivedEnum(d, pos)

(* Mutant: Range<T> checks T at its own position, not at the element's. *)
CheckDescriptorSamePos(d, pos, b, proto_) ==
    IF b.ranges = 0 THEN CheckLeaf(d, pos, b.leaf, proto_)
    ELSE /\ Get(d, pos).kind = "Range"
         /\ CheckLeaf(d, pos, b.leaf, proto_)

(* ScalarArg::check_descriptor, Range<T> unwrapping to T at rng.type_pos. *)
RECURSIVE CheckDescriptor(_, _, _, _)
CheckDescriptor(d, pos, b, proto_) ==
    IF b.ranges = 0 THEN CheckLeaf(d, pos, b.leaf, proto_)
    ELSE /\ Get(d, pos).kind = "Range"
         /\ CheckDescriptor(d, Get(d, pos).ref, [b EXCEPT !.ranges = @ - 1],
                            proto_)

-----------------------------------------------------------------------------
Descriptors ==
    [kind : {"BaseScalar", "Scalar", "Range", "Enumeration", "Tuple"},
     id : Ids \cup {NoId}, ref : Nat \cup {NoPos}]

Init ==
    /\ desc = <<>>
    /\ proto \in Protos
    /\ checked = None

(* The next descriptor of a CommandDataDescription block arrives. *)
ReceiveDescriptor(x) ==
    /\ Len(desc) < MaxDescs
    /\ x \in DescsAt(Len(desc))
    /\ desc' = Append(desc, x)
    /\ UNCHANGED <<proto, checked>>

(* A protocol error or reset invalidates the block. *)
Invalidate ==
    /\ desc # <<>>
    /\ desc' = <<>>
    /\ checked' = None
    /\ UNCHANGED proto

(* The application binds type b at position pos of the current block. *)
Check(b, pos) ==
    /\ pos \in 0..(Len(desc) - 1)
    /\ checked' = [pos |-> pos, bind |-> b,
                   ok |-> CheckDescriptor(desc, pos, b, proto)]
    /\ UNCHANGED <<desc, proto>>

Next ==
    \/ \E x \in DescsAt(Len(desc)) : ReceiveDescriptor(x)
    \/ Invalidate
    \/ \E b \in Bindings, pos \in 0..(MaxDescs - 1) : Check(b, pos)

Spec == Init /\ [][Next]_vars

-----------------------------------------------------------------------------
(* The reference: spec 4.3, "Descriptor check".  Steps 1-5 follow the     *)
(* chain of base_type_pos to its end and judge the descriptor found there; *)
(* "Enumeration descriptors are accepted for string and enum bindings".    *)
(* A Range<T> binding asks for a Range descriptor whose element type T     *)
(* accepts ("range codecs" of spec 1).                                     *)
BaseOf(d, p) ==
    IF Get(d, p).kind = "Scalar" /\ Get(d, p).ref # NoPos THEN Get(d, p).ref ELSE p

(* Every step goes down, so Len(d) steps reach the end of the chain. *)
ChainEnd(d, pos) ==
    LET f[i \in 0..Len(d)] == IF i = 0 THEN pos ELSE BaseOf(d, f[i - 1])
    IN f[Len(d)]

SpecScalarAccepts(d, pos, id, pr) ==
    LET t == Get(d, ChainEnd(d, pos))
    IN t.id = id /\ (t.kind = "BaseScalar" \/ (t.kind = "Scalar" /\ pr >= 2))

(* The position the leaf type is checked at, under b.ranges Range layers. *)
LeafPos(d, pos, b) ==
    LET g[i \in 0..b.ranges] ==
          IF i = 0 THEN pos
          ELSE IF Get(d, g[i - 1]).kind = "Range" THEN Get(d, g[i - 1]).ref
          ELSE g[i - 1]
    IN g[b.ranges]

RangesMatch(d, pos, b) ==
    \A i \in 0..(b.ranges - 1) :
          Get(d, LeafPos(d, pos, [b EXCEPT !.ranges = i])).kind = "Range"

SpecAccepts(d, pos, b, pr) ==
    LET q == LeafPos(d, pos, b)
        enum == Get(d, q).kind = "Enumeration"
    IN /\ RangesMatch(d, pos, b)
       /\ CASE b.leaf.kind = "Scalar" -> SpecScalarAccepts(d, q, b.leaf.id, pr)
            [] b.leaf.kind \in {"String", "Str"} ->
                   enum \/ SpecScalarAccepts(d, q, StrId, pr)
            [] b.leaf.kind \in {"EnumValue", "DerivedEnum"} -> enum

CheckedAccepted == SpecAccepts(desc, checked.pos, checked.bind, proto)
CheckedOnEnumeration ==
    Get(desc, LeafPos(desc, checked.pos, checked.bind)).kind = "Enumeration"

(* Soundness of check_scalar and of every ScalarArg::check_descriptor: a   *)
(* binding the client accepts is one the spec's algorithm accepts, under   *)
(* the connection's protocol version and through Scalar base chains and    *)
(* Range element types.                                                    *)
CheckSound ==
    checked # None /\ checked.ok => CheckedAccepted

(* Completeness away from enumerations: whenever the spec's algorithm      *)
(* accepts a binding at a descriptor that is not an Enumeration, the code  *)
(* accepts it too (no custom scalar or range element is refused).          *)
CheckCompleteOffEnumerations ==
    checked # None /\ CheckedAccepted /\ ~CheckedOnEnumeration => checked.ok

(* Spec 4.3: "Enumeration descriptors are accepted for string and enum     *)
(* bindings".  String::check_descriptor calls check_scalar only, unlike    *)
(* &str, and EnumValue::check_descriptor returns wrong_type in every case. *)
EnumerationAccepted ==
    checked # None /\ CheckedAccepted => checked.ok
====
