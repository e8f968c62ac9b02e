------------------------- MODULE MC_DescriptorCheck -------------------------
(* DescriptorCheck instantiated for TLC: two scalar UUIDs (std::str and    *)
(* one other, standing for std::int64), blocks of up to three descriptors  *)
(* and Range<T> nested at most once.                                       *)
EXTENDS DescriptorCheck

CONSTANTS strId, intId

MCIds == {strId, intId}

(* Every leaf binding. *)
MCLeaves == LeafBindings

(* The string binding alone, and the enum binding alone. *)
MCStringLeaves == {[kind |-> "String", id |-> strId]}
MCEnumValueLeaves == {[kind |-> "EnumValue", id |-> strId]}

(* The owned bindings an enum-typed parameter could take: String and      *)
(* EnumValue.                                                             *)
MCOwnedEnumLeaves == MCStringLeaves \cup MCEnumValueLeaves
====
