-------------------------------- MODULE Specs --------------------------------
(***************************************************************************)
(* What a node says of its network (system_properties), JSON values of     *)
(* many shapes, and what the daemon takes from it: the address prefix, the *)
(* decimals and the unit of the native token (chain/utils.rs, rpc.rs).     *)
(* A value is [type |-> "absent"], a "string" or a "number" with its       *)
(* value, an "array" with its items, or of another type; numbers that are  *)
(* no integers, or negative, are of another type.                          *)
(***************************************************************************)
EXTENDS Naturals, Sequences

CONSTANT None   \* no value: in Rust's type, None or an error

MaxU8 == 255
MaxU16 == 65535

Fits(json, max) == json.type = "number" /\ json.value <= max

(* An array counts for its only element.                                   *)
Single(json) ==
    IF json.type = "array" /\ Len(json.items) = 1 THEN Head(json.items) ELSE json

decimals(properties) ==
    LET json == Single(properties.tokenDecimals)
    IN  IF Fits(json, MaxU8) THEN json.value ELSE None

unit(properties) ==
    LET json == Single(properties.tokenSymbol)
    IN  IF json.type = "string" THEN json.value ELSE None

(* SS58Prefix among the System pallet's constants, an integer of any width.*)
optional_prefix_from_meta(constant) ==
    IF Fits(constant, MaxU16) THEN constant.value ELSE None

(* Mutant: what the node says is not compared with the metadata.           *)
base58prefix_unchecked(properties, from_meta) ==
    IF properties.ss58Format.type = "absent" THEN from_meta
    ELSE IF Fits(properties.ss58Format, MaxU16)
         THEN properties.ss58Format.value ELSE None

(* Node and metadata must agree, where both say something.                 *)
base58prefix(properties, from_meta) ==
    IF properties.ss58Format.type = "absent" THEN from_meta
    ELSE IF /\ Fits(properties.ss58Format, MaxU16)
            /\ from_meta \in {None, properties.ss58Format.value}
         THEN properties.ss58Format.value ELSE None

(* One of them missing is an error.                                        *)
system_properties_to_short_specs(properties, constant) ==
    LET short == [base58prefix |-> base58prefix(properties,
                                     optional_prefix_from_meta(constant)),
                  decimals     |-> decimals(properties),
                  unit         |-> unit(properties)]
    IN  IF \E field \in DOMAIN short : short[field] = None THEN None ELSE short

specs(answer, constant) ==
    IF answer.type = "object"
    THEN system_properties_to_short_specs(answer.value, constant) ELSE None
=============================================================================
