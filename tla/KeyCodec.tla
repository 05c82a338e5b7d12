------------------------------- MODULE KeyCodec -------------------------------
(***************************************************************************)
(* attr_index_key (attributestore.cpp): the four key components are       *)
(* OR-ed into one unsigned long, 16 bits each.  The widths are constants  *)
(* so that TLC can check the packing at a scaled-down width: FieldBits    *)
(* stands for 16 and WordBits for the 64 bits of ULONG.                   *)
(***************************************************************************)
EXTENDS Integers, Bitwise

CONSTANTS FieldBits, WordBits

ASSUME FieldBits \in Nat \ {0} /\ WordBits = 4 * FieldBits

FieldValues == 0 .. 2^FieldBits - 1

(* x << n in a ULONG: bits shifted past the word are lost.                 *)
shiftL(x, n) == (x * 2^n) % 2^WordBits

(* Variant that shifts node_index by one field instead of two, used to    *)
(* check that PackInjective catches it.                                    *)
attr_index_key_short_shift(node_id, node_index, attr_id, slot_index) ==
  slot_index | shiftL(attr_id, FieldBits) | shiftL(node_index, FieldBits)
             | shiftL(node_id, 3 * FieldBits)

attr_index_key(node_id, node_index, attr_id, slot_index) ==
  slot_index | shiftL(attr_id, FieldBits) | shiftL(node_index, 2 * FieldBits)
             | shiftL(node_id, 3 * FieldBits)

(* The reference decoding: field i of the key, counted from the low end.  *)
Field(key, i) == (key \div 2^(i * FieldBits)) % 2^FieldBits

VARIABLE comp   \* the <<node_id, node_index, attr_id, slot_index>> being packed

Key(t) == attr_index_key(t[1], t[2], t[3], t[4])

Init == comp \in FieldValues \X FieldValues \X FieldValues \X FieldValues

Next == comp' \in FieldValues \X FieldValues \X FieldValues \X FieldValues

Spec == Init /\ [][Next]_comp

(* Components that fit their 16 bits never alias: the packed key decodes  *)
(* back to each component, so no other in-range tuple packs to the same   *)
(* key and a lookup in _mapping finds exactly the slot it was given.       *)
PackInjective ==
  <<Field(Key(comp), 3), Field(Key(comp), 2), Field(Key(comp), 1), Field(Key(comp), 0)>> = comp

=============================================================================
