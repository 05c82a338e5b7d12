-------------------------- MODULE AttributeStoreOps --------------------------
(***************************************************************************)
(* The methods of the raw backend's AttributeStore                        *)
(* (src/maro/backends/raw/attributestore.cpp) as functions from one store *)
(* record [attributes, slot_masks, mapping, last_index, is_dirty] to the  *)
(* next.  attributes and slot_masks are functions on 0..capacity-1 (the   *)
(* two vectors), mapping a function on the mapped keys (the hash map),    *)
(* last_index the high-water mark and is_dirty the compaction flag.       *)
(* AttributeStore drives one store with them; Frame composes several      *)
(* calls into the step of one Node method.                                *)
(***************************************************************************)
EXTENDS Integers, FiniteSets, Functions

CONSTANTS
  Zero,           \* the value of a value-initialised Attribute
  BITS_PER_MASK   \* divisor of the size hint in setup()

ASSUME BITS_PER_MASK \in Nat \ {0}

(* The packed key: injective on in-range components (see KeyCodec).       *)
attr_index_key(node_id, node_index, attr_id, slot_index) ==
  <<node_id, node_index, attr_id, slot_index>>

(* A default-constructed store.                                            *)
EmptyStore ==
  [attributes |-> [i \in {} |-> Zero], slot_masks |-> [i \in {} |-> FALSE],
   mapping |-> [k \in {} |-> 0], last_index |-> 0, is_dirty |-> FALSE]

(* Variant of Resize that leaves the new elements unset, used to check    *)
(* that TypeOK catches it.                                                 *)
Resize_uninit(f, n, default) == [i \in 0 .. n - 1 |-> IF i \in DOMAIN f THEN f[i] ELSE 0]

(* std::vector::resize: keeps the prefix, value-initialises the rest.      *)
Resize(f, n, default) == [i \in 0 .. n - 1 |-> IF i \in DOMAIN f THEN f[i] ELSE default]

capacity(s) == Cardinality(DOMAIN s.attributes)

(* The key batch of nodes [0, node_num) x slots [from, stop).              *)
SlotKeys(node_id, node_num, attr_id, from, stop) ==
  {attr_index_key(node_id, ni, attr_id, si) : ni \in 0 .. node_num - 1, si \in from .. stop - 1}

(* update_last_index: walk the mark down over unoccupied slots, never      *)
(* below 1.                                                                *)
RECURSIVE update_last_index(_, _)
update_last_index(masks, li) ==
  IF li > 1 /\ ~masks[li - 1] THEN update_last_index(masks, li - 1) ELSE li

(* Variant of FindLast without the break on an occupied slot, used to    *)
(* check that MarkCoversOccupied catches it.                               *)
RECURSIVE FindLast_no_break(_, _)
FindLast_no_break(masks, li) == IF li > 1 THEN FindLast_no_break(masks, li - 1) ELSE li

(* The inner loop of arrange(): decrement first, stop on an occupied slot. *)
RECURSIVE FindLast(_, _)
FindLast(masks, li) ==
  IF li > 1
  THEN IF masks[li - 2] THEN li - 1 ELSE FindLast(masks, li - 1)
  ELSE li

(* Variant of FillHole that clears the mask of _last_index - 1 before     *)
(* setting the hole's (lines 51 and 52 swapped), used to check that        *)
(* CompactionKeepsCells catches it.                                        *)
FillHole_swapped(i, s) ==
  LET masks == [s.slot_masks EXCEPT ![s.last_index - 1] = FALSE, ![i] = TRUE]
  IN [s EXCEPT !.attributes[i] = s.attributes[s.last_index - 1],
               !.slot_masks = masks,
               !.last_index = FindLast(masks, s.last_index)]

(* One hole at i filled from _last_index - 1; the mapping is left alone.   *)
FillHole(i, s) ==
  LET masks == [s.slot_masks EXCEPT ![i] = TRUE, ![s.last_index - 1] = FALSE]
  IN [s EXCEPT !.attributes[i] = s.attributes[s.last_index - 1],
               !.slot_masks = masks,
               !.last_index = FindLast(masks, s.last_index)]

(* The for loop of arrange(), its bound re-read on every iteration.        *)
RECURSIVE ArrangeFrom(_, _)
ArrangeFrom(i, s) ==
  IF i >= s.last_index THEN s
  ELSE ArrangeFrom(i + 1, IF s.slot_masks[i] THEN s ELSE FillHole(i, s))

(* Variant of RemoveKeys that clears the masks but forgets               *)
(* _mapping.erase, used to check that SizeBelowMark catches it.            *)
RemoveKeys_keep_map(s, batch) ==
  LET gone  == batch \cap DOMAIN s.mapping
      masks == [i \in DOMAIN s.slot_masks |->
                  IF i \in {s.mapping[k] : k \in gone} THEN FALSE ELSE s.slot_masks[i]]
  IN [s EXCEPT !.slot_masks = masks, !.is_dirty = (@ \/ gone # {}),
               !.last_index = update_last_index(masks, @)]

(* Erase the mapped keys of a batch and clear their masks (the loops of    *)
(* remove_node and remove_attr_slots), then update_last_index().           *)
RemoveKeys(s, batch) ==
  LET gone  == batch \cap DOMAIN s.mapping
      freed == {s.mapping[k] : k \in gone}
      masks == [i \in DOMAIN s.slot_masks |-> IF i \in freed THEN FALSE ELSE s.slot_masks[i]]
  IN [s EXCEPT !.slot_masks = masks,
               !.mapping = Restrict(@, DOMAIN @ \ gone),
               !.is_dirty = (@ \/ gone # {}),
               !.last_index = update_last_index(masks, @)]

-----------------------------------------------------------------------------
(* setup(size): resize both vectors to size / BITS_PER_MASK.               *)
setup(s, size) ==
  [s EXCEPT !.attributes = Resize(@, size \div BITS_PER_MASK, Zero),
            !.slot_masks = Resize(@, size \div BITS_PER_MASK, FALSE)]

(* Variant of grow_size with an off-by-one in the growth test, used to   *)
(* check that InBounds catches it.                                         *)
grow_size_off_by_one(s, last) == IF last > capacity(s) + 1 THEN last * 2 ELSE capacity(s)

(* The capacity after add_nodes has moved the mark to last: twice the mark *)
(* when it passed the vector's size.                                       *)
grow_size(s, last) == IF last > capacity(s) THEN last * 2 ELSE capacity(s)

(* Variant of add_nodes that numbers new keys from size() instead of the  *)
(* mark, used to check that Frame's refinement catches it.                 *)
add_nodes_from_size(s, node_id, node_num, attr_id, slot_num) ==
  LET new  == SlotKeys(node_id, node_num, attr_id, 0, slot_num) \ DOMAIN s.mapping
      base == Cardinality(DOMAIN s.mapping)
      Rank(k) == Cardinality({j \in new : j[2] < k[2] \/ (j[2] = k[2] /\ j[4] < k[4])})
      last == base + Cardinality(new)
      cap  == grow_size(s, last)
  IN [s EXCEPT
        !.mapping = [k \in DOMAIN @ \cup new |-> IF k \in new THEN base + Rank(k) ELSE @[k]],
        !.last_index = last,
        !.attributes = Resize(@, cap, Zero),
        !.slot_masks = [i \in 0 .. cap - 1 |->
                          IF i \in base .. last - 1 THEN TRUE ELSE Resize(s.slot_masks, cap, FALSE)[i]]]

(* add_nodes: map every unmapped key of the batch, in loop order, to the   *)
(* next index; grow both vectors to twice the mark if it passed capacity; *)
(* then mark the new indices occupied.                                     *)
add_nodes(s, node_id, node_num, attr_id, slot_num) ==
  LET new  == SlotKeys(node_id, node_num, attr_id, 0, slot_num) \ DOMAIN s.mapping
      Rank(k) == Cardinality({j \in new : j[2] < k[2] \/ (j[2] = k[2] /\ j[4] < k[4])})
      last == s.last_index + Cardinality(new)
      cap  == grow_size(s, last)
      grown == Resize(s.slot_masks, cap, FALSE)
  IN [s EXCEPT
        !.mapping = [k \in DOMAIN @ \cup new |-> IF k \in new THEN s.last_index + Rank(k) ELSE @[k]],
        !.last_index = last,
        !.attributes = Resize(@, cap, Zero),
        !.slot_masks = [i \in 0 .. cap - 1 |->
                          IF i \in s.last_index .. last - 1 THEN TRUE ELSE grown[i]]]

(* remove_node: the slots [0, slot_num) of one node instance.              *)
remove_node(s, node_id, node_index, attr_id, slot_num) ==
  RemoveKeys(s, {attr_index_key(node_id, node_index, attr_id, si) : si \in 0 .. slot_num - 1})

(* remove_attr_slots: slots [from, stop) of nodes [0, node_num).           *)
remove_attr_slots(s, node_id, node_num, attr_id, from, stop) ==
  RemoveKeys(s, SlotKeys(node_id, node_num, attr_id, from, stop))

(* arrange(): fill holes from the end when dirty; clears the flag.         *)
arrange(s) == IF s.is_dirty THEN [ArrangeFrom(0, s) EXCEPT !.is_dirty = FALSE] ELSE s

(* copy_to: arrange(), then memcpy the first _last_index cells into the   *)
(* caller's buffer and copy every (key, index) pair of the mapping.  The   *)
(* store's side of it is the arrange; the export is read off the result:   *)
(* Exported(s) is the buffer and s.mapping the copied map.                 *)
copy_to(s) == arrange(s)

Exported(s) == [i \in 0 .. s.last_index - 1 |-> s.attributes[i]]

(* operator(): the key's cell, assigned through the returned reference     *)
(* (the lookup throws BadAttributeIndexing for an unmapped key).           *)
set_attr(s, key, value) == [s EXCEPT !.attributes[s.mapping[key]] = value]

(* The value operator() reads for each mapped key.                         *)
Read(s) == [k \in DOMAIN s.mapping |-> s.attributes[s.mapping[k]]]

(* reset(): empty map, masks and mark; the allocated cells are kept.       *)
reset(s) ==
  [s EXCEPT !.mapping = [k \in {} |-> 0], !.slot_masks = [i \in DOMAIN @ |-> FALSE],
            !.last_index = 0, !.is_dirty = FALSE]

=============================================================================
