---------------------------- MODULE AttributeStore ----------------------------
(***************************************************************************)
(* The slot-compacting attribute store of the raw backend                 *)
(* (src/maro/backends/raw/attributestore.cpp).  A dense vector of         *)
(* attribute cells, a parallel vector of occupancy masks, a hash map from *)
(* the packed (node id, node index, attribute id, slot) key to a dense    *)
(* index, the high-water mark _last_index and the _is_dirty flag.         *)
(*                                                                         *)
(* The key is kept as the 4-tuple it packs (module KeyCodec checks the    *)
(* packing); cells hold model values; every method is one atomic step,    *)
(* as the store is used single-threaded.                                  *)
(***************************************************************************)
EXTENDS AttributeStoreOps

CONSTANTS
  NodeIds,        \* node type ids used as the 1st key component
  AttrIds,        \* attribute ids used as the 3rd key component
  MaxNodeNum,     \* node_num / node_index inputs range below this
  MaxSlotNum,     \* slot_num / slot inputs range below this
  Values,         \* values a caller writes into a cell
  SetupSizes,     \* size hints passed to setup()
  MaxLastIndex    \* model bound: add_nodes never takes _last_index above it

ASSUME Zero \notin Values

Keys == NodeIds \X (0 .. MaxNodeNum - 1) \X AttrIds \X (0 .. MaxSlotNum - 1)
Cells == Values \cup {Zero}

VARIABLES
  attributes,    \* vector<Attribute> _attributes: 0..capacity-1 -> Cells
  slot_masks,    \* vector<bool> _slot_masks: 0..capacity-1 -> BOOLEAN
  mapping,       \* unordered_map _mapping: a function on the mapped keys
  last_index,    \* _last_index
  is_dirty       \* _is_dirty

vars == <<attributes, slot_masks, mapping, last_index, is_dirty>>

(* The store as one record, so that a caller can chain several methods in *)
(* one step.  Every method below maps such a record to the next one.       *)
st == [attributes |-> attributes, slot_masks |-> slot_masks, mapping |-> mapping,
       last_index |-> last_index, is_dirty |-> is_dirty]

Becomes(s) ==
  /\ attributes' = s.attributes
  /\ slot_masks' = s.slot_masks
  /\ mapping' = s.mapping
  /\ last_index' = s.last_index
  /\ is_dirty' = s.is_dirty

-----------------------------------------------------------------------------
(* The store driven directly, with every argument the API accepts from    *)
(* the small input sets.  Callers call setup() only on an empty store:    *)
(* before the first add_nodes or after reset() (test line 345).            *)
Setup(size) == last_index = 0 /\ DOMAIN mapping = {} /\ Becomes(setup(st, size))

AddNodes(n, num, a, sn) ==
  /\ add_nodes(st, n, num, a, sn).last_index <= MaxLastIndex
  /\ Becomes(add_nodes(st, n, num, a, sn))

RemoveNode(n, ni, a, sn) == Becomes(remove_node(st, n, ni, a, sn))

RemoveAttrSlots(n, num, a, from, stop) == Becomes(remove_attr_slots(st, n, num, a, from, stop))

Arrange == is_dirty /\ Becomes(arrange(st))

CopyTo == Becomes(copy_to(st))

SetAttr(key, value) == key \in DOMAIN mapping /\ Becomes(set_attr(st, key, value))

Reset == Becomes(reset(st))

Init ==
  /\ attributes = EmptyStore.attributes
  /\ slot_masks = EmptyStore.slot_masks
  /\ mapping = EmptyStore.mapping
  /\ last_index = 0
  /\ is_dirty = FALSE

Next ==
  \/ \E size \in SetupSizes : Setup(size)
  \/ \E n \in NodeIds, num \in 1 .. MaxNodeNum, a \in AttrIds, sn \in 1 .. MaxSlotNum :
       AddNodes(n, num, a, sn)
  \/ \E n \in NodeIds, ni \in 0 .. MaxNodeNum - 1, a \in AttrIds, sn \in 1 .. MaxSlotNum :
       RemoveNode(n, ni, a, sn)
  \/ \E n \in NodeIds, num \in 1 .. MaxNodeNum, a \in AttrIds,
        from \in 0 .. MaxSlotNum - 1, stop \in 1 .. MaxSlotNum :
       from < stop /\ RemoveAttrSlots(n, num, a, from, stop)
  \/ Arrange
  \/ CopyTo
  \/ \E k \in Keys, v \in Values : SetAttr(k, v)
  \/ Reset

Spec == Init /\ [][Next]_vars

-----------------------------------------------------------------------------
TypeOK ==
  /\ attributes \in [0 .. capacity(st) - 1 -> Cells]
  /\ slot_masks \in [0 .. capacity(st) - 1 -> BOOLEAN]
  /\ DOMAIN mapping \subseteq Keys
  /\ mapping \in [DOMAIN mapping -> Nat]
  /\ last_index \in 0 .. MaxLastIndex
  /\ is_dirty \in BOOLEAN

(***************************************************************************)
(* Memory safety: every index the code dereferences is inside the         *)
(* vectors: operator() reads _attributes[mapping[k]], remove_node and     *)
(* remove_attr_slots write _slot_masks[mapping[k]], add_nodes writes the  *)
(* masks below the new mark and copy_to memcpys [0, _last_index).  Growth *)
(* is decided once per add_nodes batch, after the indices are handed out. *)
(***************************************************************************)
InBounds ==
  /\ last_index <= capacity(st)
  /\ \A k \in DOMAIN mapping : mapping[k] < capacity(st)

(* P1 of the spec: there are never more live keys than the high-water     *)
(* mark, across any mix of add_nodes, remove_node, remove_attr_slots,     *)
(* arrange and copy_to (size() is _mapping.size()).                        *)
SizeBelowMark == Cardinality(DOMAIN mapping) <= last_index

(* No occupied slot lies at or above the mark: update_last_index and the  *)
(* inner loop of arrange never trim the mark below an occupied cell, so   *)
(* the indices add_nodes hands out past the mark are always free.          *)
MarkCoversOccupied == \A i \in DOMAIN slot_masks : slot_masks[i] => i < last_index

(* P5 of the spec: copy_to exports exactly size() cells (the caller sizes *)
(* its buffer with size()) and every exported key indexes into them.       *)
ExportComplete ==
  [][CopyTo => /\ last_index' = Cardinality(DOMAIN mapping')
                /\ \A k \in DOMAIN mapping' : mapping'[k] < last_index']_vars

(* P6 of the spec: the allocated capacity never decreases; reset() keeps  *)
(* it so that a store reused per episode does not reallocate.              *)
CapacityNeverShrinks == [][capacity(st)' >= capacity(st)]_vars

(* test_attributestore.cpp:257-277: "new added will be 0 by default": a  *)
(* key add_nodes maps reads the value of a fresh Attribute, even when its *)
(* index held a removed key's value before.                                *)
FreshSlotsZero ==
  [][\A k \in DOMAIN mapping' \ DOMAIN mapping : attributes'[mapping'[k]] = Zero]_vars

(* The values held in occupied slots, counted with their multiplicity.    *)
OccupiedCells(s) ==
  LET occ == {i \in DOMAIN s.slot_masks : s.slot_masks[i]}
  IN [v \in {s.attributes[i] : i \in occ} |->
        Cardinality({i \in occ : s.attributes[i] = v})]

(* arrange(), alone or inside copy_to, only moves data: the cells of the  *)
(* occupied slots after it are those before it, each as often.  This      *)
(* relies on lines 51-52 setting the hole's mask before clearing the      *)
(* mask of _last_index - 1 (they are one slot when the hole is the last)  *)
(* and on remove and the inner loop at line 55 having trimmed the mark to *)
(* an occupied slot, so that line 49 never copies a dead cell.            *)
CompactionKeepsCells ==
  [][Arrange \/ CopyTo => OccupiedCells(st') = OccupiedCells(st)]_vars

(* The store implements AttributeStoreAbstract: the value a caller reads  *)
(* through operator() for each live key changes only as the abstract      *)
(* operations allow, across compaction by arrange() and copy_to.           *)
Abstract == INSTANCE AttributeStoreAbstract
              WITH store <- Read(st)
AbstractSpec == Abstract!Spec

=============================================================================
