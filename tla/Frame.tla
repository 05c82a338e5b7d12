-------------------------------- MODULE Frame --------------------------------
(***************************************************************************)
(* The raw backend's Frame (src/maro/backends/raw/frame.h): _nodes, one   *)
(* Node per node type, each owning an AttributeStore, and the _is_setup   *)
(* flag that splits the declaring phase (add_node, add_attr) from the     *)
(* runtime phase (append_node, set_value, the list operations, reset).    *)
(* The header only declares the methods; their bodies follow the Entity   *)
(* Table and Frame sections of the spec (4.3, 4.4): every Node method is  *)
(* one step composed of the AttributeStore calls it makes.                 *)
(***************************************************************************)
EXTENDS Integers, FiniteSets, Sequences

CONSTANTS
  Zero,           \* the value of a value-initialised Attribute
  BITS_PER_MASK,  \* divisor of AttributeStore::setup's size hint
  Values,         \* values a caller writes
  MaxNodeTypes,   \* model bound: add_node is called at most this often
  MaxAttrs,       \* model bound: attributes per node type
  MaxNodeNum,     \* model bound: instances per node type
  MaxSlotNum,     \* model bound: slots of an attribute, list length
  NodeNumbers,    \* node_number arguments of add_node / append_node
  SlotNumbers,    \* slot_number arguments of add_attr
  MaxLastIndex    \* model bound: no call takes a store's mark above it

ASSUME Zero \notin Values

(* Each Node's AttributeStore, its methods as functions on a store record. *)
Store == INSTANCE AttributeStoreOps

Keys == (0 .. MaxNodeTypes - 1) \X (0 .. MaxNodeNum - 1)
          \X (0 .. MaxAttrs - 1) \X (0 .. MaxSlotNum - 1)
Cells == Values \cup {Zero}

VARIABLES
  nodes,     \* vector<Node> _nodes, indexed by NODE_TYPE (from 1 here)
  is_setup   \* bool _is_setup

vars == <<nodes, is_setup>>

(* A Node: its declared and current instance count, its attribute schema  *)
(* (declared and current slot_number, is_list) and its store.             *)
Types == 0 .. Len(nodes) - 1
Node(t) == nodes[t + 1]
AttrIdsOf(t) == 0 .. Len(Node(t).attrs) - 1
Attr(t, a) == Node(t).attrs[a + 1]

(* The keys a node maps with num instances and the slot counts in field f. *)
Footprint(t, num, attrs, f) ==
  UNION {{Store!attr_index_key(t, i, a, s) : i \in 0 .. num - 1, s \in 0 .. attrs[a + 1][f] - 1} :
           a \in 0 .. Len(attrs) - 1}

(* add_nodes over instances [0, num) for attributes 0..n-1 in order.       *)
RECURSIVE AddAttrSlots(_, _, _, _, _)
AddAttrSlots(s, t, num, attrs, n) ==
  IF n = 0 THEN s
  ELSE Store!add_nodes(AddAttrSlots(s, t, num, attrs, n - 1), t, num, n - 1, attrs[n].slot_number)

SetNode(t, n) == nodes' = [nodes EXCEPT ![t + 1] = n]

InBound(s) == s.last_index <= MaxLastIndex

(* ensure_setup / ensure_node_type: runtime calls throw FrameNotSetupError *)
(* before setup and FrameBadNodeType for an unknown type.                  *)
Runtime(t) == is_setup /\ t \in Types

-----------------------------------------------------------------------------
(* add_node: a new node type with node_number initial instances; throws    *)
(* FrameAlreadySetupError after setup.                                     *)
add_node(node_number) ==
  /\ ~is_setup
  /\ Len(nodes) < MaxNodeTypes
  /\ nodes' = Append(nodes, [defined_number |-> node_number, node_number |-> node_number,
                             attrs |-> <<>>, store |-> Store!EmptyStore])
  /\ UNCHANGED is_setup

(* add_attr: the next attribute id of the node type.                       *)
add_attr(t, slot_number, is_list) ==
  /\ ~is_setup
  /\ t \in Types
  /\ Len(Node(t).attrs) < MaxAttrs
  /\ SetNode(t, [Node(t) EXCEPT !.attrs = Append(@, [slot_number |-> slot_number,
                                   defined_slots |-> slot_number, is_list |-> is_list])])
  /\ UNCHANGED is_setup

(* setup: once only; each store sized to the node's footprint, then the    *)
(* initial add_nodes of every attribute.                                   *)
setup ==
  /\ ~is_setup
  /\ is_setup' = TRUE
  /\ nodes' = [i \in DOMAIN nodes |->
                 LET n == nodes[i]
                     sized == Store!setup(n.store,
                                Cardinality(Footprint(i - 1, n.node_number, n.attrs, "slot_number")))
                 IN [n EXCEPT !.store = AddAttrSlots(sized, i - 1, n.node_number, n.attrs, Len(n.attrs))]]

(* append_node: grow the instance count, then add_nodes of every attribute *)
(* over the whole new instance range (existing keys are skipped).          *)
append_node(t, node_number) ==
  LET n == Node(t)
      num == n.node_number + node_number
      s == AddAttrSlots(n.store, t, num, n.attrs, Len(n.attrs))
  IN /\ Runtime(t)
     /\ num <= MaxNodeNum /\ InBound(s)
     /\ SetNode(t, [n EXCEPT !.node_number = num, !.store = s])
     /\ UNCHANGED is_setup

(* set_value: resolve the key through operator() and assign; an unmapped   *)
(* key throws BadAttributeIndexing.                                        *)
set_value(t, node_index, attr_id, slot_index, value) ==
  /\ Runtime(t)
  /\ Store!attr_index_key(t, node_index, attr_id, slot_index) \in DOMAIN Node(t).store.mapping
  /\ SetNode(t, [Node(t) EXCEPT !.store =
                   Store!set_attr(@, Store!attr_index_key(t, node_index, attr_id, slot_index), value)])
  /\ UNCHANGED is_setup

(* The list operations apply to is_list attributes of a live instance.     *)
ListOp(t, node_index, attr_id) ==
  /\ Runtime(t)
  /\ node_index < Node(t).node_number
  /\ attr_id \in AttrIdsOf(t) /\ Attr(t, attr_id).is_list

(* A node after its list attribute has new_size slots in store s.          *)
WithList(t, attr_id, new_size, s) ==
  [Node(t) EXCEPT !.attrs[attr_id + 1].slot_number = new_size, !.store = s]

(* append_to_list: one more slot for every instance, then write the value  *)
(* into the new slot of node_index.                                        *)
append_to_list(t, node_index, attr_id, value) ==
  LET len == Attr(t, attr_id).slot_number
      s == Store!add_nodes(Node(t).store, t, Node(t).node_number, attr_id, len + 1)
  IN /\ ListOp(t, node_index, attr_id)
     /\ len + 1 <= MaxSlotNum /\ InBound(s)
     /\ SetNode(t, WithList(t, attr_id, len + 1,
                            Store!set_attr(s, Store!attr_index_key(t, node_index, attr_id, len), value)))
     /\ UNCHANGED is_setup

(* clear_list: remove_attr_slots over [0, slot_number).                    *)
clear_list(t, node_index, attr_id) ==
  /\ ListOp(t, node_index, attr_id)
  /\ SetNode(t, WithList(t, attr_id, 0,
       Store!remove_attr_slots(Node(t).store, t, Node(t).node_number, attr_id, 0,
                         Attr(t, attr_id).slot_number)))
  /\ UNCHANGED is_setup

(* resize_list: add_nodes up to new_size, or remove_attr_slots down to it. *)
resize_list(t, node_index, attr_id, new_size) ==
  LET len == Attr(t, attr_id).slot_number
      num == Node(t).node_number
      s == IF new_size > len
           THEN Store!add_nodes(Node(t).store, t, num, attr_id, new_size)
           ELSE Store!remove_attr_slots(Node(t).store, t, num, attr_id, new_size, len)
  IN /\ ListOp(t, node_index, attr_id)
     /\ InBound(s)
     /\ SetNode(t, WithList(t, attr_id, new_size, s))
     /\ UNCHANGED is_setup

(* reset: declared instance count and slot numbers back, store reset() and *)
(* the initial add_nodes again; capacity is kept.                          *)
ResetNode(t, n) ==
  LET attrs == [a \in DOMAIN n.attrs |-> [n.attrs[a] EXCEPT !.slot_number = n.attrs[a].defined_slots]]
  IN [n EXCEPT !.node_number = n.defined_number, !.attrs = attrs,
               !.store = AddAttrSlots(Store!reset(n.store), t, n.defined_number,
                                      attrs, Len(attrs))]

reset ==
  /\ is_setup
  /\ nodes' = [i \in DOMAIN nodes |-> ResetNode(i - 1, nodes[i])]
  /\ UNCHANGED is_setup

-----------------------------------------------------------------------------
Init ==
  /\ nodes = <<>>
  /\ is_setup = FALSE

Next ==
  \/ \E num \in NodeNumbers : add_node(num)
  \/ \E t \in 0 .. MaxNodeTypes - 1, sn \in SlotNumbers, l \in BOOLEAN : add_attr(t, sn, l)
  \/ setup
  \/ \E t \in 0 .. MaxNodeTypes - 1, num \in NodeNumbers : append_node(t, num)
  \/ \E k \in Keys, v \in Values : set_value(k[1], k[2], k[3], k[4], v)
  \/ \E t \in 0 .. MaxNodeTypes - 1, i \in 0 .. MaxNodeNum - 1, a \in 0 .. MaxAttrs - 1 :
       \/ \E v \in Values : append_to_list(t, i, a, v)
       \/ clear_list(t, i, a)
       \/ \E n \in 0 .. MaxSlotNum : resize_list(t, i, a, n)
  \/ reset

Spec == Init /\ [][Next]_vars

-----------------------------------------------------------------------------
TypeOK ==
  /\ is_setup \in BOOLEAN
  /\ Len(nodes) <= MaxNodeTypes
  /\ \A t \in Types :
       /\ Node(t).defined_number <= Node(t).node_number
       /\ Node(t).node_number \in 1 .. MaxNodeNum
       /\ Len(Node(t).attrs) <= MaxAttrs
       /\ \A a \in AttrIdsOf(t) : Attr(t, a).slot_number \in 0 .. MaxSlotNum
       /\ DOMAIN Node(t).store.mapping \subseteq Keys
       /\ Node(t).store.attributes \in [0 .. Store!capacity(Node(t).store) - 1 -> Cells]

(* The value get_value reads for each live key of every node.              *)
LiveValues == [k \in UNION {DOMAIN Node(t).store.mapping : t \in Types} |->
                 Store!Read(Node(k[1]).store)[k]]

(***************************************************************************)
(* The Frame implements FrameAbstract: through its public operations a    *)
(* write changes exactly one live value and no append_node, list append,  *)
(* clear or resize changes the value of a key that stays live, although   *)
(* the store leaves holes that later add_nodes calls never backfill.       *)
(***************************************************************************)
Abstract == INSTANCE FrameAbstract
  WITH live <- LiveValues,
       declared <- UNION {Footprint(t, Node(t).defined_number, Node(t).attrs, "defined_slots") : t \in Types},
       running <- is_setup
AbstractSpec == Abstract!Spec

=============================================================================
