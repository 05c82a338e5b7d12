--------------------------- MODULE MCAttributeStore ---------------------------
(* Instantiation of AttributeStore for TLC: one node type, one attribute,  *)
(* up to two node instances of two slots (four keys), one written value,  *)
(* setup hints 0 and 2, and a mark of at most 4 (capacity up to 8).        *)
EXTENDS AttributeStore

CONSTANTS v1

MCNodeIds == {0}
MCAttrIds == {0}
MCValues == {v1}
MCSetupSizes == {0, 2}

(* The store driven by a caller that never calls reset(), whose body is   *)
(* not under src/: every cell reuse then comes from add_nodes handing out *)
(* an index that remove_node, remove_attr_slots or arrange freed.          *)
NoResetSpec == Init /\ [][Next /\ ~Reset]_vars
=============================================================================
