----------------------------- MODULE StoreExport -----------------------------
(***************************************************************************)
(* A caller that exports the store through copy_to into one destination  *)
(* map it keeps (attributestore.cpp:168-182), as a snapshot history that  *)
(* reuses its buffers would.  The exported cells are left out: no         *)
(* property here reads them (ExportComplete in AttributeStore is about    *)
(* the buffer).                                                            *)
(***************************************************************************)
EXTENDS AttributeStore

VARIABLE dest_map   \* the caller's unordered_map<ULONG, size_t>

exportVars == <<attributes, slot_masks, mapping, last_index, is_dirty, dest_map>>

(* The loop of copy_to: map[iter.first] = iter.second for every entry of  *)
(* _mapping; entries already in map are overwritten, none are erased.     *)
CopyMapping(map, s) ==
  [k \in DOMAIN map \cup DOMAIN s.mapping |->
     IF k \in DOMAIN s.mapping THEN s.mapping[k] ELSE map[k]]

(* copy_to(p, map): arrange, then the copy of the mapping into map.        *)
Export == CopyTo /\ dest_map' = CopyMapping(dest_map, st')

ExportInit == Init /\ dest_map = [k \in {} |-> 0]

ExportNext ==
  \/ Next /\ UNCHANGED dest_map
  \/ Export

ExportSpec == ExportInit /\ [][ExportNext]_exportVars

(* P5 of the spec, for the map: after copy_to the caller's key map holds  *)
(* exactly the live keys (its image is [0, size())), so a removed key is  *)
(* not found in the snapshot.                                              *)
ExportedKeysLive == [][Export => DOMAIN dest_map' = DOMAIN mapping']_exportVars

=============================================================================
