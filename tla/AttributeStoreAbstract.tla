------------------------ MODULE AttributeStoreAbstract ------------------------
(***************************************************************************)
(* What the attribute store promises its callers (spec sections 4.2 and   *)
(* 8): a partial function from live keys to values.  Adding a batch maps  *)
(* its unmapped keys and leaves every mapped key's value alone (a new     *)
(* key's value is unspecified, the cells are not cleared); removing a     *)
(* batch unmaps it; a write changes exactly one live key; compaction and  *)
(* export change nothing a caller can observe; reset unmaps everything.   *)
(***************************************************************************)
EXTENDS FiniteSets, Functions

CONSTANTS Keys, Cells, Values

VARIABLE store   \* live key -> value

TypeOK == DOMAIN store \subseteq Keys /\ store \in [DOMAIN store -> Cells]

Init == store = [k \in {} |-> CHOOSE c \in Cells : TRUE]

AddSlots(batch) ==
  store' \in {f \in [DOMAIN store \cup batch -> Cells] :
                \A k \in DOMAIN store : f[k] = store[k]}

RemoveSlots(batch) == store' = Restrict(store, DOMAIN store \ batch)

Write(key, value) ==
  /\ key \in DOMAIN store
  /\ store' = [store EXCEPT ![key] = value]

Reset == store' = [k \in {} |-> CHOOSE c \in Cells : TRUE]

Next ==
  \/ \E batch \in SUBSET Keys : AddSlots(batch) \/ RemoveSlots(batch)
  \/ \E k \in Keys, v \in Values : Write(k, v)
  \/ Reset

Spec == Init /\ [][Next]_store

=============================================================================
