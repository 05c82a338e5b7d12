---------------------------- MODULE FrameAbstract ----------------------------
(***************************************************************************)
(* What a Frame promises its caller (spec sections 4.3 and 4.4): after    *)
(* the declaring phase, a map from live (node type, instance, attribute,  *)
(* slot) keys to values, in which each call either adds keys and keeps    *)
(* every value already there, removes keys and keeps the rest, writes     *)
(* exactly one live key, or returns to the declared footprint.  The value *)
(* a new key starts with is left open: the store does not clear cells.     *)
(***************************************************************************)
EXTENDS FiniteSets

CONSTANTS
  Keys,    \* every key the frame may map
  Cells    \* every value a cell may hold

VARIABLES
  live,      \* the value read for each live key
  declared,  \* the keys of the declared footprint
  running    \* the frame has been set up

vars == <<live, declared, running>>

Init ==
  /\ live = [k \in {} |-> CHOOSE c \in Cells : TRUE]
  /\ declared = {}
  /\ running = FALSE

(* Values of the keys that stay live are kept.                            *)
Keeps(ks) == \A k \in ks : live'[k] = live[k]

IsMap(dom) == DOMAIN live' = dom /\ \A k \in dom : live'[k] \in Cells

Declare ==
  /\ ~running
  /\ declared \subseteq declared' /\ declared' \subseteq Keys
  /\ UNCHANGED <<live, running>>

Start ==
  /\ ~running
  /\ running' = TRUE
  /\ IsMap(declared)
  /\ UNCHANGED declared

Grow ==
  /\ running
  /\ DOMAIN live \subseteq DOMAIN live' /\ IsMap(DOMAIN live') /\ DOMAIN live' \subseteq Keys
  /\ Keeps(DOMAIN live)
  /\ UNCHANGED <<declared, running>>

Shrink ==
  /\ running
  /\ DOMAIN live' \subseteq DOMAIN live
  /\ Keeps(DOMAIN live')
  /\ UNCHANGED <<declared, running>>

Write(k, v) ==
  /\ running
  /\ k \in DOMAIN live
  /\ live' = [live EXCEPT ![k] = v]
  /\ UNCHANGED <<declared, running>>

Reset ==
  /\ running
  /\ IsMap(declared)
  /\ UNCHANGED <<declared, running>>

Next ==
  \/ Declare \/ Start \/ Grow \/ Shrink \/ Reset
  \/ \E k \in Keys, v \in Cells : Write(k, v)

Spec == Init /\ [][Next]_vars

=============================================================================
