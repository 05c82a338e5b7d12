------------------------------- MODULE MCFrame -------------------------------
(* Model values and small input sets for checking Frame.                  *)
EXTENDS Frame

CONSTANTS v1

MCValues == {v1}
MCNodeNumbers == {1}
MCSlotNumbers == {1}
=============================================================================
