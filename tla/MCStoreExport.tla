---------------------------- MODULE MCStoreExport ----------------------------
(* Constants for checking StoreExport; the store's as in MCAttributeStore. *)
EXTENDS StoreExport

CONSTANTS v1

MCNodeIds == {0}
MCAttrIds == {0}
MCValues == {v1}
MCSetupSizes == {0, 2}
=============================================================================
