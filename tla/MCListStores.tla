---------------------------- MODULE MCListStores ----------------------------
(* Bounds for ListStores in the runs that find a claim broken: two         *)
(* devices, the Key Chain alone, one key of two certificates.              *)
EXTENDS ListStores, TLC

CONSTANTS left, right

MCKey == {1}
MCVals == {1, 2}
MCSides == {left, right}
MCChain == {"keychain"}
=============================================================================
