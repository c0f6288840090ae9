------------------------------- MODULE MCLane -------------------------------
(* Bounds for Lane: two urgent callers and three ordinary ones, which call *)
(* as often as they like.                                                  *)
EXTENDS Lane, TLC

CONSTANTS u1, u2, o1, o2, o3

MCConv == {u1, u2, o1, o2, o3}
MCUrgent == {u1, u2}
=============================================================================
