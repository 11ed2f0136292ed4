---------------------------- MODULE MC_TufClient ----------------------------
(* The client composition on the small instance of MC_Tuf: two keys,       *)
(* three releases, a clock over 0..2.                                       *)
EXTENDS MC_Tuf, TufClient
=============================================================================
