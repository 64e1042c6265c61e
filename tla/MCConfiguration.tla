--------------------------- MODULE MCConfiguration ---------------------------
(***************************************************************************)
(* Three fields with two values; two groups and two devices with at most   *)
(* two changes; one coroutine, next to the poll, that changes them.        *)
(***************************************************************************)
EXTENDS Configuration
=============================================================================
