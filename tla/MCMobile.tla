------------------------------ MODULE MCMobile ------------------------------
(***************************************************************************)
(* One SIM slot and both kinds of SIM; one message, texts of at most two   *)
(* parts and one service call at a time; two years with a leap day, and    *)
(* limits whose reset lies before, at and after the hour of the poll.      *)
(***************************************************************************)
EXTENDS Mobile
=============================================================================
