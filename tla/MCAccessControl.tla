-------------------------- MODULE MCAccessControl --------------------------
(* One client and two coroutines that send commands next to the poll.  That  *)
(* other clients keep their access is proved in AccessControlProofs.         *)
EXTENDS AccessControl

CONSTANTS phone, switch, service

OneClient   == {phone}
TwoCommands == {switch, service}
=============================================================================
