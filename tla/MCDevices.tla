----------------------------- MODULE MCDevices -----------------------------
(* Instances of Devices for TLC: a client another integration knows and one   *)
(* nobody knows. *)
EXTENDS Devices

CONSTANTS phone, guest

Both == {phone, guest}
Phone == {phone}
Guest == {guest}
Nobody == {}

Off     == {0}
On      == {1}
OnOrOff == {0, 1}
=============================================================================
