------------------------------- MODULE MCVpn -------------------------------
(***************************************************************************)
(* One tunnel that has a switch and one that has none; two clients and one *)
(* coroutine, next to the poll, that switches.                             *)
(***************************************************************************)
EXTENDS Vpn
=============================================================================
