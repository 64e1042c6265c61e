----------------------------- MODULE MCPolling -----------------------------
(* Instances of Polling for TLC: a guarded fetch of one call, the guarded    *)
(* client fetch of two, an optional fetch, the firmware check, the wifi and   *)
(* the SMS fetch. *)
EXTENDS Polling

Guarded == {"connected_devices"}
Unguarded == {"kmwan_status", "tailscale_state", "upgrade_info", "sms_messages"}
WifiFetch == {"wifi_interfaces"}

First    == <<"connected_devices", "kmwan_status">>
ThenWifi == <<"wifi_interfaces">>
Enabled  == <<"tailscale_state">>

\* All features disabled, for the run that explores every state.
NoFeature         == <<>>
UnguardedNoFeature == Unguarded \ {"tailscale_state"}

Rounds ==
  [f \in Fetches |-> IF f = "connected_devices" THEN 2 ELSE 1]

StopEarly == {"connected_devices"}

InTurn   == {FALSE}
AtOnce   == {TRUE}
AnyMode  == {TRUE, FALSE}
=============================================================================
