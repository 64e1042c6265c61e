-------------------------------- MODULE Vpn --------------------------------
(***************************************************************************)
(* The VPN clients of one router, one family of switches at a time: they   *)
(* share no state.  From firmware 4.9 on there are those of the dashboard  *)
(* (VpnTunnels), before that one per WireGuard or OpenVPN client           *)
(* (VpnClients); the firmware does not change under a loaded entry.  Any   *)
(* router may have the Tailscale switch (Tailscale).                       *)
(***************************************************************************)
EXTENDS Naturals

CONSTANTS Tunnels, Hidden, Clients, Commands, NoClient, Depth

ASSUME VpnAssumption ==
  /\ Hidden \subseteq Tunnels
  /\ NoClient \notin Clients /\ "poll" \notin Commands
  /\ Depth \in Nat

VARIABLES
  family,      \* of switches this is about
  board, tunnels, tunnelPc, order, tunnelReply, task, switches, alone,
  kind, up, connected, connections, clientPc, todo, goal, clientReply, serial,
  enabled, link, shown, tailscalePc, want, depth

tunnelVars == <<board, tunnels, tunnelPc, order, tunnelReply, task, switches,
                alone>>
clientVars == <<kind, up, connected, connections, clientPc, todo, goal,
                clientReply, serial>>
tailscaleVars == <<enabled, link, shown, tailscalePc, want, depth>>
vars == <<family, tunnelVars, clientVars, tailscaleVars>>

T == INSTANCE VpnTunnels WITH pc <- tunnelPc, reply <- tunnelReply
C == INSTANCE VpnClients WITH pc <- clientPc, reply <- clientReply
S == INSTANCE Tailscale WITH pc <- tailscalePc

-----------------------------------------------------------------------------
\* Of the families that never move one value is enough.
Init ==
  /\ family \in {"tunnels", "clients", "tailscale"}
  /\ T!Init /\ C!Init /\ S!Init
  /\ family # "tunnels"   => board = T!NoTunnel
  /\ family # "clients"   => kind = "wireguard" /\ up = {} /\ serial
  /\ family # "tailscale" => ~enabled /\ shown = "off"

OfTunnels(A) ==
  family = "tunnels" /\ A /\ UNCHANGED <<family, clientVars, tailscaleVars>>

OfClients(A) ==
  family = "clients" /\ A /\ UNCHANGED <<family, tunnelVars, tailscaleVars>>

OfTailscale(A) ==
  family = "tailscale" /\ A /\ UNCHANGED <<family, tunnelVars, clientVars>>

Next == OfTunnels(T!Next) \/ OfClients(C!Next) \/ OfTailscale(S!Next)

Spec == Init /\ [][Next]_vars

\* The poll timer fires, calls are answered or time out, tasks run, and not
\* every poll fails; each part moves where the router has it.  (What is shown
\* is claimed only when no command runs any more; only Tailscale's commands,
\* of which it is claimed that they end, need fairness.)
TunnelFairness ==
  /\ WF_vars(OfTunnels(T!BeginPoll))
  /\ SF_vars(OfTunnels(T!TunnelsAnswered("poll")))
  /\ SF_vars(OfTunnels(tunnelReply["poll"] = board /\ T!EndFetch("poll")))
  /\ WF_vars(OfTunnels(T!Fetch("poll")))
  /\ WF_vars(OfTunnels(T!Reconcile("poll")))

ClientFairness ==
  /\ WF_vars(OfClients(C!BeginPoll))
  /\ SF_vars(OfClients(C!ListAnswered("poll")))
  /\ SF_vars(OfClients(C!StateAnswered("poll")))
  /\ WF_vars(OfClients(C!Fetch("poll")))

TailscaleFairness ==
  /\ WF_vars(OfTailscale(S!BeginPoll))
  /\ SF_vars(OfTailscale(S!IsConfigured("poll")))
  /\ SF_vars(OfTailscale(S!AnyConfig("poll")))
  /\ SF_vars(OfTailscale(S!Config("poll")))
  /\ SF_vars(OfTailscale(S!Connection("poll")))
  /\ \A t \in S!Tasks : WF_vars(OfTailscale(S!Fetch(t)))
  /\ \A t \in Commands : WF_vars(OfTailscale(S!Work(t)))

FairSpec == Spec /\ TunnelFairness /\ ClientFairness /\ TailscaleFairness

-----------------------------------------------------------------------------
(* Properties: those of the three modules.                                 *)

\* When fetches and reconcilers have run one after the other and the last fetch
\* sent its signal, the switches are those of the tunnels the hub holds
\* (fetch_vpn_tunnels, switch.py).
SwitchesFollowTheHub == T!SwitchesFollowTheHub

\* What each fetch has been told of the dashboard and has not yet stored.
BoardsUnderWay ==
  [f \in T!Fetchers |-> IF tunnelPc[f] = "answered" THEN tunnelReply[f]
                        ELSE T!NoTunnel]

\* The tunnels the hub holds were the dashboard's as a whole, or there are none,
\* although turning a switch changes the dashboard (fetch_vpn_tunnels).
BoardPromise == INSTANCE Mirror WITH
  Readers <- T!Fetchers, Values <- T!Boards, Empty <- T!NoTunnel,
  source <- board, shown <- tunnels,
  carried <- BoardsUnderWay

BoardIsMirrored == BoardPromise!Spec

\* The Tailscale switch shows what the link was, or that it is not known; never
\* what a command is still trying to reach (fetch_tailscale_state).
LinkPromise == INSTANCE Mirror WITH
  Readers <- {}, Values <- {"on", "off"}, Empty <- "unknown",
  source <- IF link = "connected" THEN "on" ELSE "off",
  shown <- shown, carried <- << >>

LinkIsMirrored == LinkPromise!Spec

VpnIsMirrored == BoardIsMirrored /\ LinkIsMirrored

\* As long as only the hub switches clients, command after command, without a
\* failure, two are never up at once (WireGuardSwitch._start,
\* start_ovpn_client).
OneAtATime == C!OneAtATime

\* The dashboard, the clients' connections and Tailscale's, left alone, are shown
\* by switches and sensors again and again (fetch_vpn_tunnels,
\* fetch_wireguard_clients, fetch_ovpn_clients, fetch_tailscale_state).
LeftAloneIsShown ==
  /\ family = "tunnels" => T!BoardIsShown
  /\ family = "clients" => C!ConnectionsAreShown
  /\ family = "tailscale" => S!LinkIsShown

\* A connect or disconnect ends, whatever else happens to the connection
\* (TailscaleModule.connect, disconnect).
CommandsEnd == family = "tailscale" => S!CommandsEnd

\* Every step of a connect or disconnect brings it nearer to its end, whatever
\* happens in between (TailscaleModule.connect, disconnect).
CommandsGetOn == S!CommandsGetOn
=============================================================================
