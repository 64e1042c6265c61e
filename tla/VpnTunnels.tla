----------------------------- MODULE VpnTunnels -----------------------------
(***************************************************************************)
(* The switches of the VPN dashboard (firmware 4.9 and newer): the fetch   *)
(* GLinetHub.fetch_vpn_tunnels, the command set_vpn_tunnel, and the        *)
(* reconciler of the switch platform, which the fetch tells by a           *)
(* dispatcher signal which tunnels it found.                               *)
(*                                                                         *)
(* A fetch makes two calls.  It replaces the hub's tunnels after the first *)
(* and sends its signal after the second; the reconciler is a task of its  *)
(* own.  So what a task was told may be older, or newer, than what the hub *)
(* holds when the task runs.  A first call that brings nothing at all ends *)
(* the fetch without a signal.                                             *)
(*                                                                         *)
(* External: the router's dashboard, Home Assistant's event loop and       *)
(* entities.  Assumed: removing a switch entity does not suspend the       *)
(* reconciler (the entity has nothing of its own to clean up), an entity   *)
(* that is being added is there before its tunnel is found gone, and a     *)
(* task runs before the coroutine that started it begins its next fetch.   *)
(* The firmware version is known.                                          *)
(***************************************************************************)
EXTENDS Naturals

CONSTANTS Tunnels,  \* tunnel ids
          Hidden    \* those of a type whose feature is not enabled

VARIABLES
  board,        \* external: the dashboard, "absent", "off" or "on" per tunnel
  tunnels,      \* GLinetHub._vpn_tunnels, likewise
  pc,           \* where each coroutine is suspended
  order,        \* the tunnel and state the command asks for
  reply,        \* the answer to get_tunnel on its way, and read by the fetch
  task,         \* the reconciler started by each coroutine's fetch
  switches,     \* vpn_tunnel_switches of the platform
  alone         \* history: whose fetch ran from idle to idle by itself last;
                \* "silent" if it sent no signal, "none" if there is no such

vars == <<board, tunnels, pc, order, reply, task, switches, alone>>

Fetchers == {"poll", "command"}
States   == {"absent", "off", "on"}
Boards   == [Tunnels -> States]
NoTunnel == [t \in Tunnels |-> "absent"]
NoTask   == [pending |-> FALSE, ids |-> {}]
NoOrder  == [pending |-> FALSE]
Orders   == [pending : {TRUE}, tunnel : Tunnels, state : {"off", "on"}]

Ids(b) == {t \in Tunnels : b[t] # "absent"}

\* _candidate_tunnels_for_features
Candidates(b) == Ids(b) \ Hidden

Quiet == \A f \in Fetchers : pc[f] = "idle" /\ ~task[f].pending

-----------------------------------------------------------------------------
\* The platform is set up from what the first refresh brought, if anything.
Init ==
  /\ board \in Boards
  /\ tunnels \in {board, NoTunnel}
  /\ switches = Candidates(tunnels)
  /\ pc = [f \in Fetchers |-> "idle"]
  /\ order = NoOrder
  /\ reply = [f \in Fetchers |-> NoTunnel]
  /\ task = [f \in Fetchers |-> NoTask]
  /\ alone = "poll"

Goto(f, where) == pc' = [pc EXCEPT ![f] = where]

\* Tunnels are configured, switched or taken off on the router.
Elsewhere ==
  /\ \E t \in Tunnels, s \in States : board' = [board EXCEPT ![t] = s]
  /\ UNCHANGED <<tunnels, pc, order, reply, task, switches, alone>>

-----------------------------------------------------------------------------
(* The poll's fetch and the command.                                       *)

Enter(f, where) ==
  /\ pc[f] = "idle" /\ ~task[f].pending
  /\ alone' = IF Quiet THEN f ELSE "none"
  /\ Goto(f, where)

BeginPoll ==
  /\ Enter("poll", "get_tunnel")
  /\ UNCHANGED <<board, tunnels, order, reply, task, switches>>

\* A switch is turned.
SetTunnel(t, s) ==
  /\ t \in switches
  /\ Enter("command", "set_tunnel")
  /\ order' = [pending |-> TRUE, tunnel |-> t, state |-> s]
  /\ UNCHANGED <<board, tunnels, reply, task, switches>>

\* The router switches the tunnel, if it is there.
Execute ==
  /\ pc["command"] = "set_tunnel"
  /\ board' = IF board[order.tunnel] = "absent" THEN board
              ELSE [board EXCEPT ![order.tunnel] = order.state]
  /\ order' = NoOrder
  /\ Goto("command", "get_tunnel")
  /\ UNCHANGED <<tunnels, reply, task, switches, alone>>

\* The order is lost; ConfigEntryAuthFailed ends the command.
ExecuteFailed ==
  /\ pc["command"] = "set_tunnel"
  /\ order' = NoOrder
  /\ \/ Goto("command", "get_tunnel") /\ UNCHANGED alone
     \/ Goto("command", "idle") /\ alone' = "none"
  /\ UNCHANGED <<board, tunnels, reply, task, switches>>

\* get_tunnel answers with the dashboard; a failure of the client's, an expired
\* session among them, is swallowed and looks like an empty one.
TunnelsAnswered(f) ==
  /\ pc[f] = "get_tunnel"
  /\ reply' = [reply EXCEPT ![f] = board]
  /\ Goto(f, "answered")
  /\ UNCHANGED <<board, tunnels, order, task, switches, alone>>

TunnelsFailed(f) ==
  /\ pc[f] = "get_tunnel"
  /\ reply' = [reply EXCEPT ![f] = NoTunnel]
  /\ Goto(f, "answered")
  /\ UNCHANGED <<board, tunnels, order, task, switches, alone>>

\* Nothing at all came back: the router had an empty object to say of an empty
\* dashboard, or a reply that is no JSON.  The hub's tunnels are dropped and the
\* fetch is over; nobody is told.
NothingAnswered(f) ==
  /\ pc[f] = "answered" /\ reply[f] = NoTunnel
  /\ tunnels' = NoTunnel
  /\ alone' = IF alone = f THEN "silent" ELSE "none"
  /\ Goto(f, "idle")
  /\ UNCHANGED <<board, order, reply, task, switches>>

ApplyTunnels(f) ==
  /\ pc[f] = "answered"
  /\ tunnels' = reply[f]
  /\ Goto(f, "get_status")
  /\ UNCHANGED <<board, order, reply, task, switches, alone>>

\* event_vpn_tunnels_updated, with the ids this fetch has found.
Signal(f, ids) == task' = [task EXCEPT ![f] = [pending |-> TRUE, ids |-> ids]]

\* The status is read, or not; the fetch of the clients that ends the command
\* touches no tunnel.
EndFetch(f) ==
  /\ pc[f] = "get_status"
  /\ Signal(f, Ids(reply[f]))
  /\ reply' = [reply EXCEPT ![f] = NoTunnel]
  /\ Goto(f, "idle")
  /\ UNCHANGED <<board, tunnels, order, switches, alone>>

\* An error of the status that is raised ends the fetch without a signal.
Raised(f) ==
  /\ pc[f] = "get_status"
  /\ reply' = [reply EXCEPT ![f] = NoTunnel]
  /\ Goto(f, "idle")
  /\ alone' = "none"
  /\ UNCHANGED <<board, tunnels, order, task, switches>>

-----------------------------------------------------------------------------
(* The reconciler.                                                         *)

\* Faulty variant: switches of tunnels that are gone are kept.
ReconciledKeepingStale(ids) == switches \cup (Candidates(tunnels) \cap ids)

\* Added is what both the signal and the hub know by now, removed what the
\* signal does not know.
Reconciled(ids) ==
  LET new   == (Candidates(tunnels) \cap ids) \ switches
      stale == switches \ ids
  IN  (switches \cup new) \ stale

Reconcile(f) ==
  /\ task[f].pending
  /\ switches' = Reconciled(task[f].ids)
  /\ task' = [task EXCEPT ![f] = NoTask]
  /\ UNCHANGED <<board, tunnels, pc, order, reply, alone>>

-----------------------------------------------------------------------------
Command ==
  \/ \E t \in Tunnels, s \in {"off", "on"} : SetTunnel(t, s)
  \/ Execute \/ ExecuteFailed

Fetch(f) ==
  TunnelsAnswered(f) \/ TunnelsFailed(f) \/ NothingAnswered(f)
  \/ ApplyTunnels(f) \/ EndFetch(f) \/ Raised(f)

Next ==
  \/ Elsewhere \/ BeginPoll \/ Command
  \/ \E f \in Fetchers : Fetch(f) \/ Reconcile(f)

Spec == Init /\ [][Next]_vars

-----------------------------------------------------------------------------
(* Properties.                                                             *)

\* When fetches and reconcilers have run one after the other and the last fetch
\* sent its signal, the switches are those of the tunnels the hub holds, whatever
\* was added, taken off, failed to be read or went unsignalled before; a fetch
\* that sends none leaves the hub with no tunnels (fetch_vpn_tunnels and
\* _async_reconcile_vpn_tunnels).
SwitchesFollowTheHub ==
  Quiet => /\ alone \in Fetchers => switches = Candidates(tunnels)
           /\ alone = "silent" => tunnels = NoTunnel

\* What makes it inductive.  The variables have their types, tunnels of a type
\* whose feature is not enabled have no switch, and who runs by itself has told
\* the reconciler what the hub holds.
TypeOK ==
  /\ board \in Boards /\ tunnels \in Boards
  /\ pc \in [Fetchers ->
              {"idle", "set_tunnel", "get_tunnel", "answered", "get_status"}]
  /\ pc["poll"] # "set_tunnel"
  /\ order \in Orders \cup {NoOrder}
  /\ pc["command"] = "set_tunnel" => order \in Orders
  /\ reply \in [Fetchers -> Boards]
  /\ task \in [Fetchers -> [pending : BOOLEAN, ids : SUBSET Tunnels]]
  /\ switches \subseteq Tunnels \ Hidden
  /\ alone \in Fetchers \cup {"silent", "none"}

Resting(f) == pc[f] = "idle" /\ ~task[f].pending

OnItsOwn(f) ==
  /\ \A g \in Fetchers \ {f} : Resting(g)
  /\ pc[f] = "get_status" => tunnels = reply[f]
  /\ task[f].pending => pc[f] = "idle" /\ task[f].ids = Ids(tunnels)
  /\ Resting(f) => switches = Candidates(tunnels)

IInv ==
  /\ TypeOK
  /\ alone \in Fetchers => OnItsOwn(alone)
  /\ alone = "silent" => Quiet /\ tunnels = NoTunnel

\* When the dashboard is left alone and no command runs any more, the switches
\* and their states are the dashboard's again and again, although each fetch
\* may fail and an older list may have been applied last.  (Switches of a
\* dashboard without tunnels may stay: see NothingAnswered.)
BoardIsShown ==
  (<>[][UNCHANGED board]_vars /\ <>[](pc["command"] = "idle"))
    => []<>(tunnels = board /\ (switches = Candidates(board) \/ board = NoTunnel))
=============================================================================
