----------------------------- MODULE VpnClients -----------------------------
(***************************************************************************)
(* The switches of WireGuard and OpenVPN clients (firmware before 4.9):    *)
(* GLinetHub.fetch_wireguard_clients and fetch_ovpn_clients, and switching *)
(* a client on, which first switches off what the hub believes to be       *)
(* connected.                                                              *)
(*                                                                         *)
(* A fetch makes two calls.  The first replaces the clients, all of them   *)
(* disconnected; the second marks those that are connected and replaces    *)
(* the list of connections.  Each command works from a copy of that list   *)
(* and ends in fetches of its own.                                         *)
(*                                                                         *)
(* External: the router.  WireGuard clients are switched one by one and    *)
(* its status names one of them; OpenVPN clients share a tunnel, so that   *)
(* starting one replaces what is up and stopping any stops the tunnel.     *)
(* The configured clients do not change and have no tunnel of their own    *)
(* (before 4.9 the configuration list names none).                         *)
(***************************************************************************)
EXTENDS Naturals

CONSTANTS Clients,  \* configured clients
          Commands, \* coroutines that switch clients
          NoClient

VARIABLES
  kind,         \* which of the two families this is about
  up,           \* external: the clients connected on the router
  connected,    \* the hub's clients with connected = True
  connections,  \* _wireguard_connections or _ovpn_connections
  pc,           \* where each coroutine is suspended
  todo,         \* connections a command has still to stop
  goal,         \* the client it starts then
  reply,        \* the status on its way to each fetch
  serial        \* the environment lets nothing fail and nothing overlap

vars == <<kind, up, connected, connections, pc, todo, goal, reply, serial>>

Tasks == {"poll"} \cup Commands
Kinds == {"wireguard", "openvpn"}

Idle == \A t \in Tasks : pc[t] = "idle"

AtMostOne(s) == \A c, d \in s : c = d

-----------------------------------------------------------------------------
\* The first refresh is over.
Init ==
  /\ kind \in Kinds
  /\ up \in {s \in SUBSET Clients : AtMostOne(s)}
  /\ serial \in BOOLEAN
  /\ connected \in {up, {}}
  /\ connections = connected
  /\ serial => connected = up
  /\ pc = [t \in Tasks |-> "idle"]
  /\ todo = [t \in Tasks |-> {}]
  /\ goal = [t \in Tasks |-> NoClient]
  /\ reply = [t \in Tasks |-> {}]

Goto(t, where) == pc' = [pc EXCEPT ![t] = where]

\* Somebody uses the router's own pages.
Elsewhere ==
  /\ ~serial
  /\ \E c \in Clients : up' \in {{c}, up \ {c}}
  /\ UNCHANGED <<kind, connected, connections, pc, todo, goal, reply, serial>>

-----------------------------------------------------------------------------
(* Commands.                                                               *)

Enter(t) == pc[t] = "idle" /\ (serial => Idle)

BeginPoll ==
  /\ Enter("poll")
  /\ Goto("poll", "get_list")
  /\ UNCHANGED <<kind, up, connected, connections, todo, goal, reply, serial>>

\* Faulty variant: nothing is switched off before.
NothingToStop(c) == {}

\* WireGuardSwitch._start leaves the others alone if the client is connected
\* already; start_ovpn_client stops all.
ToStop(c) ==
  IF kind = "wireguard" /\ c \in connections THEN {} ELSE connections

TurnOn(t, c) ==
  /\ Enter(t)
  /\ todo' = [todo EXCEPT ![t] = ToStop(c)]
  /\ goal' = [goal EXCEPT ![t] = c]
  /\ Goto(t, IF ToStop(c) = {} THEN "start" ELSE "stop")
  /\ UNCHANGED <<kind, up, connected, connections, reply, serial>>

TurnOff(t, c) ==
  /\ Enter(t)
  /\ todo' = [todo EXCEPT ![t] = {c}]
  /\ Goto(t, "stop")
  /\ UNCHANGED <<kind, up, connected, connections, goal, reply, serial>>

\* A stop that ran, or was lost; each WireGuard stop is followed by a fetch of
\* its own, the OpenVPN stops by one for all.
Stop(t, c) ==
  /\ pc[t] = "stop" /\ c \in todo[t]
  /\ \/ up' = IF kind = "wireguard" THEN up \ {c} ELSE {}
     \/ ~serial /\ UNCHANGED up
  /\ todo' = [todo EXCEPT ![t] = @ \ {c}]
  /\ Goto(t, IF kind = "openvpn" /\ todo[t] # {c} THEN "stop" ELSE "get_list")
  /\ UNCHANGED <<kind, connected, connections, goal, reply, serial>>

Start(t) ==
  /\ pc[t] = "start"
  /\ \/ up' = IF kind = "wireguard" THEN up \cup {goal[t]} ELSE {goal[t]}
     \/ ~serial /\ UNCHANGED up
  /\ goal' = [goal EXCEPT ![t] = NoClient]
  /\ Goto(t, "get_list")
  /\ UNCHANGED <<kind, connected, connections, todo, reply, serial>>

\* ConfigEntryAuthFailed leaves the command where it stands.
Abort(t) ==
  /\ ~serial
  /\ pc[t] \in {"stop", "start", "get_list", "get_state"}
  /\ todo' = [todo EXCEPT ![t] = {}]
  /\ goal' = [goal EXCEPT ![t] = NoClient]
  /\ Goto(t, "idle")
  /\ UNCHANGED <<kind, up, connected, connections, reply, serial>>

-----------------------------------------------------------------------------
(* The fetch, of the poll or inside a command.                             *)

\* What the coroutine does after its fetch.
After(t) ==
  IF todo[t] # {} THEN "stop" ELSE IF goal[t] # NoClient THEN "start" ELSE "idle"

ListAnswered(t) ==
  /\ pc[t] = "get_list"
  /\ connected' = {}
  /\ Goto(t, "get_state")
  /\ UNCHANGED <<kind, up, connections, todo, goal, reply, serial>>

\* Nothing is touched when a call of the fetch fails: after the first one the
\* old clients stay, after the second one the new ones stay disconnected.
FetchFailed(t) ==
  /\ ~serial
  /\ pc[t] \in {"get_list", "get_state"}
  /\ Goto(t, After(t))
  /\ UNCHANGED <<kind, up, connected, connections, todo, goal, reply, serial>>

StateAnswered(t) ==
  /\ pc[t] = "get_state"
  /\ \E s \in SUBSET up :
       /\ IF kind = "openvpn" THEN s = up ELSE s = {} <=> up = {}
       /\ AtMostOne(s)
       /\ reply' = [reply EXCEPT ![t] = s]
  /\ Goto(t, "answered")
  /\ UNCHANGED <<kind, up, connected, connections, todo, goal, serial>>

\* Faulty variant: the list of connections grows.
ApplyStateAppending(t) ==
  /\ pc[t] = "answered"
  /\ connected' = connected \cup reply[t]
  /\ connections' = connections \cup reply[t]
  /\ reply' = [reply EXCEPT ![t] = {}]
  /\ Goto(t, After(t))
  /\ UNCHANGED <<kind, up, todo, goal, serial>>

\* The clients are marked where they are, possibly by another fetch's list; a
\* WireGuard status that is down may unmark the one it names.
ApplyState(t) ==
  /\ pc[t] = "answered"
  /\ \/ connected' = connected \cup reply[t]
     \/ /\ kind = "wireguard" /\ reply[t] = {}
        /\ \E c \in connected : connected' = connected \ {c}
  /\ connections' = reply[t]
  /\ reply' = [reply EXCEPT ![t] = {}]
  /\ Goto(t, After(t))
  /\ UNCHANGED <<kind, up, todo, goal, serial>>

-----------------------------------------------------------------------------
Command(t) ==
  \/ \E c \in Clients : TurnOn(t, c) \/ TurnOff(t, c) \/ Stop(t, c)
  \/ Start(t)

Fetch(t) ==
  ListAnswered(t) \/ FetchFailed(t) \/ StateAnswered(t) \/ ApplyState(t)

Next ==
  \/ Elsewhere \/ BeginPoll
  \/ \E t \in Commands : Command(t)
  \/ \E t \in Tasks : Fetch(t) \/ Abort(t)

Spec == Init /\ [][Next]_vars

-----------------------------------------------------------------------------
(* Properties.                                                             *)

\* As long as the hub alone switches clients, one command after the other, and
\* no call fails, two clients are never connected at once
\* (WireGuardSwitch._start, start_ovpn_client).
OneAtATime == serial => AtMostOne(up)

\* What makes it inductive.  The variables have their types; and when commands
\* follow each other, one coroutine runs at a time; a WireGuard client is started
\* only when what else is up is still to be stopped; and the next command is
\* computed from what is up.
TypeOK ==
  /\ kind \in Kinds /\ serial \in BOOLEAN
  /\ up \subseteq Clients /\ connected \subseteq Clients
  /\ connections \subseteq Clients
  /\ pc \in [Tasks -> {"idle", "stop", "start", "get_list", "get_state", "answered"}]
  /\ todo \in [Tasks -> SUBSET Clients]
  /\ goal \in [Tasks -> Clients \cup {NoClient}]
  /\ \A t \in Tasks : pc[t] = "start" => goal[t] # NoClient
  /\ reply \in [Tasks -> SUBSET Clients]

Alone == \A t, u \in Tasks : pc[t] # "idle" /\ pc[u] # "idle" => t = u

InARow ==
  /\ Alone /\ AtMostOne(up)
  /\ \A t \in Tasks : pc[t] = "idle" => goal[t] = NoClient
  /\ \A t \in Tasks : pc[t] = "start" => todo[t] = {}
  /\ \A t \in Tasks : kind = "wireguard" /\ goal[t] # NoClient
                       => up \ todo[t] \subseteq {goal[t]}
  /\ \A t \in Tasks : pc[t] = "answered" => reply[t] = up
  /\ Idle => connections = up

IInv == TypeOK /\ (serial => InARow)

\* When the router is left alone with at most one client up, and no command
\* runs any more, switches (connected) and sensors (connections) both show it
\* again and again, although overlapping fetches mark each other's clients.
ConnectionsAreShown ==
  (/\ <>[][UNCHANGED up]_vars /\ <>[]AtMostOne(up)
   /\ <>[](\A t \in Commands : pc[t] = "idle"))
    => []<>(connected = up /\ connections = up)
=============================================================================
