----------------------------- MODULE VpnProofs -----------------------------
(***************************************************************************)
(* Proofs about Vpn: the switches of the dashboard and of WireGuard and    *)
(* OpenVPN clients, the commands of Tailscale, and what is shown of the    *)
(* dashboard and of Tailscale as a copy of the router's (Mirror), for any  *)
(* tunnels, clients, coroutines and depth of Tailscale's recursion.        *)
(***************************************************************************)
EXTENDS Vpn, TLAPS

-----------------------------------------------------------------------------
(* The dashboard's switches.                                               *)

\* The platform starts with the switches of what the first refresh brought.
LEMMA TunnelsInit == VpnAssumption /\ T!Init => T!IInv
BY DEF VpnAssumption, T!Init, T!IInv, T!TypeOK, T!Boards, T!States, T!NoTunnel,
       T!NoTask, T!NoOrder, T!Fetchers, T!OnItsOwn, T!Resting, T!Quiet,
       T!Candidates, T!Ids

\* The dashboard is somebody else's.
LEMMA TunnelsElsewhere == T!IInv /\ T!Elsewhere => T!IInv'
<1> SUFFICES ASSUME T!IInv, T!Elsewhere PROVE T!IInv'
  OBVIOUS
<1>1. board' \in T!Boards
  BY DEF T!IInv, T!TypeOK, T!Elsewhere, T!Boards
<1> QED
  BY <1>1
  DEF T!IInv, T!TypeOK, T!Elsewhere, T!OnItsOwn, T!Resting, T!Quiet, T!Candidates

\* A fetch that sent no signal was the last: nothing is under way.
LEMMA NobodySilent ==
  ASSUME T!IInv, NEW f \in T!Fetchers, tunnelPc[f] # "idle" \/ task[f].pending
  PROVE  alone # "silent"
BY DEF T!IInv, T!Quiet

\* Who enters when all is quiet is on its own.
LEMMA TunnelsBeginPoll == T!IInv /\ T!BeginPoll => T!IInv'
<1> SUFFICES ASSUME T!IInv, T!BeginPoll PROVE T!IInv'
  OBVIOUS
<1> USE DEF T!BeginPoll, T!Enter, T!Goto
<1>1. T!TypeOK'
  BY DEF T!IInv, T!TypeOK, T!Fetchers
<1>2. ASSUME alone' # "none" PROVE alone' = "poll" /\ T!OnItsOwn("poll")'
  BY <1>2 DEF T!IInv, T!TypeOK, T!OnItsOwn, T!Resting, T!Quiet, T!Fetchers
<1> QED
  BY <1>1, <1>2 DEF T!IInv, T!Fetchers

LEMMA TunnelsSetTunnel ==
  ASSUME T!IInv, NEW t \in Tunnels, NEW s \in {"off", "on"}, T!SetTunnel(t, s)
  PROVE  T!IInv'
<1> USE DEF T!SetTunnel, T!Enter, T!Goto
<1>1. order' \in T!Orders
  BY DEF T!Orders
<1>2. T!TypeOK'
  BY <1>1 DEF T!IInv, T!TypeOK, T!Fetchers
<1>3. ASSUME alone' # "none" PROVE alone' = "command" /\ T!OnItsOwn("command")'
  BY <1>3 DEF T!IInv, T!TypeOK, T!OnItsOwn, T!Resting, T!Quiet, T!Fetchers
<1> QED
  BY <1>2, <1>3 DEF T!IInv, T!Fetchers

LEMMA TunnelsExecute == T!IInv /\ (T!Execute \/ T!ExecuteFailed) => T!IInv'
<1> SUFFICES ASSUME T!IInv, T!Execute \/ T!ExecuteFailed PROVE T!IInv'
  OBVIOUS
<1> USE DEF T!Execute, T!ExecuteFailed, T!Goto
<1>1. board' \in T!Boards
  BY DEF T!IInv, T!TypeOK, T!Boards, T!States, T!Orders
<1>2. T!TypeOK'
  BY <1>1 DEF T!IInv, T!TypeOK, T!Fetchers
<1>3. ASSUME alone' \in T!Fetchers PROVE T!OnItsOwn(alone)'
  BY <1>3 DEF T!IInv, T!TypeOK, T!OnItsOwn, T!Resting, T!Fetchers
<1>4. alone' # "silent"
  BY NobodySilent DEF T!Fetchers
<1> QED
  BY <1>2, <1>3, <1>4 DEF T!IInv

LEMMA TunnelsAnswer ==
  ASSUME T!IInv, NEW f \in T!Fetchers, T!TunnelsAnswered(f) \/ T!TunnelsFailed(f)
  PROVE  T!IInv'
<1> USE DEF T!TunnelsAnswered, T!TunnelsFailed, T!Goto
<1>1. T!TypeOK'
  BY DEF T!IInv, T!TypeOK, T!Fetchers, T!NoTunnel, T!Boards, T!States
<1>2. ASSUME alone' \in T!Fetchers PROVE T!OnItsOwn(alone)'
  BY <1>2 DEF T!IInv, T!TypeOK, T!OnItsOwn, T!Resting
<1>3. alone' # "silent"
  BY NobodySilent
<1> QED
  BY <1>1, <1>2, <1>3 DEF T!IInv

\* A fetch on its own holds what it was answered until it tells the reconciler.
LEMMA TunnelsApply ==
  ASSUME T!IInv, NEW f \in T!Fetchers, T!ApplyTunnels(f)
  PROVE  T!IInv'
<1> USE DEF T!ApplyTunnels, T!Goto
<1>1. T!TypeOK'
  BY DEF T!IInv, T!TypeOK, T!Fetchers
<1>2. ASSUME alone' \in T!Fetchers PROVE T!OnItsOwn(alone)'
  BY <1>2 DEF T!IInv, T!TypeOK, T!OnItsOwn, T!Resting
<1>3. alone' # "silent"
  BY NobodySilent
<1> QED
  BY <1>1, <1>2, <1>3 DEF T!IInv

\* A fetch on its own that was told nothing leaves nothing under way.
LEMMA TunnelsNothing ==
  ASSUME T!IInv, NEW f \in T!Fetchers, T!NothingAnswered(f)
  PROVE  T!IInv'
<1> USE DEF T!NothingAnswered, T!Goto
<1>1. T!TypeOK'
  BY DEF T!IInv, T!TypeOK, T!Fetchers, T!NoTunnel, T!Boards, T!States
<1>2. alone' \notin T!Fetchers
  BY DEF T!Fetchers
<1>3. ASSUME alone' = "silent" PROVE T!Quiet'
  <2>1. alone = f
    BY <1>3
  <2>2. T!OnItsOwn(f)
    BY <2>1 DEF T!IInv
  <2> QED
    BY <2>2 DEF T!IInv, T!TypeOK, T!OnItsOwn, T!Resting, T!Quiet
<1> QED
  BY <1>1, <1>2, <1>3 DEF T!IInv

LEMMA TunnelsEndFetch ==
  ASSUME T!IInv, NEW f \in T!Fetchers, T!EndFetch(f) \/ T!Raised(f)
  PROVE  T!IInv'
<1> USE DEF T!EndFetch, T!Raised, T!Goto, T!Signal
<1>1. T!NoTunnel \in T!Boards /\ T!Ids(tunnelReply[f]) \subseteq Tunnels
  BY DEF T!NoTunnel, T!Boards, T!States, T!Ids
<1>2. T!TypeOK'
  <2>1. task' \in [T!Fetchers -> [pending : BOOLEAN, ids : SUBSET Tunnels]]
    <3>1. [pending |-> TRUE, ids |-> T!Ids(tunnelReply[f])]
            \in [pending : BOOLEAN, ids : SUBSET Tunnels]
      BY <1>1
    <3> QED
      BY <3>1 DEF T!IInv, T!TypeOK
  <2>2. tunnelReply' \in [T!Fetchers -> T!Boards]
    BY <1>1 DEF T!IInv, T!TypeOK
  <2>3. /\ tunnelPc' \in [T!Fetchers ->
                     {"idle", "set_tunnel", "get_tunnel", "answered", "get_status"}]
        /\ tunnelPc'["poll"] # "set_tunnel"
        /\ tunnelPc'["command"] = "set_tunnel" => order \in T!Orders
    BY DEF T!IInv, T!TypeOK, T!Fetchers
  <2> QED
    BY <2>1, <2>2, <2>3 DEF T!IInv, T!TypeOK
<1>3. ASSUME alone' \in T!Fetchers PROVE T!OnItsOwn(alone)'
  BY <1>3 DEF T!IInv, T!TypeOK, T!OnItsOwn, T!Resting, T!Ids, T!Fetchers
<1>4. alone' # "silent"
  BY NobodySilent
<1> QED
  BY <1>2, <1>3, <1>4 DEF T!IInv

\* Told of what the hub holds, the reconciler makes the switches those of it.
LEMMA TunnelsReconcile ==
  ASSUME T!IInv, NEW f \in T!Fetchers, T!Reconcile(f)
  PROVE  T!IInv'
<1> USE DEF T!Reconcile
<1>1. switches' \subseteq Tunnels \ Hidden
  BY DEF T!IInv, T!TypeOK, T!Reconciled, T!Candidates, T!Ids
<1>2. task' \in [T!Fetchers -> [pending : BOOLEAN, ids : SUBSET Tunnels]]
  BY DEF T!IInv, T!TypeOK, T!NoTask
<1>3. T!TypeOK'
  BY <1>1, <1>2 DEF T!IInv, T!TypeOK
<1>4. ASSUME alone' \in T!Fetchers PROVE T!OnItsOwn(alone)'
  <2>1. /\ alone' = alone /\ alone \in T!Fetchers /\ T!OnItsOwn(alone)
    BY <1>4 DEF T!IInv, T!TypeOK
  <2>2. f = alone /\ task[f].ids = T!Ids(tunnels)
    BY <2>1 DEF T!OnItsOwn, T!Resting
  <2>3. switches' = T!Candidates(tunnels)
    BY <2>2 DEF T!IInv, T!TypeOK, T!Reconciled, T!Candidates
  <2>4. \A g \in T!Fetchers : task'[g] = IF g = f THEN T!NoTask ELSE task[g]
    BY DEF T!IInv, T!TypeOK
  <2> QED
    BY <2>1, <2>2, <2>3, <2>4
    DEF T!OnItsOwn, T!Resting, T!NoTask, T!Candidates, T!Ids
<1>5. alone' # "silent"
  BY NobodySilent
<1> QED
  BY <1>3, <1>4, <1>5 DEF T!IInv

LEMMA TunnelsStep == T!IInv /\ T!Next => T!IInv'
BY TunnelsElsewhere, TunnelsBeginPoll, TunnelsSetTunnel, TunnelsExecute,
   TunnelsAnswer, TunnelsApply, TunnelsNothing, TunnelsEndFetch, TunnelsReconcile
DEF T!Next, T!Command, T!Fetch

LEMMA TunnelsStutter == T!IInv /\ UNCHANGED tunnelVars => T!IInv'
BY DEF tunnelVars, T!IInv, T!TypeOK, T!OnItsOwn, T!Resting, T!Quiet, T!Candidates,
       T!Ids

-----------------------------------------------------------------------------
(* The clients' switches.                                                  *)

LEMMA ClientsInit == C!Init => C!IInv
<1> SUFFICES ASSUME C!Init PROVE C!IInv
  OBVIOUS
<1>1. C!TypeOK
  BY DEF C!Init, C!TypeOK, C!Kinds
<1>2. serial => C!InARow
  BY DEF C!Init, C!InARow, C!Alone, C!Idle
<1> QED
  BY <1>1, <1>2 DEF C!IInv

LEMMA ClientsElsewhere == C!IInv /\ C!Elsewhere => C!IInv'
BY DEF C!IInv, C!TypeOK, C!Elsewhere

LEMMA ClientsBeginPoll == C!IInv /\ C!BeginPoll => C!IInv'
<1> SUFFICES ASSUME C!IInv, C!BeginPoll PROVE C!IInv'
  OBVIOUS
<1> USE DEF C!BeginPoll, C!Goto, C!Enter
<1>1. C!TypeOK'
  BY DEF C!IInv, C!TypeOK, C!Tasks
<1>2. serial => C!InARow'
  BY DEF C!IInv, C!TypeOK, C!InARow, C!Alone, C!AtMostOne, C!Idle, C!Tasks
<1> QED
  BY <1>1, <1>2 DEF C!IInv

\* What is up when a client is to be started is to be stopped before, unless it
\* is the very client.
LEMMA ClientsTurnOn ==
  ASSUME C!IInv, NEW t \in Commands, NEW c \in Clients, C!TurnOn(t, c)
  PROVE  C!IInv'
<1> USE VpnAssumption DEF VpnAssumption, C!TurnOn, C!Goto, C!Enter
<1>1. C!ToStop(c) \subseteq Clients /\ t \in C!Tasks
  BY DEF C!IInv, C!TypeOK, C!ToStop, C!Tasks
<1>2. C!TypeOK'
  BY <1>1 DEF C!IInv, C!TypeOK
<1>3. ASSUME serial PROVE C!InARow'
  <2>1. C!Idle /\ C!InARow /\ C!TypeOK
    BY <1>3 DEF C!IInv
  <2>2. /\ \A u \in C!Tasks \ {t} : clientPc'[u] = "idle" /\ goal'[u] = NoClient
        /\ clientPc'[t] = IF C!ToStop(c) = {} THEN "start" ELSE "stop"
        /\ goal'[t] = c /\ todo'[t] = C!ToStop(c)
    BY <1>1, <2>1 DEF C!TypeOK, C!InARow, C!Idle
  <2>3. kind = "wireguard" => up \ C!ToStop(c) \subseteq {c}
    BY <2>1 DEF C!InARow, C!ToStop, C!AtMostOne
  <2> QED
    BY <1>1, <2>1, <2>2, <2>3 DEF C!InARow, C!Alone, C!AtMostOne, C!Idle
<1> QED
  BY <1>2, <1>3 DEF C!IInv

LEMMA ClientsTurnOff ==
  ASSUME C!IInv, NEW t \in Commands, NEW c \in Clients, C!TurnOff(t, c)
  PROVE  C!IInv'
<1> USE DEF C!TurnOff, C!Goto, C!Enter
<1>1. t \in C!Tasks
  BY DEF C!Tasks
<1>2. C!TypeOK'
  BY <1>1 DEF C!IInv, C!TypeOK
<1>3. ASSUME serial PROVE C!InARow'
  <2>1. C!Idle /\ C!InARow /\ C!TypeOK
    BY <1>3 DEF C!IInv
  <2>2. /\ \A u \in C!Tasks \ {t} : clientPc'[u] = "idle"
        /\ clientPc'[t] = "stop"
        /\ \A u \in C!Tasks : goal'[u] = NoClient
    BY <1>1, <2>1 DEF C!TypeOK, C!InARow, C!Idle
  <2> QED
    BY <1>1, <2>1, <2>2 DEF C!InARow, C!Alone, C!AtMostOne, C!Idle
<1> QED
  BY <1>2, <1>3 DEF C!IInv

LEMMA ClientsStop ==
  ASSUME C!IInv, NEW t \in Commands, NEW c \in Clients, C!Stop(t, c)
  PROVE  C!IInv'
<1> USE DEF C!Stop, C!Goto
<1>1. t \in C!Tasks
  BY DEF C!Tasks
<1>2. C!TypeOK'
  BY <1>1 DEF C!IInv, C!TypeOK
<1>3. ASSUME serial PROVE C!InARow'
  <2>1. C!InARow /\ C!TypeOK
    BY <1>3 DEF C!IInv
  <2>2. /\ \A u \in C!Tasks \ {t} : clientPc[u] = "idle" /\ clientPc'[u] = "idle"
        /\ clientPc'[t] \in {"stop", "get_list"}
        /\ \A u \in C!Tasks \ {t} : goal'[u] = NoClient
    BY <1>1, <2>1 DEF C!TypeOK, C!InARow, C!Alone
  <2>3. /\ up' = IF kind = "wireguard" THEN up \ {c} ELSE {}
        /\ todo'[t] = todo[t] \ {c}
    BY <1>1, <1>3, <2>1 DEF C!TypeOK
  <2>4. kind = "wireguard" /\ goal'[t] # NoClient => up' \ todo'[t] \subseteq {goal'[t]}
    BY <1>1, <2>1, <2>3 DEF C!InARow
  <2>5. C!AtMostOne(up)'
    BY <2>1, <2>3 DEF C!InARow, C!AtMostOne
  <2> QED
    BY <1>1, <2>2, <2>4, <2>5 DEF C!InARow, C!Alone, C!Idle
<1> QED
  BY <1>2, <1>3 DEF C!IInv

LEMMA ClientsStart ==
  ASSUME C!IInv, NEW t \in Commands, C!Start(t)
  PROVE  C!IInv'
<1> USE DEF C!Start, C!Goto
<1>1. t \in C!Tasks
  BY DEF C!Tasks
<1>2. C!TypeOK /\ goal[t] \in Clients
  BY <1>1 DEF C!IInv, C!TypeOK
<1>3. C!TypeOK'
  BY <1>1, <1>2 DEF C!TypeOK
<1>4. ASSUME serial PROVE C!InARow'
  <2>1. C!InARow
    BY <1>4 DEF C!IInv
  <2>2. /\ \A u \in C!Tasks \ {t} : clientPc'[u] = "idle"
        /\ clientPc'[t] = "get_list"
        /\ \A u \in C!Tasks : goal'[u] = NoClient
    BY <1>1, <1>2, <2>1 DEF C!TypeOK, C!InARow, C!Alone
  <2>3. up' = {goal[t]}
    <3>1. up' = IF kind = "wireguard" THEN up \cup {goal[t]} ELSE {goal[t]}
      BY <1>4
    <3>2. kind = "wireguard" => up \subseteq {goal[t]}
      <4>1. goal[t] # NoClient /\ todo[t] = {}
        BY <1>1, <1>2, <2>1 DEF C!InARow, C!TypeOK
      <4>2. kind = "wireguard" => up \ todo[t] \subseteq {goal[t]}
        BY <1>1, <2>1, <4>1 DEF C!InARow
      <4> QED
        BY <4>1, <4>2
    <3> QED
      BY <3>1, <3>2
  <2>4. C!AtMostOne(up)'
    BY <2>3 DEF C!AtMostOne
  <2> QED
    BY <1>1, <2>2, <2>4 DEF C!InARow, C!Alone, C!Idle
<1> QED
  BY <1>3, <1>4 DEF C!IInv

LEMMA ClientsAbort ==
  ASSUME C!IInv, NEW t \in C!Tasks, C!Abort(t)
  PROVE  C!IInv'
BY DEF C!IInv, C!TypeOK, C!Abort, C!Goto

LEMMA ClientsListAnswered ==
  ASSUME C!IInv, NEW t \in C!Tasks, C!ListAnswered(t)
  PROVE  C!IInv'
<1> USE DEF C!ListAnswered, C!Goto
<1>1. C!TypeOK'
  BY DEF C!IInv, C!TypeOK
<1>2. ASSUME serial PROVE C!InARow'
  BY <1>2 DEF C!IInv, C!TypeOK, C!InARow, C!Alone, C!AtMostOne, C!Idle
<1> QED
  BY <1>1, <1>2 DEF C!IInv

LEMMA ClientsFetchFailed ==
  ASSUME C!IInv, NEW t \in C!Tasks, C!FetchFailed(t)
  PROVE  C!IInv'
<1>1. C!TypeOK'
  BY DEF C!IInv, C!TypeOK, C!FetchFailed, C!Goto, C!After
<1> QED
  BY <1>1 DEF C!IInv, C!FetchFailed

\* A status names one client that is up, if there is one: all, with commands in a
\* row.
LEMMA ClientsStateAnswered ==
  ASSUME C!IInv, NEW t \in C!Tasks, C!StateAnswered(t)
  PROVE  C!IInv'
<1> USE DEF C!StateAnswered, C!Goto
<1>1. C!TypeOK'
  BY DEF C!IInv, C!TypeOK
<1>2. ASSUME serial PROVE C!InARow'
  <2>1. C!InARow /\ C!TypeOK
    BY <1>2 DEF C!IInv
  <2>2. clientReply'[t] = up
    <3>1. PICK s \in SUBSET up :
            /\ IF kind = "openvpn" THEN s = up ELSE s = {} <=> up = {}
            /\ clientReply' = [clientReply EXCEPT ![t] = s]
      OBVIOUS
    <3>2. s = up
      BY <2>1, <3>1 DEF C!InARow, C!AtMostOne
    <3> QED
      BY <2>1, <3>1, <3>2 DEF C!TypeOK
  <2>3. /\ \A u \in C!Tasks \ {t} : clientPc'[u] = "idle"
        /\ clientPc'[t] = "answered"
    BY <2>1 DEF C!TypeOK, C!InARow, C!Alone
  <2> QED
    BY <2>1, <2>2, <2>3 DEF C!InARow, C!Alone, C!AtMostOne, C!Idle, C!TypeOK
<1> QED
  BY <1>1, <1>2 DEF C!IInv

LEMMA ClientsApplyState ==
  ASSUME C!IInv, NEW t \in C!Tasks, C!ApplyState(t)
  PROVE  C!IInv'
<1> USE DEF C!ApplyState, C!Goto
<1>1. connected' \subseteq Clients
  BY DEF C!IInv, C!TypeOK
<1>2. C!TypeOK'
  BY <1>1 DEF C!IInv, C!TypeOK, C!After
<1>3. ASSUME serial PROVE C!InARow'
  <2>1. C!InARow /\ C!TypeOK
    BY <1>3 DEF C!IInv
  <2>2. connections' = up
    BY <2>1 DEF C!InARow
  <2>3. /\ \A u \in C!Tasks \ {t} : clientPc[u] = "idle" /\ clientPc'[u] = "idle"
        /\ clientPc'[t] = C!After(t)
    BY <2>1 DEF C!TypeOK, C!InARow, C!Alone
  <2>4. /\ clientPc'[t] = "idle" => goal[t] = NoClient
        /\ clientPc'[t] = "start" => todo[t] = {}
        /\ clientPc'[t] # "answered"
    BY <2>3 DEF C!After
  <2> QED
    BY <2>1, <2>2, <2>3, <2>4 DEF C!InARow, C!Alone, C!AtMostOne, C!Idle
<1> QED
  BY <1>2, <1>3 DEF C!IInv

LEMMA ClientsStep == C!IInv /\ C!Next => C!IInv'
BY ClientsElsewhere, ClientsBeginPoll, ClientsTurnOn, ClientsTurnOff, ClientsStop,
   ClientsStart, ClientsAbort, ClientsListAnswered, ClientsFetchFailed,
   ClientsStateAnswered, ClientsApplyState
DEF C!Next, C!Command, C!Fetch

LEMMA ClientsStutter == C!IInv /\ UNCHANGED clientVars => C!IInv'
BY DEF clientVars, C!IInv, C!TypeOK, C!InARow, C!Alone, C!AtMostOne, C!Idle

-----------------------------------------------------------------------------
(* The commands of the Tailscale switch.                                   *)

LEMMA RestIs ==
  /\ DOMAIN S!Rest = {"idle", "connection", "get_config", "any_config",
                      "is_configured", "latest"}
  /\ S!Rest["idle"] = 0 /\ S!Rest["connection"] = 1 /\ S!Rest["get_config"] = 2
  /\ S!Rest["any_config"] = 3 /\ S!Rest["is_configured"] = 4
  /\ S!Rest["latest"] = 5
BY DEF S!Rest

\* What follows a status.
LEMMA AfterStatusIs ==
  ASSUME NEW way, NEW said
  PROVE  S!AfterStatus(way, said) \in {"set_config", "latest", "is_configured"}
BY Zenon DEF S!AfterStatus

LEMMA TailscaleInit == VpnAssumption /\ S!Init => S!IInv
<1> SUFFICES ASSUME VpnAssumption, S!Init PROVE S!IInv
  OBVIOUS
<1>1. 0 \in 0..(Depth + 1)
  BY DEF VpnAssumption
<1>2. "poll" \in S!Tasks /\ Commands \subseteq S!Tasks
  BY DEF S!Tasks
<1>3. tailscalePc = [t \in S!Tasks |-> "idle"]
  BY DEF S!Init
<1>4. S!TypeOK
  BY <1>1, <1>2, RestIs DEF S!Init, S!TypeOK
<1> QED
  BY <1>2, <1>3, <1>4 DEF S!IInv

\* Only commands look, write and wait, and a write follows a look that was not
\* the last.
LEMMA TailscaleStep == S!IInv /\ S!Next => S!IInv'
<1> SUFFICES ASSUME S!IInv, S!Next PROVE S!IInv'
  OBVIOUS
<1> USE VpnAssumption, RestIs DEF VpnAssumption, S!IInv, S!TypeOK, S!Goto
<1>1. CASE S!Elsewhere
  BY <1>1 DEF S!Elsewhere, S!Links
<1>2. CASE S!BeginPoll
  BY <1>2 DEF S!BeginPoll, S!Tasks
<1>3. ASSUME NEW t \in Commands, NEW way \in {"connect", "disconnect"},
             S!Turn(t, way)
      PROVE  S!IInv'
  BY <1>3 DEF S!Turn, S!Tasks
<1>4. ASSUME NEW t \in Commands, S!Work(t)
      PROVE  S!IInv'
  <2>1. CASE S!Look(t)
    BY <1>4, <2>1, AfterStatusIs DEF S!Look, S!Tasks
  <2>2. CASE S!SetConfig(t)
    BY <1>4, <2>2 DEF S!SetConfig, S!Tasks
  <2>3. CASE S!Latest(t)
    BY <1>4, <2>3 DEF S!Latest, S!Tasks
  <2>4. CASE S!Fail(t)
    BY <1>4, <2>4 DEF S!Fail, S!Tasks
  <2> QED
    BY <1>4, <2>1, <2>2, <2>3, <2>4 DEF S!Work
<1>5. ASSUME NEW t \in S!Tasks, S!Fetch(t)
      PROVE  S!IInv'
  <2>1. CASE S!IsConfigured(t)
    BY <1>5, <2>1 DEF S!IsConfigured
  <2>2. CASE S!AnyConfig(t)
    BY <1>5, <2>2 DEF S!AnyConfig
  <2>3. CASE S!Config(t)
    BY <1>5, <2>3 DEF S!Config
  <2>4. CASE S!Connection(t)
    BY <1>5, <2>4 DEF S!Connection
  <2>5. CASE S!FetchFailed(t)
    BY <1>5, <2>5 DEF S!FetchFailed
  <2> QED
    BY <1>5, <2>1, <2>2, <2>3, <2>4, <2>5 DEF S!Fetch
<1> QED
  BY <1>1, <1>2, <1>3, <1>4, <1>5 DEF S!Next

LEMMA TailscaleStutter == S!IInv /\ UNCHANGED tailscaleVars => S!IInv'
BY DEF tailscaleVars, S!IInv, S!TypeOK

\* A coroutine's own step leaves it fewer steps, ...
LEMMA OwnStep ==
  ASSUME S!IInv, NEW t \in Commands, S!Work(t) \/ S!Fetch(t)
  PROVE  S!StepsLeft(t)' < S!StepsLeft(t)
<1>0. Depth \in Nat /\ t \in S!Tasks
  BY VpnAssumption DEF VpnAssumption, S!Tasks
<1>1. /\ tailscalePc \in [S!Tasks -> {"status", "set_config"} \cup DOMAIN S!Rest]
      /\ depth \in [Commands -> Nat] /\ depth[t] <= Depth + 1
      /\ tailscalePc[t] = "set_config" => depth[t] <= Depth
  <2>1. depth \in [Commands -> 0..(Depth + 1)]
    BY DEF S!IInv, S!TypeOK
  <2> QED
    BY <1>0, <2>1 DEF S!IInv, S!TypeOK
<1> USE <1>0, RestIs DEF S!Goto, S!StepsLeft
<1>2. CASE S!Look(t)
  BY <1>1, <1>2, AfterStatusIs DEF S!Look
<1>3. CASE S!SetConfig(t)
  BY <1>1, <1>3 DEF S!SetConfig
<1>4. CASE S!Latest(t)
  BY <1>1, <1>4 DEF S!Latest
<1>5. CASE S!Fail(t)
  BY <1>1, <1>5 DEF S!Fail
<1>6. CASE S!Fetch(t)
  BY <1>1, <1>6 DEF S!Fetch, S!IsConfigured, S!AnyConfig, S!Config, S!Connection,
                    S!FetchFailed
<1> QED
  BY <1>2, <1>3, <1>4, <1>5, <1>6 DEF S!Work

\* ... another's does not touch it.
LEMMA OthersStep ==
  ASSUME S!IInv, S!Next, NEW t \in Commands, tailscalePc[t] # "idle",
         ~S!Work(t), ~S!Fetch(t)
  PROVE  UNCHANGED <<tailscalePc[t], depth[t]>>
<1> USE DEF S!IInv, S!TypeOK, S!Goto
<1>0. t \in S!Tasks /\ t # "poll"
  BY VpnAssumption DEF S!Tasks, VpnAssumption
<1>1. CASE S!Elsewhere \/ S!BeginPoll
  BY <1>0, <1>1 DEF S!Elsewhere, S!BeginPoll
<1>2. ASSUME NEW u \in Commands, NEW way \in {"connect", "disconnect"},
             S!Turn(u, way)
      PROVE  UNCHANGED <<tailscalePc[t], depth[t]>>
  BY <1>0, <1>2 DEF S!Turn
<1>3. ASSUME NEW u \in Commands, S!Work(u)
      PROVE  UNCHANGED <<tailscalePc[t], depth[t]>>
  BY <1>0, <1>3 DEF S!Work, S!Look, S!SetConfig, S!Latest, S!Fail
<1>4. ASSUME NEW u \in S!Tasks, S!Fetch(u)
      PROVE  UNCHANGED <<tailscalePc[t], depth[t]>>
  BY <1>0, <1>4 DEF S!Fetch, S!IsConfigured, S!AnyConfig, S!Config, S!Connection,
                    S!FetchFailed
<1> QED
  BY <1>1, <1>2, <1>3, <1>4 DEF S!Next

-----------------------------------------------------------------------------
(* The mirrors.                                                            *)

\* A step of the dashboard and its fetches is one of the mirror.
LEMMA BoardMirrorStep ==
  T!IInv /\ T!Next => BoardPromise!Next \/ UNCHANGED BoardPromise!vars
<1> SUFFICES ASSUME T!IInv, T!Next
             PROVE  BoardPromise!Next \/ UNCHANGED BoardPromise!vars
  OBVIOUS
<1> DEFINE told == BoardsUnderWay
<1>1. board' \in T!Boards /\ tunnelPc' = [f \in T!Fetchers |-> tunnelPc'[f]]
  BY TunnelsStep DEF T!IInv, T!TypeOK
<1>2. ASSUME UNCHANGED tunnels, told' = told
      PROVE  BoardPromise!Next
  <2>1. BoardPromise!Change
    BY <1>1, <1>2 DEF BoardPromise!Change
  <2> QED
    BY <2>1 DEF BoardPromise!Next
<1>3. ASSUME NEW f \in T!Fetchers, T!TunnelsAnswered(f)
      PROVE  BoardPromise!Next
  <2>1. told' = [told EXCEPT ![f] = board]
    BY <1>3 DEF T!TunnelsAnswered, T!Goto, T!IInv, T!TypeOK, BoardsUnderWay
  <2>2. BoardPromise!Read(f)
    BY <1>3, <2>1 DEF T!TunnelsAnswered, BoardPromise!Read
  <2> QED
    BY <2>2 DEF BoardPromise!Next
<1>4. ASSUME NEW f \in T!Fetchers, T!TunnelsFailed(f)
      PROVE  BoardPromise!Next
  <2>1. told' = told
    BY <1>4 DEF T!TunnelsFailed, T!Goto, T!IInv, T!TypeOK, BoardsUnderWay
  <2> QED
    BY <1>2, <1>4, <2>1 DEF T!TunnelsFailed
<1>5. ASSUME NEW f \in T!Fetchers, T!ApplyTunnels(f)
      PROVE  BoardPromise!Next
  <2>1. told[f] = tunnelReply[f] /\ told' = [told EXCEPT ![f] = T!NoTunnel]
    BY <1>5 DEF T!ApplyTunnels, T!Goto, T!IInv, T!TypeOK, BoardsUnderWay
  <2>2. BoardPromise!Show(f)
    BY <1>5, <2>1 DEF T!ApplyTunnels, BoardPromise!Show
  <2> QED
    BY <2>2 DEF BoardPromise!Next
<1>10. ASSUME NEW f \in T!Fetchers, T!NothingAnswered(f)
       PROVE  BoardPromise!Next
  <2>1. told[f] = T!NoTunnel /\ told' = [told EXCEPT ![f] = T!NoTunnel]
    BY <1>10 DEF T!NothingAnswered, T!Goto, T!IInv, T!TypeOK, BoardsUnderWay
  <2>2. BoardPromise!Show(f)
    BY <1>10, <2>1 DEF T!NothingAnswered, BoardPromise!Show
  <2> QED
    BY <2>2 DEF BoardPromise!Next
<1>6. ASSUME NEW f \in T!Fetchers, T!EndFetch(f) \/ T!Raised(f)
      PROVE  BoardPromise!Next
  <2>1. told' = told
    BY <1>6 DEF T!EndFetch, T!Raised, T!Goto, T!IInv, T!TypeOK, BoardsUnderWay
  <2> QED
    BY <1>2, <1>6, <2>1 DEF T!EndFetch, T!Raised
<1>7. ASSUME NEW f \in T!Fetchers, T!Reconcile(f)
      PROVE  BoardPromise!Next
  BY <1>2, <1>7 DEF T!Reconcile, BoardsUnderWay
<1>8. CASE T!Elsewhere
  BY <1>2, <1>8 DEF T!Elsewhere, BoardsUnderWay
<1>9. CASE T!BeginPoll \/ T!Command
  <2>1. told' = told /\ UNCHANGED tunnels
    BY <1>9 DEF T!BeginPoll, T!Command, T!SetTunnel, T!Execute, T!ExecuteFailed,
                T!Enter, T!Goto, T!IInv, T!TypeOK, BoardsUnderWay
  <2> QED
    BY <1>2, <2>1
<1> QED
  BY <1>3, <1>4, <1>5, <1>6, <1>7, <1>8, <1>9, <1>10 DEF T!Next, T!Fetch

\* Of Tailscale's coroutines only the last step of a fetch touches what is shown.
LEMMA LinkMirrorStep ==
  S!Next => LinkPromise!Next \/ UNCHANGED LinkPromise!vars
<1> SUFFICES ASSUME S!Next
             PROVE  LinkPromise!Next \/ UNCHANGED LinkPromise!vars
  OBVIOUS
<1>1. ASSUME UNCHANGED shown
      PROVE  LinkPromise!Next
  <2>1. LinkPromise!Change
    BY <1>1 DEF LinkPromise!Change
  <2> QED
    BY <2>1 DEF LinkPromise!Next
<1>2. ASSUME NEW t \in S!Tasks, S!Connection(t)
      PROVE  LinkPromise!Next
  <2>1. LinkPromise!Refresh
    BY <1>2 DEF S!Connection, LinkPromise!Refresh
  <2> QED
    BY <2>1 DEF LinkPromise!Next
<1>3. ASSUME NEW t \in S!Tasks, S!FetchFailed(t)
      PROVE  LinkPromise!Next
  <2>1. UNCHANGED shown \/ LinkPromise!Forget
    BY <1>3 DEF S!FetchFailed, LinkPromise!Forget
  <2> QED
    BY <1>1, <2>1 DEF LinkPromise!Next
<1>4. ASSUME NEW t \in S!Tasks, S!Fetch(t)
      PROVE  LinkPromise!Next
  BY <1>1, <1>2, <1>3, <1>4 DEF S!Fetch, S!IsConfigured, S!AnyConfig, S!Config
<1>5. ASSUME NEW t \in Commands, S!Work(t)
      PROVE  LinkPromise!Next
  BY <1>1, <1>5 DEF S!Work, S!Look, S!SetConfig, S!Latest, S!Fail
<1> QED
  BY <1>1, <1>4, <1>5 DEF S!Next, S!Elsewhere, S!BeginPoll, S!Turn

-----------------------------------------------------------------------------
(* The theorems.                                                           *)

\* Whoever runs by itself tells the reconciler what the hub holds; with commands
\* in a row, a client is started only when nothing else will be up; and Tailscale's
\* commands stop writing in time.
THEOREM InductiveInvariant == Spec => [](T!IInv /\ C!IInv /\ S!IInv)
<1>1. Init => T!IInv /\ C!IInv /\ S!IInv
  BY VpnAssumption, TunnelsInit, ClientsInit, TailscaleInit DEF Init
<1>2. T!IInv /\ C!IInv /\ S!IInv /\ [Next]_vars => T!IInv' /\ C!IInv' /\ S!IInv'
  <2> SUFFICES ASSUME T!IInv, C!IInv, S!IInv, [Next]_vars
               PROVE  T!IInv' /\ C!IInv' /\ S!IInv'
    OBVIOUS
  <2>1. CASE OfTunnels(T!Next)
    BY <2>1, TunnelsStep, ClientsStutter, TailscaleStutter DEF OfTunnels
  <2>2. CASE OfClients(C!Next)
    BY <2>2, ClientsStep, TunnelsStutter, TailscaleStutter DEF OfClients
  <2>3. CASE OfTailscale(S!Next)
    BY <2>3, TailscaleStep, ClientsStutter, TunnelsStutter DEF OfTailscale
  <2>4. CASE UNCHANGED vars
    BY <2>4, ClientsStutter, TunnelsStutter, TailscaleStutter DEF vars
  <2> QED
    BY <2>1, <2>2, <2>3, <2>4 DEF Next
<1> QED
  BY <1>1, <1>2, PTL DEF Spec

\* For any number of tunnels: whatever was added, taken off or failed to be read,
\* a fetch that runs by itself and sends its signal leaves, with its reconciler,
\* the switches of the tunnels the hub holds; one that sends none leaves the hub
\* without tunnels (fetch_vpn_tunnels, _async_reconcile_vpn_tunnels).
THEOREM ReconcilerCatchesUp == Spec => []SwitchesFollowTheHub
<1>1. T!IInv => SwitchesFollowTheHub
  BY DEF SwitchesFollowTheHub, T!SwitchesFollowTheHub, T!IInv, T!TypeOK, T!OnItsOwn,
         T!Quiet, T!Resting
<1> QED
  BY <1>1, InductiveInvariant, PTL

\* For any number of clients: command after command without a failure, two are
\* never up at once (WireGuardSwitch._start, start_ovpn_client).
THEOREM NeverTwoUp == Spec => []OneAtATime
<1>1. C!IInv => OneAtATime
  BY DEF OneAtATime, C!OneAtATime, C!IInv, C!InARow
<1> QED
  BY <1>1, InductiveInvariant, PTL

\* For any dashboard: the tunnels that switches are made of and show were the
\* dashboard's, all of the same moment, or there are none; a switch that is turned
\* changes them only through a fetch (fetch_vpn_tunnels, set_vpn_tunnel).
LEMMA TunnelsWereTheRouters == Spec => BoardIsMirrored
<1>1. Init => BoardPromise!Init
  BY DEF Init, T!Init, BoardPromise!Init, BoardsUnderWay
<1>2. T!IInv /\ [Next]_vars => [BoardPromise!Next]_(BoardPromise!vars)
  <2> SUFFICES ASSUME T!IInv, [Next]_vars
               PROVE  BoardPromise!Next \/ UNCHANGED BoardPromise!vars
    OBVIOUS
  <2>1. CASE OfTunnels(T!Next)
    BY <2>1, BoardMirrorStep DEF OfTunnels
  <2>2. CASE UNCHANGED tunnelVars
    BY <2>2 DEF tunnelVars, BoardPromise!vars, BoardsUnderWay
  <2> QED
    BY <2>1, <2>2 DEF Next, OfClients, OfTailscale, vars
<1> QED
  BY <1>1, <1>2, InductiveInvariant, PTL DEF Spec, BoardIsMirrored, BoardPromise!Spec

\* The Tailscale switch shows what the link was, or that it is not known, however
\* many commands are under way and whatever they want (fetch_tailscale_state).
LEMMA LinkWasTheRouters == Spec => LinkIsMirrored
<1>1. Init => LinkPromise!Init
  BY DEF Init, S!Init, LinkPromise!Init
<1>2. [Next]_vars => [LinkPromise!Next]_(LinkPromise!vars)
  <2> SUFFICES ASSUME [Next]_vars
               PROVE  LinkPromise!Next \/ UNCHANGED LinkPromise!vars
    OBVIOUS
  <2>1. CASE OfTailscale(S!Next)
    BY <2>1, LinkMirrorStep DEF OfTailscale
  <2>2. CASE UNCHANGED tailscaleVars
    BY <2>2 DEF tailscaleVars, LinkPromise!vars
  <2> QED
    BY <2>1, <2>2 DEF Next, OfTunnels, OfClients, vars
<1> QED
  BY <1>1, <1>2, PTL DEF Spec, LinkIsMirrored, LinkPromise!Spec

\* Both together.
THEOREM VpnWasTheRouters == Spec => VpnIsMirrored
BY TunnelsWereTheRouters, LinkWasTheRouters DEF VpnIsMirrored

\* For any number of commands and any depth of the recursion: a connect or
\* disconnect has at most 2 * Depth + 8 steps to make, each of its own brings it
\* nearer to its end, and neither other commands nor the router's pages can set it
\* back (TailscaleModule.connect, disconnect).  That it makes them is fairness.
THEOREM TailscaleCommandsGetOn == Spec => CommandsGetOn
<1> DEFINE GetsOn(t) == tailscalePc[t] # "idle" =>
                          \/ S!StepsLeft(t)' < S!StepsLeft(t)
                          \/ UNCHANGED <<tailscalePc[t], depth[t]>>
<1>1. S!IInv /\ [Next]_vars => [\A t \in Commands : GetsOn(t)]_S!vars
  <2> SUFFICES ASSUME S!IInv, S!Next, NEW t \in Commands
               PROVE  GetsOn(t)
    BY DEF Next, OfTailscale, OfTunnels, OfClients, vars, tailscaleVars, S!vars
  <2> QED
    BY OwnStep, OthersStep
<1> QED
  BY <1>1, InductiveInvariant, PTL DEF Spec, CommandsGetOn, S!CommandsGetOn
=============================================================================
