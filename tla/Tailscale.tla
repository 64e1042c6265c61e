----------------------------- MODULE Tailscale -----------------------------
(***************************************************************************)
(* The Tailscale switch: connect and disconnect look at the router's state *)
(* and write the configuration until it is the state that was asked for,   *)
(* a bounded number of times; the fetch behind them, and the poll's, reads *)
(* state, configuration and state again.                                   *)
(*                                                                         *)
(* Everything connect and disconnect raise for want of success is          *)
(* swallowed by _invoke_api like a call that failed.                       *)
(*                                                                         *)
(* External: the router, which needs time to follow its configuration and  *)
(* may lose or make the connection by itself while it is enabled.          *)
(***************************************************************************)
EXTENDS Naturals

CONSTANTS Commands, \* coroutines that turn the switch
          Depth     \* how often connect and disconnect call themselves (10)

VARIABLES
  enabled, \* external: the configuration
  link,    \* external: what get_status says
  shown,   \* _tailscale_config and _tailscale_connection
  pc,      \* where each coroutine is suspended
  want,    \* what each command was asked for
  depth    \* of the recursion, of each command

vars == <<enabled, link, shown, pc, want, depth>>

Tasks == {"poll"} \cup Commands

\* The values of TailscaleConnection, and the empty status.
Links == {"empty", "disconnected", "login_required", "authorization_required",
          "connected", "connecting"}

Up == {"connected", "connecting"}

\* What a router that is left alone comes to say.
Settled == enabled \/ link = "empty"

Init ==
  /\ enabled \in BOOLEAN
  /\ link \in Links /\ Settled
  /\ shown \in {"unknown", IF link = "connected" THEN "on" ELSE "off"}
  /\ pc = [t \in Tasks |-> "idle"]
  /\ want = [t \in Commands |-> "connect"]
  /\ depth = [t \in Commands |-> 0]

Goto(t, where) == pc' = [pc EXCEPT ![t] = where]

Elsewhere ==
  /\ \/ enabled' = ~enabled /\ UNCHANGED link
     \/ /\ link' \in (IF enabled THEN Links ELSE {"empty"})
        /\ UNCHANGED enabled
  /\ UNCHANGED <<shown, pc, want, depth>>

-----------------------------------------------------------------------------
(* connect and disconnect.                                                 *)

Turn(t, way) ==
  /\ pc[t] = "idle"
  /\ want' = [want EXCEPT ![t] = way]
  /\ depth' = [depth EXCEPT ![t] = 0]
  /\ Goto(t, "status")
  /\ UNCHANGED <<enabled, link, shown>>

\* What a call of connect or disconnect does with the status it reads: it
\* writes and calls itself, waits for a connection that is being made, or is
\* over, by success or (any other status, a login that is required) by raising;
\* after either the fetch follows.
AfterStatus(way, said) ==
  CASE way = "connect" /\ said = "empty"      -> "set_config"
    [] way = "connect" /\ said = "connecting" -> "latest"
    [] way = "disconnect" /\ said \in Up      -> "set_config"
    [] OTHER                                  -> "is_configured"

\* More than Depth calls raise before they look.
Look(t) ==
  /\ pc[t] = "status"
  /\ Goto(t, IF depth[t] > Depth THEN "is_configured"
             ELSE AfterStatus(want[t], link))
  /\ UNCHANGED <<enabled, link, shown, want, depth>>

\* Faulty variant: the depth is handed on as it is.
SetConfigSameDepth(t) ==
  /\ pc[t] = "set_config"
  /\ enabled' = (want[t] = "connect")
  /\ Goto(t, "status")
  /\ UNCHANGED <<link, shown, want, depth>>

\* The router has stored the configuration; it follows it in its own time.
SetConfig(t) ==
  /\ pc[t] = "set_config"
  /\ enabled' = (want[t] = "connect")
  /\ depth' = [depth EXCEPT ![t] = @ + 1]
  /\ Goto(t, "status")
  /\ UNCHANGED <<link, shown, want>>

\* Three seconds later: connected or not, connect is over.
Latest(t) ==
  /\ pc[t] = "latest"
  /\ Goto(t, "is_configured")
  /\ UNCHANGED <<enabled, link, shown, want, depth>>

\* A call fails, and connect or disconnect with it; a write may have been
\* carried out.  ConfigEntryAuthFailed, of a renewal before the first call,
\* ends the command without a fetch.
Fail(t) ==
  /\ \/ /\ pc[t] \in {"status", "set_config", "latest"}
        /\ Goto(t, "is_configured")
     \/ /\ pc[t] = "status" /\ depth[t] = 0
        /\ Goto(t, "idle")
  /\ enabled' \in IF pc[t] = "set_config"
                  THEN {enabled, want[t] = "connect"} ELSE {enabled}
  /\ UNCHANGED <<link, shown, want, depth>>

-----------------------------------------------------------------------------
(* The fetch, of the poll or at the end of a command.                      *)

BeginPoll ==
  /\ pc["poll"] = "idle"
  /\ Goto("poll", "is_configured")
  /\ UNCHANGED <<enabled, link, shown, want, depth>>

\* An empty status makes is_configured ask for the configuration too.
IsConfigured(t) ==
  /\ pc[t] = "is_configured"
  /\ Goto(t, IF link = "empty" THEN "any_config" ELSE "get_config")
  /\ UNCHANGED <<enabled, link, shown, want, depth>>

AnyConfig(t) ==
  /\ pc[t] = "any_config"
  /\ Goto(t, "get_config")
  /\ UNCHANGED <<enabled, link, shown, want, depth>>

Config(t) ==
  /\ pc[t] = "get_config"
  /\ Goto(t, "connection")
  /\ UNCHANGED <<enabled, link, shown, want, depth>>

\* Faulty variant: a connection that is being made counts as one.
ConnectionUp(t) ==
  /\ pc[t] = "connection"
  /\ shown' = IF link \in Up THEN "on" ELSE "off"
  /\ Goto(t, "idle")
  /\ UNCHANGED <<enabled, link, want, depth>>

\* get_connection, and what fetch_tailscale_state makes of the details.
Connection(t) ==
  /\ pc[t] = "connection"
  /\ shown' = IF link = "connected" THEN "on" ELSE "off"
  /\ Goto(t, "idle")
  /\ UNCHANGED <<enabled, link, want, depth>>

\* A failure leaves no details; an exception that _invoke_optional_api lets
\* pass leaves those there were.
FetchFailed(t) ==
  /\ pc[t] \in {"is_configured", "any_config", "get_config", "connection"}
  /\ shown' \in {"unknown", shown}
  /\ Goto(t, "idle")
  /\ UNCHANGED <<enabled, link, want, depth>>

-----------------------------------------------------------------------------
Work(t)  == Look(t) \/ SetConfig(t) \/ Latest(t) \/ Fail(t)

Fetch(t) ==
  \/ IsConfigured(t) \/ AnyConfig(t) \/ Config(t) \/ Connection(t)
  \/ FetchFailed(t)

Next ==
  \/ Elsewhere \/ BeginPoll
  \/ \E t \in Commands :
       (\E way \in {"connect", "disconnect"} : Turn(t, way)) \/ Work(t)
  \/ \E t \in Tasks : Fetch(t)

Spec == Init /\ [][Next]_vars

-----------------------------------------------------------------------------
(* Properties.                                                             *)

\* A command ends, whatever the router says and however often another command
\* or its own pages undo what was written (the depth of connect and
\* disconnect).
CommandsEnd ==
  \A t \in Commands : pc[t] # "idle" ~> pc[t] = "idle"

\* ... because every step of its own brings it nearer to its end: it has a number
\* of steps left that depends on Depth alone, and nobody else's step adds to it.
Rest == [idle |-> 0, connection |-> 1, get_config |-> 2, any_config |-> 3,
         is_configured |-> 4, latest |-> 5]

StepsLeft(t) ==
  LET writes == Depth + 1 - depth[t]
  IN  IF pc[t] = "status"          THEN 2 * writes + 6
      ELSE IF pc[t] = "set_config" THEN 2 * writes + 5
      ELSE Rest[pc[t]]

CommandsGetOn ==
  [][\A t \in Commands :
       pc[t] # "idle" => \/ StepsLeft(t)' < StepsLeft(t)
                         \/ UNCHANGED <<pc[t], depth[t]>>]_vars

\* What makes it inductive: the variables have their types, and no write comes
\* after the last look.
TypeOK ==
  /\ enabled \in BOOLEAN /\ link \in Links /\ shown \in {"on", "off", "unknown"}
  /\ pc \in [Tasks -> {"status", "set_config"} \cup DOMAIN Rest]
  /\ pc["poll"] \notin {"status", "set_config", "latest"}
  /\ want \in [Commands -> {"connect", "disconnect"}]
  /\ depth \in [Commands -> 0..(Depth + 1)]

IInv == TypeOK /\ \A t \in Commands : pc[t] = "set_config" => depth[t] <= Depth

\* When the connection is left alone and no command runs any more, the switch
\* shows it again and again (fetch_tailscale_state).
LinkIsShown ==
  (/\ <>[][UNCHANGED link]_vars
   /\ <>[](\A t \in Commands : pc[t] = "idle"))
    => []<>(shown = IF link = "connected" THEN "on" ELSE "off")
=============================================================================
