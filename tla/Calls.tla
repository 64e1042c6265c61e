------------------------------- MODULE Calls -------------------------------
(***************************************************************************)
(* What the hub's call wrappers promise to their callers, with no session, *)
(* no tokens and no retries in sight.  A coroutine invokes a router call   *)
(* and later gets one of four answers:                                     *)
(*                                                                         *)
(*   "value"        the router ran the call and its reply arrived;         *)
(*   "none"         anything else that the wrapper swallows (the call may  *)
(*                  or may not have run on the router);                    *)
(*   "auth_failed"  ConfigEntryAuthFailed was raised;                      *)
(*   "raised"       some other exception left the wrapper.                 *)
(*                                                                         *)
(* The hub also keeps one bit of link health, "suspect": a guarded call    *)
(* that fails sets it and only the success of a guarded call clears it.    *)
(* Module Session refines this specification; Polling builds on it.        *)
(***************************************************************************)
EXTENDS Naturals

CONSTANTS Mandatory,  \* coroutines that call through _invoke_api
          Optional,   \* coroutines that call through _invoke_optional_api
          Wifi        \* coroutines inside fetch_wifi_interfaces

VARIABLES status,     \* what each coroutine's current or last call came to
          executed,   \* how often the router ran that call
          wary,       \* the guarded calls invoked while the link was suspect
          suspect     \* the hub's link health bit

vars == <<status, executed, wary, suspect>>

Tasks == Mandatory \cup Optional \cup Wifi

\* The coroutines whose wrapper looks at the health bit before it calls.
Guarded == Mandatory \cup Wifi

Init ==
  /\ status = [t \in Tasks |-> "fresh"]
  /\ executed = [t \in Tasks |-> 0]
  /\ wary = {}
  /\ suspect = FALSE

Invoke(t) ==
  /\ status[t] # "busy"
  /\ status' = [status EXCEPT ![t] = "busy"]
  /\ executed' = [executed EXCEPT ![t] = 0]
  /\ wary' = IF suspect /\ t \in Guarded THEN wary \cup {t} ELSE wary \ {t}
  /\ UNCHANGED suspect

Execute(t) ==
  /\ status[t] = "busy"
  /\ executed[t] = 0
  /\ executed' = [executed EXCEPT ![t] = 1]
  /\ UNCHANGED <<status, wary, suspect>>

\* The call is over; what it knew when it began goes with it.
Forget(t) ==
  /\ wary' = wary \ {t}
  /\ UNCHANGED executed

ReturnValue(t) ==
  /\ status[t] = "busy"
  /\ executed[t] = 1
  /\ status' = [status EXCEPT ![t] = "value"]
  /\ suspect' = (suspect /\ t \in Optional)
  /\ Forget(t)

\* A failed guarded call leaves the link suspect.  An optional call may do so
\* (a rejected token) or not; a missing wifi API is not held against the link.
ReturnNone(t) ==
  /\ status[t] = "busy"
  /\ status' = [status EXCEPT ![t] = "none"]
  /\ suspect' \in IF t \in Mandatory THEN {TRUE} ELSE {suspect, TRUE}
  /\ Forget(t)

\* Only a call that began on a suspect link can end in ConfigEntryAuthFailed,
\* and it was never sent to the router.
RaiseAuthFailed(t) ==
  /\ status[t] = "busy"
  /\ t \in Mandatory
  /\ t \in wary
  /\ executed[t] = 0
  /\ status' = [status EXCEPT ![t] = "auth_failed"]
  /\ Forget(t)
  /\ UNCHANGED suspect

RaiseOther(t) ==
  /\ status[t] = "busy"
  /\ t \in Optional
  /\ status' = [status EXCEPT ![t] = "raised"]
  /\ Forget(t)
  /\ UNCHANGED suspect

Next ==
  \E t \in Tasks :
    \/ Invoke(t)
    \/ Execute(t)
    \/ ReturnValue(t)
    \/ ReturnNone(t)
    \/ RaiseAuthFailed(t)
    \/ RaiseOther(t)

Spec == Init /\ [][Next]_vars
=============================================================================
