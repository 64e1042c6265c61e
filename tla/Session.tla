------------------------------ MODULE Session ------------------------------
(***************************************************************************)
(* The session layer of the hub: GLinetHub._invoke_api,                    *)
(* _invoke_optional_api, the private copy of the same logic inside         *)
(* fetch_wifi_interfaces, refresh_session_token and the login they call.   *)
(*                                                                         *)
(* Home Assistant runs everything on one event loop, so the code between   *)
(* two awaits is one step.  Several coroutines (the poll's fetches, in     *)
(* parallel mode all of them at once, and the commands of services and     *)
(* switches) share the flags _token_error and _connect_error and the       *)
(* client's session id.  Each call is split at its awaits: the request is  *)
(* under way, the router has answered, the coroutine resumes.              *)
(*                                                                         *)
(* The router and the network are external: a session may expire at any    *)
(* time, a login may be refused, a request may be refused, answered with   *)
(* an error, lost before the router ran it or lost afterwards.  "faults"   *)
(* counts those events; MaxFaults bounds them.                             *)
(***************************************************************************)
EXTENDS Naturals

CONSTANTS Mandatory,  \* coroutines that call through _invoke_api
          Optional,   \* coroutines that call through _invoke_optional_api
          Wifi,       \* coroutines inside fetch_wifi_interfaces
          SessionIds, \* what the router may give out as a session id
          MaxFaults   \* bound on the misbehaviour of router and network

ASSUME SessionAssumption ==
  /\ Mandatory \cap Optional = {}
  /\ Mandatory \cap Wifi = {}
  /\ Optional \cap Wifi = {}
  /\ SessionIds # {}
  /\ MaxFaults \in Nat

\* No session: what a coroutine holds while it is idle or waits for a login.
CONSTANT NoSession
ASSUME NoSessionAssumption == NoSession \notin SessionIds

VARIABLES
  token_error, connect_error,  \* GLinetHub._token_error, _connect_error
  wifi_supported,              \* GLinetHub._wifi_supported
  sid,                         \* GLinetApiClient.sid
  dead,                        \* ids of sessions the router has dropped
  faults,                      \* how often the environment misbehaved
  pc,                          \* where each coroutine is suspended
  attempt,                     \* its login attempt (0: it does not renew)
  refused,                     \* history: logins the router refused it
  held,                        \* session id its request or login reply carries
  reply,                       \* the answer on its way back
  runs,                        \* how often the router ran its call
  outcome                      \* what its last call returned or raised

flags  == <<token_error, connect_error, wifi_supported>>
vars   == <<token_error, connect_error, wifi_supported, sid, dead, faults, pc,
            attempt, refused, held, reply, runs, outcome>>

Tasks    == Mandatory \cup Optional \cup Wifi
Renewers == Mandatory \cup Wifi
Attempts == 3

PcStates == {"idle", "login", "login_done", "request", "request_done"}
Replies  == {"nothing", "granted", "refused", "ok", "denied", "error",
             "missing", "lost"}
Outcomes == {"fresh", "pending", "value", "none", "auth_failed", "raised"}

Link == token_error \/ connect_error

-----------------------------------------------------------------------------
FirstSession == CHOOSE s \in SessionIds : TRUE

\* async_initialize_hub has authenticated and fetched the router's identity.
Init ==
  /\ token_error = FALSE
  /\ connect_error = FALSE
  /\ wifi_supported = TRUE
  /\ sid = FirstSession
  /\ dead = {}
  /\ faults = 0
  /\ pc = [t \in Tasks |-> "idle"]
  /\ attempt = [t \in Tasks |-> 0]
  /\ refused = [t \in Tasks |-> 0]
  /\ held = [t \in Tasks |-> NoSession]
  /\ reply = [t \in Tasks |-> "nothing"]
  /\ runs = [t \in Tasks |-> 0]
  /\ outcome = [t \in Tasks |-> "fresh"]

Fault == faults < MaxFaults /\ faults' = faults + 1

-----------------------------------------------------------------------------
(* The router and the network.                                             *)

Answer(t, where, what) ==
  /\ pc' = [pc EXCEPT ![t] = where]
  /\ reply' = [reply EXCEPT ![t] = what]

\* The sessions somebody on this side still knows.
Known == {sid} \cup {held[t] : t \in Tasks}

\* The router drops some sessions: they time out, or it reboots.
ExpireSessions ==
  /\ Fault
  /\ \E lost \in SUBSET (Known \ {NoSession}) :
       /\ ~ lost \subseteq dead
       /\ dead' = dead \cup lost
  /\ UNCHANGED <<flags, sid, pc, attempt, refused, held, reply, runs, outcome>>

\* A new session's id is one that nobody knows yet.
NewSession == CHOOSE new \in SessionIds : new \notin Known

GrantLogin(t) ==
  /\ pc[t] = "login"
  /\ \E new \in SessionIds : new \notin Known
  /\ held' = [held EXCEPT ![t] = NewSession]
  /\ Answer(t, "login_done", "granted")
  /\ UNCHANGED <<flags, sid, dead, faults, attempt, refused, runs, outcome>>

RefuseLogin(t) ==
  /\ pc[t] = "login"
  /\ Fault
  /\ refused' = [refused EXCEPT ![t] = @ + 1]
  /\ Answer(t, "login_done", "refused")
  /\ UNCHANGED <<flags, sid, dead, attempt, held, runs, outcome>>

\* A session the router may have opened all the same is known to nobody.
LoseLogin(t) ==
  /\ pc[t] = "login"
  /\ Fault
  /\ Answer(t, "login_done", "lost")
  /\ UNCHANGED <<flags, sid, dead, attempt, refused, held, runs, outcome>>

ServeRequest(t) ==
  /\ pc[t] = "request"
  /\ held[t] \notin dead
  /\ runs' = [runs EXCEPT ![t] = @ + 1]
  /\ Answer(t, "request_done", "ok")
  /\ UNCHANGED <<flags, sid, dead, faults, attempt, refused, held, outcome>>

\* Error -1 or -32000: the session is unknown, or access is denied.
DenyRequest(t) ==
  /\ pc[t] = "request"
  /\ IF held[t] \in dead THEN UNCHANGED faults ELSE Fault
  /\ Answer(t, "request_done", "denied")
  /\ UNCHANGED <<flags, sid, dead, attempt, refused, held, runs, outcome>>

\* Any other negative code; "missing" is -32601, Method not found.
FailRequest(t) ==
  /\ pc[t] = "request"
  /\ Fault
  /\ \/ Answer(t, "request_done", "error")
     \/ t \in Wifi /\ Answer(t, "request_done", "missing")
  /\ UNCHANGED <<flags, sid, dead, attempt, refused, held, runs, outcome>>

\* No reply in time, or the connection breaks, before or after the call ran.
LoseRequest(t) ==
  /\ pc[t] = "request"
  /\ Fault
  /\ \/ UNCHANGED runs
     \/ held[t] \notin dead /\ runs' = [runs EXCEPT ![t] = @ + 1]
  /\ Answer(t, "request_done", "lost")
  /\ UNCHANGED <<flags, sid, dead, attempt, refused, held, outcome>>

-----------------------------------------------------------------------------
(* The coroutines.                                                         *)

\* An id nobody knows any more needs no record of whether it is dead.
ForgetSessions == dead' = dead \cap Known'

Resume(t, where) ==
  /\ pc' = [pc EXCEPT ![t] = where]
  /\ reply' = [reply EXCEPT ![t] = "nothing"]

Finish(t, result) ==
  /\ Resume(t, "idle")
  /\ attempt' = [attempt EXCEPT ![t] = 0]
  /\ held' = [held EXCEPT ![t] = NoSession]
  /\ refused' = [refused EXCEPT ![t] = IF result = "auth_failed" THEN @ ELSE 0]
  /\ outcome' = [outcome EXCEPT ![t] = result]

\* Faulty variant: renew before every guarded call.
MustRenewAlways(t) == t \in Renewers

\* Both wrappers that renew do so when either flag is up.
MustRenew(t) == t \in Renewers /\ Link

Begin(t) ==
  /\ pc[t] = "idle"
  /\ Resume(t, IF MustRenew(t) THEN "login" ELSE "request")
  /\ attempt' = [attempt EXCEPT ![t] = IF MustRenew(t) THEN 1 ELSE 0]
  /\ refused' = [refused EXCEPT ![t] = 0]
  /\ held' = [held EXCEPT ![t] = IF MustRenew(t) THEN NoSession ELSE sid]
  /\ runs' = [runs EXCEPT ![t] = 0]
  /\ outcome' = [outcome EXCEPT ![t] = "pending"]
  /\ UNCHANGED <<flags, sid, dead, faults>>

\* Faulty variant: the new sid is not stored.
LoginGrantedUnused(t) ==
  /\ pc[t] = "login_done"
  /\ reply[t] = "granted"
  /\ held' = [held EXCEPT ![t] = sid]
  /\ Resume(t, "request")
  /\ UNCHANGED <<flags, sid, faults, attempt, refused, runs, outcome>>
  /\ ForgetSessions

\* authenticate stores the new sid, and the call goes out with it at once.
LoginGranted(t) ==
  /\ pc[t] = "login_done"
  /\ reply[t] = "granted"
  /\ sid' = held[t]
  /\ Resume(t, "request")
  /\ UNCHANGED <<flags, faults, attempt, refused, held, runs, outcome>>
  /\ ForgetSessions

MayRetry(t) == attempt[t] < Attempts

RetryLogin(t) ==
  /\ pc[t] = "login_done"
  /\ reply[t] = "refused"
  /\ MayRetry(t)
  /\ attempt' = [attempt EXCEPT ![t] = @ + 1]
  /\ Resume(t, "login")
  /\ UNCHANGED <<flags, sid, dead, faults, refused, held, runs, outcome>>

\* Faulty variant: gives up one refusal early.
GiveUpOnSecondRefusal(t) == attempt[t] >= Attempts - 1

GiveUp(t) == attempt[t] = Attempts

\* The third refusal raises ConfigEntryAuthFailed.  _invoke_api lets it pass,
\* flags untouched; the catch-all of fetch_wifi_interfaces swallows it.
RenewalRefused(t) ==
  /\ pc[t] = "login_done"
  /\ reply[t] = "refused"
  /\ GiveUp(t)
  /\ Finish(t, IF t \in Wifi THEN "none" ELSE "auth_failed")
  /\ connect_error' = (connect_error \/ t \in Wifi)
  /\ UNCHANGED <<token_error, wifi_supported, sid, faults, runs>>
  /\ ForgetSessions

\* A login that times out or breaks is not retried.
RenewalLost(t) ==
  /\ pc[t] = "login_done"
  /\ reply[t] = "lost"
  /\ connect_error' = TRUE
  /\ Finish(t, "none")
  /\ UNCHANGED <<token_error, wifi_supported, sid, faults, runs>>
  /\ ForgetSessions

\* Faulty variant: a success forgets to clear the token flag.
ReturnValueKeepingToken(t) ==
  /\ pc[t] = "request_done"
  /\ reply[t] = "ok"
  /\ Finish(t, "value")
  /\ connect_error' = (connect_error /\ t \in Optional)
  /\ UNCHANGED <<token_error, wifi_supported, sid, faults, runs>>
  /\ ForgetSessions

\* A guarded success clears both flags; an optional one clears neither.
ReturnValue(t) ==
  /\ pc[t] = "request_done"
  /\ reply[t] = "ok"
  /\ Finish(t, "value")
  /\ token_error' = (token_error /\ t \in Optional)
  /\ connect_error' = (connect_error /\ t \in Optional)
  /\ wifi_supported' \in {wifi_supported, wifi_supported \/ t \in Wifi}
  /\ UNCHANGED <<sid, faults, runs>>
  /\ ForgetSessions

\* Faulty variant: a rejected token is dropped like any optional failure.
ReturnDeniedSilently(t) ==
  /\ pc[t] = "request_done"
  /\ reply[t] = "denied"
  /\ Finish(t, "none")
  /\ UNCHANGED <<flags, sid, faults, runs>>
  /\ ForgetSessions

\* A rejected token.  The wifi fetch tests for NonZeroResponse before it tests
\* for its subclasses TokenError and AuthenticationError, so there the
\* rejection counts as a router error and _token_error stays as it was.
ReturnDenied(t) ==
  /\ pc[t] = "request_done"
  /\ reply[t] = "denied"
  /\ Finish(t, "none")
  /\ token_error' = (token_error \/ t \notin Wifi)
  /\ connect_error' = (connect_error \/ t \in Renewers)
  /\ UNCHANGED <<wifi_supported, sid, faults, runs>>
  /\ ForgetSessions

\* Method not found switches the wifi polls off and leaves the flags alone;
\* to every other caller it is one more router error.
ReturnError(t) ==
  /\ pc[t] = "request_done"
  /\ reply[t] \in {"error", "missing"}
  /\ Finish(t, "none")
  /\ IF t \in Wifi /\ reply[t] = "missing"
     THEN wifi_supported' = FALSE /\ UNCHANGED connect_error
     ELSE /\ connect_error' = (connect_error \/ t \in Renewers)
          /\ UNCHANGED wifi_supported
  /\ UNCHANGED <<token_error, sid, faults, runs>>
  /\ ForgetSessions

\* Faulty variant: a lost request is sent again.
ReturnLostResend(t) ==
  /\ pc[t] = "request_done"
  /\ reply[t] = "lost"
  /\ Resume(t, "request")
  /\ UNCHANGED <<flags, sid, dead, faults, attempt, refused, held, runs,
                 outcome>>

\* A lost reply is never asked for again.  An aiohttp ClientError is not among
\* the exceptions _invoke_optional_api swallows: it leaves the wrapper.
ReturnLost(t) ==
  /\ pc[t] = "request_done"
  /\ reply[t] = "lost"
  /\ \/ Finish(t, "none")
     \/ t \in Optional /\ Finish(t, "raised")
  /\ connect_error' = (connect_error \/ t \in Renewers)
  /\ UNCHANGED <<token_error, wifi_supported, sid, faults, runs>>
  /\ ForgetSessions

-----------------------------------------------------------------------------
Network(t) ==
  \/ GrantLogin(t) \/ RefuseLogin(t) \/ LoseLogin(t)
  \/ ServeRequest(t) \/ DenyRequest(t) \/ FailRequest(t) \/ LoseRequest(t)

Coroutine(t) ==
  \/ LoginGranted(t) \/ RetryLogin(t) \/ RenewalRefused(t) \/ RenewalLost(t)
  \/ ReturnValue(t) \/ ReturnDenied(t) \/ ReturnError(t) \/ ReturnLost(t)

Next ==
  \/ ExpireSessions
  \/ \E t \in Tasks : Begin(t) \/ Network(t) \/ Coroutine(t)

Spec == Init /\ [][Next]_vars

\* Every request is answered or times out, the event loop resumes every
\* coroutine, and the poll timer starts the guarded fetches over and over,
\* except those that ended in ConfigEntryAuthFailed: the coordinator does not
\* reschedule itself after that.
KeepsPolling(t) == outcome[t] # "auth_failed" /\ Begin(t)

Fairness ==
  /\ \A t \in Tasks : WF_vars(Network(t)) /\ WF_vars(Coroutine(t))
  /\ \A t \in Mandatory : WF_vars(KeepsPolling(t))

FairSpec == Spec /\ Fairness

-----------------------------------------------------------------------------
(* Properties.                                                             *)

\* The variables have their types.
TypeOK ==
  /\ token_error \in BOOLEAN
  /\ connect_error \in BOOLEAN
  /\ wifi_supported \in BOOLEAN
  /\ sid \in SessionIds
  /\ dead \in SUBSET SessionIds
  /\ faults \in 0..MaxFaults
  /\ pc \in [Tasks -> PcStates]
  /\ attempt \in [Tasks -> 0..Attempts]
  /\ refused \in [Tasks -> 0..Attempts]
  /\ held \in [Tasks -> SessionIds \cup {NoSession}]
  /\ reply \in [Tasks -> Replies]
  /\ runs \in [Tasks -> Nat]
  /\ outcome \in [Tasks -> Outcomes]

\* A call reaches the router at most once however it fails, a call that
\* returned a value ran, and one that ended in ConfigEntryAuthFailed did not:
\* no wrapper repeats a command whose reply was lost.
AtMostOnce ==
  \A t \in Tasks :
    /\ runs[t] <= 1
    /\ outcome[t] = "value" => runs[t] = 1
    /\ outcome[t] = "auth_failed" => runs[t] = 0

\* ConfigEntryAuthFailed (which asks the user for credentials) is raised only
\* after the router itself refused three logins in this very call; time-outs
\* and lost replies never add up to it.
ReauthOnlyAfterThreeRefusals ==
  \A t \in Tasks : outcome[t] = "auth_failed" => refused[t] = 3

\* While router and network behave, no coroutine logs in again: polling does
\* not churn sessions, and no flag is raised by itself.
NoLoginWithoutFault ==
  faults = 0 => ~Link /\ wifi_supported /\ \A t \in Tasks : attempt[t] = 0

\* A session the router no longer accepts is replaced, however the coroutines
\* interleave (one's success may clear the flag another's rejection set), or a
\* renewal was refused three times.
StaleSessionIsRenewed ==
  (sid \in dead) ~>
    (sid \notin dead \/ \E t \in Tasks : outcome[t] = "auth_failed")

\* A raised flag comes down again, or a renewal was refused three times.
LinkRecovers ==
  Link ~> (~Link \/ \E t \in Tasks : outcome[t] = "auth_failed")

\* The inductive strengthening.  What a coroutine holds at each await ...
TaskInv(t) ==
  /\ pc[t] = "idle" <=> outcome[t] # "pending"
  /\ pc[t] = "idle" => attempt[t] = 0 /\ held[t] = NoSession
  /\ pc[t] = "login" => attempt[t] > 0 /\ refused[t] + 1 = attempt[t]
  /\ pc[t] = "login_done" =>
       /\ reply[t] \in {"granted", "refused", "lost"}
       /\ attempt[t] > 0
       /\ reply[t] = "refused" => refused[t] = attempt[t]
       /\ reply[t] = "granted" => held[t] \in SessionIds
  /\ attempt[t] > 0 => t \in Renewers
  /\ pc[t] = "request" => held[t] \in SessionIds
  /\ pc[t] = "request_done" =>
       reply[t] \in {"ok", "denied", "error", "missing", "lost"}
  /\ pc[t] \in {"login", "login_done", "request"} => runs[t] = 0
  /\ runs[t] <= 1
  /\ reply[t] = "ok" => runs[t] = 1
  /\ outcome[t] = "value" => runs[t] = 1
  /\ outcome[t] = "auth_failed" => runs[t] = 0 /\ refused[t] = Attempts

\* ... and that nothing is amiss as long as the environment behaves.
QuietInv ==
  faults = 0 =>
    /\ ~token_error /\ ~connect_error /\ wifi_supported /\ dead = {}
    /\ \A t \in Tasks :
         /\ pc[t] \notin {"login", "login_done"}
         /\ attempt[t] = 0
         /\ reply[t] \in {"nothing", "ok"}

IInv == TypeOK /\ (\A t \in Tasks : TaskInv(t)) /\ QuietInv

\* The wrappers keep the promise of module Calls.
StatusOf == [t \in Tasks |-> IF pc[t] = "idle" THEN outcome[t] ELSE "busy"]
WaryOf   == {t \in Tasks : attempt[t] > 0}

Abstract == INSTANCE Calls WITH
  status <- StatusOf, executed <- runs, wary <- WaryOf, suspect <- Link

ImplementsCalls == Abstract!Spec
=============================================================================
