------------------------------ MODULE Polling ------------------------------
(***************************************************************************)
(* One polling cycle of the coordinator: GLinetHub._async_update_data and  *)
(* fetch_all_data, with Home Assistant's DataUpdateCoordinator around it.  *)
(*                                                                         *)
(* A cycle runs the fetches of Plan, one after the other or (option        *)
(* "parallel_requests") all at once under asyncio.gather; then, outside of *)
(* the gather, the SMS fetch.  Every fetch is a coroutine that makes one   *)
(* or more router calls; the calls behave as module Calls says, which is   *)
(* what module Session proves of the wrappers.                             *)
(*                                                                         *)
(* The coordinator is external.  It arms its timer again after a cycle     *)
(* that succeeded or ended in UpdateFailed; after ConfigEntryAuthFailed it *)
(* asks for reauthentication and does not arm it.  Commands may still      *)
(* request a refresh at any time.                                          *)
(***************************************************************************)
EXTENDS Naturals, Sequences

CONSTANTS Mandatory,  \* fetches that call through _invoke_api
          Optional,   \* fetches that call through _invoke_optional_api
          Wifi,       \* the wifi fetch, or nothing
          Base,       \* the fetches every cycle begins with, in order
          WifiPlan,   \* the wifi fetch as a sequence
          Features,   \* the fetches of the enabled features, in order
          Upgrade,    \* fetch_upgrade_info
          Sms,        \* fetch_sms_messages
          CallsOf,    \* how many calls a fetch makes
          NeedsFirst, \* fetches that return early when their first call fails
          Modes,      \* what option parallel_requests may be set to
          Day         \* ticks between two firmware checks (86400 seconds)

VARIABLES status, executed, wary, suspect   \* of module Calls

Call == INSTANCE Calls

Fetches == Mandatory \cup Optional \cup Wifi

ASSUME PollingAssumption ==
  /\ Mandatory \cap Optional = {}
  /\ Wifi \cap (Mandatory \cup Optional) = {}
  /\ Base \in Seq(Mandatory \cup Optional) /\ Len(Base) >= 2
  /\ WifiPlan \in Seq(Wifi)
  /\ Features \in Seq(Mandatory \cup Optional)
  /\ \A i \in DOMAIN Base : Base[i] \notin {Upgrade, Sms}
  /\ \A i \in DOMAIN Features : Features[i] \notin {Upgrade, Sms}
  /\ Upgrade \in Optional /\ Sms \in Optional /\ Upgrade # Sms
  /\ CallsOf \in [Fetches -> Nat \ {0}]
  /\ NeedsFirst \subseteq Fetches
  /\ Modes \in SUBSET BOOLEAN \ {{}}
  /\ Day \in Nat \ {0}

VARIABLES
  parallel,  \* option parallel_requests of this setup of the entry
  wifi_supported, \* GLinetHub._wifi_supported
  plan,      \* the fetches of this cycle, in order
  phase,     \* what the coordinator's update is doing
  queue,     \* sequential mode: the fetches still to be awaited
  active,    \* the fetches that are running
  made,      \* how many calls each fetch of this cycle has made
  tried,     \* history: fetches of this cycle that ran to their end or raised
  check,     \* run_upgrade_check of this cycle
  age,       \* ticks since _last_upgrade_check (Day: due)
  last,      \* how the last cycle ended
  armed,     \* the coordinator's timer is armed
  reauth,    \* a reauthentication flow was requested
  ran,       \* history: ticks since Upgrade last ran (Day: long ago)
  lost       \* history: the cycle in which it ran ended before its time was
             \* stored

calls       == <<status, executed, wary, suspect>>
coordinator == <<last, armed, reauth>>
setting     == <<parallel, wifi_supported, plan>>
history     == <<ran, lost>>
vars ==
  <<calls, coordinator, setting, phase, queue, active,
    made, tried, check, age, history>>

Results == {"never", "ok", "auth_failed", "update_failed"}
Elements(seq) == {seq[i] : i \in DOMAIN seq}

\* tasks.insert(2, fetch_upgrade_info()) when the last check is a day old.
Planned(due) ==
  LET tasks == IF wifi_supported THEN Base \o WifiPlan ELSE Base
  IN  (IF due
       THEN SubSeq(tasks, 1, 2) \o <<Upgrade>> \o SubSeq(tasks, 3, Len(tasks))
       ELSE tasks)
        \o Features

-----------------------------------------------------------------------------
\* The hub has just been set up and nothing has been polled yet.
Init ==
  /\ Call!Init
  /\ parallel \in Modes
  /\ wifi_supported = TRUE
  /\ plan = <<>>
  /\ phase = "idle"
  /\ queue = <<>>
  /\ active = {}
  /\ made = [f \in Fetches |-> 0]
  /\ tried = {}
  /\ check = FALSE
  /\ age = Day
  /\ last = "never"
  /\ armed = TRUE
  /\ reauth = FALSE
  /\ ran = Day
  /\ lost = FALSE

\* Time passes between two cycles.
Tick ==
  /\ phase = "idle"
  /\ age < Day \/ ran < Day
  /\ age' = IF age < Day THEN age + 1 ELSE age
  /\ ran' = IF ran < Day THEN ran + 1 ELSE ran
  /\ UNCHANGED <<calls, setting, phase, queue, active, made, tried, check,
                 coordinator, lost>>

\* Each cycle makes new coroutines, which have called nothing yet; only the
\* health of the link is carried over.
FreshFetches ==
  /\ status' = [f \in Fetches |-> "fresh"]
  /\ executed' = [f \in Fetches |-> 0]
  /\ made' = [f \in Fetches |-> 0]
  /\ tried' = {}
  /\ UNCHANGED <<wary, suspect>>

\* logged_in stays TRUE once the setup has authenticated, so the cycle goes
\* straight to its fetches.  The timer fires, or a command asked for a refresh.
StartCycle ==
  /\ phase = "idle"
  /\ phase' = "fetching"
  /\ armed' = FALSE
  /\ check' = (age >= Day)
  /\ plan' = Planned(age >= Day)
  /\ IF parallel
     THEN active' = Elements(plan') /\ queue' = <<>>
     ELSE active' = {} /\ queue' = plan'
  /\ FreshFetches
  /\ UNCHANGED <<parallel, wifi_supported, age, last, reauth, history>>

\* Sequential mode: for task in tasks: await task.
AwaitNext ==
  /\ phase = "fetching"
  /\ active = {}
  /\ queue # <<>>
  /\ active' = {Head(queue)}
  /\ queue' = Tail(queue)
  /\ UNCHANGED <<calls, setting, phase, made, tried, check, age, coordinator,
                 history>>

-----------------------------------------------------------------------------
(* The fetches.                                                            *)

Swallowed(f) == status[f] \in {"value", "none"}
Raised(f)    == status[f] \in {"auth_failed", "raised"}

\* The fetch has another call to make.
Continues(f) ==
  \/ made[f] = 0
  \/ /\ Swallowed(f)
     /\ made[f] < CallsOf[f]
     /\ ~(f \in NeedsFirst /\ made[f] = 1 /\ status[f] = "none")

BeginCall(f) ==
  /\ f \in active
  /\ Continues(f)
  /\ Call!Invoke(f)
  /\ made' = [made EXCEPT ![f] = @ + 1]
  /\ UNCHANGED <<setting, phase, queue, active, tried, check, age, coordinator,
                 history>>

CallSteps(f) ==
  /\ f \in active
  /\ made[f] > 0
  /\ \/ Call!Execute(f)
     \/ Call!ReturnValue(f)
     \/ Call!ReturnNone(f)
     \/ Call!RaiseAuthFailed(f)
     \/ Call!RaiseOther(f)
  /\ UNCHANGED <<setting, phase, queue, active, made, tried, check, age,
                 coordinator, history>>

\* History only: the fetch has run in this cycle.
Tried(f) ==
  /\ tried' = tried \cup {f}
  /\ ran' = IF f = Upgrade THEN 0 ELSE ran

\* A wifi fetch that found the API missing switches the wifi fetch off.
FinishFetch(f) ==
  /\ f \in active
  /\ made[f] > 0
  /\ Swallowed(f)
  /\ ~Continues(f)
  /\ active' = active \ {f}
  /\ Tried(f)
  /\ \/ UNCHANGED wifi_supported
     \/ f \in Wifi /\ status[f] = "none" /\ wifi_supported' = FALSE
  /\ UNCHANGED <<calls, parallel, plan, phase, queue, made, check, age,
                 coordinator, lost>>

-----------------------------------------------------------------------------
(* The end of a cycle.                                                     *)

\* What DataUpdateCoordinator does with the outcome of _async_update_data.
EndCycle(result) ==
  /\ phase' = "idle"
  /\ queue' = <<>>
  /\ active' = {}
  /\ last' = result
  /\ armed' = (result # "auth_failed")
  /\ reauth' = (reauth \/ result = "auth_failed")

\* Faulty variant: every exception is swallowed.
ResultOfSwallowed(f) == "ok"

\* ConfigEntryAuthFailed passes; anything else becomes UpdateFailed.
ResultOf(f) ==
  IF status[f] = "auth_failed" THEN "auth_failed" ELSE "update_failed"

\* Faulty variant: a fetch that raised is tried again at once.
FetchRaisedRetrying(f) ==
  /\ f \in active
  /\ made[f] > 0
  /\ Raised(f)
  /\ made' = [made EXCEPT ![f] = 0]
  /\ UNCHANGED <<calls, setting, phase, queue, active, tried, check, age,
                 coordinator, history>>

\* gather collects the exception, which is logged; in sequential mode, and
\* always for the SMS fetch, it ends the cycle.
FetchRaised(f) ==
  /\ f \in active
  /\ made[f] > 0
  /\ Raised(f)
  /\ Tried(f)
  /\ IF parallel /\ phase = "fetching"
     THEN /\ active' = active \ {f}
          /\ UNCHANGED <<phase, queue, coordinator, lost>>
     ELSE /\ EndCycle(ResultOf(f))
          /\ lost' = (lost \/ (phase = "fetching" /\ Upgrade \in tried'))
  /\ UNCHANGED <<calls, setting, made, check, age>>

\* Faulty variant: the time of the check is not remembered.
FetchesDoneForgetful ==
  /\ phase = "fetching"
  /\ active = {} /\ queue = <<>>
  /\ phase' = "sms"
  /\ active' = {Sms}
  /\ lost' = (lost /\ ~check)
  /\ UNCHANGED <<calls, setting, queue, made, tried, check, age, coordinator,
                 ran>>

\* The check counts as made whether or not its calls brought anything back, but
\* only here: a cycle that ends before has not stored its time.
FetchesDone ==
  /\ phase = "fetching"
  /\ active = {} /\ queue = <<>>
  /\ phase' = "sms"
  /\ active' = {Sms}
  /\ age' = IF check THEN 0 ELSE age
  /\ lost' = (lost /\ ~check)
  /\ UNCHANGED <<calls, setting, queue, made, tried, check, coordinator, ran>>

CycleDone ==
  /\ phase = "sms"
  /\ active = {}
  /\ EndCycle("ok")
  /\ UNCHANGED <<calls, setting, made, tried, check, age, history>>

FetchStep(f) == BeginCall(f) \/ CallSteps(f) \/ FinishFetch(f) \/ FetchRaised(f)

Next ==
  \/ Tick \/ StartCycle \/ AwaitNext \/ FetchesDone \/ CycleDone
  \/ \E f \in Fetches : FetchStep(f)

Spec == Init /\ [][Next]_vars

\* Calls are answered or time out, the event loop resumes what is ready, and
\* an armed timer fires.
Fairness ==
  /\ \A f \in Fetches : WF_vars(FetchStep(f))
  /\ WF_vars(AwaitNext) /\ WF_vars(FetchesDone) /\ WF_vars(CycleDone)
  /\ WF_vars(armed /\ StartCycle)

FairSpec == Spec /\ Fairness

-----------------------------------------------------------------------------
(* Properties.                                                             *)

\* The variables have their types.
TypeOK ==
  /\ parallel \in Modes
  /\ wifi_supported \in BOOLEAN
  /\ plan \in Seq(Fetches)
  /\ phase \in {"idle", "fetching", "sms"}
  /\ queue \in Seq(Fetches)
  /\ active \subseteq Fetches
  /\ made \in [Fetches -> Nat]
  /\ tried \subseteq Fetches
  /\ check \in BOOLEAN
  /\ age \in 0..Day
  /\ last \in Results
  /\ armed \in BOOLEAN
  /\ reauth \in BOOLEAN
  /\ ran \in 0..Day
  /\ lost \in BOOLEAN

\* A cycle that reports success has run every fetch of its plan, the firmware
\* check included when it was due, and the SMS fetch: no fetch is skipped
\* because another one was slow, raised, or returned early.
SuccessMeansAllTried ==
  phase = "idle" /\ last = "ok" =>
    tried = Elements(plan) \cup {Sms}

\* A firmware check whose cycle got as far as its last fetch, in parallel mode
\* every one, is not made again for a day, however often the coordinator polls,
\* whatever the calls of the check came to and however the later cycles ended.
\* (A sequential cycle that an exception ends behind the check forgets it: the
\* next one checks again, within the day that the documentation promises.)
FirmwareCheckThrottled ==
  [][\A f \in {Upgrade} :
       made[f] = 0 /\ made'[f] = 1 => ran >= Day \/ (lost /\ ~parallel)]_vars

\* What makes the two safety properties inductive.  While the fetches run, each
\* one of the plan is waiting, running, or has run.
Covered ==
  /\ phase = "idle" => active = {}
  /\ phase = "fetching" => Elements(plan) = Elements(queue) \cup active \cup tried
  /\ phase = "sms" => Elements(plan) \cup {Sms} = active \cup tried

\* The check belongs to the cycles that began when it was due, and ran is only
\* behind age when the check of this cycle has run, or that of a cycle cut short.
CutShort == lost /\ ~parallel /\ age >= Day

Throttled ==
  /\ phase = "fetching" => check = (age >= Day)
  /\ phase = "fetching" /\ Upgrade \in Elements(plan) => check
  /\ phase = "sms" => Upgrade \notin active /\ ran >= age
  /\ phase # "idle" /\ made[Upgrade] = 0 => Upgrade \notin tried
  /\ ran >= age \/ CutShort \/ (phase = "fetching" /\ Upgrade \in tried)

IInv == TypeOK /\ SuccessMeansAllTried /\ Covered /\ Throttled

\* Every cycle ends and the next one begins, for ever, unless a cycle ended in
\* a failed authentication, which the coordinator does not come back from by
\* itself.
PollingContinues ==
  \/ []<>(phase = "fetching") /\ []<>(phase = "idle")
  \/ <>[](phase = "idle" /\ last = "auth_failed")

\* A claim of the documentation that the code does not keep.

\* A failed token renewal does not stop the rest of the cycle.
FailedRenewalDoesNotStopCycle ==
  phase = "idle" /\ last = "auth_failed" =>
    Elements(plan) \subseteq tried
=============================================================================
