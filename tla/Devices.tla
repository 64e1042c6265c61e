------------------------------ MODULE Devices ------------------------------
(***************************************************************************)
(* The clients of the router: GLinetHub.fetch_connected_devices and        *)
(* _async_cleanup_stale_devices, the restore at setup in                   *)
(* async_initialize_hub, and the device_tracker platform that turns        *)
(* tracked devices into entities.                                          *)
(*                                                                         *)
(* Two coroutines fetch the clients: the poll and the service              *)
(* refresh_clients.  Each makes two router calls, and what the first one   *)
(* brought back is applied after the second, so an older list may be       *)
(* applied after a newer one.                                              *)
(*                                                                         *)
(* External: the router's list of online clients, Home Assistant's entity  *)
(* and device registries (a tracker entry and the device it belongs to     *)
(* live and die together) and the reload of a config entry.  Assumed: a    *)
(* reload waits until no fetch is under way, and an entity that is being   *)
(* added is there before the clock's next tick and before the next reply   *)
(* is dealt with.                                                          *)
(***************************************************************************)
EXTENDS Naturals

CONSTANTS
  Clients,       \* the router's clients (MAC addresses)
  Foreign,       \* those that another integration has a device of, too
  NewGrace,      \* consider_home in entry.options, after the options flow
  DefaultGrace,  \* DEFAULT_CONSIDER_HOME
  CleanupLimits, \* what cleanup_devices may be; 0 switches the clean-up off
  Day            \* age given to a restored device; clocks stop there

ASSUME DevicesAssumption ==
  /\ Foreign \subseteq Clients
  /\ NewGrace \in Nat /\ DefaultGrace \in Nat
  /\ CleanupLimits \subseteq 0..(Day - 1) /\ CleanupLimits # {}
  /\ Day \in Nat
  /\ NewGrace < Day /\ DefaultGrace < Day

VARIABLES
  online,     \* external: the clients the router reports as online
  allowed,    \* the clients for which _unknown_device_allowed holds
  cleanup,    \* cleanup_devices, as the options stand
  saved,      \* the options flow was completed once
  phase,      \* "setup" until the platforms are loaded, then "running"
  rounds,     \* fetches of the setup so far
  devices,    \* keys of GLinetHub._devices
  connected,  \* those with is_connected
  idle,       \* ticks since last_activity, for the tracked devices
  shown,      \* the set "tracked" of the device_tracker platform
  adding,     \* entities given to async_add_entities and not there yet
  entities,   \* devices with a live tracker entity
  entries,    \* devices with a registry entry
  pc,         \* where each fetch is suspended
  seen,       \* the list its first call brought back
  quiet       \* history: ticks since a fetch last saw the client

hub     == <<devices, connected, idle>>
options == <<allowed, cleanup, saved>>
ha      == <<shown, adding, entities, entries>>
vars    == <<online, options, phase, rounds, hub, ha, pc, seen, quiet>>

Fetchers == {"poll", "refresh"}

\* What a setup leaves in the registry, and what the hub may have a device of.
Permitted == Foreign \cup allowed
Trackable == allowed \cup devices

\* self._options.get(CONF_CONSIDER_HOME, default): entry.data is not consulted.
Grace == IF saved THEN NewGrace ELSE DefaultGrace

-----------------------------------------------------------------------------
\* A new config entry with nothing in the registry, about to fetch.
Init ==
  /\ online \in SUBSET Clients
  /\ allowed \in SUBSET Clients
  /\ cleanup \in CleanupLimits
  /\ saved = FALSE
  /\ phase = "setup"
  /\ rounds = 0
  /\ devices = {} /\ connected = {}
  /\ idle = [c \in Clients |-> 0]
  /\ shown = {} /\ adding = {} /\ entities = {} /\ entries = {}
  /\ pc = [f \in Fetchers |-> "idle"]
  /\ seen = [f \in Fetchers |-> {}]
  /\ quiet = [c \in Clients |-> 0]

ComeAndGo ==
  /\ \E c \in Clients :
       online' = IF c \in online THEN online \ {c} ELSE online \cup {c}
  /\ UNCHANGED <<options, phase, rounds, hub, ha, pc, seen, quiet>>

Older(clock) == IF clock < Day THEN clock + 1 ELSE Day

Tick ==
  /\ adding = {}
  /\ idle' = [c \in Clients |-> IF c \in devices THEN Older(idle[c]) ELSE 0]
  /\ quiet' = [c \in Clients |-> Older(quiet[c])]
  /\ UNCHANGED <<online, options, phase, rounds, devices, connected, ha,
                 pc, seen>>

-----------------------------------------------------------------------------
(* Removal of stale devices.                                               *)

\* Faulty variant: a connected device may be stale.
StaleConnectedToo(devs, conn, clock) ==
  {d \in devs : cleanup > 0 /\ clock[d] > cleanup}

Stale(devs, conn, clock) ==
  {d \in devs \ conn : cleanup > 0 /\ clock[d] > cleanup}

\* Faulty variant: the registry entry, and with it the entity, stays.
DropFromHubOnly(devs, conn, clock) ==
  LET stale == Stale(devs, conn, clock) IN
    /\ devices' = devs \ stale
    /\ connected' = conn
    /\ idle' = [c \in Clients |-> IF c \in stale THEN 0 ELSE clock[c]]
    /\ UNCHANGED <<entries, entities>>

\* Removing the registry entry also takes the live entity away.
Drop(devs, conn, clock) ==
  LET stale == Stale(devs, conn, clock) IN
    /\ devices' = devs \ stale
    /\ connected' = conn
    /\ idle' = [c \in Clients |-> IF c \in stale THEN 0 ELSE clock[c]]
    /\ entries' = entries \ stale
    /\ entities' = entities \ stale

-----------------------------------------------------------------------------
(* One fetch of the clients.                                               *)

Goto(f, where) == pc' = [pc EXCEPT ![f] = where]
Holds(f, list) == seen' = [seen EXCEPT ![f] = list]

\* After the fetch the poll still has its own clean-up to do.
AfterFetch(f) == IF f = "poll" THEN "end" ELSE "idle"

\* The service exists only once the entry is set up; the setup fetches twice.
BeginFetch(f) ==
  /\ pc[f] = "idle"
  /\ phase = "running" \/ (f = "poll" /\ rounds < 2)
  /\ Goto(f, "online")
  /\ UNCHANGED <<online, options, phase, rounds, hub, ha, seen, quiet>>

OnlineAnswered(f) ==
  /\ pc[f] = "online"
  /\ Holds(f, online)
  /\ Goto(f, "list")
  /\ UNCHANGED <<online, options, phase, rounds, hub, ha, quiet>>

\* get_online came back with nothing: the fetch leaves everything as it is.
OnlineFailed(f) ==
  /\ pc[f] = "online"
  /\ Goto(f, AfterFetch(f))
  /\ UNCHANGED <<online, options, phase, rounds, hub, ha, seen, quiet>>

\* Faulty variant: the options are not asked.
NewDevicesKnownOnly(list) == {c \in list \ devices : c \in entries}

\* Faulty variant: a device of any config entry will do.
NewDevicesOfAnyEntry(list) ==
  {c \in list \ devices : c \in Foreign \cup entries \cup allowed}

\* A device that is not tracked yet is added when this entry has it in the
\* registry or the options allow it; what other integrations know of it does not
\* count, although the setup asks for that.
NewDevices(list) == {c \in list \ devices : c \in entries \cup allowed}

\* Faulty variant: the grace period is never over.
StillHomeForEver(list) == connected \ list

\* A connected device that the list does not name stays for the grace period.
StillHome(list) == {c \in connected \ list : idle[c] < Grace}

\* Faulty variant: new devices are not announced.
AnnounceNothing(added) == UNCHANGED <<shown, adding>>

\* register_new_devices runs inside the dispatcher call, once the platform is
\* loaded; what it has shown once it never shows again.
Announce(added) ==
  IF phase = "running" /\ added # {}
  THEN /\ adding' = adding \cup ((devices \cup added) \ shown)
       /\ shown' = shown \cup devices \cup added
  ELSE UNCHANGED <<shown, adding>>

\* The second call is over, whatever it brought: its list is only counted.
Apply(f) ==
  /\ pc[f] = "list"
  /\ adding = {}
  /\ LET list  == seen[f]
         added == NewDevices(list)
         devs  == devices \cup added
     IN /\ Announce(added)
        /\ Drop(devs,
                (list \cap devs) \cup StillHome(list),
                [c \in Clients |-> IF c \in list \cap devs THEN 0 ELSE idle[c]])
        /\ quiet' = [c \in Clients |-> IF c \in list THEN 0 ELSE quiet[c]]
  /\ Holds(f, {})
  /\ Goto(f, AfterFetch(f))
  /\ UNCHANGED <<online, options, phase, rounds>>

\* _async_update_data cleans up once more, whether or not the fetch succeeded.
\* The first of the two fetches of the setup does not.
EndPoll ==
  /\ pc["poll"] = "end"
  /\ adding = {}
  /\ IF phase = "setup" /\ rounds = 0
     THEN UNCHANGED <<hub, entries, entities>>
     ELSE Drop(devices, connected, idle)
  /\ rounds' = IF phase = "setup" THEN rounds + 1 ELSE rounds
  /\ Goto("poll", "idle")
  /\ UNCHANGED <<online, options, phase, shown, adding, seen, quiet>>

-----------------------------------------------------------------------------
(* Platform, restart and options.                                          *)

\* The platform's setup adds an entity for each device the hub tracks.
LoadPlatform ==
  /\ phase = "setup"
  /\ rounds = 2 /\ pc["poll"] = "idle"
  /\ phase' = "running"
  /\ shown' = devices
  /\ adding' = devices
  /\ UNCHANGED <<online, options, rounds, hub, entities, entries, pc, seen,
                 quiet>>

EntitiesAdded ==
  /\ adding # {}
  /\ entities' = entities \cup adding
  /\ entries' = entries \cup adding
  /\ adding' = {}
  /\ UNCHANGED <<online, options, phase, rounds, hub, shown, pc, seen,
                 quiet>>

\* Entries the options no longer allow are removed, unless another integration
\* has a device of the client too.
KeptAtSetup(newAllowed) == {c \in entries : c \in Foreign \cup newAllowed}

\* A new hub restores what the registry holds, as away since yesterday.
Restore(newAllowed) ==
  /\ entries' = KeptAtSetup(newAllowed)
  /\ devices' = entries'
  /\ connected' = {}
  /\ idle' = [c \in Clients |-> IF c \in devices' THEN Day ELSE 0]
  /\ shown' = {} /\ adding' = {} /\ entities' = {}
  /\ allowed' = newAllowed
  /\ phase' = "setup"
  /\ rounds' = 0

Restart ==
  /\ \A f \in Fetchers : pc[f] = "idle"
  /\ adding = {}
  /\ Restore(allowed)
  /\ UNCHANGED <<online, cleanup, saved, pc, seen, quiet>>

\* The options flow stores all options; the listener reloads the entry.
ChangeOptions ==
  /\ \A f \in Fetchers : pc[f] = "idle"
  /\ adding = {}
  /\ phase = "running"
  /\ \E new \in SUBSET Clients : Restore(new)
  /\ cleanup' \in CleanupLimits
  /\ saved' = TRUE
  /\ UNCHANGED <<online, pc, seen, quiet>>

-----------------------------------------------------------------------------
FetchStep(f) ==
  BeginFetch(f) \/ OnlineAnswered(f) \/ OnlineFailed(f) \/ Apply(f)

Next ==
  \/ ComeAndGo \/ Tick
  \/ \E f \in Fetchers : FetchStep(f)
  \/ EndPoll
  \/ LoadPlatform \/ EntitiesAdded \/ Restart \/ ChangeOptions

Spec == Init /\ [][Next]_vars

\* The poll timer fires, calls end, entities are added, time passes.  The
\* router does not fail every poll, and the entry is not reloaded so often
\* that no fetch ends in between (a step that stays enabled off and on).
Fairness ==
  /\ SF_vars(Tick)
  /\ \A f \in Fetchers :
       WF_vars(OnlineAnswered(f) \/ OnlineFailed(f)) /\ SF_vars(Apply(f))
  /\ SF_vars(BeginFetch("poll")) /\ SF_vars(OnlineAnswered("poll"))
  /\ SF_vars(EndPoll) /\ SF_vars(LoadPlatform) /\ WF_vars(EntitiesAdded)

FairSpec == Spec /\ Fairness

-----------------------------------------------------------------------------
(* Properties.                                                             *)

\* The variables have their types.
TypeOK ==
  /\ online \subseteq Clients /\ allowed \subseteq Clients
  /\ cleanup \in CleanupLimits
  /\ saved \in BOOLEAN
  /\ phase \in {"setup", "running"}
  /\ rounds \in 0..2
  /\ devices \subseteq Clients /\ connected \subseteq devices
  /\ idle \in [Clients -> 0..Day]
  /\ shown \subseteq Clients /\ adding \subseteq shown
  /\ entities \subseteq Clients /\ entries \subseteq Clients
  /\ pc \in [Fetchers -> {"idle", "online", "list", "end"}]
  /\ seen \in [Fetchers -> SUBSET Clients]
  /\ quiet \in [Clients -> 0..Day]

\* Every tracker entity, present or being added, finds its device when the
\* coordinator tells it to update (tracked_devices[mac] would raise KeyError),
\* whatever the clean-up removes meanwhile.
EntitiesAreTracked == entities \cup adding \subseteq devices

\* No client comes to be tracked but one that the options allow at that moment,
\* be it known to another integration, removed by the clean-up or allowed before;
\* and what they no longer allow stays, tracked or in the registry, only if
\* another integration knows it (fetch_connected_devices, async_initialize_hub).
OnlyPermittedTracked ==
  [][/\ devices' \ devices \subseteq allowed'
     /\ devices' \cup entries' \subseteq Permitted']_vars

\* With the clean-up off each tracked device has its entity, or it is being
\* added, across restarts and changes of options.
TrackedHaveEntities ==
  phase = "running" /\ cleanup = 0 => devices \subseteq entities \cup adding

\* A client that leaves is marked away in the end, and one that comes and is
\* tracked or allowed to be is marked as connected, older lists notwithstanding.
MovesAreNoticed ==
  \A c \in Clients :
    /\ c \notin online ~> (c \notin connected \/ c \in online)
    /\ (c \in online \cap Trackable) ~>
         (c \in connected \/ c \notin online \cap Trackable)

\* With the clean-up on, a device that stays away is removed in the end.
StaleAreRemoved ==
  \A c \in Clients :
    c \notin online ~> (c \notin devices \/ c \in online \/ cleanup = 0)

\* A claim of the documentation that the code does not keep.

\* The clean-up removes a device only after the configured inactivity.
CleanupRespectsInactivity ==
  [][\A c \in entries \ entries' :
       c \in Permitted' => quiet[c] > cleanup']_vars

\* The inductive strengthening: what is in the registry is tracked; a loaded
\* platform has shown all that is tracked (and, with the clean-up off, nothing
\* else), before that there is no entity; the setup fetches twice.
IInv ==
  /\ TypeOK
  /\ EntitiesAreTracked
  /\ entries \subseteq devices /\ devices \subseteq Permitted
  /\ TrackedHaveEntities
  /\ phase = "running" => devices \subseteq shown
  /\ phase = "running" /\ cleanup = 0 => shown \subseteq devices
  /\ phase = "setup" => adding = {} /\ entities = {}
  /\ phase = "setup" /\ pc["poll"] # "idle" => rounds < 2
=============================================================================
