------------------------------ MODULE Cellular ------------------------------
(***************************************************************************)
(* The modem, the traffic of its SIMs and the sensors that show it.        *)
(*                                                                         *)
(* fetch_cellular_status asks for the modem's information (once), for its  *)
(* status and, on firmware 4.9, for its SIM configuration; whether a modem *)
(* is known decides whether fetch_traffic_config asks for the traffic.     *)
(* Every answer to that removes the limit sensors of SIMs without a limit  *)
(* from Home Assistant's registry and adds those that the registry lacks.  *)
(* All other sensors are made once, when the platform is set up.  An id    *)
(* that an earlier load left in the registry may therefore stay without a  *)
(* sensor: only the set-up makes one for it.                               *)
(*                                                                         *)
(* A "limit" sensor stands for the two that a limit brings, the data limit *)
(* and the days until its reset.  A unique id is made of the slot, the     *)
(* SIM's type and the key.                                                 *)
(*                                                                         *)
(* External: the router, and Home Assistant's registry, which keeps the    *)
(* entries of a platform that is unloaded.                                 *)
(***************************************************************************)
EXTENDS Naturals

CONSTANTS Sims,       \* SIM slots
          Types,      \* kinds of SIM
          Physical,   \* the only one before firmware 4.9
          NoSim,      \* of a slot that is not reported
          Commands,   \* coroutines that look for a modem
          MaxChanges  \* bound on changes of the router, reloads and failed set-ups

VARIABLES
  perSlot,  \* firmware 4.9 or above, the modem API per slot
  plugged,  \* external: the router has a modem
  sims,     \* external: what it counts, per slot
  info,     \* _cached_modem_info: never fetched, empty or with a modem
  modems,   \* some modem is in _modems
  bus,      \* _default_modem_bus is one
  traffic,  \* _traffic_sim_data
  rule,     \* the data the clean-up rule was made with
  registry, \* external: unique ids in the entity registry
  left,     \* a limit's, from an earlier load and without a sensor in this one
  adding,   \* handed to async_add_entities, not yet added
  up,       \* how far the set-up is: "new", "refreshed" once, or "up"
  pc,       \* where each fetch is suspended
  seen,     \* a fetch has a modem from the information it got
  reply,    \* get_traffic_config's answer, on its way
  changes   \* changes of the router, reloads and failed set-ups so far

router == <<perSlot, plugged, sims>>
hub    == <<info, modems, bus, traffic, rule>>
ha     == <<registry, left, adding, up>>
vars   == <<router, hub, ha, pc, seen, reply, changes>>

Tasks   == {"poll"} \cup Commands
Records == [type : Types, used : BOOLEAN, limited : BOOLEAN]
Ids     == Sims \X Types \X {"total", "limit"}
Counts  == [Sims -> Records \cup {NoSim}]
Unknown == [s \in Sims |-> NoSim]

\* What the router may report of a slot.
Reports == {r \in Records : perSlot \/ r.type = Physical}
             \cup {n \in {NoSim} : perSlot}

\* The sensors there are; among those of totals, which nothing is claimed of, some
\* that an earlier load left.
Live == registry \ left

Idle == \A t \in Tasks : pc[t] = "idle"

-----------------------------------------------------------------------------
\* The entry is set up for the first time.
Init ==
  /\ perSlot \in BOOLEAN /\ plugged \in BOOLEAN
  /\ sims \in [Sims -> Reports]
  /\ info = "never" /\ modems = FALSE /\ bus = FALSE /\ traffic = Unknown
  /\ rule = Unknown
  /\ registry = {} /\ left = {} /\ adding = {} /\ up = "new"
  /\ pc = [t \in Tasks |-> "idle"]
  /\ seen = [t \in Tasks |-> FALSE]
  /\ reply = [t \in Tasks |-> Unknown]
  /\ changes = 0

Count == changes < MaxChanges /\ changes' = changes + 1

\* A modem is plugged in or out, a SIM changed, a limit set, a counter reset.
Elsewhere ==
  /\ Count
  /\ \/ plugged' = ~plugged /\ UNCHANGED sims
     \/ /\ \E s \in Sims, r \in Reports : sims' = [sims EXCEPT ![s] = r]
        /\ UNCHANGED plugged
  /\ UNCHANGED <<perSlot, hub, ha, pc, seen, reply>>

\* A new hub; of the sensors, what the registry holds of them stays.
SetUpAnew ==
  /\ info' = "never" /\ modems' = FALSE /\ bus' = FALSE /\ traffic' = Unknown
  /\ rule' = Unknown
  /\ adding' = {} /\ up' = "new"
  /\ left' = {id \in registry : id[3] = "limit"} /\ UNCHANGED registry

\* The entry is reloaded, or Home Assistant restarted, between two fetches.
Reload ==
  /\ Count
  /\ up = "up" /\ Idle
  /\ SetUpAnew
  /\ UNCHANGED <<router, pc, seen, reply>>

-----------------------------------------------------------------------------
(* fetch_cellular_status.                                                  *)

Goto(t, where) == pc' = [pc EXCEPT ![t] = where]

\* Two refreshes come before the platform is set up, of async_initialize_hub
\* and of the coordinator.
End(t) == Goto(t, IF up = "up" THEN "idle" ELSE "setup")

\* By the poll, or by a service that needs a modem and knows of none.
Begin(t) ==
  /\ pc[t] = "idle"
  /\ t \in Commands => up = "up" /\ ~bus
  /\ seen' = [seen EXCEPT ![t] = (info = "modem")]
  /\ Goto(t, IF info = "never" THEN "info" ELSE "status")
  /\ UNCHANGED <<router, hub, ha, reply, changes>>

\* A call that raises what _invoke_optional_api does not name ends the fetch
\* and, unless requests are parallel, the set-up, which is tried again.
Raised(t) ==
  /\ pc[t] \in {"info", "status", "sim_config", "traffic"}
  /\ seen' = [seen EXCEPT ![t] = FALSE]
  /\ Goto(t, "idle")
  /\ IF up = "up" THEN UNCHANGED <<hub, ha, changes>> ELSE SetUpAnew /\ Count
  /\ UNCHANGED <<router, reply>>

\* get_info, or its failure.  Firmware 4.9 is asked for two slots when it
\* names none.
Info(t) ==
  /\ pc[t] = "info"
  /\ \E got \in {(plugged \/ perSlot), FALSE} :
       /\ seen' = [seen EXCEPT ![t] = got]
       /\ info' = IF got THEN "modem" ELSE "empty"
  /\ Goto(t, "status")
  /\ UNCHANGED <<router, modems, bus, traffic, rule, ha, reply, changes>>

\* From the modems that are known now: they may be another fetch's.
ChooseModem(t, known) ==
  /\ bus' = known
  /\ IF known THEN Goto(t, "traffic") /\ UNCHANGED traffic
              ELSE End(t) /\ traffic' = Unknown

\* get_status, or its failure, merged with the information.
Status(t) ==
  /\ pc[t] = "status"
  /\ \E got \in {(plugged \/ perSlot), FALSE} : modems' = (seen[t] \/ got)
  /\ seen' = [seen EXCEPT ![t] = FALSE]
  /\ IF perSlot /\ modems'
     THEN Goto(t, "sim_config") /\ UNCHANGED <<bus, traffic>>
     ELSE ChooseModem(t, modems')
  /\ UNCHANGED <<router, info, rule, ha, reply, changes>>

\* get_sim_config names the APN; it may fail.
SimConfig(t) ==
  /\ pc[t] = "sim_config"
  /\ ChooseModem(t, modems)
  /\ UNCHANGED <<router, info, modems, rule, ha, seen, reply, changes>>

-----------------------------------------------------------------------------
(* fetch_traffic_config.                                                   *)

TrafficAnswered(t) ==
  /\ pc[t] = "traffic"
  /\ plugged
  /\ reply' = [reply EXCEPT ![t] = sims]
  /\ Goto(t, "answered")
  /\ UNCHANGED <<router, hub, ha, seen, changes>>

\* The rule of the clean-up is left as it was.
TrafficFailed(t) ==
  /\ pc[t] = "traffic"
  /\ traffic' = Unknown
  /\ End(t)
  /\ UNCHANGED <<router, info, modems, bus, rule, ha, seen, reply, changes>>

\* The rule "cellular traffic limit disabled": what it does not keep.
Orphans(data) ==
  {id \in Ids : /\ id[3] = "limit"
                /\ data[id[1]] # NoSim /\ data[id[1]].type = id[2]
                /\ ~data[id[1]].limited}

\* _async_cleanup_orphaned_sensor_entities, with the rule as it is now.  A sensor
\* goes with its id.
CleanUp ==
  /\ registry' = registry \ Orphans(rule')
  /\ left' = left \ Orphans(rule')

\* _register: limit sensors of SIMs that have traffic and a limit.
Limited(data) ==
  {id \in Ids : /\ id[3] = "limit"
                /\ data[id[1]] # NoSim /\ data[id[1]].type = id[2]
                /\ data[id[1]].used /\ data[id[1]].limited}

\* Faulty variant: what was removed once is not added again.
ApplyRemoving(t) ==
  /\ pc[t] = "answered"
  /\ traffic' = reply[t]
  /\ rule' = reply[t]
  /\ CleanUp
  /\ reply' = [reply EXCEPT ![t] = Unknown]
  /\ End(t)
  /\ UNCHANGED <<router, info, modems, bus, adding, up, seen, changes>>

\* The answer is stored, the registry cleaned and the platform told.
Apply(t) ==
  /\ pc[t] = "answered"
  /\ traffic' = reply[t]
  /\ rule' = reply[t]
  /\ CleanUp
  /\ adding' = IF up = "up" THEN adding \cup (Limited(reply[t]) \ registry')
                     ELSE adding
  /\ reply' = [reply EXCEPT ![t] = Unknown]
  /\ End(t)
  /\ UNCHANGED <<router, info, modems, bus, up, seen, changes>>

\* ... every 30 minutes.
PeriodicCleanUp ==
  /\ UNCHANGED <<router, hub, adding, up, pc, seen, reply, changes>>
  /\ CleanUp

-----------------------------------------------------------------------------
(* The sensor platform.                                                    *)

\* async_initialize_hub ends with a clean-up, the first refresh follows.
Refresh ==
  /\ pc["poll"] = "setup" /\ up = "new"
  /\ up' = "refreshed"
  /\ Goto("poll", "idle")
  /\ UNCHANGED <<router, hub, adding, seen, reply, changes>>
  /\ CleanUp

\* The total of every SIM that has traffic, and the limit sensors.
Sensors(data) ==
  Limited(data) \cup
  {id \in Ids : /\ id[3] = "total"
                /\ data[id[1]] # NoSim /\ data[id[1]].type = id[2]
                /\ data[id[1]].used}

\* Faulty variant: limit sensors are left to the fetches.
SetupTotals ==
  /\ pc["poll"] = "setup" /\ up = "refreshed"
  /\ adding' = Sensors(traffic) \ Limited(traffic)
  /\ up' = "up"
  /\ Goto("poll", "idle")
  /\ UNCHANGED <<router, hub, registry, left, seen, reply, changes>>

\* async_setup_entry of the platform, after the first refresh.
Setup ==
  /\ pc["poll"] = "setup" /\ up = "refreshed"
  /\ adding' = Sensors(traffic)
  /\ up' = "up"
  /\ Goto("poll", "idle")
  /\ UNCHANGED <<router, hub, registry, left, seen, reply, changes>>

\* Home Assistant adds the entities that it was handed.
Add ==
  /\ adding # {}
  /\ registry' = registry \cup adding
  /\ left' = left \ adding
  /\ adding' = {}
  /\ UNCHANGED <<router, hub, up, pc, seen, reply, changes>>

-----------------------------------------------------------------------------
Fetch(t) ==
  \/ Info(t) \/ Status(t) \/ SimConfig(t) \/ Raised(t)
  \/ TrafficAnswered(t) \/ TrafficFailed(t) \/ Apply(t)

Next ==
  \/ Elsewhere \/ Reload \/ Refresh \/ Setup \/ Add \/ PeriodicCleanUp
  \/ \E t \in Tasks : Begin(t) \/ Fetch(t)

-----------------------------------------------------------------------------
(* Properties.                                                             *)

\* Every limit that the hub knows of has its sensors or they are on their way,
\* whatever clean-ups, failed fetches, reloads and late answers came before, but
\* for one whose id an earlier load has left in the registry; such a leftover is
\* gone once its limit is seen switched off, so that a limit the hub sees switched
\* on has its sensors (fetch_traffic_config, async_setup_entry and _register of
\* sensor.py).
LimitsHaveSensors ==
  up = "up" => /\ Limited(traffic) \ left \subseteq Live \cup adding
               /\ left \cap Orphans(rule) = {}

\* What makes it inductive: the variables have their types, what the hub knows is
\* what the clean-up goes by, or nothing, and the clean-up has been through.
TypeOK ==
  /\ perSlot \in BOOLEAN /\ plugged \in BOOLEAN
  /\ sims \in Counts /\ traffic \in Counts /\ rule \in Counts
  /\ info \in {"never", "empty", "modem"} /\ modems \in BOOLEAN /\ bus \in BOOLEAN
  /\ registry \subseteq Ids /\ left \subseteq registry /\ adding \subseteq Ids
  /\ up \in {"new", "refreshed", "up"}
  /\ pc \in [Tasks -> {"idle", "info", "status", "sim_config", "traffic",
                       "answered", "setup"}]
  /\ seen \in [Tasks -> BOOLEAN]
  /\ reply \in [Tasks -> Counts]
  /\ changes \in 0..MaxChanges

IInv ==
  /\ TypeOK
  /\ traffic \in {Unknown, rule}
  /\ left \cap Orphans(rule) = {}
  /\ LimitsHaveSensors

\* The router has a modem that is left alone, and no service runs any more.
LeftAlone ==
  /\ <>[]plugged /\ <>[][UNCHANGED router]_router
  /\ <>[](\A t \in Commands : pc[t] = "idle")

\* With a modem whose limits are left alone, the registry follows them for
\* good: the limit sensors of a SIM are in it when there is traffic and a
\* limit, and out of it when there is none.  (Sensors are another matter: see
\* LimitsHaveSensors.)
LimitsAreFollowed ==
  LeftAlone => <>[](/\ Limited(sims) \subseteq registry
                    /\ Orphans(sims) \cap registry = {})
=============================================================================
