--------------------------- MODULE DevicesProofs ---------------------------
(***************************************************************************)
(* For any set of clients, any options and any clean-up limit: every       *)
(* tracker entity finds its device, nothing comes to be tracked that the   *)
(* options do not allow, and with the clean-up off every tracked device    *)
(* has its entity.  IInv (module Devices) is inductive: besides these it   *)
(* says that a loaded platform has shown every tracked device, so what is  *)
(* announced is new, hence just seen, hence never stale; and that what the *)
(* registry holds is tracked, so what a fetch adds is not there by then.   *)
(***************************************************************************)
EXTENDS Devices, TLAPS

USE DEF Fetchers

\* A clock that ages stays within its range.
LEMMA OlderTyped == ASSUME NEW clock \in 0..Day PROVE Older(clock) \in 0..Day
  BY DevicesAssumption DEF Older

\* The invariant holds of a new config entry.
LEMMA InitInv == Init => IInv
<1> SUFFICES ASSUME Init PROVE IInv
  OBVIOUS
<1>1. 0 \in 0..Day
  BY DevicesAssumption
<1>2. idle \in [Clients -> 0..Day] /\ quiet \in [Clients -> 0..Day]
  BY <1>1 DEF Init
<1>3. seen \in [Fetchers -> SUBSET Clients]
  BY DEF Init
<1>4. /\ pc \in [Fetchers -> {"idle", "online", "list", "end"}]
      /\ pc["poll"] = "idle"
  BY DEF Init
<1>5. TypeOK
  <2>1. /\ online \subseteq Clients /\ allowed \subseteq Clients
        /\ devices \subseteq Clients /\ connected \subseteq devices
        /\ shown \subseteq Clients /\ adding \subseteq shown
        /\ entities \subseteq Clients /\ entries \subseteq Clients
    BY DEF Init
  <2>2. /\ cleanup \in CleanupLimits /\ saved \in BOOLEAN
        /\ phase \in {"setup", "running"}
    BY Zenon DEF Init
  <2>3. rounds \in 0..2
    BY DEF Init
  <2>4. QED
    BY <1>2, <1>3, <1>4, <2>1, <2>2, <2>3, Zenon DEF TypeOK
<1>6. EntitiesAreTracked
  BY DEF Init, EntitiesAreTracked
<1>7. QED
  BY <1>5, <1>6 DEF Init, IInv, TrackedHaveEntities

\* The clean-up keeps the entities of the devices it keeps, and no others.
LEMMA DropKeeps ==
  ASSUME NEW devs \in SUBSET Clients, NEW conn \in SUBSET devs,
         NEW clock \in [Clients -> 0..Day],
         entities \subseteq devs, entries \subseteq devs,
         Drop(devs, conn, clock)
  PROVE  /\ devices' \subseteq devs
         /\ conn \subseteq devices'
         /\ connected' = conn
         /\ idle' \in [Clients -> 0..Day]
         /\ entries' \subseteq entries
         /\ entries' \subseteq devices'
         /\ entities' \subseteq entities
         /\ entities' \subseteq devices'
         /\ cleanup = 0 => devices' = devs /\ entities' = entities
<1>1. cleanup = 0 => Stale(devs, conn, clock) = {}
  BY DEF Stale
<1>2. QED
  BY <1>1, DevicesAssumption DEF Drop, Stale

\* Applying a list: what is new is connected, so the clean-up spares it.
LEMMA ApplyInv ==
  ASSUME IInv, NEW f \in Fetchers, Apply(f)
  PROVE  IInv'
<1> DEFINE list == seen[f]
           added == NewDevices(list)
           devs == devices \cup added
           conn == (list \cap devs) \cup StillHome(list)
           clock ==
             [c \in Clients |-> IF c \in list \cap devs THEN 0 ELSE idle[c]]
<1>1. /\ list \subseteq Clients
      /\ added \subseteq list
      /\ added \subseteq allowed
  BY DEF IInv, TypeOK, NewDevices
<1>2. devs \in SUBSET Clients /\ conn \in SUBSET devs
  BY <1>1 DEF IInv, TypeOK, StillHome
<1>3. clock \in [Clients -> 0..Day]
  BY DevicesAssumption DEF IInv, TypeOK
<1>4. entities \subseteq devs /\ entries \subseteq devs
  BY DEF IInv, EntitiesAreTracked
<1>5. Drop(devs, conn, clock)
  BY DEF Apply
<1>6. /\ devices' \subseteq devs
      /\ conn \subseteq devices'
      /\ connected' = conn
      /\ idle' \in [Clients -> 0..Day]
      /\ entries' \subseteq entries
      /\ entries' \subseteq devices'
      /\ entities' \subseteq entities
      /\ entities' \subseteq devices'
      /\ cleanup = 0 => devices' = devs /\ entities' = entities
  <2> HIDE DEF devs, conn, clock
  <2> QED BY <1>2, <1>3, <1>4, <1>5, DropKeeps
<1>7. added \subseteq devices'
  BY <1>1, <1>6
<1>8. Announce(added) /\ adding = {}
  BY DEF Apply
<1>9. /\ adding' \subseteq added /\ adding' \subseteq shown'
      /\ shown' \in SUBSET Clients
      /\ phase = "running" => devs \subseteq shown'
      /\ phase = "setup" => adding' = {}
      /\ phase = "running" /\ cleanup = 0 =>
           shown' \subseteq devs /\ added \subseteq adding'
  BY <1>1, <1>8 DEF IInv, TypeOK, Announce, NewDevices
<1>10. TypeOK'
  <2>1. /\ pc' \in [Fetchers -> {"idle", "online", "list", "end"}]
        /\ seen' \in [Fetchers -> SUBSET Clients]
    BY DEF IInv, TypeOK, Apply, Goto, Holds, AfterFetch
  <2>2. quiet' \in [Clients -> 0..Day]
    BY DevicesAssumption DEF IInv, TypeOK, Apply
  <2>3. UNCHANGED <<online, options, phase, rounds>>
    BY DEF Apply
  <2>4. entities' \subseteq Clients /\ entries' \subseteq Clients
    BY <1>6 DEF IInv, TypeOK
  <2>5. devices' \subseteq Clients /\ connected' \subseteq devices'
    BY <1>2, <1>6
  <2>6. QED
    BY <2>1, <2>2, <2>3, <2>4, <2>5, <1>6, <1>9 DEF IInv, TypeOK, options
<1>11. EntitiesAreTracked'
  BY <1>6, <1>7, <1>9 DEF EntitiesAreTracked
<1>12. entries' \subseteq devices' /\ devices' \subseteq Permitted'
  <2>1. allowed' = allowed
    BY DEF Apply, options
  <2>2. devs \subseteq Permitted
    BY <1>1 DEF IInv, Permitted
  <2>3. QED
    BY <2>1, <2>2, <1>6 DEF Permitted
<1>13. /\ phase' = "running" => devices' \subseteq shown'
       /\ phase' = "setup" => adding' = {} /\ entities' = {}
       /\ phase' = "setup" /\ pc'["poll"] # "idle" => rounds' < 2
  BY <1>6, <1>9 DEF IInv, TypeOK, Apply, Goto
<1>14. /\ phase' = "running" /\ cleanup' = 0 => shown' \subseteq devices'
       /\ TrackedHaveEntities'
  <2>1. UNCHANGED <<phase, cleanup>>
    BY DEF Apply, options
  <2>2. phase = "running" /\ cleanup = 0 => devices \subseteq entities
    BY <1>8 DEF IInv, TrackedHaveEntities
  <2>3. QED
    BY <2>1, <2>2, <1>6, <1>9 DEF TrackedHaveEntities
<1>15. QED
  BY <1>10, <1>11, <1>12, <1>13, <1>14 DEF IInv

\* The clean-up at the end of a poll.
LEMMA EndPollInv ==
  ASSUME IInv, EndPoll
  PROVE  IInv'
<1>1. adding = {} /\ adding' = {} /\ UNCHANGED <<shown, phase, options>>
  BY DEF EndPoll
<1>2. /\ devices' \subseteq devices
      /\ connected' \subseteq devices'
      /\ idle' \in [Clients -> 0..Day]
      /\ entries' \subseteq entries
      /\ entries' \subseteq devices'
      /\ entities' \subseteq entities
      /\ entities' \subseteq devices'
      /\ cleanup = 0 => devices' = devices /\ entities' = entities
  <2>1. CASE UNCHANGED <<hub, entries, entities>>
    BY <2>1 DEF IInv, TypeOK, EntitiesAreTracked, hub
  <2>2. CASE Drop(devices, connected, idle)
    <3>1. /\ devices \in SUBSET Clients /\ connected \in SUBSET devices
          /\ idle \in [Clients -> 0..Day] /\ entities \subseteq devices
          /\ entries \subseteq devices
      BY DEF IInv, TypeOK, EntitiesAreTracked
    <3>2. QED
      BY <2>2, <3>1, DropKeeps
  <2>3. QED
    BY <2>1, <2>2 DEF EndPoll
<1>3. TypeOK'
  <2>1. rounds' \in 0..2
    BY DEF IInv, TypeOK, EndPoll
  <2>2. QED
    BY <1>1, <1>2, <2>1 DEF IInv, TypeOK, EndPoll, Goto, options
<1>4. pc'["poll"] = "idle"
  BY DEF EndPoll, Goto, IInv, TypeOK
<1>5. QED
  BY <1>1, <1>2, <1>3, <1>4
  DEF IInv, EntitiesAreTracked, Permitted, options, TrackedHaveEntities

\* A new hub restores only what is permitted, and shows nothing yet.
LEMMA RestoreInv ==
  ASSUME IInv, NEW new \in SUBSET Clients, Restore(new),
         cleanup' \in CleanupLimits, saved' \in BOOLEAN,
         UNCHANGED <<online, pc, seen, quiet>>
  PROVE  IInv'
<1>1. /\ entries' \subseteq entries
      /\ entries' \subseteq Foreign \cup new
      /\ devices' = entries'
      /\ allowed' = new
  BY DEF Restore, KeptAtSetup
<1>2. TypeOK'
  BY <1>1, DevicesAssumption DEF IInv, TypeOK, Restore
<1>3. QED
  BY <1>1, <1>2 DEF IInv, EntitiesAreTracked, Permitted, Restore,
      TrackedHaveEntities

\* The strengthening is inductive: one case per action.
LEMMA StepInv == IInv /\ [Next]_vars => IInv'
<1> SUFFICES ASSUME IInv, [Next]_vars
             PROVE  IInv'
  OBVIOUS
<1> USE DEF IInv, TypeOK, EntitiesAreTracked, Permitted, TrackedHaveEntities,
      hub, options, ha
<1>1. CASE ComeAndGo
  BY <1>1 DEF ComeAndGo
<1>2. CASE Tick
  <2>1. idle' \in [Clients -> 0..Day] /\ quiet' \in [Clients -> 0..Day]
    BY <1>2, OlderTyped, DevicesAssumption DEF Tick
  <2>2. QED
    BY <1>2, <2>1 DEF Tick
<1>3. ASSUME NEW f \in Fetchers, FetchStep(f)
      PROVE  IInv'
  <2>1. CASE BeginFetch(f)
    BY <2>1 DEF BeginFetch, Goto
  <2>2. CASE OnlineAnswered(f)
    BY <2>2 DEF OnlineAnswered, Goto, Holds
  <2>3. CASE OnlineFailed(f)
    BY <2>3 DEF OnlineFailed, Goto, AfterFetch
  <2>4. CASE Apply(f)
    BY <2>4, ApplyInv
  <2>5. QED
    BY <1>3, <2>1, <2>2, <2>3, <2>4 DEF FetchStep
<1>4. CASE EndPoll
  BY <1>4, EndPollInv
<1>5. CASE LoadPlatform
  BY <1>5 DEF LoadPlatform
<1>6. CASE EntitiesAdded
  BY <1>6 DEF EntitiesAdded
<1>7. CASE Restart
  <2>1. Restore(allowed) /\ allowed \in SUBSET Clients
        /\ cleanup' \in CleanupLimits /\ saved' \in BOOLEAN
        /\ UNCHANGED <<online, pc, seen, quiet>>
    BY <1>7 DEF Restart
  <2>2. QED
    BY <2>1, RestoreInv
<1>8. CASE ChangeOptions
  <2>1. PICK new \in SUBSET Clients : Restore(new)
    BY <1>8 DEF ChangeOptions
  <2>2. /\ cleanup' \in CleanupLimits /\ saved' \in BOOLEAN
        /\ UNCHANGED <<online, pc, seen, quiet>>
    BY <1>8 DEF ChangeOptions
  <2>3. QED
    BY <2>1, <2>2, RestoreInv
<1>9. CASE UNCHANGED vars
  BY <1>9 DEF vars
<1>10. QED
  BY <1>1, <1>2, <1>3, <1>4, <1>5, <1>6, <1>7, <1>8, <1>9 DEF Next

\* The strengthening is an invariant of the device tracking.
THEOREM InductiveInvariant == Spec => []IInv
  BY InitInv, StepInv, PTL DEF Spec

\* Type correctness of the device tracking.
THEOREM TypeCorrect == Spec => []TypeOK
<1>1. IInv => TypeOK
  BY DEF IInv
<1>2. QED
  BY <1>1, InductiveInvariant, PTL

\* A coordinator update never looks up a device the clean-up has removed
\* (GLinetDevice._handle_coordinator_update).
THEOREM UpdatesFindTheirDevice == Spec => []EntitiesAreTracked
<1>1. IInv => EntitiesAreTracked
  BY DEF IInv
<1>2. QED
  BY <1>1, InductiveInvariant, PTL

\* A device comes to be tracked by a fetch only: a setup restores what was
\* tracked already.  What a fetch adds is allowed, since what the registry holds
\* is tracked and hence not new.
LEMMA ArrivalsAreAllowed ==
  IInv /\ [Next]_vars => devices' \ devices \subseteq allowed'
<1> SUFFICES ASSUME IInv, [Next]_vars
             PROVE  devices' \ devices \subseteq allowed'
  OBVIOUS
<1> USE DEF hub, options, ha
<1>1. ASSUME NEW f \in Fetchers, Apply(f)
      PROVE  devices' \ devices \subseteq allowed'
  <2>1. devices' \subseteq devices \cup NewDevices(seen[f]) /\ allowed' = allowed
    BY <1>1 DEF Apply, Drop
  <2>2. NewDevices(seen[f]) \subseteq allowed
    BY DEF NewDevices, IInv
  <2>3. QED
    BY <2>1, <2>2
<1>2. ASSUME NEW new, Restore(new)
      PROVE  devices' \subseteq devices
  BY <1>2 DEF Restore, KeptAtSetup, IInv
<1>3. CASE EndPoll
  BY <1>3 DEF EndPoll, Drop
<1>4. CASE \E f \in Fetchers : BeginFetch(f) \/ OnlineAnswered(f) \/ OnlineFailed(f)
  BY <1>4 DEF BeginFetch, OnlineAnswered, OnlineFailed
<1>5. CASE ComeAndGo \/ Tick \/ LoadPlatform \/ EntitiesAdded \/ UNCHANGED vars
  BY <1>5 DEF ComeAndGo, Tick, LoadPlatform, EntitiesAdded, vars
<1>6. CASE Restart \/ ChangeOptions
  BY <1>6, <1>2 DEF Restart, ChangeOptions
<1>7. QED
  BY <1>1, <1>3, <1>4, <1>5, <1>6 DEF Next, FetchStep

\* Whatever the options were before and whatever other integrations know, only
\* what is allowed comes to be tracked, and what is no longer allowed stays only
\* if it is another integration's too (_unknown_device_allowed).
THEOREM FilterIsRespected == Spec => OnlyPermittedTracked
<1>1. IInv => devices \cup entries \subseteq Permitted
  BY DEF IInv
<1>2. IInv /\ IInv' /\ [Next]_vars =>
        [/\ devices' \ devices \subseteq allowed'
         /\ devices' \cup entries' \subseteq Permitted']_vars
  BY <1>1, ArrivalsAreAllowed DEF IInv
<1>3. QED
  BY <1>2, InductiveInvariant, PTL DEF Spec, OnlyPermittedTracked

\* With the clean-up off every tracked device has its entity, or it is being
\* added (register_new_devices in device_tracker.py).
THEOREM NoDeviceWithoutEntity == Spec => []TrackedHaveEntities
<1>1. IInv => TrackedHaveEntities
  BY DEF IInv
<1>2. QED
  BY <1>1, InductiveInvariant, PTL
=============================================================================
