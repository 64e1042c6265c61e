------------------------------ MODULE Entries ------------------------------
(***************************************************************************)
(* The life of the config entries: flows that create them, options that    *)
(* change them, their set-up and reload, and what the set-up leaves in     *)
(* places all entries share, the registered services and the registry.     *)
(*                                                                         *)
(* A hub takes its settings from the entry when the set-up begins.  The    *)
(* listener that reloads an entry whose options are saved is only there    *)
(* once the set-up has come through the first refresh.  Services are       *)
(* registered, for all entries at once, by every set-up that succeeds.     *)
(*                                                                         *)
(* External: Home Assistant, which tries again an entry that was not       *)
(* ready, does not one whose set-up raised anything else, lets no removal *)
(* or reload overlap a set-up, drops runtime_data with the unload, and     *)
(* lets no flow take the unique id of another.  Platforms are forwarded    *)
(* with the end of the set-up.  Of several reloads that wait one is        *)
(* modelled.                                                               *)
(***************************************************************************)
EXTENDS Naturals, FiniteSets

CONSTANTS MaxEntries,  \* bound on the entries at one time
          Routers,     \* routers, by host and by MAC address
          NoRouter,
          Features,    \* optional features
          Alike,       \* pairs of them, of which the first has entities that
                       \* bear a keyword of the second
          Flows,       \* config flows
          MaxChanges   \* bound on what users, DHCP and restarts do

ASSUME EntriesAssumption ==
  /\ MaxEntries \in Nat /\ MaxChanges \in Nat
  /\ NoRouter \notin Routers

VARIABLES
  entry,     \* the config entries: data and options
  state,     \* external: ConfigEntryState, and how far the set-up is
  hub,       \* the settings of runtime_data, or of the hub being set up
  pending,   \* a reload waits
  missed,    \* history: options were saved while nobody listened
  flow,      \* the config flows in progress
  services,  \* features whose services are registered
  registry,  \* external: features that have entities, per entry
  erring,    \* external: routers refuse credentials or drop connections
  changes    \* what users, DHCP and restarts did so far

vars == <<entry, state, hub, pending, missed, flow, services, registry,
          erring, changes>>

Slots    == 1..MaxEntries
Settings == [router : Routers, features : SUBSET Features]
Nowhere  == [router |-> NoRouter, features |-> {}]
NoEntry  == [data |-> Nowhere, options |-> Nowhere]
NoFlow   == [step |-> "none", id |-> NoRouter, input |-> Nowhere]

Existing == {e \in Slots : entry[e] # NoEntry}

\* entry.data | entry.options: a saved form names every setting.
Effective(x) == IF x.options = Nowhere THEN x.data ELSE x.options

-----------------------------------------------------------------------------
Init ==
  /\ entry = [e \in Slots |-> NoEntry]
  /\ state = [e \in Slots |-> "none"]
  /\ hub = [e \in Slots |-> Nowhere]
  /\ pending = [e \in Slots |-> FALSE]
  /\ missed = [e \in Slots |-> FALSE]
  /\ flow = [f \in Flows |-> NoFlow]
  /\ services = {}
  /\ registry = [e \in Slots |-> {}]
  /\ erring \in BOOLEAN
  /\ changes = 0

Count == changes < MaxChanges /\ changes' = changes + 1

-----------------------------------------------------------------------------
(* Config flows.                                                           *)

\* The unique id is the MAC address of the router the entry was made for.
Configured(r) == \E e \in Existing : entry[e].data.router = r

InProgress(f, r) == \E g \in Flows \ {f} : flow[g].id = r

\* async_step_dhcp: the id is set first, then the router is asked.
Discover(f, r) ==
  /\ Count
  /\ flow[f] = NoFlow
  /\ \A e \in Existing : Effective(entry[e]).router # r
  /\ ~Configured(r) /\ ~InProgress(f, r)
  /\ flow' = [flow EXCEPT ![f] =
                [step |-> "probe", id |-> r,
                 input |-> [router |-> r, features |-> Features]]]
  /\ UNCHANGED <<entry, state, hub, pending, missed, services, registry,
                 erring>>

\* The router answers, whatever it makes of the default password, and the form
\* is shown; or it does not.
Probed(f) ==
  /\ flow[f].step = "probe"
  /\ flow' \in {[flow EXCEPT ![f].step = "form"], [flow EXCEPT ![f] = NoFlow]}
  /\ UNCHANGED <<entry, state, hub, pending, missed, services, registry,
                 erring, changes>>

\* The form is submitted, of a flow the user began or of a discovered one.
Submit(f, s) ==
  /\ Count
  /\ flow[f] = NoFlow \/ flow[f].step = "form"
  /\ flow' = [flow EXCEPT ![f].step = "check", ![f].input = s]
  /\ UNCHANGED <<entry, state, hub, pending, missed, services, registry,
                 erring>>

\* The router does not answer or refuses: the form is shown again.
CheckFailed(f) ==
  /\ flow[f].step = "check"
  /\ flow' = [flow EXCEPT ![f].step = "form"]
  /\ UNCHANGED <<entry, state, hub, pending, missed, services, registry,
                 erring, changes>>

\* Faulty variant: only flows are looked at, not the entries there are.
MayCreateUnlessInProgress(f, r) == ~InProgress(f, r)

\* async_set_unique_id and _abort_if_unique_id_configured let the entry pass.
MayCreate(f, r) == ~InProgress(f, r) /\ ~Configured(r)

\* The router has answered.  The entry is made and its set-up follows, or the
\* flow is aborted.
Checked(f) ==
  /\ flow[f].step = "check"
  /\ flow' = [flow EXCEPT ![f] = NoFlow]
  /\ LET free == Slots \ Existing
         e    == CHOOSE x \in free : TRUE
     IN  IF MayCreate(f, flow[f].input.router) /\ free # {}
         THEN /\ entry' = [entry EXCEPT ![e].data = flow[f].input]
              /\ state' = [state EXCEPT ![e] = "new"]
         ELSE UNCHANGED <<entry, state>>
  /\ UNCHANGED <<hub, pending, missed, services, registry, erring, changes>>

Cancel(f) ==
  /\ flow[f].step = "form"
  /\ flow' = [flow EXCEPT ![f] = NoFlow]
  /\ UNCHANGED <<entry, state, hub, pending, missed, services, registry,
                 erring, changes>>

-----------------------------------------------------------------------------
(* Options.                                                                *)

Listening(e) == state[e] = "loaded"

\* Faulty variant: handle_options_update only changes the running hub.
ReloadsNever(e, s) == FALSE

\* apply_option_updates asks for a reload whatever has changed.
Reloads(e, s) == TRUE

\* The options form is submitted and the router it names has answered.  The
\* running hub takes the new settings, except for the host.
SaveOptions(e, s) ==
  /\ Count
  /\ e \in Existing /\ s # entry[e].options
  /\ entry' = [entry EXCEPT ![e].options = s]
  /\ IF Listening(e)
     THEN /\ hub' = [hub EXCEPT ![e].features = s.features]
          /\ pending' = [pending EXCEPT ![e] = Reloads(e, s)]
          /\ UNCHANGED missed
     ELSE /\ missed' = [missed EXCEPT ![e] = TRUE]
          /\ UNCHANGED <<hub, pending>>
  /\ UNCHANGED <<state, flow, services, registry, erring>>

-----------------------------------------------------------------------------
(* Set-up, reload and removal.                                             *)

\* async_setup_entry makes the hub, from the settings as they are now.
BeginSetup(e) ==
  /\ state[e] \in {"new", "retry"}
  /\ state' = [state EXCEPT ![e] = "login"]
  /\ hub' = [hub EXCEPT ![e] = Effective(entry[e])]
  /\ missed' = [missed EXCEPT ![e] = FALSE]
  /\ UNCHANGED <<entry, pending, flow, services, registry, erring, changes>>

\* Faulty variant: nothing is removed.
CleanedNot(e) == registry[e]

\* What async_initialize_hub leaves of the registry: it removes what bears a
\* keyword of a feature that is not enabled.
Cleaned(e) ==
  {f \in registry[e] \cap hub[e].features :
     \A g \in Features \ hub[e].features : <<f, g>> \notin Alike}

\* _async_load_router_info has succeeded, entities go that are taken for another
\* feature's.
Initialize(e) ==
  /\ state[e] = "login"
  /\ state' = [state EXCEPT ![e] = "refresh"]
  /\ registry' = [registry EXCEPT ![e] = Cleaned(e)]
  /\ UNCHANGED <<entry, hub, pending, missed, flow, services, erring, changes>>

\* Faulty variant: a router that does not answer is taken to have refused.
AfterFailureError == "error"

\* ConfigEntryNotReady.
AfterFailure == "retry"

\* The router does not answer the login or get_info; or the first refresh, after
\* that of async_initialize_hub, fails.
SetupFailed(e) ==
  /\ state[e] = "login" \/ (erring /\ state[e] = "refresh")
  /\ state' = [state EXCEPT ![e] = AfterFailure]
  /\ hub' = [hub EXCEPT ![e] = Nowhere]
  /\ UNCHANGED <<entry, pending, missed, flow, services, registry, erring,
                 changes>>

\* It refuses the credentials, ConfigEntryAuthFailed, or makes the login or
\* async_initialize_hub's own refresh raise what nobody catches: any
\* APIClientError of authenticate, an aiohttp error of an optional call.
SetupError(e) ==
  /\ erring
  /\ state[e] \in {"login", "refresh"}
  /\ state' = [state EXCEPT ![e] = "error"]
  /\ hub' = [hub EXCEPT ![e] = Nowhere]
  /\ UNCHANGED <<entry, pending, missed, flow, services, registry, erring,
                 changes>>

\* _enabled_features_from_entry: an empty choice in the options counts as none.
Enabled(x) ==
  IF x.options.features # {} THEN x.options.features ELSE x.data.features

\* Faulty variant: the entry that is set up alone decides.
RegisteredAlone(e) == Enabled(entry[e])

\* async_register_services: features enabled for any entry.
Registered(e) == UNION {Enabled(entry[x]) : x \in Existing}

\* After the first refresh: runtime_data and the listener are there, services
\* are registered or removed, the platforms add their entities.
FinishSetup(e) ==
  /\ state[e] = "refresh"
  /\ state' = [state EXCEPT ![e] = "loaded"]
  /\ services' = Registered(e)
  /\ registry' = [registry EXCEPT ![e] = @ \cup hub[e].features]
  /\ UNCHANGED <<entry, hub, pending, missed, flow, erring, changes>>

\* async_unload_entry, of a reload.
Unload(e) ==
  /\ state[e] = "loaded" /\ pending[e]
  /\ state' = [state EXCEPT ![e] = "new"]
  /\ hub' = [hub EXCEPT ![e] = Nowhere]
  /\ pending' = [pending EXCEPT ![e] = FALSE]
  /\ UNCHANGED <<entry, missed, flow, services, registry, erring, changes>>

\* The user reloads an entry.
UserReload(e) ==
  /\ Count
  /\ state[e] \in {"loaded", "error", "retry"}
  /\ state' = [state EXCEPT ![e] = "new"]
  /\ hub' = [hub EXCEPT ![e] = Nowhere]
  /\ pending' = [pending EXCEPT ![e] = FALSE]
  /\ UNCHANGED <<entry, missed, flow, services, registry, erring>>

\* The user removes an entry; services stay as they are.
Remove(e) ==
  /\ Count
  /\ state[e] \in {"loaded", "error", "retry"}
  /\ entry' = [entry EXCEPT ![e] = NoEntry]
  /\ state' = [state EXCEPT ![e] = "none"]
  /\ hub' = [hub EXCEPT ![e] = Nowhere]
  /\ pending' = [pending EXCEPT ![e] = FALSE]
  /\ missed' = [missed EXCEPT ![e] = FALSE]
  /\ registry' = [registry EXCEPT ![e] = {}]
  /\ UNCHANGED <<flow, services, erring>>

\* Home Assistant restarts.
Restart ==
  /\ Count
  /\ state' = [e \in Slots |-> IF e \in Existing THEN "new" ELSE "none"]
  /\ hub' = [e \in Slots |-> Nowhere]
  /\ pending' = [e \in Slots |-> FALSE]
  /\ flow' = [f \in Flows |-> NoFlow]
  /\ services' = {}
  /\ UNCHANGED <<entry, missed, registry, erring>>

-----------------------------------------------------------------------------
OfFlow(f) ==
  \/ \E r \in Routers : Discover(f, r)
  \/ \E s \in Settings : Submit(f, s)
  \/ Probed(f) \/ CheckFailed(f) \/ Checked(f) \/ Cancel(f)

OfEntry(e) ==
  \/ \E s \in Settings : SaveOptions(e, s)
  \/ BeginSetup(e) \/ Initialize(e) \/ SetupFailed(e) \/ SetupError(e)
  \/ FinishSetup(e) \/ Unload(e) \/ UserReload(e) \/ Remove(e)

Next ==
  \/ Restart
  \/ \E f \in Flows : OfFlow(f)
  \/ \E e \in Slots : OfEntry(e)

Spec == Init /\ [][Next]_vars

\* Home Assistant goes on with set-ups and reloads, a set-up ends, and not every
\* one fails.
Fairness ==
  \A e \in Slots :
    /\ WF_vars(BeginSetup(e))
    /\ WF_vars(Unload(e))
    /\ SF_vars(Initialize(e))
    /\ SF_vars(FinishSetup(e))

FairSpec == Spec /\ Fairness

-----------------------------------------------------------------------------
(* Properties.                                                             *)

\* The variables have their types (config_flow.py, __init__.py).
TypeOK ==
  LET Any == Settings \cup {Nowhere}
  IN  /\ entry \in [Slots -> [data : Any, options : Any]]
      /\ state \in [Slots -> {"none", "new", "retry", "login", "refresh",
                              "loaded", "error"}]
      /\ \A e \in Slots : (state[e] = "none") <=> (entry[e] = NoEntry)
      /\ hub \in [Slots -> Any]
      /\ \A e \in Slots : (hub[e] = Nowhere) <=>
                        (state[e] \in {"none", "new", "retry", "error"})
      /\ pending \in [Slots -> BOOLEAN] /\ missed \in [Slots -> BOOLEAN]
      /\ flow \in [Flows -> [step : {"none", "probe", "form", "check"},
                             id : Routers \cup {NoRouter}, input : Any]]
      /\ services \subseteq Features
      /\ registry \in [Slots -> SUBSET Features]
      /\ erring \in BOOLEAN /\ changes \in 0..MaxChanges

\* However flows interleave with each other and with removals, no two entries
\* have the unique id of one router (_abort_if_unique_id_configured).
OneEntryPerId ==
  \A d, e \in Existing : d # e => entry[d].data.router # entry[e].data.router

Settled(e) == state[e] = "loaded" /\ ~pending[e]

\* A hub at work has the settings of its entry, saved before its set-up began or
\* while it is at work, when a reload follows (handle_options_update).  Options
\* saved during the set-up, when nobody listens, are not claimed to arrive.
HubsHaveTheirSettings ==
  \A e \in Slots : Settled(e) /\ ~missed[e] => hub[e] = Effective(entry[e])

\* The features of a hub that has its settings have their services, whatever
\* other entries were set up, changed or removed since
\* (async_register_services).
EnabledFeaturesHaveServices ==
  \A e \in Slots :
    Settled(e) /\ hub[e] = Effective(entry[e]) => hub[e].features \subseteq services

\* An entry's entities are those of its features, also when earlier set-ups
\* failed half-way (async_initialize_hub).
EntitiesFollowFeatures ==
  \A e \in Slots : Settled(e) => registry[e] = hub[e].features

\* What makes the four invariants inductive: entries and forms that are being
\* checked name their router; a reload waits only for a loaded entry; and what
\* the properties say of a hub at work holds, as far as it can, from the moment
\* the hub is made.
Grounded ==
  /\ \A e \in Existing : entry[e].data \in Settings
  /\ \A f \in Flows : flow[f].step = "check" => flow[f].input \in Settings

HubInv(e) ==
  /\ pending[e] => state[e] = "loaded"
  /\ hub[e] # Nowhere /\ ~missed[e] /\ ~pending[e] => hub[e] = Effective(entry[e])
  /\ state[e] = "refresh" => registry[e] \subseteq hub[e].features

IInv ==
  /\ TypeOK /\ Grounded
  /\ \A e \in Slots : HubInv(e)
  /\ OneEntryPerId /\ EnabledFeaturesHaveServices /\ EntitiesFollowFeatures

\* As long as routers that do not answer are all that goes wrong, every entry is
\* loaded in the end (_async_load_router_info raises ConfigEntryNotReady).
EntriesGetLoaded ==
  ~erring => <>[](\A e \in Existing : state[e] = "loaded")
=============================================================================
