--------------------------- MODULE EntriesProofs ---------------------------
(***************************************************************************)
(* For any number of entries, routers, features and flows: no two entries  *)
(* are made for one router, and a hub at work has its entry's settings,    *)
(* its services and its entities.  The strengthening IInv (module Entries) *)
(* follows the hub from the moment it is made.                             *)
(***************************************************************************)
EXTENDS Entries, TLAPS

\* Settings name a router.
LEMMA NowhereIsNoSetting == Nowhere \notin Settings
  BY EntriesAssumption DEF Nowhere, Settings

\* Of an entry there is, the effective settings are settings, and their features
\* are enabled.
LEMMA EffectiveFacts ==
  ASSUME TypeOK, Grounded, NEW e \in Existing
  PROVE  /\ e \in Slots
         /\ Effective(entry[e]) \in Settings
         /\ Effective(entry[e]).features \subseteq Enabled(entry[e])
<1>1. /\ e \in Slots /\ entry[e].data \in Settings
      /\ entry[e].options \in Settings \cup {Nowhere}
  BY DEF Existing, TypeOK, Grounded
<1>2. QED
  BY <1>1 DEF Effective, Enabled, Nowhere

\* Enabled features are features.
LEMMA EnabledAreFeatures ==
  ASSUME TypeOK, NEW e \in Slots
  PROVE  Enabled(entry[e]) \subseteq Features
<1>1. /\ entry[e].data \in Settings \cup {Nowhere}
      /\ entry[e].options \in Settings \cup {Nowhere}
  BY DEF TypeOK
<1>2. QED
  BY <1>1 DEF Enabled, Settings, Nowhere

\* The invariant holds before there is an entry.
LEMMA InitInv == Init => IInv
<1> SUFFICES ASSUME Init PROVE IInv
  OBVIOUS
<1>1. TypeOK
  BY EntriesAssumption DEF Init, TypeOK, NoEntry, NoFlow, Nowhere
<1>2. Existing = {}
  BY DEF Init, Existing
<1>3. Grounded
  BY <1>2 DEF Init, Grounded, NoFlow
<1>4. QED
  BY <1>1, <1>2, <1>3
     DEF Init, IInv, HubInv, OneEntryPerId, EnabledFeaturesHaveServices,
         EntitiesFollowFeatures, Settled

\* A flow that creates nothing keeps the invariant.
LEMMA FlowInv ==
  ASSUME IInv, flow' \in [Flows -> [step : {"none", "probe", "form", "check"},
                                   id : Routers \cup {NoRouter},
                                   input : Settings \cup {Nowhere}]],
         \A f \in Flows : flow'[f].step = "check" => flow'[f].input \in Settings,
         changes' \in 0..MaxChanges,
         UNCHANGED <<entry, state, hub, pending, missed, services, registry,
                     erring>>
  PROVE  IInv'
<1>1. TypeOK'
  BY DEF IInv, TypeOK
<1>2. Grounded'
  BY DEF IInv, Grounded, Existing
<1>3. \A e \in Slots : HubInv(e)'
  BY DEF IInv, HubInv
<1>4. OneEntryPerId' /\ EnabledFeaturesHaveServices' /\ EntitiesFollowFeatures'
  BY DEF IInv, OneEntryPerId, EnabledFeaturesHaveServices,
         EntitiesFollowFeatures, Settled, Existing
<1>5. QED
  BY <1>1, <1>2, <1>3, <1>4 DEF IInv

\* Every action of a flow keeps it.
LEMMA OfFlowInv ==
  ASSUME IInv, NEW f \in Flows, OfFlow(f)
  PROVE  IInv'
<1>1. /\ TypeOK /\ Grounded
      /\ flow[f] \in [step : {"none", "probe", "form", "check"},
                      id : Routers \cup {NoRouter},
                      input : Settings \cup {Nowhere}]
  BY DEF IInv, TypeOK
<1>2. Count => changes' \in 0..MaxChanges
  BY <1>1, EntriesAssumption DEF Count, TypeOK
<1>3. ASSUME NEW r \in Routers, Discover(f, r)
      PROVE  IInv'
  <2>1. [step |-> "probe", id |-> r, input |-> [router |-> r, features |-> Features]]
          \in [step : {"none", "probe", "form", "check"},
              id : Routers \cup {NoRouter}, input : Settings \cup {Nowhere}]
    BY DEF Settings
  <2>2. QED
    BY <1>1, <1>2, <1>3, <2>1, FlowInv DEF Discover, TypeOK, Grounded
<1>4. ASSUME NEW s \in Settings, Submit(f, s)
      PROVE  IInv'
  BY <1>1, <1>2, <1>4, FlowInv DEF Submit, TypeOK, Grounded
<1>5. ASSUME \/ flow' = [flow EXCEPT ![f].step = "form"]
             \/ flow' = [flow EXCEPT ![f] = NoFlow],
             UNCHANGED <<entry, state, hub, pending, missed, services, registry,
                         erring, changes>>
      PROVE  IInv'
  <2>1. NoFlow \in [step : {"none", "probe", "form", "check"},
                   id : Routers \cup {NoRouter}, input : Settings \cup {Nowhere}]
        /\ NoFlow.step # "check"
    BY DEF NoFlow
  <2>2. /\ flow \in [Flows -> [step : {"none", "probe", "form", "check"},
                             id : Routers \cup {NoRouter},
                             input : Settings \cup {Nowhere}]]
        /\ changes' \in 0..MaxChanges
        /\ \A g \in Flows : flow[g].step = "check" => flow[g].input \in Settings
    BY <1>1, <1>5 DEF TypeOK, Grounded
  <2>3. CASE flow' = [flow EXCEPT ![f].step = "form"]
    <3>1. /\ flow'[f].step = "form"
          /\ \A g \in Flows \ {f} : flow'[g] = flow[g]
      BY <2>2, <2>3
    <3>2. QED
      BY <1>1, <1>5, <2>2, <2>3, <3>1, FlowInv
  <2>4. CASE flow' = [flow EXCEPT ![f] = NoFlow]
    BY <1>1, <1>5, <2>1, <2>2, <2>4, FlowInv
  <2>5. QED
    BY <1>5, <2>3, <2>4
<1>6. CASE Probed(f) \/ CheckFailed(f) \/ Cancel(f)
  BY <1>5, <1>6 DEF Probed, CheckFailed, Cancel
<1>7. CASE Checked(f)
  <2> DEFINE free == Slots \ Existing
             e    == CHOOSE x \in free : TRUE
  <2>1. CASE ~(MayCreate(f, flow[f].input.router) /\ free # {})
    BY <1>5, <1>7, <2>1 DEF Checked
  <2>2. CASE MayCreate(f, flow[f].input.router) /\ free # {}
    <3>1. e \in Slots /\ e \notin Existing
      BY <2>2
    <3> HIDE DEF e
    <3>2. /\ entry[e] = NoEntry /\ state[e] = "none" /\ hub[e] = Nowhere
          /\ ~pending[e]
      BY <1>1, <3>1 DEF Existing, TypeOK, IInv, HubInv
    <3>3. flow[f].input \in Settings
      BY <1>1, <1>7 DEF Checked, Grounded
    <3>4. /\ entry' = [entry EXCEPT ![e].data = flow[f].input]
          /\ state' = [state EXCEPT ![e] = "new"]
          /\ flow' = [flow EXCEPT ![f] = NoFlow]
          /\ UNCHANGED <<hub, pending, missed, services, registry, erring,
                         changes>>
      BY <1>7, <2>2 DEF Checked, e
    <3>5. /\ entry'[e] = [data |-> flow[f].input, options |-> Nowhere]
          /\ entry'[e] # NoEntry
          /\ \A x \in Slots \ {e} : entry'[x] = entry[x]
      BY <1>1, <3>1, <3>2, <3>3, <3>4, NowhereIsNoSetting DEF TypeOK, NoEntry
    <3>6. Existing' = Existing \cup {e}
      BY <3>1, <3>5 DEF Existing
    <3>7. TypeOK'
      <4>1. entry' \in [Slots -> [data : Settings \cup {Nowhere},
                                 options : Settings \cup {Nowhere}]]
        BY <1>1, <3>1, <3>3, <3>4 DEF TypeOK
      <4>2. flow' \in [Flows -> [step : {"none", "probe", "form", "check"},
                                id : Routers \cup {NoRouter},
                                input : Settings \cup {Nowhere}]]
        BY <1>1, <3>4 DEF TypeOK, NoFlow
      <4>3. \A x \in Slots : (state'[x] = "none") <=> (entry'[x] = NoEntry)
        BY <1>1, <3>1, <3>4, <3>5 DEF TypeOK
      <4>4. \A x \in Slots : (hub'[x] = Nowhere) <=>
                 (state'[x] \in {"none", "new", "retry", "error"})
        BY <1>1, <3>1, <3>2, <3>4 DEF TypeOK
      <4>5. QED
        BY <1>1, <3>1, <3>4, <4>1, <4>2, <4>3, <4>4 DEF TypeOK
    <3>8. Grounded'
      BY <1>1, <3>1, <3>3, <3>4, <3>5, <3>6 DEF Grounded, NoFlow, TypeOK, Existing
    <3>9. \A x \in Slots : HubInv(x)'
      BY <1>1, <3>1, <3>2, <3>4, <3>5 DEF IInv, HubInv, TypeOK
    <3>10. OneEntryPerId'
      <4>1. \A x \in Existing : entry[x].data.router # flow[f].input.router
        BY <2>2 DEF MayCreate, Configured
      <4>2. QED
        BY <3>1, <3>5, <3>6, <4>1 DEF OneEntryPerId, IInv, Existing
    <3>11. EnabledFeaturesHaveServices' /\ EntitiesFollowFeatures'
      BY <1>1, <3>1, <3>2, <3>4, <3>5
         DEF IInv, EnabledFeaturesHaveServices, EntitiesFollowFeatures, Settled,
             TypeOK
    <3>12. QED
      BY <3>7, <3>8, <3>9, <3>10, <3>11 DEF IInv
  <2>3. QED
    BY <2>1, <2>2
<1>8. QED
  BY <1>3, <1>4, <1>6, <1>7 DEF OfFlow

\* The set-up and its ends: entries, flows and services stay as they are.
LEMMA SetupInv ==
  ASSUME IInv, NEW e \in Slots,
         BeginSetup(e) \/ Initialize(e) \/ SetupFailed(e) \/ SetupError(e)
           \/ Unload(e)
  PROVE  IInv'
<1>1. TypeOK /\ Grounded /\ \A x \in Slots : HubInv(x)
  BY DEF IInv
<1>2. AfterFailure = "retry"
  BY DEF AfterFailure
<1>3. CASE BeginSetup(e)
  <2>1. e \in Existing
    BY <1>1, <1>3 DEF BeginSetup, TypeOK, Existing
  <2>2. Effective(entry[e]) \in Settings /\ Effective(entry[e]) # Nowhere
    BY <1>1, <2>1, EffectiveFacts, NowhereIsNoSetting
  <2>3. TypeOK'
    BY <1>1, <1>3, <2>2 DEF BeginSetup, TypeOK
  <2>4. Grounded' /\ OneEntryPerId'
    BY <1>3 DEF BeginSetup, IInv, Grounded, OneEntryPerId, Existing
  <2>5. \A x \in Slots : HubInv(x)'
    BY <1>1, <1>3 DEF BeginSetup, HubInv, TypeOK
  <2>6. EnabledFeaturesHaveServices' /\ EntitiesFollowFeatures'
    BY <1>1, <1>3 DEF BeginSetup, IInv, EnabledFeaturesHaveServices,
                      EntitiesFollowFeatures, Settled, TypeOK
  <2>7. QED
    BY <2>3, <2>4, <2>5, <2>6 DEF IInv
<1>4. CASE Initialize(e)
  <2>1. TypeOK'
    BY <1>1, <1>4 DEF Initialize, Cleaned, TypeOK
  <2>2. Grounded' /\ OneEntryPerId'
    BY <1>4 DEF Initialize, IInv, Grounded, OneEntryPerId, Existing
  <2>3. \A x \in Slots : HubInv(x)'
    BY <1>1, <1>4 DEF Initialize, Cleaned, HubInv, TypeOK
  <2>4. EnabledFeaturesHaveServices' /\ EntitiesFollowFeatures'
    BY <1>1, <1>4 DEF Initialize, IInv, EnabledFeaturesHaveServices,
                      EntitiesFollowFeatures, Settled, TypeOK
  <2>5. QED
    BY <2>1, <2>2, <2>3, <2>4 DEF IInv
<1>5. CASE SetupFailed(e) \/ SetupError(e) \/ Unload(e)
  <2>1. /\ state[e] \notin {"none", "new", "retry", "error"}
        /\ \E s \in {"new", "retry", "error"} : state' = [state EXCEPT ![e] = s]
        /\ hub' = [hub EXCEPT ![e] = Nowhere]
        /\ pending' = [pending EXCEPT ![e] = FALSE] \/ pending' = pending
        /\ pending'[e] = FALSE
        /\ UNCHANGED <<entry, missed, flow, services, registry, erring, changes>>
    BY <1>1, <1>2, <1>5 DEF SetupFailed, SetupError, Unload, HubInv, TypeOK
  <2>2. TypeOK'
    BY <1>1, <2>1 DEF TypeOK
  <2>3. Grounded' /\ OneEntryPerId'
    BY <2>1 DEF IInv, Grounded, OneEntryPerId, Existing
  <2>4. \A x \in Slots : HubInv(x)'
    BY <1>1, <2>1 DEF HubInv, TypeOK
  <2>5. EnabledFeaturesHaveServices' /\ EntitiesFollowFeatures'
    BY <1>1, <2>1 DEF IInv, EnabledFeaturesHaveServices,
                      EntitiesFollowFeatures, Settled, TypeOK
  <2>6. QED
    BY <2>2, <2>3, <2>4, <2>5 DEF IInv
<1>6. QED
  BY <1>3, <1>4, <1>5

\* The end of a set-up decides about the services of every entry.
LEMMA FinishSetupInv ==
  ASSUME IInv, NEW e \in Slots, FinishSetup(e)
  PROVE  IInv'
<1>1. TypeOK /\ Grounded /\ \A x \in Slots : HubInv(x)
  BY DEF IInv
<1>2. e \in Existing /\ hub[e] \in Settings
  BY <1>1 DEF FinishSetup, TypeOK, Existing
<1>3. hub[e].features \subseteq Features /\ registry[e] \subseteq hub[e].features
  BY <1>1, <1>2 DEF FinishSetup, HubInv, Settings
<1>4. services' \subseteq Features
  BY <1>1, EnabledAreFeatures DEF FinishSetup, Registered, Existing
<1>5. TypeOK'
  BY <1>1, <1>3, <1>4 DEF FinishSetup, TypeOK
<1>6. Grounded' /\ OneEntryPerId'
  BY DEF FinishSetup, IInv, Grounded, OneEntryPerId, Existing
<1>7. \A x \in Slots : HubInv(x)'
  BY <1>1 DEF FinishSetup, HubInv, TypeOK
<1>8. EnabledFeaturesHaveServices'
  <2> SUFFICES ASSUME NEW x \in Slots, Settled(x)', hub[x] = Effective(entry[x])
               PROVE  hub[x].features \subseteq services'
    BY DEF EnabledFeaturesHaveServices, FinishSetup
  <2>1. x \in Existing
    BY <1>1, <1>2 DEF FinishSetup, Settled, TypeOK, Existing
  <2>2. QED
    BY <1>1, <2>1, EffectiveFacts DEF FinishSetup, Registered
<1>9. EntitiesFollowFeatures'
  BY <1>1, <1>3 DEF FinishSetup, IInv, EntitiesFollowFeatures, Settled, TypeOK
<1>10. QED
  BY <1>5, <1>6, <1>7, <1>8, <1>9 DEF IInv

\* What users do to an entry: options, reload, removal.
LEMMA UserInv ==
  ASSUME IInv, NEW e \in Slots,
         (\E s \in Settings : SaveOptions(e, s)) \/ UserReload(e) \/ Remove(e)
  PROVE  IInv'
<1>1. TypeOK /\ Grounded /\ \A x \in Slots : HubInv(x)
  BY DEF IInv
<1>2. changes' \in 0..MaxChanges
  BY <1>1, EntriesAssumption DEF SaveOptions, UserReload, Remove, Count, TypeOK
<1>3. ASSUME NEW s \in Settings, SaveOptions(e, s)
      PROVE  IInv'
  <2>1. /\ e \in Existing
        /\ entry'[e] = [entry[e] EXCEPT !.options = s] /\ entry'[e] # NoEntry
        /\ entry'[e].data = entry[e].data
        /\ \A x \in Slots \ {e} : entry'[x] = entry[x]
        /\ Existing' = Existing
    BY <1>1, <1>3, NowhereIsNoSetting
       DEF SaveOptions, TypeOK, Existing, NoEntry, Grounded
  <2>2. Grounded' /\ OneEntryPerId'
    BY <1>3, <2>1 DEF SaveOptions, IInv, Grounded, OneEntryPerId, Existing
  <2>3. entry' \in [Slots -> [data : Settings \cup {Nowhere},
                             options : Settings \cup {Nowhere}]]
    BY <1>1, <1>3 DEF SaveOptions, TypeOK
  <2>4. CASE Listening(e)
    <3>1. /\ state[e] = "loaded"
          /\ hub' = [hub EXCEPT ![e].features = s.features]
          /\ pending' = [pending EXCEPT ![e] = TRUE]
          /\ UNCHANGED <<state, missed, flow, services, registry, erring>>
      BY <1>3, <2>4 DEF SaveOptions, Listening, Reloads
    <3>2. hub[e] \in Settings /\ [hub[e] EXCEPT !.features = s.features] \in Settings
      BY <1>1, <3>1 DEF TypeOK, Settings
    <3>3. hub'[e] \in Settings /\ hub'[e] # Nowhere
      BY <1>1, <3>1, <3>2, NowhereIsNoSetting DEF TypeOK
    <3>4. TypeOK'
      BY <1>1, <1>2, <2>1, <2>3, <3>1, <3>3 DEF TypeOK, Existing
    <3>5. \A x \in Slots : HubInv(x)'
      BY <1>1, <2>1, <3>1 DEF HubInv, TypeOK
    <3>6. EnabledFeaturesHaveServices' /\ EntitiesFollowFeatures'
      BY <1>1, <2>1, <3>1 DEF IInv, EnabledFeaturesHaveServices,
                              EntitiesFollowFeatures, Settled, TypeOK
    <3>7. QED
      BY <2>2, <3>4, <3>5, <3>6 DEF IInv
  <2>5. CASE ~Listening(e)
    <3>1. /\ state[e] # "loaded"
          /\ missed' = [missed EXCEPT ![e] = TRUE]
          /\ UNCHANGED <<hub, pending, state, flow, services, registry, erring>>
      BY <1>3, <2>5 DEF SaveOptions, Listening
    <3>2. TypeOK'
      BY <1>1, <1>2, <2>1, <2>3, <3>1 DEF TypeOK, Existing
    <3>3. \A x \in Slots : HubInv(x)'
      BY <1>1, <2>1, <3>1 DEF HubInv, TypeOK
    <3>4. EnabledFeaturesHaveServices' /\ EntitiesFollowFeatures'
      BY <1>1, <2>1, <3>1 DEF IInv, EnabledFeaturesHaveServices,
                              EntitiesFollowFeatures, Settled, TypeOK
    <3>5. QED
      BY <2>2, <3>2, <3>3, <3>4 DEF IInv
  <2>6. QED
    BY <2>4, <2>5
<1>4. CASE UserReload(e)
  <2>1. TypeOK'
    BY <1>1, <1>2, <1>4 DEF UserReload, TypeOK
  <2>2. Grounded' /\ OneEntryPerId'
    BY <1>4 DEF UserReload, IInv, Grounded, OneEntryPerId, Existing
  <2>3. \A x \in Slots : HubInv(x)'
    BY <1>1, <1>4 DEF UserReload, HubInv, TypeOK
  <2>4. EnabledFeaturesHaveServices' /\ EntitiesFollowFeatures'
    BY <1>1, <1>4 DEF UserReload, IInv, EnabledFeaturesHaveServices,
                      EntitiesFollowFeatures, Settled, TypeOK
  <2>5. QED
    BY <2>1, <2>2, <2>3, <2>4 DEF IInv
<1>5. CASE Remove(e)
  <2>1. /\ entry' = [entry EXCEPT ![e] = NoEntry]
        /\ NoEntry \in [data : Settings \cup {Nowhere},
                        options : Settings \cup {Nowhere}]
    BY <1>5 DEF Remove, NoEntry
  <2>2. TypeOK'
    BY <1>1, <1>2, <1>5, <2>1 DEF Remove, TypeOK
  <2>3. Existing' = Existing \ {e} /\ \A x \in Existing' : entry'[x] = entry[x]
    BY <1>1, <2>1 DEF TypeOK, Existing
  <2>4. Grounded' /\ OneEntryPerId'
    BY <1>5, <2>3 DEF Remove, IInv, Grounded, OneEntryPerId
  <2>5. \A x \in Slots : HubInv(x)'
    BY <1>1, <1>5 DEF Remove, HubInv, TypeOK
  <2>6. EnabledFeaturesHaveServices' /\ EntitiesFollowFeatures'
    BY <1>1, <1>5 DEF Remove, IInv, EnabledFeaturesHaveServices,
                      EntitiesFollowFeatures, Settled, TypeOK
  <2>7. QED
    BY <2>2, <2>4, <2>5, <2>6 DEF IInv
<1>6. QED
  BY <1>3, <1>4, <1>5

\* A restart leaves the entries and the registry, and no hub.
LEMMA RestartInv == IInv /\ Restart => IInv'
<1> SUFFICES ASSUME IInv, Restart PROVE IInv'
  OBVIOUS
<1>1. TypeOK /\ Grounded
  BY DEF IInv
<1>2. changes' \in 0..MaxChanges
  BY <1>1, EntriesAssumption DEF Restart, Count, TypeOK
<1>3. \A x \in Slots : hub'[x] = Nowhere /\ state'[x] \in {"new", "none"}
                       /\ ~pending'[x]
  BY DEF Restart
<1>4. TypeOK'
  <2>1. flow' \in [Flows -> [step : {"none", "probe", "form", "check"},
                            id : Routers \cup {NoRouter},
                            input : Settings \cup {Nowhere}]]
    BY DEF Restart, NoFlow
  <2>2. \A x \in Slots : (state'[x] = "none") <=> (entry'[x] = NoEntry)
    BY <1>1 DEF Restart, Existing, TypeOK
  <2>3. QED
    BY <1>1, <1>2, <1>3, <2>1, <2>2 DEF Restart, TypeOK
<1>5. Grounded' /\ OneEntryPerId'
  BY DEF Restart, IInv, Grounded, OneEntryPerId, Existing, NoFlow
<1>6. \A x \in Slots : HubInv(x)'
  BY <1>3 DEF HubInv
<1>7. EnabledFeaturesHaveServices' /\ EntitiesFollowFeatures'
  BY <1>3 DEF EnabledFeaturesHaveServices, EntitiesFollowFeatures, Settled
<1>8. QED
  BY <1>4, <1>5, <1>6, <1>7 DEF IInv

\* The strengthening is inductive.
LEMMA StepInv == IInv /\ [Next]_vars => IInv'
<1> SUFFICES ASSUME IInv, [Next]_vars PROVE IInv'
  OBVIOUS
<1>1. CASE Restart
  BY <1>1, RestartInv
<1>2. ASSUME NEW f \in Flows, OfFlow(f)
      PROVE  IInv'
  BY <1>2, OfFlowInv
<1>3. ASSUME NEW e \in Slots, OfEntry(e)
      PROVE  IInv'
  BY <1>3, SetupInv, FinishSetupInv, UserInv DEF OfEntry
<1>4. CASE UNCHANGED vars
  BY <1>4 DEF vars, IInv, TypeOK, Grounded, HubInv, OneEntryPerId, Settled,
              EnabledFeaturesHaveServices, EntitiesFollowFeatures, Existing
<1>5. QED
  BY <1>1, <1>2, <1>3, <1>4 DEF Next

\* The inductive invariant holds in every reachable state of module Entries.
THEOREM InductiveInvariant == Spec => []IInv
<1>1. Init => IInv
  BY InitInv
<1>2. IInv /\ [Next]_vars => IInv'
  BY StepInv
<1>3. QED
  BY <1>1, <1>2, PTL DEF Spec

\* The variables have their types, and a hub exists exactly while its entry is
\* being set up or is loaded (async_setup_entry).
THEOREM TypeCorrect == Spec => []TypeOK
<1>1. IInv => TypeOK
  BY DEF IInv
<1>2. QED
  BY <1>1, InductiveInvariant, PTL

\* No two entries are made for one router, whatever flows do at their awaits
\* (_abort_if_unique_id_configured).
THEOREM OneEntryForOneRouter == Spec => []OneEntryPerId
<1>1. IInv => OneEntryPerId
  BY DEF IInv
<1>2. QED
  BY <1>1, InductiveInvariant, PTL

\* A hub at work has its entry's settings, saved before its set-up began or while
\* it is at work; of options saved during the set-up, when nobody listens, nothing
\* is said (handle_options_update).
THEOREM SettingsAreApplied == Spec => []HubsHaveTheirSettings
<1>1. IInv => HubsHaveTheirSettings
  BY DEF IInv, TypeOK, HubInv, HubsHaveTheirSettings, Settled
<1>2. QED
  BY <1>1, InductiveInvariant, PTL

\* The services of its features are registered, whatever became of other entries
\* (async_register_services).
THEOREM ServicesAreThere == Spec => []EnabledFeaturesHaveServices
<1>1. IInv => EnabledFeaturesHaveServices
  BY DEF IInv
<1>2. QED
  BY <1>1, InductiveInvariant, PTL

\* Its entities are those of its features (async_initialize_hub).
THEOREM EntitiesMatchFeatures == Spec => []EntitiesFollowFeatures
<1>1. IInv => EntitiesFollowFeatures
  BY DEF IInv
<1>2. QED
  BY <1>1, InductiveInvariant, PTL
=============================================================================
