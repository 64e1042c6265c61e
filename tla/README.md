# Verification of the GL.iNet router integration

TLA+ models, TLC runs and TLAPS proofs for the Home Assistant integration in
`src/custom_components/glinet_router`. The definitions are translated from the
Python code; `PROJECT.json` gives for each one the lines it stands for. Code
outside the repository (the router, aiohttp, Home Assistant's coordinator,
registries and entity platforms) is modelled from how the integration uses it
and is named as external in the modules.

1. [The system](#the-system): components, state, interactions, hard behaviours
2. [The modules](#the-modules): what is modelled, how state and actions map
3. [The runs](#the-runs): what each checks, bounds, fairness
4. [The proofs](#the-proofs)
5. [Where code and documentation differ](#where-code-and-documentation-differ)
6. [What is not modelled](#what-is-not-modelled)
7. [The plan](#the-plan)

## The system

Everything runs on one event loop. Code between two `await`s is atomic; the
races of this program are between coroutines that are suspended at an `await`
and share the state of one `GLinetHub`. The coroutines are the poll (in parallel
mode, each of its fetches), and the commands of services, switches, buttons and
selects. Nothing is persisted by the integration itself: what survives a restart
is Home Assistant's device and entity registry and the config entry.

| Component | Source | State | Operations |
| --- | --- | --- | --- |
| API client | `api/client.py` | `sid`, `logged_in` | `authenticate` (challenge, login), one JSON-RPC request per call, mapping of error codes to exceptions |
| Call wrappers | `hub.py` 443-494, 658-708, 1077-1141 | `_token_error`, `_connect_error`, `_wifi_supported` | `_invoke_api` (renews the session when a flag is up, swallows failures), `_invoke_optional_api`, the private copy of the logic in `fetch_wifi_interfaces`, `refresh_session_token` (three attempts) |
| Polling cycle | `hub.py` 201-208, 496-652 | `_last_upgrade_check`, `parallel_requests`; the coordinator's timer | `_async_update_data`, `fetch_all_data` |
| Client tracking | `hub.py` 276-413, 989-1075, `models.py`, `entities/device_tracker.py` | `_devices`, each with `last_activity` and `is_connected`; the platform's set of shown devices; registries | fetch, removal of stale devices, restore at setup, adding of tracker entities |
| Access control | `hub.py` 872-889, 935-951, 2186-2190 | `_access_control_mode`, `_black_mac`, `_white_mac` | fetch, mode switch, block |
| VPN tunnel switches | `hub.py` 1207-1304, `entities/switch.py` | `_vpn_tunnels`; dictionary of switch entities | fetch, dispatcher signal, reconciler task per signal |
| VPN clients | `hub.py` 1149-1205, 1306-1413, `entities/switch_vpn.py` | clients and connections, replaced in two steps | fetch, stop what runs and start one, stop all |
| Tailscale | `api/modules/tailscale.py`, `hub.py` 1433-1449 | configuration and link state | fetch, connect and disconnect (write and look again) |
| Parental control | `hub.py` 891-933, 953-987 | `_parental_status` | group and schedule toggles, moving a device between groups |
| Settings | `hub.py` (AdGuard, WAN access, OLED, ZeroTier, repeater) | cached settings | read, change, write back |
| SMS | `hub.py` 1821-1892, `api/modules/modem.py` | `_sms_messages` | fetch, send in parts, remove |
| Cellular | `hub.py` 1517-1699, `hub_helpers.py`, `entities/sensor.py` | modems, traffic, clean-up rules; registry of sensors | fetches, clean-up, adding of sensors, countdown |
| Repeater | `hub.py` 1701-1819, `entities/select.py` | status, saved and scanned networks | scan, join, leave, forget, fetches |
| Entries | `config_flow.py`, `__init__.py`, `hub.py` 210-437, 459-502, `services.py` | config entries, `runtime_data`, registered services | flows, set-up, retry, reload, unload, registration, lookup of the hub |
| Views | `entities/*.py`, `update.py`, `diagnostics.py` | none of their own | read the hub's state, call one hub method |

How they interact:

- Every call to the router goes through one of the wrappers. They share two
  flags and the session id across all coroutines of a hub.
- The coordinator calls `_async_update_data`; `ConfigEntryAuthFailed` makes it
  ask for reauthentication and stop rescheduling, `UpdateFailed` marks entities
  unavailable and retries at the next interval.
- A fetch writes the hub's attributes and sends dispatcher signals; platforms
  react by adding entities (tracker, internet access switch) or by starting a
  task (tunnel switches).
- Commands call the router and then run the matching fetch themselves, so a
  fetch of the same data may be under way twice, by the poll and by a command.

What is hard here, and hardly reached by the unit tests, which await one
coroutine at a time against canned answers:

- one coroutine clears a flag that another one just raised; login replies
  arrive in any order; renewals are retried by several coroutines at once;
- a reply is lost after the router ran the command;
- one fetch of a cycle raises: what happens to the others, in both modes, and to
  the coordinator's timer;
- data read before an `await` is applied after it, twice, in the wrong order;
- the clean-up removes what another component still refers to; a restart
  restores data with an artificial age; options change between;
- commands are computed from a cache that a failed fetch reset, and settings
  are written back as a whole;
- one operation is several calls (moving a device between groups, a text in
  parts, stopping clients before starting one) and fails after some of them;
- commands write and look again until they see what they want, while others undo
  it;
- several config entries share the registered services, are set up, fail, retry
  and reload while flows and options change them;
- dates are computed by replacing fields of today's, past the ends of months,
  quarters and leap years.

`PROJECT.json` lists these under "hazards" with their lines and the properties
that cover them.

What makes each part correct: a call runs at most once, and a lost session is
renewed without asking for credentials needlessly; a cycle loses no fetch and
polling does not stop; tracker entities and tracked devices stay in step and
comings and goings are noticed; a block reaches its target only and the shown
state is the router's in the end; a switch exists for each tunnel and one client
is up at a time; a write changes what was asked for and a later one does not undo
it; texts arrive whole and removed messages stay away; the registry follows the
limits; a router has one entry, and a loaded entry its settings, its services
and its entities.

## The modules

    Calls  <--implements--  Session            SessionProofs        MCSession
      ^
      |  INSTANCE
    Polling                                    PollingProofs        MCPolling
    Devices                                    DevicesProofs        MCDevices
    AccessControl                              AccessControlProofs  MCAccessControl
    Entries                                    EntriesProofs        MCEntries

    Settings, Parental                    -->  Configuration
                                               ConfigurationProofs  MCConfiguration
    VpnTunnels, VpnClients, Tailscale     -->  Vpn
                                               VpnProofs            MCVpn
    Cellular, Sms, Countdown, Repeater    -->  Mobile
                                               MobileProofs         MCMobile

    Mirror  <--implements--  AccessControl, Configuration (settings),
                             Vpn (tunnels, Tailscale),
                             Mobile (traffic; joined, saved and scanned networks)

`Polling` is composed with `Calls`, which `Session` is shown to implement, so
that the cycle is checked against every behaviour of the wrappers without the
states of the session layer. All other modules have their calls answered, failed
and delayed freely, which is weaker than what `Calls` allows.

`Configuration`, `Vpn` and `Mobile` each put side by side the parts of one area
that have fetches of their own and share no state: `part` says which one moves,
the others keep their initial values. One run then checks them all, without the
product of their states, and theorems of the composition hold of each part. The
one thing such parts do share, whether a modem is known (`Cellular` and `Sms`),
is taken to be arbitrary where it is read. What each part's poll does is its
fetch alone; the order of fetches in a cycle is the subject of `Polling`.

Several parts have a variable `serial`, chosen at the start and never changed.
In its behaviours no call fails, no two coroutines overlap and nobody else
configures the router; in the others all of that happens. Properties of the form
`serial => ...` say what holds when nothing interferes; liveness is claimed of
both.

### Calls

The abstract promise of the wrappers. `status` is what a coroutine's call came
to ("value", "none", "auth_failed", "raised"), `executed` how often the router
ran it, `suspect` whether one of the two flags is up, and `wary` who began its
call on a suspect link. `ConfigEntryAuthFailed` can only end a call that began
on a suspect link and never reached the router.

### Mirror

What most parts that hold a copy of the router's state promise of it: `shown` was
`source`, as a whole, when some answer was given, or is `Empty`. Answers may be
`carried` for any time and shown in any order; what is shown is never put together
from two answers and never runs ahead of the router. What the refinement maps to
them:

| Part | `source` | `shown` | `carried` |
| --- | --- | --- | --- |
| `AccessControl` | `router` | `cache` | `answer` |
| `Configuration`, settings | `router` | `settingsCopy` | the fetch's reply; the OLED is read and shown at once (`Refresh`) |
| `Vpn`, tunnels | `board` | `tunnels` | the replies of fetches that are at `"answered"` |
| `Vpn`, Tailscale | whether `link` is connected | `shown` | none, shown at once |
| `Mobile`, traffic | `sims` | `traffic` | `modemReply` |
| `Mobile`, networks | `joined`, `saved`, `around` | `status`, `known`, `scanned` | `netReply` of the kind; each a promise of its own |

Three copies do not keep it: parental groups are merged from two answers
(`Merged`), VPN clients are replaced in two steps (`ListAnswered`, `ApplyState`),
and a removed message leaves the inbox before the router has confirmed it
(`RemoveOne`). Their own properties say what holds instead.

### Session

The wrappers at the granularity of their awaits. Each coroutine of `Mandatory`
(`_invoke_api`), `Optional` (`_invoke_optional_api`) and `Wifi`
(`fetch_wifi_interfaces`) is idle, waits for a login or for its request, or has
an answer it has not yet seen.

| Code | Model |
| --- | --- |
| `_token_error`, `_connect_error`, `_wifi_supported`, `sid` | variables of the same names |
| the start of a wrapper: `if self._token_error or self._connect_error` | `Begin`, `MustRenew` |
| `refresh_session_token`: three attempts for refusals, none for time-outs | `RetryLogin`, `RenewalRefused`, `RenewalLost` |
| `authenticate` storing `sid` | `LoginGranted` |
| the branches of `_invoke_api` and `_invoke_optional_api` | `ReturnValue`, `ReturnDenied`, `ReturnError`, `ReturnLost` |
| the wifi fetch: `NonZeroResponse` is caught before its subclasses; `-32601` switches the fetch off | the `Wifi` cases of `ReturnDenied`, `ReturnError` |
| router and network | `GrantLogin` ... `LoseRequest`, `ExpireSessions` |

Only the login request of `authenticate` is a step; its challenge request fails
in the same ways and changes nothing. A failure of the environment counts in
`faults`, bounded by `MaxFaults`. `ForgetSessions` drops ids nobody holds any
more, so that a few ids stand for any number of sessions.

### Polling

`StartCycle` builds the list of fetches as `fetch_all_data` does (`Base`, the
wifi fetch while it is supported, the firmware check inserted at place 2 when a
day has passed, the enabled features) and either awaits them in turn
(`AwaitNext`) or starts all of them. `BeginCall` and `CallSteps` make the calls
of a fetch as steps of `Calls`; fetches in `NeedsFirst` return early when their
first call brings nothing. `FinishFetch`, `FetchRaised`, `FetchesDone` and
`CycleDone` are the ends of a fetch, of the gather or loop, and of the cycle.
`EndCycle` is the external coordinator: it arms its timer after every outcome
but `ConfigEntryAuthFailed`.

### Devices

| Code | Model |
| --- | --- |
| `_devices`, `is_connected`, `last_activity` | `devices`, `connected`, `idle` (age in ticks) |
| `tracked` in `device_tracker.async_setup_entry` | `shown` |
| device and entity registry | `entries`, `entities`; entities given to `async_add_entities` and not yet there are in `adding` |
| `fetch_connected_devices` by the poll and by `refresh_clients` | `BeginFetch`, `OnlineAnswered`, `OnlineFailed`, `Apply` |
| `_async_cleanup_stale_devices` | `Stale`, `Drop`, inside `Apply` and `EndPoll` |
| a fetch's question: this entry's device, or `_unknown_device_allowed` | `entries`, `allowed`, `NewDevices` |
| the set-up's question: any entry's device, or `_unknown_device_allowed` | `Foreign`, `allowed`, `KeptAtSetup`, `Permitted` |
| `async_initialize_hub`: restore, filter, two fetches | `Restore`, `KeptAtSetup`, `rounds`, `LoadPlatform` |
| options flow and reload | `ChangeOptions`, `Restart` |

A fetch looks for a client among the devices of its own config entry
(`hub.py:1014`), the clean-up of the set-up among those of all (`Foreign` are
clients that another integration has). So nothing comes to be tracked because
another integration knows it, but what is tracked already stays for that reason.

The list a fetch obtained with its first call is applied after its second, so
the two fetches may apply their lists in the wrong order. Assumed of Home
Assistant: removing a device from the registry removes its tracker entity at
once; a reload does not begin while a fetch is under way; an entity that is
being added is there before the clock ticks and before the next reply is dealt
with.

### AccessControl

`router` and `cache` are configurations (mode, black list, white list). A
command is computed from `cache` when it starts (`SetMode`, `SetBlock`), runs on
the router or not (`Execute`, `ExecuteFailed`) and ends in a fetch; the poll
fetches on its own. `FetchFailed` is `response or {}`: the cache becomes the
default. `Elsewhere` is somebody using the router's own pages. Not modelled: a
request that reaches the router after the hub gave up on it.

### Entries

| Code | Model |
| --- | --- |
| `entry.data \| entry.options` | `entry`, `Effective` |
| `ConfigEntryState` and how far `async_setup_entry` is | `state` |
| the hub in `runtime_data`, made from the entry when the set-up begins | `hub`, `BeginSetup` |
| `async_step_dhcp`, `async_step_user`, `process_user_input` | `Discover`, `Probed`, `Submit`, `Checked`, `CheckFailed` |
| `_abort_if_unique_id_configured`, flows in progress | `MayCreate` |
| options flow; the update listener, there only after the first refresh | `SaveOptions`, `Listening`, `missed` |
| `_async_load_router_info`, clean-up of disabled features | `Initialize`, `SetupFailed`, `SetupError`, `Cleaned` |
| `async_register_services` over all entries | `FinishSetup`, `Registered`; `services` |
| unload, reload, removal, restart | `Unload`, `UserReload`, `Remove`, `Restart` |

The clean-up goes by keywords in the entities' ids and may take entities of a
feature that is enabled (`Alike`); the platforms make them anew at the end of the
set-up. A set-up that meets a router which does not answer is retried; one that raises
anything else ends in `"error"` and is not (`erring` chooses whether such errors
occur).

### Settings, Parental, Configuration

`Settings` is the shape shared by the repeater's configuration, AdGuard, WAN
access, the OLED and ZeroTier: the hub holds `copy`, the router `router`, a
command writes a document built by `Written` from the field that is asked for
and what it has seen. The kinds differ in what the document names besides
(nothing, the network's id alone for ZeroTier (`ZeroTierDoc`), what the copy
holds, or what was read just before) and in what a failed fetch leaves of the
copy; the module's head has the table. What becomes of the fields that are not
named only the router knows: it may keep them or reset them (`Execute`), and for
ZeroTier's other flags nothing is claimed (`LeftToTheRouter`). `Parental` has
the fetch that merges `get_config` and `get_status`, group and schedule toggles,
and `assign_device_to_parental_group`, which computes all its writes from the
cached groups first (`Moves`, `todo`) and makes them one call after the other;
any of them may fail and end the command.

### VpnTunnels, VpnClients, Tailscale, Vpn

`VpnTunnels`: `fetch_vpn_tunnels` replaces the hub's tunnels after its first
call and sends its signal after the second (`ApplyTunnels`, `EndFetch`, `Signal`).
A first call that brings a falsy answer ends it: the tunnels are dropped and no
signal is sent (`NothingAnswered`). An empty dashboard may be answered either way.
Each signal starts a reconciler task (`task`, `Reconcile`) that makes `switches`
from what it was told and what the hub holds by then. `VpnClients`: both kinds
replace the clients, all disconnected, after the first call (`ListAnswered`) and
mark them after the second (`ApplyState`); switching on stops what the hub
believes connected, one call and one fetch after the other, and then starts
(`ToStop`, `Stop`, `Start`, `After`). `Tailscale`: `connect` and `disconnect`
look and write up to `Depth` times (`AfterStatus`, `Look`, `SetConfig`); the
router follows its configuration in its own time and may lose the link.

### Cellular, Sms, Countdown, Repeater, Mobile

`Cellular`: information (asked for once), status, SIM configuration and traffic,
call by call; every answer to the last sets the clean-up rule, removes orphaned
limit sensors from the registry and hands new ones to Home Assistant (`Apply`,
`CleanUp`, `Limited`, `Add`). The first refreshes come before the platform is set
up, and a set-up that raises starts anew, as in sequential mode. An id in the
registry is not a sensor: `left` are those that an earlier load left there and for
which this one has made none, `Live` are the others. `Sms`: a text
goes out in parts (`SendPart`, `NextPart`); a refused part ends the service;
removals touch the inbox even when the call failed, and then fetch. `Countdown`:
`_compute_days_until_reset` for daily, weekly, monthly, seasonal and yearly
limits over a calendar with leap years. `Repeater`: the list is made from cached
saved and scanned networks, and whether joining asks the router to remember the
network is decided by the cached ones (`Listed`, `Chosen`, `Select`).

## The runs

| Run | Properties | Instance |
| --- | --- | --- |
| `session_safety` | `AtMostOnce`, `ReauthOnlyAfterThreeRefusals`, `NoLoginWithoutFault`, `ImplementsCalls` | one coroutine of each kind, four faults, four session ids (symmetric) |
| `session_live` | `StaleSessionIsRenewed`, `LinkRecovers` | two guarded coroutines, one optional, two faults |
| `polling_cycle` | `SuccessMeansAllTried`, `FirmwareCheckThrottled`, `PollingContinues` | both modes; a guarded fetch of two calls, an optional one, wifi, the firmware check, SMS; a day of two ticks |
| `devices_safety` | `TypeOK`, `EntitiesAreTracked`, `OnlyPermittedTracked`, `TrackedHaveEntities` | a client another integration knows and one nobody knows; clean-up on, off or changed; ages up to three ticks |
| `devices_live` | `MovesAreNoticed`, `StaleAreRemoved` | one client, which another integration knows, otherwise the same |
| `access` | `BlockActsOnItsTarget`, `CacheConverges`, `CopyIsMirror` | one client, two command coroutines, the poll |
| `entries` | `OneEntryPerId`, `HubsHaveTheirSettings`, `EnabledFeaturesHaveServices`, `EntitiesFollowFeatures`, `EntriesGetLoaded` | two entries, two routers, two features that share a keyword, two flows, three changes |
| `configuration` | `LastAskWins`, `OnlyTheAskedFieldChanges`, `DevicesAreWhereTheyWerePut`, `LeftAloneIsShown`, `SettingsAreMirrored` | three fields of two values; two groups, two devices; one command coroutine, the poll, two changes elsewhere |
| `vpn` | `SwitchesFollowTheHub`, `OneAtATime`, `CommandsEnd`, `LeftAloneIsShown`, `VpnIsMirrored` | two tunnels, one of a feature that is off; two clients of either kind; one command coroutine, the poll; `Depth` two |
| `mobile` | `LimitsHaveSensors`, `NoGhosts`, `TextsArriveWhole`, `CountdownFalls`, `ListRemembersNothingNew`, `LeftAloneIsShown`, `MobileIsMirrored` | one SIM slot, two types of SIM; one message, texts of up to two parts; one network; 2027 and 2028, day by day; two changes |
| `renewal_stops_cycle`, `restart_cleanup` | one documented claim each | violated, see below |

**What they show.** `session_safety`: however the wrappers interleave and whatever
fails, no call is sent twice, credentials are only asked for after the router
refused three logins of one call, nobody logs in again while nothing fails, and
callers see nothing but what `Calls` allows. `session_live`: a dead session is
replaced and a raised flag comes down, although a success may clear a flag that
belongs to another coroutine's failure. `polling_cycle`: a cycle that reports
success ran everything, the inserted firmware check included; that check is not
repeated within a day but by sequential cycles after one that was cut short behind
it, which lost its time; and the only way polling stops is a failed
authentication. `devices_safety` and `devices_live`: no entity outlives its device
(which would raise `KeyError` at every update), nothing comes to be tracked that
the options forbid, and after they change what they forbid stays only if another
integration knows it, every tracked device has its entity when the clean-up is
off, and clients' comings and goings get through despite overlapping fetches.
`access`: a request built from a stale cache is consistent in itself, the copy is
one configuration of the router's or the default, and it converges. `entries`:
flows, removals and DHCP never make two entries of one router; a hub at work has
its entry's settings if these were saved before its set-up or after it, its
features' services are registered whatever other entries do, its entities are
those of its features also after half-way set-ups, and routers that merely do not
answer do not keep an entry from loading. `configuration`: writing settings back
as a whole costs other fields only when the copy was stale (ZeroTier's unnamed
flags aside); commands in a row do not undo each other, a device is in the group
it was put into however many calls that took; what is shown of a setting was read
as a whole, and what others configure is shown. `vpn`: overlapping reconcilers end
with the right switches once a fetch that sends its signal runs by itself, the hub
never leaves two clients up on its own, Tailscale's commands end, its switch shows
no wish but what the link was, and a router left alone is shown. `mobile`: a limit
the hub knows of has live sensors unless an earlier load left their ids behind, a
limit that is seen switched off leaves no such id, so one that is then switched on
has its sensors, and the registry (not the live sensors) follows limits that are
left alone, although sensors are removed and added by answers that arrive late;
traffic and networks that are shown were the router's; texts arrive in order and
whole or the service fails; the inbox follows the router; the countdown falls by
one a day and has run out when the reset comes, but that of a season may be up to
three days too long; joining a known network from an up-to-date list makes the
router remember nothing.

**Bounds.** The properties of `Session` relate a coroutine to the shared flags and
one other coroutine; one of each kind gives every pair of roles, two guarded ones
the pair that both renew. Four faults are enough for three refusals in one call
and a loss besides; four ids for the current session, one held by each coroutine
and a new one. In `Polling` each way a fetch can end (value, nothing, early
return, an exception of either kind) and each special fetch is there once; more
ordinary fetches repeat these. In `Devices` the clean-up and grace limits differ
from each other and from the age of restored devices (1, 1 or 2, 3), so every
order of these thresholds on an ageing device occurs; two clients are needed for
one to come while the other is cleaned up, and for one that another integration
knows beside one that none does; liveness, a promise to each client, is checked of
the former. In `AccessControl` the second command is the one whose answer arrives
late; a second client changes nothing that `BlockEffect`, the lemma in the proofs,
does not cover. In `Entries` two entries are needed for one to be changed while
the other keeps its services, two flows for a race for one router, two features
for one to be off while the other is on, three changes for a set-up, an option
change and a disturbance. In `Configuration`, `Vpn` and `Mobile` a command next to
the poll gives every overlap of two fetches and of a fetch and a write; three
fields are the one that is asked for, ZeroTier's network and one that its document
does not name; two values, groups, tunnels or clients are the one that is asked
for and the one that must be left alone; `MaxChanges` bounds what happens
elsewhere to the groups (commands included) and to the modem, the other parts need
no bound. `Depth` two (the code gives up after 10) is a first write and one
repetition. The calendar has a leap day, anchors at the beginning of a month and
on the last day that all months have, hours before, at and after noon, when the
clock is looked at, and each of the three months of a quarter (with February, the
shortest one follows); what it leaves out, other dates, days and hours, the proof
of `CountdownFallsDaily` covers. All clocks stop at `Day`, which the code cannot
tell from any later time.

**Fairness.** In `Session`: every request is answered or times out (aiohttp's
time-out), the event loop resumes every coroutine, and the poll timer starts the
guarded fetches again unless authentication failed. Nothing is assumed of the
faults but that they are finite. In `Polling`: the same, and an armed timer
fires. Elsewhere: the poll goes on and its calls end, and not every one fails:
strong fairness of successful answers, since a router that never answers shows
nothing to anybody. What is shown is claimed only when no command runs any more,
so commands need no fairness; Tailscale's do, because of them it is claimed that
they end. In `Entries`: Home Assistant goes on with set-ups and reloads, a set-up
ends, and not every one fails. Nothing is assumed of users or of the router's own
pages.

**Deadlock** is checked in every run but `entries`, where nothing is left to do
once all entries are loaded and the changes used up.

## The proofs

TLAPS checks these for every value of the constants (any set of coroutines,
clients, session ids, entries, groups, messages; any limits), from the
assumptions stated with the constants.

| Module | Theorem | States |
| --- | --- | --- |
| `SessionProofs` | `InductiveInvariant`, `TypeCorrect` | `[]IInv`, `[]TypeOK` |
| | `CallsRunAtMostOnce`, `AuthFailedIsJustified`, `QuietNetworkMeansNoLogin` | the three invariants of `session_safety` |
| | `SessionImplementsCalls` | `Spec => Abstract!Spec`: the wrappers implement `Calls` |
| `PollingProofs` | `InductiveInvariant`, `TypeCorrect` | `[]IInv`, `[]TypeOK` |
| | `SuccessIsComplete`, `ChecksAreThrottled` | `SuccessMeansAllTried`, `FirmwareCheckThrottled` |
| `DevicesProofs` | `InductiveInvariant`, `TypeCorrect` | `[]IInv`, `[]TypeOK` |
| | `UpdatesFindTheirDevice`, `NoDeviceWithoutEntity` | the other two invariants of `devices_safety` |
| | `FilterIsRespected` | `Spec => OnlyPermittedTracked`, an action property |
| `AccessControlProofs` | `InductiveInvariant`, `TypeCorrect` | `[]IInv`, `[]TypeOK` |
| | `BlocksActOnTheirTarget` | the action property of `access` |
| | `CopyWasTheRouters` | `Spec => CopyIsMirror`: the copy implements `Mirror` |
| `EntriesProofs` | `InductiveInvariant`, `TypeCorrect` | `[]IInv`, `[]TypeOK` |
| | `OneEntryForOneRouter`, `SettingsAreApplied`, `ServicesAreThere`, `EntitiesMatchFeatures` | the four invariants of `entries` |
| `ConfigurationProofs` | `SettingsInvariant`, `GroupsInvariant` | the inductive invariants of `Settings` and `Parental`, types included |
| | `LastAskAlwaysWins`, `OnlyWhatWasAskedChanges`, `MovesArriveWhole` | `LastAskWins`, `OnlyTheAskedFieldChanges`, `DevicesAreWhereTheyWerePut` |
| | `SettingsWereTheRouters` | `Spec => SettingsAreMirrored`: copies of settings implement `Mirror` |
| `VpnProofs` | `InductiveInvariant` | the inductive invariants of `VpnTunnels`, `VpnClients` and `Tailscale`, types included |
| | `ReconcilerCatchesUp`, `NeverTwoUp` | `SwitchesFollowTheHub`, `OneAtATime` |
| | `VpnWasTheRouters` | `Spec => VpnIsMirrored`: tunnels and Tailscale's switch implement `Mirror` |
| | `TailscaleCommandsGetOn` | `Spec => CommandsGetOn`: each step of a command leaves fewer to make |
| `MobileProofs` | `InductiveInvariant` | the inductive invariants of `Sms`, `Repeater`, `Countdown` and `Cellular`, types included |
| | `KnownLimitsHaveSensors` | `LimitsHaveSensors` |
| | `MobileWasTheRouters` | `Spec => MobileIsMirrored`: traffic and the three views of networks implement `Mirror` |
| | `InboxHasNoGhosts`, `WholeTexts`, `ListsRememberNothingNew` | `NoGhosts`, `TextsArriveWhole`, `ListRemembersNothingNew` |
| | `CountdownFallsDaily` | `CountdownFalls`, for every date from 1901 to 2098 |

*Session.* `ReauthOnlyAfterThreeRefusals` speaks of calls that are over; what
carries it there is that at every login `refused + 1 = attempt` and at every
refusal `refused = attempt` (`TaskInv`), so the third attempt can only be given
up after three refusals. `AtMostOnce` needs that nothing ran before the request
was sent and that "ok" is only answered to a request that ran. `QuietInv` says
that without faults no login is under way, no answer is a failure and no session
is dead; each of these is needed to keep the others. The refinement maps a
coroutine that is not idle to "busy", one that renews to "wary", and the flags to
`suspect`; all network steps but `ServeRequest` and `LoseRequest` stutter.

*Polling.* Success is a statement about a cycle that is over; while it runs,
every fetch of the plan waits, runs or has run (`Covered`). The throttle compares
two clocks, the code's age of the last check and the true time since it ran; they
differ only after a sequential cycle that was cut short between the check and the
storing of its time, which `lost` remembers until a check's time is stored
(`Throttled`, `CutShort`).

*Devices.* `EntitiesAreTracked` alone is not inductive: an entity that is being
added must survive the clean-up of the very fetch that announced it. It does,
because a loaded platform has shown every tracked device (`devices \subseteq
shown`), so what is announced is new, hence was just seen, is connected and not
stale (`ApplyInv`). `TrackedHaveEntities` needs the converse, that without
clean-up nothing is shown that is not tracked. For `OnlyPermittedTracked` what is in
the registry must be tracked, so that what a fetch adds is what the options allow.

*AccessControl.* Between the sending of a block and its run on the router the
cache may change; `IInv` keeps that the operation belongs to the mode the request
itself carries, and `BlockEffect` is the lemma on one such request.

*Entries.* What the properties say of a loaded entry is kept, as far as it can
be, from the moment its hub is made: a hub that missed no options has its entry's
settings, and after the clean-up the registry has nothing of features that are
off (`HubInv`). Every set-up registers the services of all entries' features, so
those of an entry that is loaded stay whatever others do.

*Configuration.* What a command is about to write was built from what it has
seen (`Built`). In a row, all that was asked for is on the router but for the one
field under way, and the copy a command starts from is the router's document, or
nothing else was ever asked for (`InARow`); the second case is the first command,
whose copy may be empty. ZeroTier's document names two fields and the router may
reset the rest, so there it matters that only its switch is ever asked for
(`OnlyItsSwitch`). For groups: each group is as wanted or has a write under
way that makes it so, one write per group, and each is computed from members the
router then still has.

*Vpn.* Who runs by itself (`alone`) has told its reconciler what the hub holds, or
the switches are right already; that survives because the other coroutine rests
with no task left over. A fetch that ends without a signal makes `alone` "silent",
and then the hub holds no tunnels. A WireGuard client is only started when what
else is up is still to be stopped (`InARow`), and the next command is computed
from what is up. That Tailscale's commands end needs fairness and stays with TLC;
why they end is proved. `StepsLeft` counts the looks and writes a command may
still make from where it is suspended and how deep it is, at most 2 * `Depth` + 8;
a write is only under way with `depth <= Depth`, and every step of the command
lowers the count while nobody else's touches it, so no other command and no page
of the router's can keep it going (`CommandsGetOn`).

*Mobile.* A text has gone out up to where its command is, `arrived = 1..at`, and
a command that reached the fetch behind it has sent all parts. An inbox may show
a message that is gone while the list is fetched after a removal, and only then.
The list asks the router to remember only what it has seen saved. That known limits
have sensors (`LimitsHaveSensors`) is not inductive: the clean-up goes by `rule`, the
sensors by `traffic`, and a clean-up with another rule would remove what an answer
handed over. The two are set together and only `traffic` is ever emptied alone, so
`traffic \in {Unknown, rule}`; and no sensor is both a limit's and an orphan of the
same data (`SensorSets`). A clean-up takes leftovers with the orphans, and the rule
is only replaced together with a clean-up, so no leftover is ever an orphan of it.

*Mirror.* Each step of a part is shown to be one of `Mirror`, or a stutter: writes
and the router's own pages are `Change`, the answers of a fetch `Read`, their
storing `Show`, failures `Lose`, `Forget` or nothing. Of the invariants only the
types are needed. The networks share one variable for the answers of three kinds
of fetch; an answer of another kind is a `Lose`, which leaves what is shown alone.

*Countdown.* The lemmas first make a calendar of the months' lengths (`MonthsFollow`,
`MonthsInOrder`, `DayInYear`) and reduce the code's instants to numbers of days: what
is shown is the whole days to an aim, which is the first of two days that is not
before the first day whose reset is still to come (`DaysToAim`, `AimFrom`). A step of
the calendar leaves both days alone while the period lasts (`SamePeriod`), and makes
the second the first when it ends (`NextPeriod`); each period is one of the two on
every date. For a season the second is 92 days after the first while the true one is
89 to 92 (`InQuarters`), which is the slack. Between two and three days of it had
escaped the first bounds of the run, which had no quarter that resets in its second
month; the proof did not go through before the property and the run had them.

**Only model-checked:** the liveness properties (`StaleSessionIsRenewed`,
`LinkRecovers`, `PollingContinues`, `MovesAreNoticed`, `StaleAreRemoved`,
`CacheConverges`, `LeftAloneIsShown`, `CommandsEnd`, `EntriesGetLoaded`), because
fairness is out of the prover's reach. Every safety property of a passing run is a
theorem.

## Where code and documentation differ

Two are runs that are expected to be violated; the quotation is in
`PROJECT.json`.

- `renewal_stops_cycle`: `docs/features.md:83` says a failed renewal does not
  stop the rest of the cycle. In sequential mode, the default,
  `ConfigEntryAuthFailed` leaves the loop, and the coordinator does not
  reschedule.
- `restart_cleanup`: `docs/features.md:58` says removal follows the configured
  inactivity. A restored device is given the age of a day, so the first fetch
  after a restart removes it if it is away at that moment.

Seen while modelling, without a run of their own. The models contain all of them
unless noted, and the properties above hold beside them; where one of these limits
what a property can say, it is named.

- `docs/features.md:82` says firmware metadata is refreshed at most once every 24
  hours. The time of a check is stored behind the loop over all fetches
  (`hub.py:648`), so in sequential mode every cycle that a later fetch ends early
  repeats the check at its next turn, and repeated failures make it part of every
  cycle. `FirmwareCheckThrottled` says that nothing else does.
- `docs/device-trackers.md:7` says a tracker is created for a device that another
  integration knows. A fetch asks the registry for devices of its own entry only
  (`hub.py:1014`), so such a device is tracked only if unknown ones are allowed;
  the set-up asks for devices of all entries and keeps what it finds.

- Reauthentication: `docs/features.md:72` says a failed renewal triggers it. With
  `parallel_requests` the gather collects the exception and it is only logged;
  in either mode `ConfigFlow` has no `async_step_reauth` to go on with.
- Sessions are not renewed at the start of every cycle (`docs/features.md:69`;
  `logged_in` is never reset). A cycle in which the router answers nothing is a
  success.
- `docs/device-trackers.md:9` says every device is tracked. One that the clean-up
  removed and that comes back is tracked without an entity: the platform's set of
  shown devices is never cleaned (`device_tracker.py:35`), so `TrackedHaveEntities`
  holds with the clean-up off only. The grace period of the setup flow is ignored
  until the options are saved (`hub.py:1003`).
- `docs/access-control.md:15` says the switch blocks the client. The list is
  chosen by the cached mode, which a failed fetch resets to "black": on a router
  with a white list a block then changes nothing. `BlockActsOnItsTarget` claims the
  effect for a copy with the right mode only.
- `docs/wireguard-client.md:34` says switches go when the router removes a tunnel;
  they also go, with their registry entries, when `get_tunnel` fails
  (`wg_client.py:33` makes a failure an empty dashboard), and they stay when the
  answer is falsy: the tunnels are dropped and no signal is sent (`hub.py:1225`).
  `SwitchesFollowTheHub` and `LeftAloneIsShown` except that case.
- `docs/tailscale.md:19`: turning off a router that is enabled but disconnected
  writes nothing, nor does turning on one whose disconnect is still taking effect.
  Failures of both are swallowed by `_invoke_api` and mark the link as broken. The
  `OSError` branch of `_safe_set` is never taken, and `is_configured`'s
  `config is not False` is never false.
- `docs/cellular.md:61` promises sensors per SIM; all but the limits' are made
  once, from the fetch that happened to come before the platform's set-up.
- `docs/sensor-cleanup.md:65-73` says a limit's sensors are added on the next
  refresh, without a reload. `_register` passes over every id that is in the
  registry (`sensor.py:186`), also one that an earlier load left there: after a
  reload whose fetches of the traffic failed, a limit that is read later has no
  live sensors until the next set-up. `LimitsHaveSensors` excepts these ids.
- `docs/cellular.md:66`: the countdown of a season adds 92 days for a quarter
  (`hub_helpers.py:301`), which takes 89 to 92, so it may be up to three days too
  long. `CountdownFalls` allows this. Anchor days after the 28th are capped
  differently by the period; the code's clock is UTC, the model's the router's.
- `docs/architecture.md:46` and `docs/services.md:5`: services are never removed
  on unload, and an empty list of options keeps them.
- `docs/architecture.md:37` promises a single entry per physical router; the
  options flow may point an entry at another router, and the unique id stays that
  of the first (`OneEntryPerId` is about ids). Options saved while a set-up
  is under way are not applied until the next reload, because the listener comes
  last (`__init__.py:36`); `HubsHaveTheirSettings` says nothing of them.
- An error of the API at login, or an aiohttp error at `hub.py:413`, leaves the
  set-up without being retried. `ClientError`s other than
  `OSError` leave `_invoke_optional_api`, so a fetch ends with its copy untouched.
- `docs/router-targeting.md:3`: the schema of `send_sms` has no `mac` (outside
  the models).
- ZeroTier's switch writes `enabled` and reads `enable` (`hub.py:1468`,
  `models.py:305`; the model takes them for one field). It names nothing but the
  network besides; whether the router then keeps `lan_enabled` and `wan_enabled`
  (`tests/test_zerotier.py:11`) is left open.
- The list of networks goes on showing one that was chosen and never joined, and
  `connect_to_wifi` does not fetch the saved networks again.
- `TrafficSim` in `models.py` is an unused second copy of the countdown.

## What is not modelled

- Password hashing, parsing of replies, names and rates of devices, texts and
  signal values, formatting in entities and diagnostics: no property depends on
  them.
- Operations of one call and a fetch, which pass on what they are asked for and
  build nothing from a copy: LED, fan, firewall rules, forwards, DMZ, VPN
  servers, bare mode, kmwan and mwan3, the parental override, mode and global
  switch, the buttons. Each is a call in the sense of `Calls`.
- The update entity and diagnostics, which have no state of their own; the daily
  check behind the former is in `Polling`.
- In `Sms`, the fetch of the cellular status that `remove_sms` makes when a message
  names no bus (`hub.py:1877`): messages are taken to name one. It touches nothing
  that the module has.
- A request that reaches the router after the hub gave up on it; two Home
  Assistants with one router.
- In `Cellular`, a set-up with `parallel_requests`: there a fetch that raises does
  not end the set-up.

## The plan

Done, in this order: the wrappers and their refinement; the cycle on top of them;
clients; access control; tunnels and VPN clients; settings and parental groups;
messages, cellular, countdown and networks; entries and services. Each has its
type and its safety properties proved, and the copies that the hub replaces as a
whole are proved to implement `Mirror`.

What is left, in the order of what it would add:

1. Abstract specifications of the copies that `Mirror` does not fit: the inbox,
   whose messages may leave early, and the VPN clients, replaced in two steps.
2. `Vpn`, `Configuration` and `Mobile` with parts that move together, once a
   property relates two of them; `Cellular` and `Sms` are the candidates.
3. Two command coroutines in `Configuration` and `Mobile`, with the changes
   elsewhere cut down.
4. The operations of one call that are left, when one of them comes to write back
   what it cached.
