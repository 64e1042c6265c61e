--------------------------- MODULE Configuration ---------------------------
(***************************************************************************)
(* What the hub reads, changes and writes back, one part at a time: the    *)
(* small settings (Settings) or the parental groups (Parental).  They are  *)
(* fetched by calls of their own and share no state.                       *)
(***************************************************************************)
EXTENDS Naturals

CONSTANTS Fields, Id, Enabled, Values, Off, NoValue, Groups, Macs, NoGroup,
          Commands, MaxChanges

ASSUME ConfigurationAssumption ==
  /\ Id \in Fields /\ Enabled \in Fields \ {Id}
  /\ Off \in Values /\ NoValue \notin Values
  /\ NoGroup \notin Groups /\ "poll" \notin Commands
  /\ MaxChanges \in Nat

VARIABLES
  part,    \* what the behaviour is about
  kind, router, settingsCopy, settingsPc, order, settingsReply, asked, serial,
  lists, enabled, members, groupsCopy, groupsPc, todo, groupsReply, wanted,
  changes

settingsVars == <<kind, router, settingsCopy, settingsPc, order, settingsReply,
                  asked>>
groupsVars   == <<lists, enabled, members, groupsCopy, groupsPc, todo,
                  groupsReply, wanted, changes>>
vars == <<part, settingsVars, groupsVars, serial>>

S == INSTANCE Settings WITH copy <- settingsCopy, pc <- settingsPc,
                            reply <- settingsReply
P == INSTANCE Parental WITH copy <- groupsCopy, pc <- groupsPc,
                            reply <- groupsReply

-----------------------------------------------------------------------------
\* Of the part that never moves one value is enough.
Init ==
  /\ part \in {"settings", "groups"}
  /\ S!Init /\ P!Init
  /\ part = "settings" => /\ members = [g \in Groups |-> {}] /\ enabled = {}
                          /\ lists = FALSE /\ groupsCopy.known
  /\ part = "groups"   => /\ router = [f \in Fields |-> Off]
                          /\ kind = "repeater" /\ settingsCopy = router

OfSettings(A) == part = "settings" /\ A /\ UNCHANGED <<part, groupsVars>>
OfGroups(A)   == part = "groups" /\ A /\ UNCHANGED <<part, settingsVars>>

Next == OfSettings(S!Next) \/ OfGroups(P!Next)

Spec == Init /\ [][Next]_vars

\* The poll timer fires, calls end, and not every poll fails: again and again
\* one gets all its answers.  (What is shown is claimed only when no command
\* runs any more, so commands need no fairness.)
SettingsFairness ==
  /\ WF_vars(OfSettings(S!BeginPoll))
  /\ SF_vars(OfSettings(S!Answered("poll")))
  /\ SF_vars(OfSettings(S!Apply("poll")))
  /\ WF_vars(OfSettings(S!Fetch("poll")))

GroupsFairness ==
  /\ WF_vars(OfGroups(P!BeginPoll))
  /\ SF_vars(OfGroups(P!ConfigAnswered("poll")))
  /\ SF_vars(OfGroups(groupsReply["poll"].known /\ P!Store("poll")))
  /\ WF_vars(OfGroups(P!Fetch("poll")))

FairSpec == Spec /\ SettingsFairness /\ GroupsFairness

-----------------------------------------------------------------------------
(* Properties: those of the two modules.                                   *)

\* A write built from what the router still holds changes the field asked for and
\* none of the others it answers for (set_adguard_enabled, _set_wan_access,
\* set_mcu_oled_config, start_zerotier).
OnlyTheAskedFieldChanges == S!OnlyTheAskedFieldChanges

\* Commands in a row without failures do not undo each other (set_adguard_*).
LastAskWins == S!LastAskWins

\* What the hub holds of a setting was the router's as a whole, or is unknown;
\* no command anticipates its effect (fetch_adguard_status etc.).
Promise == INSTANCE Mirror WITH
  Readers <- S!Tasks, Values <- S!Docs, Empty <- S!Unknown,
  source <- router, shown <- settingsCopy, carried <- settingsReply

SettingsAreMirrored == Promise!Spec

\* Without failures every device is in the group it was last put into and in
\* no other (assign_device_to_parental_group).
DevicesAreWhereTheyWerePut == P!DevicesAreWhereTheyWerePut

\* Settings and groups left alone are shown again and again
\* (fetch_adguard_status etc., fetch_parental_control_status).
LeftAloneIsShown ==
  /\ part = "settings" => S!SettingsAreShown
  /\ part = "groups" => P!GroupsAreShown
=============================================================================
