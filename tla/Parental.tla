------------------------------ MODULE Parental ------------------------------
(***************************************************************************)
(* Parental groups: fetch_parental_control_status merges what get_config   *)
(* and get_status list; set_group_enabled (and set_group_schedules_enabled *)
(* alike) and assign_device_to_parental_group write whole groups back, the *)
(* latter one call per group it changes.                                   *)
(*                                                                         *)
(* Status may list the groups too, with overrides but neither members nor  *)
(* the enabled flag.  Then the merge takes the flag's default, TRUE; and   *)
(* when get_config fails, a group is known without its members.            *)
(*                                                                         *)
(* External: the router, which keeps what set_group does not name.         *)
(***************************************************************************)
EXTENDS Naturals, FiniteSets

CONSTANTS Groups,   \* parental groups of the router
          Macs,     \* client devices
          NoGroup,
          Commands, \* coroutines that change groups
          MaxChanges \* bound on commands and changes made elsewhere

VARIABLES
  lists,    \* external: get_status lists the groups
  enabled,  \* external: groups that are enabled on the router
  members,  \* external: the devices of each group
  copy,     \* _parental_status.groups, what is known of them
  pc,       \* where each coroutine is suspended
  todo,     \* writes a command has still to make
  reply,    \* get_config's answer, kept while get_status and get_mode run
  wanted,   \* history, while serial: the group each device was last put into
  serial,   \* the environment lets nothing fail and nothing overlap
  changes   \* commands and changes made elsewhere so far

vars == <<lists, enabled, members, copy, pc, todo, reply, wanted, serial,
          changes>>

Tasks == {"poll"} \cup Commands

\* What the configuration tells of the groups, if it is known, and whether the
\* status lists them; or nothing.
Config(on, mem, status) ==
  [known |-> TRUE, listed |-> status, enabled |-> on, members |-> mem]
Nothing == [Config({}, [g \in Groups |-> {}], FALSE) EXCEPT !.known = FALSE]

\* A write of group g: the flag it names, if any, and the set of the member
\* lists it names, one or none.
Flag(on) == IF on THEN "on" ELSE "off"
Write(g, flag, mem) == [group |-> g, flag |-> flag, mem |-> mem]

Idle == \A t \in Tasks : pc[t] = "idle"
GroupOf(m) == {g \in Groups : m \in members[g]}

-----------------------------------------------------------------------------
\* The first refresh is over.  No device is in two groups; all groups are
\* enabled or none.
Init ==
  /\ lists \in BOOLEAN /\ serial \in BOOLEAN
  /\ enabled \in {{}, Groups}
  /\ \E where \in [Macs -> Groups \cup {NoGroup}] :
       /\ members = [g \in Groups |-> {m \in Macs : where[m] = g}]
       /\ wanted = IF serial THEN where ELSE [m \in Macs |-> NoGroup]
  /\ copy \in {Config(enabled, members, lists), Nothing}
  /\ serial => copy # Nothing
  /\ pc = [t \in Tasks |-> "idle"]
  /\ todo = [t \in Commands |-> {}]
  /\ changes = 0
  /\ reply = [t \in Tasks |-> Nothing]

Goto(t, where) == pc' = [pc EXCEPT ![t] = where]

Count == changes < MaxChanges /\ changes' = changes + 1

\* Somebody uses the router's own pages.
Elsewhere ==
  /\ ~serial /\ Count
  /\ \/ \E m \in Macs, h \in Groups \cup {NoGroup} :
          /\ members' = [g \in Groups |-> IF g = h THEN members[g] \cup {m}
                                          ELSE members[g] \ {m}]
          /\ UNCHANGED enabled
     \/ /\ \E g \in Groups : enabled' \in {enabled \cup {g}, enabled \ {g}}
        /\ UNCHANGED members
  /\ UNCHANGED <<lists, copy, pc, todo, reply, wanted, serial>>

Enter(t) == pc[t] = "idle" /\ (serial => Idle)

BeginPoll ==
  /\ Enter("poll")
  /\ Goto("poll", "get_config")
  /\ UNCHANGED <<lists, enabled, members, copy, todo, reply, wanted, serial,
                 changes>>

-----------------------------------------------------------------------------
(* Commands.                                                               *)

\* The rest of the raw group.
Rest(g) == {copy.members[g]}

SetEnabled(t, g, on) ==
  /\ Enter(t) /\ Count
  /\ todo' = [todo EXCEPT ![t] =
       {IF copy.known       THEN Write(g, Flag(on), Rest(g))
        ELSE IF copy.listed THEN Write(g, Flag(on), {})
                            ELSE Write(g, "unnamed", {})}]
  /\ Goto(t, "write")
  /\ UNCHANGED <<lists, enabled, members, copy, reply, wanted, serial>>

\* The group as the copy has it, with other members.
Resized(g, mem) == Write(g, Flag(g \in copy.enabled), {mem})

\* Faulty variant: a device is put into its group but taken out of none.
MovesAdding(m, h) ==
  {Resized(g, copy.members[g] \cup {m}) : g \in Groups \cap {h}}

\* The groups that change when m moves to h, as the copy has them.
Moves(m, h) ==
  {Resized(g, copy.members[g] \ {m}) :
      g \in {x \in Groups \ {h} : m \in copy.members[x]}}
  \cup {Resized(g, copy.members[g] \cup {m}) :
      g \in {x \in Groups \cap {h} : m \notin copy.members[x]}}

\* Without the configuration a group's id is still found, its name is not.
Assign(t, m, h) ==
  /\ Enter(t) /\ Count
  /\ LET writes == IF copy.known       THEN Moves(m, h)
                   ELSE IF copy.listed THEN {Write(g, "unnamed", {{m}}) :
                                               g \in {h} \cap Groups}
                                       ELSE {}
     IN  /\ todo' = [todo EXCEPT ![t] = writes]
         /\ Goto(t, IF writes = {} THEN "get_config" ELSE "write")
  /\ wanted' = IF serial THEN [wanted EXCEPT ![m] = h] ELSE wanted
  /\ UNCHANGED <<lists, enabled, members, copy, reply, serial>>

\* set_group, one after the other; the order is the router's.
Execute(t) ==
  /\ pc[t] = "write"
  /\ \E w \in todo[t] :
       /\ enabled' = {g \in Groups : IF g = w.group /\ w.flag # "unnamed"
                                     THEN w.flag = "on" ELSE g \in enabled}
       /\ members' = [members EXCEPT ![w.group] =
                        IF w.mem = {} THEN @ ELSE UNION w.mem]
       /\ todo' = [todo EXCEPT ![t] = @ \ {w}]
  /\ Goto(t, IF todo'[t] = {} THEN "get_config" ELSE "write")
  /\ UNCHANGED <<lists, copy, reply, wanted, serial, changes>>

\* A write is lost; ConfigEntryAuthFailed ends the command with all the rest.
Lose(t) ==
  /\ ~serial
  /\ pc[t] = "write"
  /\ \/ \E w \in todo[t] :
          /\ todo' = [todo EXCEPT ![t] = @ \ {w}]
          /\ Goto(t, IF todo'[t] = {} THEN "get_config" ELSE "write")
     \/ todo' = [todo EXCEPT ![t] = {}] /\ Goto(t, "idle")
  /\ UNCHANGED <<lists, enabled, members, copy, reply, wanted, serial,
                 changes>>

-----------------------------------------------------------------------------
(* The fetch.                                                              *)

ConfigAnswered(t) ==
  /\ pc[t] = "get_config"
  /\ reply' = [reply EXCEPT ![t] = Config(enabled, members, FALSE)]
  /\ Goto(t, "get_status")
  /\ UNCHANGED <<lists, enabled, members, copy, todo, wanted, serial, changes>>

ConfigFailed(t) ==
  /\ ~serial
  /\ pc[t] = "get_config"
  /\ Goto(t, "get_status")
  /\ UNCHANGED <<lists, enabled, members, copy, todo, reply, wanted, serial,
                 changes>>

\* An error that is raised ends the fetch, at any of its three calls.
Raised(t) ==
  /\ ~serial
  /\ pc[t] \in {"get_config", "get_status"}
  /\ reply' = [reply EXCEPT ![t] = Nothing]
  /\ Goto(t, "idle")
  /\ UNCHANGED <<lists, enabled, members, copy, todo, wanted, serial, changes>>

\* Faulty variant: the flag is merged with the one known before.
MergedWithOld(config, listed) ==
  IF config.known /\ copy.known
  THEN [config EXCEPT !.listed = listed, !.enabled = @ \cup copy.enabled]
  ELSE [config EXCEPT !.listed = listed]

\* ParentalStatus.from_api_response.
Merged(config, listed) == [config EXCEPT !.listed = listed]

\* The status, or nothing; the mode tells no group.
Store(t) ==
  /\ pc[t] = "get_status"
  /\ \/ copy' = Merged(reply[t], lists)
     \/ ~serial /\ copy' = Merged(reply[t], FALSE)
  /\ reply' = [reply EXCEPT ![t] = Nothing]
  /\ Goto(t, "idle")
  /\ UNCHANGED <<lists, enabled, members, todo, wanted, serial, changes>>

-----------------------------------------------------------------------------
Command(t) ==
  \/ \E g \in Groups, on \in BOOLEAN : SetEnabled(t, g, on)
  \/ \E m \in Macs, h \in Groups \cup {NoGroup} : Assign(t, m, h)
  \/ Execute(t) \/ Lose(t)

Fetch(t) == ConfigAnswered(t) \/ ConfigFailed(t) \/ Raised(t) \/ Store(t)

Next ==
  \/ Elsewhere \/ BeginPoll
  \/ \E t \in Commands : Command(t)
  \/ \E t \in Tasks : Fetch(t)

Spec == Init /\ [][Next]_vars

-----------------------------------------------------------------------------
(* Properties.                                                             *)

\* GLinetParentalControlGroupSwitch: the groups whose switch is on.
ShownEnabled ==
  IF copy.listed THEN Groups ELSE IF copy.known THEN copy.enabled ELSE {}

\* As long as commands follow each other without a failure, every device is in
\* the group it was last put into and in no other, however many calls that
\* took (assign_device_to_parental_group).
DevicesAreWhereTheyWerePut ==
  serial /\ Idle =>
    \A m \in Macs : GroupOf(m) = {g \in Groups : g = wanted[m]}

\* What makes it inductive.  The variables have their types; and when commands
\* follow each other, one coroutine runs at a time, a group that is not as wanted
\* has a write under way that makes it so, and what the next command is computed
\* from is what the router holds.
Known == [known : BOOLEAN, listed : BOOLEAN, enabled : SUBSET Groups,
          members : [Groups -> SUBSET Macs]]

Writes == [group : Groups, flag : {"on", "off", "unnamed"},
           mem : SUBSET SUBSET Macs]

TypeOK ==
  /\ lists \in BOOLEAN /\ serial \in BOOLEAN
  /\ enabled \subseteq Groups /\ members \in [Groups -> SUBSET Macs]
  /\ copy \in Known
  /\ pc \in [Tasks -> {"idle", "write", "get_config", "get_status"}]
  /\ pc["poll"] # "write"
  /\ todo \in [Commands -> SUBSET Writes]
  /\ \A t \in Commands : pc[t] # "write" => todo[t] = {}
  /\ reply \in [Tasks -> Known]
  /\ wanted \in [Macs -> Groups \cup {NoGroup}]

OneAtATime == \A t, u \in Tasks : pc[t] # "idle" /\ pc[u] # "idle" => t = u

Placed(g) == {m \in Macs : wanted[m] = g}

OnItsWay(g) == \E t \in Commands : \E w \in todo[t] : w.group = g

InARow ==
  /\ OneAtATime
  /\ \A t \in Commands : \A w \in todo[t] : w.mem = {Placed(w.group)}
  /\ \A g \in Groups : OnItsWay(g) \/ members[g] = Placed(g)
  /\ \A t \in Tasks :
       pc[t] = "get_status" => reply[t].known /\ reply[t].members = members
  /\ Idle => copy.known /\ copy.members = members

IInv == TypeOK /\ (serial => InARow)

\* When the groups are left alone and no command runs any more, the hub shows
\* every device in its group again and again, and the groups' switches too
\* unless the status lists the groups.
GroupsAreShown ==
  (/\ <>[][UNCHANGED <<enabled, members>>]_vars
   /\ <>[](\A t \in Commands : pc[t] = "idle"))
    => []<>(/\ copy.known /\ copy.members = members
            /\ lists \/ ShownEnabled = enabled)
=============================================================================
