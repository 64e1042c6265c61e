------------------------------ MODULE Settings ------------------------------
(***************************************************************************)
(* Settings the hub keeps a copy of and writes back: the repeater's        *)
(* configuration, AdGuard's two switches, WAN access, the OLED's screens   *)
(* and ZeroTier.  They differ in what a write names besides the one field  *)
(* that is asked for, in where that comes from, and in what a failed fetch *)
(* leaves behind:                                                          *)
(*                                                                         *)
(*   repeater    nothing else                            copy is kept      *)
(*   adguard     the other switch, from the copy or off  copy is kept      *)
(*   wan_access  what the copy holds                     copy is emptied   *)
(*   oled        what was read just before               copy is emptied   *)
(*   zerotier    the network id, from the copy, and                        *)
(*               nothing else; the switch does nothing                     *)
(*               without one                             copy is dropped   *)
(*                                                                         *)
(* A fetch whose call raises, which _invoke_optional_api lets pass for an  *)
(* error it does not name, ends with any copy kept.                        *)
(*                                                                         *)
(* External: the router.  It keeps what a write for the repeater does not  *)
(* name; elsewhere it may keep it or switch it off (that OLED writes are   *)
(* merged says that it is not kept there).                                 *)
(***************************************************************************)
EXTENDS Naturals

CONSTANTS Fields,   \* the fields of the setting
          Id,       \* the field that is ZeroTier's network id there
          Enabled,  \* the field that is ZeroTier's switch there
          Values,   \* what a field may hold
          Off,      \* one of them, what nobody has chosen
          NoValue,  \* of a field that is not known, or not named
          Commands  \* coroutines that change settings

VARIABLES
  kind,    \* the setting this is about
  router,  \* external: what the router holds
  copy,    \* what the hub holds
  pc,      \* where each coroutine is suspended
  order,   \* what each command was asked for and what it writes
  reply,   \* what was read, on its way
  asked,   \* history: what was last asked for, per field; only if serial
  serial   \* the environment lets nothing fail and nothing overlap

vars == <<kind, router, copy, pc, order, reply, asked, serial>>

Tasks   == {"poll"} \cup Commands
Kinds   == {"repeater", "adguard", "wan_access", "oled", "zerotier"}
Docs    == [Fields -> Values]
Unknown == [f \in Fields |-> NoValue]
NoOrder == [pending |-> FALSE]
NoReply == Unknown

\* A document that names some of the fields.
Named(d) == {f \in DOMAIN d : d[f] # NoValue}

Idle == \A t \in Tasks : pc[t] = "idle"

-----------------------------------------------------------------------------
Init ==
  /\ kind \in Kinds
  /\ router \in Docs
  /\ copy \in {router, Unknown}
  /\ pc = [t \in Tasks |-> "idle"]
  /\ order = [t \in Commands |-> NoOrder]
  /\ reply = [t \in Tasks |-> NoReply]
  /\ asked = Unknown
  /\ serial \in BOOLEAN

Goto(t, where) == pc' = [pc EXCEPT ![t] = where]

\* Somebody uses the router's own pages.
Elsewhere ==
  /\ ~serial
  /\ \E f \in Fields, v \in Values : router' = [router EXCEPT ![f] = v]
  /\ UNCHANGED <<kind, copy, pc, order, reply, asked, serial>>

Enter(t) == pc[t] = "idle" /\ (serial => Idle)

\* The poll fetches all of them but the OLED's.
BeginPoll ==
  /\ Enter("poll") /\ kind # "oled"
  /\ Goto("poll", "get")
  /\ UNCHANGED <<kind, router, copy, order, reply, asked, serial>>

-----------------------------------------------------------------------------
(* What is written.                                                        *)

\* The repeater's own value, alone.
RepeaterDoc(f, v) == [Unknown EXCEPT ![f] = v]

\* set_adguard_enabled, set_adguard_dns_enabled: the other switch is off when
\* it is not known.
AdGuardDoc(f, v, known) ==
  [[g \in Fields |-> IF known[g] = NoValue THEN Off ELSE known[g]]
     EXCEPT ![f] = v]

\* start_zerotier, stop_zerotier: the network's other flags are not named.
ZeroTierDoc(f, v, known) == [Unknown EXCEPT ![Id] = known[Id], ![f] = v]

\* Faulty variant: what is not asked for is left out.
WrittenBare(f, v, known) == RepeaterDoc(f, v)

\* The fields a write names, when field f shall be v and known is what the
\* hub knows of the others.
Written(f, v, known) ==
  IF kind = "repeater" THEN RepeaterDoc(f, v)
  ELSE IF kind = "adguard" THEN AdGuardDoc(f, v, known)
  ELSE IF kind = "zerotier" THEN ZeroTierDoc(f, v, known)
  ELSE [known EXCEPT ![f] = v]

Order(f, v, known) ==
  [pending |-> TRUE, field |-> f, value |-> v, seen |-> known,
   doc |-> Written(f, v, known)]

\* Only of commands in a row is there something to say later.
Remember(f, v) == asked' = IF serial THEN [asked EXCEPT ![f] = v] ELSE asked

\* Faulty variant: what is asked for is shown at once.
AskOptimistic(t, f, v, where) ==
  /\ Enter(t)
  /\ Remember(f, v)
  /\ order' = [order EXCEPT ![t] = Order(f, v, copy)]
  /\ copy' = [copy EXCEPT ![f] = v]
  /\ Goto(t, where)
  /\ UNCHANGED <<kind, router, reply, serial>>

\* Field f shall be v; the coroutine goes on at where.
Ask(t, f, v, where) ==
  /\ Enter(t)
  /\ Remember(f, v)
  /\ order' = [order EXCEPT ![t] = Order(f, v, copy)]
  /\ Goto(t, where)
  /\ UNCHANGED <<kind, router, copy, reply, serial>>

\* A switch of the repeater, of AdGuard or of WAN access is turned.
Change(t, f, v) == kind \notin {"oled", "zerotier"} /\ Ask(t, f, v, "write")

\* The service set_mcu_oled_config.
ChangeOled(t, f, v) == kind = "oled" /\ Ask(t, f, v, "read")

\* start_zerotier, stop_zerotier: nothing happens when no network is known.
ChangeZeroTier(t, f, v) ==
  /\ kind = "zerotier" /\ f = Enabled /\ copy[Id] \notin {NoValue, Off}
  /\ Ask(t, f, v, "write")

\* set_mcu_oled_config reads first, and stores what it reads.
Read(t) ==
  /\ pc[t] = "read"
  /\ \/ copy' = router
     \/ ~serial /\ copy' = Unknown
  /\ order' = [order EXCEPT ![t] = Order(@.field, @.value, copy')]
  /\ Goto(t, "write")
  /\ UNCHANGED <<kind, router, reply, asked, serial>>

\* Faulty variant: the copy is left to the next poll.
ExecuteOnly(t) ==
  /\ pc[t] = "write"
  /\ router' = [f \in Fields |-> IF f \in Named(order[t].doc)
                                 THEN order[t].doc[f] ELSE router[f]]
  /\ order' = [order EXCEPT ![t] = NoOrder]
  /\ Goto(t, "idle")
  /\ UNCHANGED <<kind, copy, reply, asked, serial>>

Execute(t) ==
  /\ pc[t] = "write"
  /\ \E kept \in BOOLEAN :
       /\ kind = "repeater" => kept
       /\ router' = [f \in Fields |->
                       IF f \in Named(order[t].doc) THEN order[t].doc[f]
                       ELSE IF kept THEN router[f] ELSE Off]
  /\ order' = [order EXCEPT ![t] = NoOrder]
  /\ Goto(t, "get")
  /\ UNCHANGED <<kind, copy, reply, asked, serial>>

\* The write is lost; an error that is raised ends the command.
Lose(t) ==
  /\ ~serial
  /\ pc[t] \in {"read", "write"}
  /\ order' = [order EXCEPT ![t] = NoOrder]
  /\ (pc[t] = "write" /\ Goto(t, "get")) \/ Goto(t, "idle")
  /\ UNCHANGED <<kind, router, copy, reply, asked, serial>>

-----------------------------------------------------------------------------
(* The fetch, of the poll or at the end of a command.                      *)

Answered(t) ==
  /\ pc[t] = "get"
  /\ reply' = [reply EXCEPT ![t] = router]
  /\ Goto(t, "answered")
  /\ UNCHANGED <<kind, router, copy, order, asked, serial>>

\* ZeroTier's status is asked for after its configuration and may fail too.
Failed(t) ==
  /\ ~serial
  /\ pc[t] = "get" \/ (kind = "zerotier" /\ pc[t] = "answered")
  /\ reply' = [reply EXCEPT ![t] = NoReply]

\* The repeater's and AdGuard's copies outlive every failure, the others' one
\* that is raised.
FailedKept(t) ==
  /\ Failed(t)
  /\ Goto(t, "idle")
  /\ UNCHANGED <<kind, router, copy, order, asked, serial>>

FailedEmptied(t) ==
  /\ Failed(t) /\ kind \in {"wan_access", "oled", "zerotier"}
  /\ copy' = Unknown
  /\ Goto(t, "idle")
  /\ UNCHANGED <<kind, router, order, asked, serial>>

Apply(t) ==
  /\ pc[t] = "answered"
  /\ copy' = reply[t]
  /\ reply' = [reply EXCEPT ![t] = NoReply]
  /\ Goto(t, "idle")
  /\ UNCHANGED <<kind, router, order, asked, serial>>

-----------------------------------------------------------------------------
Command(t) ==
  \/ \E f \in Fields, v \in Values :
       Change(t, f, v) \/ ChangeOled(t, f, v) \/ ChangeZeroTier(t, f, v)
  \/ Read(t) \/ Execute(t) \/ Lose(t)

Fetch(t) ==
  \/ Answered(t) \/ FailedKept(t) \/ FailedEmptied(t) \/ Apply(t)

Next ==
  \/ Elsewhere \/ BeginPoll
  \/ \E t \in Commands : Command(t)
  \/ \E t \in Tasks : Fetch(t)

Spec == Init /\ [][Next]_vars

-----------------------------------------------------------------------------
(* Properties.                                                             *)

\* Fields a command leaves to the router: ZeroTier's but for its switch and its
\* network.  What becomes of them only the router knows.
LeftToTheRouter == IF kind = "zerotier" THEN Fields \ {Id, Enabled} ELSE {}

\* A write that was built from what the router still holds when it arrives
\* changes the field that was asked for and none of the others the command
\* answers for (set_adguard_enabled, _set_wan_access, set_mcu_oled_config,
\* start_zerotier): the cost of writing settings as a whole is limited to copies
\* that are stale.
OnlyTheAskedFieldChanges ==
  [][\A t \in Commands, f \in Fields \ LeftToTheRouter :
       pc[t] = "write" /\ router' # router /\ ~order'[t].pending
       /\ (order[t].seen = router \/ kind = "repeater")
         => router'[f] = [router EXCEPT ![order[t].field] = order[t].value][f]]_vars

\* Commands that follow each other, with no failure in between, do not undo
\* each other: every field is what was last asked for it.
LastAskWins ==
  serial /\ Idle => \A f \in Named(asked) : router[f] = asked[f]

\* What makes LastAskWins inductive.  The variables have their types, what a
\* command is about to write was built from what it has seen, and of ZeroTier's
\* fields only its switch is ever asked for.
Known  == [Fields -> Values \cup {NoValue}]
Orders == [pending : {TRUE}, field : Fields, value : Values, seen : Known,
           doc : Known]

TypeOK ==
  /\ kind \in Kinds /\ router \in Docs /\ copy \in Known /\ asked \in Known
  /\ pc \in [Tasks -> {"idle", "read", "write", "get", "answered"}]
  /\ pc["poll"] \notin {"read", "write"}
  /\ order \in [Commands -> Orders \cup {NoOrder}]
  /\ reply \in [Tasks -> Known]
  /\ serial \in BOOLEAN

Writing(t) == pc[t] \in {"read", "write"}

BuiltOf(o) ==
  /\ o \in Orders /\ o.doc = Written(o.field, o.value, o.seen)
  /\ kind = "zerotier" => o.field = Enabled

Built(t)   == Writing(t) => BuiltOf(order[t])

\* Commands in a row: one coroutine runs at a time; what was asked for is on the
\* router, but for the field a command is about to write; and what is written is
\* built from what the router holds, unless nothing else was ever asked for.
OneAtATime == \A t, u \in Tasks : pc[t] # "idle" /\ pc[u] # "idle" => t = u

Fulfilled(but) == \A f \in Fields \ but : asked[f] \in {NoValue, router[f]}

AskedAlone(but) == \A f \in Fields \ but : asked[f] = NoValue

OnlyItsSwitch == kind = "zerotier" => AskedAlone({Enabled})

UnderWay(t) ==
  Writing(t) => /\ asked[order[t].field] = order[t].value
                /\ Fulfilled({order[t].field})
                /\ pc[t] = "write" =>
                     order[t].seen = router \/ AskedAlone({order[t].field})

InARow ==
  /\ OneAtATime
  /\ \A t \in Commands : UnderWay(t)
  /\ (\A t \in Commands : ~Writing(t)) => Fulfilled({})
  /\ \A t \in Tasks : pc[t] = "answered" => reply[t] = router
  /\ Idle => copy = router \/ AskedAlone({})

IInv == /\ TypeOK
        /\ \A t \in Commands : Built(t)
        /\ OnlyItsSwitch
        /\ serial => InARow

\* When the settings are left alone and no command runs any more, the hub
\* shows them again and again.
SettingsAreShown ==
  (/\ kind # "oled" /\ <>[][UNCHANGED router]_vars
   /\ <>[](\A t \in Commands : pc[t] = "idle"))
    => []<>(copy = router)
=============================================================================
