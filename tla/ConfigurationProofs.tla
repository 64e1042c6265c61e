------------------------- MODULE ConfigurationProofs -------------------------
(***************************************************************************)
(* Proofs about Configuration: what the settings and the parental groups   *)
(* keep, and what is shown of the settings as a copy of the router's       *)
(* (Mirror), for any fields, values, groups, devices and coroutines.       *)
(***************************************************************************)
EXTENDS Configuration, TLAPS

-----------------------------------------------------------------------------
(* What a write of a setting names.                                        *)

\* A write is a document that names the field with its value.
LEMMA WrittenNames ==
  ASSUME S!TypeOK, NEW f \in Fields, NEW v \in Values, NEW known \in S!Known
  PROVE  /\ S!Written(f, v, known) \in S!Known
         /\ S!Written(f, v, known)[f] = v
BY ConfigurationAssumption
DEF S!Written, S!RepeaterDoc, S!AdGuardDoc, S!ZeroTierDoc, S!Known, S!Unknown

\* An order is built of what it has seen.
LEMMA OrderIsBuilt ==
  ASSUME S!TypeOK, NEW f \in Fields, NEW v \in Values, NEW known \in S!Known,
         kind = "zerotier" => f = Enabled
  PROVE  S!BuiltOf(S!Order(f, v, known))
BY WrittenNames DEF S!BuiltOf, S!Order, S!Orders

\* A write that was built from what the router holds, or for the repeater, makes
\* the change that was asked for and no other in the fields it answers for.
LEMMA FreshWrite ==
  ASSUME S!IInv, NEW t \in Commands, S!Execute(t),
         order[t].seen = router \/ kind = "repeater",
         NEW f \in Fields \ S!LeftToTheRouter
  PROVE  router'[f] = [router EXCEPT ![order[t].field] = order[t].value][f]
<1> DEFINE o == order[t]
<1>1. S!BuiltOf(o)
  BY DEF S!IInv, S!Built, S!Writing, S!Execute
<1>2. S!TypeOK /\ router \in [Fields -> Values] /\ NoValue \notin Values
  BY ConfigurationAssumption DEF S!IInv, S!TypeOK, S!Docs
<1>3. PICK kept \in BOOLEAN :
        /\ kind = "repeater" => kept
        /\ router' = [g \in Fields |->
                        IF g \in S!Named(o.doc) THEN o.doc[g]
                        ELSE IF kept THEN router[g] ELSE Off]
  BY DEF S!Execute
<1>4. o.field \in Fields /\ o.value \in Values /\ o.doc \in S!Known
  BY <1>1 DEF S!BuiltOf, S!Orders
<1>5. CASE kind = "repeater"
  <2>1. o.doc = [S!Unknown EXCEPT ![o.field] = o.value]
    BY <1>1, <1>5 DEF S!BuiltOf, S!Written, S!RepeaterDoc
  <2>2. S!Named(o.doc) = {o.field}
    BY <2>1, <1>2, <1>4 DEF S!Named, S!Unknown
  <2> QED
    BY <1>2, <1>3, <1>4, <1>5, <2>1, <2>2 DEF S!Unknown
<1>6. CASE kind = "zerotier"
  <2>1. o.doc = [S!Unknown EXCEPT ![Id] = router[Id], ![o.field] = o.value]
    BY <1>1, <1>6 DEF S!BuiltOf, S!Written, S!ZeroTierDoc
  <2>2. o.field = Enabled
    BY <1>1, <1>6 DEF S!BuiltOf
  <2>3. f \in {Id, Enabled} /\ Id \in Fields
    BY <1>6, ConfigurationAssumption DEF S!LeftToTheRouter
  <2>4. f \in S!Named(o.doc)
    BY <1>2, <1>4, <2>1, <2>2, <2>3 DEF S!Unknown, S!Named
  <2> QED
    BY <1>2, <1>3, <1>4, <2>1, <2>2, <2>3, <2>4 DEF S!Unknown
<1>7. CASE kind \notin {"repeater", "zerotier"}
  <2>1. o.doc = [router EXCEPT ![o.field] = o.value]
    <3>1. o.seen = router /\ o.doc = S!Written(o.field, o.value, router)
      BY <1>1, <1>7 DEF S!BuiltOf
    <3>2. router = [g \in Fields |-> IF router[g] = NoValue THEN Off ELSE router[g]]
      BY <1>2
    <3> QED
      BY <3>1, <3>2, <1>7 DEF S!Written, S!AdGuardDoc
  <2>2. S!Named(o.doc) = Fields
    BY <2>1, <1>2, <1>4 DEF S!Named
  <2> QED
    BY <1>2, <1>3, <1>4, <2>1, <2>2
<1> QED
  BY <1>5, <1>6, <1>7

\* Any write puts the value that was asked for into its field.
LEMMA WriteArrives ==
  ASSUME S!IInv, NEW t \in Commands, S!Execute(t)
  PROVE  /\ router' \in S!Docs
         /\ order[t].field \in Fields
         /\ router'[order[t].field] = order[t].value
<1> DEFINE o == order[t]
<1>1. S!BuiltOf(o)
  BY DEF S!IInv, S!Built, S!Writing, S!Execute
<1>2. S!TypeOK /\ router \in [Fields -> Values]
  BY DEF S!IInv, S!TypeOK, S!Docs
<1>3. PICK kept \in BOOLEAN :
        router' = [f \in Fields |->
                        IF f \in S!Named(o.doc) THEN o.doc[f]
                        ELSE IF kept THEN router[f] ELSE Off]
  BY DEF S!Execute
<1>4. o.field \in Fields /\ o.value \in Values /\ o.doc \in S!Known
  BY <1>1 DEF S!BuiltOf, S!Orders
<1>5. o.doc[o.field] = o.value
  <2>1. o.seen \in S!Known
    BY <1>1 DEF S!BuiltOf, S!Orders
  <2> QED
    BY <1>1, <1>2, <1>4, <2>1, WrittenNames DEF S!BuiltOf
<1>6. \A f \in S!Named(o.doc) : o.doc[f] \in Values
  BY <1>4 DEF S!Named, S!Known
<1>7. router' \in S!Docs
  BY <1>2, <1>3, <1>6, ConfigurationAssumption DEF S!Docs
<1>8. o.field \in S!Named(o.doc)
  BY <1>4, <1>5, ConfigurationAssumption DEF S!Named, S!Known
<1> QED
  BY <1>3, <1>4, <1>5, <1>7, <1>8

-----------------------------------------------------------------------------
(* The invariant of the settings.                                          *)

\* What an action that leaves the kind alone does not touch stays built, or never
\* asked for.
LEMMA BuiltStays ==
  ASSUME NEW o, kind' = kind, S!BuiltOf(o)
  PROVE  S!BuiltOf(o)'
BY DEF S!BuiltOf, S!Written, S!AdGuardDoc, S!RepeaterDoc, S!ZeroTierDoc, S!Unknown,
       S!Orders, S!Known

LEMMA SwitchStays ==
  ASSUME S!OnlyItsSwitch, kind' = kind, asked' = asked
  PROVE  S!OnlyItsSwitch'
BY DEF S!OnlyItsSwitch, S!AskedAlone

LEMMA SettingsInit == S!Init => S!IInv
<1> SUFFICES ASSUME S!Init PROVE S!IInv
  OBVIOUS
<1> USE ConfigurationAssumption DEF S!Init
<1>1. S!TypeOK
  BY DEF S!TypeOK, S!Docs, S!Known, S!Unknown, S!NoReply, S!Tasks
<1>2. \A t \in Commands : S!Built(t)
  BY DEF S!Built, S!Writing, S!Tasks
<1>3. S!InARow
  BY DEF S!InARow, S!OneAtATime, S!UnderWay, S!Writing, S!Fulfilled,
         S!AskedAlone, S!Unknown, S!Idle, S!Tasks
<1>4. S!OnlyItsSwitch
  BY DEF S!OnlyItsSwitch, S!AskedAlone, S!Unknown
<1> QED
  BY <1>1, <1>2, <1>3, <1>4 DEF S!IInv

LEMMA SettingsElsewhere == S!IInv /\ S!Elsewhere => S!IInv'
<1> SUFFICES ASSUME S!IInv, S!Elsewhere PROVE S!IInv'
  OBVIOUS
<1> USE DEF S!Elsewhere
<1>1. S!TypeOK'
  BY DEF S!IInv, S!TypeOK, S!Docs, S!Known, S!Orders
<1>2. \A t \in Commands : S!Built(t)'
  BY BuiltStays DEF S!IInv, S!Built, S!Writing
<1>3. ~serial'
  OBVIOUS
<1> QED
  BY <1>1, <1>2, <1>3, SwitchStays DEF S!IInv

LEMMA SettingsBeginPoll == S!IInv /\ S!BeginPoll => S!IInv'
<1> SUFFICES ASSUME S!IInv, S!BeginPoll PROVE S!IInv'
  OBVIOUS
<1> USE ConfigurationAssumption DEF S!BeginPoll, S!Enter, S!Goto
<1>1. S!TypeOK'
  BY DEF S!IInv, S!TypeOK, S!Docs, S!Known, S!Orders, S!Tasks
<1>2. \A t \in Commands : S!Built(t)'
  BY BuiltStays DEF S!IInv, S!Built, S!Writing, S!TypeOK, S!Tasks
<1>3. ASSUME serial PROVE S!InARow'
  <2> USE <1>3
  <2>1. S!OneAtATime'
    BY DEF S!IInv, S!InARow, S!OneAtATime, S!TypeOK, S!Tasks, S!Idle
  <2>2. \A t \in Commands : S!UnderWay(t)' /\ ~S!Writing(t)'
    BY DEF S!IInv, S!TypeOK, S!UnderWay, S!Writing, S!Tasks, S!Idle
  <2>3. S!Fulfilled({})'
    BY DEF S!IInv, S!InARow, S!Fulfilled, S!Writing, S!Idle, S!Tasks
  <2>4. \A t \in S!Tasks : settingsPc'[t] # "answered"
    BY DEF S!IInv, S!TypeOK, S!Idle, S!Tasks
  <2>5. ~S!Idle'
    BY DEF S!IInv, S!TypeOK, S!Idle, S!Tasks
  <2> QED
    BY <2>1, <2>2, <2>3, <2>4, <2>5 DEF S!InARow
<1> QED
  BY <1>1, <1>2, <1>3, SwitchStays DEF S!IInv

\* Whatever is asked for, it was last asked for.
LEMMA SettingsAsk ==
  ASSUME S!IInv, NEW t \in Commands, NEW f \in Fields, NEW v \in Values,
         NEW where \in {"read", "write"}, S!Ask(t, f, v, where),
         kind = "zerotier" => f = Enabled
  PROVE  S!IInv'
<1> USE ConfigurationAssumption DEF S!Ask, S!Remember, S!Enter, S!Goto
<1>1. settingsCopy \in S!Known /\ S!TypeOK
  BY DEF S!IInv, S!TypeOK
<1>2. PICK o : o = S!Order(f, v, settingsCopy) /\ S!BuiltOf(o)
  BY <1>1, OrderIsBuilt
<1>3. o.field = f /\ o.value = v /\ o.seen = settingsCopy /\ o \in S!Orders
  BY <1>2 DEF S!Order, S!BuiltOf
<1>4. order' = [order EXCEPT ![t] = o]
  BY <1>2
<1>5. S!TypeOK'
  <2>1. order' \in [Commands -> S!Orders \cup {S!NoOrder}]
    BY <1>1, <1>3, <1>4 DEF S!TypeOK
  <2>2. settingsPc' \in [S!Tasks -> {"idle", "read", "write", "get", "answered"}]
        /\ settingsPc'["poll"] \notin {"read", "write"}
    BY <1>1 DEF S!TypeOK, S!Tasks
  <2>3. asked' \in S!Known
    BY <1>1 DEF S!TypeOK, S!Known
  <2> QED
    BY <1>1, <2>1, <2>2, <2>3 DEF S!TypeOK
<1>6. \A u \in Commands : S!Built(u)'
  <2>1. ASSUME NEW u \in Commands, u # t PROVE S!Built(u)'
    BY <1>1, <1>4, <2>1, BuiltStays DEF S!IInv, S!Built, S!Writing, S!TypeOK, S!Tasks
  <2>2. S!BuiltOf(o)'
    BY <1>2, BuiltStays
  <2>3. order'[t] = o
    BY <1>1, <1>4 DEF S!TypeOK
  <2>4. S!Built(t)'
    BY <2>2, <2>3 DEF S!Built, S!BuiltOf
  <2> QED
    BY <2>1, <2>4
<1>7. ASSUME serial PROVE S!InARow'
  <2> USE <1>7
  <2>1. S!OneAtATime'
    BY <1>1 DEF S!InARow, S!OneAtATime, S!TypeOK, S!Tasks, S!Idle
  <2>2. /\ S!Fulfilled({})
        /\ settingsCopy = router \/ S!AskedAlone({})
        /\ order'[t] = o /\ asked' = [asked EXCEPT ![f] = v]
    BY <1>1, <1>4 DEF S!IInv, S!InARow, S!Writing, S!Idle, S!Tasks, S!TypeOK
  <2>3. /\ asked'[f] = v /\ S!Fulfilled({f})'
        /\ settingsCopy = router' \/ S!AskedAlone({f})'
    BY <1>1, <2>2 DEF S!Fulfilled, S!AskedAlone, S!TypeOK, S!Known
  <2>4. \A u \in Commands \ {t} : ~S!Writing(u)'
    BY <1>1 DEF S!Writing, S!Idle, S!Tasks, S!TypeOK
  <2>5. S!UnderWay(t)'
    BY <1>3, <2>2, <2>3 DEF S!UnderWay, S!Fulfilled, S!AskedAlone
  <2>6. S!Writing(t)'
    BY <1>1 DEF S!Writing, S!TypeOK, S!Tasks
  <2>7. \A u \in S!Tasks : settingsPc'[u] # "answered"
    BY <1>1 DEF S!TypeOK, S!Idle, S!Tasks
  <2>8. ~S!Idle'
    BY <1>1 DEF S!TypeOK, S!Idle, S!Tasks
  <2>9. \A u \in Commands : S!UnderWay(u)'
    BY <2>4, <2>5 DEF S!UnderWay
  <2> QED
    BY <2>1, <2>6, <2>7, <2>8, <2>9 DEF S!InARow
<1>8. S!OnlyItsSwitch'
  BY <1>1 DEF S!IInv, S!OnlyItsSwitch, S!AskedAlone, S!TypeOK, S!Known
<1> QED
  BY <1>5, <1>6, <1>7, <1>8 DEF S!IInv

LEMMA SettingsRead ==
  ASSUME S!IInv, NEW t \in Commands, S!Read(t)
  PROVE  S!IInv'
<1> USE ConfigurationAssumption DEF S!Read, S!Goto
<1>1. S!TypeOK /\ S!BuiltOf(order[t])
  BY DEF S!IInv, S!Built, S!Writing
<1>2. settingsCopy' \in S!Known
  BY <1>1 DEF S!TypeOK, S!Docs, S!Known, S!Unknown
<1>3. /\ order[t].field \in Fields /\ order[t].value \in Values
      /\ kind = "zerotier" => order[t].field = Enabled
  BY <1>1 DEF S!BuiltOf, S!Orders
<1>4. PICK o : /\ o = S!Order(order[t].field, order[t].value, settingsCopy')
               /\ S!BuiltOf(o)
  BY <1>1, <1>2, <1>3, OrderIsBuilt
<1>5. /\ o.field = order[t].field /\ o.value = order[t].value
      /\ o.seen = settingsCopy' /\ o \in S!Orders
  BY <1>4 DEF S!Order, S!BuiltOf
<1>6. order' = [order EXCEPT ![t] = o] /\ order'[t] = o
  BY <1>1, <1>4
  DEF S!TypeOK, S!Order, S!Written, S!AdGuardDoc, S!RepeaterDoc, S!ZeroTierDoc
<1>7. S!TypeOK'
  <2>1. order' \in [Commands -> S!Orders \cup {S!NoOrder}]
    BY <1>1, <1>5, <1>6 DEF S!TypeOK
  <2>2. settingsPc' \in [S!Tasks -> {"idle", "read", "write", "get", "answered"}]
        /\ settingsPc'["poll"] \notin {"read", "write"}
    BY <1>1 DEF S!TypeOK, S!Tasks
  <2> QED
    BY <1>1, <1>2, <2>1, <2>2 DEF S!TypeOK
<1>8. \A u \in Commands : S!Built(u)'
  <2>1. ASSUME NEW u \in Commands, u # t PROVE S!Built(u)'
    BY <1>1, <1>6, <2>1, BuiltStays DEF S!IInv, S!Built, S!Writing, S!TypeOK, S!Tasks
  <2>2. S!BuiltOf(o)'
    BY <1>4, BuiltStays
  <2>3. S!Built(t)'
    BY <1>6, <2>2 DEF S!Built, S!BuiltOf
  <2> QED
    BY <2>1, <2>3
<1>9. ASSUME serial PROVE S!InARow'
  <2> USE <1>9
  <2>1. \A u \in S!Tasks \ {t} : settingsPc[u] = "idle" /\ settingsPc'[u] = "idle"
    BY <1>1 DEF S!IInv, S!InARow, S!OneAtATime, S!TypeOK, S!Tasks
  <2>2. t \in S!Tasks /\ settingsPc'[t] = "write"
    BY <1>1 DEF S!TypeOK, S!Tasks
  <2>3. asked[o.field] = o.value /\ S!Fulfilled({o.field})
    BY <1>5 DEF S!IInv, S!InARow, S!UnderWay, S!Writing
  <2>4. S!UnderWay(t)'
    BY <1>5, <1>6, <2>3 DEF S!UnderWay, S!Fulfilled
  <2>5. \A u \in Commands : S!UnderWay(u)'
    BY <2>1, <2>4 DEF S!UnderWay, S!Writing, S!Tasks
  <2> QED
    BY <2>1, <2>2, <2>5 DEF S!InARow, S!OneAtATime, S!Writing, S!Idle
<1> QED
  BY <1>7, <1>8, <1>9, SwitchStays DEF S!IInv

LEMMA SettingsExecute ==
  ASSUME S!IInv, NEW t \in Commands, S!Execute(t)
  PROVE  S!IInv'
<1> USE ConfigurationAssumption DEF S!Goto
<1>1. S!TypeOK /\ router' \in S!Docs
  BY WriteArrives DEF S!IInv
<1>2. S!TypeOK'
  <2>1. order' \in [Commands -> S!Orders \cup {S!NoOrder}]
    BY <1>1 DEF S!Execute, S!TypeOK
  <2>2. settingsPc' \in [S!Tasks -> {"idle", "read", "write", "get", "answered"}]
        /\ settingsPc'["poll"] \notin {"read", "write"}
    BY <1>1 DEF S!Execute, S!TypeOK, S!Tasks
  <2> QED
    BY <1>1, <2>1, <2>2 DEF S!Execute, S!TypeOK
<1>3. \A u \in Commands : S!Built(u)'
  BY <1>1, BuiltStays
  DEF S!Execute, S!IInv, S!Built, S!Writing, S!TypeOK, S!Tasks
<1>4. ASSUME serial PROVE S!InARow'
  <2> USE <1>4
  <2>1. \A u \in S!Tasks \ {t} : settingsPc'[u] = "idle"
    BY <1>1 DEF S!Execute, S!IInv, S!InARow, S!OneAtATime, S!TypeOK, S!Tasks
  <2>2. t \in S!Tasks /\ settingsPc'[t] = "get"
    BY <1>1 DEF S!Execute, S!TypeOK, S!Tasks
  <2> DEFINE o == order[t]
  <2>3. /\ asked[o.field] = o.value /\ S!Fulfilled({o.field})
        /\ o.seen = router \/ S!AskedAlone({o.field})
    BY DEF S!Execute, S!IInv, S!InARow, S!UnderWay, S!Writing
  <2>4. o.field \in Fields /\ router'[o.field] = asked[o.field] /\ asked' = asked
    BY <2>3, WriteArrives DEF S!Execute
  <2>5. S!Fulfilled({})'
    <3>1. \A f \in Fields : asked[f] \in {NoValue, router'[f]}
      <4>1. ASSUME o.seen = router, NEW f \in Fields \ S!LeftToTheRouter
            PROVE  asked[f] \in {NoValue, router'[f]}
        <5>1. router'[f] = [router EXCEPT ![o.field] = o.value][f]
          BY <4>1, FreshWrite
        <5> QED
          BY <1>1, <2>3, <2>4, <5>1 DEF S!Fulfilled, S!TypeOK, S!Docs
      <4>2. CASE S!AskedAlone({o.field})
        BY <2>4, <4>2 DEF S!AskedAlone
      <4>3. \A f \in S!LeftToTheRouter : asked[f] = NoValue
        BY DEF S!LeftToTheRouter, S!IInv, S!OnlyItsSwitch, S!AskedAlone
      <4> QED
        BY <2>3, <4>1, <4>2, <4>3
    <3> QED
      BY <2>4, <3>1 DEF S!Fulfilled
  <2> QED
    BY <2>1, <2>2, <2>5
    DEF S!InARow, S!OneAtATime, S!UnderWay, S!Writing, S!Idle, S!Tasks
<1> QED
  BY <1>2, <1>3, <1>4, SwitchStays DEF S!Execute, S!IInv

\* What fails, fails only when commands are not said to follow each other.
LEMMA SettingsLose ==
  ASSUME S!IInv, NEW t \in Commands, S!Lose(t)
  PROVE  S!IInv'
<1> USE DEF S!Lose, S!Goto
<1>1. S!TypeOK'
  BY DEF S!IInv, S!TypeOK, S!Tasks
<1>2. \A u \in Commands : S!Built(u)'
  BY BuiltStays DEF S!IInv, S!Built, S!Writing, S!TypeOK, S!Tasks
<1> QED
  BY <1>1, <1>2, SwitchStays DEF S!IInv

LEMMA SettingsFailed ==
  ASSUME S!IInv, NEW t \in S!Tasks, S!FailedKept(t) \/ S!FailedEmptied(t)
  PROVE  S!IInv'
<1> USE DEF S!FailedKept, S!FailedEmptied, S!Failed, S!Goto
<1>1. S!Unknown \in S!Known /\ S!NoReply \in S!Known
  BY DEF S!Known, S!Unknown, S!NoReply
<1>2. /\ settingsCopy' \in {settingsCopy, S!Unknown}
      /\ settingsPc' = [settingsPc EXCEPT ![t] = "idle"]
      /\ settingsReply' = [settingsReply EXCEPT ![t] = S!NoReply]
      /\ UNCHANGED <<kind, router, order, asked, serial>>
  OBVIOUS
<1>3. S!TypeOK'
  BY <1>1, <1>2 DEF S!IInv, S!TypeOK, S!Tasks
<1>4. \A u \in Commands : S!Built(u)'
  BY <1>2, BuiltStays DEF S!IInv, S!Built, S!Writing, S!TypeOK, S!Tasks
<1> QED
  BY <1>3, <1>4, SwitchStays DEF S!IInv

LEMMA SettingsAnswered ==
  ASSUME S!IInv, NEW t \in S!Tasks, S!Answered(t)
  PROVE  S!IInv'
<1> USE ConfigurationAssumption DEF S!Answered, S!Goto
<1>1. S!TypeOK /\ S!TypeOK'
  BY DEF S!IInv, S!TypeOK, S!Tasks, S!Known, S!Docs
<1>2. \A u \in Commands : S!Built(u)'
  BY <1>1, BuiltStays DEF S!IInv, S!Built, S!Writing, S!TypeOK, S!Tasks
<1>3. ASSUME serial PROVE S!InARow'
  <2> USE <1>1, <1>3
  <2>1. \A u \in S!Tasks \ {t} : settingsPc[u] = "idle" /\ settingsPc'[u] = "idle"
    BY DEF S!IInv, S!InARow, S!OneAtATime, S!TypeOK
  <2>2. settingsPc'[t] = "answered" /\ settingsReply'[t] = router
    BY DEF S!TypeOK
  <2>3. \A u \in Commands : ~S!Writing(u) /\ ~S!Writing(u)'
    BY <2>1, <2>2 DEF S!Writing, S!Tasks
  <2>4. S!Fulfilled({}) /\ S!Fulfilled({})'
    BY <2>3 DEF S!IInv, S!InARow, S!Fulfilled
  <2> QED
    BY <2>1, <2>2, <2>3, <2>4 DEF S!InARow, S!OneAtATime, S!UnderWay, S!Idle
<1> QED
  BY <1>1, <1>2, <1>3, SwitchStays DEF S!IInv

LEMMA SettingsApply ==
  ASSUME S!IInv, NEW t \in S!Tasks, S!Apply(t)
  PROVE  S!IInv'
<1> USE ConfigurationAssumption DEF S!Apply, S!Goto
<1>1. S!TypeOK /\ S!TypeOK'
  BY DEF S!IInv, S!TypeOK, S!Tasks, S!Known, S!Unknown, S!NoReply
<1>2. \A u \in Commands : S!Built(u)'
  BY <1>1, BuiltStays DEF S!IInv, S!Built, S!Writing, S!TypeOK, S!Tasks
<1>3. ASSUME serial PROVE S!InARow'
  <2> USE <1>1, <1>3
  <2>1. \A u \in S!Tasks : settingsPc'[u] = "idle"
    BY DEF S!IInv, S!InARow, S!OneAtATime, S!TypeOK
  <2>2. settingsCopy' = router'
    BY DEF S!IInv, S!InARow
  <2>3. \A u \in Commands : ~S!Writing(u) /\ ~S!Writing(u)'
    BY <2>1 DEF S!IInv, S!InARow, S!OneAtATime, S!Writing, S!Tasks
  <2>4. S!Fulfilled({}) /\ S!Fulfilled({})'
    BY <2>3 DEF S!IInv, S!InARow, S!Fulfilled
  <2> QED
    BY <2>1, <2>2, <2>3, <2>4 DEF S!InARow, S!OneAtATime, S!UnderWay, S!Idle
<1> QED
  BY <1>1, <1>2, <1>3, SwitchStays DEF S!IInv

LEMMA SettingsStep == S!IInv /\ S!Next => S!IInv'
<1> SUFFICES ASSUME S!IInv, S!Next PROVE S!IInv'
  OBVIOUS
<1>1. CASE S!Elsewhere
  BY <1>1, SettingsElsewhere
<1>2. CASE S!BeginPoll
  BY <1>2, SettingsBeginPoll
<1>3. ASSUME NEW t \in Commands, S!Command(t) PROVE S!IInv'
  <2>1. ASSUME NEW f \in Fields, NEW v \in Values,
               S!Change(t, f, v) \/ S!ChangeOled(t, f, v) \/ S!ChangeZeroTier(t, f, v)
        PROVE  S!IInv'
    BY <2>1, SettingsAsk DEF S!Change, S!ChangeOled, S!ChangeZeroTier
  <2> QED
    BY <1>3, <2>1, SettingsRead, SettingsExecute, SettingsLose DEF S!Command
<1>4. ASSUME NEW t \in S!Tasks, S!Fetch(t) PROVE S!IInv'
  BY <1>4, SettingsAnswered, SettingsFailed, SettingsApply DEF S!Fetch
<1> QED
  BY <1>1, <1>2, <1>3, <1>4 DEF S!Next

\* The settings stay as they are.
LEMMA SettingsStutter ==
  S!IInv /\ UNCHANGED <<settingsVars, serial>> => S!IInv'
<1> SUFFICES ASSUME S!IInv, UNCHANGED <<settingsVars, serial>> PROVE S!IInv'
  OBVIOUS
<1> USE DEF settingsVars
<1>1. S!TypeOK'
  BY DEF S!IInv, S!TypeOK
<1>2. \A u \in Commands : S!Built(u)'
  BY BuiltStays DEF S!IInv, S!Built, S!Writing
<1>3. serial => S!InARow'
  BY DEF S!IInv, S!InARow, S!OneAtATime, S!UnderWay, S!Writing, S!Fulfilled,
         S!AskedAlone, S!Idle
<1> QED
  BY <1>1, <1>2, <1>3, SwitchStays DEF S!IInv

LEMMA GroupsKeepSerial == P!Next => serial' = serial
BY DEF P!Next, P!Elsewhere, P!BeginPoll, P!Command, P!SetEnabled, P!Assign,
       P!Execute, P!Lose, P!Fetch, P!ConfigAnswered, P!ConfigFailed, P!Raised,
       P!Store

LEMMA SettingsKeepSerial == S!Next => serial' = serial
BY DEF S!Next, S!Elsewhere, S!BeginPoll, S!Command, S!Change, S!ChangeOled,
       S!ChangeZeroTier, S!Ask, S!Read, S!Execute, S!Lose, S!Fetch, S!Answered,
       S!FailedKept, S!FailedEmptied, S!Failed, S!Apply

-----------------------------------------------------------------------------
(* What every step of the parental groups keeps.                           *)

LEMMA Elements ==
  /\ P!Nothing \in P!Known
  /\ \A a \in SUBSET Groups, b \in [Groups -> SUBSET Macs], l \in BOOLEAN :
       P!Config(a, b, l) \in P!Known
BY DEF P!Known, P!Nothing, P!Config

LEMMA WriteIs ==
  ASSUME NEW g \in Groups, NEW flag \in {"on", "off", "unnamed"},
         NEW mem \in SUBSET SUBSET Macs
  PROVE  /\ P!Write(g, flag, mem) \in P!Writes
         /\ P!Write(g, flag, mem).group = g
         /\ P!Write(g, flag, mem).mem = mem
BY DEF P!Write, P!Writes

LEMMA ResizedIs ==
  ASSUME NEW g \in Groups, NEW mem \in SUBSET Macs
  PROVE  /\ P!Resized(g, mem) \in P!Writes
         /\ P!Resized(g, mem).group = g
         /\ P!Resized(g, mem).mem = {mem}
BY DEF P!Resized, P!Flag, P!Write, P!Writes

\* Whatever is merged is known as before.
LEMMA MergedIsKnown ==
  ASSUME NEW c \in P!Known, NEW listed \in BOOLEAN
  PROVE  /\ P!Merged(c, listed) \in P!Known
         /\ P!Merged(c, listed).known = c.known
         /\ P!Merged(c, listed).members = c.members
BY DEF P!Merged, P!Known

LEMMA GroupsInit == P!Init => P!IInv
<1> SUFFICES ASSUME P!Init PROVE P!IInv
  OBVIOUS
<1>1. PICK where \in [Macs -> Groups \cup {NoGroup}] :
        /\ members = [g \in Groups |-> {m \in Macs : where[m] = g}]
        /\ wanted = IF serial THEN where ELSE [m \in Macs |-> NoGroup]
  BY DEF P!Init
<1>2. members \in [Groups -> SUBSET Macs] /\ enabled \subseteq Groups
  BY <1>1 DEF P!Init
<1>3. /\ groupsCopy \in {P!Config(enabled, members, lists), P!Nothing}
      /\ serial => groupsCopy # P!Nothing
      /\ lists \in BOOLEAN
  BY DEF P!Init
<1>4. groupsCopy \in P!Known
  BY <1>2, <1>3, Elements
<1>5. P!TypeOK
  BY <1>1, <1>2, <1>4, Elements DEF P!TypeOK, P!Tasks, P!Init
<1>6. ASSUME serial PROVE P!InARow
  <2>1. \A g \in Groups : members[g] = P!Placed(g)
    BY <1>1, <1>6 DEF P!Placed
  <2>2. groupsCopy.known /\ groupsCopy.members = members
    BY <1>3, <1>6 DEF P!Config
  <2>3. \A t \in P!Tasks : groupsPc[t] = "idle"
    BY DEF P!Init
  <2>4. \A t \in Commands : todo[t] = {}
    BY DEF P!Init
  <2> QED
    BY <2>1, <2>2, <2>3, <2>4 DEF P!InARow, P!OneAtATime, P!OnItsWay
<1> QED
  BY <1>5, <1>6 DEF P!IInv

LEMMA GroupsElsewhere == P!IInv /\ P!Elsewhere => P!IInv'
<1> SUFFICES ASSUME P!IInv, P!Elsewhere PROVE P!IInv'
  OBVIOUS
<1>1. P!TypeOK'
  BY DEF P!IInv, P!TypeOK, P!Elsewhere, P!Tasks
<1> QED
  BY <1>1 DEF P!IInv, P!Elsewhere

LEMMA GroupsBeginPoll == P!IInv /\ P!BeginPoll => P!IInv'
<1> SUFFICES ASSUME P!IInv, P!BeginPoll PROVE P!IInv'
  OBVIOUS
<1> USE DEF P!BeginPoll, P!Goto, P!Enter
<1>1. P!TypeOK'
  BY ConfigurationAssumption DEF P!IInv, P!TypeOK, P!Tasks
<1>2. ASSUME serial PROVE P!InARow'
  BY <1>2 DEF P!IInv, P!InARow, P!TypeOK, P!OneAtATime, P!OnItsWay, P!Placed,
              P!Idle, P!Tasks
<1> QED
  BY <1>1, <1>2 DEF P!IInv

\* Before a command that starts in a row, every group is as wanted, and the hub
\* knows it.
LEMMA BeforeACommand ==
  ASSUME P!IInv, serial, P!Idle
  PROVE  /\ \A t \in Commands : todo[t] = {}
         /\ \A g \in Groups : members[g] = P!Placed(g)
         /\ groupsCopy.known /\ groupsCopy.members = members
BY DEF P!IInv, P!InARow, P!TypeOK, P!Idle, P!Tasks, P!OnItsWay

LEMMA GroupsSetEnabled ==
  ASSUME P!IInv, NEW t \in Commands, NEW g \in Groups, NEW on \in BOOLEAN,
         P!SetEnabled(t, g, on)
  PROVE  P!IInv'
<1> USE DEF P!SetEnabled, P!Goto, P!Enter
<1>1. groupsCopy \in P!Known
  BY DEF P!IInv, P!TypeOK
<1>2. PICK w \in P!Writes :
        /\ todo' = [todo EXCEPT ![t] = {w}]
        /\ w.group = g
        /\ groupsCopy.known => w.mem = {groupsCopy.members[g]}
  <2>1. CASE groupsCopy.known
    <3>1. /\ P!Rest(g) = {groupsCopy.members[g]}
          /\ P!Rest(g) \in SUBSET SUBSET Macs
      BY <1>1 DEF P!Known, P!Rest
    <3>2. todo' = [todo EXCEPT ![t] = {P!Write(g, P!Flag(on), P!Rest(g))}]
      BY <2>1
    <3>3. P!Flag(on) \in {"on", "off", "unnamed"}
      BY DEF P!Flag
    <3>4. /\ P!Write(g, P!Flag(on), P!Rest(g)) \in P!Writes
          /\ P!Write(g, P!Flag(on), P!Rest(g)).group = g
          /\ P!Write(g, P!Flag(on), P!Rest(g)).mem = P!Rest(g)
      BY <3>1, <3>3, WriteIs
    <3> QED
      BY <3>1, <3>2, <3>4
  <2>2. CASE ~groupsCopy.known
    <3>1. PICK flag \in {"on", "off", "unnamed"} :
            todo' = [todo EXCEPT ![t] = {P!Write(g, flag, {})}]
      BY <2>2 DEF P!Flag
    <3>2. /\ P!Write(g, flag, {}) \in P!Writes
          /\ P!Write(g, flag, {}).group = g
      BY WriteIs
    <3> QED
      BY <2>2, <3>1, <3>2
  <2> QED
    BY <2>1, <2>2
<1>3. P!TypeOK'
  BY <1>2, ConfigurationAssumption DEF P!IInv, P!TypeOK, P!Tasks, P!Writes
<1>4. ASSUME serial PROVE P!InARow'
  <2>1. \A u \in Commands : todo'[u] = IF u = t THEN {w} ELSE {}
    BY <1>2, <1>4, BeforeACommand DEF P!IInv, P!TypeOK
  <2>2. \A h \in Groups : P!Placed(h)' = P!Placed(h)
    BY DEF P!Placed
  <2>3. w.mem = {P!Placed(g)}
    BY <1>2, <1>4, BeforeACommand
  <2>4. /\ \A u \in P!Tasks \ {t} : groupsPc'[u] = "idle"
        /\ t \in P!Tasks /\ groupsPc'[t] = "write"
    BY <1>4 DEF P!IInv, P!TypeOK, P!Idle, P!Tasks
  <2> QED
    BY <1>2, <1>4, <2>1, <2>2, <2>3, <2>4, BeforeACommand
    DEF P!InARow, P!OneAtATime, P!OnItsWay, P!Idle, P!Tasks
<1> QED
  BY <1>3, <1>4 DEF P!IInv

\* The writes of a move from what is known are writes of groups.
LEMMA MovesAreWrites ==
  ASSUME P!TypeOK, NEW m \in Macs, NEW h \in Groups \cup {NoGroup}
  PROVE  P!Moves(m, h) \subseteq P!Writes
<1>1. groupsCopy.members \in [Groups -> SUBSET Macs]
  BY DEF P!TypeOK, P!Known
<1> SUFFICES ASSUME NEW w \in P!Moves(m, h)
             PROVE  w \in P!Writes
  OBVIOUS
<1>2. \E g \in Groups : \/ w = P!Resized(g, groupsCopy.members[g] \ {m})
                         \/ w = P!Resized(g, groupsCopy.members[g] \cup {m})
  BY DEF P!Moves
<1>3. PICK g \in Groups : \/ w = P!Resized(g, groupsCopy.members[g] \ {m})
                          \/ w = P!Resized(g, groupsCopy.members[g] \cup {m})
  BY <1>2
<1>4. /\ groupsCopy.members[g] \ {m} \in SUBSET Macs
      /\ groupsCopy.members[g] \cup {m} \in SUBSET Macs
  BY <1>1
<1> QED
  BY <1>3, <1>4, ResizedIs

\* A move writes the groups it changes, as they shall be, and leaves the others.
LEMMA MovesMakeItSo ==
  ASSUME P!IInv, serial, P!Idle, NEW m \in Macs,
         NEW h \in Groups \cup {NoGroup}, wanted' = [wanted EXCEPT ![m] = h]
  PROVE  /\ \A w \in P!Moves(m, h) : w.mem = {P!Placed(w.group)'}
         /\ \A g \in Groups : \/ \E w \in P!Moves(m, h) : w.group = g
                             \/ members[g] = P!Placed(g)'
<1>1. /\ members \in [Groups -> SUBSET Macs] /\ groupsCopy.members = members
      /\ wanted \in [Macs -> Groups \cup {NoGroup}]
      /\ \A g \in Groups : members[g] = P!Placed(g)
  BY BeforeACommand DEF P!IInv, P!TypeOK
<1>2. \A g \in Groups : P!Placed(g)' = IF g = h THEN members[g] \cup {m}
                                                ELSE members[g] \ {m}
  BY <1>1 DEF P!Placed
<1>3. \A g \in Groups, mem \in SUBSET Macs :
        P!Resized(g, mem).group = g /\ P!Resized(g, mem).mem = {mem}
  BY ResizedIs
<1>4. ASSUME NEW w \in P!Moves(m, h) PROVE w.mem = {P!Placed(w.group)'}
  <2>1. CASE \E g \in Groups \ {h} : w = P!Resized(g, members[g] \ {m})
    <3>1. PICK g \in Groups \ {h} : w = P!Resized(g, members[g] \ {m})
      BY <2>1
    <3>2. w.group = g /\ w.mem = {members[g] \ {m}}
      BY <1>1, <1>3, <3>1
    <3>3. P!Placed(g)' = members[g] \ {m}
      BY <1>2
    <3> QED
      BY <3>2, <3>3 DEF P!Placed
  <2>2. CASE \E g \in Groups \cap {h} : w = P!Resized(g, members[g] \cup {m})
    <3>1. PICK g \in Groups \cap {h} : w = P!Resized(g, members[g] \cup {m})
      BY <2>2
    <3>2. w.group = g /\ w.mem = {members[g] \cup {m}}
      <4>1. members[g] \cup {m} \in SUBSET Macs
        BY <1>1, <3>1
      <4> QED
        BY <1>3, <3>1, <4>1
    <3>3. P!Placed(g)' = members[g] \cup {m}
      BY <1>2
    <3> QED
      BY <3>2, <3>3 DEF P!Placed
  <2> QED
    BY <1>1, <1>4, <2>1, <2>2 DEF P!Moves
<1>5. ASSUME NEW g \in Groups, members[g] # P!Placed(g)'
      PROVE  \E w \in P!Moves(m, h) : w.group = g
  <2>1. CASE g = h
    <3>1. m \notin members[g]
      BY <1>1, <1>2, <1>5, <2>1
    <3>2. P!Resized(g, members[g] \cup {m}) \in P!Moves(m, h)
      BY <1>1, <2>1, <3>1 DEF P!Moves
    <3> QED
      BY <1>1, <1>3, <3>2
  <2>2. CASE g # h
    <3>1. m \in members[g]
      <4>1. m \notin members[g] => members[g] \ {m} = members[g]
        OBVIOUS
      <4> QED
        BY <1>1, <1>2, <1>5, <2>2, <4>1
    <3>2. P!Resized(g, members[g] \ {m}) \in P!Moves(m, h)
      BY <1>1, <2>2, <3>1 DEF P!Moves
    <3> QED
      BY <1>1, <1>3, <3>2
  <2> QED
    BY <2>1, <2>2
<1> QED
  BY <1>4, <1>5

LEMMA GroupsAssign ==
  ASSUME P!IInv, NEW t \in Commands, NEW m \in Macs,
         NEW h \in Groups \cup {NoGroup}, P!Assign(t, m, h)
  PROVE  P!IInv'
<1> USE DEF P!Assign, P!Goto, P!Enter
<1>1. PICK writes \in SUBSET P!Writes :
        /\ todo' = [todo EXCEPT ![t] = writes]
        /\ groupsPc' = [groupsPc EXCEPT ![t] =
                          IF writes = {} THEN "get_config" ELSE "write"]
        /\ groupsCopy.known => writes = P!Moves(m, h)
  <2>1. CASE groupsCopy.known
    BY <2>1, MovesAreWrites DEF P!IInv
  <2>2. CASE ~groupsCopy.known
    <3>1. {P!Write(g, "unnamed", {{m}}) : g \in {h} \cap Groups} \subseteq P!Writes
      <4>1. {{m}} \in SUBSET SUBSET Macs
        OBVIOUS
      <4> QED
        BY <4>1, WriteIs
    <3>2. PICK writes \in {{}, {P!Write(g, "unnamed", {{m}}) : g \in {h} \cap Groups}} :
            /\ todo' = [todo EXCEPT ![t] = writes]
            /\ groupsPc' = [groupsPc EXCEPT ![t] =
                              IF writes = {} THEN "get_config" ELSE "write"]
      BY <2>2
    <3>3. writes \in SUBSET P!Writes
      BY <3>1, <3>2
    <3> QED
      BY <2>2, <3>2, <3>3
  <2> QED
    BY <2>1, <2>2
<1>2. P!TypeOK'
  <2>1. wanted' \in [Macs -> Groups \cup {NoGroup}]
    BY DEF P!IInv, P!TypeOK
  <2>2. /\ groupsPc' \in [P!Tasks -> {"idle", "write", "get_config", "get_status"}]
        /\ groupsPc'["poll"] # "write"
    BY <1>1, ConfigurationAssumption DEF P!IInv, P!TypeOK, P!Tasks
  <2>3. /\ todo' \in [Commands -> SUBSET P!Writes]
        /\ \A u \in Commands : groupsPc'[u] # "write" => todo'[u] = {}
    BY <1>1 DEF P!IInv, P!TypeOK, P!Tasks
  <2> QED
    BY <2>1, <2>2, <2>3 DEF P!IInv, P!TypeOK, P!Writes
<1>3. ASSUME serial PROVE P!InARow'
  <2>1. \A u \in Commands : todo'[u] = IF u = t THEN writes ELSE {}
    BY <1>1, <1>3, BeforeACommand DEF P!IInv, P!TypeOK
  <2>2. /\ \A w \in writes : w.mem = {P!Placed(w.group)'}
        /\ \A g \in Groups : (\E w \in writes : w.group = g)
                             \/ members[g] = P!Placed(g)'
    <3>1. wanted' = [wanted EXCEPT ![m] = h] /\ P!Idle
      BY <1>3
    <3>2. writes = P!Moves(m, h)
      BY <1>1, <1>3, <3>1, BeforeACommand
    <3> QED
      BY <1>3, <3>1, <3>2, MovesMakeItSo
  <2>3. /\ \A u \in P!Tasks \ {t} : groupsPc'[u] = "idle"
        /\ t \in P!Tasks /\ groupsPc'[t] \in {"get_config", "write"}
    BY <1>1, <1>3 DEF P!IInv, P!TypeOK, P!Idle, P!Tasks
  <2>4. P!OneAtATime' /\ ~P!Idle'
    BY <2>3 DEF P!OneAtATime, P!Idle
  <2>5. ASSUME NEW u \in Commands, NEW w \in todo'[u]
        PROVE  w.mem = {P!Placed(w.group)'}
    <3> HIDE DEF P!Assign
    <3>1. w \in writes
      BY <2>1
    <3>2. \A x \in writes : x.mem = {P!Placed(x.group)'}
      BY <2>2
    <3> QED
      BY <3>1, <3>2 DEF P!Placed
  <2>6. ASSUME NEW g \in Groups
        PROVE  P!OnItsWay(g)' \/ members'[g] = P!Placed(g)'
    <3>1. members' = members
      OBVIOUS
    <3> HIDE DEF P!Assign
    <3>2. CASE \E w \in writes : w.group = g
      <4>1. todo'[t] = writes
        BY <2>1
      <4> QED
        BY <3>2, <4>1 DEF P!OnItsWay
    <3>3. CASE members[g] = P!Placed(g)'
      BY <3>1, <3>3
    <3> QED
      BY <2>2, <3>2, <3>3
  <2>7. \A u \in P!Tasks : groupsPc'[u] # "get_status"
    BY <2>3
  <2> QED
    BY <2>4, <2>5, <2>6, <2>7 DEF P!InARow
<1> QED
  BY <1>2, <1>3 DEF P!IInv

LEMMA GroupsExecute ==
  ASSUME P!IInv, NEW t \in Commands, P!Execute(t)
  PROVE  P!IInv'
<1> USE DEF P!Execute, P!Goto
<1>1. PICK w \in todo[t] :
        /\ enabled' = {g \in Groups : IF g = w.group /\ w.flag # "unnamed"
                                      THEN w.flag = "on" ELSE g \in enabled}
        /\ members' = [members EXCEPT ![w.group] = IF w.mem = {} THEN @
                                                   ELSE UNION w.mem]
        /\ todo' = [todo EXCEPT ![t] = @ \ {w}]
  OBVIOUS
<1>2. w \in P!Writes /\ w.group \in Groups /\ w.mem \in SUBSET SUBSET Macs
  BY <1>1 DEF P!IInv, P!TypeOK, P!Writes
<1>3. P!TypeOK'
  <2>1. enabled' \subseteq Groups /\ members' \in [Groups -> SUBSET Macs]
    BY <1>1, <1>2 DEF P!IInv, P!TypeOK
  <2>2. /\ groupsPc' \in [P!Tasks -> {"idle", "write", "get_config", "get_status"}]
        /\ groupsPc'["poll"] # "write"
    BY ConfigurationAssumption DEF P!IInv, P!TypeOK, P!Tasks
  <2>3. todo' \in [Commands -> SUBSET P!Writes]
    BY <1>1 DEF P!IInv, P!TypeOK
  <2>4. \A u \in Commands : groupsPc'[u] # "write" => todo'[u] = {}
    BY <1>1 DEF P!IInv, P!TypeOK, P!Tasks
  <2> QED
    BY <2>1, <2>2, <2>3, <2>4 DEF P!IInv, P!TypeOK
<1>4. ASSUME serial PROVE P!InARow'
  <2>1. P!InARow /\ P!TypeOK
    BY <1>4 DEF P!IInv
  <2>2. /\ \A u \in P!Tasks \ {t} : groupsPc[u] = "idle" /\ groupsPc'[u] = "idle"
        /\ t \in P!Tasks /\ groupsPc'[t] \in {"get_config", "write"}
    BY <2>1 DEF P!InARow, P!TypeOK, P!OneAtATime, P!Tasks
  <2>3. P!OneAtATime' /\ ~P!Idle'
    BY <2>2 DEF P!OneAtATime, P!Idle
  <2>4. \A u \in Commands : todo'[u] = IF u = t THEN todo[t] \ {w} ELSE todo[u]
    BY <1>1, <2>1 DEF P!TypeOK
  <2>5. \A g \in Groups : P!Placed(g)' = P!Placed(g)
    BY DEF P!Placed
  <2>6. \A u \in Commands : \A x \in todo'[u] : x.mem = {P!Placed(x.group)'}
    BY <2>1, <2>4 DEF P!InARow, P!Placed
  <2>7. members' = [members EXCEPT ![w.group] = P!Placed(w.group)]
    <3>1. w.mem = {P!Placed(w.group)}
      BY <1>1, <2>1 DEF P!InARow
    <3>2. w.mem # {} /\ UNION w.mem = P!Placed(w.group)
      BY <3>1
    <3> QED
      BY <1>1, <3>2
  <2>8. ASSUME NEW g \in Groups PROVE P!OnItsWay(g)' \/ members'[g] = P!Placed(g)'
    <3>1. CASE g = w.group
      BY <2>1, <2>5, <2>7, <3>1 DEF P!TypeOK
    <3>2. CASE g # w.group
      <4>1. members'[g] = members[g]
        BY <2>1, <2>7, <3>2 DEF P!TypeOK
      <4>2. P!OnItsWay(g) => P!OnItsWay(g)'
        BY <2>4, <3>2 DEF P!OnItsWay
      <4> QED
        BY <2>1, <2>5, <4>1, <4>2 DEF P!InARow
    <3> QED
      BY <3>1, <3>2
  <2>9. \A u \in P!Tasks : groupsPc'[u] # "get_status"
    BY <2>2
  <2> QED
    BY <2>3, <2>6, <2>8, <2>9 DEF P!InARow
<1> QED
  BY <1>3, <1>4 DEF P!IInv

\* What is lost is lost only when commands are not said to follow each other.
LEMMA GroupsLose ==
  ASSUME P!IInv, NEW t \in Commands, P!Lose(t)
  PROVE  P!IInv'
<1> USE DEF P!Lose, P!Goto
<1>1. PICK rest \in SUBSET todo[t] :
        /\ todo' = [todo EXCEPT ![t] = rest]
        /\ \/ groupsPc' = [groupsPc EXCEPT ![t] =
                             IF rest = {} THEN "get_config" ELSE "write"]
           \/ rest = {} /\ groupsPc' = [groupsPc EXCEPT ![t] = "idle"]
  BY DEF P!IInv, P!TypeOK
<1>2. /\ groupsPc' \in [P!Tasks -> {"idle", "write", "get_config", "get_status"}]
      /\ groupsPc'["poll"] # "write"
  BY <1>1, ConfigurationAssumption DEF P!IInv, P!TypeOK, P!Tasks
<1>3. todo' \in [Commands -> SUBSET P!Writes]
  BY <1>1 DEF P!IInv, P!TypeOK
<1>4. \A u \in Commands : groupsPc'[u] # "write" => todo'[u] = {}
  BY <1>1 DEF P!IInv, P!TypeOK, P!Tasks
<1> QED
  BY <1>2, <1>3, <1>4 DEF P!IInv, P!TypeOK

LEMMA GroupsConfigAnswered ==
  ASSUME P!IInv, NEW t \in P!Tasks, P!ConfigAnswered(t)
  PROVE  P!IInv'
<1> USE DEF P!ConfigAnswered, P!Goto
<1>1. P!Config(enabled, members, FALSE) \in P!Known
  BY Elements DEF P!IInv, P!TypeOK
<1>2. P!TypeOK'
  BY <1>1 DEF P!IInv, P!TypeOK, P!Tasks
<1>3. ASSUME serial PROVE P!InARow'
  <2>1. P!InARow /\ P!TypeOK
    BY <1>3 DEF P!IInv
  <2>2. /\ \A u \in P!Tasks \ {t} : groupsPc'[u] = "idle"
        /\ groupsPc'[t] = "get_status"
    BY <2>1 DEF P!InARow, P!TypeOK, P!OneAtATime
  <2>3. P!OneAtATime' /\ ~P!Idle'
    BY <2>2 DEF P!OneAtATime, P!Idle
  <2>4. groupsReply'[t].known /\ groupsReply'[t].members = members
    BY <2>1 DEF P!TypeOK, P!Config
  <2>5. /\ \A u \in Commands : \A w \in todo'[u] : w.mem = {P!Placed(w.group)'}
        /\ \A g \in Groups : P!OnItsWay(g)' \/ members'[g] = P!Placed(g)'
    BY <2>1 DEF P!InARow, P!OnItsWay, P!Placed
  <2>6. \A u \in P!Tasks : groupsPc'[u] = "get_status" =>
          groupsReply'[u].known /\ groupsReply'[u].members = members'
    BY <2>2, <2>4
  <2> QED
    BY <2>3, <2>5, <2>6 DEF P!InARow
<1> QED
  BY <1>2, <1>3 DEF P!IInv

LEMMA GroupsFailed ==
  ASSUME P!IInv, NEW t \in P!Tasks, P!ConfigFailed(t) \/ P!Raised(t)
  PROVE  P!IInv'
<1> USE DEF P!ConfigFailed, P!Raised, P!Goto
<1>1. /\ groupsPc' \in [P!Tasks -> {"idle", "write", "get_config", "get_status"}]
      /\ groupsPc'["poll"] # "write"
      /\ \A u \in Commands : groupsPc'[u] # "write" => todo[u] = {}
  BY ConfigurationAssumption DEF P!IInv, P!TypeOK, P!Tasks
<1>2. groupsReply' \in [P!Tasks -> P!Known]
  BY Elements DEF P!IInv, P!TypeOK
<1> QED
  BY <1>1, <1>2 DEF P!IInv, P!TypeOK

LEMMA GroupsStore ==
  ASSUME P!IInv, NEW t \in P!Tasks, P!Store(t)
  PROVE  P!IInv'
<1> USE DEF P!Store, P!Goto
<1>1. /\ groupsCopy' \in P!Known
      /\ groupsCopy'.known = groupsReply[t].known
      /\ groupsCopy'.members = groupsReply[t].members
  <2>1. PICK listed \in BOOLEAN : groupsCopy' = P!Merged(groupsReply[t], listed)
    BY DEF P!IInv, P!TypeOK
  <2>2. groupsReply[t] \in P!Known
    BY DEF P!IInv, P!TypeOK
  <2> QED
    BY <2>1, <2>2, MergedIsKnown
<1>2. P!TypeOK'
  BY <1>1, Elements DEF P!IInv, P!TypeOK, P!Tasks
<1>3. ASSUME serial PROVE P!InARow'
  <2>1. P!InARow /\ P!TypeOK
    BY <1>3 DEF P!IInv
  <2>2. \A u \in P!Tasks : groupsPc'[u] = "idle"
    BY <2>1 DEF P!InARow, P!TypeOK, P!OneAtATime
  <2>3. groupsCopy'.known /\ groupsCopy'.members = members'
    BY <1>1, <2>1 DEF P!InARow
  <2> QED
    BY <2>1, <2>2, <2>3 DEF P!InARow, P!OneAtATime, P!OnItsWay, P!Placed
<1> QED
  BY <1>2, <1>3 DEF P!IInv

LEMMA GroupsStep == P!IInv /\ P!Next => P!IInv'
<1> SUFFICES ASSUME P!IInv, P!Next PROVE P!IInv'
  OBVIOUS
<1>1. CASE P!Elsewhere
  BY <1>1, GroupsElsewhere
<1>2. CASE P!BeginPoll
  BY <1>2, GroupsBeginPoll
<1>3. ASSUME NEW t \in Commands, P!Command(t) PROVE P!IInv'
  BY <1>3, GroupsSetEnabled, GroupsAssign, GroupsExecute, GroupsLose DEF P!Command
<1>4. ASSUME NEW t \in P!Tasks, P!Fetch(t) PROVE P!IInv'
  BY <1>4, GroupsConfigAnswered, GroupsFailed, GroupsStore DEF P!Fetch
<1> QED
  BY <1>1, <1>2, <1>3, <1>4 DEF P!Next

\* The groups stay as they are.
LEMMA GroupsStutter ==
  P!IInv /\ UNCHANGED <<groupsVars, serial>> => P!IInv'
<1> SUFFICES ASSUME P!IInv, UNCHANGED <<groupsVars, serial>> PROVE P!IInv'
  OBVIOUS
<1> USE DEF groupsVars
<1>1. P!TypeOK'
  BY DEF P!IInv, P!TypeOK
<1>2. serial => P!InARow'
  BY DEF P!IInv, P!InARow, P!OneAtATime, P!OnItsWay, P!Placed, P!Idle
<1> QED
  BY <1>1, <1>2 DEF P!IInv

-----------------------------------------------------------------------------
(* The theorems.                                                           *)

\* A write is always built from what the command saw, and with commands in a row
\* from what the router holds (module Settings).
THEOREM SettingsInvariant == Spec => []S!IInv
<1>1. Init => S!IInv
  BY SettingsInit DEF Init
<1>2. S!IInv /\ [Next]_vars => S!IInv'
  <2> SUFFICES ASSUME S!IInv, [Next]_vars PROVE S!IInv'
    OBVIOUS
  <2>1. CASE OfSettings(S!Next)
    BY <2>1, SettingsStep DEF OfSettings
  <2>2. CASE OfGroups(P!Next)
    BY <2>2, SettingsStutter, GroupsKeepSerial DEF OfGroups
  <2>3. CASE UNCHANGED vars
    BY <2>3, SettingsStutter DEF vars
  <2> QED
    BY <2>1, <2>2, <2>3 DEF Next
<1> QED
  BY <1>1, <1>2, PTL DEF Spec

\* Commands that follow each other without a failure do not undo each other, for
\* any settings and values (set_adguard_enabled, _set_wan_access,
\* set_mcu_oled_config, start_zerotier).
THEOREM LastAskAlwaysWins == Spec => []LastAskWins
<1>1. S!IInv => LastAskWins
  BY DEF LastAskWins, S!LastAskWins, S!IInv, S!InARow, S!Idle, S!Writing,
         S!Tasks, S!Fulfilled, S!Named, S!TypeOK, S!Known
<1> QED
  BY <1>1, SettingsInvariant, PTL

\* A write built from what the router holds changes the field that was asked for
\* and none of the others the command answers for, however it is put together.
THEOREM OnlyWhatWasAskedChanges == Spec => OnlyTheAskedFieldChanges
<1>1. ASSUME S!IInv, [Next]_vars, NEW t \in Commands,
             NEW f \in Fields \ S!LeftToTheRouter,
             settingsPc[t] = "write", router' # router, ~order'[t].pending,
             order[t].seen = router \/ kind = "repeater"
      PROVE  router'[f] = [router EXCEPT ![order[t].field] = order[t].value][f]
  <2>1. S!BuiltOf(order[t]) /\ order[t].pending
    BY <1>1 DEF S!IInv, S!Built, S!Writing, S!BuiltOf, S!Orders
  <2>2. S!Next
    BY <1>1 DEF Next, OfSettings, OfGroups, vars, settingsVars
  <2>3. order' # order
    BY <1>1, <2>1
  <2>4. PICK u \in Commands : S!Execute(u)
    BY <1>1, <2>2, <2>3
    DEF S!Next, S!Elsewhere, S!BeginPoll, S!Command, S!Change, S!ChangeOled,
        S!ChangeZeroTier, S!Ask, S!Read, S!Lose, S!Fetch, S!Answered,
        S!FailedKept, S!FailedEmptied, S!Failed, S!Apply
  <2>5. order'[t] = IF u = t THEN S!NoOrder ELSE order[t]
    BY <1>1, <2>4 DEF S!Execute, S!IInv, S!TypeOK
  <2> QED
    BY <1>1, <2>1, <2>4, <2>5, FreshWrite
<1>2. S!IInv /\ [Next]_vars =>
        [\A t \in Commands, f \in Fields \ S!LeftToTheRouter :
           settingsPc[t] = "write" /\ router' # router /\ ~order'[t].pending
           /\ (order[t].seen = router \/ kind = "repeater")
             => router'[f] =
                  [router EXCEPT ![order[t].field] = order[t].value][f]]_S!vars
  BY <1>1
<1> QED
  BY <1>2, SettingsInvariant, PTL DEF Spec, OnlyTheAskedFieldChanges,
                                      S!OnlyTheAskedFieldChanges

\* A step of a setting is one of the mirror: only fetches touch the copy.
LEMMA MirrorStep ==
  S!IInv /\ S!Next => Promise!Next \/ UNCHANGED Promise!vars
<1> SUFFICES ASSUME S!IInv, S!Next
             PROVE  Promise!Next \/ UNCHANGED Promise!vars
  OBVIOUS
<1>1. router' \in S!Docs
  BY SettingsStep DEF S!IInv, S!TypeOK
<1>2. CASE UNCHANGED settingsCopy /\ UNCHANGED settingsReply
  <2>1. Promise!Change
    BY <1>1, <1>2 DEF Promise!Change
  <2> QED
    BY <2>1 DEF Promise!Next
<1>3. ASSUME NEW t \in Commands, S!Read(t)
      PROVE  Promise!Next
  <2>1. Promise!Refresh \/ Promise!Forget
    BY <1>3 DEF S!Read, Promise!Refresh, Promise!Forget
  <2> QED
    BY <2>1 DEF Promise!Next
<1>4. ASSUME NEW t \in S!Tasks, S!Fetch(t)
      PROVE  Promise!Next
  <2>1. ASSUME S!Answered(t) PROVE Promise!Read(t)
    BY <2>1 DEF S!Answered, Promise!Read
  <2>2. ASSUME S!Apply(t) PROVE Promise!Show(t)
    BY <2>2 DEF S!Apply, S!NoReply, Promise!Show
  <2>3. ASSUME S!FailedKept(t) \/ S!FailedEmptied(t) PROVE Promise!Lose(t)
    BY <2>3 DEF S!FailedKept, S!FailedEmptied, S!Failed, S!NoReply, Promise!Lose
  <2>4. Promise!Read(t) \/ Promise!Show(t) \/ Promise!Lose(t)
    BY <1>4, <2>1, <2>2, <2>3 DEF S!Fetch
  <2> QED
    BY <2>4 DEF Promise!Next
<1>5. ASSUME S!Elsewhere \/ S!BeginPoll
      PROVE  UNCHANGED settingsCopy /\ UNCHANGED settingsReply
  BY <1>5 DEF S!Elsewhere, S!BeginPoll
<1>6. ASSUME NEW t \in Commands, S!Command(t), ~S!Read(t)
      PROVE  UNCHANGED settingsCopy /\ UNCHANGED settingsReply
  BY <1>6 DEF S!Command, S!Change, S!ChangeOled, S!ChangeZeroTier, S!Ask,
              S!Execute, S!Lose
<1> QED
  BY <1>2, <1>3, <1>4, <1>5, <1>6 DEF S!Next

\* For any settings: what the hub holds was the router's, all fields of the same
\* moment, or is unknown; what a command has asked for is held only once the
\* router has been read again (fetch_adguard_status, _set_wan_access, ...).
THEOREM SettingsWereTheRouters == Spec => SettingsAreMirrored
<1>1. Init => Promise!Init
  BY DEF Init, S!Init, S!NoReply, Promise!Init
<1>2. S!IInv /\ [Next]_vars => [Promise!Next]_(Promise!vars)
  <2> SUFFICES ASSUME S!IInv, [Next]_vars
               PROVE  Promise!Next \/ UNCHANGED Promise!vars
    OBVIOUS
  <2>1. CASE OfSettings(S!Next)
    BY <2>1, MirrorStep DEF OfSettings
  <2>2. CASE OfGroups(P!Next) \/ UNCHANGED vars
    BY <2>2 DEF OfGroups, vars, settingsVars, Promise!vars
  <2> QED
    BY <2>1, <2>2 DEF Next
<1> QED
  BY <1>1, <1>2, SettingsInvariant, PTL DEF Spec, SettingsAreMirrored, Promise!Spec

\* When commands follow each other without a failure, the groups that are not as
\* wanted have a write under way that makes them so, and every command is computed
\* from what the router holds (module Parental).
THEOREM GroupsInvariant == Spec => []P!IInv
<1>1. Init => P!IInv
  BY GroupsInit DEF Init
<1>2. P!IInv /\ [Next]_vars => P!IInv'
  <2> SUFFICES ASSUME P!IInv, [Next]_vars PROVE P!IInv'
    OBVIOUS
  <2>1. CASE OfSettings(S!Next)
    BY <2>1, GroupsStutter, SettingsKeepSerial DEF OfSettings
  <2>2. CASE OfGroups(P!Next)
    BY <2>2, GroupsStep DEF OfGroups
  <2>3. CASE UNCHANGED vars
    BY <2>3, GroupsStutter DEF vars
  <2> QED
    BY <2>1, <2>2, <2>3 DEF Next
<1> QED
  BY <1>1, <1>2, PTL DEF Spec

\* After any number of moves without a failure every device is in the group it was
\* last put into and in no other, whatever the number of groups and calls
\* (assign_device_to_parental_group).
THEOREM MovesArriveWhole == Spec => []DevicesAreWhereTheyWerePut
<1>1. P!IInv => DevicesAreWhereTheyWerePut
  <2> SUFFICES ASSUME P!IInv, serial, P!Idle, NEW m \in Macs
               PROVE  P!GroupOf(m) = {g \in Groups : g = wanted[m]}
    BY DEF DevicesAreWhereTheyWerePut, P!DevicesAreWhereTheyWerePut
  <2> QED
    BY BeforeACommand DEF P!GroupOf, P!Placed
<1> QED
  BY <1>1, GroupsInvariant, PTL
=============================================================================
