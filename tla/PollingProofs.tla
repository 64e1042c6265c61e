--------------------------- MODULE PollingProofs ---------------------------
(***************************************************************************)
(* For any fetches, any plan and either mode: a cycle that reports success *)
(* has run every fetch of its plan, and the firmware check is throttled.   *)
(* The strengthening IInv (module Polling) says where each fetch is and    *)
(* relates the time the hub remembers to the time that has passed.         *)
(***************************************************************************)
EXTENDS Polling, TLAPS

\* The elements of sequences that are put together.
LEMMA ElementsOfConcat ==
  ASSUME NEW S, NEW s \in Seq(S), NEW t \in Seq(S)
  PROVE  Elements(s \o t) \subseteq Elements(s) \cup Elements(t)
<1> SUFFICES ASSUME NEW i \in DOMAIN (s \o t)
             PROVE  (s \o t)[i] \in Elements(s) \cup Elements(t)
  BY DEF Elements
<1>1. i \in 1..(Len(s) + Len(t))
  OBVIOUS
<1>2. CASE i <= Len(s)
  <2>1. (s \o t)[i] = s[i] /\ i \in DOMAIN s
    BY <1>1, <1>2
  <2>2. QED
    BY <2>1 DEF Elements
<1>3. CASE i > Len(s)
  <2>1. (s \o t)[i] = t[i - Len(s)] /\ i - Len(s) \in DOMAIN t
    BY <1>1, <1>3
  <2>2. QED
    BY <2>1 DEF Elements
<1>4. QED
  BY <1>1, <1>2, <1>3

\* Taking the first element leaves the others.
LEMMA ElementsOfTail ==
  ASSUME NEW S, NEW s \in Seq(S), s # <<>>
  PROVE  Elements(s) = {Head(s)} \cup Elements(Tail(s))
<1>1. /\ Len(s) \in Nat \ {0} /\ DOMAIN s = 1..Len(s) /\ Head(s) = s[1]
      /\ DOMAIN Tail(s) = 1..(Len(s) - 1)
      /\ \A i \in DOMAIN Tail(s) : Tail(s)[i] = s[i + 1]
  OBVIOUS
<1>2. ASSUME NEW i \in DOMAIN s
      PROVE  s[i] \in {Head(s)} \cup Elements(Tail(s))
  <2>1. CASE i = 1
    BY <1>1, <2>1
  <2>2. CASE i # 1
    <3>1. i - 1 \in DOMAIN Tail(s) /\ Tail(s)[i - 1] = s[i]
      BY <1>1, <2>2
    <3>2. QED
      BY <3>1 DEF Elements
  <2>3. QED
    BY <2>1, <2>2
<1>3. Elements(Tail(s)) \subseteq Elements(s)
  <2> SUFFICES ASSUME NEW i \in DOMAIN Tail(s)
               PROVE  Tail(s)[i] \in Elements(s)
    BY DEF Elements
  <2>1. i + 1 \in DOMAIN s /\ Tail(s)[i] = s[i + 1]
    BY <1>1
  <2>2. QED
    BY <2>1 DEF Elements
<1>4. Head(s) \in Elements(s)
  BY <1>1 DEF Elements
<1>5. QED
  BY <1>2, <1>3, <1>4 DEF Elements

\* A plan consists of fetches, with the firmware check only when it is due.
LEMMA PlannedFacts ==
  ASSUME NEW due \in BOOLEAN
  PROVE  /\ Planned(due) \in Seq(Fetches)
         /\ Upgrade \in Elements(Planned(due)) => due
<1> DEFINE tasks == IF wifi_supported THEN Base \o WifiPlan ELSE Base
<1>1. /\ Base \in Seq(Fetches) /\ WifiPlan \in Seq(Fetches)
      /\ Features \in Seq(Fetches)
      /\ Upgrade \in Fetches /\ Upgrade \notin Elements(Base)
      /\ Upgrade \notin Elements(WifiPlan) /\ Upgrade \notin Elements(Features)
      /\ Len(Base) >= 2
  BY PollingAssumption DEF Fetches, Elements
<1>2. tasks \in Seq(Fetches) /\ Upgrade \notin Elements(tasks) /\ Len(tasks) >= 2
  <2>1. Base \o WifiPlan \in Seq(Fetches) /\ Len(Base \o WifiPlan) >= 2
    BY <1>1
  <2>2. Upgrade \notin Elements(Base \o WifiPlan)
    BY <1>1, ElementsOfConcat
  <2>3. QED
    BY <1>1, <2>1, <2>2
<1> HIDE DEF tasks
<1>3. CASE ~due
  <2>1. Planned(due) = tasks \o Features
    BY <1>3 DEF Planned, tasks
  <2>2. Upgrade \notin Elements(tasks \o Features)
    BY <1>1, <1>2, ElementsOfConcat
  <2>3. QED
    BY <1>1, <1>2, <2>1, <2>2
<1>4. CASE due
  <2>1. Planned(due) = (SubSeq(tasks, 1, 2) \o <<Upgrade>>
                          \o SubSeq(tasks, 3, Len(tasks))) \o Features
    BY <1>4 DEF Planned, tasks
  <2>2. SubSeq(tasks, 1, 2) \in Seq(Fetches)
    BY <1>2
  <2>3. SubSeq(tasks, 3, Len(tasks)) \in Seq(Fetches)
    BY <1>2
  <2>4. <<Upgrade>> \in Seq(Fetches)
    BY <1>1
  <2>5. \A a, b \in Seq(Fetches) : a \o b \in Seq(Fetches)
    OBVIOUS
  <2>6. SubSeq(tasks, 1, 2) \o <<Upgrade>> \in Seq(Fetches)
    BY <2>2, <2>4, <2>5
  <2>7. SubSeq(tasks, 1, 2) \o <<Upgrade>> \o SubSeq(tasks, 3, Len(tasks))
          \in Seq(Fetches)
    BY <2>3, <2>5, <2>6
  <2>8. QED
    BY <1>1, <1>4, <2>1, <2>5, <2>7
<1>5. QED
  BY <1>3, <1>4

\* The two fetches outside the plan are fetches, and not the same.
LEMMA SmsFacts == Sms \in Fetches /\ Upgrade \in Fetches /\ Upgrade # Sms
  BY PollingAssumption DEF Fetches

\* Nothing has been polled yet.
LEMMA InitInv == Init => IInv
<1> SUFFICES ASSUME Init PROVE IInv
  OBVIOUS
<1>1. TypeOK
  <2>1. <<>> \in Seq(Fetches)
    OBVIOUS
  <2>2. Day \in 0..Day
    BY PollingAssumption
  <2>3. QED
    BY <2>1, <2>2 DEF Init, TypeOK, Results
<1>2. QED
  BY <1>1, PollingAssumption
     DEF Init, IInv, SuccessMeansAllTried, Covered, Throttled

\* A new cycle.
LEMMA StartCycleInv == IInv /\ StartCycle => IInv'
<1> SUFFICES ASSUME IInv, StartCycle PROVE IInv'
  OBVIOUS
<1>1. TypeOK /\ Day \in Nat \ {0}
  BY PollingAssumption DEF IInv
<1>2. (age >= Day) \in BOOLEAN /\ check' = (age >= Day)
  BY DEF StartCycle
<1>3. plan' \in Seq(Fetches) /\ (Upgrade \in Elements(plan') => age >= Day)
  BY <1>2, PlannedFacts DEF StartCycle
<1>4. /\ active' \subseteq Fetches /\ queue' \in Seq(Fetches)
      /\ Elements(plan') = Elements(queue') \cup active'
  <2>1. <<>> \in Seq(Fetches) /\ Elements(<<>>) = {}
    BY DEF Elements
  <2>2. Elements(plan') \subseteq Fetches
    BY <1>3 DEF Elements
  <2>3. \/ active' = Elements(plan') /\ queue' = <<>>
        \/ active' = {} /\ queue' = plan'
    BY DEF StartCycle
  <2>4. QED
    BY <1>3, <2>1, <2>2, <2>3
<1>5. TypeOK'
  BY <1>1, <1>2, <1>3, <1>4 DEF history, StartCycle, FreshFetches, TypeOK
<1>6. SuccessMeansAllTried' /\ Covered'
  BY <1>4 DEF history, StartCycle, FreshFetches, SuccessMeansAllTried, Covered
<1>7. Throttled'
  BY <1>2, <1>3 DEF history, StartCycle, FreshFetches, IInv, Throttled, CutShort
<1>8. QED
  BY <1>5, <1>6, <1>7 DEF IInv

\* Sequential mode: the next fetch leaves the queue.
LEMMA AwaitNextInv == IInv /\ AwaitNext => IInv'
<1> SUFFICES ASSUME IInv, AwaitNext PROVE IInv'
  OBVIOUS
<1>1. queue \in Seq(Fetches) /\ queue # <<>>
  BY DEF IInv, TypeOK, AwaitNext
<1>2. Head(queue) \in Fetches /\ Tail(queue) \in Seq(Fetches)
  BY <1>1
<1>3. Elements(queue) = {Head(queue)} \cup Elements(Tail(queue))
  BY <1>1, ElementsOfTail
<1>4. TypeOK'
  BY <1>2 DEF AwaitNext, history, coordinator, setting, IInv, TypeOK
<1>5. SuccessMeansAllTried' /\ Covered'
  BY <1>3 DEF AwaitNext, setting, IInv, SuccessMeansAllTried, Covered
<1>6. Throttled'
  BY DEF AwaitNext, history, coordinator, setting, IInv, Throttled, CutShort
<1>7. QED
  BY <1>4, <1>5, <1>6 DEF IInv

\* A call begins.
LEMMA BeginCallInv ==
  ASSUME IInv, NEW f \in Fetches, BeginCall(f)
  PROVE  IInv'
<1>1. /\ made' = [made EXCEPT ![f] = @ + 1] /\ made \in [Fetches -> Nat]
      /\ UNCHANGED <<setting, phase, queue, active, tried, check, age,
                     coordinator, history>>
  BY DEF BeginCall, IInv, TypeOK
<1>2. TypeOK'
  BY <1>1 DEF history, coordinator, setting, IInv, TypeOK
<1>3. made'[Upgrade] = 0 => made[Upgrade] = 0
  BY <1>1, SmsFacts
<1>4. SuccessMeansAllTried' /\ Covered' /\ Throttled'
  BY <1>1, <1>3
     DEF history, coordinator, setting, IInv, SuccessMeansAllTried, Covered, Throttled,
         CutShort
<1>5. QED
  BY <1>2, <1>4 DEF IInv

\* A fetch has run: it is counted among those tried, and nothing else of the
\* cycle moves.
LEMMA TriedInv ==
  ASSUME IInv, NEW f \in Fetches, f \in active, made[f] > 0, Tried(f),
         active' = active \ {f}, wifi_supported' \in BOOLEAN,
         UNCHANGED <<parallel, plan, phase, queue, made, check, age,
                     coordinator, lost>>
  PROVE  IInv'
<1>1. tried' = tried \cup {f} /\ ran' = IF f = Upgrade THEN 0 ELSE ran
  BY DEF Tried
<1>2. TypeOK'
  BY <1>1, PollingAssumption DEF history, coordinator, IInv, TypeOK
<1>3. phase # "idle"
  BY DEF IInv, Covered
<1>4. SuccessMeansAllTried' /\ Covered'
  BY <1>1, <1>3 DEF history, coordinator, IInv, SuccessMeansAllTried, Covered
<1>5. Throttled'
  <2>1. CASE f = Upgrade
    <3>1. phase = "fetching"
      BY <1>3, <2>1 DEF IInv, TypeOK, Throttled
    <3>2. QED
      BY <1>1, <2>1, <3>1 DEF history, coordinator, IInv, Throttled, CutShort
  <2>2. CASE f # Upgrade
    BY <1>1, <1>3, <2>2 DEF history, coordinator, IInv, Throttled, CutShort
  <2>3. QED
    BY <2>1, <2>2
<1>6. QED
  BY <1>2, <1>4, <1>5 DEF IInv

\* A cycle that an exception ends: it is no success, and in sequential mode it
\* may have been cut short behind the check.
LEMMA AbortInv ==
  ASSUME IInv, NEW f \in Fetches, FetchRaised(f),
         ~(parallel /\ phase = "fetching")
  PROVE  IInv'
<1>1. /\ f \in active /\ made[f] > 0 /\ Tried(f) /\ EndCycle(ResultOf(f))
      /\ UNCHANGED <<calls, setting, made, check, age>>
  BY DEF FetchRaised
<1>2. /\ ResultOf(f) \in {"auth_failed", "update_failed"}
      /\ phase' = "idle" /\ queue' = <<>> /\ active' = {}
      /\ last' \in {"auth_failed", "update_failed"}
      /\ armed' \in BOOLEAN /\ reauth' \in BOOLEAN
      /\ tried' = tried \cup {f} /\ ran' = IF f = Upgrade THEN 0 ELSE ran
  BY <1>1 DEF EndCycle, ResultOf, Tried, IInv, TypeOK
<1>3. <<>> \in Seq(Fetches) /\ 0 \in 0..Day
  BY PollingAssumption
<1>4. TypeOK'
  <2>1. lost' \in BOOLEAN
    BY DEF FetchRaised
  <2>2. QED
    BY <1>1, <1>2, <1>3, <2>1 DEF setting, IInv, TypeOK, Results
<1>5. SuccessMeansAllTried' /\ Covered'
  BY <1>2 DEF SuccessMeansAllTried, Covered
<1>6. phase \in {"fetching", "sms"}
  BY <1>1 DEF IInv, TypeOK, Covered
<1>7. ran' >= age' \/ CutShort'
  <2>1. /\ age \in Nat /\ ran \in Nat /\ Day \in Nat /\ age' = age
        /\ parallel' = parallel
    BY <1>1, PollingAssumption DEF IInv, TypeOK, setting
  <2>2. CASE phase = "sms"
    <3>1. f # Upgrade /\ ran >= age
      BY <1>1, <2>2 DEF IInv, Throttled
    <3>2. QED
      BY <1>2, <2>1, <3>1
  <2>3. CASE phase = "fetching"
    <3>1. ~parallel' /\ lost' = (lost \/ Upgrade \in tried')
      BY <2>1, <2>3 DEF FetchRaised
    <3>2. f \in Elements(plan) /\ tried \subseteq Elements(plan)
      BY <1>1, <2>3 DEF IInv, Covered
    <3>3. CASE f = Upgrade \/ Upgrade \in tried
      <4>1. age >= Day
        BY <2>3, <3>2, <3>3 DEF IInv, Throttled
      <4>2. QED
        BY <1>2, <2>1, <3>1, <3>3, <4>1 DEF CutShort
    <3>4. CASE f # Upgrade /\ Upgrade \notin tried
      <4>1. ran' = ran /\ (ran >= age \/ CutShort)
        BY <1>2, <3>4 DEF IInv, Throttled
      <4>2. lost => lost'
        BY <3>1
      <4>3. QED
        BY <2>1, <3>1, <4>1, <4>2 DEF CutShort
    <3>5. QED
      BY <3>3, <3>4
  <2>4. QED
    BY <1>6, <2>2, <2>3
<1>8. Throttled'
  BY <1>2, <1>7 DEF Throttled
<1>9. QED
  BY <1>4, <1>5, <1>8 DEF IInv

\* Every step of a fetch keeps the invariant.
LEMMA FetchStepInv ==
  ASSUME IInv, NEW f \in Fetches, FetchStep(f)
  PROVE  IInv'
<1>1. CASE BeginCall(f)
  BY <1>1, BeginCallInv
<1>2. CASE CallSteps(f)
  BY <1>2
     DEF CallSteps, history, coordinator, setting, IInv, TypeOK, SuccessMeansAllTried,
         Covered, Throttled, CutShort
<1>3. CASE FinishFetch(f)
  <2>1. wifi_supported' \in BOOLEAN
    BY <1>3 DEF FinishFetch, IInv, TypeOK
  <2>2. QED
    BY <1>3, <2>1, TriedInv DEF FinishFetch
<1>4. CASE FetchRaised(f) /\ parallel /\ phase = "fetching"
  <2>1. wifi_supported' \in BOOLEAN
    BY <1>4 DEF FetchRaised, setting, IInv, TypeOK
  <2>2. QED
    BY <1>4, <2>1, TriedInv DEF FetchRaised, setting
<1>5. CASE FetchRaised(f) /\ ~(parallel /\ phase = "fetching")
  BY <1>5, AbortInv
<1>6. QED
  BY <1>1, <1>2, <1>3, <1>4, <1>5 DEF FetchStep

\* The fetches are over, and the time of the check is stored.
LEMMA FetchesDoneInv == IInv /\ FetchesDone => IInv'
<1> SUFFICES ASSUME IInv, FetchesDone PROVE IInv'
  OBVIOUS
<1>1. age \in Nat /\ ran \in 0..Day /\ Day \in Nat
  BY PollingAssumption DEF IInv, TypeOK
<1>2. Elements(plan) = tried
  BY DEF FetchesDone, IInv, Covered, Elements
<1>3. TypeOK'
  BY <1>1, SmsFacts DEF FetchesDone, history, coordinator, setting, IInv, TypeOK
<1>4. SuccessMeansAllTried' /\ Covered'
  BY <1>2 DEF FetchesDone, setting, SuccessMeansAllTried, Covered
<1>5. ran >= age'
  <2>1. CASE check
    BY <1>1, <2>1 DEF FetchesDone
  <2>2. CASE ~check
    BY <1>1, <1>2, <2>2 DEF FetchesDone, IInv, Throttled, CutShort
  <2>3. QED
    BY <2>1, <2>2
<1>6. Throttled'
  BY <1>5, SmsFacts DEF FetchesDone, history, coordinator, setting, IInv, Throttled
<1>7. QED
  BY <1>3, <1>4, <1>6 DEF IInv

\* The strengthening is inductive.
LEMMA StepInv == IInv /\ [Next]_vars => IInv'
<1> SUFFICES ASSUME IInv, [Next]_vars PROVE IInv'
  OBVIOUS
<1>1. CASE Tick
  <2>1. age \in 0..Day /\ ran \in 0..Day /\ Day \in Nat
    BY PollingAssumption DEF IInv, TypeOK
  <2>2. age' \in 0..Day /\ ran' \in 0..Day
    BY <1>1, <2>1 DEF Tick
  <2>3. TypeOK'
    BY <1>1, <2>2 DEF Tick, history, coordinator, setting, IInv, TypeOK
  <2>4. SuccessMeansAllTried' /\ Covered'
    BY <1>1 DEF Tick, history, coordinator, setting, IInv, SuccessMeansAllTried, Covered
  <2>5. (ran >= age => ran' >= age') /\ (age >= Day => age' >= Day)
    BY <1>1, <2>1 DEF Tick
  <2>6. Throttled'
    BY <1>1, <2>5 DEF Tick, history, coordinator, setting, IInv, Throttled, CutShort
  <2>7. QED
    BY <2>3, <2>4, <2>6 DEF IInv
<1>2. CASE StartCycle
  BY <1>2, StartCycleInv
<1>3. CASE AwaitNext
  BY <1>3, AwaitNextInv
<1>4. CASE FetchesDone
  BY <1>4, FetchesDoneInv
<1>5. CASE CycleDone
  <2>1. <<>> \in Seq(Fetches)
    OBVIOUS
  <2>2. TypeOK'
    BY <1>5, <2>1 DEF CycleDone, EndCycle, history, setting, IInv, TypeOK, Results
  <2>3. SuccessMeansAllTried' /\ Covered' /\ Throttled'
    BY <1>5 DEF CycleDone, EndCycle, history, setting, IInv, SuccessMeansAllTried,
                Covered, Throttled
  <2>4. QED
    BY <2>2, <2>3 DEF IInv
<1>6. ASSUME NEW f \in Fetches, FetchStep(f)
      PROVE  IInv'
  BY <1>6, FetchStepInv
<1>7. CASE UNCHANGED vars
  BY <1>7 DEF vars, history, coordinator, setting, IInv, TypeOK, SuccessMeansAllTried,
              Covered, Throttled, CutShort
<1>8. QED
  BY <1>1, <1>2, <1>3, <1>4, <1>5, <1>6, <1>7 DEF Next

\* The inductive invariant holds in every reachable state of module Polling.
THEOREM InductiveInvariant == Spec => []IInv
<1>1. Init => IInv
  BY InitInv
<1>2. IInv /\ [Next]_vars => IInv'
  BY StepInv
<1>3. QED
  BY <1>1, <1>2, PTL DEF Spec

\* The variables have their types.
THEOREM TypeCorrect == Spec => []TypeOK
<1>1. IInv => TypeOK
  BY DEF IInv
<1>2. QED
  BY <1>1, InductiveInvariant, PTL

\* A cycle that reports success has run every fetch of its plan
\* (fetch_all_data, in either mode).
THEOREM SuccessIsComplete == Spec => []SuccessMeansAllTried
<1>1. IInv => SuccessMeansAllTried
  BY DEF IInv
<1>2. QED
  BY <1>1, InductiveInvariant, PTL

\* A firmware check whose time was stored, in parallel mode every one, is not made
\* again for a day.  What the code does not give is a bound on the checks of
\* sequential cycles that end behind them (_last_upgrade_check).
THEOREM ChecksAreThrottled == Spec => FirmwareCheckThrottled
<1> DEFINE Throttle ==
      \A f \in {Upgrade} :
        made[f] = 0 /\ made'[f] = 1 =>
          ran >= Day \/ (lost /\ ~parallel)
<1>1. ASSUME IInv, [Next]_vars, made[Upgrade] = 0, made'[Upgrade] = 1
      PROVE  ran >= Day \/ (lost /\ ~parallel)
  <2>1. made \in [Fetches -> Nat] /\ Upgrade \in Fetches
        /\ age \in Nat /\ ran \in Nat /\ Day \in Nat
    BY <1>1, SmsFacts, PollingAssumption DEF IInv, TypeOK
  <2>2. made' # made /\ ~StartCycle
    BY <1>1, <2>1 DEF StartCycle, FreshFetches
  <2>3. PICK f \in Fetches : BeginCall(f)
    BY <1>1, <2>2
       DEF Next, vars, Tick, AwaitNext, FetchesDone, CycleDone, FetchStep,
           CallSteps, FinishFetch, FetchRaised
  <2>4. f = Upgrade /\ Upgrade \in active
    BY <1>1, <2>1, <2>3 DEF BeginCall
  <2>5. phase = "fetching" /\ Upgrade \in Elements(plan) /\ Upgrade \notin tried
    BY <1>1, <2>4 DEF IInv, TypeOK, Covered, Throttled
  <2>6. age >= Day /\ (ran >= age \/ CutShort)
    BY <1>1, <2>5 DEF IInv, Throttled
  <2>7. QED
    BY <2>1, <2>6 DEF CutShort
<1>2. IInv /\ [Next]_vars => [Throttle]_vars
  BY <1>1
<1>3. QED
  BY <1>2, InductiveInvariant, PTL DEF Spec, FirmwareCheckThrottled
=============================================================================
