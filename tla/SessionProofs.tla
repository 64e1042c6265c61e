--------------------------- MODULE SessionProofs ---------------------------
(***************************************************************************)
(* Proofs about Session for every set of coroutines, every set of session  *)
(* ids and every fault bound.                                              *)
(***************************************************************************)
EXTENDS Session, TLAPS

\* The session id of the first login, and a new one, are ids.
LEMMA FirstSessionIsAnId == FirstSession \in SessionIds
  BY SessionAssumption DEF FirstSession

\* A new session's id is an id, as long as there is an unknown one.
LEMMA NewSessionIsAnId ==
  (\E new \in SessionIds : new \notin Known) => NewSession \in SessionIds
  BY DEF NewSession

\* Every conjunct of the inductive invariant holds initially.
LEMMA InitInv == Init => IInv
<1> SUFFICES ASSUME Init PROVE IInv
  OBVIOUS
<1> USE SessionAssumption, NoSessionAssumption, FirstSessionIsAnId DEF Init
<1>1. TypeOK
  <2>1. /\ token_error \in BOOLEAN /\ connect_error \in BOOLEAN
        /\ wifi_supported \in BOOLEAN
    BY Zenon
  <2>2. sid \in SessionIds /\ dead \in SUBSET SessionIds
    OBVIOUS
  <2>3. faults \in 0..MaxFaults
    OBVIOUS
  <2>4. /\ pc \in [Tasks -> PcStates] /\ reply \in [Tasks -> Replies]
        /\ held \in [Tasks -> SessionIds \cup {NoSession}]
        /\ outcome \in [Tasks -> Outcomes]
    BY DEF PcStates, Replies, Outcomes
  <2>5. /\ attempt \in [Tasks -> 0..Attempts]
        /\ refused \in [Tasks -> 0..Attempts]
        /\ runs \in [Tasks -> Nat]
    BY DEF Attempts
  <2>6. QED
    BY <2>1, <2>2, <2>3, <2>4, <2>5 DEF TypeOK
<1>2. \A t \in Tasks : TaskInv(t)
  BY DEF TaskInv, Attempts
<1>3. QuietInv
  BY DEF QuietInv
<1>4. QED
  BY <1>1, <1>2, <1>3 DEF IInv

\* GrantLogin preserves it.
LEMMA GrantLoginInv ==
  ASSUME IInv, NEW t \in Tasks, GrantLogin(t) PROVE IInv'
<1> USE SessionAssumption, NoSessionAssumption
        DEF GrantLogin, Answer, flags
<1>1. TypeOK'
  BY NewSessionIsAnId
  DEF IInv, TypeOK, TaskInv, QuietInv, PcStates, Replies, Outcomes, Attempts,
      Renewers
<1>2. \A u \in Tasks : TaskInv(u)'
  BY NewSessionIsAnId
  DEF IInv, TypeOK, TaskInv, QuietInv, Attempts, Renewers, Tasks
<1>3. QuietInv'
  BY NewSessionIsAnId DEF IInv, TypeOK, TaskInv, QuietInv, Attempts
<1>4. QED
  BY <1>1, <1>2, <1>3 DEF IInv

\* RefuseLogin preserves it.
LEMMA RefuseLoginInv ==
  ASSUME IInv, NEW t \in Tasks, RefuseLogin(t) PROVE IInv'
<1> USE SessionAssumption, NoSessionAssumption
        DEF RefuseLogin, Answer, Fault, flags
<1>1. TypeOK'
  BY DEF IInv, TypeOK, TaskInv, QuietInv, PcStates, Replies, Outcomes, Attempts,
         Renewers
<1>2. \A u \in Tasks : TaskInv(u)'
  BY DEF IInv, TypeOK, TaskInv, QuietInv, Attempts, Renewers, Tasks
<1>3. QuietInv'
  BY DEF IInv, TypeOK, TaskInv, QuietInv, Attempts
<1>4. QED
  BY <1>1, <1>2, <1>3 DEF IInv

\* LoseLogin preserves it.
LEMMA LoseLoginInv ==
  ASSUME IInv, NEW t \in Tasks, LoseLogin(t) PROVE IInv'
<1> USE SessionAssumption, NoSessionAssumption
        DEF LoseLogin, Answer, Fault, flags
<1>1. TypeOK'
  BY DEF IInv, TypeOK, TaskInv, QuietInv, PcStates, Replies, Outcomes, Attempts,
         Renewers
<1>2. \A u \in Tasks : TaskInv(u)'
  BY DEF IInv, TypeOK, TaskInv, QuietInv, Attempts, Renewers, Tasks
<1>3. QuietInv'
  BY DEF IInv, TypeOK, TaskInv, QuietInv, Attempts
<1>4. QED
  BY <1>1, <1>2, <1>3 DEF IInv

\* ServeRequest preserves it.
LEMMA ServeRequestInv ==
  ASSUME IInv, NEW t \in Tasks, ServeRequest(t) PROVE IInv'
<1> USE SessionAssumption, NoSessionAssumption
        DEF ServeRequest, Answer, flags
<1>1. TypeOK'
  BY DEF IInv, TypeOK, TaskInv, QuietInv, PcStates, Replies, Outcomes, Attempts,
         Renewers
<1>2. \A u \in Tasks : TaskInv(u)'
  BY DEF IInv, TypeOK, TaskInv, QuietInv, Attempts, Renewers, Tasks
<1>3. QuietInv'
  BY DEF IInv, TypeOK, TaskInv, QuietInv, Attempts
<1>4. QED
  BY <1>1, <1>2, <1>3 DEF IInv

\* DenyRequest preserves it.
LEMMA DenyRequestInv ==
  ASSUME IInv, NEW t \in Tasks, DenyRequest(t) PROVE IInv'
<1> USE SessionAssumption, NoSessionAssumption
        DEF DenyRequest, Answer, Fault, flags
<1>1. TypeOK'
  BY DEF IInv, TypeOK, TaskInv, QuietInv, PcStates, Replies, Outcomes, Attempts,
         Renewers
<1>2. \A u \in Tasks : TaskInv(u)'
  BY DEF IInv, TypeOK, TaskInv, QuietInv, Attempts, Renewers, Tasks
<1>3. QuietInv'
  BY DEF IInv, TypeOK, TaskInv, QuietInv, Attempts
<1>4. QED
  BY <1>1, <1>2, <1>3 DEF IInv

\* FailRequest preserves it.
LEMMA FailRequestInv ==
  ASSUME IInv, NEW t \in Tasks, FailRequest(t) PROVE IInv'
<1> USE SessionAssumption, NoSessionAssumption
        DEF FailRequest, Answer, Fault, flags
<1>1. TypeOK'
  BY DEF IInv, TypeOK, TaskInv, QuietInv, PcStates, Replies, Outcomes, Attempts,
         Renewers
<1>2. \A u \in Tasks : TaskInv(u)'
  BY DEF IInv, TypeOK, TaskInv, QuietInv, Attempts, Renewers, Tasks
<1>3. QuietInv'
  BY DEF IInv, TypeOK, TaskInv, QuietInv, Attempts
<1>4. QED
  BY <1>1, <1>2, <1>3 DEF IInv

\* LoseRequest preserves it.
LEMMA LoseRequestInv ==
  ASSUME IInv, NEW t \in Tasks, LoseRequest(t) PROVE IInv'
<1> USE SessionAssumption, NoSessionAssumption
        DEF LoseRequest, Answer, Fault, flags
<1>1. TypeOK'
  BY DEF IInv, TypeOK, TaskInv, QuietInv, PcStates, Replies, Outcomes, Attempts,
         Renewers
<1>2. \A u \in Tasks : TaskInv(u)'
  BY DEF IInv, TypeOK, TaskInv, QuietInv, Attempts, Renewers, Tasks
<1>3. QuietInv'
  BY DEF IInv, TypeOK, TaskInv, QuietInv, Attempts
<1>4. QED
  BY <1>1, <1>2, <1>3 DEF IInv

\* Begin preserves it.
LEMMA BeginInv ==
  ASSUME IInv, NEW t \in Tasks, Begin(t) PROVE IInv'
<1> USE SessionAssumption, NoSessionAssumption
        DEF Begin, Resume, MustRenew, Link, flags
<1>1. TypeOK'
  BY DEF IInv, TypeOK, TaskInv, QuietInv, PcStates, Replies, Outcomes, Attempts,
         Renewers
<1>2. \A u \in Tasks : TaskInv(u)'
  BY DEF IInv, TypeOK, TaskInv, QuietInv, Attempts, Renewers, Tasks
<1>3. QuietInv'
  BY DEF IInv, TypeOK, TaskInv, QuietInv, Attempts
<1>4. QED
  BY <1>1, <1>2, <1>3 DEF IInv

\* LoginGranted preserves it.
LEMMA LoginGrantedInv ==
  ASSUME IInv, NEW t \in Tasks, LoginGranted(t) PROVE IInv'
<1> USE SessionAssumption, NoSessionAssumption
        DEF LoginGranted, Resume, ForgetSessions, flags
<1>1. TypeOK'
  BY DEF IInv, TypeOK, TaskInv, QuietInv, PcStates, Replies, Outcomes, Attempts,
         Renewers
<1>2. \A u \in Tasks : TaskInv(u)'
  BY DEF IInv, TypeOK, TaskInv, QuietInv, Attempts, Renewers, Tasks
<1>3. QuietInv'
  BY DEF IInv, TypeOK, TaskInv, QuietInv, Attempts
<1>4. QED
  BY <1>1, <1>2, <1>3 DEF IInv

\* RetryLogin preserves it.
LEMMA RetryLoginInv ==
  ASSUME IInv, NEW t \in Tasks, RetryLogin(t) PROVE IInv'
<1> USE SessionAssumption, NoSessionAssumption
        DEF RetryLogin, Resume, MayRetry, flags
<1>1. TypeOK'
  BY DEF IInv, TypeOK, TaskInv, QuietInv, PcStates, Replies, Outcomes, Attempts,
         Renewers
<1>2. \A u \in Tasks : TaskInv(u)'
  BY DEF IInv, TypeOK, TaskInv, QuietInv, Attempts, Renewers, Tasks
<1>3. QuietInv'
  BY DEF IInv, TypeOK, TaskInv, QuietInv, Attempts
<1>4. QED
  BY <1>1, <1>2, <1>3 DEF IInv

\* RenewalRefused preserves it.
LEMMA RenewalRefusedInv ==
  ASSUME IInv, NEW t \in Tasks, RenewalRefused(t) PROVE IInv'
<1> USE SessionAssumption, NoSessionAssumption
        DEF RenewalRefused, Finish, Resume, GiveUp, ForgetSessions, flags
<1>1. TypeOK'
  BY DEF IInv, TypeOK, TaskInv, QuietInv, PcStates, Replies, Outcomes, Attempts,
         Renewers
<1>2. \A u \in Tasks : TaskInv(u)'
  BY DEF IInv, TypeOK, TaskInv, QuietInv, Attempts, Renewers, Tasks
<1>3. QuietInv'
  BY DEF IInv, TypeOK, TaskInv, QuietInv, Attempts
<1>4. QED
  BY <1>1, <1>2, <1>3 DEF IInv

\* RenewalLost preserves it.
LEMMA RenewalLostInv ==
  ASSUME IInv, NEW t \in Tasks, RenewalLost(t) PROVE IInv'
<1> USE SessionAssumption, NoSessionAssumption
        DEF RenewalLost, Finish, Resume, ForgetSessions, flags
<1>1. TypeOK'
  BY DEF IInv, TypeOK, TaskInv, QuietInv, PcStates, Replies, Outcomes, Attempts,
         Renewers
<1>2. \A u \in Tasks : TaskInv(u)'
  BY DEF IInv, TypeOK, TaskInv, QuietInv, Attempts, Renewers, Tasks
<1>3. QuietInv'
  BY DEF IInv, TypeOK, TaskInv, QuietInv, Attempts
<1>4. QED
  BY <1>1, <1>2, <1>3 DEF IInv

\* ReturnValue preserves it.
LEMMA ReturnValueInv ==
  ASSUME IInv, NEW t \in Tasks, ReturnValue(t) PROVE IInv'
<1> USE SessionAssumption, NoSessionAssumption
        DEF ReturnValue, Finish, Resume, ForgetSessions, flags
<1>1. TypeOK'
  <2>1. /\ token_error' \in BOOLEAN
        /\ connect_error' \in BOOLEAN
        /\ wifi_supported' \in BOOLEAN
    BY Zenon DEF IInv, TypeOK
  <2>2. /\ sid' \in SessionIds /\ dead' \in SUBSET SessionIds
        /\ faults' \in 0..MaxFaults
        /\ pc' \in [Tasks -> PcStates] /\ reply' \in [Tasks -> Replies]
    BY DEF IInv, TypeOK, PcStates, Replies
  <2>3. /\ attempt' \in [Tasks -> 0..Attempts]
        /\ refused' \in [Tasks -> 0..Attempts]
        /\ held' \in [Tasks -> SessionIds \cup {NoSession}]
        /\ runs' \in [Tasks -> Nat]
        /\ outcome' \in [Tasks -> Outcomes]
    BY DEF IInv, TypeOK, Outcomes, Attempts
  <2>4. QED
    BY <2>1, <2>2, <2>3 DEF TypeOK
<1>2. \A u \in Tasks : TaskInv(u)'
  BY DEF IInv, TypeOK, TaskInv, QuietInv, Attempts, Renewers, Tasks
<1>3. QuietInv'
  BY DEF IInv, TypeOK, TaskInv, QuietInv, Attempts
<1>4. QED
  BY <1>1, <1>2, <1>3 DEF IInv

\* ReturnDenied preserves it.
LEMMA ReturnDeniedInv ==
  ASSUME IInv, NEW t \in Tasks, ReturnDenied(t) PROVE IInv'
<1> USE SessionAssumption, NoSessionAssumption
        DEF ReturnDenied, Finish, Resume, ForgetSessions, flags
<1>1. TypeOK'
  BY DEF IInv, TypeOK, TaskInv, QuietInv, PcStates, Replies, Outcomes, Attempts,
         Renewers
<1>2. \A u \in Tasks : TaskInv(u)'
  BY DEF IInv, TypeOK, TaskInv, QuietInv, Attempts, Renewers, Tasks
<1>3. QuietInv'
  BY DEF IInv, TypeOK, TaskInv, QuietInv, Attempts
<1>4. QED
  BY <1>1, <1>2, <1>3 DEF IInv

\* ReturnError preserves it.
LEMMA ReturnErrorInv ==
  ASSUME IInv, NEW t \in Tasks, ReturnError(t) PROVE IInv'
<1> USE SessionAssumption, NoSessionAssumption
        DEF ReturnError, Finish, Resume, ForgetSessions, flags
<1>1. TypeOK'
  <2>1. /\ token_error' \in BOOLEAN
        /\ connect_error' \in BOOLEAN
        /\ wifi_supported' \in BOOLEAN
    BY Zenon DEF IInv, TypeOK
  <2>2. /\ sid' \in SessionIds /\ dead' \in SUBSET SessionIds
        /\ faults' \in 0..MaxFaults
        /\ pc' \in [Tasks -> PcStates] /\ reply' \in [Tasks -> Replies]
    BY DEF IInv, TypeOK, PcStates, Replies
  <2>3. /\ attempt' \in [Tasks -> 0..Attempts]
        /\ refused' \in [Tasks -> 0..Attempts]
        /\ held' \in [Tasks -> SessionIds \cup {NoSession}]
        /\ runs' \in [Tasks -> Nat]
        /\ outcome' \in [Tasks -> Outcomes]
    BY DEF IInv, TypeOK, Outcomes, Attempts
  <2>4. QED
    BY <2>1, <2>2, <2>3 DEF TypeOK
<1>2. \A u \in Tasks : TaskInv(u)'
  BY DEF IInv, TypeOK, TaskInv, QuietInv, Attempts, Renewers, Tasks
<1>3. QuietInv'
  BY DEF IInv, TypeOK, TaskInv, QuietInv, Attempts
<1>4. QED
  BY <1>1, <1>2, <1>3 DEF IInv

\* ReturnLost preserves it.
LEMMA ReturnLostInv ==
  ASSUME IInv, NEW t \in Tasks, ReturnLost(t) PROVE IInv'
<1> USE SessionAssumption, NoSessionAssumption
        DEF ReturnLost, Finish, Resume, ForgetSessions, flags
<1>1. TypeOK'
  BY DEF IInv, TypeOK, TaskInv, QuietInv, PcStates, Replies, Outcomes, Attempts,
         Renewers
<1>2. \A u \in Tasks : TaskInv(u)'
  BY DEF IInv, TypeOK, TaskInv, QuietInv, Attempts, Renewers, Tasks
<1>3. QuietInv'
  BY DEF IInv, TypeOK, TaskInv, QuietInv, Attempts
<1>4. QED
  BY <1>1, <1>2, <1>3 DEF IInv

\* So does the loss of sessions at the router, and a step that changes nothing.
LEMMA ExpireSessionsInv ==
  ASSUME IInv, ExpireSessions PROVE IInv'
<1> USE SessionAssumption, NoSessionAssumption
        DEF ExpireSessions, Fault, Known, flags
<1>1. TypeOK'
  BY DEF IInv, TypeOK
<1>2. \A u \in Tasks : TaskInv(u)'
  BY DEF IInv, TypeOK, TaskInv
<1>3. QuietInv'
  BY DEF IInv, TypeOK, QuietInv
<1>4. QED
  BY <1>1, <1>2, <1>3 DEF IInv

\* A step that changes nothing preserves it.
LEMMA StutterInv == ASSUME IInv, UNCHANGED vars PROVE IInv'
  BY DEF IInv, TypeOK, TaskInv, QuietInv, vars

\* The strengthening is inductive: one case per action.
LEMMA StepInv == IInv /\ [Next]_vars => IInv'
<1> SUFFICES ASSUME IInv, [Next]_vars PROVE IInv'
  OBVIOUS
<1>1. CASE ExpireSessions
  BY <1>1, ExpireSessionsInv
<1>2. CASE UNCHANGED vars
  BY <1>2, StutterInv
<1>3. ASSUME NEW t \in Tasks, Begin(t) \/ Network(t) \/ Coroutine(t)
      PROVE  IInv'
  <2>1. CASE Begin(t)
    BY <2>1, BeginInv
  <2>2. CASE Network(t)
    BY <2>2, GrantLoginInv, RefuseLoginInv, LoseLoginInv, ServeRequestInv,
       DenyRequestInv, FailRequestInv, LoseRequestInv DEF Network
  <2>3. CASE Coroutine(t)
    BY <2>3, LoginGrantedInv, RetryLoginInv, RenewalRefusedInv,
       RenewalLostInv, ReturnValueInv, ReturnDeniedInv, ReturnErrorInv,
       ReturnLostInv DEF Coroutine
  <2>4. QED
    BY <1>3, <2>1, <2>2, <2>3
<1>4. QED
  BY <1>1, <1>2, <1>3 DEF Next

\* The strengthening is an invariant of the session layer: what each coroutine
\* holds at each await, and that nothing is amiss while the environment behaves.
THEOREM InductiveInvariant == Spec => []IInv
  BY InitInv, StepInv, PTL DEF Spec

\* Type correctness of the session layer.
THEOREM TypeCorrect == Spec => []TypeOK
<1>1. IInv => TypeOK
  BY DEF IInv
<1>2. QED
  BY <1>1, InductiveInvariant, PTL

\* No call of any wrapper reaches the router twice, whatever is lost.
THEOREM CallsRunAtMostOnce == Spec => []AtMostOnce
<1>1. IInv => AtMostOnce
  BY DEF IInv, TaskInv, AtMostOnce
<1>2. QED
  BY <1>1, InductiveInvariant, PTL

\* ConfigEntryAuthFailed always stands for three refused logins.
THEOREM AuthFailedIsJustified == Spec => []ReauthOnlyAfterThreeRefusals
<1>1. IInv => ReauthOnlyAfterThreeRefusals
  BY DEF IInv, TaskInv, ReauthOnlyAfterThreeRefusals, Attempts
<1>2. QED
  BY <1>1, InductiveInvariant, PTL

\* Without a fault no coroutine ever logs in again.
THEOREM QuietNetworkMeansNoLogin == Spec => []NoLoginWithoutFault
<1>1. IInv => NoLoginWithoutFault
  BY DEF IInv, QuietInv, NoLoginWithoutFault, Link
<1>2. QED
  BY <1>1, InductiveInvariant, PTL

-----------------------------------------------------------------------------
(* Session implements Calls.  A call is "busy" for Calls from Begin until   *)
(* Finish; the logins in between are invisible to it.                       *)

\* The steps between a call's two ends: the caller sees no difference.
LEMMA BetweenIsInvisible ==
  ASSUME IInv, NEW t \in Tasks, NEW where \in PcStates,
         pc[t] # "idle", where # "idle",
         pc' = [pc EXCEPT ![t] = where], outcome' = outcome
  PROVE  StatusOf' = StatusOf
  BY DEF IInv, TypeOK, StatusOf

\* Finish shows the caller its answer and forgets how the call began.
LEMMA FinishShowsOutcome ==
  ASSUME IInv, NEW t \in Tasks, NEW result, Finish(t, result)
  PROVE  /\ StatusOf' = [StatusOf EXCEPT ![t] = result]
         /\ WaryOf' = WaryOf \ {t}
<1>1. StatusOf' = [StatusOf EXCEPT ![t] = result]
  BY DEF IInv, TypeOK, Finish, Resume, StatusOf
<1>2. WaryOf' = WaryOf \ {t}
  BY DEF IInv, TypeOK, Finish, WaryOf
<1>3. QED
  BY <1>1, <1>2

\* A caller sees its call as busy exactly while its coroutine is suspended.
LEMMA BusyMeansCalling ==
  ASSUME IInv, NEW t \in Tasks
  PROVE  (StatusOf[t] = "busy") <=> (pc[t] # "idle")
  BY DEF IInv, TypeOK, StatusOf, Outcomes

\* The initial states are initial states of module Calls.
LEMMA InitRefines == Init => Abstract!Init
<1> SUFFICES ASSUME Init PROVE Abstract!Init
  OBVIOUS
<1>1. StatusOf = [t \in Tasks |-> "fresh"]
  BY DEF Init, StatusOf
<1>2. WaryOf = {}
  BY DEF Init, WaryOf
<1>3. Link = FALSE
  BY DEF Init, Link
<1>4. QED
  BY <1>1, <1>2, <1>3 DEF Init, Abstract!Init, Abstract!Tasks, Tasks

\* A granted login is a stuttering step of module Calls.
LEMMA GrantLoginRefines ==
  ASSUME IInv, NEW t \in Tasks, GrantLogin(t) PROVE UNCHANGED Abstract!vars
<1>1. StatusOf' = StatusOf
  BY BetweenIsInvisible DEF GrantLogin, Answer, PcStates
<1>2. QED
  BY <1>1 DEF GrantLogin, Answer, flags, Abstract!vars, WaryOf, Link

\* So is a refused one.
LEMMA RefuseLoginRefines ==
  ASSUME IInv, NEW t \in Tasks, RefuseLogin(t) PROVE UNCHANGED Abstract!vars
<1>1. StatusOf' = StatusOf
  BY BetweenIsInvisible DEF RefuseLogin, Answer, Fault, PcStates
<1>2. QED
  BY <1>1 DEF RefuseLogin, Answer, Fault, flags, Abstract!vars, WaryOf, Link

\* So is a lost one.
LEMMA LoseLoginRefines ==
  ASSUME IInv, NEW t \in Tasks, LoseLogin(t) PROVE UNCHANGED Abstract!vars
<1>1. StatusOf' = StatusOf
  BY BetweenIsInvisible DEF LoseLogin, Answer, Fault, PcStates
<1>2. QED
  BY <1>1 DEF LoseLogin, Answer, Fault, flags, Abstract!vars, WaryOf, Link

\* So is a rejected request, until its caller hears of it.
LEMMA DenyRequestRefines ==
  ASSUME IInv, NEW t \in Tasks, DenyRequest(t) PROVE UNCHANGED Abstract!vars
<1>1. StatusOf' = StatusOf
  BY BetweenIsInvisible DEF DenyRequest, Answer, Fault, PcStates
<1>2. QED
  BY <1>1 DEF DenyRequest, Answer, Fault, flags, Abstract!vars, WaryOf, Link

\* So is a request that ends in an error.
LEMMA FailRequestRefines ==
  ASSUME IInv, NEW t \in Tasks, FailRequest(t) PROVE UNCHANGED Abstract!vars
<1>1. StatusOf' = StatusOf
  BY BetweenIsInvisible DEF FailRequest, Answer, Fault, PcStates
<1>2. QED
  BY <1>1 DEF FailRequest, Answer, Fault, flags, Abstract!vars, WaryOf, Link

\* A coroutine that resumes with a new session is still busy and still wary.
LEMMA LoginGrantedRefines ==
  ASSUME IInv, NEW t \in Tasks, LoginGranted(t) PROVE UNCHANGED Abstract!vars
<1>1. StatusOf' = StatusOf
  BY BetweenIsInvisible DEF LoginGranted, Resume, ForgetSessions, PcStates
<1>2. QED
  BY <1>1
  DEF LoginGranted, Resume, ForgetSessions, flags, Abstract!vars, WaryOf, Link

\* So is one that tries to log in again.
LEMMA RetryLoginRefines ==
  ASSUME IInv, NEW t \in Tasks, RetryLogin(t) PROVE UNCHANGED Abstract!vars
<1>1. StatusOf' = StatusOf
  BY BetweenIsInvisible DEF RetryLogin, Resume, PcStates
<1>2. WaryOf' = WaryOf
  BY DEF RetryLogin, WaryOf, IInv, TypeOK, TaskInv
<1>3. QED
  BY <1>1, <1>2 DEF RetryLogin, flags, Abstract!vars, Link

\* Sessions that expire are invisible to the callers.
LEMMA ExpireSessionsRefines ==
  ASSUME ExpireSessions PROVE UNCHANGED Abstract!vars
  BY DEF ExpireSessions, flags, Abstract!vars, StatusOf, WaryOf, Link

\* The router serves a request: Execute.
LEMMA ServeRequestRefines ==
  ASSUME IInv, NEW t \in Tasks, ServeRequest(t)
  PROVE  Abstract!Execute(t) \/ UNCHANGED Abstract!vars
<1>1. StatusOf' = StatusOf /\ StatusOf[t] = "busy"
  BY BetweenIsInvisible, BusyMeansCalling DEF ServeRequest, Answer, PcStates
<1>2. WaryOf' = WaryOf /\ Link' = Link
  BY DEF ServeRequest, flags, WaryOf, Link
<1>3. runs[t] = 0
  BY DEF ServeRequest, IInv, TaskInv
<1>4. runs' = [runs EXCEPT ![t] = 1] \/ runs' = runs
  BY <1>3 DEF ServeRequest, IInv, TypeOK
<1>5. QED
  BY <1>1, <1>2, <1>3, <1>4 DEF Abstract!Execute, Abstract!vars

\* A lost request has been executed or has not.
LEMMA LoseRequestRefines ==
  ASSUME IInv, NEW t \in Tasks, LoseRequest(t)
  PROVE  Abstract!Execute(t) \/ UNCHANGED Abstract!vars
<1>1. StatusOf' = StatusOf /\ StatusOf[t] = "busy"
  BY BetweenIsInvisible, BusyMeansCalling
  DEF LoseRequest, Answer, Fault, PcStates
<1>2. WaryOf' = WaryOf /\ Link' = Link
  BY DEF LoseRequest, flags, WaryOf, Link
<1>3. runs[t] = 0
  BY DEF LoseRequest, IInv, TaskInv
<1>4. runs' = [runs EXCEPT ![t] = 1] \/ runs' = runs
  BY <1>3 DEF LoseRequest, IInv, TypeOK
<1>5. QED
  BY <1>1, <1>2, <1>3, <1>4 DEF Abstract!Execute, Abstract!vars

\* A coroutine that begins: Invoke, wary if the link is suspect.
LEMMA BeginRefines ==
  ASSUME IInv, NEW t \in Tasks, Begin(t) PROVE Abstract!Invoke(t)
<1>1. StatusOf[t] # "busy"
  BY BusyMeansCalling DEF Begin
<1>2. StatusOf' = [StatusOf EXCEPT ![t] = "busy"]
  BY DEF Begin, Resume, StatusOf, IInv, TypeOK
<1>3. WaryOf' = IF Link /\ t \in Renewers
                 THEN WaryOf \cup {t} ELSE WaryOf \ {t}
  BY DEF Begin, MustRenew, WaryOf, IInv, TypeOK
<1>4. Link' = Link
  BY DEF Begin, flags, Link
<1>5. runs' = [runs EXCEPT ![t] = 0]
  BY DEF Begin
<1>6. QED
  BY <1>1, <1>2, <1>3, <1>4, <1>5
  DEF Abstract!Invoke, Abstract!Guarded, Renewers

\* The third refusal: RaiseAuthFailed, or ReturnNone in the wifi fetch.
LEMMA RenewalRefusedRefines ==
  ASSUME IInv, NEW t \in Tasks, RenewalRefused(t)
  PROVE  Abstract!ReturnNone(t) \/ Abstract!RaiseAuthFailed(t)
<1>1. StatusOf[t] = "busy" /\ runs' = runs
  BY BusyMeansCalling DEF RenewalRefused
<1>2. attempt[t] > 0 /\ runs[t] = 0 /\ t \in WaryOf
  BY DEF RenewalRefused, IInv, TypeOK, TaskInv, WaryOf
<1>3. CASE t \in Wifi
  <2>1. Finish(t, "none") /\ Link' = TRUE
    BY <1>3 DEF RenewalRefused, Link
  <2>2. t \notin Mandatory
    BY <1>3, SessionAssumption
  <2>3. QED
    BY <1>1, <2>1, <2>2, FinishShowsOutcome
    DEF Abstract!ReturnNone, Abstract!Forget
<1>4. CASE t \notin Wifi
  <2>1. Finish(t, "auth_failed") /\ Link' = Link
    BY <1>4 DEF RenewalRefused, Link, IInv, TypeOK
  <2>2. t \in Mandatory
    BY <1>2, <1>4 DEF IInv, TaskInv, Renewers
  <2>3. QED
    BY <1>1, <1>2, <2>1, <2>2, FinishShowsOutcome
    DEF Abstract!RaiseAuthFailed, Abstract!Forget
<1>5. QED
  BY <1>3, <1>4

\* A lost login: ReturnNone, and the link is suspect.
LEMMA RenewalLostRefines ==
  ASSUME IInv, NEW t \in Tasks, RenewalLost(t)
  PROVE  Abstract!ReturnNone(t)
<1>1. StatusOf[t] = "busy" /\ runs' = runs
  BY BusyMeansCalling DEF RenewalLost
<1>2. Finish(t, "none") /\ Link' = TRUE
  BY DEF RenewalLost, Link
<1>3. QED
  BY <1>1, <1>2, FinishShowsOutcome DEF Abstract!ReturnNone, Abstract!Forget

\* A success: ReturnValue.
LEMMA ReturnValueRefines ==
  ASSUME IInv, NEW t \in Tasks, ReturnValue(t)
  PROVE  Abstract!ReturnValue(t)
<1>1. StatusOf[t] = "busy" /\ runs' = runs /\ runs[t] = 1
  BY BusyMeansCalling DEF ReturnValue, IInv, TaskInv
<1>2. Finish(t, "value")
  BY DEF ReturnValue
<1>3. Link' = (Link /\ t \in Optional)
  BY Zenon DEF ReturnValue, Link
<1>4. QED
  BY <1>1, <1>2, <1>3, FinishShowsOutcome
  DEF Abstract!ReturnValue, Abstract!Forget

\* A rejected token: ReturnNone, and the link is suspect.
LEMMA ReturnDeniedRefines ==
  ASSUME IInv, NEW t \in Tasks, ReturnDenied(t)
  PROVE  Abstract!ReturnNone(t)
<1>1. StatusOf[t] = "busy" /\ runs' = runs
  BY BusyMeansCalling DEF ReturnDenied
<1>2. Finish(t, "none")
  BY DEF ReturnDenied
<1>3. t \in Mandatory => Link' = TRUE
  BY SessionAssumption DEF ReturnDenied, Link, Renewers
<1>4. Link' \in {Link, TRUE}
  BY Zenon DEF ReturnDenied, Link
<1>5. QED
  BY <1>1, <1>2, <1>3, <1>4, FinishShowsOutcome
  DEF Abstract!ReturnNone, Abstract!Forget

\* A router error: ReturnNone.
LEMMA ReturnErrorRefines ==
  ASSUME IInv, NEW t \in Tasks, ReturnError(t)
  PROVE  Abstract!ReturnNone(t)
<1>1. StatusOf[t] = "busy" /\ runs' = runs
  BY BusyMeansCalling DEF ReturnError
<1>2. Finish(t, "none")
  BY DEF ReturnError
<1>3. t \in Mandatory => Link' = TRUE
  BY SessionAssumption DEF ReturnError, Link, Renewers
<1>4. Link' \in {Link, TRUE}
  BY Zenon DEF ReturnError, Link
<1>5. QED
  BY <1>1, <1>2, <1>3, <1>4, FinishShowsOutcome
  DEF Abstract!ReturnNone, Abstract!Forget

\* A lost reply: ReturnNone, or RaiseOther from an optional call.
LEMMA ReturnLostRefines ==
  ASSUME IInv, NEW t \in Tasks, ReturnLost(t)
  PROVE  Abstract!ReturnNone(t) \/ Abstract!RaiseOther(t)
<1>1. StatusOf[t] = "busy" /\ runs' = runs
  BY BusyMeansCalling DEF ReturnLost
<1>2. t \in Mandatory => Link' = TRUE
  BY SessionAssumption DEF ReturnLost, Link, Renewers
<1>3. Link' \in {Link, TRUE}
  BY Zenon DEF ReturnLost, Link
<1>4. CASE Finish(t, "none")
  BY <1>1, <1>2, <1>3, <1>4, FinishShowsOutcome
  DEF Abstract!ReturnNone, Abstract!Forget
<1>5. CASE t \in Optional /\ Finish(t, "raised")
  <2>1. Link' = Link
    BY <1>5, SessionAssumption, Zenon
    DEF ReturnLost, Link, Renewers, IInv, TypeOK
  <2>2. QED
    BY <1>1, <1>5, <2>1, FinishShowsOutcome
    DEF Abstract!RaiseOther, Abstract!Forget
<1>6. QED
  BY <1>4, <1>5 DEF ReturnLost

\* Every step is a step of module Calls or a stutter: one case per action.
LEMMA StepRefines == IInv /\ [Next]_vars => [Abstract!Next]_(Abstract!vars)
<1> SUFFICES ASSUME IInv, [Next]_vars PROVE [Abstract!Next]_(Abstract!vars)
  OBVIOUS
<1>1. CASE ExpireSessions
  BY <1>1, ExpireSessionsRefines
<1>2. CASE UNCHANGED vars
  BY <1>2 DEF vars, Abstract!vars, StatusOf, WaryOf, Link
<1>3. ASSUME NEW t \in Tasks, Begin(t) \/ Network(t) \/ Coroutine(t)
      PROVE  [Abstract!Next]_(Abstract!vars)
  <2> USE DEF Abstract!Next
  <2>0. t \in Abstract!Tasks
    BY DEF Abstract!Tasks, Tasks
  <2>1. CASE Begin(t)
    BY <2>0, <2>1, BeginRefines
  <2>2. CASE Network(t)
    BY <2>0, <2>2, GrantLoginRefines, RefuseLoginRefines, LoseLoginRefines,
       ServeRequestRefines, DenyRequestRefines, FailRequestRefines,
       LoseRequestRefines DEF Network
  <2>3. CASE Coroutine(t)
    BY <2>0, <2>3, LoginGrantedRefines, RetryLoginRefines,
       RenewalRefusedRefines, RenewalLostRefines, ReturnValueRefines,
       ReturnDeniedRefines, ReturnErrorRefines, ReturnLostRefines
    DEF Coroutine
  <2>4. QED
    BY <1>3, <2>1, <2>2, <2>3
<1>4. QED
  BY <1>1, <1>2, <1>3 DEF Next

\* The wrappers keep the promise their callers rely on: every behaviour of
\* Session is a behaviour of Calls.
THEOREM SessionImplementsCalls == Spec => ImplementsCalls
<1>1. Spec => []IInv
  BY InductiveInvariant
<1>2. QED
  BY <1>1, InitRefines, StepRefines, PTL
  DEF Spec, ImplementsCalls, Abstract!Spec

=============================================================================
