------------------------ MODULE AccessControlProofs ------------------------
(***************************************************************************)
(* For any number of clients and of concurrent commands: the copy of the   *)
(* router's configuration is always one the hub can interpret, and a block *)
(* acts on nobody but its target; and the copy is the router's of some     *)
(* moment (Mirror).  The strengthening IInv (module AccessControl)         *)
(* remembers what a command was computed from, from the moment it is sent  *)
(* until the router runs it.                                               *)
(***************************************************************************)
EXTENDS AccessControl, TLAPS

\* What the hub falls back to is a configuration.
LEMMA DefaultIsConfig == Default \in Config
  BY DEF Default, Config, Modes

\* The invariant holds after the first refresh.
LEMMA InitInv == Init => IInv
<1> SUFFICES ASSUME Init PROVE IInv
  OBVIOUS
<1>1. TypeOK
  BY DefaultIsConfig DEF Init, TypeOK
<1>2. \A t \in Tasks : pc[t] = "idle" /\ request[t] = NoRequest
  BY DEF Init
<1>3. \A t \in Tasks : WellFormed(t)
  BY <1>2 DEF WellFormed, NoRequest
<1>4. QED
  BY <1>1, <1>3 DEF IInv

\* Sending a well-formed request keeps every request well-formed.
LEMMA SendInv ==
  ASSUME IInv, NEW t \in Commands, NEW req \in Requests,
         req.op = "block" => req.operate = Operate(req.mode, req.block),
         Send(t, req)
  PROVE  IInv'
<1>1. TypeOK'
  BY DEF IInv, TypeOK, Send, Goto, Tasks
<1>2. ASSUME NEW u \in Tasks PROVE WellFormed(u)'
  <2>1. CASE u = t
    BY <2>1 DEF IInv, TypeOK, Send, Goto, WellFormed, Tasks
  <2>2. CASE u # t
    BY <2>2 DEF IInv, TypeOK, Send, Goto, WellFormed
  <2>3. QED
    BY <2>1, <2>2
<1>3. QED
  BY <1>1, <1>2 DEF IInv

\* The router's configuration stays one, whatever it is asked for.
LEMMA EffectIsConfig ==
  ASSUME router \in Config, NEW req \in Requests
  PROVE  Effect(req) \in Config
<1>1. CASE req \in Switches
  BY <1>1 DEF Switches, Effect, Config, Modes
<1>2. CASE req \in Blocks
  BY <1>2 DEF Blocks, Effect, Config, Modes
<1>3. QED
  BY <1>1, <1>2 DEF Requests

\* A block computed for the mode it carries changes nobody else's access, and
\* its target's as asked if the router is in that mode.
LEMMA BlockEffect ==
  ASSUME router \in Config, NEW req \in Blocks,
         req.operate = Operate(req.mode, req.block),
         router' = Effect(req)
  PROVE  /\ \A c \in Macs \ {req.mac} : Access(router', c) = Access(router, c)
         /\ req.mode = router.mode => Access(router', req.mac) = ~req.block
<1>1. /\ req.op = "block" /\ req.mode \in Modes /\ req.mac \in Macs
      /\ req.block \in BOOLEAN /\ req.operate \in {"add", "del"}
  BY DEF Blocks
<1>2. router' = [router EXCEPT ![req.mode] =
                   IF req.operate = "add" THEN @ \cup {req.mac}
                                          ELSE @ \ {req.mac}]
  BY <1>1 DEF Effect
<1>3. router.mode \in Modes
  BY DEF Config
<1>4. CASE req.mode = "black"
  <2>1. /\ router'.mode = router.mode /\ router'.white = router.white
        /\ router'.black = IF req.operate = "add"
                           THEN router.black \cup {req.mac}
                           ELSE router.black \ {req.mac}
    BY <1>2, <1>4 DEF Config
  <2>2. req.operate = IF req.block THEN "add" ELSE "del"
    BY <1>1, <1>4 DEF Operate
  <2>3. QED
    BY <1>1, <1>3, <1>4, <2>1, <2>2 DEF Access, Modes
<1>5. CASE req.mode = "white"
  <2>1. /\ router'.mode = router.mode /\ router'.black = router.black
        /\ router'.white = IF req.operate = "add"
                           THEN router.white \cup {req.mac}
                           ELSE router.white \ {req.mac}
    BY <1>2, <1>5 DEF Config
  <2>2. req.operate = IF req.block THEN "del" ELSE "add"
    BY <1>1, <1>5 DEF Operate
  <2>3. QED
    BY <1>1, <1>3, <1>5, <2>1, <2>2 DEF Access, Modes
<1>6. QED
  BY <1>1, <1>4, <1>5 DEF Modes

\* The strengthening is inductive: one case per action.
LEMMA StepInv == IInv /\ [Next]_vars => IInv'
<1> SUFFICES ASSUME IInv, [Next]_vars
             PROVE  IInv'
  OBVIOUS
<1>1. CASE Elsewhere
  <2>1. router' \in Config
    BY <1>1 DEF Elsewhere, IInv, TypeOK, Config, Modes
  <2>2. QED
    BY <1>1, <2>1 DEF Elsewhere, IInv, TypeOK, WellFormed
<1>2. CASE BeginPoll
  BY <1>2 DEF BeginPoll, Goto, IInv, TypeOK, WellFormed, Tasks
<1>3. ASSUME NEW t \in Commands, Command(t)
      PROVE  IInv'
  <2>1. ASSUME NEW m \in Modes, SetMode(t, m)
        PROVE  IInv'
    <3> DEFINE req == [op |-> "switch", mode |-> m, list |-> cache[m]]
    <3>1. req \in Switches
      BY DEF IInv, TypeOK, Config, Modes, Switches
    <3>2. QED
      BY <2>1, <3>1, SendInv DEF SetMode, Requests
  <2>2. ASSUME NEW c \in Macs, NEW block \in BOOLEAN, SetBlock(t, c, block)
        PROVE  IInv'
    <3> DEFINE operate == Operate(cache.mode, block)
               req == [op |-> "block", mode |-> cache.mode,
                       operate |-> operate, mac |-> c, block |-> block]
    <3>1. cache.mode \in Modes /\ operate \in {"add", "del"}
      BY DEF IInv, TypeOK, Config, Operate
    <3>2. req \in Blocks
      <4> HIDE DEF operate
      <4> QED BY <3>1 DEF Blocks
    <3>3. QED
      BY <2>2, <3>2, SendInv DEF SetBlock, Requests
  <2>3. CASE Execute(t)
    <3>1. router' \in Config
      BY <2>3, EffectIsConfig DEF Execute, IInv, TypeOK, WellFormed, Tasks
    <3>2. TypeOK'
      BY <2>3, <3>1 DEF Execute, Goto, IInv, TypeOK, Tasks
    <3>3. \A u \in Tasks : WellFormed(u)'
      BY <2>3 DEF Execute, Goto, IInv, TypeOK, WellFormed, NoRequest
    <3>4. QED
      BY <3>2, <3>3 DEF IInv
  <2>4. CASE ExecuteFailed(t)
    <3>1. TypeOK'
      BY <2>4 DEF ExecuteFailed, Goto, IInv, TypeOK, Tasks
    <3>2. \A u \in Tasks : WellFormed(u)'
      BY <2>4 DEF ExecuteFailed, Goto, IInv, TypeOK, WellFormed, NoRequest
    <3>3. QED
      BY <3>1, <3>2 DEF IInv
  <2>5. QED
    BY <1>3, <2>1, <2>2, <2>3, <2>4 DEF Command
<1>4. ASSUME NEW t \in Tasks, Fetch(t)
      PROVE  IInv'
  <2>1. CASE Answered(t)
    BY <2>1 DEF Answered, Goto, IInv, TypeOK, WellFormed
  <2>2. CASE FetchFailed(t)
    BY <2>2, DefaultIsConfig DEF FetchFailed, Goto, IInv, TypeOK, WellFormed
  <2>3. CASE Apply(t)
    BY <2>3, DefaultIsConfig DEF Apply, Goto, IInv, TypeOK, WellFormed
  <2>4. QED
    BY <1>4, <2>1, <2>2, <2>3 DEF Fetch
<1>5. CASE UNCHANGED vars
  BY <1>5 DEF vars, IInv, TypeOK, WellFormed
<1>6. QED
  BY <1>1, <1>2, <1>3, <1>4, <1>5 DEF Next

\* The strengthening is an invariant.
THEOREM InductiveInvariant == Spec => []IInv
  BY InitInv, StepInv, PTL DEF Spec

\* Type correctness: the cached mode is always one of the two that
\* _resolve_access_mode accepts.
THEOREM TypeCorrect == Spec => []TypeOK
<1>1. IInv => TypeOK
  BY DEF IInv
<1>2. QED
  BY <1>1, InductiveInvariant, PTL

\* However many commands are under way and however old the copy they were
\* computed from (set_single_device_block), a block acts on its target only.
THEOREM BlocksActOnTheirTarget == Spec => BlockActsOnItsTarget
<1> DEFINE Acts(t) ==
      /\ \A c \in Macs \ {request[t].mac} :
           Access(router', c) = Access(router, c)
      /\ request[t].mode = router.mode =>
           Access(router', request[t].mac) = ~request[t].block
<1>1. ASSUME IInv, NEW t \in Commands, Execute(t), request[t].op = "block"
      PROVE  Acts(t)
  <2>1. /\ request[t] \in Requests
        /\ request[t].operate = Operate(request[t].mode, request[t].block)
    BY <1>1 DEF IInv, WellFormed, Execute, Tasks
  <2>2. request[t] \in Blocks
    BY <1>1, <2>1 DEF Requests, Switches
  <2>3. router \in Config /\ router' = Effect(request[t])
    BY <1>1 DEF IInv, TypeOK, Execute
  <2>4. QED
    BY <2>1, <2>2, <2>3, BlockEffect
<1>2. IInv => [\A t \in Commands :
                 Execute(t) /\ request[t].op = "block" => Acts(t)]_vars
  BY <1>1
<1>3. QED
  BY <1>2, InductiveInvariant, PTL DEF BlockActsOnItsTarget

\* What a step of the hub is to the mirror.
LEMMA MirrorStep == IInv /\ [Next]_vars => [Promise!Next]_(Promise!vars)
<1> SUFFICES ASSUME IInv, [Next]_vars
             PROVE  Promise!Next \/ UNCHANGED Promise!vars
  OBVIOUS
<1>1. CASE UNCHANGED router /\ UNCHANGED cache /\ UNCHANGED answer
  BY <1>1 DEF Promise!vars
<1>2. CASE Elsewhere
  <2>1. router' \in Config
    BY <1>2, StepInv DEF IInv, TypeOK
  <2>2. Promise!Change
    BY <1>2, <2>1 DEF Elsewhere, Promise!Change
  <2>3. QED
    BY <2>2 DEF Promise!Next
<1>3. CASE BeginPoll
  BY <1>3, <1>1 DEF BeginPoll
<1>4. ASSUME NEW t \in Commands, Command(t)
      PROVE  Promise!Next \/ UNCHANGED Promise!vars
  <2>1. CASE Execute(t)
    <3>1. router' \in Config
      BY StepInv DEF IInv, TypeOK
    <3>2. Promise!Change
      BY <2>1, <3>1 DEF Execute, Promise!Change
    <3>3. QED
      BY <3>2 DEF Promise!Next
  <2>2. CASE ~Execute(t)
    BY <1>1, <1>4, <2>2 DEF Command, SetMode, SetBlock, Send, ExecuteFailed
  <2>3. QED
    BY <2>1, <2>2
<1>5. ASSUME NEW t \in Tasks, Fetch(t)
      PROVE  Promise!Next \/ UNCHANGED Promise!vars
  <2>1. CASE Answered(t)
    <3>1. Promise!Read(t)
      BY <2>1 DEF Answered, Promise!Read
    <3>2. QED
      BY <3>1 DEF Promise!Next
  <2>2. CASE FetchFailed(t)
    <3>1. Promise!Forget \/ UNCHANGED Promise!vars
      BY <2>2 DEF FetchFailed, Promise!Forget, Promise!vars
    <3>2. QED
      BY <3>1 DEF Promise!Next
  <2>3. CASE Apply(t)
    <3>1. Promise!Show(t)
      BY <2>3 DEF Apply, Promise!Show
    <3>2. QED
      BY <3>1 DEF Promise!Next
  <2>4. QED
    BY <1>5, <2>1, <2>2, <2>3 DEF Fetch
<1>6. QED
  BY <1>1, <1>2, <1>3, <1>4, <1>5 DEF Next, vars

\* Whatever commands are under way, and whatever they expect of the router, the
\* copy that switches and further commands are computed from is the router's
\* configuration of some moment, mode and lists together, or the default
\* (fetch_access_control_config).
THEOREM CopyWasTheRouters == Spec => CopyIsMirror
<1>1. Init => Promise!Init
  BY DEF Init, Promise!Init
<1>2. QED
  BY <1>1, MirrorStep, InductiveInvariant, PTL DEF Spec, CopyIsMirror, Promise!Spec
=============================================================================
