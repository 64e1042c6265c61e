------------------------------- MODULE Mirror -------------------------------
(***************************************************************************)
(* What the parts of the hub that hold a copy of the router's state        *)
(* promise about it: it was the router's as a whole at the time of some    *)
(* answer, or it is empty; it is never made up, put together from two      *)
(* answers or changed in advance of the router.  Answers may be shown in   *)
(* any order, and may be lost.                                             *)
(***************************************************************************)
CONSTANTS Readers,  \* coroutines that fetch
          Values,   \* what the router may hold
          Empty     \* what the hub holds when it knows nothing

VARIABLES source,   \* what the router holds
          shown,    \* what the hub holds
          carried   \* the answer each reader is about to store

vars == <<source, shown, carried>>

Init ==
  /\ source \in Values
  /\ shown \in {source, Empty}
  /\ carried = [t \in Readers |-> Empty]

\* By a command, or elsewhere.
Change ==
  /\ source' \in Values
  /\ UNCHANGED <<shown, carried>>

Read(t) ==
  /\ carried' = [carried EXCEPT ![t] = source]
  /\ UNCHANGED <<source, shown>>

Show(t) ==
  /\ shown' = carried[t]
  /\ carried' = [carried EXCEPT ![t] = Empty]
  /\ UNCHANGED source

\* Read and shown at once.
Refresh ==
  /\ shown' = source
  /\ UNCHANGED <<source, carried>>

Lose(t) ==
  /\ shown' \in {shown, Empty}
  /\ carried' = [carried EXCEPT ![t] = Empty]
  /\ UNCHANGED source

\* A fetch fails before there is anything to carry.
Forget ==
  /\ shown' = Empty
  /\ UNCHANGED <<source, carried>>

Next ==
  \/ Change \/ Refresh \/ Forget
  \/ \E t \in Readers : Read(t) \/ Show(t) \/ Lose(t)

Spec == Init /\ [][Next]_vars
=============================================================================
