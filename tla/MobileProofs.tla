---------------------------- MODULE MobileProofs ----------------------------
(***************************************************************************)
(* Proofs about Mobile: the messages, what is joined from the list of      *)
(* networks and the sensors of a limit, for any messages, parts, networks, *)
(* SIMs and coroutines; what is shown of traffic and networks as a copy of *)
(* the router's (Mirror); and the countdown of any limit, from any day     *)
(* between 1901 and 2098 on.                                               *)
(***************************************************************************)
EXTENDS Mobile, TLAPS

-----------------------------------------------------------------------------
(* What went out of a text.                                                *)

LEMMA UptoGrows ==
  ASSUME NEW n \in Nat
  PROVE  Append(S!Upto(n), n + 1) = S!Upto(n + 1) /\ Len(S!Upto(n)) = n
<1>1. S!Upto(n) \in Seq(Nat) /\ Len(S!Upto(n)) = n
  BY DEF S!Upto
<1>2. Append(S!Upto(n), n + 1) \in Seq(Nat) /\ S!Upto(n + 1) \in Seq(Nat)
  BY <1>1 DEF S!Upto
<1>3. Len(Append(S!Upto(n), n + 1)) = n + 1 /\ Len(S!Upto(n + 1)) = n + 1
  BY <1>1 DEF S!Upto
<1>4. \A i \in 1..(n + 1) : Append(S!Upto(n), n + 1)[i] = S!Upto(n + 1)[i]
  BY <1>1 DEF S!Upto
<1> QED
  BY <1>1, <1>2, <1>3, <1>4

LEMMA NothingOut == S!Upto(0) = <<>>
BY DEF S!Upto

-----------------------------------------------------------------------------
(* The messages.                                                           *)

LEMMA OrdersAreWork ==
  /\ S!NoOrder \in S!Works /\ S!NoOrder.do = "nothing"
  /\ \A o \in S!Orders : o \in S!Works /\ o.at = 0 /\ o.do # "nothing"
BY MobileAssumption DEF MobileAssumption, S!NoOrder, S!Orders, S!Order, S!Works

LEMMA MessagesInit == S!Init => S!IInv
<1> SUFFICES ASSUME S!Init PROVE S!IInv
  OBVIOUS
<1>1. S!TypeOK
  <2>1. <<>> \in {S!Upto(n) : n \in 0..MaxParts}
    BY NothingOut, MobileAssumption DEF MobileAssumption
  <2> QED
    BY <2>1, OrdersAreWork DEF S!Init, S!TypeOK, S!Tasks
<1>2. ASSUME NEW t \in Commands PROVE S!InOrder(t)
  BY MobileAssumption, NothingOut DEF MobileAssumption, S!Init, S!InOrder, S!Tasks
<1>3. S!InARow
  BY DEF S!Init, S!InARow, S!OneAtATime
<1> QED
  BY <1>1, <1>2, <1>3 DEF S!IInv

LEMMA MessagesElsewhere == S!IInv /\ S!Elsewhere => S!IInv'
<1> SUFFICES ASSUME S!IInv, S!Elsewhere PROVE S!IInv'
  OBVIOUS
<1> USE DEF S!Elsewhere
<1>1. S!TypeOK'
  BY DEF S!IInv, S!TypeOK
<1>2. \A t \in Commands : S!InOrder(t)'
  BY DEF S!IInv, S!InOrder
<1>3. ASSUME serial PROVE S!InARow'
  <2>1. S!Stored \subseteq S!Stored'
    BY <1>3 DEF S!IInv, S!TypeOK, S!Stored
  <2> QED
    BY <1>3, <2>1 DEF S!IInv, S!InARow, S!OneAtATime
<1> QED
  BY <1>1, <1>2, <1>3 DEF S!IInv

LEMMA MessagesPollModem == S!IInv /\ S!PollModem => S!IInv'
BY DEF S!PollModem, S!IInv, S!TypeOK, S!InOrder, S!InARow, S!OneAtATime, S!Stored

\* What a step of one coroutine has to show, when it leaves the others' texts
\* alone.
LEMMA StepOfOne ==
  ASSUME S!IInv, NEW t \in S!Tasks, NEW where, pc' = [pc EXCEPT ![t] = where],
         S!TypeOK', serial' = serial,
         \A u \in Commands \ {t} : order'[u] = order[u] /\ arrived'[u] = arrived[u],
         t \in Commands => S!InOrder(t)',
         serial => /\ pc[t] # "idle" \/ S!Idle
                   /\ where \notin {"list", "listed"} => inbox' \subseteq S!Stored'
                   /\ where = "listed" => reply'[t] \subseteq S!Stored'
  PROVE  S!IInv'
<1>1. /\ t \in S!Tasks /\ pc'[t] = where
      /\ \A u \in S!Tasks \ {t} : pc'[u] = pc[u]
  BY DEF S!IInv, S!TypeOK
<1>2. ASSUME NEW u \in Commands PROVE S!InOrder(u)'
  <2>1. CASE u = t
    BY <2>1
  <2>2. CASE u # t
    <3>1. pc'[u] = pc[u] /\ order'[u] = order[u] /\ arrived'[u] = arrived[u]
      BY <1>1, <2>2 DEF S!Tasks
    <3> QED
      BY <3>1 DEF S!IInv, S!InOrder
  <2> QED
    BY <2>1, <2>2
<1>3. ASSUME serial PROVE S!InARow'
  <2>1. \A u \in S!Tasks \ {t} : pc'[u] = "idle"
    BY <1>1, <1>3 DEF S!IInv, S!InARow, S!OneAtATime, S!Idle
  <2>2. S!OneAtATime'
    BY <2>1 DEF S!OneAtATime
  <2> QED
    BY <1>1, <1>3, <2>1, <2>2 DEF S!InARow
<1> QED
  BY <1>2, <1>3 DEF S!IInv

LEMMA MessagesBeginPoll == S!IInv /\ S!BeginPoll => S!IInv'
<1> SUFFICES ASSUME S!IInv, S!BeginPoll PROVE S!IInv'
  OBVIOUS
<1> USE DEF S!BeginPoll, S!Goto, S!Enter
<1>1. S!TypeOK' /\ "poll" \in S!Tasks
  BY DEF S!IInv, S!TypeOK, S!Tasks
<1>2. "poll" \notin Commands
  BY MobileAssumption DEF MobileAssumption
<1> QED
  BY <1>1, <1>2, StepOfOne

LEMMA MessagesCall ==
  ASSUME S!IInv, NEW t \in Commands, NEW o \in S!Orders, S!Call(t, o)
  PROVE  S!IInv'
<1> USE DEF S!Call, S!Goto, S!Enter
<1>1. t \in S!Tasks /\ o \in S!Works /\ o.at = 0
  BY OrdersAreWork DEF S!Tasks
<1>2. PICK where \in {"call", "look"} : pc' = [pc EXCEPT ![t] = where]
  OBVIOUS
<1>3. S!TypeOK'
  <2>1. <<>> \in {S!Upto(n) : n \in 0..MaxParts}
    BY NothingOut, MobileAssumption DEF MobileAssumption
  <2> QED
    BY <1>1, <1>2, <2>1, MobileAssumption
    DEF MobileAssumption, S!IInv, S!TypeOK, S!Tasks
<1>4. S!InOrder(t)'
  <2>1. pc'[t] = where /\ order'[t] = o /\ arrived'[t] = S!Upto(0)
    BY <1>1, <1>2, NothingOut DEF S!IInv, S!TypeOK
  <2>2. 0 \in 0..MaxParts /\ 0 <= o.parts
    BY <1>1, MobileAssumption DEF MobileAssumption, S!Works
  <2> QED
    BY <1>1, <1>2, <2>1, <2>2 DEF S!InOrder
<1>5. serial => inbox \subseteq S!Stored /\ S!Idle
  BY DEF S!IInv, S!InARow, S!Idle
<1>6. S!Stored' = S!Stored
  BY DEF S!Stored
<1>7. \A u \in Commands \ {t} : order'[u] = order[u] /\ arrived'[u] = arrived[u]
  BY DEF S!IInv, S!TypeOK
<1> QED
  BY <1>1, <1>2, <1>3, <1>4, <1>5, <1>6, <1>7, StepOfOne

\* A command that ends has nothing more to do.
LEMMA MessagesEnd ==
  ASSUME S!IInv, NEW t \in Commands, NEW how, S!End(t, how), serial' = serial,
         S!TypeOK', \A u \in Commands \ {t} : arrived'[u] = arrived[u],
         serial => pc[t] # "idle" /\ inbox' \subseteq S!Stored'
  PROVE  S!IInv'
<1> USE DEF S!End, S!Goto
<1>1. t \in S!Tasks /\ pc'[t] = "idle" /\ order'[t] = S!NoOrder
  BY DEF S!Tasks, S!IInv, S!TypeOK
<1>2. S!InOrder(t)'
  BY <1>1, OrdersAreWork DEF S!InOrder
<1>3. \A u \in Commands \ {t} : order'[u] = order[u]
  BY DEF S!IInv, S!TypeOK
<1> QED
  BY <1>1, <1>2, <1>3, StepOfOne

LEMMA MessagesLook ==
  ASSUME S!IInv, NEW t \in Commands, S!Look(t)
  PROVE  S!IInv'
<1> USE DEF S!Look
<1>1. t \in S!Tasks
  BY DEF S!Tasks
<1>2. S!Stored' = S!Stored
  BY DEF S!Stored
<1>3. serial => inbox \subseteq S!Stored
  BY <1>1 DEF S!IInv, S!InARow, S!OneAtATime
<1>0. (S!Goto(t, "call") /\ UNCHANGED <<order, outcome>>) \/ S!End(t, "error")
  OBVIOUS
<1>4. CASE S!Goto(t, "call") /\ UNCHANGED <<order, outcome>>
  <2>1. pc' = [pc EXCEPT ![t] = "call"] /\ UNCHANGED <<order, outcome>>
    BY <1>4 DEF S!Goto
  <2>2. S!TypeOK'
    BY <1>1, <2>1, MobileAssumption
    DEF MobileAssumption, S!IInv, S!TypeOK
  <2>3. S!InOrder(t)'
    BY <1>1, <2>1 DEF S!IInv, S!TypeOK, S!InOrder
  <2> QED
    BY <1>1, <1>2, <1>3, <2>1, <2>2, <2>3, StepOfOne
<1>5. CASE S!End(t, "error")
  <2>1. S!End(t, "error")
    BY <1>5
  <2>2. S!TypeOK'
    BY <1>1, <2>1, OrdersAreWork, MobileAssumption
    DEF MobileAssumption, S!IInv, S!TypeOK, S!End, S!Goto
  <2> QED
    BY <1>1, <1>2, <1>3, <2>1, <2>2, MessagesEnd
<1> QED
  BY <1>0, <1>4, <1>5

\* The next part is the one that is accepted.
LEMMA MessagesSendPart ==
  ASSUME S!IInv, NEW t \in Commands, S!SendPart(t)
  PROVE  S!IInv'
<1> USE DEF S!SendPart, S!NextPart, S!More
<1>1. /\ t \in S!Tasks /\ order[t] \in S!Works /\ order[t].at < order[t].parts
      /\ pc' = [pc EXCEPT ![t] = "call"]
  BY DEF S!IInv, S!TypeOK, S!Tasks
<1>2. /\ order' = [order EXCEPT ![t] = [order[t] EXCEPT !.at = @ + 1]]
      /\ arrived' = [arrived EXCEPT ![t] = Append(@, order[t].at + 1)]
  OBVIOUS
<1>3. [order[t] EXCEPT !.at = @ + 1] \in S!Works
  BY <1>1, MobileAssumption DEF MobileAssumption, S!Works
<1>4. order[t].do = "send" /\ arrived[t] = S!Upto(order[t].at)
  BY DEF S!IInv, S!InOrder
<1>5. order[t].at \in Nat /\ order[t].at + 1 \in 0..MaxParts
  BY <1>1, MobileAssumption DEF MobileAssumption, S!Works
<1>6. Append(arrived[t], order[t].at + 1) = S!Upto(order[t].at + 1)
  BY <1>4, <1>5, UptoGrows
<1>7. S!TypeOK'
  BY <1>1, <1>2, <1>3, <1>5, <1>6 DEF S!IInv, S!TypeOK
<1>8. order'[t].at = order[t].at + 1 /\ arrived'[t] = S!Upto(order[t].at + 1)
  BY <1>1, <1>2, <1>6 DEF S!IInv, S!TypeOK, S!Works
<1>9. order'[t].parts = order[t].parts /\ pc'[t] = "call"
  BY <1>1, <1>2 DEF S!IInv, S!TypeOK, S!Works
<1>10. S!InOrder(t)'
  BY <1>1, <1>5, <1>8, <1>9 DEF S!InOrder, S!Works
<1>11. \A u \in Commands \ {t} : order'[u] = order[u] /\ arrived'[u] = arrived[u]
  BY <1>2 DEF S!IInv, S!TypeOK
<1>12. serial => inbox \subseteq S!Stored' /\ pc[t] # "idle"
  BY <1>1 DEF S!IInv, S!InARow, S!OneAtATime, S!Stored
<1> QED
  BY <1>1, <1>7, <1>10, <1>11, <1>12, StepOfOne

\* A part that is refused may have been sent; it ends the command.
LEMMA MessagesSendFailed ==
  ASSUME S!IInv, NEW t \in Commands, S!SendFailed(t)
  PROVE  S!IInv'
<1> USE DEF S!SendFailed, S!More
<1>1. /\ t \in S!Tasks /\ order[t] \in S!Works /\ order[t].at < order[t].parts
      /\ ~serial
  BY DEF S!IInv, S!TypeOK, S!Tasks
<1>2. order[t].do = "send" /\ arrived[t] = S!Upto(order[t].at)
  BY DEF S!IInv, S!InOrder
<1>3. order[t].at \in Nat /\ order[t].at + 1 \in 0..MaxParts
  BY <1>1, MobileAssumption DEF MobileAssumption, S!Works
<1>4. Append(arrived[t], order[t].at + 1) = S!Upto(order[t].at + 1)
  BY <1>2, <1>3, UptoGrows
<1>5. arrived' \in [Commands -> {S!Upto(n) : n \in 0..MaxParts}]
  <2>1. Append(arrived[t], order[t].at + 1) \in {S!Upto(n) : n \in 0..MaxParts}
    BY <1>3, <1>4
  <2> QED
    BY <2>1 DEF S!IInv, S!TypeOK
<1>6. S!TypeOK'
  <2>1. order' \in [Commands -> S!Works]
    BY OrdersAreWork DEF S!IInv, S!TypeOK, S!End
  <2>2. /\ pc' \in [S!Tasks -> {"idle", "look", "call", "list", "listed"}]
        /\ pc'["poll"] \notin {"look", "call"}
    BY <1>1, MobileAssumption DEF MobileAssumption, S!IInv, S!TypeOK, S!End, S!Goto
  <2>3. outcome' \in [Commands -> {"none", "ok", "error"}]
    BY DEF S!IInv, S!TypeOK, S!End
  <2> QED
    BY <1>5, <2>1, <2>2, <2>3 DEF S!IInv, S!TypeOK
<1>7. \A u \in Commands \ {t} : arrived'[u] = arrived[u]
  BY DEF S!IInv, S!TypeOK
<1> QED
  BY <1>1, <1>6, <1>7, MessagesEnd

LEMMA MessagesSent ==
  ASSUME S!IInv, NEW t \in Commands, S!Sent(t)
  PROVE  S!IInv'
<1> USE DEF S!Sent, S!More, S!Goto
<1>1. t \in S!Tasks /\ order[t] \in S!Works /\ pc' = [pc EXCEPT ![t] = "list"]
  BY DEF S!IInv, S!TypeOK, S!Tasks
<1>2. S!TypeOK'
  BY <1>1, MobileAssumption DEF MobileAssumption, S!IInv, S!TypeOK
<1>3. order[t].at = order[t].parts
  BY <1>1, MobileAssumption DEF MobileAssumption, S!IInv, S!InOrder, S!Works
<1>4. pc'[t] = "list"
  BY <1>1 DEF S!IInv, S!TypeOK
<1>5. S!InOrder(t)'
  BY <1>3, <1>4 DEF S!IInv, S!InOrder
<1> QED
  BY <1>1, <1>2, <1>5, StepOfOne

\* What leaves the inbox leaves it with what leaves the router.
LEMMA MessagesRemoveOne ==
  ASSUME S!IInv, NEW t \in Commands, S!RemoveOne(t)
  PROVE  S!IInv'
<1> USE DEF S!RemoveOne
<1>1. t \in S!Tasks /\ S!End(t, "ok")
  BY DEF S!Tasks
<1>2. fate' \in [Msgs -> {"future", "stored", "gone"}]
  BY DEF S!IInv, S!TypeOK, S!Removed
<1>3. S!TypeOK'
  BY <1>1, <1>2, OrdersAreWork, MobileAssumption
  DEF MobileAssumption, S!IInv, S!TypeOK, S!End, S!Goto
<1>4. ASSUME serial PROVE inbox' \subseteq S!Stored'
  <2>1. inbox \subseteq S!Stored
    BY <1>1, <1>4 DEF S!IInv, S!InARow, S!OneAtATime
  <2>2. fate' = S!Removed(order[t].which)
    BY <1>4
  <2> QED
    BY <2>1, <2>2 DEF S!Stored, S!Removed
<1> QED
  BY <1>1, <1>3, <1>4, MessagesEnd

LEMMA MessagesRemoveAll ==
  ASSUME S!IInv, NEW t \in Commands, S!RemoveAll(t)
  PROVE  S!IInv'
<1> USE DEF S!RemoveAll, S!Goto
<1>1. t \in S!Tasks /\ pc' = [pc EXCEPT ![t] = "list"] /\ order[t].do # "send"
  BY DEF S!Tasks
<1>2. fate' \in [Msgs -> {"future", "stored", "gone"}]
  BY DEF S!IInv, S!TypeOK, S!Removed
<1>3. S!TypeOK'
  BY <1>1, <1>2, MobileAssumption DEF MobileAssumption, S!IInv, S!TypeOK
<1>4. S!InOrder(t)'
  BY <1>1 DEF S!IInv, S!TypeOK, S!InOrder
<1> QED
  BY <1>1, <1>3, <1>4, StepOfOne

LEMMA MessagesAbort ==
  ASSUME S!IInv, NEW t \in Commands, S!Abort(t)
  PROVE  S!IInv'
<1> USE DEF S!Abort
<1>1. S!TypeOK'
  BY OrdersAreWork, MobileAssumption
  DEF MobileAssumption, S!IInv, S!TypeOK, S!End, S!Goto, S!Tasks
<1> QED
  BY <1>1, MessagesEnd

-----------------------------------------------------------------------------
(* The list of messages.                                                   *)

LEMMA MessagesListed ==
  ASSUME S!IInv, NEW t \in S!Tasks, S!Listed(t)
  PROVE  S!IInv'
<1> USE DEF S!Listed, S!Goto
<1>1. S!Stored \subseteq Msgs /\ S!Stored' = S!Stored
  BY DEF S!Stored
<1>2. S!TypeOK'
  BY <1>1 DEF S!IInv, S!TypeOK
<1>3. reply'[t] = S!Stored /\ pc'[t] = "listed"
  BY DEF S!IInv, S!TypeOK
<1>4. t \in Commands => S!InOrder(t)'
  BY <1>3 DEF S!IInv, S!InOrder
<1> QED
  BY <1>1, <1>2, <1>3, <1>4, StepOfOne

\* A fetch that ends leaves an inbox that is stored, with commands in a row.
LEMMA MessagesDone ==
  ASSUME S!IInv, NEW t \in S!Tasks, S!Done(t),
         UNCHANGED <<serial, arrived, fate>>, inbox' \subseteq Msgs,
         reply' \in [S!Tasks -> SUBSET Msgs],
         serial => pc[t] # "idle" /\ inbox' \subseteq S!Stored'
  PROVE  S!IInv'
<1> USE DEF S!Done
<1>1. CASE t \in Commands
  <2>1. S!End(t, "ok")
    BY <1>1
  <2>2. S!TypeOK'
    BY <1>1, <2>1, OrdersAreWork, MobileAssumption
    DEF MobileAssumption, S!IInv, S!TypeOK, S!End, S!Goto
  <2> QED
    BY <1>1, <2>1, <2>2, MessagesEnd
<1>2. CASE t \notin Commands
  <2>1. pc' = [pc EXCEPT ![t] = "idle"] /\ UNCHANGED <<order, outcome>>
    BY <1>2 DEF S!Goto
  <2>2. S!TypeOK'
    BY <2>1 DEF S!IInv, S!TypeOK
  <2> QED
    BY <1>2, <2>1, <2>2, StepOfOne
<1> QED
  BY <1>1, <1>2

LEMMA MessagesFetchEnds ==
  ASSUME S!IInv, NEW t \in S!Tasks, S!ListFailed(t) \/ S!Apply(t)
  PROVE  S!IInv'
<1>1. CASE S!ListFailed(t)
  <2>1. inbox' \subseteq Msgs
    BY <1>1 DEF S!ListFailed, S!IInv, S!TypeOK
  <2> QED
    BY <1>1, <2>1, MessagesDone DEF S!ListFailed, S!IInv, S!TypeOK
<1>2. CASE S!Apply(t)
  <2>1. /\ inbox' \subseteq Msgs /\ reply' \in [S!Tasks -> SUBSET Msgs]
        /\ pc[t] = "listed" /\ S!Done(t) /\ UNCHANGED <<serial, arrived, fate>>
    BY <1>2 DEF S!Apply, S!IInv, S!TypeOK
  <2>2. serial => inbox' \subseteq S!Stored
    BY <1>2 DEF S!Apply, S!IInv, S!InARow
  <2>3. S!Stored' = S!Stored
    BY <2>1 DEF S!Stored
  <2> QED
    BY <2>1, <2>2, <2>3, MessagesDone
<1> QED
  BY <1>1, <1>2

LEMMA MessagesStep == S!IInv /\ S!Next => S!IInv'
BY MessagesElsewhere, MessagesPollModem, MessagesBeginPoll, MessagesCall,
   MessagesLook, MessagesSendPart, MessagesSendFailed, MessagesSent,
   MessagesRemoveOne, MessagesRemoveAll, MessagesAbort, MessagesListed,
   MessagesFetchEnds
DEF S!Next, S!Command, S!Fetch

\* A send that ends without an error ends in the fetch of the list.
LEMMA OnlyListsEndSends ==
  ASSUME S!IInv, S!Next, NEW t \in Commands, order[t].do = "send",
         outcome'[t] = "ok", outcome[t] # "ok"
  PROVE  pc[t] \in {"list", "listed"}
<1>1. ASSUME NEW u \in Commands, NEW how, S!End(u, how), how # "ok" \/ u # t
      PROVE  FALSE
  BY <1>1 DEF S!End, S!IInv, S!TypeOK
<1>2. ASSUME NEW u \in Commands, S!Command(u) PROVE FALSE
  <2>1. ASSUME NEW o \in S!Orders, S!Call(u, o) PROVE FALSE
    BY <2>1 DEF S!Call, S!IInv, S!TypeOK
  <2>2. CASE S!Look(u)
    BY <1>1, <2>2 DEF S!Look
  <2>3. CASE S!SendPart(u) \/ S!Sent(u) \/ S!RemoveAll(u)
    BY <2>3 DEF S!SendPart, S!Sent, S!RemoveAll
  <2>4. CASE S!SendFailed(u) \/ S!Abort(u)
    BY <1>1, <2>4 DEF S!SendFailed, S!Abort
  <2>5. CASE S!RemoveOne(u)
    BY <1>1, <2>5 DEF S!RemoveOne
  <2> QED
    BY <1>2, <2>1, <2>2, <2>3, <2>4, <2>5 DEF S!Command
<1>3. CASE S!Elsewhere \/ S!PollModem \/ S!BeginPoll
  BY <1>3 DEF S!Elsewhere, S!PollModem, S!BeginPoll
<1>4. ASSUME NEW u \in S!Tasks, S!Fetch(u) PROVE pc[t] \in {"list", "listed"}
  <2>1. S!Done(u) /\ pc[u] \in {"list", "listed"}
    BY <1>4 DEF S!Fetch, S!Listed, S!ListFailed, S!Apply
  <2>2. u = t
    BY <1>1, <2>1 DEF S!Done
  <2> QED
    BY <2>1, <2>2
<1> QED
  BY <1>2, <1>3, <1>4 DEF S!Next

LEMMA MessagesStutter == S!IInv /\ UNCHANGED messages => S!IInv'
BY DEF messages, S!IInv, S!TypeOK, S!InOrder, S!InARow, S!OneAtATime, S!Stored

-----------------------------------------------------------------------------
(* The list of networks.                                                   *)

\* The list asks to remember only what it has seen saved.
LEMMA NetworksInit == R!Init => R!IInv
<1> SUFFICES ASSUME R!Init PROVE R!IInv
  OBVIOUS
<1>1. [n \in Nets |-> "away"] \in R!Looks
  BY DEF R!Looks
<1>2. R!NoRequest \in R!Requests
  BY DEF R!NoRequest, R!Requests
<1>3. R!TypeOK
  BY <1>1, <1>2 DEF R!Init, R!TypeOK
<1>4. \A t \in Commands : netPc[t] = "idle" /\ ~request[t].listed
  BY DEF R!Init, R!NoRequest, R!Tasks
<1> QED
  BY <1>3, <1>4 DEF R!IInv, R!Careful

\* A name is given up or sent alone.
LEMMA NamesAreRequests ==
  /\ R!NoRequest \in R!Requests /\ ~R!NoRequest.listed
  /\ \A n \in Nets : /\ [R!NoRequest EXCEPT !.net = n] \in R!Requests
                     /\ ~[R!NoRequest EXCEPT !.net = n].listed
BY DEF R!NoRequest, R!Requests

\* What is sent for a network of the list.
LEMMA ChosenIsCareful ==
  ASSUME R!TypeOK, NEW n \in R!Listed
  PROVE  /\ n \in Nets /\ R!Chosen(n) \in R!Requests /\ R!Chosen(n).net = n
         /\ R!Chosen(n).remember => n \in R!Chosen(n).seen
<1> DEFINE b == n \in known
<1>1. n \in Nets /\ known \in SUBSET Nets
  BY DEF R!Listed, R!TypeOK
<1>2. b \in BOOLEAN
  OBVIOUS
<1>3. R!Chosen(n) = [net |-> n, key |-> FALSE, remember |-> b, listed |-> TRUE,
                     seen |-> known]
  BY DEF R!Chosen
<1>4. b => n \in known
  OBVIOUS
<1> HIDE DEF b
<1> QED
  BY <1>1, <1>2, <1>3, <1>4 DEF R!Requests

\* A command that sends r is careful if r is.
LEMMA SendingIsCareful ==
  ASSUME R!IInv, NEW t \in Commands, NEW r \in R!Requests, NEW where,
         r.listed /\ r.remember => r.net \in r.seen,
         where = "connect" => r.net \in Nets,
         request' = [request EXCEPT ![t] = r],
         netPc' = [netPc EXCEPT ![t] = where]
  PROVE  request' \in [Commands -> R!Requests] /\ \A u \in Commands : R!Careful(u)'
<1>1. /\ netPc = [u \in R!Tasks |-> netPc[u]] /\ request \in [Commands -> R!Requests]
      /\ t \in R!Tasks
  BY DEF R!IInv, R!TypeOK, R!Tasks
<1>2. ASSUME NEW u \in Commands PROVE R!Careful(u)'
  <2>1. CASE u = t
    BY <1>1, <2>1 DEF R!Careful
  <2>2. CASE u # t
    <3>1. u \in R!Tasks /\ R!Careful(u)
      BY DEF R!IInv, R!Tasks
    <3> QED
      BY <1>1, <2>2, <3>1 DEF R!Careful
  <2> QED
    BY <2>1, <2>2
<1> QED
  BY <1>1, <1>2

\* A step that sends nothing and leads nowhere that does.
LEMMA GoingIsCareful ==
  ASSUME R!IInv, NEW t \in R!Tasks,
         NEW where \in {"idle", "answered", "status", "saved", "scan", "disconnect"},
         netPc' = [netPc EXCEPT ![t] = where], request' = request
  PROVE  \A u \in Commands : R!Careful(u)'
BY DEF R!IInv, R!TypeOK, R!Careful, R!Tasks

LEMMA NetworksCommand ==
  ASSUME R!IInv, NEW t \in Commands, R!Command(t)
  PROVE  R!IInv'
<1> USE DEF R!Goto
<1>0. R!TypeOK /\ t \in R!Tasks
  BY DEF R!IInv, R!Tasks
<1>1. CASE R!Select(t)
  <2>1. PICK n \in R!Listed :
          /\ selected' = n
          /\ R!Send(t, R!Chosen(n)) \/ UNCHANGED <<netPc, request>>
    BY <1>1 DEF R!Select
  <2>2. /\ n \in Nets /\ R!Chosen(n) \in R!Requests /\ R!Chosen(n).net = n
        /\ R!Chosen(n).remember => n \in R!Chosen(n).seen
    BY <1>0, ChosenIsCareful
  <2>3. CASE R!Send(t, R!Chosen(n))
    <3>1. request' \in [Commands -> R!Requests] /\ \A u \in Commands : R!Careful(u)'
      BY <2>2, <2>3, SendingIsCareful DEF R!Send
    <3>2. R!TypeOK'
      BY <1>0, <1>1, <2>1, <2>2, <2>3, <3>1 DEF R!Select, R!Send, R!TypeOK, R!router
    <3> QED
      BY <3>1, <3>2 DEF R!IInv
  <2>4. CASE UNCHANGED <<netPc, request>>
    <3>1. R!TypeOK'
      BY <1>0, <1>1, <2>1, <2>2, <2>4 DEF R!Select, R!TypeOK, R!router
    <3> QED
      BY <2>4, <3>1 DEF R!IInv, R!Careful
  <2> QED
    BY <2>1, <2>3, <2>4
<1>2. CASE R!Connect(t)
  <2>1. PICK n \in Nets, key \in BOOLEAN, remember \in BOOLEAN :
          R!Send(t, [R!NoRequest EXCEPT !.net = n, !.key = key,
                                        !.remember = remember])
    BY <1>2 DEF R!Connect
  <2> DEFINE r == [R!NoRequest EXCEPT !.net = n, !.key = key,
                                      !.remember = remember]
  <2>2. r \in R!Requests /\ r.net = n /\ ~r.listed
    BY <1>0 DEF R!NoRequest, R!Requests, R!TypeOK
  <2>3. R!Send(t, r)
    BY <2>1
  <2> HIDE DEF r
  <2>4. request' \in [Commands -> R!Requests] /\ \A u \in Commands : R!Careful(u)'
    BY <2>2, <2>3, SendingIsCareful DEF R!Send
  <2>5. R!TypeOK'
    BY <1>0, <1>2, <2>3, <2>4 DEF R!Connect, R!Send, R!TypeOK, R!router, R!hub
  <2> QED
    BY <2>4, <2>5 DEF R!IInv
<1>3. CASE R!RemoveSaved(t)
  <2>1. PICK n \in Nets : request' = [request EXCEPT ![t] = [R!NoRequest EXCEPT !.net = n]]
    BY <1>3 DEF R!RemoveSaved
  <2> DEFINE r == [R!NoRequest EXCEPT !.net = n]
  <2>2. r \in R!Requests /\ ~r.listed /\ request' = [request EXCEPT ![t] = r]
    BY <2>1, NamesAreRequests
  <2> HIDE DEF r
  <2>3. request' \in [Commands -> R!Requests] /\ \A u \in Commands : R!Careful(u)'
    BY <1>3, <2>2, SendingIsCareful DEF R!RemoveSaved
  <2>4. R!TypeOK'
    BY <1>0, <1>3, <2>3 DEF R!RemoveSaved, R!TypeOK, R!router, R!hub
  <2> QED
    BY <2>3, <2>4 DEF R!IInv
<1>4. CASE R!Disconnect(t) \/ R!Scan(t)
  <2>1. R!TypeOK'
    BY <1>0, <1>4 DEF R!Disconnect, R!Scan, R!TypeOK, R!router, R!hub
  <2> QED
    BY <1>0, <1>4, <2>1, GoingIsCareful DEF R!Disconnect, R!Scan, R!IInv
<1> QED
  BY <1>1, <1>2, <1>3, <1>4 DEF R!Command

LEMMA NetworksExecute ==
  ASSUME R!IInv, NEW t \in Commands, R!Execute(t)
  PROVE  R!IInv'
<1> USE DEF R!Goto
<1>0. R!TypeOK /\ t \in R!Tasks /\ request[t] \in R!Requests
  BY DEF R!IInv, R!TypeOK, R!Tasks
<1>1. CASE R!Disconnected(t)
  <2>1. R!TypeOK'
    BY <1>0, <1>1 DEF R!Disconnected, R!TypeOK, R!hub
  <2> QED
    BY <1>0, <1>1, <2>1 DEF R!Disconnected, R!IInv, R!Careful, R!TypeOK
<1>2. CASE R!Connected(t) \/ R!Removed(t) \/ R!Lose(t)
  <2>1. PICK where \in {"status", "saved", "idle"} :
          /\ request' = [request EXCEPT ![t] = R!NoRequest]
          /\ netPc' = [netPc EXCEPT ![t] = where]
    BY <1>2 DEF R!Connected, R!Removed, R!Lose
  <2>2. request' \in [Commands -> R!Requests] /\ \A u \in Commands : R!Careful(u)'
    BY <2>1, NamesAreRequests, SendingIsCareful
  <2>3. joined' \in Nets \cup {NoNet} /\ saved' \subseteq Nets
    <3>1. request[t].net \in Nets \cup {NoNet}
      BY <1>0 DEF R!Requests
    <3>2. netPc[t] = "connect" => request[t].net \in Nets
      BY DEF R!IInv, R!Careful
    <3>3. CASE R!Connected(t)
      BY <1>0, <3>1, <3>2, <3>3 DEF R!Connected, R!Joins, R!TypeOK
    <3>4. CASE R!Removed(t) \/ R!Lose(t)
      BY <1>0, <3>4 DEF R!Removed, R!Lose, R!TypeOK, R!router
    <3> QED
      BY <1>2, <3>3, <3>4
  <2>4. UNCHANGED <<around, scanned, known, status, selected, netReply>>
    BY <1>2 DEF R!Connected, R!Removed, R!Lose, R!hub, R!router
  <2>5. R!TypeOK'
    BY <1>0, <2>1, <2>2, <2>3, <2>4 DEF R!TypeOK
  <2> QED
    BY <2>2, <2>5 DEF R!IInv
<1> QED
  BY <1>1, <1>2 DEF R!Execute

LEMMA NetworksFetch ==
  ASSUME R!IInv, NEW t \in R!Tasks, R!Fetch(t)
  PROVE  R!IInv'
<1> USE DEF R!Goto
<1>0. R!TypeOK
  BY DEF R!IInv
<1>1. CASE R!StatusAnswered(t) \/ R!SavedAnswered(t) \/ R!ScanAnswered(t)
  <2>1. PICK r \in R!Replies :
          /\ netReply' = [netReply EXCEPT ![t] = r]
          /\ netPc' = [netPc EXCEPT ![t] = "answered"]
          /\ UNCHANGED <<around, saved, joined, scanned, known, status, selected, request>>
    <3>1. /\ [of |-> "status", what |-> joined] \in R!Replies
          /\ [of |-> "saved", what |-> saved] \in R!Replies
          /\ [of |-> "scan", what |-> around] \in R!Replies
      BY <1>0 DEF R!Replies, R!TypeOK
    <3> QED
      BY <1>1, <3>1 DEF R!StatusAnswered, R!SavedAnswered, R!ScanAnswered, R!Answer,
                        R!hub, R!router
  <2>2. R!TypeOK'
    BY <1>0, <2>1 DEF R!TypeOK
  <2> QED
    BY <2>1, <2>2, GoingIsCareful DEF R!IInv
<1>2. CASE R!FetchFailed(t)
  <2>1. R!TypeOK'
    BY <1>0, <1>2 DEF R!FetchFailed, R!TypeOK, R!router
  <2> QED
    BY <1>2, <2>1, GoingIsCareful DEF R!IInv, R!FetchFailed
<1>3. CASE R!StoreStatus(t) \/ R!StoreSaved(t) \/ R!StoreScan(t)
  <2>1. netReply[t] \in R!Replies \cup {R!NoReply}
    BY <1>0 DEF R!TypeOK
  <2>2. /\ netReply[t].of = "status" => netReply[t].what \in Nets \cup {NoNet}
        /\ netReply[t].of = "saved" => netReply[t].what \subseteq Nets
        /\ netReply[t].of = "scan" => netReply[t].what \in R!Looks
    BY <2>1 DEF R!Replies, R!NoReply
  <2>3. R!TypeOK'
    BY <1>0, <1>3, <2>2
    DEF R!StoreStatus, R!StoreSaved, R!StoreScan, R!Stored, R!TypeOK, R!router
  <2> QED
    BY <1>3, <2>3, GoingIsCareful
    DEF R!IInv, R!StoreStatus, R!StoreSaved, R!StoreScan, R!Stored
<1> QED
  BY <1>1, <1>2, <1>3 DEF R!Fetch

LEMMA NetworksStep == R!IInv /\ R!Next => R!IInv'
<1> SUFFICES ASSUME R!IInv, R!Next PROVE R!IInv'
  OBVIOUS
<1>0. R!TypeOK
  BY DEF R!IInv
<1>1. CASE R!Elsewhere
  <2>1. around' \in R!Looks
    BY <1>0, <1>1 DEF R!Elsewhere, R!Looks, R!TypeOK
  <2>2. R!TypeOK'
    BY <1>0, <1>1, <2>1 DEF R!Elsewhere, R!TypeOK, R!hub
  <2> QED
    BY <1>1, <2>2 DEF R!Elsewhere, R!IInv, R!Careful
<1>2. CASE R!Deselect
  BY <1>0, <1>2 DEF R!Deselect, R!IInv, R!TypeOK, R!Careful, R!router
<1>3. ASSUME NEW p \in R!Polls, R!BeginPoll(p)
      PROVE  R!IInv'
  <2>1. p \in R!Tasks /\ p \in {"status", "saved"}
    BY DEF R!Polls, R!Tasks
  <2>2. R!TypeOK'
    BY <1>0, <1>3, <2>1 DEF R!BeginPoll, R!Goto, R!TypeOK, R!router, R!hub
  <2> QED
    BY <1>3, <2>1, <2>2, GoingIsCareful DEF R!BeginPoll, R!Goto, R!IInv
<1> QED
  BY <1>1, <1>2, <1>3, NetworksCommand, NetworksExecute, NetworksFetch DEF R!Next

LEMMA NetworksStutter == R!IInv /\ UNCHANGED networks => R!IInv'
BY DEF networks, R!IInv, R!TypeOK, R!Careful

-----------------------------------------------------------------------------
(* The modem's traffic and its sensors.                                    *)

\* No limit is known of a SIM that is not, and none that is known is cleaned up.
LEMMA SensorSets ==
  /\ C!Unknown \in C!Counts /\ C!Limited(C!Unknown) = {}
  /\ C!Orphans(C!Unknown) = {}
  /\ \A d : /\ C!Limited(d) \subseteq C!Ids /\ C!Sensors(d) \subseteq C!Ids
            /\ C!Limited(d) \subseteq C!Sensors(d)
            /\ C!Limited(d) \cap C!Orphans(d) = {}
<1>1. \A id \in C!Ids : id[1] \in Sims
  BY DEF C!Ids
<1>2. C!Limited(C!Unknown) = {} /\ C!Orphans(C!Unknown) = {}
  BY <1>1 DEF C!Limited, C!Orphans, C!Unknown
<1>3. C!Unknown \in C!Counts
  BY DEF C!Unknown, C!Counts
<1> QED
  BY <1>2, <1>3 DEF C!Limited, C!Sensors, C!Orphans

\* What is reported is a record or nothing.
LEMMA ReportsAreCounts ==
  /\ C!Reports \subseteq C!Records \cup {NoSim}
  /\ [Sims -> C!Reports] \subseteq C!Counts
BY DEF C!Reports, C!Counts

LEMMA ModemInit == MobileAssumption /\ C!Init => C!IInv
<1> SUFFICES ASSUME MobileAssumption, C!Init PROVE C!IInv
  OBVIOUS
<1>1. 0 \in 0..MaxChanges
  BY DEF MobileAssumption
<1>2. sims \in C!Counts
  BY ReportsAreCounts DEF C!Init
<1>3. C!Unknown \in C!Counts
  BY SensorSets
<1>4. perSlot \in BOOLEAN /\ plugged \in BOOLEAN /\ modems \in BOOLEAN /\ bus \in BOOLEAN
  <2>1. perSlot \in BOOLEAN /\ plugged \in BOOLEAN
    BY DEF C!Init
  <2>2. modems = FALSE /\ bus = FALSE
    BY DEF C!Init
  <2>3. modems \in BOOLEAN /\ bus \in BOOLEAN
    BY ONLY <2>2
  <2> QED
    BY <2>1, <2>3
<1>5. seen \in [C!Tasks -> BOOLEAN]
  BY DEF C!Init
<1>6. modemPc \in [C!Tasks -> {"idle", "info", "status", "sim_config", "traffic",
                              "answered", "setup"}]
  BY DEF C!Init
<1>7. modemReply \in [C!Tasks -> C!Counts]
  BY <1>3 DEF C!Init
<1>8. C!TypeOK
  <2>1. registry = {} /\ left = {} /\ adding = {} /\ traffic = C!Unknown /\ rule = C!Unknown
        /\ info = "never" /\ up = "new" /\ changes = 0
    BY DEF C!Init
  <2> QED
    BY <1>1, <1>2, <1>3, <1>4, <1>5, <1>6, <1>7, <2>1 DEF C!TypeOK
<1> QED
  BY <1>8, SensorSets DEF C!Init, C!IInv, C!LimitsHaveSensors

\* A new hub knows nothing, and has nothing cleaned up.
LEMMA NewHub ==
  ASSUME C!IInv, C!SetUpAnew, C!Count,
         UNCHANGED <<perSlot, plugged, sims, modemReply>>,
         modemPc' \in [C!Tasks -> {"idle", "info", "status", "sim_config", "traffic",
                                   "answered", "setup"}],
         seen' \in [C!Tasks -> BOOLEAN]
  PROVE  C!IInv'
<1>1. changes' \in 0..MaxChanges
  BY MobileAssumption DEF C!Count, C!IInv, C!TypeOK, MobileAssumption
<1>2. C!TypeOK'
  BY <1>1, SensorSets DEF C!IInv, C!TypeOK, C!SetUpAnew
<1> QED
  BY <1>2, SensorSets DEF C!SetUpAnew, C!IInv, C!LimitsHaveSensors

\* A step that leaves the registry, what is on its way there and the rule alone,
\* and the traffic too or empties it, keeps the sensors.
LEMMA TrafficKeeps ==
  ASSUME C!IInv, C!TypeOK', UNCHANGED <<rule, registry, left, adding, up>>,
         traffic' \in {traffic, C!Unknown}
  PROVE  C!IInv'
BY SensorSets DEF C!IInv, C!LimitsHaveSensors, C!Live

LEMMA ModemStatus ==
  ASSUME C!IInv, NEW t \in C!Tasks,
         C!Info(t) \/ C!Status(t) \/ C!SimConfig(t)
  PROVE  C!IInv'
<1> USE DEF C!Goto, C!End, C!ha, C!router
<1>0. C!TypeOK
  BY DEF C!IInv
<1>1. CASE C!Info(t)
  <2>1. C!TypeOK'
    BY <1>0, <1>1 DEF C!Info, C!TypeOK
  <2> QED
    BY <1>1, <2>1, TrafficKeeps DEF C!Info
<1>2. CASE C!Status(t)
  <2>1. modems' \in BOOLEAN
    BY <1>0, <1>2, Zenon DEF C!Status, C!TypeOK
  <2>2. bus' \in BOOLEAN /\ traffic' \in {traffic, C!Unknown}
    BY <1>0, <1>2, <2>1 DEF C!Status, C!ChooseModem, C!TypeOK
  <2>3. modemPc' \in [C!Tasks -> {"idle", "info", "status", "sim_config", "traffic",
                                  "answered", "setup"}]
    BY <1>0, <1>2 DEF C!Status, C!ChooseModem, C!TypeOK
  <2>4. C!TypeOK'
    BY <1>0, <1>2, <2>1, <2>2, <2>3, SensorSets DEF C!Status, C!TypeOK
  <2> QED
    BY <1>2, <2>2, <2>4, TrafficKeeps DEF C!Status
<1>3. CASE C!SimConfig(t)
  <2>1. traffic' \in {traffic, C!Unknown}
    BY <1>3 DEF C!SimConfig, C!ChooseModem
  <2>2. C!TypeOK'
    BY <1>0, <1>3, <2>1, SensorSets DEF C!SimConfig, C!ChooseModem, C!TypeOK
  <2> QED
    BY <1>3, <2>1, <2>2, TrafficKeeps DEF C!SimConfig
<1> QED
  BY <1>1, <1>2, <1>3

LEMMA ModemTraffic ==
  ASSUME C!IInv, NEW t \in C!Tasks,
         C!Raised(t) \/ C!TrafficAnswered(t) \/ C!TrafficFailed(t)
  PROVE  C!IInv'
<1> USE DEF C!Goto, C!End, C!ha, C!hub, C!router
<1>0. C!TypeOK
  BY DEF C!IInv
<1>1. CASE C!Raised(t)
  <2>1. /\ modemPc' \in [C!Tasks -> {"idle", "info", "status", "sim_config", "traffic",
                                     "answered", "setup"}]
        /\ seen' \in [C!Tasks -> BOOLEAN]
    BY <1>0, <1>1 DEF C!Raised, C!TypeOK
  <2>2. CASE up = "up"
    <3>1. C!TypeOK'
      BY <1>0, <1>1, <2>1, <2>2 DEF C!Raised, C!TypeOK
    <3> QED
      BY <1>1, <2>2, <3>1, TrafficKeeps DEF C!Raised
  <2>3. CASE up # "up"
    BY <1>1, <2>1, <2>3, NewHub DEF C!Raised
  <2> QED
    BY <2>2, <2>3
<1>2. CASE C!TrafficAnswered(t)
  <2>1. C!TypeOK'
    BY <1>0, <1>2 DEF C!TrafficAnswered, C!TypeOK
  <2> QED
    BY <1>2, <2>1, TrafficKeeps DEF C!TrafficAnswered
<1>3. CASE C!TrafficFailed(t)
  <2>1. C!TypeOK'
    BY <1>0, <1>3, SensorSets DEF C!TrafficFailed, C!TypeOK
  <2> QED
    BY <1>3, <2>1, TrafficKeeps DEF C!TrafficFailed
<1> QED
  BY <1>1, <1>2, <1>3

\* The sensors of an answer survive the clean-up by that answer or are on their
\* way after it.
LEMMA ModemApply ==
  ASSUME C!IInv, NEW t \in C!Tasks, C!Apply(t)
  PROVE  C!IInv'
<1> USE DEF C!Goto, C!End, C!router, C!Apply
<1>0. C!TypeOK /\ modemReply[t] \in C!Counts
  BY DEF C!IInv, C!TypeOK
<1>1. traffic' = modemReply[t] /\ rule' = modemReply[t]
  OBVIOUS
<1>2. registry' \subseteq C!Ids /\ left' \subseteq registry' /\ adding' \subseteq C!Ids
  BY <1>0, SensorSets DEF C!CleanUp, C!TypeOK
<1>3. C!TypeOK'
  BY <1>0, <1>1, <1>2, SensorSets DEF C!TypeOK
<1>4. (left \cap C!Orphans(rule))' = {}
  BY DEF C!CleanUp
<1>5. C!LimitsHaveSensors'
  BY <1>1, <1>4 DEF C!LimitsHaveSensors, C!Live
<1> QED
  BY <1>1, <1>3, <1>4, <1>5 DEF C!IInv

\* What the platform is set up with, and what the clean-up leaves.
LEMMA ModemPlatform ==
  ASSUME C!IInv,
         C!Refresh \/ C!Setup \/ C!Add \/ C!PeriodicCleanUp
  PROVE  C!IInv'
<1> USE DEF C!Goto, C!router, C!hub, C!CleanUp
<1>0. C!TypeOK
  BY DEF C!IInv
<1>1. CASE C!Refresh
  <2>1. C!TypeOK'
    BY <1>0, <1>1 DEF C!Refresh, C!TypeOK
  <2> QED
    BY <1>1, <2>1 DEF C!Refresh, C!IInv, C!LimitsHaveSensors, C!Live
<1>2. CASE C!Setup
  <2>1. C!TypeOK'
    BY <1>0, <1>2, SensorSets DEF C!Setup, C!TypeOK
  <2> QED
    BY <1>2, <2>1, SensorSets DEF C!Setup, C!IInv, C!LimitsHaveSensors, C!Live
<1>3. CASE C!Add
  <2>1. C!TypeOK'
    BY <1>0, <1>3 DEF C!Add, C!TypeOK
  <2> QED
    BY <1>3, <2>1 DEF C!Add, C!IInv, C!LimitsHaveSensors, C!Live
<1>4. CASE C!PeriodicCleanUp
  <2>1. C!TypeOK'
    BY <1>0, <1>4 DEF C!PeriodicCleanUp, C!TypeOK
  <2>2. C!Limited(traffic) \cap C!Orphans(rule) = {}
    BY SensorSets DEF C!IInv
  <2> QED
    BY <1>4, <2>1, <2>2 DEF C!PeriodicCleanUp, C!IInv, C!LimitsHaveSensors, C!Live
<1> QED
  BY <1>1, <1>2, <1>3, <1>4

LEMMA ModemStep == C!IInv /\ C!Next => C!IInv'
<1> SUFFICES ASSUME C!IInv, C!Next PROVE C!IInv'
  OBVIOUS
<1> USE DEF C!Goto, C!ha, C!hub, C!router
<1>0. C!TypeOK
  BY DEF C!IInv
<1>1. CASE C!Elsewhere
  <2>1. changes' \in 0..MaxChanges
    BY <1>0, <1>1, MobileAssumption DEF C!Elsewhere, C!Count, C!TypeOK, MobileAssumption
  <2>2. sims' \in C!Counts
    BY <1>0, <1>1, ReportsAreCounts DEF C!Elsewhere, C!TypeOK, C!Counts
  <2>3. C!TypeOK'
    BY <1>0, <1>1, <2>1, <2>2 DEF C!Elsewhere, C!TypeOK
  <2> QED
    BY <1>1, <2>3, TrafficKeeps DEF C!Elsewhere
<1>2. CASE C!Reload
  BY <1>0, <1>2, NewHub DEF C!Reload, C!TypeOK
<1>3. ASSUME NEW t \in C!Tasks, C!Begin(t)
      PROVE  C!IInv'
  <2> DEFINE b == (info = "modem")
  <2>1. b \in BOOLEAN /\ seen' = [seen EXCEPT ![t] = b]
    BY <1>3 DEF C!Begin
  <2> HIDE DEF b
  <2>2. C!TypeOK'
    BY <1>0, <1>3, <2>1 DEF C!Begin, C!TypeOK
  <2> QED
    BY <1>3, <2>2, TrafficKeeps DEF C!Begin
<1> QED
  BY <1>1, <1>2, <1>3, ModemStatus, ModemTraffic, ModemApply, ModemPlatform
  DEF C!Next, C!Fetch

LEMMA ModemStutter == C!IInv /\ UNCHANGED <<perSlot, modem>> => C!IInv'
BY DEF modem, C!IInv, C!TypeOK, C!LimitsHaveSensors, C!Live

LEMMA MessagesKeepPerSlot == S!Next => perSlot' = perSlot
BY DEF S!Next, S!Elsewhere, S!PollModem, S!BeginPoll, S!Command, S!Call, S!Look,
       S!SendPart, S!SendFailed, S!Sent, S!RemoveOne, S!RemoveAll, S!Abort,
       S!Fetch, S!Listed, S!ListFailed, S!Apply

-----------------------------------------------------------------------------
(* The countdown.  Its aim is the number of the day of the next reset:     *)
(* First and Second are the two it chooses from, and a step of the         *)
(* calendar moves the aim (SamePeriod) or hands it on (NextPeriod).        *)

\* Max, Min and their composition, for numbers.
LEMMA MaxOfTwo ==
  ASSUME NEW a \in Int, NEW b \in Int
  PROVE  D!Max({a, b}) = IF a >= b THEN a ELSE b
<1> DEFINE m == IF a >= b THEN a ELSE b
<1>1. m \in {a, b} /\ \A y \in {a, b} : m >= y
  OBVIOUS
<1>2. \A x \in {a, b} : (\A y \in {a, b} : x >= y) => x = m
  OBVIOUS
<1> QED
  BY <1>1, <1>2 DEF D!Max

LEMMA MinOfTwo ==
  ASSUME NEW a \in Int, NEW b \in Int
  PROVE  D!Min({a, b}) = IF a <= b THEN a ELSE b
<1> DEFINE m == IF a <= b THEN a ELSE b
<1>1. m \in {a, b} /\ \A y \in {a, b} : m <= y
  OBVIOUS
<1>2. \A x \in {a, b} : (\A y \in {a, b} : x <= y) => x = m
  OBVIOUS
<1> QED
  BY <1>1, <1>2 DEF D!Min

LEMMA BetweenIsBetween ==
  ASSUME NEW low \in Int, NEW high \in Int, NEW n \in Int, low <= high
  PROVE  D!Between(low, high, n) =
           IF n < low THEN low ELSE IF n > high THEN high ELSE n
<1>1. D!Min({high, n}) = IF high <= n THEN high ELSE n
  BY MinOfTwo
<1>2. D!Max({low, D!Min({high, n})})
        = IF low >= D!Min({high, n}) THEN low ELSE D!Min({high, n})
  BY <1>1, MaxOfTwo
<1> QED
  BY <1>1, <1>2 DEF D!Between

\* Between 28 and 31 days, 31 in December.
LEMMA LengthOfMonth ==
  ASSUME NEW y \in Int, NEW m \in 1..12
  PROVE  /\ D!MonthDays(y, m) \in 28..31
         /\ m \in {1, 3, 5, 7, 8, 10, 12} => D!MonthDays(y, m) = 31
         /\ m \in {4, 6, 9, 11} => D!MonthDays(y, m) = 30
         /\ m = 2 => D!MonthDays(y, m) = 28 + (IF y % 4 = 0 THEN 1 ELSE 0)
BY DEF D!MonthDays, D!Leap

\* A month ends where the next one starts, December where January does.
LEMMA MonthsFollow ==
  ASSUME NEW y \in Int
  PROVE  /\ \A m \in 1..12 : D!MonthStart(y, m) \in Int
         /\ \A m \in 1..11 :
              D!MonthStart(y, m + 1) = D!MonthStart(y, m) + D!MonthDays(y, m)
         /\ D!MonthStart(y + 1, 1) = D!MonthStart(y, 12) + 31
<1>1. ASSUME NEW m \in 1..12
      PROVE  D!Before(y, m) =
        (IF m = 1 THEN 0 ELSE IF m = 2 THEN 31 ELSE IF m = 3 THEN 59
        ELSE IF m = 4 THEN 90 ELSE IF m = 5 THEN 120 ELSE IF m = 6 THEN 151
        ELSE IF m = 7 THEN 181 ELSE IF m = 8 THEN 212 ELSE IF m = 9 THEN 243
        ELSE IF m = 10 THEN 273 ELSE IF m = 11 THEN 304 ELSE 334)
          + (IF m > 2 /\ D!Leap(y) THEN 1 ELSE 0)
  BY DEF D!Before
<1>2. ASSUME NEW m \in 1..11
      PROVE  D!Before(y, m + 1) = D!Before(y, m) + D!MonthDays(y, m)
  BY <1>1, LengthOfMonth DEF D!Leap
<1>3. D!Before(y, 12) + 31 = 365 + (IF y % 4 = 0 THEN 1 ELSE 0) /\ D!Before(y + 1, 1) = 0
  <2>1. D!Before(y + 1, 1) = 0
    BY DEF D!Before
  <2> QED BY <1>1, <2>1 DEF D!Leap
<1>4. ((y + 1 - 1901) \div 4) = ((y - 1901) \div 4) + (IF y % 4 = 0 THEN 1 ELSE 0)
  OBVIOUS
<1>5. \A m \in 1..12 : D!Before(y, m) \in Int
  BY <1>1
<1>6. ASSUME NEW m \in 1..11
      PROVE  D!MonthStart(y, m + 1) = D!MonthStart(y, m) + D!MonthDays(y, m)
  <2>1. m \in 1..12 /\ m + 1 \in 1..12
    OBVIOUS
  <2>2. D!Before(y, m) \in Int /\ D!MonthDays(y, m) \in Int
    BY <2>1, <1>5, LengthOfMonth
  <2> QED
    BY <2>2, <1>2 DEF D!MonthStart
<1>7. D!MonthStart(y + 1, 1) = D!MonthStart(y, 12) + 31
  <2>1. D!Before(y, 12) \in Int
    BY <1>5
  <2> QED
    BY <2>1, <1>3, <1>4 DEF D!MonthStart
<1>8. \A m \in 1..12 : D!MonthStart(y, m) \in Int
  BY <1>5 DEF D!MonthStart
<1> QED
  BY <1>6, <1>7, <1>8

\* The next date is a date, and its number is the next one.
LEMMA TomorrowIsNext ==
  ASSUME NEW d \in [year : Int, month : 1..12, day : 1..31],
         d.day <= D!MonthDays(d.year, d.month)
  PROVE  LET n == D!NextDay(d)
         IN  /\ D!DayNumber(d) \in Int /\ D!DayNumber(n) = D!DayNumber(d) + 1
             /\ n \in [year : Int, month : 1..12, day : 1..31]
             /\ n.day <= D!MonthDays(n.year, n.month)
             /\ \/ n.year = d.year /\ n.month = d.month /\ n.day = d.day + 1
                \/ /\ n.year = d.year /\ n.month = d.month + 1 /\ n.day = 1
                   /\ d.day = D!MonthDays(d.year, d.month)
                \/ /\ n.year = d.year + 1 /\ n.month = 1 /\ n.day = 1
                   /\ d.month = 12 /\ d.day = 31
<1> DEFINE n == D!NextDay(d)
<1>1. d.year \in Int /\ d.month \in 1..12 /\ d.day \in 1..31
  OBVIOUS
<1>2. D!MonthDays(d.year, d.month) \in 28..31
      /\ (d.month = 12 => D!MonthDays(d.year, d.month) = 31)
  BY <1>1, LengthOfMonth
<1>3. \A m \in 1..12 : D!MonthStart(d.year, m) \in Int
  BY <1>1, MonthsFollow
<1>4. CASE d.day < D!MonthDays(d.year, d.month)
  <2>1. n = [d EXCEPT !.day = d.day + 1]
    BY <1>4 DEF D!NextDay
  <2>2. n.year = d.year /\ n.month = d.month /\ n.day = d.day + 1
        /\ n \in [year : Int, month : 1..12, day : 1..31]
    BY <2>1, <1>1, <1>2, <1>4
  <2> QED
    BY <2>2, <1>1, <1>2, <1>3, <1>4 DEF D!DayNumber
<1>5. CASE d.day = D!MonthDays(d.year, d.month) /\ d.month < 12
  <2>1. n = [d EXCEPT !.day = 1, !.month = d.month + 1]
    BY <1>2, <1>5 DEF D!NextDay
  <2>2. n.year = d.year /\ n.month = d.month + 1 /\ n.day = 1
        /\ n \in [year : Int, month : 1..12, day : 1..31]
    <3> DEFINE k == d.month + 1
    <3>1. k \in 1..12
      BY <1>1, <1>5
    <3> DEFINE e == [d EXCEPT !.day = 1]
    <3>2. n = [e EXCEPT !.month = k]
      BY <2>1
    <3>3. e.year = d.year /\ e.day = 1
          /\ e \in [year : Int, month : 1..12, day : 1..31]
      BY <1>1
    <3> HIDE DEF k, n, e
    <3>4. n.year = d.year /\ n.month = k /\ n.day = 1
          /\ n \in [year : Int, month : 1..12, day : 1..31]
      BY <3>1, <3>2, <3>3
    <3> QED
      BY <3>4 DEF k
  <2>3. D!MonthDays(n.year, n.month) \in 28..31
    BY <2>2, LengthOfMonth
  <2>4. D!MonthStart(d.year, d.month + 1)
          = D!MonthStart(d.year, d.month) + D!MonthDays(d.year, d.month)
    <3>1. d.month \in 1..11
      BY <1>1, <1>5
    <3> QED
      BY <1>1, <3>1, MonthsFollow
  <2> QED
    BY <2>2, <2>3, <2>4, <1>1, <1>2, <1>3, <1>5 DEF D!DayNumber
<1>6. CASE d.day = D!MonthDays(d.year, d.month) /\ d.month = 12
  <2>1. n = [year |-> d.year + 1, month |-> 1, day |-> 1]
    BY <1>2, <1>6 DEF D!NextDay
  <2>2. n.year = d.year + 1 /\ n.month = 1 /\ n.day = 1
        /\ n \in [year : Int, month : 1..12, day : 1..31]
    BY <2>1, <1>1
  <2>3. D!MonthDays(n.year, n.month) \in 28..31
    BY <2>2, LengthOfMonth
  <2>4. D!MonthStart(d.year + 1, 1) = D!MonthStart(d.year, 12) + 31
    BY <1>1, MonthsFollow
  <2> QED
    BY <2>2, <2>3, <2>4, <1>1, <1>2, <1>3, <1>6 DEF D!DayNumber
<1> QED
  BY <1>1, <1>2, <1>4, <1>5, <1>6

\* Months lie one behind the other.
LEMMA MonthsInOrder ==
  ASSUME NEW y \in Int, NEW m \in 1..12, NEW k \in 1..12, m < k
  PROVE  D!MonthStart(y, m) + D!MonthDays(y, m) <= D!MonthStart(y, k)
<1> DEFINE s(i) == D!MonthStart(y, i)
<1>1. \A i \in 1..12 : s(i) \in Int /\ D!MonthDays(y, i) \in 28..31
  BY MonthsFollow, LengthOfMonth
<1>2. \A i \in 1..11 : s(i + 1) = s(i) + D!MonthDays(y, i)
  BY MonthsFollow
<1> HIDE DEF s
<1>3. /\ s(2) = s(1) + D!MonthDays(y, 1) /\ s(3) = s(2) + D!MonthDays(y, 2)
      /\ s(4) = s(3) + D!MonthDays(y, 3) /\ s(5) = s(4) + D!MonthDays(y, 4)
      /\ s(6) = s(5) + D!MonthDays(y, 5) /\ s(7) = s(6) + D!MonthDays(y, 6)
      /\ s(8) = s(7) + D!MonthDays(y, 7) /\ s(9) = s(8) + D!MonthDays(y, 8)
      /\ s(10) = s(9) + D!MonthDays(y, 9) /\ s(11) = s(10) + D!MonthDays(y, 10)
      /\ s(12) = s(11) + D!MonthDays(y, 11)
  <2>1. \A i \in {1, 2, 3, 4, 5, 6, 7, 8, 9, 10, 11} : s(i + 1) = s(i) + D!MonthDays(y, i)
    BY <1>2
  <2> QED
    BY <2>1
<1>4. s(m) + D!MonthDays(y, m) <= s(k)
  BY <1>1, <1>3
<1> QED
  BY <1>4 DEF s


Limited == [period : D!Periods, day : 1..28, hour : 0..23, month : 1..12]

\* The reset on day k at hour h lies before noon of day today.
Passed(k, h, today) == k < today \/ (k = today /\ h <= Noon)

\* What is later than noon of today, in days.
LEMMA LaterDay ==
  ASSUME NEW k \in Int, NEW j \in Int, NEW today \in Int, NEW h \in 0..23
  PROVE  D!Later(24 * k + h, 24 * j + h, 24 * today + Noon)
           = 24 * (IF Passed(k, h, today) THEN j ELSE k) + h
BY MobileAssumption DEF MobileAssumption, D!Later, Passed

\* The whole days to a reset that has not passed.
LEMMA WholeDays ==
  ASSUME NEW k \in Int, NEW today \in Int, NEW h \in 0..23
  PROVE  (24 * k + h - (24 * today + Noon)) \div 24
           = k - today - (IF h < Noon THEN 1 ELSE 0)
BY MobileAssumption DEF MobileAssumption

\* The days to the weekday of the reset.
Weekday(l) == IF l.day > 7 THEN 7 ELSE l.day

Ahead(d, l) == (Weekday(l) - D!IsoWeekday(d)) % 7

\* The day of the reset that is looked at first, and of the one after it.
First(d, l) ==
  IF l.period = "day" THEN D!DayNumber(d)
  ELSE IF l.period = "week"
    THEN D!DayNumber(d) + Ahead(d, l)
  ELSE IF l.period = "month" THEN D!MonthStart(d.year, d.month) + l.day
  ELSE IF l.period = "season"
    THEN D!MonthStart(d.year, 3 * ((d.month - 1) \div 3)
                              + (IF l.month > 3 THEN 3 ELSE l.month)) + l.day
  ELSE D!MonthStart(d.year, l.month) + l.day

Second(d, l) ==
  IF l.period = "day" THEN D!DayNumber(d) + 1
  ELSE IF l.period = "week" THEN First(d, l) + 7
  ELSE IF l.period = "month"
    THEN (IF d.month = 12 THEN D!MonthStart(d.year + 1, 1)
                          ELSE D!MonthStart(d.year, d.month + 1)) + l.day
  ELSE IF l.period = "season" THEN First(d, l) + 92
  ELSE D!MonthStart(d.year + 1, l.month) + l.day

Aim(d, l) ==
  IF Passed(First(d, l), l.hour, D!DayNumber(d)) THEN Second(d, l) ELSE First(d, l)

\* An anchor at day and hour of the limit.
LEMMA AnchorDay ==
  ASSUME NEW y \in Int, NEW m \in 1..12, NEW l \in Limited
  PROVE  /\ D!Anchor(y, m, l) = 24 * (D!MonthStart(y, m) + l.day) + l.hour
         /\ D!MonthStart(y, m) + l.day \in Int
<1>1. l.day \in 1..28 /\ l.hour \in 0..23
  BY DEF Limited
<1>2. D!Between(1, 28, l.day) = l.day /\ D!Between(0, 23, l.hour) = l.hour
  BY <1>1, BetweenIsBetween
<1>3. D!MonthStart(y, m) \in Int
  BY MonthsFollow
<1> QED
  BY <1>1, <1>2, <1>3 DEF D!Anchor, D!Instant, D!DayNumber

\* The countdown shows the whole days from noon to the aim.
LEMMA DaysToAim ==
  ASSUME NEW d \in [year : Int, month : 1..12, day : 1..31],
         NEW l \in Limited
  PROVE  /\ First(d, l) \in Int /\ Second(d, l) \in Int /\ D!DayNumber(d) \in Int
         /\ D!DaysUntilReset(d, l) = Aim(d, l) - D!DayNumber(d)
                                     - (IF l.hour < Noon THEN 1 ELSE 0)
<1> DEFINE N == D!DayNumber(d)
           present == 24 * N + Noon
           y == d.year
           m == d.month
           F == First(d, l)
           H == Second(d, l)
<1>1. y \in Int /\ m \in 1..12 /\ N \in Int
  <2>1. y \in Int /\ m \in 1..12 /\ d.day \in 1..31
    OBVIOUS
  <2>2. D!MonthStart(y, m) \in Int
    BY <2>1, MonthsFollow
  <2> QED
    BY <2>1, <2>2 DEF D!DayNumber
<1>2. l.period \in D!Periods /\ l.day \in 1..28 /\ l.hour \in 0..23 /\ l.month \in 1..12
  BY DEF Limited
<1>3. F \in Int /\ H \in Int
      /\ D!NextReset(d, l, present) = D!Later(24 * F + l.hour, 24 * H + l.hour, present)
  <2>1. CASE l.period = "day"
    <3>1. D!NextReset(d, l, present) = D!Daily(d, l, present)
      BY <2>1 DEF D!NextReset
    <3>2. F = N /\ H = N + 1
      BY <2>1 DEF First, Second
    <3>3. 24 * N + l.hour + 24 = 24 * (N + 1) + l.hour
      BY <1>1, <1>2
    <3> QED
      BY <3>1, <3>2, <3>3, <1>1, <1>2 DEF D!Daily, D!Instant
  <2>2. CASE l.period = "week"
    <3> DEFINE a == Ahead(d, l)
    <3>1. D!NextReset(d, l, present) = D!Weekly(d, l, present)
      BY <2>2 DEF D!NextReset
    <3>2. D!Between(1, 7, l.day) = Weekday(l) /\ Weekday(l) \in 1..7
      BY <1>2, BetweenIsBetween DEF Weekday
    <3>4. D!IsoWeekday(d) \in 1..7
      BY <1>1 DEF D!IsoWeekday
    <3>3. F = N + a /\ H = N + a + 7
      BY <2>2 DEF First, Second
    <3>5. a \in 0..6
      BY <3>2, <3>4 DEF Ahead
    <3>6. 24 * N + l.hour + 24 * a = 24 * (N + a) + l.hour
          /\ 24 * N + l.hour + 24 * a + 24 * 7 = 24 * (N + a + 7) + l.hour
      BY <1>1, <1>2, <3>5
    <3>7. D!Weekly(d, l, present)
            = D!Later(24 * N + l.hour + 24 * a, 24 * N + l.hour + 24 * a + 24 * 7, present)
      BY <3>2 DEF D!Weekly, D!Instant, Ahead
    <3> QED
      BY <3>1, <3>3, <3>5, <3>6, <3>7, <1>1
  <2>3. CASE l.period = "month"
    <3>1. D!NextReset(d, l, present) = D!Monthly(d, l, present)
      BY <2>3 DEF D!NextReset
    <3>2. F = D!MonthStart(y, m) + l.day
      BY <2>3 DEF First
    <3>3. H = (IF m = 12 THEN D!MonthStart(y + 1, 1) ELSE D!MonthStart(y, m + 1)) + l.day
      BY <2>3 DEF Second
    <3>4. D!Anchor(y, m, l) = 24 * F + l.hour /\ F \in Int
      <4>1. D!Anchor(y, m, l) = 24 * (D!MonthStart(y, m) + l.day) + l.hour
            /\ D!MonthStart(y, m) + l.day \in Int
        BY <1>1, AnchorDay
      <4> QED
        BY <4>1, <3>2
    <3>5. (IF m = 12 THEN D!Anchor(y + 1, 1, l) ELSE D!Anchor(y, m + 1, l))
            = 24 * H + l.hour /\ H \in Int
      <4>1. CASE m = 12
        <5>1. y + 1 \in Int /\ 1 \in 1..12
          BY <1>1
        <5>2. D!Anchor(y + 1, 1, l) = 24 * (D!MonthStart(y + 1, 1) + l.day) + l.hour
              /\ D!MonthStart(y + 1, 1) + l.day \in Int
          BY <5>1, AnchorDay
        <5> QED
          BY <5>2, <4>1, <3>3
      <4>2. CASE m # 12
        <5>1. m + 1 \in 1..12
          BY <1>1, <4>2
        <5>2. D!Anchor(y, m + 1, l) = 24 * (D!MonthStart(y, m + 1) + l.day) + l.hour
              /\ D!MonthStart(y, m + 1) + l.day \in Int
          BY <1>1, <5>1, AnchorDay
        <5> QED
          BY <5>2, <4>2, <3>3
      <4> QED
        BY <4>1, <4>2
    <3> QED
      BY <3>1, <3>4, <3>5 DEF D!Monthly
  <2>4. CASE l.period = "season"
    <3> DEFINE k == 3 * ((m - 1) \div 3) + (IF l.month > 3 THEN 3 ELSE l.month)
    <3>1. D!NextReset(d, l, present) = D!Seasonal(d, l, present)
      BY <2>4 DEF D!NextReset
    <3>2. k \in 1..12
      BY <1>1, <1>2
    <3>3. D!Between(1, 3, l.month) = (IF l.month > 3 THEN 3 ELSE l.month)
      BY <1>2, BetweenIsBetween
    <3>4. F = D!MonthStart(y, k) + l.day /\ H = F + 92
      BY <2>4 DEF First, Second
    <3>5. D!Anchor(y, k, l) = 24 * F + l.hour /\ F \in Int
      <4>1. D!Anchor(y, k, l) = 24 * (D!MonthStart(y, k) + l.day) + l.hour
            /\ D!MonthStart(y, k) + l.day \in Int
        BY <1>1, <3>2, AnchorDay
      <4> QED
        BY <4>1, <3>4
    <3>6. D!Anchor(y, k, l) + 24 * 92 = 24 * H + l.hour
      BY <3>4, <3>5, <1>2
    <3>7. D!Seasonal(d, l, present)
            = D!Later(D!Anchor(y, k, l), D!Anchor(y, k, l) + 24 * 92, present)
      BY <3>3 DEF D!Seasonal
    <3> QED
      BY <3>1, <3>4, <3>5, <3>6, <3>7
  <2>5. CASE l.period = "year"
    <3>1. D!NextReset(d, l, present) = D!Yearly(d, l, present)
      BY <2>5 DEF D!NextReset
    <3>2. D!Between(1, 12, l.month) = l.month
      BY <1>2, BetweenIsBetween
    <3>3. F = D!MonthStart(y, l.month) + l.day /\ H = D!MonthStart(y + 1, l.month) + l.day
      BY <2>5 DEF First, Second
    <3>4. D!Anchor(y, l.month, l) = 24 * F + l.hour /\ F \in Int
      <4>1. D!Anchor(y, l.month, l) = 24 * (D!MonthStart(y, l.month) + l.day) + l.hour
            /\ D!MonthStart(y, l.month) + l.day \in Int
        BY <1>1, <1>2, AnchorDay
      <4> QED
        BY <4>1, <3>3
    <3>5. D!Anchor(y + 1, l.month, l) = 24 * H + l.hour /\ H \in Int
      <4>1. y + 1 \in Int
        BY <1>1
      <4>2. D!Anchor(y + 1, l.month, l)
              = 24 * (D!MonthStart(y + 1, l.month) + l.day) + l.hour
            /\ D!MonthStart(y + 1, l.month) + l.day \in Int
        BY <4>1, <1>2, AnchorDay
      <4> QED
        BY <4>2, <3>3
    <3> QED
      BY <3>1, <3>2, <3>4, <3>5 DEF D!Yearly
  <2> QED
    BY <2>1, <2>2, <2>3, <2>4, <2>5, <1>2 DEF D!Periods
<1>4. D!Instant(d, Noon) = present
  BY DEF D!Instant
<1> HIDE DEF F, H, N
<1>5. D!NextReset(d, l, present) = 24 * (IF Passed(F, l.hour, N) THEN H ELSE F) + l.hour
  BY <1>1, <1>2, <1>3, LaterDay
<1>6. (D!NextReset(d, l, present) - present) \div 24
        = (IF Passed(F, l.hour, N) THEN H ELSE F) - N - (IF l.hour < Noon THEN 1 ELSE 0)
  <2> DEFINE k == IF Passed(F, l.hour, N) THEN H ELSE F
  <2>1. k \in Int
    BY <1>3
  <2>2. D!NextReset(d, l, present) = 24 * k + l.hour
    BY <1>5
  <2> HIDE DEF k
  <2>3. (24 * k + l.hour - (24 * N + Noon)) \div 24
          = k - N - (IF l.hour < Noon THEN 1 ELSE 0)
    BY <2>1, <1>1, <1>2, WholeDays
  <2>4. (D!NextReset(d, l, present) - present) \div 24
          = k - N - (IF l.hour < Noon THEN 1 ELSE 0)
    BY <2>2, <2>3, <2>1, <1>1, <1>2, MobileAssumption DEF MobileAssumption
  <2> QED
    BY <2>4 DEF k
<1>7. D!DaysUntilReset(d, l)
        = (IF Passed(F, l.hour, N) THEN H ELSE F) - N - (IF l.hour < Noon THEN 1 ELSE 0)
  BY <1>4, <1>6 DEF D!DaysUntilReset
<1> QED
  BY <1>1, <1>3, <1>7 DEF F, H, N, Aim

Calendar ==
  {d \in [year : Int, month : 1..12, day : 1..31] :
     d.day <= D!MonthDays(d.year, d.month)}

\* The month of the reset in the quarter.
InQuarter(l) == IF l.month > 3 THEN 3 ELSE l.month

\* Whether a date is the reset's, period by period.
LEMMA ResetOnDay ==
  ASSUME NEW d \in Calendar, NEW l \in Limited
  PROVE  /\ l.period = "day" => D!ResetOn(d, l)
         /\ l.period = "week" => (D!ResetOn(d, l) <=> D!IsoWeekday(d) = Weekday(l))
         /\ l.period = "month" => (D!ResetOn(d, l) <=> d.day = l.day)
         /\ l.period = "season" =>
              (D!ResetOn(d, l) <=>
                 d.day = l.day /\ ((d.month - 1) % 3) + 1 = InQuarter(l))
         /\ l.period = "year" => (D!ResetOn(d, l) <=> d.day = l.day /\ d.month = l.month)
<1>1. l.day \in Int /\ l.month \in Int
  BY DEF Limited
<1>2. D!Min({7, l.day}) = Weekday(l)
  BY <1>1, MinOfTwo DEF Weekday
<1>3. D!Min({3, l.month}) = InQuarter(l)
  BY <1>1, MinOfTwo DEF InQuarter
<1> QED
  BY <1>2, <1>3 DEF D!ResetOn

\* A date's number tells its month and its day.
LEMMA DayInYear ==
  ASSUME NEW d \in Calendar, NEW m \in 1..12, NEW k \in 1..28
  PROVE  /\ D!DayNumber(d) = D!MonthStart(d.year, m) + k <=> d.month = m /\ d.day = k
         /\ d.month > m => D!DayNumber(d) > D!MonthStart(d.year, m) + k
         /\ d.month < m => D!DayNumber(d) <= D!MonthStart(d.year, m)
<1>1. d.year \in Int /\ d.month \in 1..12 /\ d.day \in 1..31
      /\ d.day <= D!MonthDays(d.year, d.month)
  BY DEF Calendar
<1>2. D!MonthStart(d.year, m) \in Int /\ D!MonthStart(d.year, d.month) \in Int
  BY <1>1, MonthsFollow
<1>3. D!MonthDays(d.year, m) \in 28..31 /\ D!MonthDays(d.year, d.month) \in 28..31
  BY <1>1, LengthOfMonth
<1>4. CASE d.month = m
  BY <1>1, <1>2, <1>4 DEF D!DayNumber
<1>5. CASE d.month > m
  <2>1. D!MonthStart(d.year, m) + D!MonthDays(d.year, m) <= D!MonthStart(d.year, d.month)
    BY <1>1, <1>5, MonthsInOrder
  <2> QED
    BY <2>1, <1>1, <1>2, <1>3, <1>5 DEF D!DayNumber
<1>6. CASE d.month < m
  <2>1. D!MonthStart(d.year, d.month) + D!MonthDays(d.year, d.month)
          <= D!MonthStart(d.year, m)
    BY <1>1, <1>6, MonthsInOrder
  <2> QED
    BY <2>1, <1>1, <1>2, <1>3, <1>6 DEF D!DayNumber
<1> QED
  BY <1>1, <1>4, <1>5, <1>6

\* From the first of a month to the first of the month three months later.
LEMMA ThreeMonths ==
  ASSUME NEW y \in Int
  PROVE  /\ \A m \in 1..9 : D!MonthStart(y, m + 3) - D!MonthStart(y, m) \in 89..92
         /\ \A m \in 10..12 : D!MonthStart(y + 1, m - 9) - D!MonthStart(y, m) \in 89..92
<1> DEFINE s(i) == D!MonthStart(y, i)
           z == y + 1
           t(i) == D!MonthStart(z, i)
           L(i) == D!MonthDays(y, i)
<1>0. z \in Int
  OBVIOUS
<1> HIDE DEF z
<1>1. \A i \in 1..12 : s(i) \in Int /\ t(i) \in Int
  BY <1>0, MonthsFollow
<1>2. (\A i \in 1..11 : s(i + 1) = s(i) + L(i)) /\ t(1) = s(12) + 31
  BY MonthsFollow DEF z
<1>3. \A i \in 1..11 : t(i + 1) = t(i) + D!MonthDays(z, i)
  BY <1>0, MonthsFollow
<1>4. /\ L(1) = 31 /\ L(2) \in 28..29 /\ L(3) = 31 /\ L(4) = 30 /\ L(5) = 31 /\ L(6) = 30
      /\ L(7) = 31 /\ L(8) = 31 /\ L(9) = 30 /\ L(10) = 31 /\ L(11) = 30
      /\ D!MonthDays(z, 1) = 31 /\ D!MonthDays(z, 2) \in 28..29
  BY DEF D!MonthDays
<1> HIDE DEF s, t, L
<1>5. /\ s(2) = s(1) + L(1) /\ s(3) = s(2) + L(2) /\ s(4) = s(3) + L(3)
      /\ s(5) = s(4) + L(4) /\ s(6) = s(5) + L(5) /\ s(7) = s(6) + L(6)
      /\ s(8) = s(7) + L(7) /\ s(9) = s(8) + L(8) /\ s(10) = s(9) + L(9)
      /\ s(11) = s(10) + L(10) /\ s(12) = s(11) + L(11)
      /\ t(2) = t(1) + D!MonthDays(z, 1) /\ t(3) = t(2) + D!MonthDays(z, 2)
  <2>1. \A i \in {1, 2, 3, 4, 5, 6, 7, 8, 9, 10, 11} : s(i + 1) = s(i) + L(i)
    BY <1>2
  <2>2. \A i \in {1, 2} : t(i + 1) = t(i) + D!MonthDays(z, i)
    BY <1>3
  <2> QED
    BY <2>1, <2>2
<1>6. \A m \in 1..9 : s(m + 3) - s(m) \in 89..92
  BY <1>1, <1>4, <1>5
<1>7. \A m \in 10..12 : t(m - 9) - s(m) \in 89..92
  BY <1>1, <1>2, <1>4, <1>5
<1> QED
  BY <1>6, <1>7 DEF s, t, z

-----------------------------------------------------------------------------
\* The first day whose reset is still to come, seen from noon of a date.
FirstDay(d, l) == D!DayNumber(d) + (IF l.hour <= Noon THEN 1 ELSE 0)

\* The reset comes between noon of a date and noon of the next.
Comes(d, l) ==
  \/ D!ResetOn(d, l) /\ l.hour > Noon
  \/ D!ResetOn(D!NextDay(d), l) /\ l.hour <= Noon

\* What the countdown aims at on two successive days, t the first day whose
\* reset is still to come: f and s on the first of them, g and u on the other.
Falls(f, s, g, u, t, comes, slack) ==
  LET a == IF f < t THEN s ELSE f
      b == IF g < t + 1 THEN u ELSE g
  IN  /\ a >= t /\ b >= t + 1
      /\ IF comes THEN a - t \in 0..slack ELSE a - b \in 0..slack

\* While the period lasts, both days have the same two resets to choose from.
LEMMA SamePeriod ==
  ASSUME NEW f \in Int, NEW s \in Int, NEW t \in Int, NEW comes \in BOOLEAN,
         NEW slack \in Nat, s >= t + 1, comes <=> f = t
  PROVE  Falls(f, s, f, s, t, comes, slack)
BY DEF Falls

\* When a period ends, the second of the two becomes the first.
LEMMA NextPeriod ==
  ASSUME NEW f \in Int, NEW s \in Int, NEW g \in Int, NEW u \in Int, NEW t \in Int,
         NEW comes \in BOOLEAN, NEW slack \in Nat,
         f <= t, g >= t, f < g, u >= t + 1, s - g \in 0..slack,
         comes <=> (f = t \/ g = t)
  PROVE  Falls(f, s, g, u, t, comes, slack)
BY DEF Falls

\* The first day whose reset is to come moves by a day, and a reset comes there.
LEMMA FirstDayOf ==
  ASSUME NEW d \in Calendar, NEW l \in Limited
  PROVE  /\ D!NextDay(d) \in Calendar
         /\ D!DayNumber(d) \in Int /\ D!DayNumber(D!NextDay(d)) = D!DayNumber(d) + 1
         /\ FirstDay(d, l) \in Int
         /\ FirstDay(D!NextDay(d), l) = FirstDay(d, l) + 1
         /\ FirstDay(d, l) \in D!DayNumber(d)..D!DayNumber(d) + 1
         /\ Comes(d, l) <=> \/ FirstDay(d, l) = D!DayNumber(d) /\ D!ResetOn(d, l)
                            \/ /\ FirstDay(d, l) = D!DayNumber(d) + 1
                               /\ D!ResetOn(D!NextDay(d), l)
<1>1. d \in [year : Int, month : 1..12, day : 1..31]
      /\ d.day <= D!MonthDays(d.year, d.month)
  BY DEF Calendar
<1>2. /\ D!DayNumber(d) \in Int /\ D!DayNumber(D!NextDay(d)) = D!DayNumber(d) + 1
      /\ D!NextDay(d) \in Calendar
  BY <1>1, TomorrowIsNext DEF Calendar
<1>3. l.hour \in Int /\ Noon \in Int
  BY MobileAssumption DEF Limited, MobileAssumption
<1> DEFINE N == D!DayNumber(d)
<1>4. FirstDay(d, l) = N + (IF l.hour <= Noon THEN 1 ELSE 0)
      /\ FirstDay(D!NextDay(d), l) = N + 1 + (IF l.hour <= Noon THEN 1 ELSE 0)
  BY <1>2 DEF FirstDay
<1> HIDE DEF N
<1>5. (FirstDay(d, l) = N <=> l.hour > Noon)
      /\ (FirstDay(d, l) = N + 1 <=> l.hour <= Noon)
  BY <1>2, <1>3, <1>4 DEF N
<1>6. Comes(d, l) <=> \/ FirstDay(d, l) = N /\ D!ResetOn(d, l)
                      \/ FirstDay(d, l) = N + 1 /\ D!ResetOn(D!NextDay(d), l)
  BY <1>5 DEF Comes
<1>7. /\ FirstDay(d, l) \in Int /\ FirstDay(D!NextDay(d), l) = FirstDay(d, l) + 1
      /\ FirstDay(d, l) \in N..N + 1
  BY <1>2, <1>3, <1>4 DEF N
<1> QED
  BY <1>2, <1>6, <1>7, Zenon DEF N

\* The aim is the first of the two that is not before that day.
LEMMA AimFrom ==
  ASSUME NEW d \in Calendar, NEW l \in Limited
  PROVE  /\ First(d, l) \in Int /\ Second(d, l) \in Int
         /\ Aim(d, l) = IF First(d, l) < FirstDay(d, l) THEN Second(d, l) ELSE First(d, l)
<1>1. First(d, l) \in Int /\ Second(d, l) \in Int /\ D!DayNumber(d) \in Int
  BY DaysToAim DEF Calendar
<1>2. l.hour \in Int /\ Noon \in Int
  BY MobileAssumption DEF Limited, MobileAssumption
<1> QED
  BY <1>1, <1>2 DEF Aim, Passed, FirstDay

\* What a step of the calendar does to the aim.
FallsOn(d, l, slack) ==
  LET n == D!NextDay(d)
  IN  Falls(First(d, l), Second(d, l), First(n, l), Second(n, l),
            FirstDay(d, l), Comes(d, l), slack)

\* One step of the calendar, period by period.
LEMMA DayFalls ==
  ASSUME NEW d \in Calendar, NEW l \in Limited, l.period = "day"
  PROVE  FallsOn(d, l, 0)
<1> DEFINE n == D!NextDay(d)
           N == D!DayNumber(d)
           T == FirstDay(d, l)
<1>1. N \in Int /\ D!DayNumber(n) = N + 1 /\ T \in N..N + 1 /\ n \in Calendar
      /\ (Comes(d, l) <=> (T = N /\ D!ResetOn(d, l)) \/ (T = N + 1 /\ D!ResetOn(n, l)))
  BY FirstDayOf
<1>2. First(d, l) = N /\ Second(d, l) = N + 1 /\ First(n, l) = N + 1
      /\ Second(n, l) = N + 2
  BY <1>1 DEF First, Second
<1>3. D!ResetOn(d, l) /\ D!ResetOn(n, l)
  BY <1>1, ResetOnDay
<1>4. Comes(d, l) \in BOOLEAN
  BY DEF Comes, D!ResetOn
<1> HIDE DEF N, T, n
<1>5. Falls(N, N + 1, N + 1, N + 2, T, Comes(d, l), 0)
  BY <1>1, <1>3, <1>4, NextPeriod
<1> QED
  BY <1>2, <1>5 DEF FallsOn, T, n

LEMMA WeekFalls ==
  ASSUME NEW d \in Calendar, NEW l \in Limited, l.period = "week"
  PROVE  FallsOn(d, l, 0)
<1> DEFINE n == D!NextDay(d)
           N == D!DayNumber(d)
           T == FirstDay(d, l)
           w == Weekday(l)
           i == D!IsoWeekday(d)
           a == Ahead(d, l)
           c == Ahead(n, l)
<1>1. N \in Int /\ D!DayNumber(n) = N + 1 /\ T \in N..N + 1 /\ n \in Calendar
      /\ (Comes(d, l) <=> (T = N /\ D!ResetOn(d, l)) \/ (T = N + 1 /\ D!ResetOn(n, l)))
  BY FirstDayOf
<1>2. First(d, l) = N + a /\ Second(d, l) = N + a + 7
      /\ First(n, l) = N + 1 + c /\ Second(n, l) = N + 1 + c + 7
  BY <1>1 DEF First, Second
<1>3. (D!ResetOn(d, l) <=> D!IsoWeekday(d) = w)
      /\ (D!ResetOn(n, l) <=> D!IsoWeekday(n) = w)
  BY <1>1, ResetOnDay
<1>4. Comes(d, l) \in BOOLEAN
  BY DEF Comes, D!ResetOn
<1>5. w \in 1..7 /\ i \in 1..7 /\ D!IsoWeekday(n) = (IF i = 7 THEN 1 ELSE i + 1)
  BY <1>1 DEF Weekday, D!IsoWeekday, Limited
<1>6. a \in 0..6 /\ c = (IF a = 0 THEN 6 ELSE a - 1) /\ (a = 0 <=> i = w)
      /\ (c = 0 <=> D!IsoWeekday(n) = w)
  BY <1>5 DEF Ahead
<1> HIDE DEF N, T, n, a, c, w, i
<1>7. CASE a = 0
  <2>1. Falls(N, N + 7, N + 7, N + 14, T, Comes(d, l), 0)
    BY <1>1, <1>3, <1>4, <1>6, <1>7, NextPeriod DEF i
  <2> QED
    BY <1>1, <1>2, <1>6, <1>7, <2>1 DEF FallsOn, T, n
<1>8. CASE a # 0
  <2>1. Falls(N + a, N + a + 7, N + a, N + a + 7, T, Comes(d, l), 0)
    BY <1>1, <1>3, <1>4, <1>6, <1>8, SamePeriod DEF i
  <2>2. N + 1 + c = N + a /\ N + 1 + c + 7 = N + a + 7
    BY <1>1, <1>6, <1>8
  <2> QED
    BY <1>2, <2>1, <2>2 DEF FallsOn, T, n
<1> QED
  BY <1>7, <1>8

\* The last day before the month after this one.
MonthEnd(y, m) == IF m = 12 THEN D!MonthStart(y + 1, 1) ELSE D!MonthStart(y, m + 1)

LEMMA MonthEnds ==
  ASSUME NEW y \in Int, NEW m \in 1..12
  PROVE  /\ D!MonthStart(y, m) \in Int /\ D!MonthDays(y, m) \in 28..31
         /\ MonthEnd(y, m) = D!MonthStart(y, m) + D!MonthDays(y, m)
<1>1. D!MonthDays(y, m) \in 28..31 /\ (m = 12 => D!MonthDays(y, m) = 31)
  BY LengthOfMonth
<1>2. D!MonthStart(y, m) \in Int
  BY MonthsFollow
<1>3. D!MonthStart(y + 1, 1) = D!MonthStart(y, 12) + 31
  BY MonthsFollow
<1>4. m # 12 => D!MonthStart(y, m + 1) = D!MonthStart(y, m) + D!MonthDays(y, m)
  <2>1. m # 12 => m \in 1..11
    OBVIOUS
  <2> QED
    BY <2>1, MonthsFollow
<1> QED
  BY <1>1, <1>2, <1>3, <1>4 DEF MonthEnd

\* The next date lies in the same month, or it is the first of the next one.
LEMMA NextDate ==
  ASSUME NEW d \in Calendar
  PROVE  LET n == D!NextDay(d)
         IN  /\ d.year \in Int /\ d.month \in 1..12
             /\ d.day \in 1..D!MonthDays(d.year, d.month)
             /\ n.year \in Int /\ n.month \in 1..12
             /\ n.day \in 1..D!MonthDays(n.year, n.month)
             /\ D!DayNumber(d) = D!MonthStart(d.year, d.month) + d.day
             /\ \/ n.year = d.year /\ n.month = d.month /\ n.day = d.day + 1
                \/ /\ n.day = 1 /\ d.day = D!MonthDays(d.year, d.month)
                   /\ D!DayNumber(d) = D!MonthStart(n.year, n.month)
                   /\ D!MonthStart(n.year, n.month) = MonthEnd(d.year, d.month)
                   /\ \/ n.year = d.year /\ n.month = d.month + 1
                      \/ n.year = d.year + 1 /\ n.month = 1 /\ d.month = 12
<1> DEFINE n == D!NextDay(d)
<1>1. d \in [year : Int, month : 1..12, day : 1..31]
      /\ d.day <= D!MonthDays(d.year, d.month)
  BY DEF Calendar
<1>2. d.year \in Int /\ d.month \in 1..12 /\ d.day \in 1..D!MonthDays(d.year, d.month)
  <2>1. d.year \in Int /\ d.month \in 1..12 /\ d.day \in 1..31
    BY <1>1
  <2>2. D!MonthDays(d.year, d.month) \in Int
    BY <2>1, LengthOfMonth
  <2> QED
    BY <1>1, <2>1, <2>2
<1>3. /\ n \in [year : Int, month : 1..12, day : 1..31]
      /\ n.day <= D!MonthDays(n.year, n.month)
      /\ \/ n.year = d.year /\ n.month = d.month /\ n.day = d.day + 1
         \/ /\ n.year = d.year /\ n.month = d.month + 1 /\ n.day = 1
            /\ d.day = D!MonthDays(d.year, d.month)
         \/ /\ n.year = d.year + 1 /\ n.month = 1 /\ n.day = 1
            /\ d.month = 12 /\ d.day = 31
  BY <1>1, TomorrowIsNext
<1>4. n.year \in Int /\ n.month \in 1..12 /\ n.day \in 1..D!MonthDays(n.year, n.month)
  <2>1. n.year \in Int /\ n.month \in 1..12 /\ n.day \in 1..31
    BY <1>3
  <2>2. D!MonthDays(n.year, n.month) \in Int
    BY <2>1, LengthOfMonth
  <2> QED
    BY <1>3, <2>1, <2>2
<1>5. MonthEnd(d.year, d.month)
        = D!MonthStart(d.year, d.month) + D!MonthDays(d.year, d.month)
  BY <1>2, MonthEnds
<1>6. d.month = 12 => D!MonthDays(d.year, d.month) = 31
  BY <1>2, LengthOfMonth
<1>7. D!DayNumber(d) = D!MonthStart(d.year, d.month) + d.day
  BY DEF D!DayNumber
<1> HIDE DEF n
<1>8. CASE n.year = d.year /\ n.month = d.month /\ n.day = d.day + 1
  BY <1>2, <1>4, <1>7, <1>8 DEF n
<1>9. CASE n.year = d.year /\ n.month = d.month + 1 /\ n.day = 1
           /\ d.day = D!MonthDays(d.year, d.month)
  <2>1. D!MonthStart(n.year, n.month) = MonthEnd(d.year, d.month)
    BY <1>2, <1>4, <1>9 DEF MonthEnd
  <2> QED
    BY <1>2, <1>4, <1>5, <1>7, <1>9, <2>1 DEF n
<1>10. CASE n.year = d.year + 1 /\ n.month = 1 /\ n.day = 1 /\ d.month = 12 /\ d.day = 31
  <2>1. D!MonthStart(n.year, n.month) = MonthEnd(d.year, d.month)
    BY <1>10 DEF MonthEnd
  <2> QED
    BY <1>2, <1>4, <1>5, <1>6, <1>7, <1>10, <2>1 DEF n
<1> QED
  BY <1>3, <1>8, <1>9, <1>10

LEMMA MonthFalls ==
  ASSUME NEW d \in Calendar, NEW l \in Limited, l.period = "month"
  PROVE  FallsOn(d, l, 0)
<1> DEFINE n == D!NextDay(d)
           N == D!DayNumber(d)
           T == FirstDay(d, l)
           k == l.day
           f == D!MonthStart(d.year, d.month)
           g == D!MonthStart(n.year, n.month)
           s == MonthEnd(d.year, d.month)
           u == MonthEnd(n.year, n.month)
           F == First(d, l)
           H == Second(d, l)
           G == First(n, l)
           U == Second(n, l)
<1>1. N \in Int /\ D!DayNumber(n) = N + 1 /\ T \in N..N + 1 /\ n \in Calendar
      /\ (Comes(d, l) <=> (T = N /\ D!ResetOn(d, l)) \/ (T = N + 1 /\ D!ResetOn(n, l)))
  BY FirstDayOf
<1>2. F = f + k /\ H = s + k /\ G = g + k /\ U = u + k
  BY DEF First, Second, MonthEnd
<1>3. (D!ResetOn(d, l) <=> d.day = k) /\ (D!ResetOn(n, l) <=> n.day = k)
  BY <1>1, ResetOnDay
<1>4. Comes(d, l) \in BOOLEAN
  BY DEF Comes, D!ResetOn
<1>5. /\ d.year \in Int /\ d.month \in 1..12 /\ d.day \in 1..D!MonthDays(d.year, d.month)
      /\ n.year \in Int /\ n.month \in 1..12 /\ n.day \in 1..D!MonthDays(n.year, n.month)
      /\ N = f + d.day
      /\ \/ n.year = d.year /\ n.month = d.month /\ n.day = d.day + 1
         \/ n.day = 1 /\ d.day = D!MonthDays(d.year, d.month) /\ N = g /\ g = s
  BY NextDate
<1>6. f \in Int /\ s = f + D!MonthDays(d.year, d.month)
      /\ D!MonthDays(d.year, d.month) \in 28..31
  BY <1>5, MonthEnds
<1>7. g \in Int /\ u = g + D!MonthDays(n.year, n.month)
      /\ D!MonthDays(n.year, n.month) \in 28..31
  BY <1>5, MonthEnds
<1>8. k \in 1..28
  BY DEF Limited
<1>9. CASE n.year = d.year /\ n.month = d.month /\ n.day = d.day + 1
  <2>1. g = f /\ u = s
    BY <1>9
  <2> HIDE DEF N, T, n, k, f, g, s, u
  <2>2. Falls(f + k, s + k, f + k, s + k, T, Comes(d, l), 0)
    <3>1. f + k \in Int /\ s + k \in Int /\ T \in Int /\ s + k >= T + 1
      BY <1>1, <1>5, <1>6, <1>7, <1>8, <1>9, <2>1
    <3>2. Comes(d, l) <=> f + k = T
      BY <1>1, <1>3, <1>5, <1>6, <1>8, <1>9
    <3> QED
      BY <3>1, <3>2, <1>4, SamePeriod
  <2> QED
    BY <1>2, <2>1, <2>2 DEF FallsOn, T, n
<1>10. CASE n.day = 1 /\ d.day = D!MonthDays(d.year, d.month) /\ N = g /\ g = s
  <2> HIDE DEF N, T, n, k, f, g, s, u
  <2>1. Falls(f + k, g + k, g + k, u + k, T, Comes(d, l), 0)
    <3>1. /\ f + k \in Int /\ g + k \in Int /\ u + k \in Int /\ T \in Int
          /\ f + k <= T /\ g + k >= T /\ f + k < g + k /\ u + k >= T + 1
          /\ (g + k) - (g + k) \in 0..0
      BY <1>1, <1>5, <1>6, <1>7, <1>8, <1>10
    <3>2. Comes(d, l) <=> (f + k = T \/ g + k = T)
      BY <1>1, <1>3, <1>5, <1>6, <1>7, <1>8, <1>10
    <3> QED
      BY <3>1, <3>2, <1>4, NextPeriod
  <2> QED
    BY <1>2, <1>10, <2>1 DEF FallsOn, T, n
<1> QED
  BY <1>5, <1>9, <1>10

\* The days of a year lie between its first and the first of the next one.
LEMMA InYear ==
  ASSUME NEW y \in Int, NEW m \in 1..12, NEW k \in 1..D!MonthDays(y, m)
  PROVE  /\ D!MonthStart(y, 1) \in Int /\ D!MonthStart(y, m) \in Int
         /\ D!MonthStart(y + 1, 1) \in Int
         /\ D!MonthStart(y, 1) < D!MonthStart(y, m) + k
         /\ D!MonthStart(y, m) + k <= D!MonthStart(y + 1, 1)
<1>1. D!MonthDays(y, m) \in 28..31 /\ D!MonthDays(y, 1) \in 28..31
      /\ (m = 12 => D!MonthDays(y, m) = 31)
  BY LengthOfMonth
<1>2. D!MonthStart(y, m) \in Int /\ D!MonthStart(y, 1) \in Int
      /\ D!MonthStart(y, 12) \in Int
  <2>1. \A i \in 1..12 : D!MonthStart(y, i) \in Int
    BY MonthsFollow
  <2>2. 1 \in 1..12 /\ 12 \in 1..12
    OBVIOUS
  <2> QED
    BY <2>1, <2>2
<1>3. D!MonthStart(y + 1, 1) = D!MonthStart(y, 12) + 31
  BY MonthsFollow
<1>4. m # 1 => D!MonthStart(y, 1) + D!MonthDays(y, 1) <= D!MonthStart(y, m)
  <2>1. m # 1 => 1 < m
    OBVIOUS
  <2> QED
    BY <2>1, MonthsInOrder
<1>5. m # 12 => D!MonthStart(y, m) + D!MonthDays(y, m) <= D!MonthStart(y, 12)
  <2>1. m # 12 => m < 12
    OBVIOUS
  <2> QED
    BY <2>1, MonthsInOrder
<1> QED
  BY <1>1, <1>2, <1>3, <1>4, <1>5

LEMMA YearFalls ==
  ASSUME NEW d \in Calendar, NEW l \in Limited, l.period = "year"
  PROVE  FallsOn(d, l, 0)
<1> DEFINE n == D!NextDay(d)
           N == D!DayNumber(d)
           T == FirstDay(d, l)
           k == l.day
           m == l.month
           f == D!MonthStart(d.year, m)
           s == D!MonthStart(d.year + 1, m)
           g == D!MonthStart(n.year, m)
           u == D!MonthStart(n.year + 1, m)
           e == D!MonthStart(d.year + 1, 1)
           v == D!MonthStart(n.year + 1, 1)
           F == First(d, l)
           H == Second(d, l)
           G == First(n, l)
           U == Second(n, l)
<1>1. N \in Int /\ D!DayNumber(n) = N + 1 /\ T \in N..N + 1 /\ n \in Calendar
      /\ (Comes(d, l) <=> (T = N /\ D!ResetOn(d, l)) \/ (T = N + 1 /\ D!ResetOn(n, l)))
  BY FirstDayOf
<1>2. F = f + k /\ H = s + k /\ G = g + k /\ U = u + k
  BY DEF First, Second
<1>3. k \in 1..28 /\ m \in 1..12
  BY DEF Limited
<1>4. Comes(d, l) \in BOOLEAN
  BY DEF Comes, D!ResetOn
<1>5. /\ d.year \in Int /\ d.month \in 1..12 /\ d.day \in 1..D!MonthDays(d.year, d.month)
      /\ n.year \in Int /\ n.month \in 1..12 /\ n.day \in 1..D!MonthDays(n.year, n.month)
      /\ N = D!MonthStart(d.year, d.month) + d.day
      /\ \/ n.year = d.year
         \/ n.year = d.year + 1 /\ N = D!MonthStart(n.year, n.month) /\ n.month = 1
  BY NextDate
<1>6. (D!ResetOn(d, l) <=> N = f + k) /\ (D!ResetOn(n, l) <=> N + 1 = g + k)
  <2>1. (D!ResetOn(d, l) <=> d.day = k /\ d.month = m)
        /\ (D!ResetOn(n, l) <=> n.day = k /\ n.month = m)
    BY <1>1, ResetOnDay
  <2>2. N = f + k <=> d.month = m /\ d.day = k
    BY <1>3, DayInYear
  <2>3. D!DayNumber(n) = g + k <=> n.month = m /\ n.day = k
    BY <1>1, <1>3, DayInYear
  <2> QED
    BY <2>1, <2>2, <2>3, <1>1
<1>7. /\ f \in Int /\ e \in Int /\ f + k <= e
  <2>1. D!MonthDays(d.year, m) \in 28..31
    BY <1>3, <1>5, LengthOfMonth
  <2>2. k \in 1..D!MonthDays(d.year, m)
    BY <1>3, <2>1
  <2> QED
    BY <1>3, <1>5, <2>2, InYear
<1>8. /\ s \in Int /\ e < s + k
  <2> DEFINE y == d.year + 1
  <2>0. y \in Int
    BY <1>5
  <2> HIDE DEF y
  <2>1. D!MonthDays(y, m) \in 28..31
    BY <1>3, <2>0, LengthOfMonth
  <2>2. k \in 1..D!MonthDays(y, m)
    BY <1>3, <2>1
  <2>3. D!MonthStart(y, m) \in Int /\ D!MonthStart(y, 1) < D!MonthStart(y, m) + k
    BY <1>3, <2>0, <2>2, InYear
  <2> QED
    BY <2>3 DEF y
<1>9. /\ u \in Int /\ v \in Int /\ v < u + k
  <2> DEFINE y == n.year + 1
  <2>0. y \in Int
    BY <1>5
  <2> HIDE DEF y
  <2>1. D!MonthDays(y, m) \in 28..31
    BY <1>3, <2>0, LengthOfMonth
  <2>2. k \in 1..D!MonthDays(y, m)
    BY <1>3, <2>1
  <2>3. D!MonthStart(y, m) \in Int /\ D!MonthStart(y, 1) \in Int
        /\ D!MonthStart(y, 1) < D!MonthStart(y, m) + k
    BY <1>3, <2>0, <2>2, InYear
  <2> QED
    BY <2>3 DEF y
<1>10. N + 1 <= v
  <2>1. D!MonthStart(n.year, n.month) + n.day <= v
    BY <1>5, InYear
  <2> QED
    BY <1>1, <2>1 DEF D!DayNumber
<1>11. CASE n.year = d.year
  <2>1. g = f /\ u = s /\ v = e
    BY <1>11
  <2> HIDE DEF N, T, n, k, m, f, g, s, u, e, v
  <2>2. Falls(f + k, s + k, f + k, s + k, T, Comes(d, l), 0)
    <3>1. f + k \in Int /\ s + k \in Int /\ T \in Int /\ s + k >= T + 1
      BY <1>1, <1>3, <1>7, <1>8, <1>10, <2>1
    <3>2. Comes(d, l) <=> f + k = T
      BY <1>1, <1>3, <1>6, <1>7, <2>1
    <3> QED
      BY <3>1, <3>2, <1>4, SamePeriod
  <2> QED
    BY <1>2, <2>1, <2>2 DEF FallsOn, T, n
<1>12. CASE n.year = d.year + 1 /\ N = D!MonthStart(n.year, n.month) /\ n.month = 1
  <2>1. g = s /\ N = e
    BY <1>12
  <2> HIDE DEF N, T, n, k, m, f, g, s, u, e, v
  <2>2. Falls(f + k, g + k, g + k, u + k, T, Comes(d, l), 0)
    <3>1. /\ f + k \in Int /\ g + k \in Int /\ u + k \in Int /\ T \in Int
          /\ f + k <= T /\ g + k >= T /\ f + k < g + k /\ u + k >= T + 1
          /\ (g + k) - (g + k) \in 0..0
      BY <1>1, <1>3, <1>7, <1>8, <1>9, <1>10, <2>1
    <3>2. Comes(d, l) <=> (f + k = T \/ g + k = T)
      BY <1>1, <1>3, <1>6, <1>7, <1>8, <2>1
    <3> QED
      BY <3>1, <3>2, <1>4, NextPeriod
  <2> QED
    BY <1>2, <2>1, <2>2 DEF FallsOn, T, n
<1> QED
  BY <1>5, <1>11, <1>12

Quarter(d) == (d.month - 1) \div 3

\* The last day before the quarter after this one, and before the month of
\* that quarter the reset lies in.
QuarterEnd(y, q) == IF q = 3 THEN D!MonthStart(y + 1, 1) ELSE D!MonthStart(y, 3 * q + 4)

NextQuarter(y, q, j) ==
  IF q = 3 THEN D!MonthStart(y + 1, j) ELSE D!MonthStart(y, 3 * q + 3 + j)

\* A reset and the one a quarter later are 89 to 92 days apart.
LEMMA InQuarters ==
  ASSUME NEW y \in Int, NEW q \in 0..3, NEW j \in 1..3, NEW k \in 1..28
  PROVE  /\ QuarterEnd(y, q) \in Int /\ D!MonthStart(y, 3 * q + j) \in Int
         /\ NextQuarter(y, q, j) - D!MonthStart(y, 3 * q + j) \in 89..92
         /\ NextQuarter(y, q, j) \in Int /\ NextQuarter(y, q, j) >= QuarterEnd(y, q)
         /\ D!MonthStart(y, 3 * q + j) + D!MonthDays(y, 3 * q + j) <= QuarterEnd(y, q)
<1> DEFINE m == 3 * q + j
           z == y + 1
<1>1. m \in 1..12 /\ z \in Int
  OBVIOUS
<1>2. CASE q = 3
  <2>1. m \in 10..12 /\ j = m - 9
    BY <1>2
  <2> HIDE DEF m
  <2>2. D!MonthStart(z, m - 9) - D!MonthStart(y, m) \in 89..92
    BY <2>1, ThreeMonths DEF z
  <2>3. D!MonthDays(z, 1) \in 28..31 /\ D!MonthDays(y, m) \in 28..31
    BY <1>1, LengthOfMonth
  <2> HIDE DEF z
  <2>4. D!MonthStart(y, m) \in Int /\ D!MonthStart(z, 1) \in Int
        /\ D!MonthStart(z, j) \in Int
    <3>1. (\A i \in 1..12 : D!MonthStart(y, i) \in Int)
          /\ (\A i \in 1..12 : D!MonthStart(z, i) \in Int)
      BY <1>1, MonthsFollow
    <3>2. 1 \in 1..12 /\ j \in 1..12
      OBVIOUS
    <3> QED
      BY <3>1, <3>2, <1>1
  <2>5. D!MonthStart(z, j) >= D!MonthStart(z, 1)
    <3>1. CASE j = 1
      BY <3>1, <2>4
    <3>2. CASE j # 1
      <4>1. j \in 1..12 /\ 1 < j
        BY <3>2
      <4>2. D!MonthStart(z, 1) + D!MonthDays(z, 1) <= D!MonthStart(z, j)
        BY <4>1, <1>1, MonthsInOrder
      <4> QED
        BY <4>2, <2>3, <2>4
    <3> QED
      BY <3>1, <3>2
  <2>6. D!MonthStart(y, m) + D!MonthDays(y, m) <= D!MonthStart(y + 1, 1)
    <3>1. D!MonthDays(y, m) \in 1..D!MonthDays(y, m)
      BY <2>3
    <3> QED
      BY <1>1, <3>1, InYear
  <2>7. QuarterEnd(y, q) = D!MonthStart(z, 1) /\ NextQuarter(y, q, j) = D!MonthStart(z, j)
    BY <1>2 DEF QuarterEnd, NextQuarter, z
  <2>8. /\ QuarterEnd(y, q) \in Int /\ D!MonthStart(y, m) \in Int
        /\ NextQuarter(y, q, j) - D!MonthStart(y, m) \in 89..92
        /\ NextQuarter(y, q, j) \in Int /\ NextQuarter(y, q, j) >= QuarterEnd(y, q)
    BY <2>1, <2>2, <2>4, <2>5, <2>7
  <2>9. D!MonthStart(y, m) + D!MonthDays(y, m) <= QuarterEnd(y, q)
    BY <2>6, <2>7 DEF z
  <2> QED
    BY <2>8, <2>9 DEF m
<1>3. CASE q # 3
  <2> DEFINE p == 3 * q + 4
             r == 3 * q + 3 + j
  <2>1. m \in 1..9 /\ p \in 1..12 /\ r \in 1..12 /\ r = m + 3 /\ m < p
        /\ (r = p \/ p < r)
    BY <1>3
  <2>2. QuarterEnd(y, q) = D!MonthStart(y, p) /\ NextQuarter(y, q, j) = D!MonthStart(y, r)
    BY <1>3 DEF QuarterEnd, NextQuarter
  <2> HIDE DEF m, p, r
  <2>3. D!MonthStart(y, m + 3) - D!MonthStart(y, m) \in 89..92
    BY <2>1, ThreeMonths
  <2>4. D!MonthStart(y, m) \in Int /\ D!MonthStart(y, p) \in Int
        /\ D!MonthStart(y, r) \in Int
    <3>1. \A i \in 1..12 : D!MonthStart(y, i) \in Int
      BY MonthsFollow
    <3> QED
      BY <3>1, <1>1, <2>1
  <2>5. D!MonthStart(y, m) + D!MonthDays(y, m) <= D!MonthStart(y, p)
    BY <1>1, <2>1, MonthsInOrder
  <2>6. D!MonthStart(y, r) >= D!MonthStart(y, p)
    <3>1. p < r => D!MonthStart(y, p) + D!MonthDays(y, p) <= D!MonthStart(y, r)
      BY <2>1, MonthsInOrder
    <3>2. D!MonthDays(y, p) \in 28..31
      BY <2>1, LengthOfMonth
    <3> QED
      BY <2>1, <2>4, <3>1, <3>2
  <2>7. /\ QuarterEnd(y, q) \in Int /\ D!MonthStart(y, m) \in Int
        /\ NextQuarter(y, q, j) - D!MonthStart(y, m) \in 89..92
        /\ NextQuarter(y, q, j) \in Int /\ NextQuarter(y, q, j) >= QuarterEnd(y, q)
        /\ D!MonthStart(y, m) + D!MonthDays(y, m) <= QuarterEnd(y, q)
    BY <2>1, <2>2, <2>3, <2>4, <2>5, <2>6
  <2> QED
    BY <2>7 DEF m
<1> QED
  BY <1>2, <1>3

\* The reset that is looked at first lies in the date's quarter.
LEMMA FirstInQuarter ==
  ASSUME NEW d \in Calendar, NEW l \in Limited, l.period = "season"
  PROVE  LET q == Quarter(d)
             j == InQuarter(l)
         IN  /\ d.year \in Int /\ q \in 0..3 /\ j \in 1..3 /\ l.day \in 1..28
             /\ First(d, l) = D!MonthStart(d.year, 3 * q + j) + l.day
             /\ Second(d, l) = First(d, l) + 92
             /\ First(d, l) \in Int /\ First(d, l) <= QuarterEnd(d.year, q)
             /\ D!DayNumber(d) \in Int /\ D!DayNumber(d) <= QuarterEnd(d.year, q)
             /\ (D!ResetOn(d, l) <=> D!DayNumber(d) = First(d, l))
<1> DEFINE q == Quarter(d)
           j == InQuarter(l)
           m == 3 * q + j
           i == d.month - 3 * q
<1>1. /\ d.year \in Int /\ d.month \in 1..12 /\ d.day \in 1..D!MonthDays(d.year, d.month)
      /\ D!DayNumber(d) = D!MonthStart(d.year, d.month) + d.day
  BY NextDate
<1>2. l.day \in 1..28 /\ j \in 1..3
  BY DEF Limited, InQuarter
<1>3. q \in 0..3 /\ i \in 1..3 /\ d.month = 3 * q + i /\ ((d.month - 1) % 3) + 1 = i
  BY <1>1 DEF Quarter
<1>4. m \in 1..12 /\ (i = j <=> d.month = m)
  BY <1>2, <1>3
<1>5. First(d, l) = D!MonthStart(d.year, m) + l.day /\ Second(d, l) = First(d, l) + 92
  BY DEF First, Second, Quarter, InQuarter
<1>6. D!ResetOn(d, l) <=> d.day = l.day /\ i = j
  BY <1>3, ResetOnDay
<1>7. D!DayNumber(d) = D!MonthStart(d.year, m) + l.day <=> d.month = m /\ d.day = l.day
  BY <1>2, <1>4, DayInYear
<1>8. D!MonthStart(d.year, m) \in Int /\ D!MonthDays(d.year, m) \in 28..31
      /\ QuarterEnd(d.year, q) \in Int
      /\ D!MonthStart(d.year, m) + D!MonthDays(d.year, m) <= QuarterEnd(d.year, q)
  BY <1>1, <1>2, <1>3, <1>4, InQuarters, LengthOfMonth
<1>9. D!MonthStart(d.year, d.month) \in Int /\ D!MonthDays(d.year, d.month) \in 28..31
      /\ D!MonthStart(d.year, d.month) + D!MonthDays(d.year, d.month)
           <= QuarterEnd(d.year, q)
  BY <1>1, <1>2, <1>3, InQuarters, LengthOfMonth
<1> HIDE DEF q, j, m, i
<1>10. D!ResetOn(d, l) <=> D!DayNumber(d) = First(d, l)
  BY <1>4, <1>5, <1>6, <1>7
<1>11. First(d, l) \in Int /\ First(d, l) <= QuarterEnd(d.year, q)
  BY <1>2, <1>5, <1>8
<1>12. D!DayNumber(d) \in Int /\ D!DayNumber(d) <= QuarterEnd(d.year, q)
  BY <1>1, <1>8, <1>9
<1> QED
  BY <1>1, <1>2, <1>3, <1>5, <1>10, <1>11, <1>12 DEF q, j, m

LEMMA SeasonFalls ==
  ASSUME NEW d \in Calendar, NEW l \in Limited, l.period = "season"
  PROVE  FallsOn(d, l, 3)
<1> DEFINE n == D!NextDay(d)
           N == D!DayNumber(d)
           T == FirstDay(d, l)
           j == InQuarter(l)
           p == Quarter(d)
           q == Quarter(n)
           F == First(d, l)
           H == Second(d, l)
           G == First(n, l)
           U == Second(n, l)
           e == QuarterEnd(d.year, p)
<1>1. N \in Int /\ D!DayNumber(n) = N + 1 /\ T \in N..N + 1 /\ n \in Calendar
      /\ (Comes(d, l) <=> (T = N /\ D!ResetOn(d, l)) \/ (T = N + 1 /\ D!ResetOn(n, l)))
  BY FirstDayOf
<1>2. /\ d.year \in Int /\ p \in 0..3 /\ j \in 1..3 /\ l.day \in 1..28
      /\ F = D!MonthStart(d.year, 3 * p + j) + l.day /\ H = F + 92
      /\ F \in Int /\ F <= e /\ N <= e
      /\ (D!ResetOn(d, l) <=> N = F)
  BY FirstInQuarter
<1>3. /\ n.year \in Int /\ q \in 0..3
      /\ G = D!MonthStart(n.year, 3 * q + j) + l.day /\ U = G + 92
      /\ G \in Int /\ N + 1 <= QuarterEnd(n.year, q)
      /\ (D!ResetOn(n, l) <=> N + 1 = G)
  BY <1>1, FirstInQuarter
<1>4. Comes(d, l) \in BOOLEAN
  BY DEF Comes, D!ResetOn
<1>5. \/ n.year = d.year /\ q = p
      \/ G = NextQuarter(d.year, p, j) + l.day /\ N = e
  <2>1. /\ d.year \in Int /\ d.month \in 1..12 /\ n.month \in 1..12
        /\ \/ n.year = d.year /\ n.month = d.month
           \/ /\ N = D!MonthStart(n.year, n.month)
              /\ \/ n.year = d.year /\ n.month = d.month + 1
                 \/ n.year = d.year + 1 /\ n.month = 1 /\ d.month = 12
    BY NextDate
  <2>2. CASE n.year = d.year /\ n.month = d.month
    BY <2>2 DEF Quarter
  <2>3. CASE N = D!MonthStart(n.year, n.month) /\ n.year = d.year /\ n.month = d.month + 1
    <3>1. q = p \/ (n.month = 3 * p + 4 /\ q = p + 1 /\ p # 3)
      BY <2>1, <2>3 DEF Quarter
    <3>2. CASE n.month = 3 * p + 4 /\ q = p + 1 /\ p # 3
      <4>1. N = e
        BY <2>3, <3>2 DEF QuarterEnd
      <4>2. 3 * q + j = 3 * p + 3 + j
        BY <3>2, <1>2
      <4> HIDE DEF p, q, j, G
      <4>3. G = NextQuarter(d.year, p, j) + l.day
        BY <1>3, <2>3, <3>2, <4>2 DEF NextQuarter
      <4> QED
        BY <4>1, <4>3
    <3> QED
      BY <2>3, <3>1, <3>2
  <2>4. CASE N = D!MonthStart(n.year, n.month) /\ n.year = d.year + 1 /\ n.month = 1
             /\ d.month = 12
    <3>1. q = 0 /\ p = 3
      BY <2>4 DEF Quarter
    <3>2. N = e
      BY <2>4, <3>1 DEF QuarterEnd
    <3>3. 3 * q + j = j
      BY <3>1, <1>2
    <3> HIDE DEF p, q, j, G
    <3>4. G = NextQuarter(d.year, p, j) + l.day
      BY <1>3, <2>4, <3>1, <3>3 DEF NextQuarter
    <3> QED
      BY <3>2, <3>4
  <2> QED
    BY <2>1, <2>2, <2>3, <2>4
<1>6. /\ e \in Int /\ NextQuarter(d.year, p, j) \in Int
      /\ NextQuarter(d.year, p, j) + l.day - F \in 89..92
      /\ NextQuarter(d.year, p, j) >= e
  <2> HIDE DEF p, j, F
  <2>1. /\ e \in Int /\ D!MonthStart(d.year, 3 * p + j) \in Int
        /\ NextQuarter(d.year, p, j) - D!MonthStart(d.year, 3 * p + j) \in 89..92
        /\ NextQuarter(d.year, p, j) \in Int /\ NextQuarter(d.year, p, j) >= e
    BY <1>2, InQuarters
  <2> QED
    BY <1>2, <2>1
<1> HIDE DEF N, T, n, j, p, q, F, H, G, U, e
<1>7. CASE n.year = d.year /\ q = p
  <2>1. G = F /\ N + 1 <= e
    BY <1>2, <1>3, <1>7 DEF e
  <2>2. Falls(F, F + 92, F, F + 92, T, Comes(d, l), 3)
    <3>1. F + 92 \in Int /\ T \in Int /\ F + 92 >= T + 1
      BY <1>1, <1>2, <1>6, <2>1
    <3>2. Comes(d, l) <=> F = T
      BY <1>1, <1>2, <1>3, <2>1
    <3> QED
      BY <1>2, <3>1, <3>2, <1>4, SamePeriod
  <2> QED
    BY <1>2, <1>3, <2>1, <2>2 DEF FallsOn, F, H, G, U, T, n
<1>8. CASE G = NextQuarter(d.year, p, j) + l.day /\ N = e
  <2>1. Falls(F, F + 92, G, G + 92, T, Comes(d, l), 3)
    <3>1. /\ F + 92 \in Int /\ G + 92 \in Int /\ T \in Int
          /\ F <= T /\ G >= T /\ F < G /\ G + 92 >= T + 1
          /\ (F + 92) - G \in 0..3
      BY <1>1, <1>2, <1>3, <1>6, <1>8
    <3>2. Comes(d, l) <=> (F = T \/ G = T)
      BY <1>1, <1>2, <1>3, <1>6, <1>8
    <3> DEFINE V == F + 92
               W == G + 92
    <3> HIDE DEF V, W
    <3>3. V \in Int /\ W \in Int /\ W >= T + 1 /\ V - G \in 0..3 /\ 3 \in Nat
      BY <3>1 DEF V, W
    <3>4. Falls(F, V, G, W, T, Comes(d, l), 3)
      BY <1>2, <1>3, <3>1, <3>2, <3>3, <1>1 DEF Falls
    <3> QED
      BY <3>4 DEF V, W
  <2> QED
    BY <1>2, <1>3, <2>1 DEF FallsOn, F, H, G, U, T, n
<1> QED
  BY <1>5, <1>7, <1>8

-----------------------------------------------------------------------------
LEMMA EveryFalls ==
  ASSUME NEW d \in Calendar, NEW l \in Limited
  PROVE  FallsOn(d, l, IF l.period = "season" THEN 3 ELSE 0)
<1>1. l.period \in D!Periods
  BY DEF Limited
<1> QED
  BY <1>1, DayFalls, WeekFalls, MonthFalls, SeasonFalls, YearFalls DEF D!Periods

\* The dates and limits of the model are among those of the lemmas.
LEMMA CalendarDates == D!Dates \subseteq Calendar /\ D!Limits \subseteq Limited
<1>1. FirstYear..LastYear \subseteq Int
  BY MobileAssumption DEF MobileAssumption
<1>2. D!Dates \subseteq Calendar
  BY <1>1 DEF D!Dates, Calendar
<1>3. D!Limits \subseteq Limited
  <2> SUFFICES ASSUME NEW l \in D!Limits PROVE l \in Limited
    OBVIOUS
  <2>1. Days \subseteq 1..28 /\ Hours \subseteq 0..23 /\ Months \subseteq 1..12
    BY MobileAssumption DEF MobileAssumption
  <2>2. l \in [period : D!Periods, day : Days, hour : Hours, month : Months]
    BY DEF D!Limits
  <2>3. l.period \in D!Periods /\ l.day \in 1..28 /\ l.hour \in 0..23 /\ l.month \in 1..12
    BY <2>1, <2>2
  <2>4. l = [period |-> l.period, day |-> l.day, hour |-> l.hour, month |-> l.month]
    BY <2>2
  <2> QED
    BY <2>3, <2>4 DEF Limited
<1> QED
  BY <1>2, <1>3

LEMMA CountdownInductive ==
  /\ D!CountdownInit => D!IInv
  /\ D!IInv /\ [D!CountdownNext]_D!countVars => D!IInv'
<1>1. D!CountdownInit => D!IInv
  <2> SUFFICES ASSUME D!CountdownInit PROVE D!IInv
    OBVIOUS
  <2>1. FirstYear \in FirstYear..LastYear /\ FirstYear \in Int
    BY MobileAssumption DEF MobileAssumption
  <2>2. D!MonthDays(FirstYear, 1) = 31
    BY <2>1, LengthOfMonth
  <2>3. now \in D!Dates
    BY <2>1, <2>2 DEF D!CountdownInit, D!Dates
  <2> QED
    BY <2>3 DEF D!CountdownInit, D!IInv
<1>2. ASSUME D!IInv, [D!CountdownNext]_D!countVars PROVE D!IInv'
  <2>1. CASE D!Tomorrow
    <3>1. now \in Calendar /\ limit \in Limited
      BY <1>2, CalendarDates DEF D!IInv
    <3>2. /\ now' = D!NextDay(now) /\ now' \in Calendar
      BY <2>1, <3>1, FirstDayOf DEF D!Tomorrow
    <3>3. now'.year \in FirstYear..LastYear
      <4>1. /\ now'.year \in Int
            /\ \/ now'.year = now.year
               \/ now'.year = now.year + 1 /\ now.month = 12 /\ now.day = 31
        <5>1. now \in [year : Int, month : 1..12, day : 1..31]
              /\ now.day <= D!MonthDays(now.year, now.month)
          BY <3>1 DEF Calendar
        <5> QED
          BY <5>1, <3>2, TomorrowIsNext DEF Calendar
      <4>2. now.year \in FirstYear..LastYear
        BY <1>2 DEF D!IInv, D!Dates
      <4> QED
        BY <2>1, <4>1, <4>2, MobileAssumption DEF D!Tomorrow, MobileAssumption
    <3>4. now' \in D!Dates
      BY <3>2, <3>3 DEF Calendar, D!Dates
    <3> QED
      BY <1>2, <2>1, <3>4 DEF D!IInv, D!Tomorrow, D!Limits
  <2>2. CASE D!ChoosePeriod
    BY <1>2, <2>2 DEF D!IInv, D!ChoosePeriod, D!Limits, D!Dates
  <2>3. CASE UNCHANGED D!countVars
    BY <1>2, <2>3 DEF D!IInv, D!countVars, D!Limits, D!Dates
  <2> QED
    BY <1>2, <2>1, <2>2, <2>3 DEF D!CountdownNext
<1> QED
  BY <1>1, <1>2

LEMMA CountdownStutter == D!IInv /\ UNCHANGED calendar => D!IInv'
BY CountdownInductive DEF calendar, D!countVars

\* A day's step of the model.
LEMMA CountdownStep ==
  ASSUME D!IInv, [D!CountdownNext]_D!countVars, now' # now
  PROVE  IF D!ResetComes THEN days - D!Left \in 0..D!Slack
                       ELSE days - days' \in 1..(1 + D!Slack) /\ days' >= 0
<1> DEFINE d == now
           l == limit
           n == D!NextDay(now)
           N == D!DayNumber(now)
           T == FirstDay(now, limit)
           a == Aim(now, limit)
           b == Aim(n, limit)
<1>1. D!Tomorrow
  BY DEF D!CountdownNext, D!ChoosePeriod, D!countVars
<1>2. d \in Calendar /\ l \in Limited
  BY CalendarDates DEF D!IInv
<1>3. now' = n /\ limit' = l /\ days = D!DaysUntilReset(d, l)
      /\ days' = D!DaysUntilReset(n, l)
  BY <1>1 DEF D!Tomorrow, D!IInv
<1>4. N \in Int /\ D!DayNumber(n) = N + 1 /\ T \in Int /\ FirstDay(n, l) = T + 1
      /\ n \in Calendar
  BY <1>2, FirstDayOf
<1>5. T = N + (IF l.hour <= Noon THEN 1 ELSE 0) /\ l.hour \in Int /\ Noon \in Int
  BY <1>2, MobileAssumption DEF FirstDay, MobileAssumption, Limited
<1>6. days = a - N - (IF l.hour < Noon THEN 1 ELSE 0)
  BY <1>2, <1>3, DaysToAim DEF Calendar
<1>7. days' = b - (N + 1) - (IF l.hour < Noon THEN 1 ELSE 0)
  BY <1>2, <1>3, <1>4, DaysToAim DEF Calendar
<1>8. a \in Int /\ b \in Int
  <2>1. /\ First(d, l) \in Int /\ Second(d, l) \in Int
        /\ a = IF First(d, l) < T THEN Second(d, l) ELSE First(d, l)
    BY <1>2, AimFrom
  <2>2. /\ First(n, l) \in Int /\ Second(n, l) \in Int
        /\ b = IF First(n, l) < T + 1 THEN Second(n, l) ELSE First(n, l)
    BY <1>2, <1>4, AimFrom
  <2> QED
    BY <2>1, <2>2
<1>9. /\ a >= T /\ b >= T + 1
      /\ IF Comes(d, l) THEN a - T \in 0..D!Slack ELSE a - b \in 0..D!Slack
  <2>1. FallsOn(d, l, D!Slack)
    BY <1>2, EveryFalls DEF D!Slack
  <2>2. a = IF First(d, l) < T THEN Second(d, l) ELSE First(d, l)
    BY <1>2, AimFrom
  <2>3. b = IF First(n, l) < T + 1 THEN Second(n, l) ELSE First(n, l)
    BY <1>2, <1>4, AimFrom
  <2> QED
    BY <2>1, <2>2, <2>3 DEF FallsOn, Falls
<1>10. D!ResetComes <=> Comes(d, l)
  BY <1>3 DEF D!ResetComes, Comes
<1>11. D!Slack \in 0..3
  BY DEF D!Slack
<1>12. CASE Comes(d, l)
  <2>1. days - D!Left = a - T
    BY <1>4, <1>5, <1>6, <1>8 DEF D!Left
  <2> QED
    BY <1>9, <1>10, <1>12, <2>1
<1>13. CASE ~Comes(d, l)
  <2>1. days - days' = a - b + 1
    BY <1>4, <1>5, <1>6, <1>7, <1>8
  <2>2. a - b \in 0..D!Slack
    BY <1>9, <1>13
  <2>3. days - days' \in 1..(1 + D!Slack)
    BY <2>1, <2>2, <1>8, <1>11
  <2>4. days' >= 0
    BY <1>4, <1>5, <1>7, <1>8, <1>9
  <2> QED
    BY <1>10, <1>13, <2>3, <2>4
<1> QED
  BY <1>12, <1>13

-----------------------------------------------------------------------------
(* What is shown was the router's.                                         *)

LEMMA TrafficMirrorStep ==
  ASSUME C!IInv, C!Next
  PROVE  TrafficPromise!Next \/ UNCHANGED TrafficPromise!vars
<1> USE DEF C!hub, C!router, C!SetUpAnew, TrafficPromise!vars
<1>1. CASE C!Elsewhere
  <2>1. sims' \in C!Counts
    BY ModemStep DEF C!IInv, C!TypeOK
  <2>2. TrafficPromise!Change
    BY <1>1, <2>1 DEF C!Elsewhere, TrafficPromise!Change
  <2> QED
    BY <2>2 DEF TrafficPromise!Next
<1>2. CASE C!Reload
  <2>1. TrafficPromise!Forget
    BY <1>2 DEF C!Reload, TrafficPromise!Forget
  <2> QED
    BY <2>1 DEF TrafficPromise!Next
<1>3. CASE C!Refresh \/ C!Setup \/ C!Add \/ C!PeriodicCleanUp
  BY <1>3 DEF C!Refresh, C!Setup, C!Add, C!PeriodicCleanUp
<1>4. ASSUME NEW t \in C!Tasks, C!Begin(t) \/ C!Fetch(t)
      PROVE  TrafficPromise!Next \/ UNCHANGED TrafficPromise!vars
  <2>1. CASE C!Begin(t) \/ C!Info(t)
    BY <2>1 DEF C!Begin, C!Info
  <2>2. CASE C!Status(t) \/ C!SimConfig(t) \/ C!Raised(t) \/ C!TrafficFailed(t)
    <3>1. TrafficPromise!Forget \/ UNCHANGED TrafficPromise!vars
      BY <2>2 DEF C!Status, C!SimConfig, C!ChooseModem, C!Raised, C!TrafficFailed,
                  TrafficPromise!Forget
    <3> QED
      BY <3>1 DEF TrafficPromise!Next
  <2>3. CASE C!TrafficAnswered(t)
    <3>1. TrafficPromise!Read(t)
      BY <2>3 DEF C!TrafficAnswered, TrafficPromise!Read
    <3> QED
      BY <3>1 DEF TrafficPromise!Next
  <2>4. CASE C!Apply(t)
    <3>1. TrafficPromise!Show(t)
      BY <2>4 DEF C!Apply, TrafficPromise!Show
    <3> QED
      BY <3>1 DEF TrafficPromise!Next
  <2> QED
    BY <1>4, <2>1, <2>2, <2>3, <2>4 DEF C!Fetch
<1> QED
  BY <1>1, <1>2, <1>3, <1>4 DEF C!Next

\* What a step of the networks may do to what is shown and to the answers.
LEMMA NetworksShow ==
  ASSUME R!IInv, R!Next
  PROVE  \/ UNCHANGED <<scanned, known, status, netReply>>
         \/ /\ status' = NoNet
            /\ UNCHANGED <<joined, saved, around, scanned, known, netReply>>
         \/ \E t \in R!Tasks :
              /\ R!StatusAnswered(t) \/ R!SavedAnswered(t) \/ R!ScanAnswered(t)
              /\ UNCHANGED <<joined, saved, around, scanned, known, status>>
         \/ \E t \in R!Tasks : R!StoreStatus(t) \/ R!StoreSaved(t) \/ R!StoreScan(t)
<1> USE DEF R!hub, R!router
<1>1. CASE R!Elsewhere \/ R!Deselect
  BY <1>1 DEF R!Elsewhere, R!Deselect
<1>2. ASSUME NEW p \in R!Polls, R!BeginPoll(p)
      PROVE  UNCHANGED <<scanned, known, status, netReply>>
  BY <1>2 DEF R!BeginPoll
<1>3. ASSUME NEW t \in Commands, R!Command(t)
      PROVE  UNCHANGED <<scanned, known, status, netReply>>
  BY <1>3 DEF R!Command, R!Select, R!Connect, R!Disconnect, R!RemoveSaved, R!Scan
<1>4. ASSUME NEW t \in Commands, R!Execute(t)
      PROVE  UNCHANGED <<scanned, known, status, netReply>>
  BY <1>4 DEF R!Execute, R!Connected, R!Disconnected, R!Removed, R!Lose
<1>5. ASSUME NEW t \in R!Tasks, R!FetchFailed(t)
      PROVE  /\ status' \in {NoNet, status}
             /\ UNCHANGED <<joined, saved, around, scanned, known, netReply>>
  BY <1>5 DEF R!FetchFailed
<1>6. ASSUME NEW t \in R!Tasks,
             R!StatusAnswered(t) \/ R!SavedAnswered(t) \/ R!ScanAnswered(t)
      PROVE  UNCHANGED <<joined, saved, around, scanned, known, status>>
  BY <1>6 DEF R!StatusAnswered, R!SavedAnswered, R!ScanAnswered, R!Answer
<1> QED
  BY <1>1, <1>2, <1>3, <1>4, <1>5, <1>6 DEF R!Next, R!Fetch

LEMMA JoinedMirrorStep ==
  ASSUME R!IInv, R!Next
  PROVE  JoinedPromise!Next \/ UNCHANGED JoinedPromise!vars
<1> USE DEF JoinedPromise!vars
<1>0. R!TypeOK /\ joined' \in Nets \cup {NoNet}
  BY NetworksStep DEF R!IInv, R!TypeOK
<1>1. CASE UNCHANGED <<scanned, known, status, netReply>>
  <2>1. JoinedPromise!Change
    BY <1>0, <1>1 DEF JoinedPromise!Change, Carried
  <2> QED
    BY <2>1 DEF JoinedPromise!Next
<1>2. CASE /\ status' = NoNet
           /\ UNCHANGED <<joined, saved, around, scanned, known, netReply>>
  <2>1. JoinedPromise!Forget
    BY <1>2 DEF JoinedPromise!Forget, Carried
  <2> QED
    BY <2>1 DEF JoinedPromise!Next
<1>3. ASSUME NEW t \in R!Tasks,
             R!StatusAnswered(t) \/ R!SavedAnswered(t) \/ R!ScanAnswered(t),
             UNCHANGED <<joined, saved, around, scanned, known, status>>
      PROVE  JoinedPromise!Next \/ UNCHANGED JoinedPromise!vars
  <2>1. CASE R!StatusAnswered(t)
    <3>1. Carried("status", NoNet)' = [Carried("status", NoNet) EXCEPT ![t] = joined]
      BY <1>0, <2>1 DEF R!StatusAnswered, R!Answer, Carried, R!TypeOK
    <3>2. JoinedPromise!Read(t)
      BY <1>3, <3>1 DEF JoinedPromise!Read
    <3> QED
      BY <3>2 DEF JoinedPromise!Next
  <2>2. CASE R!SavedAnswered(t) \/ R!ScanAnswered(t)
    <3>1. PICK r : r.of # "status" /\ netReply' = [netReply EXCEPT ![t] = r]
      BY <2>2 DEF R!StatusAnswered, R!SavedAnswered, R!ScanAnswered, R!Answer
    <3>2. Carried("status", NoNet)' = [Carried("status", NoNet) EXCEPT ![t] = NoNet]
      BY <1>0, <3>1 DEF Carried, R!TypeOK
    <3>3. JoinedPromise!Lose(t)
      BY <1>3, <3>2 DEF JoinedPromise!Lose
    <3> QED
      BY <3>3 DEF JoinedPromise!Next
  <2> QED
    BY <1>3, <2>1, <2>2
<1>4. ASSUME NEW t \in R!Tasks, R!StoreStatus(t) \/ R!StoreSaved(t) \/ R!StoreScan(t)
      PROVE  JoinedPromise!Next \/ UNCHANGED JoinedPromise!vars
  <2>1. Carried("status", NoNet)' = [Carried("status", NoNet) EXCEPT ![t] = NoNet]
    <3>1. netReply' = [netReply EXCEPT ![t] = R!NoReply] /\ R!NoReply.of # "status"
      BY <1>4 DEF R!StoreStatus, R!StoreSaved, R!StoreScan, R!Stored, R!NoReply
    <3> QED
      BY <1>0, <3>1 DEF Carried, R!TypeOK
  <2>2. CASE R!StoreStatus(t)
    <3>1. status' = Carried("status", NoNet)[t]
      BY <2>2 DEF R!StoreStatus, R!Stored, Carried
    <3>2. JoinedPromise!Show(t)
      BY <2>1, <2>2, <3>1 DEF R!StoreStatus, R!Stored, R!router, JoinedPromise!Show
    <3> QED
      BY <3>2 DEF JoinedPromise!Next
  <2>3. CASE R!StoreSaved(t) \/ R!StoreScan(t)
    <3>1. JoinedPromise!Lose(t)
      BY <2>1, <2>3
      DEF R!StoreStatus, R!StoreSaved, R!StoreScan, R!Stored, R!router, JoinedPromise!Lose
    <3> QED
      BY <3>1 DEF JoinedPromise!Next
  <2> QED
    BY <1>4, <2>2, <2>3
<1> QED
  BY <1>1, <1>2, <1>3, <1>4, NetworksShow

LEMMA SavedMirrorStep ==
  ASSUME R!IInv, R!Next
  PROVE  SavedPromise!Next \/ UNCHANGED SavedPromise!vars
<1> USE DEF SavedPromise!vars
<1>0. R!TypeOK /\ saved' \in SUBSET Nets
  BY NetworksStep DEF R!IInv, R!TypeOK
<1>1. CASE UNCHANGED <<scanned, known, status, netReply>>
  <2>1. SavedPromise!Change
    BY <1>0, <1>1 DEF SavedPromise!Change, Carried
  <2> QED
    BY <2>1 DEF SavedPromise!Next
<1>2. CASE /\ status' = NoNet
           /\ UNCHANGED <<joined, saved, around, scanned, known, netReply>>
  BY <1>2 DEF Carried
<1>3. ASSUME NEW t \in R!Tasks,
             R!StatusAnswered(t) \/ R!SavedAnswered(t) \/ R!ScanAnswered(t),
             UNCHANGED <<joined, saved, around, scanned, known, status>>
      PROVE  SavedPromise!Next \/ UNCHANGED SavedPromise!vars
  <2>1. CASE R!SavedAnswered(t)
    <3>1. Carried("saved", {})' = [Carried("saved", {}) EXCEPT ![t] = saved]
      BY <1>0, <2>1 DEF R!SavedAnswered, R!Answer, Carried, R!TypeOK
    <3>2. SavedPromise!Read(t)
      BY <1>3, <3>1 DEF SavedPromise!Read
    <3> QED
      BY <3>2 DEF SavedPromise!Next
  <2>2. CASE R!StatusAnswered(t) \/ R!ScanAnswered(t)
    <3>1. PICK r : r.of # "saved" /\ netReply' = [netReply EXCEPT ![t] = r]
      BY <2>2 DEF R!StatusAnswered, R!SavedAnswered, R!ScanAnswered, R!Answer
    <3>2. Carried("saved", {})' = [Carried("saved", {}) EXCEPT ![t] = {}]
      BY <1>0, <3>1 DEF Carried, R!TypeOK
    <3>3. SavedPromise!Lose(t)
      BY <1>3, <3>2 DEF SavedPromise!Lose
    <3> QED
      BY <3>3 DEF SavedPromise!Next
  <2> QED
    BY <1>3, <2>1, <2>2
<1>4. ASSUME NEW t \in R!Tasks, R!StoreStatus(t) \/ R!StoreSaved(t) \/ R!StoreScan(t)
      PROVE  SavedPromise!Next \/ UNCHANGED SavedPromise!vars
  <2>1. Carried("saved", {})' = [Carried("saved", {}) EXCEPT ![t] = {}]
    <3>1. netReply' = [netReply EXCEPT ![t] = R!NoReply] /\ R!NoReply.of # "saved"
      BY <1>4 DEF R!StoreStatus, R!StoreSaved, R!StoreScan, R!Stored, R!NoReply
    <3> QED
      BY <1>0, <3>1 DEF Carried, R!TypeOK
  <2>2. CASE R!StoreSaved(t)
    <3>1. known' = Carried("saved", {})[t]
      BY <2>2 DEF R!StoreSaved, R!Stored, Carried
    <3>2. SavedPromise!Show(t)
      BY <2>1, <2>2, <3>1 DEF R!StoreSaved, R!Stored, R!router, SavedPromise!Show
    <3> QED
      BY <3>2 DEF SavedPromise!Next
  <2>3. CASE R!StoreStatus(t) \/ R!StoreScan(t)
    <3>1. SavedPromise!Lose(t)
      BY <2>1, <2>3
      DEF R!StoreStatus, R!StoreSaved, R!StoreScan, R!Stored, R!router, SavedPromise!Lose
    <3> QED
      BY <3>1 DEF SavedPromise!Next
  <2> QED
    BY <1>4, <2>2, <2>3
<1> QED
  BY <1>1, <1>2, <1>3, <1>4, NetworksShow

LEMMA AroundMirrorStep ==
  ASSUME R!IInv, R!Next
  PROVE  AroundPromise!Next \/ UNCHANGED AroundPromise!vars
<1> USE DEF AroundPromise!vars
<1>0. R!TypeOK /\ around' \in R!Looks
  BY NetworksStep DEF R!IInv, R!TypeOK
<1>1. CASE UNCHANGED <<scanned, known, status, netReply>>
  <2>1. AroundPromise!Change
    BY <1>0, <1>1 DEF AroundPromise!Change, Carried
  <2> QED
    BY <2>1 DEF AroundPromise!Next
<1>2. CASE /\ status' = NoNet
           /\ UNCHANGED <<joined, saved, around, scanned, known, netReply>>
  BY <1>2 DEF Carried
<1>3. ASSUME NEW t \in R!Tasks,
             R!StatusAnswered(t) \/ R!SavedAnswered(t) \/ R!ScanAnswered(t),
             UNCHANGED <<joined, saved, around, scanned, known, status>>
      PROVE  AroundPromise!Next \/ UNCHANGED AroundPromise!vars
  <2>1. CASE R!ScanAnswered(t)
    <3>1. Carried("scan", NoScan)' = [Carried("scan", NoScan) EXCEPT ![t] = around]
      BY <1>0, <2>1 DEF R!ScanAnswered, R!Answer, Carried, R!TypeOK
    <3>2. AroundPromise!Read(t)
      BY <1>3, <3>1 DEF AroundPromise!Read
    <3> QED
      BY <3>2 DEF AroundPromise!Next
  <2>2. CASE R!StatusAnswered(t) \/ R!SavedAnswered(t)
    <3>1. PICK r : r.of # "scan" /\ netReply' = [netReply EXCEPT ![t] = r]
      BY <2>2 DEF R!StatusAnswered, R!SavedAnswered, R!ScanAnswered, R!Answer
    <3>2. Carried("scan", NoScan)' = [Carried("scan", NoScan) EXCEPT ![t] = NoScan]
      BY <1>0, <3>1 DEF Carried, R!TypeOK
    <3>3. AroundPromise!Lose(t)
      BY <1>3, <3>2 DEF AroundPromise!Lose
    <3> QED
      BY <3>3 DEF AroundPromise!Next
  <2> QED
    BY <1>3, <2>1, <2>2
<1>4. ASSUME NEW t \in R!Tasks, R!StoreStatus(t) \/ R!StoreSaved(t) \/ R!StoreScan(t)
      PROVE  AroundPromise!Next \/ UNCHANGED AroundPromise!vars
  <2>1. Carried("scan", NoScan)' = [Carried("scan", NoScan) EXCEPT ![t] = NoScan]
    <3>1. netReply' = [netReply EXCEPT ![t] = R!NoReply] /\ R!NoReply.of # "scan"
      BY <1>4 DEF R!StoreStatus, R!StoreSaved, R!StoreScan, R!Stored, R!NoReply
    <3> QED
      BY <1>0, <3>1 DEF Carried, R!TypeOK
  <2>2. CASE R!StoreScan(t)
    <3>1. scanned' = Carried("scan", NoScan)[t]
      BY <2>2 DEF R!StoreScan, R!Stored, Carried
    <3>2. AroundPromise!Show(t)
      BY <2>1, <2>2, <3>1 DEF R!StoreScan, R!Stored, R!router, AroundPromise!Show
    <3> QED
      BY <3>2 DEF AroundPromise!Next
  <2>3. CASE R!StoreStatus(t) \/ R!StoreSaved(t)
    <3>1. AroundPromise!Lose(t)
      BY <2>1, <2>3
      DEF R!StoreStatus, R!StoreSaved, R!StoreScan, R!Stored, R!router, AroundPromise!Lose
    <3> QED
      BY <3>1 DEF AroundPromise!Next
  <2> QED
    BY <1>4, <2>2, <2>3
<1> QED
  BY <1>1, <1>2, <1>3, <1>4, NetworksShow

-----------------------------------------------------------------------------
(* The theorems.                                                           *)

\* A text has gone out up to where its command is, in order; with services in a row
\* the inbox is stored but while its list is fetched; the list of networks asks
\* to remember only what it has seen saved; what is shown of a limit has been
\* computed for today, a day of the calendar; and the traffic that is known is what
\* the clean-up goes by.
THEOREM InductiveInvariant == Spec => [](S!IInv /\ R!IInv /\ D!IInv /\ C!IInv)
<1>1. Init => S!IInv /\ R!IInv /\ D!IInv /\ C!IInv
  BY MessagesInit, NetworksInit, CountdownInductive, ModemInit, MobileAssumption
  DEF Init
<1>2. S!IInv /\ R!IInv /\ D!IInv /\ C!IInv /\ [Next]_vars =>
        S!IInv' /\ R!IInv' /\ D!IInv' /\ C!IInv'
  <2> SUFFICES ASSUME S!IInv, R!IInv, D!IInv, C!IInv, [Next]_vars
               PROVE  S!IInv' /\ R!IInv' /\ D!IInv' /\ C!IInv'
    OBVIOUS
  <2>1. CASE OfModem(C!Next)
    BY <2>1, ModemStep, MessagesStutter, NetworksStutter, CountdownStutter DEF OfModem
  <2>2. CASE OfMessages(S!Next)
    BY <2>2, MessagesStep, MessagesKeepPerSlot, ModemStutter, NetworksStutter,
       CountdownStutter
    DEF OfMessages
  <2>3. CASE OfLimit(D!CountdownNext)
    BY <2>3, ModemStutter, MessagesStutter, NetworksStutter, CountdownInductive
    DEF OfLimit
  <2>4. CASE OfNetworks(R!Next)
    BY <2>4, ModemStutter, MessagesStutter, NetworksStep, CountdownStutter
    DEF OfNetworks
  <2>5. CASE UNCHANGED vars
    BY <2>5, ModemStutter, MessagesStutter, NetworksStutter, CountdownStutter DEF vars
  <2> QED
    BY <2>1, <2>2, <2>3, <2>4, <2>5 DEF Next
<1> QED
  BY <1>1, <1>2, PTL DEF Spec

\* For any SIMs and any number of coroutines: a limit that the hub knows of has its
\* sensors, or they are on their way, unless an earlier load has left their ids in
\* the registry, and no such leftover outlives a limit that is seen switched off
\* (fetch_traffic_config, _register of sensor.py).
THEOREM KnownLimitsHaveSensors == Spec => []LimitsHaveSensors
<1>1. C!IInv => LimitsHaveSensors
  BY DEF C!IInv, LimitsHaveSensors
<1> QED
  BY <1>1, InductiveInvariant, PTL

\* For any SIMs: the traffic that is shown is what the router counted at the time of
\* some answer, or unknown, whatever failures, reloads and late answers come
\* between (fetch_traffic_config).
LEMMA TrafficWasTheRouters == Spec => TrafficIsMirrored
<1>1. Init => TrafficPromise!Init
  BY ReportsAreCounts DEF Init, C!Init, TrafficPromise!Init
<1>2. C!IInv /\ [Next]_vars => [TrafficPromise!Next]_(TrafficPromise!vars)
  <2> SUFFICES ASSUME C!IInv, [Next]_vars
               PROVE  TrafficPromise!Next \/ UNCHANGED TrafficPromise!vars
    OBVIOUS
  <2>1. CASE UNCHANGED modem
    BY <2>1 DEF modem, TrafficPromise!vars
  <2> QED
    BY <2>1, TrafficMirrorStep DEF Next, OfModem, OfMessages, OfLimit, OfNetworks, vars
<1> QED
  BY <1>1, <1>2, InductiveInvariant, PTL DEF Spec, TrafficIsMirrored, TrafficPromise!Spec

\* For any networks: the one that is shown as joined, the saved ones and those in
\* reach were the router's, each as a whole, or are not known, however the polls,
\* the services and the list come between each other (fetch_repeater_state,
\* fetch_saved_networks, async_scan_wifi_networks).
LEMMA NetworksWereTheRouters == Spec => NetworksAreMirrored
<1>1. Init => JoinedPromise!Init /\ SavedPromise!Init /\ AroundPromise!Init
  <2> SUFFICES ASSUME Init
               PROVE  JoinedPromise!Init /\ SavedPromise!Init /\ AroundPromise!Init
    OBVIOUS
  <2>1. /\ Carried("status", NoNet) = [t \in R!Tasks |-> NoNet]
        /\ Carried("saved", {}) = [t \in R!Tasks |-> {}]
        /\ Carried("scan", NoScan) = [t \in R!Tasks |-> NoScan]
    BY DEF Init, R!Init, R!NoReply, Carried
  <2> QED
    BY <2>1 DEF Init, R!Init, NoScan, JoinedPromise!Init, SavedPromise!Init,
                AroundPromise!Init
<1>2. R!IInv /\ [Next]_vars => /\ [JoinedPromise!Next]_(JoinedPromise!vars)
                              /\ [SavedPromise!Next]_(SavedPromise!vars)
                              /\ [AroundPromise!Next]_(AroundPromise!vars)
  <2> SUFFICES ASSUME R!IInv, [Next]_vars
               PROVE  /\ JoinedPromise!Next \/ UNCHANGED JoinedPromise!vars
                      /\ SavedPromise!Next \/ UNCHANGED SavedPromise!vars
                      /\ AroundPromise!Next \/ UNCHANGED AroundPromise!vars
    OBVIOUS
  <2>1. CASE UNCHANGED networks
    BY <2>1 DEF networks, Carried, JoinedPromise!vars, SavedPromise!vars,
                AroundPromise!vars
  <2> QED
    BY <2>1, JoinedMirrorStep, SavedMirrorStep, AroundMirrorStep
    DEF Next, OfModem, OfMessages, OfLimit, OfNetworks, vars
<1> QED
  BY <1>1, <1>2, InductiveInvariant, PTL
  DEF Spec, NetworksAreMirrored, JoinedPromise!Spec, SavedPromise!Spec,
      AroundPromise!Spec

\* For any number of messages: services that follow each other without a failure
\* leave no message in the inbox that is gone (remove_sms).
THEOREM InboxHasNoGhosts == Spec => []NoGhosts
<1>1. S!IInv => NoGhosts
  BY DEF NoGhosts, S!NoGhosts, S!IInv, S!InARow, S!Idle
<1> QED
  BY <1>1, InductiveInvariant, PTL

\* For texts of any length, sent by any number of coroutines: what goes out is the
\* text's parts, in order and each once, and all of them when the service ends
\* without an error (send_sms).
THEOREM WholeTexts == Spec => TextsArriveWhole
<1>1. ASSUME S!IInv, S!IInv', [Next]_vars, NEW t \in Commands
      PROVE  /\ arrived'[t] = [i \in 1..Len(arrived'[t]) |-> i]
             /\ order[t].do = "send" /\ outcome'[t] = "ok" /\ outcome[t] # "ok"
                  => Len(arrived[t]) = order[t].parts
  <2>1. arrived'[t] = [i \in 1..Len(arrived'[t]) |-> i]
    <3>1. PICK n \in 0..MaxParts : arrived'[t] = S!Upto(n)
      BY <1>1 DEF S!IInv, S!TypeOK
    <3>2. Len(arrived'[t]) = n
      BY <3>1, UptoGrows, MobileAssumption DEF MobileAssumption
    <3> QED
      BY <3>1, <3>2 DEF S!Upto
  <2>2. ASSUME order[t].do = "send", outcome'[t] = "ok", outcome[t] # "ok"
        PROVE  Len(arrived[t]) = order[t].parts
    <3>1. pc[t] \in {"list", "listed"}
      <4>1. S!Next
        BY <1>1, <2>2 DEF Next, OfModem, OfMessages, OfLimit, OfNetworks, vars, messages
      <4> QED
        BY <1>1, <2>2, <4>1, OnlyListsEndSends
    <3>2. arrived[t] = S!Upto(order[t].parts) /\ order[t].parts \in Nat
      BY <1>1, <2>2, <3>1, MobileAssumption
      DEF MobileAssumption, S!IInv, S!TypeOK, S!InOrder, S!Works
    <3> QED
      BY <3>2, UptoGrows
  <2> QED
    BY <2>1, <2>2
<1>2. S!IInv /\ S!IInv' /\ [Next]_vars =>
        [\A t \in Commands :
           /\ arrived'[t] = [i \in 1..Len(arrived'[t]) |-> i]
           /\ order[t].do = "send" /\ outcome'[t] = "ok" /\ outcome[t] # "ok"
                => Len(arrived[t]) = order[t].parts]_S!vars
  BY <1>1
<1> QED
  BY <1>2, InductiveInvariant, PTL DEF Spec, TextsArriveWhole, S!TextsArriveWhole

\* For any networks: joining from a list made from what the router still remembers
\* changes nothing in that (async_select_option).
THEOREM ListsRememberNothingNew == Spec => ListRemembersNothingNew
<1>1. R!IInv /\ [Next]_vars =>
        [\A t \in Commands :
           R!Connected(t) /\ request[t].listed /\ request[t].seen = saved
             => saved' = saved]_R!vars
  BY DEF R!IInv, R!Careful, R!Connected
<1> QED
  BY <1>1, InductiveInvariant, PTL
  DEF Spec, ListRemembersNothingNew, R!ListRemembersNothingNew

\* All four together.
THEOREM MobileWasTheRouters == Spec => MobileIsMirrored
BY TrafficWasTheRouters, NetworksWereTheRouters DEF MobileIsMirrored

\* For any limit, on any day from 1901 to 2098 and looked at at any hour: the
\* countdown falls by one a day and has run out when the reset comes, but for a
\* season's, up to three days too long (_compute_days_until_reset).
THEOREM CountdownFallsDaily == Spec => CountdownFalls
<1>1. ASSUME D!IInv, [Next]_vars, now' # now
      PROVE  IF D!ResetComes
               THEN days - D!Left \in 0..D!Slack
               ELSE days - days' \in 1..(1 + D!Slack) /\ days' >= 0
  <2>1. [D!CountdownNext]_D!countVars
    BY <1>1 DEF Next, OfModem, OfMessages, OfLimit, OfNetworks, vars, calendar
  <2> QED
    BY <1>1, <2>1, CountdownStep
<1>2. D!IInv /\ [Next]_vars =>
        [now' # now =>
           IF D!ResetComes
             THEN days - D!Left \in 0..D!Slack
             ELSE days - days' \in 1..(1 + D!Slack) /\ days' >= 0]_D!countVars
  BY <1>1
<1> QED
  BY <1>2, InductiveInvariant, PTL DEF Spec, CountdownFalls, D!CountdownFalls
=============================================================================
