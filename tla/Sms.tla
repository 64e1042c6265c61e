-------------------------------- MODULE Sms --------------------------------
(***************************************************************************)
(* The messages on the SIM: the inbox the hub keeps, and the services that *)
(* send a text and remove messages.                                        *)
(*                                                                         *)
(* A text is sent in parts of 160 characters, one call each, and the first *)
(* that is not accepted ends the command.  Both services need a modem and  *)
(* run fetch_cellular_status once when none is known.  What that and the   *)
(* poll's fetch find (module Cellular) is arbitrary here.                  *)
(*                                                                         *)
(* External: the router, which stores the messages that arrive.            *)
(***************************************************************************)
EXTENDS Naturals, Sequences

CONSTANTS Msgs,      \* messages, by the id the router gives them
          Commands,  \* coroutines that run the services
          MaxParts   \* bound on the parts of a text

VARIABLES
  bus,      \* _default_modem_bus is one
  perBus,   \* firmware 4.9 or above, which lists messages bus by bus
  fate,     \* external: of each message, whether it is stored
  inbox,    \* _sms_messages
  pc,       \* where each coroutine is suspended
  order,    \* what each command was asked for
  reply,    \* the list of messages, on its way
  arrived,  \* external: the parts that went out, of each command's text
  outcome,  \* how each command ended
  serial    \* the environment lets nothing fail, overlap or be removed elsewhere

vars == <<bus, perBus, fate, inbox, pc, order, reply, arrived, outcome, serial>>

Tasks   == {"poll"} \cup Commands
Stored  == {m \in Msgs : fate[m] = "stored"}

\* What a service is asked to do: send a text of some parts, or remove one
\* message or all; at counts the parts that are through.
Order(do, parts, which) == [do |-> do, parts |-> parts, at |-> 0, which |-> which]
NoOrder == Order("nothing", 0, {})
Orders  == {Order("send", n, {}) : n \in 0..MaxParts}
           \cup {Order("remove", 0, {m}) : m \in Msgs}
           \cup {Order("remove_all", 0, {})}

Idle == \A t \in Tasks : pc[t] = "idle"

-----------------------------------------------------------------------------
Init ==
  /\ bus \in BOOLEAN /\ perBus \in BOOLEAN /\ serial \in BOOLEAN
  /\ fate \in [Msgs -> {"future", "stored"}]
  /\ inbox = {}
  /\ pc = [t \in Tasks |-> "idle"]
  /\ order = [t \in Commands |-> NoOrder]
  /\ reply = [t \in Tasks |-> {}]
  /\ arrived = [t \in Commands |-> <<>>]
  /\ outcome = [t \in Commands |-> "none"]

Goto(t, where) == pc' = [pc EXCEPT ![t] = where]
Enter(t) == pc[t] = "idle" /\ (serial => Idle)

\* A message arrives; somebody removes one on the router's own pages.
Elsewhere ==
  /\ \E m \in Msgs :
       \/ fate[m] = "future" /\ fate' = [fate EXCEPT ![m] = "stored"]
       \/ ~serial /\ fate[m] = "stored" /\ fate' = [fate EXCEPT ![m] = "gone"]
  /\ UNCHANGED <<bus, perBus, inbox, pc, order, reply, arrived, outcome, serial>>

\* The poll's fetch_cellular_status finds a modem or none.
PollModem ==
  /\ pc["poll"] = "idle"
  /\ bus' \in BOOLEAN
  /\ UNCHANGED <<perBus, fate, inbox, pc, order, reply, arrived, outcome, serial>>

BeginPoll ==
  /\ Enter("poll")
  /\ Goto("poll", "list")
  /\ UNCHANGED <<bus, perBus, fate, inbox, order, reply, arrived, outcome, serial>>

\* A service is called.  A message that is in the inbox names its own modem.
Call(t, o) ==
  /\ Enter(t)
  /\ order' = [order EXCEPT ![t] = o]
  /\ arrived' = [arrived EXCEPT ![t] = <<>>]
  /\ outcome' = [outcome EXCEPT ![t] = "none"]
  /\ Goto(t, IF bus \/ (o.do = "remove" /\ o.which \subseteq inbox)
             THEN "call" ELSE "look")
  /\ UNCHANGED <<bus, perBus, fate, inbox, reply, serial>>

End(t, how) ==
  /\ Goto(t, "idle")
  /\ order' = [order EXCEPT ![t] = NoOrder]
  /\ outcome' = [outcome EXCEPT ![t] = how]

\* fetch_cellular_status has ended.  Without a modem the service fails.
Look(t) ==
  /\ pc[t] = "look"
  /\ bus' \in BOOLEAN
  /\ IF bus' THEN Goto(t, "call") /\ UNCHANGED <<order, outcome>>
             ELSE End(t, "error")
  /\ UNCHANGED <<perBus, fate, inbox, reply, arrived, serial>>

-----------------------------------------------------------------------------
(* send_sms.                                                               *)

More(t) == order[t].at < order[t].parts

\* The part is through with; it went out or not.
NextPart(t, out) ==
  /\ order' = [order EXCEPT ![t].at = @ + 1]
  /\ arrived' = [arrived EXCEPT ![t] = IF out THEN Append(@, order[t].at + 1)
                                        ELSE @]

\* One part is accepted; after the last one the messages are fetched.
SendPart(t) ==
  /\ pc[t] = "call" /\ order[t].do = "send" /\ More(t)
  /\ NextPart(t, TRUE)
  /\ UNCHANGED <<bus, perBus, fate, inbox, pc, reply, outcome, serial>>

\* Faulty variant: the part that is not accepted is skipped.
SendFailedSkipping(t) ==
  /\ ~serial
  /\ pc[t] = "call" /\ order[t].do = "send" /\ More(t)
  /\ NextPart(t, FALSE)
  /\ UNCHANGED <<bus, perBus, fate, inbox, pc, reply, outcome, serial>>

\* One part is refused, or sent without an answer.
SendFailed(t) ==
  /\ ~serial
  /\ pc[t] = "call" /\ order[t].do = "send" /\ More(t)
  /\ arrived' \in {arrived, 
                  [arrived EXCEPT ![t] = Append(@, order[t].at + 1)]}
  /\ End(t, "error")
  /\ UNCHANGED <<bus, perBus, fate, inbox, reply, serial>>

Sent(t) ==
  /\ pc[t] = "call" /\ order[t].do = "send" /\ ~More(t)
  /\ Goto(t, "list")
  /\ UNCHANGED <<bus, perBus, fate, inbox, order, arrived, reply, outcome, serial>>

-----------------------------------------------------------------------------
(* remove_sms.                                                             *)

Removed(which) == [m \in Msgs |-> IF m \in which /\ fate[m] = "stored"
                                  THEN "gone" ELSE fate[m]]

\* Faulty variant: the inbox is left to the next poll.
RemoveOneOnly(t) ==
  /\ pc[t] = "call" /\ order[t].do = "remove"
  /\ fate' = Removed(order[t].which)
  /\ End(t, "ok")
  /\ UNCHANGED <<bus, perBus, inbox, reply, arrived, serial>>

\* One message leaves the inbox whether the call succeeds or not.
RemoveOne(t) ==
  /\ pc[t] = "call" /\ order[t].do = "remove"
  /\ \/ fate' = Removed(order[t].which)
     \/ ~serial /\ UNCHANGED fate
  /\ inbox' = inbox \ order[t].which
  /\ End(t, "ok")
  /\ UNCHANGED <<bus, perBus, reply, arrived, serial>>

\* After the other scopes the messages are fetched.
RemoveAll(t) ==
  /\ pc[t] = "call" /\ order[t].do = "remove_all"
  /\ \/ fate' = Removed(Msgs)
     \/ ~serial /\ UNCHANGED fate
  /\ Goto(t, "list")
  /\ UNCHANGED <<bus, perBus, inbox, order, reply, arrived, outcome, serial>>

\* ConfigEntryAuthFailed ends the command.
Abort(t) ==
  /\ ~serial
  /\ pc[t] = "call" \/ (pc[t] = "list" /\ t \in Commands)
  /\ End(t, "error")
  /\ UNCHANGED <<bus, perBus, fate, inbox, reply, arrived, serial>>

-----------------------------------------------------------------------------
(* fetch_sms_messages, of the poll or at the end of a service.             *)

Listed(t) ==
  /\ pc[t] = "list"
  /\ reply' = [reply EXCEPT ![t] = Stored]
  /\ Goto(t, "listed")
  /\ UNCHANGED <<bus, perBus, fate, inbox, order, arrived, outcome, serial>>

Done(t) ==
  IF t \in Commands THEN End(t, "ok")
                    ELSE Goto(t, "idle") /\ UNCHANGED <<order, outcome>>

\* A failure keeps the inbox; a modem's refusal, on firmware 4.9, is no
\* failure but a list without its messages.
ListFailed(t) ==
  /\ ~serial
  /\ pc[t] = "list"
  /\ \/ UNCHANGED inbox
     \/ perBus /\ inbox' = {}
  /\ Done(t)
  /\ UNCHANGED <<bus, perBus, fate, reply, arrived, serial>>

Apply(t) ==
  /\ pc[t] = "listed"
  /\ inbox' = reply[t]
  /\ reply' = [reply EXCEPT ![t] = {}]
  /\ Done(t)
  /\ UNCHANGED <<bus, perBus, fate, arrived, serial>>

-----------------------------------------------------------------------------
Command(t) ==
  \/ \E o \in Orders : Call(t, o)
  \/ Look(t) \/ SendPart(t) \/ SendFailed(t) \/ Sent(t)
  \/ RemoveOne(t) \/ RemoveAll(t) \/ Abort(t)

Fetch(t) == Listed(t) \/ ListFailed(t) \/ Apply(t)

Next ==
  \/ Elsewhere \/ PollModem \/ BeginPoll
  \/ \E t \in Commands : Command(t)
  \/ \E t \in Tasks : Fetch(t)

-----------------------------------------------------------------------------
(* Properties.                                                             *)

\* send_sms that ends without an error has sent the whole text, every part
\* once and in order; whatever becomes of it, no part is left out before
\* another (a refused part ends the command).
TextsArriveWhole ==
  [][\A t \in Commands :
       /\ arrived'[t] = [i \in 1..Len(arrived'[t]) |-> i]
       /\ order[t].do = "send" /\ outcome'[t] = "ok" /\ outcome[t] # "ok"
            => Len(arrived[t]) = order[t].parts]_vars

\* When nothing fails and nobody else removes messages, the inbox shows none
\* that are gone (remove_sms).
NoGhosts == serial /\ Idle => inbox \subseteq Stored

\* What makes the two inductive.  The variables have their types; a text has gone
\* out up to where its command is; and when nothing fails, what the inbox shows or
\* is about to show is stored, but while the list is fetched after a removal.
Upto(n) == [i \in 1..n |-> i]

Works == [do : {"nothing", "send", "remove", "remove_all"}, parts : 0..MaxParts,
          at : 0..MaxParts, which : SUBSET Msgs]

TypeOK ==
  /\ fate \in [Msgs -> {"future", "stored", "gone"}]
  /\ inbox \subseteq Msgs
  /\ pc \in [Tasks -> {"idle", "look", "call", "list", "listed"}]
  /\ pc["poll"] \notin {"look", "call"}
  /\ order \in [Commands -> Works]
  /\ reply \in [Tasks -> SUBSET Msgs]
  /\ arrived \in [Commands -> {Upto(n) : n \in 0..MaxParts}]
  /\ outcome \in [Commands -> {"none", "ok", "error"}]
  /\ serial \in BOOLEAN

InOrder(t) ==
  /\ order[t].do = "send" /\ pc[t] # "idle" =>
       /\ arrived[t] = Upto(order[t].at) /\ order[t].at <= order[t].parts
       /\ pc[t] \in {"list", "listed"} => order[t].at = order[t].parts
  /\ pc[t] = "idle" => order[t] = NoOrder

OneAtATime == \A t, u \in Tasks : pc[t] # "idle" /\ pc[u] # "idle" => t = u

InARow ==
  /\ OneAtATime
  /\ (\A t \in Tasks : pc[t] \notin {"list", "listed"}) => inbox \subseteq Stored
  /\ \A t \in Tasks : pc[t] = "listed" => reply[t] \subseteq Stored

IInv == /\ TypeOK
        /\ \A t \in Commands : InOrder(t)
        /\ serial => InARow

\* When messages are left alone and no service runs any more, the inbox shows
\* them again and again.
InboxIsShown ==
  (/\ <>[][UNCHANGED fate]_fate
   /\ <>[](\A t \in Commands : pc[t] = "idle"))
    => []<>(inbox = Stored)
=============================================================================
