------------------------------- MODULE Mobile -------------------------------
(***************************************************************************)
(* How the router gets online without a cable: the modem with its SIMs     *)
(* (Cellular), its messages (Sms), the countdown of a SIM's limit          *)
(* (Countdown) or another wireless network (Repeater).  The first two      *)
(* share whether a modem is known, which Sms takes to be anything Cellular *)
(* may leave it at; the third takes any limit Cellular may read.           *)
(***************************************************************************)
EXTENDS Integers, Sequences

CONSTANTS Sims, Types, Physical, NoSim, Msgs, Commands, MaxChanges, MaxParts,
  Days, Hours, Months, Noon, FirstYear, LastYear, Nets, NoNet

ASSUME MobileAssumption ==
  /\ Physical \in Types /\ "poll" \notin Commands /\ NoNet \notin Nets
  /\ Commands \cap {"status", "saved"} = {}
  /\ MaxChanges \in Nat /\ MaxParts \in Nat
  /\ Days \subseteq 1..28 /\ Hours \subseteq 0..23 /\ Months \subseteq 1..12
  /\ Noon \in 0..23
  /\ FirstYear \in 1901..2098 /\ LastYear \in FirstYear..2098

VARIABLES
  part,    \* what the behaviour is about
  perSlot, plugged, sims, info, modems, bus, traffic, rule, registry, left, adding,
  up, modemPc, seen, modemReply, changes,
  smsBus, fate, inbox, pc, order, reply, arrived, outcome, serial,
  now, limit, days,
  around, saved, joined, scanned, known, status, selected, netPc, request,
  netReply

C == INSTANCE Cellular WITH pc <- modemPc, reply <- modemReply
S == INSTANCE Sms WITH perBus <- perSlot, bus <- smsBus
D == INSTANCE Countdown
R == INSTANCE Repeater WITH pc <- netPc, reply <- netReply

modem    == <<plugged, sims, info, modems, bus, traffic, rule, registry, left, adding,
              up, modemPc, seen, modemReply, changes>>
messages == <<smsBus, fate, inbox, pc, order, reply, arrived, outcome,
              serial>>
calendar == <<now, limit, days>>
networks == <<around, saved, joined, scanned, known, status, selected, netPc,
              request, netReply>>
vars     == <<part, perSlot, modem, messages, calendar, networks>>

-----------------------------------------------------------------------------
\* Of the part that never moves one value is enough; the modem is there at
\* first, with SIMs that have traffic.
Init ==
  /\ part \in {"modem", "messages", "limit", "networks"}
  /\ C!Init /\ S!Init /\ D!CountdownInit /\ R!Init
  /\ part # "messages" =>
       /\ fate = [m \in Msgs |-> "future"] /\ smsBus = FALSE /\ serial = FALSE
  /\ part = "modem" =>
       /\ plugged
       /\ \A s \in Sims : sims[s] # NoSim => sims[s].type = Physical /\ sims[s].used
  /\ part # "modem" => /\ plugged = FALSE
                       /\ sims \in [Sims -> {CHOOSE r \in C!Reports : TRUE}]
  /\ part \in {"limit", "networks"} => perSlot = FALSE
  /\ part # "limit" => limit = CHOOSE l \in D!Limits : TRUE
  /\ part # "networks" => /\ around = [n \in Nets |-> "away"]
                          /\ saved = {}

OfModem(A) ==
  part = "modem" /\ A /\ UNCHANGED <<part, messages, calendar, networks>>
OfMessages(A) ==
  part = "messages" /\ A /\ UNCHANGED <<part, modem, calendar, networks>>
OfLimit(A) ==
  part = "limit" /\ A
  /\ UNCHANGED <<part, perSlot, modem, messages, networks>>
OfNetworks(A) ==
  part = "networks" /\ A
  /\ UNCHANGED <<part, perSlot, modem, messages, calendar>>

Next ==
  \/ OfModem(C!Next) \/ OfMessages(S!Next)
  \/ OfLimit(D!CountdownNext) \/ OfNetworks(R!Next)

Spec == Init /\ [][Next]_vars

\* The poll timer fires, calls end, Home Assistant adds what it is handed, and
\* not every call of the poll fails.  (What is shown is claimed only when no
\* command runs any more, so commands need no fairness.)  As the part never
\* changes, a disjunction over the parts is as fair to each as to all.
Fairness ==
  /\ WF_vars(OfModem(C!Begin("poll")) \/ OfMessages(S!BeginPoll))
  /\ WF_vars(OfModem(C!Refresh \/ C!Setup \/ C!Add))
  /\ WF_vars(OfModem(C!Fetch("poll")) \/ OfMessages(S!Fetch("poll")))
  /\ SF_vars(OfModem(C!Status("poll")) /\ modems')
  /\ SF_vars(OfModem(C!Info("poll") \/ C!SimConfig("poll")))
  /\ SF_vars(\/ OfModem(C!TrafficAnswered("poll"))
             \/ OfMessages(S!Listed("poll")))

FairSpec == Spec /\ Fairness

-----------------------------------------------------------------------------
(* Properties: those of the modules.                                       *)

\* A limit the hub knows of has its sensors, unless an earlier load left their ids
\* behind (fetch_traffic_config).
LimitsHaveSensors == C!LimitsHaveSensors

\* A text that is reported sent has arrived in all its parts (send_sms).
TextsArriveWhole == S!TextsArriveWhole

\* Without failures the inbox shows no message that is gone (remove_sms).
NoGhosts == S!NoGhosts

\* With limits that are left alone the registry follows them for good, and
\* messages that are left alone are shown again and again
\* (fetch_traffic_config, fetch_sms_messages).
LeftAloneIsShown ==
  /\ part = "modem" => C!LimitsAreFollowed
  /\ part = "messages" => S!InboxIsShown

\* The countdown of a limit falls by one a day and runs out at its reset
\* (_compute_days_until_reset).
CountdownFalls == D!CountdownFalls

\* What an answer of the kind brings, while it is on its way.
Carried(of, empty) ==
  [t \in R!Tasks |-> IF netReply[t].of = of THEN netReply[t].what ELSE empty]

\* The network that is shown as joined, the saved ones and those in reach were
\* the router's, each as a whole, or are not known
\* (fetch_repeater_state, fetch_saved_networks, async_scan_wifi_networks).
JoinedPromise == INSTANCE Mirror WITH
  Readers <- R!Tasks, Values <- Nets \cup {NoNet}, Empty <- NoNet,
  source <- joined, shown <- status, carried <- Carried("status", NoNet)

SavedPromise == INSTANCE Mirror WITH
  Readers <- R!Tasks, Values <- SUBSET Nets, Empty <- {},
  source <- saved, shown <- known, carried <- Carried("saved", {})

NoScan == [n \in Nets |-> "away"]

AroundPromise == INSTANCE Mirror WITH
  Readers <- R!Tasks, Values <- R!Looks, Empty <- NoScan,
  source <- around, shown <- scanned, carried <- Carried("scan", NoScan)

NetworksAreMirrored ==
  JoinedPromise!Spec /\ SavedPromise!Spec /\ AroundPromise!Spec

\* The traffic that is shown was counted by the router, or is unknown
\* (fetch_traffic_config).
TrafficPromise == INSTANCE Mirror WITH
  Readers <- C!Tasks, Values <- C!Counts, Empty <- C!Unknown,
  source <- sims, shown <- traffic, carried <- modemReply

TrafficIsMirrored == TrafficPromise!Spec

MobileIsMirrored == NetworksAreMirrored /\ TrafficIsMirrored

\* What is joined from the list of networks changes nothing in what the router
\* remembers, unless the list was outdated (async_select_option).
ListRemembersNothingNew == R!ListRemembersNothingNew
=============================================================================
