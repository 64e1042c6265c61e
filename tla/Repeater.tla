------------------------------ MODULE Repeater ------------------------------
(***************************************************************************)
(* The router as a client of another wireless network: what the hub shows  *)
(* of it, the list of networks to choose from, and the services.           *)
(*                                                                         *)
(* The list (WifiNetworkSelect) is made of the saved networks, fetched by  *)
(* every poll, and of those that the last scan found.  A network is joined *)
(* from the list when it is saved or open, by the hub's copies; the        *)
(* service connect_wifi joins any.  The status is fetched by every poll    *)
(* and after a command, in coroutines of their own when requests are       *)
(* parallel.                                                               *)
(*                                                                         *)
(* External: the router.  It remembers a network that it is asked to       *)
(* remember, whether or not it gets to join it.                            *)
(***************************************************************************)
EXTENDS Naturals

CONSTANTS Nets,     \* names of networks (SSIDs)
          NoNet,    \* no network
          Commands  \* coroutines of services, buttons and the list

VARIABLES
  around,   \* external: what the air has, per name: "away", "open", "locked"
  saved,    \* external: the networks the router remembers
  joined,   \* external: the one it is connected to
  scanned,  \* _scanned_networks
  known,    \* _saved_networks
  status,   \* the network in _repeater_status
  selected, \* _selected_ssid of the list
  pc,       \* where each coroutine is suspended
  request,  \* what each command sends; from the list, what it has seen saved
  reply     \* an answer on its way

router == <<around, saved, joined>>
hub    == <<scanned, known, status, selected>>
vars   == <<router, hub, pc, request, reply>>

Polls     == {"status", "saved"}
Tasks     == Polls \cup Commands
Looks     == [Nets -> {"away", "open", "locked"}]
NoReply   == [of |-> "none"]
NoRequest == [net |-> NoNet, key |-> FALSE, remember |-> FALSE,
              listed |-> FALSE, seen |-> {}]

-----------------------------------------------------------------------------
Init ==
  /\ around \in Looks
  /\ saved \in SUBSET Nets /\ joined = NoNet
  /\ scanned = [n \in Nets |-> "away"]
  /\ known = {} /\ status = NoNet /\ selected = NoNet
  /\ pc = [t \in Tasks |-> "idle"]
  /\ request = [t \in Commands |-> NoRequest]
  /\ reply = [t \in Tasks |-> NoReply]

Goto(t, where) == pc' = [pc EXCEPT ![t] = where]

\* The router's own pages are used, or it comes and goes within reach.
Elsewhere ==
  /\ \/ \E n \in Nets, look \in {"away", "open", "locked"} :
          /\ around' = [around EXCEPT ![n] = look]
          /\ joined' = IF joined = n THEN NoNet ELSE joined
          /\ UNCHANGED saved
     \/ \E n \in Nets :
          /\ saved' \in {saved \cup {n}, saved \ {n}}
          /\ joined' \in {n, NoNet}
          /\ UNCHANGED around
  /\ UNCHANGED <<hub, pc, request, reply>>

BeginPoll(p) ==
  /\ pc[p] = "idle"
  /\ Goto(p, p)
  /\ UNCHANGED <<router, hub, request, reply>>

-----------------------------------------------------------------------------
(* Commands.                                                               *)

Listed == known \cup {n \in Nets : scanned[n] # "away"}

Send(t, r) ==
  /\ request' = [request EXCEPT ![t] = r]
  /\ Goto(t, "connect")

\* Faulty variant: whatever is joined from the list is remembered.
ChosenRemembering(n) ==
  [net |-> n, key |-> FALSE, remember |-> TRUE, listed |-> TRUE, seen |-> known]

\* What the list sends for a network: a saved one stays remembered, an open
\* one does not become so.
Chosen(n) ==
  [net |-> n, key |-> FALSE, remember |-> n \in known,
   listed |-> TRUE, seen |-> known]

\* A network is chosen from the list.  One that is neither saved nor open is
\* only shown as chosen.
Select(t) ==
  /\ pc[t] = "idle"
  /\ \E n \in Listed :
       /\ selected' = n
       /\ IF n \in known \/ scanned[n] = "open"
            THEN Send(t, Chosen(n))
            ELSE UNCHANGED <<pc, request>>
  /\ UNCHANGED <<router, scanned, known, status, reply>>

\* A heading is chosen.
Deselect ==
  /\ selected' = NoNet
  /\ UNCHANGED <<router, scanned, known, status, pc, request, reply>>

\* The service connect_wifi.
Connect(t) ==
  /\ pc[t] = "idle"
  /\ \E n \in Nets, key \in BOOLEAN, remember \in BOOLEAN :
       Send(t, [NoRequest EXCEPT !.net = n, !.key = key, !.remember = remember])
  /\ UNCHANGED <<router, hub, reply>>

\* disconnect_wifi, remove_saved_wifi_network, scan_wifi_networks.
Disconnect(t) ==
  /\ pc[t] = "idle"
  /\ Goto(t, "disconnect")
  /\ UNCHANGED <<router, hub, request, reply>>

RemoveSaved(t) ==
  /\ pc[t] = "idle"
  /\ \E n \in Nets : request' = [request EXCEPT ![t] = [NoRequest EXCEPT !.net = n]]
  /\ Goto(t, "remove")
  /\ UNCHANGED <<router, hub, reply>>

Scan(t) ==
  /\ pc[t] = "idle"
  /\ Goto(t, "scan")
  /\ UNCHANGED <<router, hub, request, reply>>

\* The router can join what is within reach and open, remembered, or has been
\* given its key; the key may be wrong.
Joins(r) ==
  IF around[r.net] = "away" THEN {NoNet, joined}
  ELSE IF around[r.net] = "open" \/ r.net \in saved THEN {r.net}
  ELSE IF r.key THEN {r.net, NoNet, joined}
  ELSE {NoNet, joined}

\* Faulty variant: the network is shown as joined before the router says so.
ConnectedShowing(t) ==
  /\ pc[t] = "connect"
  /\ joined' \in Joins(request[t])
  /\ saved' = IF request[t].remember THEN saved \cup {request[t].net} ELSE saved
  /\ status' = request[t].net
  /\ request' = [request EXCEPT ![t] = NoRequest]
  /\ Goto(t, "status")
  /\ UNCHANGED <<around, scanned, known, selected, reply>>

Connected(t) ==
  /\ pc[t] = "connect"
  /\ joined' \in Joins(request[t])
  /\ saved' = IF request[t].remember THEN saved \cup {request[t].net} ELSE saved
  /\ request' = [request EXCEPT ![t] = NoRequest]
  /\ Goto(t, "status")
  /\ UNCHANGED <<around, hub, reply>>

Disconnected(t) ==
  /\ pc[t] = "disconnect"
  /\ joined' = NoNet
  /\ Goto(t, "status")
  /\ UNCHANGED <<around, saved, hub, request, reply>>

Removed(t) ==
  /\ pc[t] = "remove"
  /\ saved' = saved \ {request[t].net}
  /\ joined' \in IF joined = request[t].net THEN {joined, NoNet} ELSE {joined}
  /\ request' = [request EXCEPT ![t] = NoRequest]
  /\ Goto(t, "saved")
  /\ UNCHANGED <<around, hub, reply>>

\* _invoke_api: the command is lost and its fetch follows, or
\* ConfigEntryAuthFailed ends it.
Lose(t) ==
  /\ pc[t] \in {"connect", "disconnect", "remove"}
  /\ request' = [request EXCEPT ![t] = NoRequest]
  /\ \/ Goto(t, IF pc[t] = "remove" THEN "saved" ELSE "status")
     \/ Goto(t, "idle")
  /\ UNCHANGED <<router, hub, reply>>

-----------------------------------------------------------------------------
(* Fetches.                                                                *)

Answer(t, of, what) ==
  /\ reply' = [reply EXCEPT ![t] = [of |-> of, what |-> what]]
  /\ Goto(t, "answered")
  /\ UNCHANGED <<router, hub, request>>

StatusAnswered(t) == pc[t] = "status" /\ Answer(t, "status", joined)
SavedAnswered(t)  == pc[t] = "saved" /\ Answer(t, "saved", saved)
ScanAnswered(t)   == pc[t] = "scan" /\ Answer(t, "scan", around)

\* A status that is not got is unknown, unless the call raised; the saved
\* networks and those of the last scan are kept.
FetchFailed(t) ==
  /\ pc[t] \in {"status", "saved", "scan"}
  /\ status' \in IF pc[t] = "status" THEN {NoNet, status} ELSE {status}
  /\ Goto(t, "idle")
  /\ UNCHANGED <<router, scanned, known, selected, request, reply>>

Stored(t, of) ==
  /\ pc[t] = "answered" /\ reply[t].of = of
  /\ reply' = [reply EXCEPT ![t] = NoReply]
  /\ Goto(t, "idle")
  /\ UNCHANGED <<router, selected, request>>

StoreStatus(t) ==
  /\ Stored(t, "status")
  /\ status' = reply[t].what
  /\ UNCHANGED <<scanned, known>>

StoreSaved(t) ==
  /\ Stored(t, "saved")
  /\ known' = reply[t].what
  /\ UNCHANGED <<scanned, status>>

StoreScan(t) ==
  /\ Stored(t, "scan")
  /\ scanned' = reply[t].what
  /\ UNCHANGED <<known, status>>

-----------------------------------------------------------------------------
Command(t) ==
  \/ Select(t) \/ Connect(t) \/ Disconnect(t) \/ RemoveSaved(t) \/ Scan(t)

Execute(t) == Connected(t) \/ Disconnected(t) \/ Removed(t) \/ Lose(t)

Fetch(t) ==
  \/ StatusAnswered(t) \/ SavedAnswered(t) \/ ScanAnswered(t) \/ FetchFailed(t)
  \/ StoreStatus(t) \/ StoreSaved(t) \/ StoreScan(t)

Next ==
  \/ Elsewhere \/ Deselect
  \/ \E p \in Polls : BeginPoll(p)
  \/ \E t \in Commands : Command(t) \/ Execute(t)
  \/ \E t \in Tasks : Fetch(t)

-----------------------------------------------------------------------------
(* Properties.                                                             *)

\* What is joined from the list changes nothing in what the router remembers,
\* unless the list was made from saved networks that had changed since
\* (async_select_option).
ListRemembersNothingNew ==
  [][\A t \in Commands :
       Connected(t) /\ request[t].listed /\ request[t].seen = saved
         => saved' = saved]_vars

\* What makes it inductive: the variables have their types, and the list asks to
\* remember what it has seen saved.
Requests == [net : Nets \cup {NoNet}, key : BOOLEAN, remember : BOOLEAN,
             listed : BOOLEAN, seen : SUBSET Nets]

Replies == [of : {"status"}, what : Nets \cup {NoNet}]
             \cup [of : {"saved"}, what : SUBSET Nets]
             \cup [of : {"scan"}, what : Looks]

TypeOK ==
  /\ around \in Looks /\ saved \subseteq Nets /\ joined \in Nets \cup {NoNet}
  /\ scanned \in Looks /\ known \subseteq Nets
  /\ status \in Nets \cup {NoNet} /\ selected \in Nets \cup {NoNet}
  /\ pc \in [Tasks -> {"idle", "connect", "disconnect", "remove", "status",
                       "saved", "scan", "answered"}]
  /\ request \in [Commands -> Requests]
  /\ reply \in [Tasks -> Replies \cup {NoReply}]

Careful(t) ==
  /\ request[t].listed /\ request[t].remember => request[t].net \in request[t].seen
  /\ pc[t] = "connect" => request[t].net \in Nets

IInv == TypeOK /\ \A t \in Commands : Careful(t)
=============================================================================
