--------------------------- MODULE AccessControl ---------------------------
(***************************************************************************)
(* Blocking of clients: GLinetHub.fetch_access_control_config,             *)
(* set_access_control_mode, set_single_device_block and the view that the  *)
(* "Internet access" switches show.                                        *)
(*                                                                         *)
(* The router keeps a mode and two lists and lets in who is on the white   *)
(* list, or who is not on the black one.  The hub keeps a copy, and builds *)
(* its commands from the copy: a mode switch sends the cached list of the  *)
(* new mode, a block decides between "add" and "del" by the cached mode.   *)
(* The poll and each command refresh the copy, every one on its own, so an *)
(* older answer may be applied after a newer one.                          *)
(*                                                                         *)
(* External: the router, which others may configure too (its own pages).   *)
(* A call that the wrappers swallow looks to the caller like a success.    *)
(***************************************************************************)
CONSTANTS Macs,      \* clients
          Commands   \* coroutines of services and switches

ASSUME AccessAssumption == Macs # {} /\ "poll" \notin Commands

VARIABLES
  router,   \* external: the router's mode and lists
  cache,    \* GLinetHub._access_control_mode, _black_mac, _white_mac
  pc,       \* where each coroutine is suspended
  request,  \* the command it has sent
  answer    \* the configuration its fetch brought back

vars == <<router, cache, pc, request, answer>>

Tasks  == {"poll"} \cup Commands
Modes  == {"black", "white"}
Config == [mode : Modes, black : SUBSET Macs, white : SUBSET Macs]

\* What the hub assumes before the first fetch and after a failed one.
Default == [mode |-> "black", black |-> {}, white |-> {}]

Switches == [op : {"switch"}, mode : Modes, list : SUBSET Macs]
Blocks   == [op : {"block"}, mode : Modes, operate : {"add", "del"},
             mac : Macs, block : BOOLEAN]
Requests == Switches \cup Blocks

NoRequest == [op |-> "none"]

-----------------------------------------------------------------------------
\* The first refresh is over; it brought the configuration or nothing.
Init ==
  /\ router \in Config
  /\ cache \in {router, Default}
  /\ pc = [t \in Tasks |-> "idle"]
  /\ request = [t \in Tasks |-> NoRequest]
  /\ answer = [t \in Tasks |-> Default]

Goto(t, where) == pc' = [pc EXCEPT ![t] = where]

\* Somebody uses the router's own pages.
Elsewhere ==
  /\ \/ \E m \in Modes : router' = [router EXCEPT !.mode = m]
     \/ \E c \in Macs :
          router' = [router EXCEPT !.black =
                       IF c \in @ THEN @ \ {c} ELSE @ \cup {c}]
     \/ \E c \in Macs :
          router' = [router EXCEPT !.white =
                       IF c \in @ THEN @ \ {c} ELSE @ \cup {c}]
  /\ UNCHANGED <<cache, pc, request, answer>>

-----------------------------------------------------------------------------
(* Commands.                                                               *)

Send(t, req) ==
  /\ pc[t] = "idle"
  /\ request' = [request EXCEPT ![t] = req]
  /\ Goto(t, "set")
  /\ UNCHANGED <<router, cache, answer>>

SetMode(t, m) == Send(t, [op |-> "switch", mode |-> m, list |-> cache[m]])

\* Faulty variant: the mode is left out of account.
OperateForBlackOnly(mode, block) == IF block THEN "add" ELSE "del"

\* Blocking adds to the black list but deletes from the white one.
Operate(mode, block) ==
  IF (mode = "black") = block THEN "add" ELSE "del"

SetBlock(t, c, block) ==
  Send(t, [op |-> "block", mode |-> cache.mode,
           operate |-> Operate(cache.mode, block), mac |-> c, block |-> block])

\* The router's set_config and set_single_mac.
Effect(req) ==
  IF req.op = "switch"
  THEN [[router EXCEPT !.mode = req.mode] EXCEPT ![req.mode] = req.list]
  ELSE [router EXCEPT ![req.mode] =
          IF req.operate = "add" THEN @ \cup {req.mac} ELSE @ \ {req.mac}]

\* The router runs the command; whether or not its reply arrives, the
\* coroutine goes on to the fetch.
Execute(t) ==
  /\ pc[t] = "set"
  /\ router' = Effect(request[t])
  /\ request' = [request EXCEPT ![t] = NoRequest]
  /\ Goto(t, "get")
  /\ UNCHANGED <<cache, answer>>

\* The command never reaches the router; ConfigEntryAuthFailed ends it.
ExecuteFailed(t) ==
  /\ pc[t] = "set"
  /\ request' = [request EXCEPT ![t] = NoRequest]
  /\ Goto(t, "get") \/ Goto(t, "idle")
  /\ UNCHANGED <<router, cache, answer>>

-----------------------------------------------------------------------------
(* The fetch that ends a command, and the poll's own.                      *)

BeginPoll ==
  /\ pc["poll"] = "idle"
  /\ Goto("poll", "get")
  /\ UNCHANGED <<router, cache, request, answer>>

Answered(t) ==
  /\ pc[t] = "get"
  /\ answer' = [answer EXCEPT ![t] = router]
  /\ Goto(t, "got")
  /\ UNCHANGED <<router, cache, request>>

\* A failure that is swallowed leaves the hub with the default; an aiohttp
\* ClientError leaves the fetch before the copy is touched.
FetchFailed(t) ==
  /\ pc[t] = "get"
  /\ cache' \in {Default, cache}
  /\ Goto(t, "idle")
  /\ UNCHANGED <<router, request, answer>>

\* Faulty variant: the lists are merged into the copy.
ApplyMerged(t) ==
  /\ pc[t] = "got"
  /\ cache' = [mode  |-> answer[t].mode,
               black |-> cache.black \cup answer[t].black,
               white |-> cache.white \cup answer[t].white]
  /\ answer' = [answer EXCEPT ![t] = Default]
  /\ Goto(t, "idle")
  /\ UNCHANGED <<router, request>>

\* Mode and lists are replaced together.
Apply(t) ==
  /\ pc[t] = "got"
  /\ cache' = answer[t]
  /\ answer' = [answer EXCEPT ![t] = Default]
  /\ Goto(t, "idle")
  /\ UNCHANGED <<router, request>>

-----------------------------------------------------------------------------
Command(t) ==
  \/ \E m \in Modes : SetMode(t, m)
  \/ \E c \in Macs, block \in BOOLEAN : SetBlock(t, c, block)
  \/ Execute(t) \/ ExecuteFailed(t)

Fetch(t) == Answered(t) \/ FetchFailed(t) \/ Apply(t)

Next ==
  \/ Elsewhere \/ BeginPoll
  \/ \E t \in Commands : Command(t)
  \/ \E t \in Tasks : Fetch(t)

Spec == Init /\ [][Next]_vars

\* The poll timer fires, calls end, and not every poll fails.
Fairness ==
  /\ WF_vars(BeginPoll) /\ SF_vars(Answered("poll"))
  /\ \A t \in Tasks : WF_vars(Fetch(t))
  /\ \A t \in Commands : WF_vars(Execute(t) \/ ExecuteFailed(t))

FairSpec == Spec /\ Fairness

-----------------------------------------------------------------------------
(* Properties.                                                             *)

\* device_internet_access_enabled, of a configuration.
Access(config, c) ==
  IF config.mode = "white" THEN c \in config.white ELSE c \notin config.black

\* The variables have their types; in particular the cached mode is always one
\* that the switches and commands can interpret (_resolve_access_mode raises
\* on any other).
TypeOK ==
  /\ router \in Config
  /\ cache \in Config
  /\ pc \in [Tasks -> {"idle", "set", "get", "got"}]
  /\ request \in [Tasks -> Requests \cup {NoRequest}]
  /\ answer \in [Tasks -> Config]

\* When the router runs a block, nobody else's access changes, however old the
\* copy was that the command was built from; and the client's own access
\* becomes what was asked for if the copy had the router's mode right.
BlockActsOnItsTarget ==
  [][\A t \in Commands :
       Execute(t) /\ request[t].op = "block" =>
         /\ \A c \in Macs \ {request[t].mac} :
              Access(router', c) = Access(router, c)
         /\ request[t].mode = router.mode =>
              Access(router', request[t].mac) = ~request[t].block]_vars

\* Once nobody changes the router any more the copy, and with it every switch,
\* agrees with the router again and again, whatever order answers are applied
\* in and however many fetches fail in between.
CacheConverges ==
  []<><<router' # router>>_vars \/ []<>(cache = router)

\* The copy is never but what the router once was, as a whole, or the default
\* (fetch_access_control_config; commands do not touch it).
Promise == INSTANCE Mirror WITH
  Readers <- Tasks, Values <- Config, Empty <- Default,
  source <- router, shown <- cache, carried <- answer

CopyIsMirror == Promise!Spec

\* The inductive strengthening: a command under way is a switch or a block,
\* and a block that has been computed from the mode it carries.
WellFormed(t) ==
  /\ pc[t] = "set" => request[t] \in Requests
  /\ request[t].op = "block" =>
       request[t].operate = Operate(request[t].mode, request[t].block)

IInv == TypeOK /\ \A t \in Tasks : WellFormed(t)
=============================================================================
