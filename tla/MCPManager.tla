----------------------------- MODULE MCPManager -----------------------------
(***************************************************************************)
(* MCPManager of Orion (integrations/_mcp/manager.py) and its servers      *)
(* (server.py): connecting the configured servers one after the other,     *)
(* claiming their tools, the tool calls of concurrent requests, and the    *)
(* shutdown that runs while calls may still be in flight.                  *)
(*                                                                         *)
(* Every lifecycle event is published with no session.  That works until   *)
(* the orchestrator subscribes IPCPublisherService to every event          *)
(* (orchestrator.py:73): its handle asserts a session, so from then on     *)
(* such a publish stores its event and raises.  Nothing is unsubscribed,   *)
(* and the runtime stops the manager after the orchestrator.               *)
(***************************************************************************)
EXTENDS Integers, Sequences, SequencesExt

CONSTANTS Servers,   \* the enabled servers of mcp.json, by name
          Config,    \* them in the order of the file
          Tools,     \* tool names
          Offers,    \* the lists of tools each server may answer with
          Calls,     \* the tool calls the agent's requests make
          NoServer

ASSUME ManagerAssumption ==
  /\ Config \in Seq(Servers)
  /\ IsInjective(Config)
  /\ Offers \in [Servers -> SUBSET Seq(Tools)]
  /\ NoServer \notin Servers

VARIABLES
  pc,         \* where startup or shutdown of the manager is
  todo,       \* the servers its loop has left, the current one first
  started,    \* _started
  observed,   \* whether IPCPublisherService is subscribed to every event
  link,       \* the connection of every server
  servers,    \* the keys of _servers, in order
  routing,    \* _tool_routing; NoServer for a tool it lacks
  tools,      \* the names in _tools, in order
  offered,    \* what every server offered when it was asked (history)
  call,       \* where every tool call is
  target,     \* the server it was routed to
  answered,   \* whether that server answered with a result (history)
  log         \* the call's events in the store, in order

lifeVars == <<pc, todo, started, observed>>
linkVars == <<link, servers>>
toolVars == <<routing, tools, offered>>
callVars == <<call, target, answered, log>>
vars == <<lifeVars, linkVars, toolVars, callVars>>

(* "leaked": the transport was entered, but the session did not come up,    *)
(* and nobody owns what was opened.  "closing": inside aclose.              *)
LinkStates == {"none", "refused", "leaked", "open", "closing", "closed"}

(* The publishes of the manager's own loops, and what follows each.         *)
Announcements == [refused |-> "connect", connected |-> "discover",
                  undiscovered |-> "connect", discovered |-> "connect",
                  stopped |-> "stop", stopFailed |-> "stop"]

LoopStates == {"new", "connect", "discover", "up", "stop", "close", "down",
               "raised"} \union DOMAIN Announcements

(* The publishes of a tool call: its event, and what follows.               *)
Reports == [announce |-> [event |-> "called", next |-> "run"],
            report |-> [event |-> "completed", next |-> "ok"],
            complain |-> [event |-> "failed", next |-> "error"]]

CallStates == {"idle", "run", "await", "ok", "error"} \union DOMAIN Reports

Init ==
  /\ pc = "new"
  /\ todo = <<>>
  /\ started = FALSE
  /\ observed = FALSE
  /\ link = [s \in Servers |-> "none"]
  /\ servers = <<>>
  /\ routing = [t \in Tools |-> NoServer]
  /\ tools = <<>>
  /\ offered = [s \in Servers |-> <<>>]
  /\ call = [c \in Calls |-> "idle"]
  /\ target = [c \in Calls |-> NoServer]
  /\ answered = [c \in Calls |-> FALSE]
  /\ log = [c \in Calls |-> <<>>]

-----------------------------------------------------------------------------
(* Starting up.                                                             *)

Startup ==
  /\ pc = "new"
  /\ pc' = "connect"
  /\ todo' = Config
  /\ UNCHANGED <<linkVars, toolVars, callVars, started, observed>>

Connect ==
  LET s == Head(todo) IN
  /\ pc = "connect"
  /\ todo # <<>>
  /\ \/ /\ link' = [link EXCEPT ![s] = "open"]
        /\ servers' = Append(servers, s)
        /\ pc' = "connected"
     \/ /\ \E l \in {"refused", "leaked"} : link' = [link EXCEPT ![s] = l]
        /\ pc' = "refused"
        /\ UNCHANGED servers
  /\ UNCHANGED <<toolVars, callVars, todo, started, observed>>

(* Variant: a server whose tools cannot be listed is started once more. *)
AnnounceRetries ==
  /\ pc \in DOMAIN Announcements
  /\ \/ /\ ~ observed
        /\ pc' = Announcements[pc]
        /\ todo' = IF pc' = "discover" \/ pc = "undiscovered"
                   THEN todo ELSE Tail(todo)
     \/ /\ pc' = "raised"
        /\ UNCHANGED todo
  /\ UNCHANGED <<linkVars, toolVars, callVars, started, observed>>

(* A lifecycle event is published: it raises if the store or a handler      *)
(* does, and for certain once IPCPublisherService is subscribed.            *)
Announce ==
  /\ pc \in DOMAIN Announcements
  /\ \/ /\ ~ observed
        /\ pc' = Announcements[pc]
        /\ todo' = IF pc' = "discover" THEN todo ELSE Tail(todo)
     \/ /\ pc' = "raised"
        /\ UNCHANGED todo
  /\ UNCHANGED <<linkVars, toolVars, callVars, started, observed>>

(* The entry i of an answer is a name that no server owns yet, and not one   *)
(* that an earlier entry has claimed.                                       *)
Fresh(offer, i) ==
  routing[offer[i]] = NoServer /\ \A j \in 1..i - 1 : offer[j] # offer[i]

(* The names of an answer that no server owns yet, each once. *)
Unclaimed(offer) ==
  LET names[i \in 0..Len(offer)] ==
        IF i = 0 THEN <<>>
        ELSE IF Fresh(offer, i) THEN Append(names[i - 1], offer[i])
        ELSE names[i - 1]
  IN  names[Len(offer)]

Owns(s, names) ==
  routing' = [t \in Tools |-> IF t \in ToSet(names) THEN s ELSE routing[t]]

(* Variant: the last server that offers a tool gets it. *)
ClaimAll(s, offer) ==
  /\ Owns(s, offer)
  /\ tools' = tools \o Unclaimed(offer)

(* Variant: a tool that is already owned is offered to the model again. *)
ClaimAgain(s, offer) ==
  /\ Owns(s, Unclaimed(offer))
  /\ tools' = tools \o offer

(* A tool belongs to the first server that offers it.                       *)
Claim(s, offer) ==
  /\ Owns(s, Unclaimed(offer))
  /\ tools' = tools \o Unclaimed(offer)

Discover ==
  LET s == Head(todo) IN
  /\ pc = "discover"
  /\ \/ \E offer \in Offers[s] :
          /\ Claim(s, offer)
          /\ offered' = [offered EXCEPT ![s] = offer]
          /\ pc' = "discovered"
     \/ /\ pc' = "undiscovered"
        /\ UNCHANGED toolVars
  /\ UNCHANGED <<linkVars, callVars, todo, started, observed>>

StartupDone ==
  /\ pc = "connect"
  /\ todo = <<>>
  /\ pc' = "up"
  /\ started' = TRUE
  /\ UNCHANGED <<linkVars, toolVars, callVars, todo, observed>>

(* Orchestrator.startup, the next component to start. *)
Observe ==
  /\ pc = "up"
  /\ ~ observed
  /\ observed' = TRUE
  /\ UNCHANGED <<linkVars, toolVars, callVars, pc, todo, started>>

-----------------------------------------------------------------------------
(* Calling a tool.                                                          *)

(* A request that was given the tools, perhaps before they were cleared,    *)
(* calls one of them.                                                       *)
Route(c, t) ==
  /\ observed
  /\ call[c] = "idle"
  /\ \E s \in Servers : t \in ToSet(offered[s])
  /\ target' = [target EXCEPT ![c] = routing[t]]
  /\ call' = [call EXCEPT ![c] =
                IF routing[t] \in ToSet(servers) THEN "announce" ELSE "error"]
  /\ UNCHANGED <<lifeVars, linkVars, toolVars, answered, log>>

(* Variant: a result that cannot be reported is reported as a failure. *)
ReportOrComplain(c) ==
  LET r == Reports[call[c]] IN
  /\ call[c] \in DOMAIN Reports
  /\ \/ /\ log' = [log EXCEPT ![c] = Append(@, r.event)]
        /\ call' = [call EXCEPT ![c] = r.next]
     \/ /\ log' \in {log, [log EXCEPT ![c] = Append(@, r.event)]}
        /\ call' = [call EXCEPT ![c] =
                      IF @ = "report" THEN "complain" ELSE "error"]
  /\ UNCHANGED <<lifeVars, linkVars, toolVars, target, answered>>

(* The store refuses the event, or fails to commit it and has it with the   *)
(* next commit, or a handler raises after it is stored: in each case the    *)
(* call raises, whatever its server did.                                    *)
Report(c) ==
  LET r == Reports[call[c]] IN
  /\ call[c] \in DOMAIN Reports
  /\ \/ /\ log' = [log EXCEPT ![c] = Append(@, r.event)]
        /\ call' = [call EXCEPT ![c] = r.next]
     \/ /\ log' \in {log, [log EXCEPT ![c] = Append(@, r.event)]}
        /\ call' = [call EXCEPT ![c] = "error"]
  /\ UNCHANGED <<lifeVars, linkVars, toolVars, target, answered>>

(* The request is sent if the server has a session; while it is closing     *)
(* there still is one, and sending may fail.                                *)
Send(c) ==
  /\ call[c] = "run"
  /\ \/ /\ link[target[c]] \in {"open", "closing"}
        /\ call' = [call EXCEPT ![c] = "await"]
     \/ /\ link[target[c]] # "open"
        /\ call' = [call EXCEPT ![c] = "complain"]
  /\ UNCHANGED <<lifeVars, linkVars, toolVars, target, answered, log>>

(* The server answers or its error arrives; a closed one can only fail. *)
ToolEnds(c) ==
  /\ call[c] = "await"
  /\ \/ /\ link[target[c]] \in {"open", "closing"}
        /\ answered' = [answered EXCEPT ![c] = TRUE]
        /\ call' = [call EXCEPT ![c] = "report"]
     \/ /\ call' = [call EXCEPT ![c] = "complain"]
        /\ UNCHANGED answered
  /\ UNCHANGED <<lifeVars, linkVars, toolVars, target, log>>

-----------------------------------------------------------------------------
(* Shutting down, after the orchestrator and with requests still running.   *)

Shutdown ==
  /\ pc = "up"
  /\ observed
  /\ pc' = "stop"
  /\ todo' = servers
  /\ UNCHANGED <<linkVars, toolVars, callVars, started, observed>>

StopServer ==
  /\ pc = "stop"
  /\ todo # <<>>
  /\ pc' = "close"
  /\ link' = [link EXCEPT ![Head(todo)] = "closing"]
  /\ UNCHANGED <<toolVars, callVars, todo, started, observed, servers>>

(* MCPServer.shutdown forgets its session even if closing it fails. *)
ServerStopped ==
  /\ pc = "close"
  /\ pc' \in {"stopped", "stopFailed"}
  /\ link' = [link EXCEPT ![Head(todo)] = "closed"]
  /\ UNCHANGED <<toolVars, callVars, todo, started, observed, servers>>

ShutdownDone ==
  /\ pc = "stop"
  /\ todo = <<>>
  /\ pc' = "down"
  /\ started' = FALSE
  /\ servers' = <<>>
  /\ routing' = [t \in Tools |-> NoServer]
  /\ tools' = <<>>
  /\ UNCHANGED <<callVars, todo, observed, link, offered>>

-----------------------------------------------------------------------------
ManagerStep ==
  \/ Startup
  \/ Connect
  \/ Announce
  \/ Discover
  \/ StartupDone
  \/ Observe
  \/ StopServer
  \/ ServerStopped
  \/ ShutdownDone

CallStep(c) == Report(c) \/ Send(c) \/ ToolEnds(c)

Next ==
  \/ ManagerStep
  \/ Shutdown
  \/ \E c \in Calls : CallStep(c) \/ \E t \in Tools : Route(c, t)

Spec == Init /\ [][Next]_vars

-----------------------------------------------------------------------------
(* Types: the state is of the shape the code gives it, and no server is     *)
(* connected twice.                                                         *)
TypeOK ==
  /\ pc \in LoopStates
  /\ todo \in Seq(Servers)
  /\ started \in BOOLEAN
  /\ observed \in BOOLEAN
  /\ link \in [Servers -> LinkStates]
  /\ servers \in Seq(Servers)
  /\ IsInjective(servers)
  /\ routing \in [Tools -> Servers \union {NoServer}]
  /\ tools \in Seq(Tools)
  /\ offered \in [Servers -> Seq(Tools)]
  /\ call \in [Calls -> CallStates]
  /\ target \in [Calls -> Servers \union {NoServer}]
  /\ answered \in [Calls -> BOOLEAN]
  /\ log \in [Calls -> Seq({"called", "completed", "failed"})]

Place(s) == CHOOSE i \in DOMAIN Config : Config[i] = s

(* A tool belongs to the first server of the configuration that offers it   *)
(* and could be asked: a server further down never takes over a name, and   *)
(* one that failed to start or to answer claims none.                       *)
FirstClaimer ==
  \A t \in Tools : routing[t] # NoServer =>
    /\ t \in ToSet(offered[routing[t]])
    /\ \A s \in Servers :
         t \in ToSet(offered[s]) => Place(routing[t]) <= Place(s)

(* The model is offered every tool once, and each can be routed to a server *)
(* that the manager still has, whatever failed at startup or shutdown.      *)
ToolsRouted ==
  /\ IsInjective(tools)
  /\ ToSet(tools) = {t \in Tools : routing[t] # NoServer}
  /\ \A t \in ToSet(tools) : routing[t] \in ToSet(servers)

(* What the store says of a tool call is what happened: no tool runs before *)
(* its call is stored, a call is completed or failed but never both, and    *)
(* completed only if the server answered.  The caller sees a result only if *)
(* the store has it; it may see an error although the server answered.      *)
CallHistory ==
  \A c \in Calls :
    /\ log[c] \in {<<>>, <<"called">>, <<"called", "completed">>,
                   <<"called", "failed">>}
    /\ call[c] \in {"run", "await", "report", "complain", "ok"} => log[c] # <<>>
    /\ "completed" \in ToSet(log[c]) => answered[c]
    /\ "failed" \in ToSet(log[c]) => ~ answered[c]
    /\ call[c] = "ok" => log[c] = <<"called", "completed">>

(* When shutdown is over, with or without an error, every server that was   *)
(* connected has been stopped, as its docstring and its tests say.          *)
AllStopped ==
  (pc = "down" \/ (pc = "raised" /\ observed)) =>
    \A s \in Servers : link[s] # "open"
=============================================================================
