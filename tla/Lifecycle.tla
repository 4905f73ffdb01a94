----------------------------- MODULE Lifecycle -----------------------------
(***************************************************************************)
(* One life of the runtime process of Orion: run() of runtime/run.py, the  *)
(* loops of OrionRuntime, MemoryModule and Orchestrator over what they     *)
(* start and stop, and IPCServer, with clients that are connected and      *)
(* pipelines that are running all the while.                               *)
(*                                                                         *)
(* asyncio.run turns the first Ctrl-C into a cancellation of run() and any *)
(* later one into the cancellation of every task.  What wait_closed does   *)
(* depends on the Python the runtime runs on: before 3.12 it returns at    *)
(* once, later it waits until no client is connected.                      *)
(***************************************************************************)
EXTENDS Integers, Sequences, SequencesExt

CONSTANTS Clients,
          MaxInterrupts   \* bound: how often the user presses Ctrl-C

ASSUME LifecycleAssumption == MaxInterrupts \in Nat

VARIABLES
  waits,       \* whether this Python's wait_closed waits for clients
  pc,          \* where run() is
  todo,        \* the parts its loop has left, the current one first
  part,        \* the state of every part
  failed,      \* whether a startup or a shutdown raised or was broken off
  interrupts,  \* how often Ctrl-C was pressed
  conn,        \* the connection of every client
  pipe,        \* whether a pipeline runs that the client has started
  let_down     \* clients whose request failed over a stopped part (history)

runVars == <<pc, todo, part, failed>>
clientVars == <<conn, pipe, let_down>>
vars == <<waits, runVars, interrupts, clientVars>>

(* The parts in the order in which they start and stop.  The memory module  *)
(* consists of the second to the fifth; its vector store starts the         *)
(* embeddings once more and stops them; services are the orchestrator's,    *)
(* which subscribes the observers once they have all started.               *)
StartOrder == <<"store", "embeddings", "summary", "vector", "graph", "mcp",
                "services", "server">>

(* Variant: the components are stopped in the order they were started in. *)
StopOrderForward == <<"store", "graph", "vector", "summary", "mcp",
                      "services", "server">>

StopOrder == <<"server", "services", "mcp", "graph", "vector", "summary",
               "store">>

Parts == ToSet(StartOrder)
Memory == {"embeddings", "summary", "vector", "graph"}

(* What may be left half open by a startup, or a shutdown, that raised.     *)
BreaksStarting == {"store", "graph", "mcp", "services"}
BreaksStopping == {"store", "graph", "vector", "mcp", "services"}

(* What a pipeline cannot do without. *)
Needed == {"store", "embeddings", "summary", "vector", "graph", "mcp"}

Init ==
  /\ waits \in BOOLEAN
  /\ pc = "starting"
  /\ todo = StartOrder
  /\ part = [p \in Parts |-> "down"]
  /\ failed = FALSE
  /\ interrupts = 0
  /\ conn = [c \in Clients |-> "none"]
  /\ pipe = [c \in Clients |-> FALSE]
  /\ let_down = {}

-----------------------------------------------------------------------------
(* Starting, serving.                                                       *)

StartPart ==
  /\ pc = "starting"
  /\ todo # <<>>
  /\ part' = [part EXCEPT ![Head(todo)] = "up"]
  /\ todo' = Tail(todo)
  /\ UNCHANGED <<waits, pc, failed, interrupts, clientVars>>

(* A startup that raises ends run(), outside its try: what was started      *)
(* before stays.                                                            *)
StartFails ==
  LET p == Head(todo) IN
  /\ pc = "starting"
  /\ todo # <<>>
  /\ \/ UNCHANGED part
     \/ p \in BreaksStarting /\ part' = [part EXCEPT ![p] = "broken"]
  /\ pc' = "over"
  /\ failed' = TRUE
  /\ UNCHANGED <<waits, todo, interrupts, clientVars>>

Serve ==
  /\ pc = "starting"
  /\ todo = <<>>
  /\ pc' = "serving"
  /\ UNCHANGED <<waits, todo, part, failed, interrupts, clientVars>>

-----------------------------------------------------------------------------
(* Stopping.                                                                *)

Closed == waits => \A c \in Clients : conn[c] # "open"

(* Variant: the sockets of the clients are waited for on any Python. *)
DrainAlways ==
  /\ pc = "draining"
  /\ \A c \in Clients : conn[c] # "open"
  /\ pc' = "stopping"
  /\ todo' = StopOrder
  /\ UNCHANGED <<waits, part, failed, interrupts, clientVars>>

(* Variant: run() stops its parts without closing the server first. *)
DrainAtOnce ==
  /\ pc = "draining"
  /\ pc' = "stopping"
  /\ todo' = Tail(StopOrder)
  /\ UNCHANGED <<waits, part, failed, interrupts, clientVars>>

(* serve_forever has closed the server and waits for it; then the finally   *)
(* of run() starts the runtime's shutdown.                                  *)
Drain ==
  /\ pc = "draining"
  /\ Closed
  /\ pc' = "stopping"
  /\ todo' = StopOrder
  /\ UNCHANGED <<waits, part, failed, interrupts, clientVars>>

(* The vector store stops the embeddings before it closes its client. *)
Stopped(p, state) ==
  part' = [part EXCEPT ![p] = state,
                       !["embeddings"] = IF p = "vector" THEN "stopped" ELSE @]

StopPart ==
  LET p == Head(todo) IN
  /\ pc = "stopping"
  /\ todo # <<>>
  /\ p = "server" => Closed
  /\ Stopped(p, "stopped")
  /\ todo' = Tail(todo)
  /\ UNCHANGED <<waits, pc, failed, interrupts, clientVars>>

(* Variant: an error of a shutdown is lost. *)
StopFailsQuietly ==
  LET p == Head(todo) IN
  /\ pc = "stopping"
  /\ todo # <<>>
  /\ p \in BreaksStopping
  /\ Stopped(p, "broken")
  /\ todo' = IF p \in Memory THEN <<"store">> ELSE Tail(todo)
  /\ UNCHANGED <<waits, pc, failed, interrupts, clientVars>>

(* A shutdown raises.  The runtime goes on with its next component and      *)
(* raises in the end; the memory module leaves its remaining parts alone;   *)
(* the orchestrator only prints the errors of its services.                 *)
StopFails ==
  LET p == Head(todo) IN
  /\ pc = "stopping"
  /\ todo # <<>>
  /\ p \in BreaksStopping
  /\ Stopped(p, "broken")
  /\ todo' = IF p \in Memory THEN <<"store">> ELSE Tail(todo)
  /\ failed' = (failed \/ p # "services")
  /\ UNCHANGED <<waits, pc, interrupts, clientVars>>

StopDone ==
  /\ pc = "stopping"
  /\ todo = <<>>
  /\ pc' = "over"
  /\ UNCHANGED <<waits, todo, part, failed, interrupts, clientVars>>

-----------------------------------------------------------------------------
(* Ctrl-C.                                                                  *)

Interrupt ==
  /\ interrupts < MaxInterrupts
  /\ interrupts' = interrupts + 1
  /\ UNCHANGED <<waits, clientVars>>

InterruptStart ==
  /\ pc = "starting"
  /\ Interrupt
  /\ \/ UNCHANGED part
     \/ /\ todo # <<>>
        /\ Head(todo) \in BreaksStarting
        /\ part' = [part EXCEPT ![Head(todo)] = "broken"]
  /\ pc' = "over"
  /\ failed' = TRUE
  /\ UNCHANGED todo

InterruptServe ==
  /\ pc = "serving"
  /\ Interrupt
  /\ pc' = "draining"
  /\ UNCHANGED <<todo, part, failed>>

InterruptDrain ==
  /\ pc = "draining"
  /\ Interrupt
  /\ pc' = "stopping"
  /\ todo' = StopOrder
  /\ UNCHANGED <<part, failed>>

(* Variant: the server forgets its socket only if nothing interrupts it. *)
InterruptStopNoFinally ==
  /\ pc = "stopping"
  /\ todo # <<>>
  /\ Interrupt
  /\ part' = [part EXCEPT ![Head(todo)] = "broken"]
  /\ pc' = "over"
  /\ failed' = TRUE
  /\ UNCHANGED todo

(* A cancellation is no Exception: it leaves the loops of the runtime and   *)
(* of the orchestrator.  The server forgets its socket in a finally.        *)
InterruptStop ==
  LET p == Head(todo) IN
  /\ pc = "stopping"
  /\ todo # <<>>
  /\ Interrupt
  /\ \/ p # "server" /\ UNCHANGED part
     \/ p = "server" /\ Stopped(p, "stopped")
     \/ p \in BreaksStopping /\ Stopped(p, "broken")
  /\ pc' = "over"
  /\ failed' = TRUE
  /\ UNCHANGED todo

-----------------------------------------------------------------------------
(* Clients and their pipelines.                                             *)

(* The server accepts as soon as it has started, and until serve_forever    *)
(* is cancelled.                                                            *)
Connect(c) ==
  /\ part["server"] = "up"
  /\ pc \in {"starting", "serving"}
  /\ conn[c] = "none"
  /\ conn' = [conn EXCEPT ![c] = "open"]
  /\ UNCHANGED <<waits, runVars, interrupts, pipe, let_down>>

(* A session that is open goes on taking requests, also during shutdown. *)
Begin(c) ==
  /\ conn[c] = "open"
  /\ ~ pipe[c]
  /\ pipe' = [pipe EXCEPT ![c] = TRUE]
  /\ UNCHANGED <<waits, runVars, interrupts, conn, let_down>>

PipelineEnds(c) ==
  /\ pipe[c]
  /\ pipe' = [pipe EXCEPT ![c] = FALSE]
  /\ UNCHANGED <<waits, runVars, interrupts, conn, let_down>>

(* The pipeline comes to use a part that is not there.  Without the store   *)
(* not even the failure can be published, and the session ends.             *)
PipelineFails(c, p) ==
  /\ pipe[c]
  /\ part[p] # "up"
  /\ pipe' = [pipe EXCEPT ![c] = FALSE]
  /\ conn' = [conn EXCEPT ![c] =
                IF part["store"] = "up" THEN @ ELSE "closed"]
  /\ let_down' = IF conn[c] = "open" THEN let_down \union {c} ELSE let_down
  /\ UNCHANGED <<waits, runVars, interrupts>>

(* The client's connection is lost; a pipeline it had started runs on. *)
Leave(c) ==
  /\ conn[c] = "open"
  /\ conn' = [conn EXCEPT ![c] = "closed"]
  /\ UNCHANGED <<waits, runVars, interrupts, pipe, let_down>>

(* asyncio.run cancels every task after a second Ctrl-C, and at its end.    *)
Cancelled(c) ==
  /\ interrupts > 1 \/ pc = "over"
  /\ conn[c] = "open" \/ pipe[c]
  /\ conn' = [conn EXCEPT ![c] = "closed"]
  /\ pipe' = [pipe EXCEPT ![c] = FALSE]
  /\ UNCHANGED <<waits, runVars, interrupts, let_down>>

-----------------------------------------------------------------------------
RunStep ==
  \/ StartPart
  \/ StartFails
  \/ Serve
  \/ Drain
  \/ StopPart
  \/ StopFails
  \/ StopDone

InterruptStep ==
  \/ InterruptStart
  \/ InterruptServe
  \/ InterruptDrain
  \/ InterruptStop

Next ==
  \/ RunStep
  \/ InterruptStep
  \/ \E c \in Clients :
       \/ Connect(c)
       \/ Begin(c)
       \/ PipelineEnds(c)
       \/ \E p \in Needed : PipelineFails(c, p)
       \/ Leave(c)
       \/ Cancelled(c)

Spec == Init /\ [][Next]_vars

(* What is started and stopped answers or raises, and a cancelled task      *)
(* ends.  Nothing is assumed of clients, of their pipelines or of Ctrl-C.   *)
Fairness ==
  /\ WF_vars(RunStep)
  /\ \A c \in Clients : WF_vars(Cancelled(c))

FairSpec == Spec /\ Fairness

-----------------------------------------------------------------------------
(* Types: the state is of the shape the code gives it, and only what can    *)
(* raise half-way is ever left half open; the server's socket never is.     *)
TypeOK ==
  /\ waits \in BOOLEAN
  /\ pc \in {"starting", "serving", "draining", "stopping", "over"}
  /\ todo \in Seq(Parts)
  /\ part \in [Parts -> {"down", "up", "stopped", "broken"}]
  /\ \A p \in Parts :
       part[p] = "broken" => p \in BreaksStarting \union BreaksStopping
  /\ failed \in BOOLEAN
  /\ interrupts \in 0..MaxInterrupts
  /\ conn \in [Clients -> {"none", "open", "closed"}]
  /\ pipe \in [Clients -> BOOLEAN]
  /\ let_down \subseteq Clients

(* A run in which no startup and no shutdown reported an error has stopped  *)
(* everything it had started, although the shutdown catches errors at two   *)
(* levels and skips parts after them.  An error of a service is only        *)
(* printed.                                                                 *)
CleanExit ==
  pc = "over" /\ ~ failed =>
    \A p \in Parts \ {"services"} : part[p] = "stopped"

(* A client that stays connected never has a request fail because a part    *)
(* it needs is not there, from the moment the server accepts it: except in  *)
(* a shutdown that does not wait for clients, or after a second Ctrl-C.     *)
ClientsServed == let_down # {} => pc \in {"stopping", "over"}
                                  /\ (~ waits \/ interrupts > 1)

(* What depends on a component goes first: when a part is stopped, those of *)
(* the components started after its own have been, except parts of the      *)
(* memory module that were given up on after an error in it.                *)
Place(p) == CHOOSE i \in DOMAIN StartOrder : StartOrder[i] = p

StopsInReverse ==
  [][\A p, q \in Parts :
       /\ part[p] = "up" /\ part'[p] \in {"stopped", "broken"}
       /\ Place(p) < Place(q) /\ ~ {p, q} \subseteq Memory
       /\ part'[q] = "up"
       => q \in Memory /\ \E m \in Memory : part[m] = "broken"]_vars

(* Shutdown comes to its end, whatever fails in it: at once on a Python     *)
(* that does not wait for clients, else when the last one has left.         *)
ShutdownEnds ==
  (waits => <>[](\A c \in Clients : conn[c] # "open"))
    => (pc \in {"draining", "stopping"} ~> pc = "over")
=============================================================================
