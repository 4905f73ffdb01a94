------------------------------ MODULE EventBus ------------------------------
(***************************************************************************)
(* EventBus.publish of Orion (bus/event_bus.py) over SQLiteEventStore      *)
(* (store/sqlite_store.py), one step per stretch of code between two       *)
(* awaits.                                                                 *)
(*                                                                         *)
(* A publication inserts its event in the transaction that the one shared  *)
(* connection has open, commits that transaction, and then hands the event *)
(* to every handler subscribed at that moment with asyncio.gather, which   *)
(* starts them all and raises at the first one that fails while the others *)
(* run on.  The publications of all tasks interleave: a commit writes the  *)
(* rows of every publication waiting for its own commit.  The process may  *)
(* die at any point; the next one opens the same file.                     *)
(*                                                                         *)
(* A handler that itself publishes is a running handler here, and its      *)
(* publication another element of Events.                                  *)
(***************************************************************************)
EXTENDS Integers, Sequences, Functions

CONSTANTS Events,            \* the publications; every event has its own id
          Handlers,          \* the handlers that may subscribe
          Types,             \* the event classes
          TypeOf,            \* the class of every event
          MaxSubscriptions,  \* bound: length of a list of subscribers
          MaxCrashes         \* bound: deaths of the process

ASSUME EventBusAssumption ==
  /\ TypeOf \in [Events -> Types]
  /\ MaxSubscriptions \in Nat
  /\ MaxCrashes \in Nat

VARIABLES
  db,                 \* the store's connection in this process
  crashes,            \* how often the process died
  subscribers,        \* the handlers of every event class, in order
  global_subscribers, \* the handlers of every event, in order
  pending,            \* rows inserted in the open transaction
  durable,            \* rows committed to the file
  call,               \* where every publication is
  due,                \* the handlers its publisher relied on (history)
  fan,                \* the handlers it was given to, in order
  task                \* the state of the task of each of them

storeVars == <<db, pending, durable>>
subVars == <<subscribers, global_subscribers>>
pubVars == <<call, due, fan, task>>
vars == <<storeVars, subVars, pubVars, crashes>>

(* "new": startup has not run yet; "closed": shutdown has.  The launcher    *)
(* starts and stops the store once in the life of a process.                *)
DbStates == {"new", "open", "closed"}

(* The states of a publication; a publisher awaits the ones in flight.      *)
InFlight == {"insert", "commit", "dispatch", "gather"}
CallStates == InFlight \union {"idle", "returned", "raised", "dead"}

TaskStates == {"running", "done", "failed", "dead"}

(* Variant: a subscriber of the event's class shadows the global ones. *)
MatchingShadowed(e) ==
  IF subscribers[TypeOf[e]] = <<>> THEN global_subscribers
  ELSE subscribers[TypeOf[e]]

(* all_handlers, as publish would compute it now. *)
Matching(e) == subscribers[TypeOf[e]] \o global_subscribers

NoSubscribers == [t \in Types |-> <<>>]

Init ==
  /\ db = "new"
  /\ crashes = 0
  /\ subscribers = NoSubscribers
  /\ global_subscribers = <<>>
  /\ pending = {}
  /\ durable = {}
  /\ call = [e \in Events |-> "idle"]
  /\ due = [e \in Events |-> {}]
  /\ fan = [e \in Events |-> <<>>]
  /\ task = [e \in Events |-> <<>>]

-----------------------------------------------------------------------------
(* Subscribing.  The lists keep duplicates and nothing ever leaves them.    *)

Subscribe(t, h) ==
  /\ Len(subscribers[t]) < MaxSubscriptions
  /\ subscribers' = [subscribers EXCEPT ![t] = Append(@, h)]
  /\ UNCHANGED <<storeVars, pubVars, crashes, global_subscribers>>

SubscribeAll(h) ==
  /\ Len(global_subscribers) < MaxSubscriptions
  /\ global_subscribers' = Append(global_subscribers, h)
  /\ UNCHANGED <<storeVars, pubVars, crashes, subscribers>>

-----------------------------------------------------------------------------
(* Publishing.                                                              *)

(* Variant: a publication that raised is tried again. *)
PublishRetries(e) ==
  /\ call[e] \in {"idle", "raised"}
  /\ call' = [call EXCEPT ![e] = IF db = "open" THEN "insert" ELSE "raised"]
  /\ UNCHANGED <<storeVars, subVars, crashes, due, fan, task>>

(* The call, up to the insert it queues on the connection; a store that is  *)
(* not started raises.                                                      *)
Publish(e) ==
  /\ call[e] = "idle"
  /\ call' = [call EXCEPT ![e] = IF db = "open" THEN "insert" ELSE "raised"]
  /\ due' = [due EXCEPT ![e] =
               Range(subscribers[TypeOf[e]]) \union Range(global_subscribers)]
  /\ UNCHANGED <<storeVars, subVars, crashes, fan, task>>

(* The row joins whatever transaction the shared connection has open. *)
Insert(e) ==
  /\ call[e] = "insert"
  /\ db = "open"
  /\ pending' = pending \union {e}
  /\ call' = [call EXCEPT ![e] = "commit"]
  /\ UNCHANGED <<subVars, crashes, db, durable, due, fan, task>>

(* Variant: a commit writes the row of its own publication and drops the    *)
(* rows of the others.                                                      *)
CommitOwnRow(e) ==
  /\ call[e] = "commit"
  /\ db = "open"
  /\ durable' = durable \union (pending \intersect {e})
  /\ pending' = {}
  /\ call' = [call EXCEPT ![e] = "dispatch"]
  /\ UNCHANGED <<subVars, crashes, db, due, fan, task>>

(* The commit of one publication writes the rows of all of them. *)
Commit(e) ==
  /\ call[e] = "commit"
  /\ db = "open"
  /\ durable' = durable \union pending
  /\ pending' = {}
  /\ call' = [call EXCEPT ![e] = "dispatch"]
  /\ UNCHANGED <<subVars, crashes, db, due, fan, task>>

(* The database refuses the statement, or the connection is closed by now.  *)
(* A row whose commit failed stays in the transaction, for the next commit. *)
StoreFails(e) ==
  /\ call[e] \in {"insert", "commit"}
  /\ call' = [call EXCEPT ![e] = "raised"]
  /\ UNCHANGED <<storeVars, subVars, crashes, due, fan, task>>

(* Variant: the global handlers are called but not awaited. *)
DispatchUngathered(e) ==
  /\ call[e] = "dispatch"
  /\ fan' = [fan EXCEPT ![e] = Matching(e)]
  /\ task' = [task EXCEPT ![e] =
                [i \in 1..Len(subscribers[TypeOf[e]]) |-> "running"]]
  /\ call' = [call EXCEPT ![e] =
                IF Matching(e) = <<>> THEN "returned" ELSE "gather"]
  /\ UNCHANGED <<storeVars, subVars, crashes, due>>

(* The publisher resumes after the commit, reads the subscribers only now,  *)
(* and gather starts a task for each.                                       *)
Dispatch(e) ==
  /\ call[e] = "dispatch"
  /\ fan' = [fan EXCEPT ![e] = Matching(e)]
  /\ task' = [task EXCEPT ![e] = [i \in 1..Len(Matching(e)) |-> "running"]]
  /\ call' = [call EXCEPT ![e] =
                IF Matching(e) = <<>> THEN "returned" ELSE "gather"]
  /\ UNCHANGED <<storeVars, subVars, crashes, due>>

HandlerEnds(e, i, outcome) ==
  /\ i \in DOMAIN task[e]
  /\ task[e][i] = "running"
  /\ task' = [task EXCEPT ![e][i] = outcome]
  /\ UNCHANGED <<storeVars, subVars, crashes, call, due, fan>>

(* Variant: publish returns at the first handler that is done. *)
PublishReturnsFirst(e) ==
  /\ call[e] = "gather"
  /\ \E i \in DOMAIN task[e] : task[e][i] = "done"
  /\ call' = [call EXCEPT ![e] = "returned"]
  /\ UNCHANGED <<storeVars, subVars, crashes, due, fan, task>>

PublishReturns(e) ==
  /\ call[e] = "gather"
  /\ \A i \in DOMAIN task[e] : task[e][i] = "done"
  /\ call' = [call EXCEPT ![e] = "returned"]
  /\ UNCHANGED <<storeVars, subVars, crashes, due, fan, task>>

(* Variant: publish waits for the other handlers before it raises. *)
PublishRaisesLast(e) ==
  /\ call[e] = "gather"
  /\ \E i \in DOMAIN task[e] : task[e][i] = "failed"
  /\ \A i \in DOMAIN task[e] : task[e][i] # "running"
  /\ call' = [call EXCEPT ![e] = "raised"]
  /\ UNCHANGED <<storeVars, subVars, crashes, due, fan, task>>

(* The first exception reaches the publisher; the other handlers run on.    *)
PublishRaises(e) ==
  /\ call[e] = "gather"
  /\ \E i \in DOMAIN task[e] : task[e][i] = "failed"
  /\ call' = [call EXCEPT ![e] = "raised"]
  /\ UNCHANGED <<storeVars, subVars, crashes, due, fan, task>>

-----------------------------------------------------------------------------
(* The store's life, and the process's.                                     *)

StoreStartup ==
  /\ db = "new"
  /\ db' = "open"
  /\ UNCHANGED <<subVars, pubVars, crashes, pending, durable>>

(* Closing the connection rolls the open transaction back. *)
StoreShutdown ==
  /\ db = "open"
  /\ db' = "closed"
  /\ pending' = {}
  /\ UNCHANGED <<subVars, pubVars, crashes, durable>>

(* The process dies, and another one comes up with the file as it is. *)
Crash ==
  /\ crashes < MaxCrashes
  /\ crashes' = crashes + 1
  /\ db' = "new"
  /\ pending' = {}
  /\ subscribers' = NoSubscribers
  /\ global_subscribers' = <<>>
  /\ call' = [e \in Events |-> IF call[e] \in InFlight THEN "dead" ELSE call[e]]
  /\ task' = [e \in Events |->
                [i \in DOMAIN task[e] |->
                   IF task[e][i] = "running" THEN "dead" ELSE task[e][i]]]
  /\ UNCHANGED <<durable, due, fan>>

-----------------------------------------------------------------------------
EventProgress(e) ==
  \/ Insert(e)
  \/ Commit(e)
  \/ StoreFails(e)
  \/ Dispatch(e)
  \/ PublishReturns(e)
  \/ PublishRaises(e)

HandlerProgress(e, i) ==
  \E outcome \in {"done", "failed"} : HandlerEnds(e, i, outcome)

(* The positions a list of handlers can have. *)
Slots == 1..(2 * MaxSubscriptions)

Next ==
  \/ \E t \in Types, h \in Handlers : Subscribe(t, h)
  \/ \E h \in Handlers : SubscribeAll(h)
  \/ \E e \in Events : Publish(e) \/ EventProgress(e)
  \/ \E e \in Events, i \in Slots : HandlerProgress(e, i)
  \/ StoreStartup
  \/ StoreShutdown
  \/ Crash

Spec == Init /\ [][Next]_vars

(* The connection's thread answers what is queued and the event loop        *)
(* resumes every publisher that has nothing left to await.  Of handlers     *)
(* nothing is assumed: the one that writes to a client waits as long as     *)
(* that client does not read.                                               *)
Fairness == \A e \in Events : WF_vars(EventProgress(e))

FairSpec == Spec /\ Fairness

-----------------------------------------------------------------------------
(* Types: the state is of the shape the code gives it, and there is one     *)
(* task for every handler an event was given to.                            *)
TypeOK ==
  /\ db \in DbStates
  /\ crashes \in 0..MaxCrashes
  /\ subscribers \in [Types -> Seq(Handlers)]
  /\ global_subscribers \in Seq(Handlers)
  /\ pending \subseteq Events
  /\ durable \subseteq Events
  /\ call \in [Events -> CallStates]
  /\ due \in [Events -> SUBSET Handlers]
  /\ fan \in [Events -> Seq(Handlers)]
  /\ task \in [Events -> Seq(TaskStates)]
  /\ \A e \in Events : Len(task[e]) = Len(fan[e])

(* An event that some handler has been given is in the file for good, also  *)
(* after a crash: publish awaits the commit before it reads its handlers,   *)
(* so nothing acts on an event that a restart could forget.                 *)
HandledIsDurable ==
  \A e \in Events : fan[e] # <<>> => e \in durable

(* A publish that returns has every handler behind it: nothing it started   *)
(* is still running, nothing failed, and the event is in the file.          *)
ReturnedMeansHandled ==
  \A e \in Events :
    call[e] = "returned" =>
      /\ e \in durable
      /\ \A i \in DOMAIN task[e] : task[e][i] = "done"

(* A handler that was subscribed when publish was called is given the       *)
(* event, although publish looks the handlers up only after two awaits.     *)
NoSubscriberMissed ==
  \A e \in Events :
    call[e] \in {"gather", "returned"} => due[e] \subseteq Range(fan[e])

(* A publisher that never comes to its end waits for a handler of its own   *)
(* event that never does, none of its handlers having failed.  A handler    *)
(* that hangs thus holds up the publications it was started by and no       *)
(* other: not the store, not the publications that share the transaction or *)
(* the handlers, and not its own publisher once another handler has failed. *)
PublishSettles ==
  \A e \in Events :
    <>[](call[e] \in InFlight) =>
      <>[](/\ \E i \in DOMAIN task[e] : task[e][i] = "running"
           /\ \A i \in DOMAIN task[e] : task[e][i] # "failed")

-----------------------------------------------------------------------------
(* The bus implements the abstract log.                                     *)
Outcome(e) ==
  CASE call[e] = "returned" -> "ok"
    [] call[e] \in {"raised", "dead"} -> "error"
    [] OTHER -> "open"

Outcomes == [e \in Events |-> Outcome(e)]

Seen == {p \in Events \X Handlers : p[2] \in Range(fan[p[1]])}

Log == INSTANCE EventLog WITH seen <- Seen, result <- Outcomes

(* Every step of the bus is one the abstract log allows: durable events     *)
(* stay, an event is delivered once, in one batch, and only while its       *)
(* publication is open and the event durable, and results are final.        *)
ImplementsLog == Log!LogSpec

(* Where a publication stands decides what is already true of its event:    *)
(* no step of the store, of another publication or of a subscriber undoes   *)
(* it.  With this the four invariants above are inductive.                  *)
PublishInv ==
  \A e \in Events :
    /\ db = "new" => call[e] \notin InFlight
    /\ call[e] = "commit" /\ db = "open" => e \in pending \union durable
    /\ call[e] \in {"dispatch", "gather", "returned"} => e \in durable
    /\ call[e] \in {"idle", "insert", "commit", "dispatch"} => fan[e] = <<>>
    /\ call[e] \in {"insert", "commit", "dispatch"} =>
         due[e] \subseteq Range(Matching(e))
=============================================================================
