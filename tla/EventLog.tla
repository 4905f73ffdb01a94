------------------------------ MODULE EventLog ------------------------------
(***************************************************************************)
(* What the event bus of Orion promises, with none of its mechanism: a     *)
(* durable log, the pairs of an event and a handler that has been given    *)
(* it, and the result every publication ended with.                        *)
(*                                                                         *)
(* An event reaches handlers in one batch and only once it is in the log   *)
(* for good; a publication succeeds only for an event in the log, and its  *)
(* result never changes.  Which handlers, how long they take and whether   *)
(* an event in the log is ever delivered is left open: a publisher may     *)
(* give up between the two.                                                *)
(***************************************************************************)
CONSTANTS Events,    \* the publications: every published event has its own id
          Handlers   \* the handlers that may be subscribed

VARIABLES durable,   \* the events that survive a crash of the runtime
          seen,      \* the pairs <<event, handler>> delivered so far
          result     \* what each publication ended with

Results == {"open", "ok", "error"}

logVars == <<durable, seen, result>>

Delivered(e) == \E h \in Handlers : <<e, h>> \in seen

LogInit ==
  /\ durable = {}
  /\ seen = {}
  /\ result = [e \in Events |-> "open"]

(* The log only grows; one write may make several events durable. *)
Persist ==
  /\ \E S \in SUBSET Events : durable' = durable \union S
  /\ UNCHANGED <<seen, result>>

(* The one delivery of an event, to all its handlers at once. *)
Deliver(e) ==
  /\ e \in durable
  /\ result[e] = "open"
  /\ ~ Delivered(e)
  /\ \E H \in SUBSET Handlers : seen' = seen \union ({e} \X H)
  /\ UNCHANGED <<durable, result>>

Succeed(e) ==
  /\ e \in durable
  /\ result[e] = "open"
  /\ result' = [result EXCEPT ![e] = "ok"]
  /\ UNCHANGED <<durable, seen>>

(* Publications fail one at a time, or all together when the runtime dies. *)
Fail ==
  /\ \E S \in SUBSET {e \in Events : result[e] = "open"} :
       result' = [e \in Events |-> IF e \in S THEN "error" ELSE result[e]]
  /\ UNCHANGED <<durable, seen>>

LogNext ==
  \/ Persist
  \/ Fail
  \/ \E e \in Events : Deliver(e) \/ Succeed(e)

LogSpec == LogInit /\ [][LogNext]_logVars
=============================================================================
