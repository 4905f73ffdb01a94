--------------------------- MODULE EventBusProofs ---------------------------
(***************************************************************************)
(* The invariants of EventBus, for every set of events, handlers and       *)
(* classes and every bound: PublishInv is inductive relative to the types, *)
(* and the properties follow from it.                                      *)
(***************************************************************************)
EXTENDS EventBus, TLAPS

USE DEF InFlight, CallStates, TaskStates, DbStates

(* A subscriber of the event's class or of every event is one of those that *)
(* publish would call now.                                                  *)
LEMMA RangeConcat ==
  ASSUME NEW S, NEW s \in Seq(S), NEW t \in Seq(S)
  PROVE  Range(s \o t) = Range(s) \union Range(t)
<1>1. \A i \in DOMAIN s : i \in DOMAIN (s \o t) /\ (s \o t)[i] = s[i]
  OBVIOUS
<1>2. \A i \in DOMAIN t :
        /\ Len(s) + i \in DOMAIN (s \o t)
        /\ (s \o t)[Len(s) + i] = t[i]
  OBVIOUS
<1>3. \A i \in DOMAIN (s \o t) :
        \/ i \in DOMAIN s /\ (s \o t)[i] = s[i]
        \/ i - Len(s) \in DOMAIN t /\ (s \o t)[i] = t[i - Len(s)]
  OBVIOUS
<1>4. ASSUME NEW x \in Range(s) \union Range(t)
      PROVE  x \in Range(s \o t)
  BY <1>1, <1>2 DEF Range
<1>5. ASSUME NEW x \in Range(s \o t)
      PROVE  x \in Range(s) \union Range(t)
  <2>1. PICK i \in DOMAIN (s \o t) : x = (s \o t)[i]
    BY DEF Range
  <2>2. QED
    BY <1>3, <2>1 DEF Range
<1>6. QED
  BY <1>4, <1>5

(* Subscribing one more handler hides none of those before it. *)
LEMMA RangeAppend ==
  ASSUME NEW S, NEW s \in Seq(S), NEW h \in S
  PROVE  Range(s) \subseteq Range(Append(s, h))
<1>1. \A i \in DOMAIN s : i \in DOMAIN Append(s, h) /\ Append(s, h)[i] = s[i]
  OBVIOUS
<1>2. QED
  BY <1>1 DEF Range

(* publish calls exactly the subscribers of the class and the global ones,  *)
(* and their list is a sequence of handlers.                                *)
LEMMA MatchingRange ==
  TypeOK => \A e \in Events :
    /\ Matching(e) \in Seq(Handlers)
    /\ Range(Matching(e)) =
         Range(subscribers[TypeOf[e]]) \union Range(global_subscribers)
<1> SUFFICES ASSUME TypeOK, NEW e \in Events
             PROVE  /\ Matching(e) \in Seq(Handlers)
                    /\ Range(Matching(e)) = Range(subscribers[TypeOf[e]])
                                              \union Range(global_subscribers)
  OBVIOUS
<1>1. TypeOf[e] \in Types
  BY EventBusAssumption
<1>2. /\ subscribers[TypeOf[e]] \in Seq(Handlers)
      /\ global_subscribers \in Seq(Handlers)
  BY <1>1 DEF TypeOK
<1>3. QED
  BY <1>2, RangeConcat DEF Matching

-----------------------------------------------------------------------------
(* No step breaks a type: the one hard case is a crash, which rewrites the  *)
(* tasks of every event.                                                    *)
LEMMA TypeStep == TypeOK /\ [Next]_vars => TypeOK'
<1> SUFFICES ASSUME TypeOK, [Next]_vars
             PROVE  TypeOK'
  OBVIOUS
<1> USE DEF TypeOK, storeVars, subVars, pubVars
<1>1. ASSUME NEW t \in Types, NEW h \in Handlers, Subscribe(t, h)
      PROVE  TypeOK'
  BY <1>1 DEF Subscribe
<1>2. ASSUME NEW h \in Handlers, SubscribeAll(h)
      PROVE  TypeOK'
  BY <1>2 DEF SubscribeAll
<1>3. ASSUME NEW e \in Events, Publish(e)
      PROVE  TypeOK'
  <2>1. Range(subscribers[TypeOf[e]]) \union Range(global_subscribers)
          \subseteq Handlers
    BY EventBusAssumption DEF Range
  <2>2. QED
    BY <1>3, <2>1 DEF Publish
<1>4. ASSUME NEW e \in Events, Insert(e)
      PROVE  TypeOK'
  BY <1>4 DEF Insert
<1>5. ASSUME NEW e \in Events, Commit(e)
      PROVE  TypeOK'
  BY <1>5 DEF Commit
<1>6. ASSUME NEW e \in Events, StoreFails(e)
      PROVE  TypeOK'
  BY <1>6 DEF StoreFails
<1>7. ASSUME NEW e \in Events, Dispatch(e)
      PROVE  TypeOK'
  <2> DEFINE new == [i \in 1..Len(Matching(e)) |-> "running"]
  <2>1. Matching(e) \in Seq(Handlers)
    BY MatchingRange
  <2>2. new \in Seq(TaskStates) /\ Len(new) = Len(Matching(e))
    BY <2>1
  <2> HIDE DEF new
  <2>3. /\ fan' = [fan EXCEPT ![e] = Matching(e)]
        /\ task' = [task EXCEPT ![e] = new]
        /\ call' \in [Events -> CallStates]
        /\ UNCHANGED <<storeVars, subVars, crashes, due>>
    BY <1>7 DEF Dispatch, new
  <2>4. QED
    BY <2>1, <2>2, <2>3
<1>8. ASSUME NEW e \in Events, PublishReturns(e) \/ PublishRaises(e)
      PROVE  TypeOK'
  BY <1>8 DEF PublishReturns, PublishRaises
<1>9. ASSUME NEW e \in Events, NEW i, NEW o \in {"done", "failed"},
             HandlerEnds(e, i, o)
      PROVE  TypeOK'
  BY <1>9 DEF HandlerEnds
<1>10. CASE StoreStartup
  BY <1>10 DEF StoreStartup
<1>11. CASE StoreShutdown
  BY <1>11 DEF StoreShutdown
<1>12. CASE Crash
  <2> DEFINE end(e) == [i \in DOMAIN task[e] |->
               IF task[e][i] = "running" THEN "dead" ELSE task[e][i]]
  <2>1. ASSUME NEW e \in Events
        PROVE  end(e) \in Seq(TaskStates) /\ Len(end(e)) = Len(task[e])
    <3>1. /\ Len(task[e]) \in Nat
          /\ DOMAIN task[e] = 1..Len(task[e])
          /\ \A i \in DOMAIN task[e] : task[e][i] \in TaskStates
      OBVIOUS
    <3>2. /\ end(e) \in [1..Len(task[e]) -> TaskStates]
          /\ DOMAIN end(e) = 1..Len(task[e])
      BY <3>1
    <3>3. QED
      BY <3>1, <3>2
  <2>2. task' \in [Events -> Seq(TaskStates)]
        /\ \A e \in Events : Len(task'[e]) = Len(fan'[e])
    BY <1>12, <2>1 DEF Crash
  <2>3. QED
    BY <1>12, <2>2, EventBusAssumption DEF Crash, NoSubscribers
<1>13. CASE UNCHANGED vars
  BY <1>13 DEF vars
<1>14. QED
  BY <1>1, <1>2, <1>3, <1>4, <1>5, <1>6, <1>7, <1>8, <1>9, <1>10, <1>11,
     <1>12, <1>13 DEF Next, EventProgress, HandlerProgress

(* The state keeps its types, and every event has one task per handler.     *)
THEOREM TypeCorrect == Spec => []TypeOK
<1>1. Init => TypeOK
  BY EventBusAssumption DEF Init, TypeOK, NoSubscribers
<1>2. QED
  BY <1>1, TypeStep, PTL DEF Spec

-----------------------------------------------------------------------------
(* Whoever subscribes meanwhile, publish loses none of the handlers it      *)
(* would have called before: nothing ever leaves the lists.                 *)
LEMMA MatchingGrows ==
  ASSUME TypeOK, TypeOK',
         \/ \E t \in Types, h \in Handlers : Subscribe(t, h)
         \/ \E h \in Handlers : SubscribeAll(h)
  PROVE  \A e \in Events : Range(Matching(e)) \subseteq Range(Matching(e)')
<1> SUFFICES ASSUME NEW e \in Events
             PROVE  Range(Matching(e)) \subseteq Range(Matching(e)')
  OBVIOUS
<1>1. TypeOf[e] \in Types
  BY EventBusAssumption
<1>2. Range(subscribers[TypeOf[e]]) \subseteq Range(subscribers'[TypeOf[e]])
  <2>1. \/ subscribers'[TypeOf[e]] = subscribers[TypeOf[e]]
        \/ \E h \in Handlers :
             subscribers'[TypeOf[e]] = Append(subscribers[TypeOf[e]], h)
    BY <1>1 DEF Subscribe, SubscribeAll, TypeOK
  <2>2. subscribers[TypeOf[e]] \in Seq(Handlers)
    BY <1>1 DEF TypeOK
  <2>3. QED
    BY <2>1, <2>2, RangeAppend
<1>3. Range(global_subscribers) \subseteq Range(global_subscribers')
  <2>1. \/ global_subscribers' = global_subscribers
        \/ \E h \in Handlers :
             global_subscribers' = Append(global_subscribers, h)
    BY DEF Subscribe, SubscribeAll
  <2>2. global_subscribers \in Seq(Handlers)
    BY DEF TypeOK
  <2>3. QED
    BY <2>1, <2>2, RangeAppend
<1>4. Range(Matching(e)) =
        Range(subscribers[TypeOf[e]]) \union Range(global_subscribers)
  BY MatchingRange
<1>5. /\ subscribers'[TypeOf[e]] \in Seq(Handlers)
      /\ global_subscribers' \in Seq(Handlers)
  BY <1>1 DEF TypeOK
<1>6. Range(Matching(e)') =
        Range(subscribers'[TypeOf[e]]) \union Range(global_subscribers')
  BY <1>5, RangeConcat DEF Matching
<1>7. QED
  BY <1>2, <1>3, <1>4, <1>6

(* The publication's own steps establish what PublishInv says of it, and    *)
(* the steps of the store, of subscribers and of other publications keep    *)
(* it.                                                                      *)
LEMMA PublishStep == TypeOK /\ PublishInv /\ [Next]_vars => PublishInv'
<1> SUFFICES ASSUME TypeOK, PublishInv, [Next]_vars
             PROVE  PublishInv'
  OBVIOUS
<1> TypeOK'
  BY TypeStep
<1> USE DEF PublishInv, storeVars, subVars, pubVars
<1>1. CASE \/ \E t \in Types, h \in Handlers : Subscribe(t, h)
           \/ \E h \in Handlers : SubscribeAll(h)
  <2>1. \A e \in Events : Range(Matching(e)) \subseteq Range(Matching(e)')
    BY <1>1, MatchingGrows
  <2>2. UNCHANGED <<storeVars, pubVars>>
    BY <1>1 DEF Subscribe, SubscribeAll
  <2>3. QED
    BY <2>1, <2>2
<1>2. ASSUME NEW e \in Events, Publish(e)
      PROVE  PublishInv'
  <2>1. \A d \in Events : Range(Matching(d)') = Range(Matching(d))
    BY <1>2 DEF Publish, Matching
  <2>2. due'[e] = Range(Matching(e))
    BY <1>2, MatchingRange DEF Publish, TypeOK
  <2>3. QED
    BY <1>2, <2>1, <2>2 DEF Publish, TypeOK
<1>3. ASSUME NEW e \in Events,
             Insert(e) \/ Commit(e) \/ StoreFails(e) \/ Dispatch(e)
      PROVE  PublishInv'
  <2>1. UNCHANGED <<subVars, due>>
    BY <1>3 DEF Insert, Commit, StoreFails, Dispatch
  <2>2. \A d \in Events : Range(Matching(d)') = Range(Matching(d))
    BY <2>1 DEF Matching
  <2>3. CASE Insert(e)
    BY <2>1, <2>2, <2>3 DEF Insert, TypeOK
  <2>4. CASE Commit(e)
    BY <2>1, <2>2, <2>4 DEF Commit, TypeOK
  <2>5. CASE StoreFails(e)
    BY <2>1, <2>2, <2>5 DEF StoreFails, TypeOK
  <2>6. CASE Dispatch(e)
    BY <2>1, <2>2, <2>6 DEF Dispatch, TypeOK
  <2>7. QED
    BY <1>3, <2>3, <2>4, <2>5, <2>6
<1>4. ASSUME NEW e \in Events, NEW i, NEW o \in {"done", "failed"},
             HandlerEnds(e, i, o)
      PROVE  PublishInv'
  BY <1>4 DEF HandlerEnds, Matching
<1>5. ASSUME NEW e \in Events, PublishReturns(e) \/ PublishRaises(e)
      PROVE  PublishInv'
  BY <1>5 DEF PublishReturns, PublishRaises, Matching, TypeOK
<1>6. CASE StoreStartup \/ StoreShutdown
  BY <1>6 DEF StoreStartup, StoreShutdown, Matching
<1>7. CASE Crash
  BY <1>7 DEF Crash, TypeOK
<1>8. CASE UNCHANGED vars
  BY <1>8 DEF vars, Matching
<1>9. QED
  BY <1>1, <1>2, <1>3, <1>4, <1>5, <1>6, <1>7, <1>8
     DEF Next, EventProgress, HandlerProgress

(* Where a publication stands tells what is true of its event. *)
THEOREM PublishInvariant == Spec => []PublishInv
<1>1. Init => PublishInv
  BY DEF Init, PublishInv
<1>2. QED
  BY <1>1, PublishStep, TypeCorrect, PTL DEF Spec

-----------------------------------------------------------------------------
(* No handler acts on an event that a crash could take back: whatever fails *)
(* and whenever the process dies, an event that was handed to a handler is  *)
(* in the file.                                                             *)
THEOREM Durability == Spec => []HandledIsDurable
<1>1. Init => HandledIsDurable
  BY DEF Init, HandledIsDurable
<1>2. TypeOK /\ PublishInv /\ HandledIsDurable /\ [Next]_vars
        => HandledIsDurable'
  <2> SUFFICES ASSUME TypeOK, PublishInv, HandledIsDurable, [Next]_vars
               PROVE  HandledIsDurable'
    OBVIOUS
  <2>1. durable \subseteq durable'
    BY DEF Next, EventProgress, HandlerProgress, Subscribe, SubscribeAll,
       Publish, Insert, Commit, StoreFails, Dispatch, HandlerEnds,
       PublishReturns, PublishRaises, StoreStartup, StoreShutdown, Crash,
       vars, storeVars
  <2>2. \/ fan' = fan
        \/ \E e \in Events : Dispatch(e)
    BY DEF Next, EventProgress, HandlerProgress, Subscribe, SubscribeAll,
       Publish, Insert, Commit, StoreFails, HandlerEnds, PublishReturns,
       PublishRaises, StoreStartup, StoreShutdown, Crash, vars, pubVars
  <2>3. CASE fan' = fan
    BY <2>1, <2>3 DEF HandledIsDurable
  <2>4. ASSUME NEW e \in Events, Dispatch(e)
        PROVE  HandledIsDurable'
    <3>1. e \in durable
      BY <2>4 DEF Dispatch, PublishInv
    <3>2. \A d \in Events : d # e => fan'[d] = fan[d]
      BY <2>4 DEF Dispatch, TypeOK
    <3>3. QED
      BY <2>1, <3>1, <3>2 DEF HandledIsDurable
  <2>5. QED
    BY <2>2, <2>3, <2>4
<1>3. QED
  BY <1>1, <1>2, TypeCorrect, PublishInvariant, PTL DEF Spec

(* A publish that returned has every one of its handlers behind it.         *)
THEOREM ReturnIsComplete == Spec => []ReturnedMeansHandled
<1>1. Init => ReturnedMeansHandled
  BY DEF Init, ReturnedMeansHandled
<1>2. /\ TypeOK /\ PublishInv /\ PublishInv' /\ ReturnedMeansHandled
      /\ [Next]_vars
      => ReturnedMeansHandled'
  <2> SUFFICES ASSUME TypeOK, PublishInv, PublishInv', ReturnedMeansHandled,
                      [Next]_vars, NEW d \in Events, call'[d] = "returned"
               PROVE  \A i \in DOMAIN task'[d] : task'[d][i] = "done"
    BY DEF ReturnedMeansHandled, PublishInv
  <2> USE DEF ReturnedMeansHandled, storeVars, subVars, pubVars
  <2>1. CASE \/ \E t \in Types, h \in Handlers : Subscribe(t, h)
             \/ \E h \in Handlers : SubscribeAll(h)
             \/ StoreStartup
             \/ StoreShutdown
             \/ UNCHANGED vars
    BY <2>1 DEF Subscribe, SubscribeAll, StoreStartup, StoreShutdown, vars
  <2>2. ASSUME NEW e \in Events,
               \/ Publish(e) \/ Insert(e) \/ Commit(e) \/ StoreFails(e)
               \/ PublishReturns(e) \/ PublishRaises(e)
        PROVE  \A i \in DOMAIN task'[d] : task'[d][i] = "done"
    <3>1. task' = task
      BY <2>2 DEF Publish, Insert, Commit, StoreFails, PublishReturns,
         PublishRaises
    <3>2. call[d] = "returned" \/ (d = e /\ PublishReturns(e))
      BY <2>2 DEF Publish, Insert, Commit, StoreFails, PublishReturns,
         PublishRaises, TypeOK
    <3>3. QED
      BY <3>1, <3>2 DEF PublishReturns
  <2>3. ASSUME NEW e \in Events, Dispatch(e)
        PROVE  \A i \in DOMAIN task'[d] : task'[d][i] = "done"
    <3>1. CASE d # e
      BY <2>3, <3>1 DEF Dispatch, TypeOK
    <3>2. CASE d = e
      <4>1. Matching(e) = <<>>
        BY <2>3, <3>2 DEF Dispatch, TypeOK
      <4>2. task'[e] = [i \in 1..Len(Matching(e)) |-> "running"]
        BY <2>3 DEF Dispatch, TypeOK
      <4>3. Len(Matching(e)) = 0
        BY <4>1
      <4>4. DOMAIN task'[e] = {}
        BY <4>2, <4>3
      <4>5. QED
        BY <3>2, <4>4
    <3>3. QED
      BY <3>1, <3>2
  <2>4. ASSUME NEW e \in Events, NEW i, NEW o \in {"done", "failed"},
               HandlerEnds(e, i, o)
        PROVE  \A j \in DOMAIN task'[d] : task'[d][j] = "done"
    BY <2>4 DEF HandlerEnds, TypeOK
  <2>5. CASE Crash
    <3>1. call[d] = "returned"
      BY <2>5 DEF Crash, TypeOK
    <3>2. \A i \in DOMAIN task[d] : task[d][i] = "done"
      BY <3>1
    <3>3. task'[d] = [i \in DOMAIN task[d] |->
                       IF task[d][i] = "running" THEN "dead" ELSE task[d][i]]
      BY <2>5 DEF Crash
    <3>4. QED
      BY <3>2, <3>3
  <2>6. QED
    BY <2>1, <2>2, <2>3, <2>4, <2>5 DEF Next, EventProgress, HandlerProgress
<1>3. QED
  BY <1>1, <1>2, TypeCorrect, PublishInvariant, PTL DEF Spec

(* Looking the handlers up only after the commit misses none of those that  *)
(* were subscribed when publish was called.                                 *)
THEOREM NobodyMissed == Spec => []NoSubscriberMissed
<1>1. Init => NoSubscriberMissed
  BY DEF Init, NoSubscriberMissed
<1>2. TypeOK /\ PublishInv /\ NoSubscriberMissed /\ [Next]_vars
        => NoSubscriberMissed'
  <2> SUFFICES ASSUME TypeOK, PublishInv, NoSubscriberMissed, [Next]_vars,
                      NEW d \in Events, call'[d] \in {"gather", "returned"}
               PROVE  due'[d] \subseteq Range(fan'[d])
    BY DEF NoSubscriberMissed
  <2> USE DEF NoSubscriberMissed, storeVars, subVars, pubVars
  <2>1. CASE \/ \E t \in Types, h \in Handlers : Subscribe(t, h)
             \/ \E h \in Handlers : SubscribeAll(h)
             \/ \E e \in Events, i \in Slots : HandlerProgress(e, i)
             \/ StoreStartup
             \/ StoreShutdown
             \/ UNCHANGED vars
    BY <2>1 DEF Subscribe, SubscribeAll, HandlerProgress, HandlerEnds,
       StoreStartup, StoreShutdown, vars
  <2>2. ASSUME NEW e \in Events,
               \/ Publish(e) \/ Insert(e) \/ Commit(e) \/ StoreFails(e)
               \/ PublishReturns(e) \/ PublishRaises(e)
        PROVE  due'[d] \subseteq Range(fan'[d])
    BY <2>2 DEF Publish, Insert, Commit, StoreFails, PublishReturns,
       PublishRaises, TypeOK
  <2>3. ASSUME NEW e \in Events, Dispatch(e)
        PROVE  due'[d] \subseteq Range(fan'[d])
    BY <2>3 DEF Dispatch, PublishInv, TypeOK
  <2>4. CASE Crash
    BY <2>4 DEF Crash, TypeOK
  <2>5. QED
    BY <2>1, <2>2, <2>3, <2>4 DEF Next, EventProgress
<1>3. QED
  BY <1>1, <1>2, TypeCorrect, PublishInvariant, PTL DEF Spec

-----------------------------------------------------------------------------
(* A step that changes the call of no event, or of events in flight only to *)
(* "raised" or "dead", is a failure (possibly of none) in the abstract log. *)
LEMMA FailStep ==
  ASSUME TypeOK, durable' = durable, fan' = fan,
         \A e \in Events : \/ Outcome(e)' = Outcome(e)
                           \/ Outcome(e) = "open" /\ Outcome(e)' = "error"
  PROVE  Log!Fail
<1> DEFINE S == {e \in Events : Outcome(e)' # Outcome(e)}
<1>1. \A e \in Events : Outcomes[e] = Outcome(e)
  BY DEF Outcomes
<1>2. S \in SUBSET {e \in Events : Outcomes[e] = "open"}
  BY <1>1
<1>3. Outcomes' = [e \in Events |-> IF e \in S THEN "error" ELSE Outcomes[e]]
  BY <1>1 DEF Outcomes
<1>4. Seen' = Seen
  BY DEF Seen
<1>5. QED
  BY <1>2, <1>3, <1>4 DEF Log!Fail

(* Every step of the bus is a step of the abstract log or leaves it alone.  *)
LEMMA LogStep ==
  TypeOK /\ PublishInv /\ [Next]_vars => [Log!LogNext]_Log!logVars
<1> SUFFICES ASSUME TypeOK, PublishInv, [Next]_vars
             PROVE  [Log!LogNext]_Log!logVars
  OBVIOUS
<1> USE DEF storeVars, subVars, pubVars
<1>1. CASE \/ \E t \in Types, h \in Handlers : Subscribe(t, h)
           \/ \E h \in Handlers : SubscribeAll(h)
           \/ \E e \in Events, i \in Slots : HandlerProgress(e, i)
           \/ StoreStartup
           \/ StoreShutdown
           \/ UNCHANGED vars
  <2>1. UNCHANGED <<durable, fan, call>>
    BY <1>1 DEF Subscribe, SubscribeAll, HandlerProgress, HandlerEnds,
       StoreStartup, StoreShutdown, vars
  <2>2. QED
    BY <2>1 DEF Log!logVars, Seen, Outcomes, Outcome
<1>2. ASSUME NEW e \in Events,
             \/ Publish(e) \/ Insert(e) \/ StoreFails(e) \/ PublishRaises(e)
      PROVE  Log!Fail
  <2>1. \A d \in Events :
          \/ Outcome(d)' = Outcome(d)
          \/ Outcome(d) = "open" /\ Outcome(d)' = "error"
    BY <1>2 DEF Publish, Insert, StoreFails, PublishRaises, Outcome, TypeOK
  <2>2. UNCHANGED <<durable, fan>>
    BY <1>2 DEF Publish, Insert, StoreFails, PublishRaises
  <2>3. QED
    BY <2>1, <2>2, FailStep
<1>3. ASSUME NEW e \in Events, Commit(e)
      PROVE  Log!Persist
  <2>1. UNCHANGED <<Seen, Outcomes>>
    BY <1>3 DEF Commit, Seen, Outcomes, Outcome, TypeOK
  <2>2. QED
    BY <1>3, <2>1 DEF Commit, Log!Persist, TypeOK
<1>4. ASSUME NEW e \in Events, PublishReturns(e)
      PROVE  Log!Succeed(e)
  <2>1. e \in durable /\ Outcomes[e] = "open"
    BY <1>4 DEF PublishReturns, PublishInv, Outcomes, Outcome
  <2>2. Outcomes' = [Outcomes EXCEPT ![e] = "ok"]
    BY <1>4 DEF PublishReturns, Outcomes, Outcome, TypeOK
  <2>3. UNCHANGED <<durable, Seen>>
    BY <1>4 DEF PublishReturns, Seen
  <2>4. QED
    BY <2>1, <2>2, <2>3 DEF Log!Succeed
<1>5. ASSUME NEW e \in Events, Dispatch(e)
      PROVE  Log!Deliver(e) \/ Log!Succeed(e)
  <2>1. /\ e \in durable
        /\ fan[e] = <<>>
        /\ Outcomes[e] = "open"
    BY <1>5 DEF Dispatch, PublishInv, Outcomes, Outcome
  <2>2. durable' = durable
    BY <1>5 DEF Dispatch
  <2>3. /\ fan'[e] = Matching(e)
        /\ \A d \in Events : d # e => fan'[d] = fan[d]
    BY <1>5 DEF Dispatch, TypeOK
  <2>4. Range(fan[e]) = {}
    BY <2>1 DEF Range
  <2>5. CASE Matching(e) = <<>>
    <3>1. fan' = fan
      BY <1>5, <2>1, <2>5 DEF Dispatch, TypeOK
    <3>2. Outcomes' = [Outcomes EXCEPT ![e] = "ok"]
      BY <1>5, <2>5 DEF Dispatch, Outcomes, Outcome, TypeOK
    <3>3. QED
      BY <2>1, <2>2, <3>1, <3>2 DEF Log!Succeed, Seen
  <2>6. CASE Matching(e) # <<>>
    <3>1. Outcomes' = Outcomes
      BY <1>5, <2>6 DEF Dispatch, Outcomes, Outcome, TypeOK
    <3>2. Range(Matching(e)) \in SUBSET Handlers
      BY MatchingRange DEF Range
    <3>3. Seen' = Seen \union ({e} \X Range(Matching(e)))
      BY <2>3, <2>4, <3>2 DEF Seen
    <3>4. ~ Log!Delivered(e)
      BY <2>4 DEF Log!Delivered, Seen
    <3>5. QED
      BY <2>1, <2>2, <3>1, <3>2, <3>3, <3>4 DEF Log!Deliver
  <2>7. QED
    BY <2>5, <2>6
<1>6. CASE Crash
  <2>1. \A d \in Events :
          \/ Outcome(d)' = Outcome(d)
          \/ Outcome(d) = "open" /\ Outcome(d)' = "error"
    BY <1>6 DEF Crash, Outcome, TypeOK
  <2>2. UNCHANGED <<durable, fan>>
    BY <1>6 DEF Crash
  <2>3. QED
    BY <2>1, <2>2, FailStep DEF Log!LogNext
<1>7. QED
  BY <1>1, <1>2, <1>3, <1>4, <1>5, <1>6
     DEF Next, EventProgress, Log!LogNext

(* The bus over its store implements the abstract event log.                *)
THEOREM Refinement == Spec => ImplementsLog
<1>1. Init => Log!LogInit
  BY DEF Init, Log!LogInit, Seen, Outcomes, Outcome, Range
<1>2. QED
  BY <1>1, LogStep, TypeCorrect, PublishInvariant, PTL
     DEF Spec, ImplementsLog, Log!LogSpec
=============================================================================
