-------------------------- MODULE LifecycleProofs --------------------------
(***************************************************************************)
(* That a run without reported errors has stopped everything, that a       *)
(* connected client never meets a part that is not there, and that what    *)
(* depends on a component goes first, for any number of clients and of     *)
(* Ctrl-C.  The argument: the loops of run() walk StartOrder and StopOrder,*)
(* so the place they have reached says what state every part is in.        *)
(***************************************************************************)
EXTENDS Lifecycle, SequenceTheorems, TLAPS

AllUp == \A p \in Parts : part[p] = "up"
NoneOpen == \A c \in Clients : conn[c] # "open"
MemoryBroken == \E m \in Memory : part[m] = "broken"

(* The first k parts of the order have started. *)
StartedTo(k) ==
  /\ todo = SubSeq(StartOrder, k + 1, 8)
  /\ \A i \in 1..8 : part[StartOrder[i]] = IF i <= k THEN "up" ELSE "down"

GoneOrGivenUp(p) == part[p] # "up" \/ (p \in Memory /\ MemoryBroken)

(* The first j parts of the order were stopped, or given up on after an     *)
(* error in the memory module; the embeddings went with the vector store.   *)
StoppedTo(j) ==
  /\ todo = SubSeq(StopOrder, j + 1, 7)
  /\ MemoryBroken => j >= 6
  /\ \A i \in 1..j : /\ GoneOrGivenUp(StopOrder[i])
                     /\ ~ failed /\ i # 2 => part[StopOrder[i]] = "stopped"
  /\ j >= 5 => /\ GoneOrGivenUp("embeddings")
               /\ ~ failed => part["embeddings"] = "stopped"

StartingInv ==
  pc = "starting" =>
    /\ ~ failed /\ interrupts = 0
    /\ \E k \in 0..8 : StartedTo(k)
    /\ part["server"] # "up" => NoneOpen

RunningInv ==
  /\ pc = "serving" => AllUp /\ ~ failed /\ interrupts = 0
  /\ pc = "draining" => AllUp /\ ~ failed /\ interrupts = 1

StoppingInv ==
  pc = "stopping" => interrupts >= 1 /\ \E j \in 0..7 : StoppedTo(j)

(* After a shutdown that has waited for the clients none is connected; the *)
(* one run that is over with clients was interrupted before it served.      *)
EndInv ==
  waits /\ interrupts <= 1 =>
    /\ pc = "stopping" => NoneOpen
    /\ pc = "over" => NoneOpen \/ AllUp

LifecycleInv ==
  /\ TypeOK
  /\ StartingInv
  /\ RunningInv
  /\ StoppingInv
  /\ EndInv
  /\ CleanExit
  /\ ClientsServed

-----------------------------------------------------------------------------
(* The orders, item by item. *)
LEMMA Orders ==
  /\ StartOrder \in Seq(Parts) /\ Len(StartOrder) = 8
  /\ StartOrder[1] = "store" /\ StartOrder[2] = "embeddings"
  /\ StartOrder[3] = "summary" /\ StartOrder[4] = "vector"
  /\ StartOrder[5] = "graph" /\ StartOrder[6] = "mcp"
  /\ StartOrder[7] = "services" /\ StartOrder[8] = "server"
  /\ StopOrder \in Seq(Parts) /\ Len(StopOrder) = 7
  /\ StopOrder[1] = "server" /\ StopOrder[2] = "services"
  /\ StopOrder[3] = "mcp" /\ StopOrder[4] = "graph" /\ StopOrder[5] = "vector"
  /\ StopOrder[6] = "summary" /\ StopOrder[7] = "store"
<1>1. \A i \in DOMAIN StartOrder : StartOrder[i] \in Parts
  BY DEF Parts, ToSet
<1>2. Parts = {"store", "embeddings", "summary", "vector", "graph", "mcp",
               "services", "server"}
  <2>1. Parts = {StartOrder[i] : i \in 1..8}
    BY DEF Parts, ToSet, StartOrder
  <2>2. QED  BY <2>1 DEF StartOrder
<1>3. QED  BY <1>2 DEF StartOrder, StopOrder

(* Parts, as a set. *)
LEMMA PartsAre ==
  Parts = {"store", "embeddings", "summary", "vector", "graph", "mcp",
           "services", "server"}
<1>1. Parts = {StartOrder[i] : i \in 1..8}
  BY DEF Parts, ToSet, StartOrder
<1>2. QED  BY <1>1 DEF StartOrder

(* No part starts twice. *)
LEMMA Distinct ==
  \A i, j \in 1..8 : StartOrder[i] = StartOrder[j] => i = j
<1> HIDE DEF StartOrder
<1>1. ASSUME NEW i \in 1..8
      PROVE  i \in {1, 2, 3, 4, 5, 6, 7, 8}
  OBVIOUS
<1>2. \A i, j \in {1, 2, 3, 4, 5, 6, 7, 8} :
        StartOrder[i] = StartOrder[j] => i = j
  BY Orders
<1>3. QED  BY <1>1, <1>2

(* The loop over the parts: what is left after the first k. *)
LEMMA LeftOf ==
  ASSUME NEW S, NEW s \in Seq(S), NEW k \in 0..Len(s)
  PROVE  LET t == SubSeq(s, k + 1, Len(s)) IN
         /\ t \in Seq(S)
         /\ t = <<>> <=> k = Len(s)
         /\ k < Len(s) => /\ Head(t) = s[k + 1]
                          /\ Tail(t) = SubSeq(s, k + 2, Len(s))
<1> DEFINE t == SubSeq(s, k + 1, Len(s))
<1>1. /\ t \in Seq(S)
      /\ Len(t) = IF k + 1 <= Len(s) THEN Len(s) - (k + 1) + 1 ELSE 0
  BY SubSeqProperties, Len(s) \in Nat
<1>2. t = <<>> <=> Len(t) = 0
  BY <1>1
<1>3. Len(s) \in Nat /\ k \in Nat
  OBVIOUS
<1>4. t = <<>> <=> k = Len(s)
  BY <1>1, <1>2, <1>3
<1>5. ASSUME k < Len(s)
      PROVE  Head(t) = s[k + 1] /\ Tail(t) = SubSeq(s, k + 2, Len(s))
  <2>1. k + 1 \in 1..Len(s) /\ Len(s) \in k + 1..Len(s)
    BY <1>3, <1>5
  <2>2. k + 1 + 1 = k + 2
    BY <1>3
  <2>3. QED  BY <2>1, <2>2, HeadTailOfSubSeq
<1>6. QED  BY <1>1, <1>4, <1>5

-----------------------------------------------------------------------------
(* What is left of the two loops. *)
LEMMA StartLeft ==
  ASSUME NEW k \in 0..8, StartedTo(k)
  PROVE  /\ todo = <<>> <=> k = 8
         /\ k < 8 => /\ Head(todo) = StartOrder[k + 1]
                     /\ Tail(todo) = SubSeq(StartOrder, k + 2, 8)
<1> HIDE DEF StartOrder
<1>1. k \in 0..Len(StartOrder) /\ StartOrder \in Seq(Parts)
  BY Orders
<1>2. todo = SubSeq(StartOrder, k + 1, Len(StartOrder)) /\ Len(StartOrder) = 8
  BY Orders DEF StartedTo
<1>3. QED  BY <1>1, <1>2, LeftOf

LEMMA StopLeft ==
  ASSUME NEW j \in 0..7, StoppedTo(j)
  PROVE  /\ todo = <<>> <=> j = 7
         /\ j < 7 => /\ Head(todo) = StopOrder[j + 1]
                     /\ Tail(todo) = SubSeq(StopOrder, j + 2, 7)
<1> HIDE DEF StopOrder
<1>1. j \in 0..Len(StopOrder) /\ StopOrder \in Seq(Parts)
  BY Orders
<1>2. todo = SubSeq(StopOrder, j + 1, Len(StopOrder)) /\ Len(StopOrder) = 7
  BY Orders DEF StoppedTo
<1>3. QED  BY <1>1, <1>2, LeftOf

(* The whole of StopOrder, and the store alone. *)
LEMMA StopEnds ==
  /\ StopOrder = SubSeq(StopOrder, 1, 7)
  /\ <<"store">> = SubSeq(StopOrder, 7, 7)
<1>1. StopOrder = SubSeq(StopOrder, 1, 7)
  BY Orders, SubSeqFull
<1>2. SubSeq(StopOrder, 7, 7) = <<StopOrder[7]>> \o SubSeq(StopOrder, 8, 7)
  BY Orders, SubSeqRecursiveFirst
<1>3. SubSeq(StopOrder, 8, 7) = <<>>
  BY SubSeqEmpty
<1>4. <<"store">> \o <<>> = <<"store">>
  OBVIOUS
<1>5. QED  BY <1>1, <1>2, <1>3, <1>4, Orders

(* Every step keeps the types. *)
LEMMA TypeStep == TypeOK /\ [Next]_vars => TypeOK'
<1> SUFFICES ASSUME TypeOK, [Next]_vars PROVE TypeOK'
  OBVIOUS
<1> USE PartsAre, Orders DEF TypeOK, BreaksStarting, BreaksStopping
<1> HIDE DEF StartOrder, StopOrder
<1>1. StopOrder \in Seq(Parts) /\ <<"store">> \in Seq(Parts)
  OBVIOUS
<1>2. ASSUME todo # <<>> PROVE Head(todo) \in Parts /\ Tail(todo) \in Seq(Parts)
  BY <1>2, HeadTailProperties
<1>3. CASE RunStep
  <2>1. CASE StartPart  BY <2>1, <1>2 DEF StartPart, clientVars
  <2>2. CASE StartFails  BY <2>2, <1>2 DEF StartFails, clientVars
  <2>3. CASE Serve  BY <2>3 DEF Serve, clientVars
  <2>4. CASE Drain  BY <2>4, <1>1 DEF Drain, clientVars
  <2>5. CASE StopPart  BY <2>5, <1>2 DEF StopPart, Stopped, clientVars
  <2>6. CASE StopFails  BY <2>6, <1>1, <1>2 DEF StopFails, Stopped, clientVars
  <2>7. CASE StopDone  BY <2>7 DEF StopDone, clientVars
  <2>8. QED  BY <1>3, <2>1, <2>2, <2>3, <2>4, <2>5, <2>6, <2>7 DEF RunStep
<1>4. CASE InterruptStep
  <2> USE LifecycleAssumption DEF Interrupt, clientVars
  <2>1. CASE InterruptStart
    <3>1. part' \in [Parts -> {"down", "up", "stopped", "broken"}]
          /\ \A p \in Parts :
               part'[p] = "broken" => p \in BreaksStarting \union BreaksStopping
      BY <2>1, <1>2 DEF InterruptStart
    <3>2. QED  BY <2>1, <3>1 DEF InterruptStart
  <2>2. CASE InterruptServe  BY <2>2 DEF InterruptServe
  <2>3. CASE InterruptDrain  BY <2>3, <1>1 DEF InterruptDrain
  <2>4. CASE InterruptStop  BY <2>4, <1>2 DEF InterruptStop, Stopped
  <2>5. QED  BY <1>4, <2>1, <2>2, <2>3, <2>4 DEF InterruptStep
<1>5. CASE \E c \in Clients :
             \/ Connect(c) \/ Begin(c) \/ PipelineEnds(c)
             \/ \E p \in Needed : PipelineFails(c, p)
             \/ Leave(c) \/ Cancelled(c)
  <2> USE DEF runVars
  <2>1. PICK c \in Clients :
             \/ Connect(c) \/ Begin(c) \/ PipelineEnds(c)
             \/ \E p \in Needed : PipelineFails(c, p)
             \/ Leave(c) \/ Cancelled(c)
    BY <1>5
  <2>2. CASE Connect(c)  BY <2>2 DEF Connect
  <2>3. CASE Begin(c)  BY <2>3 DEF Begin
  <2>4. CASE PipelineEnds(c)  BY <2>4 DEF PipelineEnds
  <2>5. CASE \E p \in Needed : PipelineFails(c, p)
    <3>1. conn' \in [Clients -> {"none", "open", "closed"}]
      BY <2>5 DEF PipelineFails
    <3>2. let_down' \subseteq Clients
      BY <2>5 DEF PipelineFails
    <3>3. QED  BY <2>5, <3>1, <3>2 DEF PipelineFails
  <2>6. CASE Leave(c)  BY <2>6 DEF Leave
  <2>7. CASE Cancelled(c)  BY <2>7 DEF Cancelled
  <2>8. QED  BY <2>1, <2>2, <2>3, <2>4, <2>5, <2>6, <2>7
<1>6. CASE UNCHANGED vars
  BY <1>6 DEF vars, runVars, clientVars
<1>7. QED  BY <1>3, <1>4, <1>5, <1>6 DEF Next

-----------------------------------------------------------------------------
(* What the place in the loops says, used in the steps below. *)
LEMMA AtStart ==
  ASSUME TypeOK, NEW k \in 0..8, StartedTo(k)
  PROVE  /\ k = 8 => AllUp
         /\ k < 8 => part["server"] # "up" /\ ~ AllUp
<1> HIDE DEF StartOrder
<1>1. ASSUME k = 8 PROVE AllUp
  BY <1>1, Orders, PartsAre DEF StartedTo, AllUp
<1>2. ASSUME k < 8 PROVE part[StartOrder[8]] = "down"
  BY <1>2 DEF StartedTo
<1>3. QED  BY <1>1, <1>2, Orders, PartsAre DEF AllUp

(* Starting: every step of it. *)
LEMMA StartStep ==
  ASSUME LifecycleInv, TypeOK', pc = "starting",
         StartPart \/ StartFails \/ Serve \/ InterruptStart
  PROVE  LifecycleInv'
<1> HIDE DEF StartOrder, StopOrder
<1>1. PICK k \in 0..8 : StartedTo(k)
  BY DEF LifecycleInv, StartingInv
<1>2. /\ ~ failed /\ interrupts = 0
      /\ part["server"] # "up" => NoneOpen
  BY DEF LifecycleInv, StartingInv
<1>3. let_down = {}
  BY DEF LifecycleInv, ClientsServed
<1>4. NoneOpen \/ AllUp
  BY <1>1, <1>2, AtStart DEF LifecycleInv
<1>5. CASE StartPart
  <2>1. /\ k < 8 /\ part' = [part EXCEPT ![StartOrder[k + 1]] = "up"]
        /\ todo' = SubSeq(StartOrder, k + 2, 8)
    <3>1. k < 8
      BY <1>1, <1>5, StartLeft DEF StartPart
    <3>2. QED  BY <1>1, <1>5, <3>1, StartLeft DEF StartPart
  <2>2. \A i \in 1..8 : part'[StartOrder[i]] = IF i <= k + 1 THEN "up" ELSE "down"
    <3>1. TAKE i \in 1..8
    <3> k + 1 \in 1..8
      BY <2>1
    <3>2. i # k + 1 => StartOrder[i] # StartOrder[k + 1]
      BY Distinct
    <3>3. StartOrder[i] \in DOMAIN part
      BY Orders, PartsAre DEF LifecycleInv, TypeOK
    <3>4. QED  BY <1>1, <2>1, <3>2, <3>3 DEF StartedTo
  <2>3. StartedTo(k + 1)' /\ k + 1 \in 0..8
    BY <2>1, <2>2, k + 1 + 1 = k + 2 DEF StartedTo
  <2>4. part'["server"] # "up" => NoneOpen'
    BY <1>2, <1>5, PartsAre DEF StartPart, NoneOpen, clientVars, LifecycleInv, TypeOK
  <2>5. StartingInv'
    BY <1>2, <1>5, <2>3, <2>4 DEF StartPart, StartingInv
  <2>6. QED
    BY <1>3, <1>5, <2>5 DEF StartPart, clientVars, LifecycleInv, RunningInv,
       StoppingInv, EndInv, CleanExit, ClientsServed
<1>6. CASE StartFails
  <2>1. NoneOpen
    BY <1>1, <1>2, <1>6, StartLeft, AtStart DEF StartFails, LifecycleInv
  <2>2. NoneOpen'
    BY <1>6, <2>1 DEF StartFails, NoneOpen, clientVars
  <2>3. QED
    BY <1>3, <1>6, <2>2 DEF StartFails, clientVars, LifecycleInv, StartingInv,
       RunningInv, StoppingInv, EndInv, CleanExit, ClientsServed
<1>7. CASE Serve
  <2>1. AllUp'
    BY <1>1, <1>7, StartLeft, AtStart DEF Serve, AllUp, LifecycleInv
  <2>2. QED
    BY <1>2, <1>3, <1>7, <2>1 DEF Serve, clientVars, LifecycleInv, StartingInv,
       RunningInv, StoppingInv, EndInv, CleanExit, ClientsServed
<1>8. CASE InterruptStart
  <2>1. NoneOpen' \/ AllUp'
    <3>1. CASE todo = <<>>
      BY <1>4, <1>8, <3>1 DEF InterruptStart, Interrupt, clientVars, NoneOpen,
         AllUp
    <3>2. CASE todo # <<>>
      <4>1. NoneOpen
        BY <1>1, <1>2, <3>2, StartLeft, AtStart DEF LifecycleInv
      <4>2. QED
        BY <1>8, <4>1 DEF InterruptStart, Interrupt, clientVars, NoneOpen
    <3>3. QED  BY <3>1, <3>2
  <2>2. QED
    BY <1>3, <1>8, <2>1 DEF InterruptStart, Interrupt, clientVars, LifecycleInv,
       StartingInv, RunningInv, StoppingInv, EndInv, CleanExit, ClientsServed
<1>9. QED  BY <1>5, <1>6, <1>7, <1>8

-----------------------------------------------------------------------------
(* What was let go stays let go while the parts stop. *)
LEMMA StillGone ==
  ASSUME TypeOK, NEW S,
         \A p \in Parts : part'[p] # part[p] => p \in S,
         \A p \in S : part'[p] # "up",
         \A m \in Memory \intersect S : part[m] # "broken",
         NEW q \in Parts, GoneOrGivenUp(q)
  PROVE  GoneOrGivenUp(q)'
<1>1. MemoryBroken => MemoryBroken'
  BY PartsAre DEF MemoryBroken, Memory
<1>2. part[q] # "up" => part'[q] # "up"
  OBVIOUS
<1>3. QED  BY <1>1, <1>2 DEF GoneOrGivenUp

(* Drain, and the Ctrl-C that cuts it short. *)
LEMMA DrainStep ==
  ASSUME LifecycleInv, TypeOK', pc = "draining", Drain \/ InterruptDrain
  PROVE  LifecycleInv'
<1> HIDE DEF StartOrder, StopOrder
<1>1. AllUp /\ ~ failed /\ interrupts = 1
  BY DEF LifecycleInv, RunningInv
<1>2. let_down = {}
  BY DEF LifecycleInv, ClientsServed
<1>3. /\ pc' = "stopping" /\ todo' = StopOrder
      /\ UNCHANGED <<waits, part, failed, conn, let_down>>
      /\ interrupts' \in {1, 2}
      /\ (Drain /\ interrupts' = 1) \/ interrupts' = 2
  BY <1>1 DEF Drain, InterruptDrain, Interrupt, clientVars
<1>4. StoppedTo(0)'
  <2>1. ~ MemoryBroken'
    BY <1>1, <1>3, PartsAre DEF AllUp, MemoryBroken, Memory
  <2>2. QED  BY <1>3, <2>1, StopEnds DEF StoppedTo
<1>5. StoppingInv'
  BY <1>3, <1>4 DEF StoppingInv
<1>6. waits' /\ interrupts' <= 1 => NoneOpen'
  BY <1>3 DEF Drain, Closed, NoneOpen
<1>7. QED
  BY <1>2, <1>3, <1>5, <1>6 DEF LifecycleInv, StartingInv, RunningInv, EndInv,
     CleanExit, ClientsServed

(* One part stops, or breaks while it is stopped. *)
LEMMA StopStep ==
  ASSUME LifecycleInv, TypeOK', pc = "stopping", StopPart \/ StopFails
  PROVE  LifecycleInv'
<1> HIDE DEF StartOrder, StopOrder
<1>1. PICK j \in 0..7 : StoppedTo(j)
  BY DEF LifecycleInv, StoppingInv
<1> DEFINE p == StopOrder[j + 1]
           gone == IF p = "vector" THEN {p, "embeddings"} ELSE {p}
<1>2. j < 7
  <2>1. todo # <<>>
    BY DEF StopPart, StopFails
  <2>2. QED  BY <1>1, <2>1, StopLeft
<1>3. j \in {0, 1, 2, 3, 4, 5, 6}
  BY <1>2
<1>4. Head(todo) = p /\ Tail(todo) = SubSeq(StopOrder, j + 2, 7)
  BY <1>1, <1>2, StopLeft
<1>5. /\ p \in Parts /\ gone \subseteq Parts
      /\ (p = "services" => j = 1) /\ (p = "vector" <=> j = 4)
      /\ (p \in Memory => j \in {3, 4, 5}) /\ (j = 6 => p = "store")
      /\ (p \in Memory /\ p \in BreaksStopping => j \in {3, 4})
  BY <1>3, Orders, PartsAre DEF Memory, BreaksStopping
<1>6. /\ pc' = "stopping" /\ UNCHANGED <<waits, interrupts, conn, let_down>>
      /\ ~ failed' => ~ failed
  <2>1. CASE StopPart  BY <2>1 DEF StopPart, clientVars
  <2>2. CASE StopFails
    <3>1. failed' = (failed \/ p # "services")
      BY <1>4, <2>2 DEF StopFails
    <3>2. failed \in BOOLEAN /\ failed' \in BOOLEAN
      BY DEF LifecycleInv, TypeOK
    <3>3. ~ failed' => ~ failed
      BY <3>1, <3>2
    <3>4. QED  BY <2>2, <3>3 DEF StopFails, clientVars
  <2>3. QED  BY <2>1, <2>2
<1>7. PICK state \in {"stopped", "broken"} :
        /\ Stopped(p, state)
        /\ state = "stopped" => StopPart
        /\ state = "broken" => StopFails
  <2>1. CASE StopPart  BY <1>4, <2>1 DEF StopPart
  <2>2. CASE StopFails  BY <1>4, <2>2 DEF StopFails
  <2>3. QED  BY <2>1, <2>2
<1>8. /\ part'[p] = state
      /\ p = "vector" => part'["embeddings"] = "stopped"
      /\ \A q \in Parts \ gone : part'[q] = part[q]
  BY <1>5, <1>7, PartsAre DEF Stopped, LifecycleInv, TypeOK
<1>9. /\ \A q \in gone : part'[q] # "up"
      /\ \A m \in Memory \intersect gone : part[m] # "broken"
  <2>1. \A q \in gone : part'[q] # "up"
    BY <1>8
  <2>2. ~ MemoryBroken \/ p = "store"
    BY <1>1, <1>3, <1>5 DEF StoppedTo
  <2>3. QED  BY <2>1, <2>2 DEF MemoryBroken, Memory
<1>10. \A q \in Parts : GoneOrGivenUp(q) \/ q \in gone => GoneOrGivenUp(q)'
  <2>1. \A q \in Parts : part'[q] # part[q] => q \in gone
    BY <1>8
  <2>2. \A q \in Parts : GoneOrGivenUp(q) => GoneOrGivenUp(q)'
    BY <1>9, <2>1, StillGone DEF LifecycleInv
  <2>3. \A q \in gone : GoneOrGivenUp(q)'
    BY <1>9 DEF GoneOrGivenUp
  <2>4. QED  BY <2>2, <2>3
<1>11. \A q \in Parts : ~ failed /\ part[q] = "stopped" /\ q # p
                          => part'[q] = "stopped"
  BY <1>8
<1>12. \A i \in 1..7 : StopOrder[i] \in Parts
  <2>1. StopOrder \in Seq(Parts) /\ Len(StopOrder) = 7
    BY Orders
  <2>2. QED  BY <2>1, ElementOfSeq
<1>13. \A i \in 1..j + 1 : i \in 1..j \/ StopOrder[i] = p
  <2>1. \A i \in 1..j + 1 : i \in 1..j \/ i = j + 1
    BY <1>3
  <2>2. QED  BY <2>1
<1>14. \A i \in 1..j + 1 : GoneOrGivenUp(StopOrder[i])'
  <2>1. p \in gone
    OBVIOUS
  <2>2. \A i \in 1..j + 1 : GoneOrGivenUp(StopOrder[i]) \/ StopOrder[i] \in gone
    BY <1>1, <1>13, <2>1 DEF StoppedTo
  <2>3. QED  BY <1>2, <1>10, <1>12, <2>2
<1>15. j + 1 >= 5 => GoneOrGivenUp("embeddings")'
  <2>1. j = 4 => "embeddings" \in gone
    BY <1>5
  <2>2. j >= 5 => GoneOrGivenUp("embeddings")
    BY <1>1 DEF StoppedTo
  <2>3. QED  BY <1>10, <2>1, <2>2, PartsAre
<1>16. ASSUME state = "stopped" PROVE \E k \in 0..7 : StoppedTo(k)'
  <2>1. todo' = SubSeq(StopOrder, j + 1 + 1, 7)
    BY <1>4, <1>7, <1>16, j + 1 + 1 = j + 2 DEF StopPart
  <2>2. MemoryBroken' => MemoryBroken
    BY <1>8, <1>16, PartsAre DEF MemoryBroken, Memory
  <2>3. \A i \in 1..j + 1 : ~ failed' /\ i # 2 => part'[StopOrder[i]] = "stopped"
    <3>1. ASSUME NEW i \in 1..j + 1, ~ failed', i # 2
          PROVE  part'[StopOrder[i]] = "stopped"
      <4>1. CASE StopOrder[i] = p  BY <1>8, <1>16, <4>1
      <4>2. CASE StopOrder[i] # p
        <5>1. i \in 1..j
          BY <1>13, <4>2
        <5>2. part[StopOrder[i]] = "stopped"
          BY <1>1, <1>6, <3>1, <5>1 DEF StoppedTo
        <5>3. QED  BY <1>2, <1>6, <1>11, <1>12, <3>1, <4>2, <5>1, <5>2
      <4>3. QED  BY <4>1, <4>2
    <3>2. QED  BY <3>1
  <2>4. j + 1 >= 5 /\ ~ failed' => part'["embeddings"] = "stopped"
    <3>1. CASE j = 4  BY <1>5, <1>8, <3>1
    <3>2. CASE j >= 5
      BY <1>1, <1>6, <1>11, <1>5, <3>2, PartsAre, Orders, <1>3 DEF StoppedTo
    <3>3. QED  BY <3>1, <3>2
  <2>5. StoppedTo(j + 1)'
    <3>1. MemoryBroken' => j + 1 >= 6
      BY <1>1, <2>2 DEF StoppedTo
    <3>2. QED  BY <1>14, <1>15, <2>1, <2>3, <2>4, <3>1 DEF StoppedTo
  <2>6. QED  BY <1>2, <2>5
<1>17. ASSUME state = "broken" /\ p \in Memory
       PROVE \E k \in 0..7 : StoppedTo(k)'
  <2>1. j \in {3, 4} /\ p # "services" /\ p \in Memory
    BY <1>4, <1>5, <1>7, <1>17 DEF StopFails
  <2>2. todo' = SubSeq(StopOrder, 6 + 1, 7)
    BY <1>4, <1>7, <1>17, StopEnds DEF StopFails
  <2>3. failed'
    BY <1>4, <1>7, <1>17, <2>1 DEF StopFails, LifecycleInv, TypeOK
  <2>4. MemoryBroken'
    BY <1>8, <1>17 DEF MemoryBroken
  <2>5. \A q \in Memory : GoneOrGivenUp(q)'
    BY <2>4 DEF GoneOrGivenUp
  <2>6. \A i \in 1..6 : i \in 1..j + 1 \/ StopOrder[i] \in Memory
    <3>1. \A i \in 5..6 : StopOrder[i] \in Memory
      <4>1. \A i \in 5..6 : i = 5 \/ i = 6
        OBVIOUS
      <4>2. QED  BY <4>1, Orders DEF Memory
    <3>2. QED  BY <2>1, <3>1
  <2>7. \A i \in 1..6 : GoneOrGivenUp(StopOrder[i])'
    BY <1>14, <2>5, <2>6
  <2>8. StoppedTo(6)'
    BY <2>2, <2>3, <2>5, <2>7 DEF StoppedTo, Memory
  <2>9. QED  BY <2>8
<1>18. ASSUME state = "broken" /\ p \notin Memory
       PROVE \E k \in 0..7 : StoppedTo(k)'
  <2>1. todo' = SubSeq(StopOrder, j + 1 + 1, 7)
    BY <1>4, <1>7, <1>18, j + 1 + 1 = j + 2 DEF StopFails
  <2>2. MemoryBroken' => MemoryBroken
    BY <1>8, <1>18, PartsAre DEF MemoryBroken, Memory
  <2>3. ~ failed' => p = "services" /\ j = 1
    BY <1>4, <1>5, <1>7, <1>18 DEF StopFails, LifecycleInv, TypeOK
  <2>4. \A i \in 1..j + 1 : ~ failed' /\ i # 2 => part'[StopOrder[i]] = "stopped"
    <3>1. ASSUME ~ failed' PROVE part'[StopOrder[1]] = "stopped"
      BY <1>1, <1>6, <1>11, <2>3, <3>1, Orders, PartsAre DEF StoppedTo
    <3>2. ASSUME NEW i \in 1..j + 1, ~ failed', i # 2 PROVE i = 1
      BY <2>3, <3>2
    <3>3. QED  BY <3>1, <3>2
  <2>5. StoppedTo(j + 1)'
    <3>1. MemoryBroken' => j + 1 >= 6
      BY <1>1, <2>2 DEF StoppedTo
    <3>2. QED  BY <1>14, <1>15, <2>1, <2>3, <2>4, <3>1 DEF StoppedTo
  <2>6. QED  BY <1>2, <2>5
<1>19. \E k \in 0..7 : StoppedTo(k)'
  BY <1>16, <1>17, <1>18
<1>20. NoneOpen => NoneOpen'
  BY <1>6 DEF NoneOpen
<1>21. StoppingInv' /\ EndInv' /\ ClientsServed'
  BY <1>6, <1>19, <1>20 DEF StoppingInv, EndInv, ClientsServed, LifecycleInv
<1>22. QED
  BY <1>6, <1>21 DEF LifecycleInv, StartingInv, RunningInv, CleanExit

(* The end of the shutdown, and the Ctrl-C that breaks it off. *)
LEMMA EndStep ==
  ASSUME LifecycleInv, TypeOK', pc = "stopping", StopDone \/ InterruptStop
  PROVE  LifecycleInv'
<1> HIDE DEF StartOrder, StopOrder
<1>1. interrupts >= 1 /\ interrupts \in Nat
  BY DEF LifecycleInv, StoppingInv, TypeOK
<1>2. CASE StopDone
  <2>1. PICK j \in 0..7 : StoppedTo(j)
    BY DEF LifecycleInv, StoppingInv
  <2>2. j = 7
    BY <1>2, <2>1, StopLeft DEF StopDone
  <2>3. ~ failed => /\ part["server"] = "stopped" /\ part["mcp"] = "stopped"
                    /\ part["graph"] = "stopped" /\ part["vector"] = "stopped"
                    /\ part["summary"] = "stopped" /\ part["store"] = "stopped"
                    /\ part["embeddings"] = "stopped"
    BY <2>1, <2>2, Orders DEF StoppedTo
  <2>4. CleanExit'
    BY <1>2, <2>3, PartsAre DEF CleanExit, StopDone
  <2>5. pc' = "over" /\ UNCHANGED <<waits, interrupts, conn, let_down>>
    BY <1>2 DEF StopDone, clientVars
  <2>6. (NoneOpen => NoneOpen') /\ ClientsServed'
    <3>1. NoneOpen => NoneOpen'
      BY <2>5 DEF NoneOpen
    <3>2. let_down # {} => ~ waits \/ interrupts > 1
      BY DEF LifecycleInv, ClientsServed
    <3>3. ClientsServed'
      BY <2>5, <3>2 DEF ClientsServed
    <3>4. QED  BY <3>1, <3>3
  <2>7. EndInv'
    BY <2>5, <2>6 DEF LifecycleInv, EndInv
  <2>8. QED
    BY <2>4, <2>5, <2>6, <2>7 DEF LifecycleInv, StartingInv, RunningInv,
       StoppingInv
<1>3. CASE InterruptStop
  <2>1. pc' = "over" /\ failed' /\ interrupts' > 1
        /\ let_down' = let_down /\ waits' = waits
    BY <1>1, <1>3 DEF InterruptStop, Interrupt, clientVars
  <2>2. interrupts' \in Nat
    BY <1>1, <1>3 DEF InterruptStop, Interrupt
  <2>3. StartingInv' /\ RunningInv' /\ StoppingInv' /\ CleanExit'
    BY <2>1 DEF StartingInv, RunningInv, StoppingInv, CleanExit
  <2>4. EndInv' /\ ClientsServed'
    BY <2>1, <2>2 DEF EndInv, ClientsServed
  <2>5. QED  BY <2>3, <2>4 DEF LifecycleInv
<1>4. QED  BY <1>2, <1>3

(* The Ctrl-C that ends serve_forever. *)
LEMMA ServeStep ==
  ASSUME LifecycleInv, TypeOK', InterruptServe
  PROVE  LifecycleInv'
<1>1. /\ pc = "serving" /\ pc' = "draining" /\ interrupts' = interrupts + 1
      /\ UNCHANGED <<part, failed, let_down, waits>>
  BY DEF InterruptServe, Interrupt, clientVars
<1>2. AllUp /\ ~ failed /\ interrupts = 0 /\ let_down = {}
  BY <1>1 DEF LifecycleInv, RunningInv, ClientsServed
<1>3. RunningInv' /\ ClientsServed'
  BY <1>1, <1>2 DEF RunningInv, AllUp, ClientsServed
<1>4. QED
  BY <1>1, <1>3 DEF LifecycleInv, StartingInv, StoppingInv, EndInv, CleanExit

(* What the runtime has reached does not depend on its clients. *)
LEMMA SameRun ==
  ASSUME LifecycleInv, TypeOK', UNCHANGED <<waits, runVars, interrupts>>,
         ~ NoneOpen' => ~ NoneOpen \/ (part["server"] = "up" /\ pc # "stopping"
                                       /\ pc # "over"),
         ClientsServed'
  PROVE  LifecycleInv'
<1> USE DEF runVars
<1>1. StartingInv'
  BY DEF LifecycleInv, StartingInv, StartedTo
<1>2. RunningInv'
  BY DEF LifecycleInv, RunningInv, AllUp
<1>3. StoppingInv'
  BY DEF LifecycleInv, StoppingInv, StoppedTo, GoneOrGivenUp, MemoryBroken
<1>4. EndInv'
  BY DEF LifecycleInv, EndInv, AllUp
<1>5. CleanExit'
  BY DEF LifecycleInv, CleanExit
<1>6. QED  BY <1>1, <1>2, <1>3, <1>4, <1>5 DEF LifecycleInv

(* A pipeline that meets a part that is not there does so in a shutdown.    *)
LEMMA ClientStep ==
  ASSUME LifecycleInv, TypeOK', NEW c \in Clients,
         \/ Connect(c) \/ Begin(c) \/ PipelineEnds(c)
         \/ \E p \in Needed : PipelineFails(c, p)
         \/ Leave(c) \/ Cancelled(c)
  PROVE  LifecycleInv'
<1>1. CASE Connect(c)
  <2>1. part["server"] = "up" /\ pc # "stopping" /\ pc # "over"
    BY <1>1 DEF Connect
  <2>2. UNCHANGED <<waits, runVars, interrupts, let_down>>
    BY <1>1 DEF Connect
  <2>3. ClientsServed'
    BY <2>2 DEF ClientsServed, LifecycleInv, runVars
  <2>4. QED  BY <2>1, <2>2, <2>3, SameRun
<1>2. CASE Begin(c) \/ PipelineEnds(c) \/ Leave(c) \/ Cancelled(c)
  <2>1. UNCHANGED <<waits, runVars, interrupts, let_down>>
    BY <1>2 DEF Begin, PipelineEnds, Leave, Cancelled
  <2>2. NoneOpen => NoneOpen'
    BY <1>2 DEF Begin, PipelineEnds, Leave, Cancelled, NoneOpen, LifecycleInv,
       TypeOK
  <2>3. ClientsServed'
    BY <2>1 DEF ClientsServed, LifecycleInv, runVars
  <2>4. QED  BY <2>1, <2>2, <2>3, SameRun
<1>3. CASE \E p \in Needed : PipelineFails(c, p)
  <2>1. PICK p \in Needed : PipelineFails(c, p)
    BY <1>3
  <2>2. UNCHANGED <<waits, runVars, interrupts>>
    BY <2>1 DEF PipelineFails
  <2>3. NoneOpen => NoneOpen'
    BY <2>1 DEF PipelineFails, NoneOpen, LifecycleInv, TypeOK
  <2>4. ~ AllUp
    BY <2>1, PartsAre DEF PipelineFails, AllUp, Needed
  <2>5. ASSUME ~ NoneOpen
        PROVE  pc \in {"stopping", "over"} /\ (~ waits \/ interrupts > 1)
    <3>1. pc # "starting"
      BY <2>4, <2>5, AtStart DEF LifecycleInv, StartingInv
    <3>2. pc # "serving" /\ pc # "draining"
      BY <2>4 DEF LifecycleInv, RunningInv
    <3>3. waits => interrupts > 1
      BY <2>4, <2>5, <3>1, <3>2 DEF LifecycleInv, EndInv, TypeOK
    <3>4. QED  BY <3>1, <3>2, <3>3 DEF LifecycleInv, TypeOK
  <2>6. NoneOpen => let_down' = let_down
    BY <2>1 DEF PipelineFails, NoneOpen
  <2>7. ClientsServed'
    BY <2>2, <2>5, <2>6 DEF ClientsServed, LifecycleInv, runVars
  <2>8. QED  BY <2>2, <2>3, <2>7, SameRun
<1>4. QED  BY <1>1, <1>2, <1>3

-----------------------------------------------------------------------------
(* Every step keeps the invariant. *)
LEMMA LifecycleStep == LifecycleInv /\ [Next]_vars => LifecycleInv'
<1> SUFFICES ASSUME LifecycleInv, [Next]_vars PROVE LifecycleInv'
  OBVIOUS
<1>1. TypeOK'
  BY TypeStep DEF LifecycleInv
<1>2. CASE StartPart \/ StartFails \/ Serve \/ InterruptStart
  <2>1. pc = "starting"
    BY <1>2 DEF StartPart, StartFails, Serve, InterruptStart
  <2>2. QED  BY <1>1, <1>2, <2>1, StartStep
<1>3. CASE Drain \/ InterruptDrain
  <2>1. pc = "draining"
    BY <1>3 DEF Drain, InterruptDrain
  <2>2. QED  BY <1>1, <1>3, <2>1, DrainStep
<1>4. CASE StopPart \/ StopFails
  <2>1. pc = "stopping"
    BY <1>4 DEF StopPart, StopFails
  <2>2. QED  BY <1>1, <1>4, <2>1, StopStep
<1>5. CASE StopDone \/ InterruptStop
  <2>1. pc = "stopping"
    BY <1>5 DEF StopDone, InterruptStop
  <2>2. QED  BY <1>1, <1>5, <2>1, EndStep
<1>6. CASE InterruptServe
  BY <1>1, <1>6, ServeStep
<1>7. CASE \E c \in Clients :
             \/ Connect(c) \/ Begin(c) \/ PipelineEnds(c)
             \/ \E p \in Needed : PipelineFails(c, p)
             \/ Leave(c) \/ Cancelled(c)
  BY <1>1, <1>7, ClientStep
<1>8. CASE UNCHANGED vars
  <2>1. ClientsServed' /\ (NoneOpen => NoneOpen')
    BY <1>8 DEF vars, runVars, clientVars, ClientsServed, NoneOpen, LifecycleInv
  <2>2. QED  BY <1>1, <1>8, <2>1, SameRun DEF vars, clientVars
<1>9. QED
  BY <1>2, <1>3, <1>4, <1>5, <1>6, <1>7, <1>8 DEF Next, RunStep, InterruptStep

(* The initial states satisfy it. *)
LEMMA LifecycleInit == Init => LifecycleInv
<1> SUFFICES ASSUME Init PROVE LifecycleInv
  OBVIOUS
<1> USE DEF Init
<1> HIDE DEF StartOrder, StopOrder
<1>1. TypeOK
  <2>1. todo \in Seq(Parts)
    BY Orders
  <2>2. part \in [Parts -> {"down", "up", "stopped", "broken"}]
        /\ \A p \in Parts : part[p] # "broken"
    OBVIOUS
  <2>3. interrupts \in 0..MaxInterrupts
    BY LifecycleAssumption
  <2>4. QED  BY <2>1, <2>2, <2>3 DEF TypeOK
<1>2. StartedTo(0)
  <2>1. StartOrder = SubSeq(StartOrder, 1, 8)
    BY Orders, SubSeqFull
  <2>2. \A i \in 1..8 : StartOrder[i] \in Parts
    BY Orders, ElementOfSeq
  <2>3. QED  BY <2>1, <2>2 DEF StartedTo
<1>3. NoneOpen
  BY DEF NoneOpen
<1>4. QED
  BY <1>1, <1>2, <1>3 DEF LifecycleInv, StartingInv, RunningInv, StoppingInv,
     EndInv, CleanExit, ClientsServed

(* The place the loops of run() have reached says what state every part is *)
(* in, and with that whether a client can meet a part that is not there.    *)
THEOREM LifecycleInvariant == Spec => []LifecycleInv
<1>1. QED  BY LifecycleInit, LifecycleStep, PTL DEF Spec

(* Types: no state but those of a lifecycle is ever reached, and only what  *)
(* can raise half-way is left half open.                                    *)
THEOREM TypeCorrect == Spec => []TypeOK
<1>1. LifecycleInv => TypeOK
  BY DEF LifecycleInv
<1>2. QED  BY <1>1, LifecycleInvariant, PTL

(* A run that reports no error has stopped everything it had started.       *)
THEOREM CleanExitHolds == Spec => []CleanExit
<1>1. LifecycleInv => CleanExit
  BY DEF LifecycleInv
<1>2. QED  BY <1>1, LifecycleInvariant, PTL

(* A client that stays connected is let down only by a shutdown that does  *)
(* not wait for it, or after a second Ctrl-C.                               *)
THEOREM ClientsServedHolds == Spec => []ClientsServed
<1>1. LifecycleInv => ClientsServed
  BY DEF LifecycleInv
<1>2. QED  BY <1>1, LifecycleInvariant, PTL

-----------------------------------------------------------------------------
(* The order of the shutdown.                                               *)

(* Where a part stands in StartOrder. *)
LEMMA Places ==
  /\ Place("store") = 1 /\ Place("embeddings") = 2 /\ Place("summary") = 3
  /\ Place("vector") = 4 /\ Place("graph") = 5 /\ Place("mcp") = 6
  /\ Place("services") = 7 /\ Place("server") = 8
<1> HIDE DEF StartOrder
<1>1. ASSUME NEW i \in 1..8 PROVE Place(StartOrder[i]) = i
  <2>1. DOMAIN StartOrder = 1..8
    <3>1. StartOrder \in Seq(Parts) /\ Len(StartOrder) = 8
      BY Orders
    <3>2. QED  BY <3>1
  <2>2. \E j \in DOMAIN StartOrder : StartOrder[j] = StartOrder[i]
    BY <2>1
  <2>3. /\ Place(StartOrder[i]) \in DOMAIN StartOrder
        /\ StartOrder[Place(StartOrder[i])] = StartOrder[i]
    BY <2>2 DEF Place
  <2>4. QED  BY <2>1, <2>3, Distinct
<1>2. QED  BY <1>1, Orders

(* What is stopped after it has been: every part that was started later.    *)
LEMMA LaterGone ==
  ASSUME TypeOK, NEW j \in 0..6, StoppedTo(j),
         NEW p \in Parts,
         p = StopOrder[j + 1] \/ (p = "embeddings" /\ StopOrder[j + 1] = "vector"),
         NEW q \in Parts, Place(p) < Place(q), ~ {p, q} \subseteq Memory
  PROVE  GoneOrGivenUp(q)
<1> HIDE DEF StartOrder, StopOrder
<1> USE DEF Memory
<1>1. /\ j >= 1 => GoneOrGivenUp("server")
      /\ j >= 2 => GoneOrGivenUp("services")
      /\ j >= 3 => GoneOrGivenUp("mcp")
      /\ j >= 4 => GoneOrGivenUp("graph")
      /\ j >= 5 => GoneOrGivenUp("vector") /\ GoneOrGivenUp("embeddings")
      /\ j >= 6 => GoneOrGivenUp("summary")
  <2>1. \A i \in 1..j : GoneOrGivenUp(StopOrder[i])
    BY DEF StoppedTo
  <2>2. j >= 5 => GoneOrGivenUp("embeddings")
    BY DEF StoppedTo
  <2>3. QED  BY <2>1, <2>2, Orders
<1>2. j \in {0, 1, 2, 3, 4, 5, 6}
  OBVIOUS
<1>3. /\ (p = "server" => j = 0) /\ (p = "services" => j = 1)
      /\ (p = "mcp" => j = 2) /\ (p = "graph" => j = 3)
      /\ (p \in {"vector", "embeddings"} => j = 4)
      /\ (p = "summary" => j = 5) /\ (p = "store" => j = 6)
  BY <1>2, Orders
<1>4. p \notin Memory \/ q \notin Memory
  OBVIOUS
<1>5. p # "server" /\ q # "store"
  BY Places, PartsAre
<1>6. CASE p = "services"
  <2>1. q = "server"  BY <1>6, Places, PartsAre
  <2>2. QED  BY <1>1, <1>3, <1>6, <2>1
<1>7. CASE p = "mcp"
  <2>1. q \in {"server", "services"}  BY <1>7, Places, PartsAre
  <2>2. QED  BY <1>1, <1>3, <1>7, <2>1
<1>8. CASE p \in Memory
  <2>1. q \in {"server", "services", "mcp"}
    BY <1>4, <1>5, <1>8, PartsAre DEF Memory
  <2>2. j >= 3
    BY <1>3, <1>8 DEF Memory
  <2>3. QED  BY <1>1, <1>2, <2>1, <2>2
<1>9. CASE p = "store"
  <2>1. j = 6
    BY <1>3, <1>9
  <2>2. q \in Parts \ {"store"}
    BY <1>5
  <2>3. QED  BY <1>1, <2>1, <2>2, PartsAre
<1>10. QED
  BY <1>5, <1>6, <1>7, <1>8, <1>9, PartsAre DEF Memory

(* Only a stop, or an interrupted one, takes a part that is up away.        *)
LEMMA StopOnly ==
  ASSUME LifecycleInv, [Next]_vars, NEW p \in Parts,
         part[p] = "up", part'[p] # "up"
  PROVE  /\ pc = "stopping" /\ todo # <<>>
         /\ \E state \in {"stopped", "broken"} : Stopped(Head(todo), state)
<1> HIDE DEF StartOrder, StopOrder
<1> part \in [Parts -> {"down", "up", "stopped", "broken"}]
  BY DEF LifecycleInv, TypeOK
<1>1. part' # part
  OBVIOUS
<1>2. CASE StartPart \/ StartFails \/ InterruptStart
  <2>1. PICK k \in 0..8 : StartedTo(k)
    BY <1>2 DEF LifecycleInv, StartingInv, StartPart, StartFails, InterruptStart
  <2>2. todo # <<>> => part[Head(todo)] = "down"
    <3>1. todo # <<>> => k < 8 /\ Head(todo) = StartOrder[k + 1]
      BY <2>1, StartLeft
    <3>2. k < 8 => part[StartOrder[k + 1]] = "down"
      BY <2>1 DEF StartedTo
    <3>3. QED  BY <3>1, <3>2
  <2>3. part' = part \/ /\ todo # <<>>
                        /\ \E s : part' = [part EXCEPT ![Head(todo)] = s]
                        /\ part'[p] # "up"
    BY <1>2 DEF StartPart, StartFails, InterruptStart
  <2>4. p # Head(todo) \/ todo = <<>>
    BY <2>2
  <2>5. QED  BY <1>1, <2>3, <2>4
<1>3. CASE StopPart \/ StopFails
  BY <1>3 DEF StopPart, StopFails
<1>4. CASE InterruptStop
  BY <1>1, <1>4 DEF InterruptStop
<1>5. CASE \/ Serve \/ Drain \/ StopDone \/ InterruptServe \/ InterruptDrain
           \/ UNCHANGED vars
  BY <1>1, <1>5 DEF Serve, Drain, StopDone, InterruptServe, InterruptDrain, vars,
     runVars
<1>6. CASE \E c \in Clients :
             \/ Connect(c) \/ Begin(c) \/ PipelineEnds(c)
             \/ \E q \in Needed : PipelineFails(c, q)
             \/ Leave(c) \/ Cancelled(c)
  BY <1>1, <1>6 DEF Connect, Begin, PipelineEnds, PipelineFails, Leave,
     Cancelled, runVars
<1>7. QED
  BY <1>2, <1>3, <1>4, <1>5, <1>6 DEF Next, RunStep, InterruptStep

(* What depends on a component is stopped before it, except parts of the    *)
(* memory module given up on after an error in it: whatever breaks, and     *)
(* wherever a Ctrl-C falls.                                                 *)
THEOREM StopsInReverseHolds == Spec => StopsInReverse
<1> HIDE DEF StartOrder, StopOrder
<1>1. ASSUME LifecycleInv, [Next]_vars, NEW p \in Parts, NEW q \in Parts,
             part[p] = "up", part'[p] \in {"stopped", "broken"},
             Place(p) < Place(q), ~ {p, q} \subseteq Memory, part'[q] = "up"
      PROVE  q \in Memory /\ \E m \in Memory : part[m] = "broken"
  <2>1. /\ pc = "stopping" /\ todo # <<>>
        /\ \E state \in {"stopped", "broken"} : Stopped(Head(todo), state)
    BY <1>1, StopOnly
  <2>2. PICK j \in 0..7 : StoppedTo(j)
    BY <1>1, <2>1 DEF LifecycleInv, StoppingInv
  <2>3. j \in 0..6 /\ Head(todo) = StopOrder[j + 1]
    BY <2>1, <2>2, StopLeft
  <2>4. p = Head(todo) \/ (p = "embeddings" /\ Head(todo) = "vector")
    BY <1>1, <2>1 DEF Stopped, LifecycleInv, TypeOK
  <2>5. GoneOrGivenUp(q)
    BY <1>1, <2>2, <2>3, <2>4, LaterGone DEF LifecycleInv
  <2>6. part[q] = "up"
    BY <1>1, <2>1, PartsAre DEF Stopped, LifecycleInv, TypeOK
  <2>7. QED  BY <2>5, <2>6 DEF GoneOrGivenUp, MemoryBroken
<1>2. LifecycleInv /\ [Next]_vars =>
        [\A p, q \in Parts :
           /\ part[p] = "up" /\ part'[p] \in {"stopped", "broken"}
           /\ Place(p) < Place(q) /\ ~ {p, q} \subseteq Memory
           /\ part'[q] = "up"
           => q \in Memory /\ \E m \in Memory : part[m] = "broken"]_vars
  BY <1>1
<1>3. QED  BY <1>2, LifecycleInvariant, PTL DEF Spec, StopsInReverse
=============================================================================
