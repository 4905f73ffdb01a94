------------------------- MODULE MemorySessionProofs -------------------------
(***************************************************************************)
(* That what the store tells of a request's memory is what the databases   *)
(* hold, that a recall logged as completed is complete, and that recent    *)
(* misses no episode it could have had: for any number of requests and of  *)
(* errors, and every size of page and history.                             *)
(***************************************************************************)
EXTENDS MemorySession, SequenceTheorems, FiniteSetTheorems, TLAPS

(* What a branch publishes. *)
Answers == { <<"SummaryFetched">>, <<"GraphQueryStarted">>,
             <<"GraphQueryCompleted">>, <<"SemanticSearchStarted">>,
             <<"SemanticSearchCompleted">> }
Fetched == {"GraphFactFetched"} \X Edges
BranchSteps == Answers \union Fetched \union BranchCalls

(* The graph stays finite, a branch does only what retrieve gathered it     *)
(* for, and a place that uses the episode or the next fact has one.         *)
MemoryTypes ==
  /\ TypeOK
  /\ IsFiniteSet(graph)
  /\ task \in [Requests -> [Branches -> Seq(BranchSteps)]]
  /\ \A r \in Requests :
       /\ pc[r] \in {"remember", "store"} => episode[r] \in 1..clock
       /\ pc[r] \in {"add", "tell"} =>
            left[r] # <<>> /\ facts[r] # <<>>

(* Until the store has answered, the log has no completed store; from then  *)
(* on the episode is there, whatever else happens.                          *)
EpisodeKept(r) ==
  /\ pc[r] \in {"idle", "recall", "gather", "gathering", "recalled", "think"} =>
       <<"MemoryStoreCompleted">> \notin log[r]
  /\ pc[r] = "remembered" \/ <<"MemoryStoreCompleted">> \in log[r] =>
       episode[r] \in stored

Announced(r) == {f \in Facts : <<"GraphFactAdded", f>> \in log[r]}
FirstOf(r, n) == {facts[r][i] : i \in 1..n}
Added(r, n) == \A i \in 1..n : EdgeOf[facts[r][i]] \in graph

(* The first n of its facts have been dealt with, the others are left. *)
Through(r, n) == left[r] = SubSeq(facts[r], n + 1, Len(facts[r]))

(* Where the two loops over the facts are. *)
FactsKept(r) ==
  /\ pc[r] \in Places \ {"add", "tell", "done", "failed"} =>
       facts[r] = <<>> /\ Announced(r) = {}
  /\ pc[r] = "add" =>
       /\ Announced(r) = {}
       /\ \E n \in 0..Len(facts[r]) - 1 : Through(r, n) /\ Added(r, n)
  /\ pc[r] = "tell" =>
       /\ Added(r, Len(facts[r]))
       /\ \E n \in 0..Len(facts[r]) - 1 :
            Through(r, n) /\ Announced(r) = FirstOf(r, n)
  /\ pc[r] = "done" =>
       /\ Added(r, Len(facts[r]))
       /\ Announced(r) = FirstOf(r, Len(facts[r]))
  /\ pc[r] = "failed" =>
       \/ Announced(r) = {}
       \/ /\ Added(r, Len(facts[r]))
          /\ \E n \in 0..Len(facts[r]) : Announced(r) = FirstOf(r, n)

FactsInv == \A r \in Requests : EpisodeKept(r) /\ FactsKept(r)

(* Before a gather, nothing of a recall is there. *)
NotGathered == {"idle", "recall", "gather"}

NothingFetched(r) ==
  found[r] = {} /\ \A e \in Edges : <<"GraphFactFetched", e>> \notin log[r]

(* How far each branch is, as long as none has raised: what it has left to  *)
(* do is the rest of its plan, and with nothing left it has told its end.   *)
SummaryKept(r) ==
  \/ task[r]["summary"] \in {Plan.summary, Tail(Plan.summary)}
  \/ task[r]["summary"] = <<>> /\ <<"SummaryFetched">> \in log[r]

SemanticKept(r) ==
  \/ task[r]["semantic"] \in {Plan.semantic, Tail(Plan.semantic),
                             Tail(Tail(Plan.semantic))}
  \/ task[r]["semantic"] = <<>> /\ <<"SemanticSearchCompleted">> \in log[r]

(* The relationships the query found are those that have been published and *)
(* those of s.                                                              *)
FetchedOr(r, s) ==
  /\ s \in Seq(Fetched)
  /\ \A e \in Edges : e \in found[r] <=>
       \/ <<"GraphFactFetched", e>> \in log[r]
       \/ <<"GraphFactFetched", e>> \in ToSet(s)

QueryKept(r) ==
  \/ task[r]["facts"] \in {Plan.facts, Tail(Plan.facts)} /\ NothingFetched(r)
  \/ \E s \in Seq(Fetched) :
       /\ FetchedOr(r, s)
       /\ \/ task[r]["facts"] = Tail(Tail(Plan.facts)) \o s
          \/ task[r]["facts"] = s /\ <<"GraphQueryCompleted">> \in log[r]

(* What recent returned comes from a page of the store, one with everything *)
(* that was there when the recall began unless the store has outgrown it.   *)
FromPage(r) ==
  \E page \in SUBSET stored :
    /\ recent[r] = Newest(page)
    /\ Cardinality(stored) <= PageSize => before[r] \subseteq page

RecentKept(r) ==
  \/ task[r]["recent"] = Plan.recent
  \/ task[r]["recent"] = <<>> /\ FromPage(r)

Gathered(r) == pc[r] \in {"gathering", "recalled"} \/ Recalled(r)

Idle(r) == broken[r] = {} /\ \A b \in Branches : task[r][b] = <<>>

RecallKept(r) ==
  /\ before[r] \subseteq stored
  /\ pc[r] \in NotGathered => Idle(r) /\ NothingFetched(r) /\ ~ Recalled(r)
  /\ Gathered(r) /\ broken[r] = {} =>
       SummaryKept(r) /\ SemanticKept(r) /\ QueryKept(r) /\ RecentKept(r)
  /\ pc[r] = "recalled" \/ Recalled(r) => Idle(r)

RecallInv == \A r \in Requests : RecallKept(r)

-----------------------------------------------------------------------------
(* Sets in an order.                                                        *)

(* A finite set becomes a sequence of its elements. *)
LEMMA SetToSeqProperties ==
  ASSUME NEW S, IsFiniteSet(S)
  PROVE  SetToSeq(S) \in Seq(S) /\ ToSet(SetToSeq(S)) = S
<1> DEFINE n == Cardinality(S)
           s == SetToSeq(S)
<1>1. n \in Nat /\ ExistsBijection(1..n, S)
  BY FS_CardinalityType
<1>2. \E f \in [1..n -> S] : IsInjective(f)
  BY <1>1 DEF ExistsBijection, Bijection, Injection
<1>3. s \in [1..n -> S] /\ IsInjective(s)
  BY <1>2 DEF SetToSeq
<1> HIDE DEF s
<1>4. s \in Injection(1..n, S)
  BY <1>3 DEF Injection
<1>5. Cardinality(1..n) = n
  BY <1>1, FS_Interval
<1>6. s \in Surjection(1..n, S)
  BY <1>4, <1>5, FS_Injection
<1>7. ToSet(s) = S
  BY <1>3, <1>6 DEF ToSet, Surjection
<1>8. s \in Seq(S)
  BY <1>1, <1>3
<1>9. QED  BY <1>7, <1>8 DEF s

(* In a finite set of episodes there is one that n others are newer than,   *)
(* for every n below their number, and an older one has more newer ones.    *)
LEMMA Ranks ==
  ASSUME NEW page, page \subseteq Nat, IsFiniteSet(page)
  PROVE  /\ Cardinality(page) \in Nat
         /\ \A e \in page :
              Cardinality(Newer(page, e)) \in 0..Cardinality(page) - 1
         /\ \A e, f \in page :
              e > f => Cardinality(Newer(page, e)) < Cardinality(Newer(page, f))
         /\ \A n \in 0..Cardinality(page) - 1 :
              /\ Ranked(page, n) \in page
              /\ Cardinality(Newer(page, Ranked(page, n))) = n
<1> DEFINE N == Cardinality(page)
           rank == [e \in page |-> Cardinality(Newer(page, e))]
<1>1. N \in Nat
  BY FS_CardinalityType
<1>2. ASSUME NEW e \in page
      PROVE  /\ IsFiniteSet(Newer(page, e))
             /\ Cardinality(Newer(page, e)) \in 0..N - 1
  <2>1. Newer(page, e) \in SUBSET (page \ {e})
    BY DEF Newer
  <2>2. IsFiniteSet(page \ {e}) /\ Cardinality(page \ {e}) = N - 1
    BY FS_RemoveElement
  <2>3. /\ IsFiniteSet(Newer(page, e))
        /\ Cardinality(Newer(page, e)) <= N - 1
    BY <2>1, <2>2, FS_Subset
  <2>4. Cardinality(Newer(page, e)) \in Nat
    BY <2>3, FS_CardinalityType
  <2>5. QED  BY <1>1, <2>3, <2>4
<1>3. ASSUME NEW e \in page, NEW f \in page, e > f
      PROVE  Cardinality(Newer(page, e)) < Cardinality(Newer(page, f))
  <2> e \in Nat /\ f \in Nat
    OBVIOUS
  <2>1. e \notin Newer(page, e) /\ e \in Newer(page, f)
    BY <1>3 DEF Newer
  <2>2. Newer(page, e) \union {e} \in SUBSET Newer(page, f)
    <3>1. ASSUME NEW x \in page, x > e PROVE x > f
      <4>1. x \in Nat
        OBVIOUS
      <4>2. QED  BY <1>3, <3>1, <4>1
    <3>2. QED  BY <2>1, <3>1 DEF Newer
  <2>3. Cardinality(Newer(page, e) \union {e}) = Cardinality(Newer(page, e)) + 1
    BY <1>2, <2>1, FS_AddElement
  <2>4. Cardinality(Newer(page, e) \union {e}) <= Cardinality(Newer(page, f))
    BY <1>2, <2>2, FS_Subset
  <2>5. QED  BY <1>2, <2>3, <2>4
<1>4. IsFiniteSet(0..N - 1) /\ Cardinality(0..N - 1) = N
  <2>1. 0 \in Int /\ N - 1 \in Int
    BY <1>1
  <2>2. /\ IsFiniteSet(0..N - 1)
        /\ Cardinality(0..N - 1) = IF 0 > N - 1 THEN 0 ELSE N - 1 - 0 + 1
    BY <2>1, FS_Interval
  <2>3. QED  BY <1>1, <2>2
<1>5. rank \in [page -> 0..N - 1]
  BY <1>2
<1>6. IsInjective(rank)
  <2>1. ASSUME NEW e \in page, NEW f \in page, rank[e] = rank[f]
        PROVE  e = f
    <3>1. ~ (e > f) /\ ~ (f > e)
      BY <1>2, <1>3, <2>1
    <3>2. QED  BY <3>1
  <2>2. QED  BY <1>5, <2>1 DEF IsInjective
<1>7. rank \in Surjection(page, 0..N - 1)
  <2>1. rank \in Injection(page, 0..N - 1)
    BY <1>5, <1>6 DEF Injection
  <2> HIDE DEF rank
  <2>2. QED  BY <1>4, <2>1, FS_Injection
<1>8. ASSUME NEW n \in 0..N - 1
      PROVE  /\ Ranked(page, n) \in page
             /\ Cardinality(Newer(page, Ranked(page, n))) = n
  <2>1. \E e \in page : Cardinality(Newer(page, e)) = n
    BY <1>7 DEF Surjection
  <2>2. QED  BY <2>1 DEF Ranked
<1>9. QED  BY <1>1, <1>2, <1>3, <1>8

(* What recent makes of a page: the newest of it, as many as the limit      *)
(* allows, and one that it leaves out is older than all of them.            *)
LEMMA NewestProperties ==
  ASSUME NEW page, page \subseteq Nat, IsFiniteSet(page)
  PROVE  /\ Newest(page) \in Seq(page)
         /\ Len(Newest(page)) <= HistoryLimit
         /\ \A e \in page \ ToSet(Newest(page)) :
              /\ Len(Newest(page)) = HistoryLimit
              /\ \A n \in ToSet(Newest(page)) : n > e
<1> DEFINE N == Cardinality(page)
           L == Limited(page)
           s == Newest(page)
<1>1. N \in Nat
  BY Ranks
<1>2. L \in Nat /\ L <= N /\ L <= HistoryLimit /\ (L = N \/ L = HistoryLimit)
  BY <1>1, MemoryAssumption DEF Limited
<1>3. \A i \in 1..L : i - 1 \in 0..N - 1
  BY <1>1, <1>2
<1>4. ASSUME NEW i \in 1..L
      PROVE  Ranked(page, i - 1) \in page
             /\ Cardinality(Newer(page, Ranked(page, i - 1))) = i - 1
  BY <1>3, Ranks
<1>5. s \in [1..L -> page]
  BY <1>4 DEF Newest
<1>6. \A i \in 1..L : Cardinality(Newer(page, s[i])) = i - 1
  BY <1>4 DEF Newest
<1>7. \A i \in 1..L : s[i] = Ranked(page, i - 1)
  BY DEF Newest
<1> HIDE DEF s, L
<1>8. s \in Seq(page) /\ Len(s) = L
  BY <1>2, <1>5
<1>9. ASSUME NEW e \in page \ ToSet(s)
      PROVE  Cardinality(Newer(page, e)) \in L..N - 1
  <2> DEFINE k == Cardinality(Newer(page, e))
  <2>1. k \in 0..N - 1
    BY Ranks
  <2>2. ASSUME k < L PROVE FALSE
    <3>1. k + 1 \in 1..L /\ (k + 1) - 1 = k
      BY <1>2, <2>1, <2>2
    <3>2. s[k + 1] \in page /\ Cardinality(Newer(page, s[k + 1])) = k
      BY <1>5, <1>6, <3>1
    <3>3. s[k + 1] # e
      BY <1>5, <3>1 DEF ToSet
    <3>4. s[k + 1] \in Nat /\ e \in Nat
      BY <3>2
    <3>5. s[k + 1] > e \/ e > s[k + 1]
      BY <3>3, <3>4
    <3>6. k < k
      BY <3>2, <3>5, Ranks
    <3>7. QED  BY <2>1, <3>6
  <2>3. QED  BY <1>1, <1>2, <2>1, <2>2
<1>10. ASSUME NEW e \in page \ ToSet(s)
       PROVE  L = HistoryLimit /\ \A n \in ToSet(s) : n > e
  <2>1. L < N
    BY <1>1, <1>2, <1>9
  <2>2. ASSUME NEW i \in 1..L PROVE s[i] > e
    <3>1. s[i] \in page /\ Cardinality(Newer(page, s[i])) = i - 1
      BY <1>5, <1>6
    <3>2. Cardinality(Newer(page, e)) \in L..N - 1
      BY <1>9
    <3>3. e # s[i] /\ e \in Nat /\ s[i] \in Nat
      BY <1>5, <3>1 DEF ToSet
    <3>4. ASSUME e > s[i] PROVE FALSE
      <4>1. Cardinality(Newer(page, e)) < Cardinality(Newer(page, s[i]))
        BY <3>1, <3>4, Ranks
      <4>2. QED  BY <1>1, <1>2, <3>1, <3>2, <4>1
    <3>5. QED  BY <3>3, <3>4
  <2>3. QED  BY <1>2, <1>5, <2>1, <2>2 DEF ToSet
<1>11. QED  BY <1>2, <1>8, <1>10 DEF s

-----------------------------------------------------------------------------
(* The tables of publishes and of branches.                                 *)

(* What each publish is, and where it leads. *)
LEMMA PublishTable ==
  /\ DOMAIN Publishes = {"recall", "recalled", "unrecalled", "remember",
                         "remembered", "forgotten"}
  /\ Publishes["recall"] = [event |-> "MemoryRecallStarted",
                            next |-> "gather", error |-> "failed"]
  /\ Publishes["recalled"] = [event |-> "MemoryRecallCompleted",
                              next |-> "think", error |-> "unrecalled"]
  /\ Publishes["unrecalled"] = [event |-> "MemoryRecallFailed",
                                next |-> "failed", error |-> "failed"]
  /\ Publishes["remember"] = [event |-> "MemoryStoreStarted",
                              next |-> "store", error |-> "failed"]
  /\ Publishes["remembered"] = [event |-> "MemoryStoreCompleted",
                                next |-> "extract", error |-> "forgotten"]
  /\ Publishes["forgotten"] = [event |-> "MemoryStoreFailed",
                               next |-> "failed", error |-> "failed"]
  BY DEF Publishes

(* The places of a request. *)
LEMMA AllPlaces ==
  Places = {"recall", "recalled", "unrecalled", "remember", "remembered",
            "forgotten", "idle", "gather", "gathering", "think", "store",
            "extract", "add", "tell", "done", "failed"}
  BY PublishTable DEF Places

(* A publish takes its request where the table says, and stores at most its *)
(* event.                                                                   *)
LEMMA PublishStep ==
  ASSUME NEW r \in Requests, Publish(r), pc \in [Requests -> Places],
         log \in [Requests -> SUBSET Events]
  PROVE  /\ pc[r] \in DOMAIN Publishes
         /\ pc' = [pc EXCEPT ![r] = pc'[r]]
         /\ pc'[r] \in {Publishes[pc[r]].next, Publishes[pc[r]].error}
         /\ pc'[r] \in Places
         /\ <<Publishes[pc[r]].event>> \in Events
         /\ log' = [log EXCEPT ![r] = log'[r]]
         /\ log[r] \subseteq log'[r]
         /\ log'[r] \subseteq log[r] \union {<<Publishes[pc[r]].event>>}
         /\ errors' \in {errors, errors + 1}
         /\ errors' # errors => errors < MaxErrors
<1> DEFINE p == Publishes[pc[r]]
<1>1. pc[r] \in DOMAIN Publishes
  BY DEF Publish
<1>2. <<p.event>> \in Events
  BY <1>1 DEF Events
<1>3. p.next \in Places /\ p.error \in Places
  BY <1>1, PublishTable, AllPlaces
<1> HIDE DEF p
<1>4. /\ pc' \in {[pc EXCEPT ![r] = p.next], [pc EXCEPT ![r] = p.error]}
      /\ log' \in {log, [log EXCEPT ![r] = @ \union {<<p.event>>}]}
      /\ errors' \in {errors, errors + 1}
      /\ errors' # errors => errors < MaxErrors
  BY DEF Publish, p, Goes, Stores, StoresPerhaps, Works, Raises
<1>5. /\ pc' = [pc EXCEPT ![r] = pc'[r]]
      /\ pc'[r] \in {p.next, p.error}
  BY <1>4
<1>6. /\ log' = [log EXCEPT ![r] = log'[r]]
      /\ log[r] \subseteq log'[r]
      /\ log'[r] \subseteq log[r] \union {<<p.event>>}
  BY <1>4
<1>7. QED  BY <1>1, <1>2, <1>3, <1>4, <1>5, <1>6 DEF p

(* The plans of the branches. *)
LEMMA PlanTypes ==
  /\ Plan \in [Branches -> Seq(BranchSteps)]
  /\ BranchSteps \subseteq Events \union BranchCalls
<1>1. /\ <<"SummaryFetched">> \in BranchSteps
      /\ <<"GraphQueryStarted">> \in BranchSteps
      /\ <<"GraphQueryCompleted">> \in BranchSteps
      /\ <<"SemanticSearchStarted">> \in BranchSteps
      /\ <<"SemanticSearchCompleted">> \in BranchSteps
      /\ <<"load">> \in BranchSteps /\ <<"query">> \in BranchSteps
      /\ <<"search">> \in BranchSteps /\ <<"scroll">> \in BranchSteps
  BY DEF BranchSteps, Answers, BranchCalls
<1>2. /\ Plan.summary \in Seq(BranchSteps)
      /\ Plan.facts \in Seq(BranchSteps)
      /\ Plan.semantic \in Seq(BranchSteps)
      /\ Plan.recent \in Seq(BranchSteps)
  BY <1>1 DEF Plan
<1>3. Plan \in [Branches -> Seq(BranchSteps)]
  BY <1>2 DEF Plan, Branches
<1>4. Answers \subseteq Events
  BY DEF Answers, Events
<1>5. Fetched \subseteq Events
  BY DEF Fetched, Events
<1>6. QED  BY <1>3, <1>4, <1>5 DEF BranchSteps

-----------------------------------------------------------------------------
(* Types.                                                                   *)

(* The databases only grow, and so does the clock: what was a timestamp     *)
(* stays one.                                                               *)
LEMMA ClockGrows ==
  ASSUME MemoryTypes, clock' \in {clock, clock + 1}
  PROVE  /\ clock' \in Nat
         /\ 1..clock \subseteq 1..clock' /\ 0..clock \subseteq 0..clock'
         /\ recent \in [Requests -> Seq(1..clock')]
<1>1. /\ clock' \in Nat
      /\ 1..clock \subseteq 1..clock' /\ 0..clock \subseteq 0..clock'
  BY DEF MemoryTypes, TypeOK
<1>2. \A r \in Requests : recent[r] \in Seq(1..clock')
  BY <1>1, SeqMonotonic DEF MemoryTypes, TypeOK
<1>3. QED  BY <1>1, <1>2 DEF MemoryTypes, TypeOK

(* A list of more than one fact has some left after the first. *)
LEMMA MoreLeft ==
  ASSUME NEW S, NEW s \in Seq(S), s # <<>>, Len(s) # 1
  PROVE  Tail(s) # <<>>
<1>1. Len(s) \in Nat /\ Len(s) # 0 /\ Len(<<>>) = 0
  BY EmptySeq
<1>2. Len(Tail(s)) = Len(s) - 1
  BY HeadTailProperties
<1>3. Len(Tail(s)) # 0
  BY <1>1, <1>2
<1>4. QED  BY <1>1, <1>3, Zenon

(* The initial state is of these types. *)
LEMMA TypesInit == Init => MemoryTypes
<1> SUFFICES ASSUME Init PROVE MemoryTypes
  OBVIOUS
<1> USE DEF Init
<1>1. stored \subseteq 1..clock /\ clock \in Nat
  BY MemoryAssumption
<1>2. pc \in [Requests -> Places]
  BY AllPlaces
<1>3. /\ task \in [Requests -> [Branches -> Seq(BranchSteps)]]
      /\ task \in [Requests -> [Branches -> Seq(Events \union BranchCalls)]]
  OBVIOUS
<1>4. \A r \in Requests : Len(recent[r]) <= HistoryLimit
  BY MemoryAssumption
<1>5. /\ recent \in [Requests -> Seq(1..clock)]
      /\ facts \in [Requests -> Seq(Facts)] /\ left \in [Requests -> Seq(Facts)]
  OBVIOUS
<1>6. /\ errors \in 0..MaxErrors
      /\ episode \in [Requests -> 0..clock]
  BY <1>1, MemoryAssumption
<1>7. graph \subseteq Edges /\ IsFiniteSet(graph)
  BY FS_EmptySet
<1>8. QED  BY <1>1, <1>2, <1>3, <1>4, <1>5, <1>6, <1>7 DEF MemoryTypes, TypeOK

(* Every step of a request or of a branch keeps the types. *)
LEMMA TypesStep == MemoryTypes /\ [Next]_vars => MemoryTypes'
<1> SUFFICES ASSUME MemoryTypes, [Next]_vars PROVE MemoryTypes'
  OBVIOUS
<1> USE AllPlaces
<1> MaxErrors \in Nat /\ HistoryLimit \in Nat
  BY MemoryAssumption
<1>0. /\ stored \subseteq 1..clock /\ graph \subseteq Edges /\ clock \in Nat
      /\ pc \in [Requests -> Places] /\ IsFiniteSet(graph)
      /\ log \in [Requests -> SUBSET Events] /\ errors \in 0..MaxErrors
      /\ task \in [Requests -> [Branches -> Seq(BranchSteps)]]
      /\ found \in [Requests -> SUBSET Edges]
      /\ recent \in [Requests -> Seq(1..clock)]
      /\ \A r \in Requests : Len(recent[r]) <= HistoryLimit
      /\ broken \in [Requests -> SUBSET Branches]
      /\ episode \in [Requests -> 0..clock]
      /\ facts \in [Requests -> Seq(Facts)] /\ left \in [Requests -> Seq(Facts)]
      /\ \A r \in Requests :
           /\ pc[r] \in {"remember", "store"} => episode[r] \in 1..clock
           /\ pc[r] \in {"add", "tell"} => left[r] # <<>> /\ facts[r] # <<>>
  BY DEF MemoryTypes, TypeOK
<1>a. errors' = errors \/ (errors < MaxErrors /\ errors' = errors + 1)
        => errors' \in 0..MaxErrors
  BY <1>0
<1>1. ASSUME UNCHANGED vars PROVE MemoryTypes'
  BY <1>1 DEF MemoryTypes, TypeOK, vars, dbVars, recallVars, rememberVars
<1>2. ASSUME NEW r \in Requests, Recall(r) PROVE MemoryTypes'
  BY <1>2 DEF MemoryTypes, TypeOK, Recall, Goes, dbVars, rememberVars
<1>3. ASSUME NEW r \in Requests, Publish(r) PROVE MemoryTypes'
  <2>1. UNCHANGED <<dbVars, recallVars, rememberVars>>
    BY <1>3 DEF Publish
  <2>a. /\ pc[r] \in DOMAIN Publishes
        /\ pc' = [pc EXCEPT ![r] = pc'[r]]
        /\ pc'[r] \in {Publishes[pc[r]].next, Publishes[pc[r]].error}
        /\ pc'[r] \in Places
        /\ <<Publishes[pc[r]].event>> \in Events
        /\ log' = [log EXCEPT ![r] = log'[r]]
        /\ log'[r] \subseteq log[r] \union {<<Publishes[pc[r]].event>>}
        /\ errors' \in {errors, errors + 1}
        /\ errors' # errors => errors < MaxErrors
    BY <1>0, <1>3, PublishStep
  <2>b. log'[r] \in SUBSET Events
    BY <1>0, <2>a
  <2>2. /\ pc' \in [Requests -> Places]
        /\ log' \in [Requests -> SUBSET Events]
        /\ errors' \in 0..MaxErrors
    <3>1. errors' \in 0..MaxErrors
      BY <1>a, <2>a
    <3>2. QED  BY <1>0, <2>a, <2>b, <3>1
  <2>3. /\ pc'[r] \notin {"add", "tell", "remember"}
        /\ pc'[r] = "store" => pc[r] = "remember"
    BY <2>a, PublishTable
  <2>5. \A q \in Requests \ {r} : pc'[q] = pc[q]
    BY <1>0, <2>a
  <2>6. QED
    BY <2>1, <2>2, <2>3, <2>5
    DEF MemoryTypes, TypeOK, dbVars, recallVars, rememberVars
<1>4. ASSUME NEW r \in Requests, Gather(r) PROVE MemoryTypes'
  <2>1. /\ Plan \in [Branches -> Seq(BranchSteps)]
        /\ Plan \in [Branches -> Seq(Events \union BranchCalls)]
    BY PlanTypes, SeqMonotonic
  <2>2. QED
    BY <1>4, <2>1 DEF MemoryTypes, TypeOK, Gather, Goes, dbVars, rememberVars
<1>5. ASSUME NEW r \in Requests, GatherReturns(r) \/ GatherRaises(r)
      PROVE  MemoryTypes'
  BY <1>5 DEF MemoryTypes, TypeOK, GatherReturns, GatherRaises, Goes, dbVars,
              recallVars, rememberVars
<1>6. ASSUME NEW r \in Requests, Think(r) PROVE MemoryTypes'
  <2>1. /\ UNCHANGED <<dbVars, recallVars, facts, left, log>>
        /\ clock' \in {clock, clock + 1}
        /\ pc' \in [Requests -> Places]
        /\ errors' \in 0..MaxErrors
    <3>1. errors' \in 0..MaxErrors
      BY <1>a, <1>6 DEF Think, Works, Raises
    <3>2. QED  BY <1>0, <1>6, <3>1 DEF Think, Goes
  <2>2. /\ clock' \in Nat
        /\ 1..clock \subseteq 1..clock' /\ 0..clock \subseteq 0..clock'
        /\ recent \in [Requests -> Seq(1..clock')]
    BY <2>1, ClockGrows
  <2>3. /\ episode' \in [Requests -> 0..clock']
        /\ \A q \in Requests :
             /\ pc'[q] \in {"remember", "store"} => episode'[q] \in 1..clock'
             /\ pc'[q] \in {"add", "tell"} => pc[q] = pc'[q]
    <3>1. CASE /\ Goes(r, "remember")
               /\ clock' = clock + 1
               /\ episode' = [episode EXCEPT ![r] = clock + 1]
      <4>1. clock + 1 \in 1..clock' /\ clock + 1 \in 0..clock'
        BY <1>0, <3>1
      <4>2. \A q \in Requests \ {r} : episode'[q] = episode[q] /\ pc'[q] = pc[q]
        BY <1>0, <3>1 DEF Goes
      <4>3. episode'[r] = clock + 1 /\ pc'[r] = "remember"
        BY <1>0, <3>1 DEF Goes
      <4>4. \A q \in Requests :
              pc'[q] \in {"remember", "store"} => episode'[q] \in 1..clock'
        BY <1>0, <2>2, <4>1, <4>2, <4>3
      <4>5. episode' \in [Requests -> 0..clock']
        <5>1. \A q \in Requests : episode[q] \in 0..clock'
          BY <1>0, <2>2
        <5>2. QED  BY <1>0, <3>1, <4>1, <5>1
      <4>6. QED  BY <4>2, <4>3, <4>4, <4>5
    <3>2. CASE /\ UNCHANGED <<clock, episode>>
               /\ Goes(r, "done") \/ Goes(r, "failed")
      BY <1>0, <3>2 DEF Goes
    <3>3. QED  BY <1>6, <3>1, <3>2 DEF Think
  <2>4. before' \in [Requests -> SUBSET (1..clock')] /\ stored' \subseteq 1..clock'
    BY <2>1, <2>2 DEF MemoryTypes, TypeOK, dbVars, recallVars
  <2>5. QED
    BY <2>1, <2>2, <2>3, <2>4 DEF MemoryTypes, TypeOK, dbVars, recallVars
<1>7. ASSUME NEW r \in Requests, Store(r) PROVE MemoryTypes'
  <2>1. /\ UNCHANGED <<graph, recallVars, rememberVars, log>>
        /\ stored' \in {stored, stored \union {episode[r]}}
        /\ pc' \in {[pc EXCEPT ![r] = "remembered"], [pc EXCEPT ![r] = "forgotten"]}
        /\ errors' \in 0..MaxErrors
    BY <1>7, MemoryAssumption DEF Store, Goes, Works, Raises, MemoryTypes, TypeOK
  <2>2. stored' \subseteq 1..clock
    BY <1>7, <2>1 DEF MemoryTypes, TypeOK, Store
  <2>3. QED
    BY <2>1, <2>2 DEF MemoryTypes, TypeOK, recallVars, rememberVars
<1>8. ASSUME NEW r \in Requests, Extract(r) PROVE MemoryTypes'
  <2>1. CASE /\ Raises /\ Goes(r, "failed")
             /\ UNCHANGED <<facts, left, dbVars, recallVars, clock, episode, log>>
    <3>1. pc' \in [Requests -> Places] /\ errors' \in 0..MaxErrors
      BY <1>0, <2>1 DEF Goes, Raises
    <3>2. \A q \in Requests :
            pc'[q] \in {"remember", "store", "add", "tell"} => pc'[q] = pc[q]
      BY <1>0, <2>1 DEF Goes
    <3>3. QED
      BY <2>1, <3>1, <3>2 DEF MemoryTypes, TypeOK, dbVars, recallVars
  <2>2. CASE \E fs \in Extractions :
               /\ Works
               /\ facts' = [facts EXCEPT ![r] = fs]
               /\ left' = [left EXCEPT ![r] = fs]
               /\ Goes(r, IF fs = <<>> THEN "done" ELSE "add")
               /\ UNCHANGED <<dbVars, recallVars, clock, episode, log>>
    <3>1. PICK fs \in Extractions :
               /\ Works
               /\ facts' = [facts EXCEPT ![r] = fs]
               /\ left' = [left EXCEPT ![r] = fs]
               /\ Goes(r, IF fs = <<>> THEN "done" ELSE "add")
               /\ UNCHANGED <<dbVars, recallVars, clock, episode, log>>
      BY <2>2
    <3>2. fs \in Seq(Facts)
      BY MemoryAssumption
    <3>3. /\ pc' \in [Requests -> Places]
          /\ \A q \in Requests : pc'[q] \in {"add", "tell"} =>
               \/ q = r /\ left'[q] # <<>> /\ facts'[q] # <<>>
               \/ /\ q # r /\ pc[q] = pc'[q]
                  /\ left'[q] = left[q] /\ facts'[q] = facts[q]
          /\ \A q \in Requests : pc'[q] \in {"remember", "store"} => pc[q] = pc'[q]
      BY <3>1 DEF Goes, MemoryTypes, TypeOK
    <3>4. facts' \in [Requests -> Seq(Facts)] /\ left' \in [Requests -> Seq(Facts)]
      BY <3>1, <3>2 DEF MemoryTypes, TypeOK
    <3>5. QED
      BY <3>1, <3>3, <3>4 DEF Works, MemoryTypes, TypeOK, dbVars, recallVars
  <2>3. QED  BY <1>8, <2>1, <2>2 DEF Extract
<1>9. ASSUME NEW r \in Requests, AddFact(r) PROVE MemoryTypes'
  <2> DEFINE e == EdgeOf[Head(left[r])]
  <2>1. /\ left[r] \in Seq(Facts) /\ left[r] # <<>> /\ Len(left[r]) \in Nat /\ facts[r] \in Seq(Facts)
        /\ Head(left[r]) \in Facts /\ Tail(left[r]) \in Seq(Facts)
        /\ Len(Tail(left[r])) = Len(left[r]) - 1
    BY <1>9 DEF AddFact, MemoryTypes, TypeOK
  <2>2. e \in Edges \union {NoEdge}
    BY <2>1, MemoryAssumption
  <2> HIDE DEF e
  <2>3. /\ UNCHANGED <<stored, recallVars, clock, episode, facts, log>>
        /\ graph' = graph \/ (e # NoEdge /\ graph' = graph \union {e})
        /\ errors' \in 0..MaxErrors
    <3>1. errors' \in 0..MaxErrors
      BY <1>a, <1>9 DEF AddFact, Works, Raises
    <3>2. QED  BY <1>9, <3>1 DEF AddFact, e
  <2>4. graph' \subseteq Edges /\ IsFiniteSet(graph')
    <3>1. IsFiniteSet(graph \union {e})
      BY <1>0, FS_AddElement
    <3>2. QED  BY <1>0, <2>2, <2>3, <3>1
  <2>5. \/ left' = left /\ pc' = [pc EXCEPT ![r] = "failed"]
        \/ /\ Len(left[r]) = 1
           /\ left' = [left EXCEPT ![r] = facts[r]]
           /\ pc' = [pc EXCEPT ![r] = "tell"]
        \/ /\ Len(left[r]) # 1
           /\ left' = [left EXCEPT ![r] = Tail(@)]
           /\ pc' = [pc EXCEPT ![r] = "add"]
    BY <1>9 DEF AddFact, Goes
  <2> facts' = facts
    BY <2>3
  <2>a. Len(left[r]) # 1 => Tail(left[r]) # <<>>
    BY <2>1, MoreLeft
  <2>6. left' \in [Requests -> Seq(Facts)] /\ pc' \in [Requests -> Places]
    BY <1>0, <2>1, <2>5
  <2>7. \A q \in Requests :
          /\ pc'[q] \in {"remember", "store"} => pc[q] = pc'[q]
          /\ pc'[q] \in {"add", "tell"} => left'[q] # <<>> /\ facts'[q] # <<>>
    <3>1. CASE left' = left /\ pc' = [pc EXCEPT ![r] = "failed"]
      BY <3>1 DEF MemoryTypes, TypeOK
    <3>2. CASE /\ Len(left[r]) = 1
               /\ left' = [left EXCEPT ![r] = facts[r]]
               /\ pc' = [pc EXCEPT ![r] = "tell"]
      <4>1. facts[r] # <<>>
        BY <1>9 DEF MemoryTypes, AddFact
      <4>2. QED  BY <3>2, <4>1 DEF MemoryTypes, TypeOK
    <3>3. CASE /\ Len(left[r]) # 1
               /\ left' = [left EXCEPT ![r] = Tail(@)]
               /\ pc' = [pc EXCEPT ![r] = "add"]
      <4>1. Tail(left[r]) # <<>>
        BY <2>a, <3>3
      <4>2. QED  BY <1>0, <1>9, <3>3, <4>1 DEF AddFact
    <3>4. QED  BY <2>5, <3>1, <3>2, <3>3
  <2>8. QED
    BY <2>3, <2>4, <2>6, <2>7 DEF MemoryTypes, TypeOK, recallVars
<1>10. ASSUME NEW r \in Requests, TellFact(r) PROVE MemoryTypes'
  <2> DEFINE f == Head(left[r])
             event == <<"GraphFactAdded", f>>
  <2>1. /\ left[r] \in Seq(Facts) /\ left[r] # <<>> /\ Len(left[r]) \in Nat
        /\ f \in Facts /\ Tail(left[r]) \in Seq(Facts)
        /\ Len(Tail(left[r])) = Len(left[r]) - 1
    BY <1>10 DEF TellFact, MemoryTypes, TypeOK
  <2> HIDE DEF f
  <2>2. event \in Events
    BY <2>1 DEF Events
  <2> HIDE DEF event
  <2>3. /\ UNCHANGED <<dbVars, recallVars, clock, episode, facts>>
        /\ log' = log \/ log' = [log EXCEPT ![r] = @ \union {event}]
        /\ errors' \in 0..MaxErrors
    <3>1. errors' \in 0..MaxErrors
      BY <1>a, <1>10 DEF TellFact, Works, Raises
    <3>2. QED
      BY <1>10, <3>1 DEF TellFact, f, event, Stores, StoresPerhaps
  <2>4. log' \in [Requests -> SUBSET Events]
    <3>1. log[r] \union {event} \in SUBSET Events
      BY <1>0, <2>2
    <3>2. QED  BY <1>0, <2>3, <3>1
  <2> facts' = facts
    BY <2>3
  <2>5. \/ left' = left /\ pc' = [pc EXCEPT ![r] = "failed"]
        \/ /\ left' = [left EXCEPT ![r] = Tail(@)]
           /\ pc' = [pc EXCEPT ![r] = IF Len(left[r]) = 1 THEN "done" ELSE "tell"]
    BY <1>10 DEF TellFact, Goes
  <2>6. left' \in [Requests -> Seq(Facts)] /\ pc' \in [Requests -> Places]
    <3>1. CASE left' = left /\ pc' = [pc EXCEPT ![r] = "failed"]
      BY <1>0, <3>1
    <3>2. CASE /\ left' = [left EXCEPT ![r] = Tail(@)]
               /\ pc' = [pc EXCEPT ![r] = IF Len(left[r]) = 1 THEN "done" ELSE "tell"]
      <4>1. left' \in [Requests -> Seq(Facts)]
        BY <1>0, <2>1, <3>2
      <4>2. pc' \in [Requests -> Places]
        BY <1>0, <3>2
      <4>3. QED  BY <4>1, <4>2
    <3>3. QED  BY <2>5, <3>1, <3>2
  <2>7. Len(left[r]) # 1 => Tail(left[r]) # <<>>
    BY <2>1, MoreLeft
  <2>8. \A q \in Requests :
          /\ pc'[q] \in {"remember", "store"} => pc[q] = pc'[q]
          /\ pc'[q] \in {"add", "tell"} => left'[q] # <<>> /\ facts'[q] # <<>>
    BY <1>0, <1>10, <2>5, <2>7 DEF TellFact
  <2>9. QED
    BY <2>3, <2>4, <2>6, <2>8 DEF MemoryTypes, TypeOK, dbVars, recallVars
<1>11. ASSUME NEW r \in Requests, NEW b \in Branches, Answer(r, b)
       PROVE  MemoryTypes'
  <2> DEFINE rest == Tail(task[r][b])
  <2>1. rest \in Seq(BranchSteps)
    BY <1>11 DEF Answer, MemoryTypes
  <2> HIDE DEF rest
  <2>2. /\ UNCHANGED <<dbVars, pc, broken, before, rememberVars, log, errors>>
        /\ \/ task' = [task EXCEPT ![r][b] = rest] /\ UNCHANGED <<found, recent>>
           \/ \E es \in SUBSET graph :
                /\ found' = [found EXCEPT ![r] = es]
                /\ task' = [task EXCEPT ![r][b] =
                     rest \o SetToSeq({"GraphFactFetched"} \X es)]
                /\ UNCHANGED recent
           \/ /\ \E page \in Pages : recent' = [recent EXCEPT ![r] = Newest(page)]
              /\ task' = [task EXCEPT ![r][b] = rest]
              /\ UNCHANGED found
    BY <1>11 DEF Answer, rest
  <2>3. /\ \E s \in Seq(BranchSteps) : task' = [task EXCEPT ![r][b] = s]
        /\ found' \in [Requests -> SUBSET Edges]
    <3>1. ASSUME NEW es \in SUBSET graph
          PROVE  rest \o SetToSeq({"GraphFactFetched"} \X es) \in Seq(BranchSteps)
      <4>1. IsFiniteSet({"GraphFactFetched"} \X es)
        BY FS_Subset, FS_Singleton, FS_Product DEF MemoryTypes
      <4>2. SetToSeq({"GraphFactFetched"} \X es)
              \in Seq({"GraphFactFetched"} \X es)
        BY <4>1, SetToSeqProperties
      <4>3. {"GraphFactFetched"} \X es \subseteq BranchSteps
        BY DEF MemoryTypes, TypeOK, BranchSteps, Fetched
      <4>4. SetToSeq({"GraphFactFetched"} \X es) \in Seq(BranchSteps)
        BY <4>2, <4>3, SeqMonotonic
      <4>5. QED  BY <2>1, <4>4
    <3>2. QED
      <4>1. CASE /\ task' = [task EXCEPT ![r][b] = rest]
                 /\ found' = found
        BY <1>0, <2>1, <4>1
      <4>2. ASSUME NEW es \in SUBSET graph, found' = [found EXCEPT ![r] = es],
                   task' = [task EXCEPT ![r][b] =
                     rest \o SetToSeq({"GraphFactFetched"} \X es)]
            PROVE  /\ \E s \in Seq(BranchSteps) : task' = [task EXCEPT ![r][b] = s]
                   /\ found' \in [Requests -> SUBSET Edges]
        <5>1. es \in SUBSET Edges
          BY <1>0
        <5>2. QED  BY <1>0, <3>1, <4>2, <5>1
      <4>3. QED  BY <2>2, <4>1, <4>2
  <2>4. /\ recent' \in [Requests -> Seq(1..clock)]
        /\ \A q \in Requests : Len(recent'[q]) <= HistoryLimit
    <3>1. ASSUME NEW page \in Pages
          PROVE  /\ Newest(page) \in Seq(1..clock)
                 /\ Len(Newest(page)) <= HistoryLimit
      <4>1. page \in SUBSET stored
        BY DEF Pages, kSubset
      <4>2. /\ page \subseteq Nat /\ page \subseteq 1..clock
            /\ IsFiniteSet(1..clock) /\ IsFiniteSet(page)
        <5>1. page \subseteq 1..clock /\ page \subseteq Nat /\ 1 \in Int /\ clock \in Int
          BY <1>0, <4>1
        <5>2. IsFiniteSet(1..clock)
          BY <5>1, FS_Interval
        <5>3. QED  BY <5>1, <5>2, FS_Subset
      <4>3. Newest(page) \in Seq(page) /\ Len(Newest(page)) <= HistoryLimit
        BY <4>2, NewestProperties
      <4>4. QED  BY <4>2, <4>3, SeqMonotonic
    <3>2. CASE recent' = recent
      BY <1>0, <3>2
    <3>3. CASE \E page \in Pages : recent' = [recent EXCEPT ![r] = Newest(page)]
      BY <1>0, <3>1, <3>3
    <3>4. QED  BY <2>2, <3>2, <3>3
  <2>5. PICK s \in Seq(BranchSteps) : task' = [task EXCEPT ![r][b] = s]
    BY <2>3
  <2>6. s \in Seq(Events \union BranchCalls)
    BY PlanTypes, SeqMonotonic
  <2>7. /\ task' \in [Requests -> [Branches -> Seq(BranchSteps)]]
        /\ task' \in [Requests -> [Branches -> Seq(Events \union BranchCalls)]]
    BY <2>5, <2>6 DEF MemoryTypes, TypeOK
  <2>8. QED
    BY <2>2, <2>3, <2>4, <2>7 DEF MemoryTypes, TypeOK, dbVars, rememberVars
<1>12. ASSUME NEW r \in Requests, NEW b \in Branches,
              Announce(r, b) \/ BranchRaises(r, b)
       PROVE  MemoryTypes'
  <2>1. task[r][b] # <<>> /\ task[r][b] \in Seq(BranchSteps)
    BY <1>12 DEF Announce, BranchRaises, MemoryTypes
  <2>2. Tail(task[r][b]) \in Seq(BranchSteps) /\ <<>> \in Seq(BranchSteps)
    BY <2>1
  <2>3. \E s \in Seq(BranchSteps) : task' = [task EXCEPT ![r][b] = s]
    BY <1>12, <2>2 DEF Announce, BranchRaises, MemoryTypes
  <2>4. PICK s \in Seq(BranchSteps) : task' = [task EXCEPT ![r][b] = s]
    BY <2>3
  <2>5. s \in Seq(Events \union BranchCalls)
    BY PlanTypes, SeqMonotonic
  <2>6. /\ task' \in [Requests -> [Branches -> Seq(BranchSteps)]]
        /\ task' \in [Requests -> [Branches -> Seq(Events \union BranchCalls)]]
    BY <2>4, <2>5 DEF MemoryTypes, TypeOK
  <2>7. /\ UNCHANGED <<dbVars, pc, found, recent, before, rememberVars>>
        /\ log' \in [Requests -> SUBSET Events]
        /\ broken' \in [Requests -> SUBSET Branches]
        /\ errors' \in 0..MaxErrors
    <3>1. CASE Announce(r, b)
      <4>1. log' \in [Requests -> SUBSET Events]
        BY <1>0, <3>1 DEF Announce, Stores
      <4>2. QED  BY <1>0, <3>1, <4>1 DEF Announce
    <3>2. CASE BranchRaises(r, b)
      <4>1. errors' \in 0..MaxErrors
        BY <1>a, <3>2 DEF BranchRaises, Raises
      <4>2. /\ UNCHANGED <<dbVars, pc, found, recent, before, rememberVars>>
            /\ broken' \in [Requests -> SUBSET Branches]
        BY <1>0, <3>2 DEF BranchRaises
      <4>3. log' \in [Requests -> SUBSET Events]
        <5> DEFINE event == Head(task[r][b])
        <5>1. log' = log \/ (event \in Events
                             /\ log' = [log EXCEPT ![r] = @ \union {event}])
          BY <3>2 DEF BranchRaises, Stores
        <5> HIDE DEF event
        <5>2. event \in Events => log[r] \union {event} \in SUBSET Events
          BY <1>0
        <5>3. QED  BY <1>0, <5>1, <5>2
      <4>4. QED  BY <4>1, <4>2, <4>3
    <3>3. QED  BY <1>12, <3>1, <3>2
  <2>8. QED
    BY <2>6, <2>7 DEF MemoryTypes, TypeOK, dbVars, rememberVars
<1>13. QED
  BY <1>1, <1>2, <1>3, <1>4, <1>5, <1>6, <1>7, <1>8, <1>9, <1>10, <1>11, <1>12
  DEF Next, Request, Branch

(* The inductive invariant of the types. *)
THEOREM MemoryTypesHold == Spec => []MemoryTypes
<1>1. QED  BY TypesInit, TypesStep, PTL DEF Spec

(* Types: the state is of the shape the code gives it, and a recall never   *)
(* brings more history than was asked for, however large the store.         *)
THEOREM TypeCorrect == Spec => []TypeOK
<1>1. MemoryTypes => TypeOK
  BY DEF MemoryTypes
<1>2. QED  BY <1>1, MemoryTypesHold, PTL

-----------------------------------------------------------------------------
(* What a step leaves alone.                                                *)

(* A step of one request or of its branches leaves the other requests       *)
(* alone, but for the databases, and those only grow.                       *)
LEMMA OneAtATime ==
  ASSUME MemoryTypes, NEW r \in Requests,
         Request(r) \/ \E b \in Branches : Branch(r, b)
  PROVE  /\ stored \subseteq stored' /\ graph \subseteq graph'
         /\ \A q \in Requests \ {r} :
              /\ pc'[q] = pc[q] /\ task'[q] = task[q] /\ broken'[q] = broken[q]
              /\ found'[q] = found[q] /\ recent'[q] = recent[q]
              /\ before'[q] = before[q] /\ episode'[q] = episode[q]
              /\ facts'[q] = facts[q] /\ left'[q] = left[q] /\ log'[q] = log[q]
<1> DEFINE Goal ==
      /\ stored \subseteq stored' /\ graph \subseteq graph'
      /\ \A q \in Requests \ {r} :
           /\ pc'[q] = pc[q] /\ task'[q] = task[q] /\ broken'[q] = broken[q]
           /\ found'[q] = found[q] /\ recent'[q] = recent[q]
           /\ before'[q] = before[q] /\ episode'[q] = episode[q]
           /\ facts'[q] = facts[q] /\ left'[q] = left[q] /\ log'[q] = log[q]
<1> USE DEF dbVars, recallVars, rememberVars
<1>0. /\ pc \in [Requests -> Places] /\ log \in [Requests -> SUBSET Events]
      /\ task \in [Requests -> [Branches -> Seq(BranchSteps)]]
      /\ DOMAIN broken = Requests /\ DOMAIN found = Requests
      /\ DOMAIN recent = Requests /\ DOMAIN before = Requests
      /\ DOMAIN episode = Requests /\ DOMAIN facts = Requests
      /\ DOMAIN left = Requests
  BY DEF MemoryTypes, TypeOK
<1>1. ASSUME Recall(r) PROVE Goal
  BY <1>0, <1>1 DEF Recall, Goes
<1>2. ASSUME Publish(r) PROVE Goal
  <2>1. pc' = [pc EXCEPT ![r] = pc'[r]] /\ log' = [log EXCEPT ![r] = log'[r]]
    BY <1>0, <1>2, PublishStep
  <2>2. UNCHANGED <<dbVars, recallVars, rememberVars>>
    BY <1>2 DEF Publish
  <2>3. QED  BY <1>0, <2>1, <2>2
<1>3. ASSUME Gather(r) \/ GatherReturns(r) \/ GatherRaises(r) PROVE Goal
  BY <1>0, <1>3 DEF Gather, GatherReturns, GatherRaises, Goes
<1>4. ASSUME Think(r) PROVE Goal
  BY <1>0, <1>4 DEF Think, Goes
<1>5. ASSUME Store(r) PROVE Goal
  BY <1>0, <1>5 DEF Store, Goes
<1>6. ASSUME Extract(r) PROVE Goal
  BY <1>0, <1>6 DEF Extract, Goes
<1>7. ASSUME AddFact(r) PROVE Goal
  BY <1>0, <1>7 DEF AddFact, Goes
<1>8. ASSUME TellFact(r) PROVE Goal
  BY <1>0, <1>8 DEF TellFact, Goes, Stores, StoresPerhaps
<1>9. ASSUME NEW b \in Branches, Answer(r, b) PROVE Goal
  BY <1>0, <1>9 DEF Answer
<1>10. ASSUME NEW b \in Branches, Announce(r, b) PROVE Goal
  BY <1>0, <1>10 DEF Announce, Stores
<1>11. ASSUME NEW b \in Branches, BranchRaises(r, b) PROVE Goal
  BY <1>0, <1>11 DEF BranchRaises, Stores
<1>12. QED
  BY <1>1, <1>2, <1>3, <1>4, <1>5, <1>6, <1>7, <1>8, <1>9, <1>10, <1>11
  DEF Request, Branch

(* What a step of a branch does: it takes its branch one step further and   *)
(* stores at most the event that was next, and only its query and its       *)
(* scroll return anything.                                                  *)
LEMMA BranchStep ==
  ASSUME MemoryTypes, NEW r \in Requests, NEW b \in Branches, Branch(r, b)
  PROVE  /\ UNCHANGED <<dbVars, pc, before, rememberVars>>
         /\ task[r][b] # <<>> /\ task[r][b] \in Seq(BranchSteps)
         /\ Head(task[r][b]) \in BranchSteps
         /\ \A c \in Branches \ {b} : task'[r][c] = task[r][c]
         /\ log[r] \subseteq log'[r]
         /\ log'[r] \subseteq log[r] \union {Head(task[r][b])}
         /\ broken'[r] \in {broken[r], broken[r] \union {b}}
<1>1. /\ task[r][b] # <<>> /\ task[r][b] \in Seq(BranchSteps)
      /\ UNCHANGED <<dbVars, pc, before, rememberVars>>
  BY DEF Branch, Answer, Announce, BranchRaises, MemoryTypes
<1>2. Head(task[r][b]) \in BranchSteps
  BY <1>1
<1>3. \E s : task' = [task EXCEPT ![r][b] = s]
  BY DEF Branch, Answer, Announce, BranchRaises
<1>4. \A c \in Branches \ {b} : task'[r][c] = task[r][c]
  BY <1>3 DEF MemoryTypes
<1>5. /\ log[r] \subseteq log'[r]
      /\ log'[r] \subseteq log[r] \union {Head(task[r][b])}
  <2>1. \/ log' = log
        \/ log' = [log EXCEPT ![r] = @ \union {Head(task[r][b])}]
    BY DEF Branch, Answer, Announce, BranchRaises, Stores
  <2>2. DOMAIN log = Requests
    BY DEF MemoryTypes, TypeOK
  <2>3. QED  BY <2>1, <2>2
<1>6. broken'[r] \in {broken[r], broken[r] \union {b}}
  BY DEF Branch, Answer, Announce, BranchRaises, MemoryTypes, TypeOK
<1>7. QED  BY <1>1, <1>2, <1>4, <1>5, <1>6

-----------------------------------------------------------------------------
(* What the store tells of episodes and facts.                              *)

(* No publish of the table and no branch announces a fact, and no branch    *)
(* that an episode is stored.                                               *)
LEMMA OtherEvents ==
  /\ \A p \in DOMAIN Publishes, f \in Facts :
       <<Publishes[p].event>> # <<"GraphFactAdded", f>>
  /\ \A e \in BranchSteps :
       /\ e # <<"MemoryStoreCompleted">>
       /\ e # <<"MemoryRecallCompleted">>
       /\ \A f \in Facts : e # <<"GraphFactAdded", f>>
  /\ \A f \in Facts : /\ <<"GraphFactAdded", f>> # <<"MemoryStoreCompleted">>
                      /\ <<"GraphFactAdded", f>> # <<"MemoryRecallCompleted">>
  /\ \A e \in Edges, f \in Facts :
       <<"GraphFactAdded", f>> # <<"GraphFactFetched", e>>
<1>1. \A e \in BranchSteps, f \in Facts : e # <<"GraphFactAdded", f>>
  BY DEF BranchSteps, Answers, Fetched, BranchCalls
<1>2. \A e \in BranchSteps :
        e # <<"MemoryStoreCompleted">> /\ e # <<"MemoryRecallCompleted">>
  BY DEF BranchSteps, Answers, Fetched, BranchCalls
<1>3. QED  BY <1>1, <1>2

(* The list of what is left, cut before the fact after the first n. *)
LEMMA LeftOver ==
  ASSUME NEW S, NEW s \in Seq(S), NEW n \in 0..Len(s) - 1,
         NEW l, l = SubSeq(s, n + 1, Len(s))
  PROVE  /\ n + 1 \in 1..Len(s) /\ s[n + 1] \in S
         /\ Head(l) = s[n + 1]
         /\ Tail(l) = SubSeq(s, n + 2, Len(s))
         /\ Len(l) = Len(s) - n
<1>1. Len(s) \in Nat /\ n + 1 \in 1..Len(s) /\ Len(s) \in n + 1..Len(s)
  OBVIOUS
<1>2. s[n + 1] \in S
  BY <1>1, ElementOfSeq
<1>3. Head(l) = s[n + 1] /\ Tail(l) = SubSeq(s, (n + 1) + 1, Len(s))
  BY <1>1, HeadTailOfSubSeq
<1>4. (n + 1) + 1 = n + 2
  OBVIOUS
<1>5. Len(l) = Len(s) - n
  <2>1. \A i \in n + 1..Len(s) : s[i] \in S
    BY ElementOfSeq
  <2>2. n + 1 \in Int /\ Len(s) \in Int /\ n + 1 <= Len(s)
    BY <1>1
  <2>3. Len(SubSeq(s, n + 1, Len(s))) = Len(s) - (n + 1) + 1
    BY <2>1, <2>2, SubSeqProperties
  <2>4. QED  BY <1>1, <2>3
<1>6. QED  BY <1>1, <1>2, <1>3, <1>4, <1>5

(* A request that stays where it is and tells nothing of episodes and facts *)
(* keeps its word while the databases grow.                                 *)
LEMMA FactsFrame ==
  ASSUME NEW q, EpisodeKept(q), FactsKept(q),
         stored \subseteq stored', graph \subseteq graph',
         pc'[q] = pc[q], episode'[q] = episode[q],
         facts'[q] = facts[q], left'[q] = left[q],
         Announced(q)' = Announced(q),
         <<"MemoryStoreCompleted">> \in log'[q] =>
           <<"MemoryStoreCompleted">> \in log[q]
  PROVE  EpisodeKept(q)' /\ FactsKept(q)'
<1>1. EpisodeKept(q)'
  BY DEF EpisodeKept
<1>2. \A n : /\ Added(q, n) => Added(q, n)'
             /\ Through(q, n)' <=> Through(q, n)
             /\ FirstOf(q, n)' = FirstOf(q, n)
  BY DEF Added, Through, FirstOf
<1>3. FactsKept(q)'
  BY <1>2 DEF FactsKept
<1>4. QED  BY <1>1, <1>3

(* A request that has no facts yet, or none left, may go anywhere but to    *)
(* the loops over them.                                                     *)
LEMMA FactsNone ==
  ASSUME NEW q, facts'[q] = <<>>, Announced(q)' = {},
         pc'[q] \notin {"add", "tell"}
  PROVE  FactsKept(q)'
<1>1. Len(<<>>) = 0
  OBVIOUS
<1>2. Added(q, Len(facts[q]))' /\ FirstOf(q, Len(facts[q]))' = {}
  BY <1>1 DEF Added, FirstOf
<1>3. QED  BY <1>2 DEF FactsKept

(* Initially nothing is told of episodes and facts. *)
LEMMA FactsInit == Init => FactsInv
<1> SUFFICES ASSUME Init, NEW r \in Requests
             PROVE  EpisodeKept(r) /\ FactsKept(r)
  BY DEF FactsInv
<1>1. pc[r] = "idle" /\ log[r] = {} /\ facts[r] = <<>>
  BY DEF Init
<1>2. EpisodeKept(r)
  BY <1>1 DEF EpisodeKept
<1>3. FactsKept(r)
  BY <1>1 DEF FactsKept, Announced
<1>4. QED  BY <1>2, <1>3

(* A step of the loop that adds facts: the first of them are in the graph. *)
LEMMA AddFactKeeps ==
  ASSUME MemoryTypes, NEW r \in Requests, FactsKept(r), AddFact(r)
  PROVE  FactsKept(r)'
<1> DEFINE fs == facts[r]
           L == Len(fs)
<1>1. pc[r] = "add" /\ fs \in Seq(Facts) /\ L \in Nat /\ facts'[r] = fs
      /\ Announced(r)' = Announced(r)
  BY DEF AddFact, MemoryTypes, TypeOK, Announced
<1>2. PICK n \in 0..L - 1 : Through(r, n) /\ Added(r, n)
  BY <1>1 DEF FactsKept
<1>3. Announced(r) = {}
  BY <1>1 DEF FactsKept
<1> DEFINE e == EdgeOf[Head(left[r])]
<1>4. /\ n + 1 \in 1..L /\ Head(left[r]) = fs[n + 1]
      /\ Tail(left[r]) = SubSeq(fs, n + 2, L)
      /\ Len(left[r]) = L - n
  BY <1>1, <1>2, LeftOver DEF Through
<1> HIDE DEF fs
<1>5. CASE pc'[r] = "failed"
  BY <1>1, <1>3, <1>5 DEF FactsKept
<1>6. CASE /\ graph' = graph \union {e}
           /\ pc' = [pc EXCEPT ![r] = IF Len(left[r]) = 1 THEN "tell" ELSE "add"]
           /\ left' = [left EXCEPT ![r] = IF Len(@) = 1 THEN facts[r] ELSE Tail(@)]
  <2>1. Added(r, n + 1)'
    <3>1. ASSUME NEW i \in 1..n + 1 PROVE EdgeOf[facts'[r][i]] \in graph'
      <4>1. CASE i = n + 1
        BY <1>1, <1>4, <1>6, <4>1
      <4>2. CASE i # n + 1
        <5>1. i \in 1..n
          BY <1>2, <4>2
        <5>2. EdgeOf[fs[i]] \in graph
          BY <1>2, <5>1 DEF Added, fs
        <5>3. QED  BY <1>1, <1>6, <5>2
      <4>3. QED  BY <4>1, <4>2
    <3>2. QED  BY <3>1 DEF Added
  <2>2. CASE Len(left[r]) = 1
    <3>1. pc'[r] = "tell" /\ left'[r] = fs
      <4>1. DOMAIN pc = Requests /\ DOMAIN left = Requests
        BY DEF MemoryTypes, TypeOK
      <4>2. QED  BY <1>6, <2>2, <4>1 DEF fs
    <3>2. n + 1 = L
      <4>1. L - n = 1
        BY <1>4, <2>2
      <4>2. n \in Int /\ L \in Int
        BY <1>1
      <4>3. QED  BY <4>1, <4>2
    <3>3. Through(r, 0)'
      BY <1>1, <3>1, SubSeqFull DEF Through
    <3>4. Announced(r)' = FirstOf(r, 0)'
      BY <1>1, <1>3 DEF FirstOf
    <3>5. 0 \in 0..L - 1
      BY <1>1, <1>2
    <3>6. Added(r, Len(facts[r]))'
      BY <1>1, <2>1, <3>2 DEF fs
    <3>7. QED  BY <1>1, <3>1, <3>3, <3>4, <3>5, <3>6 DEF FactsKept
  <2>3. CASE Len(left[r]) # 1
    <3>1. pc'[r] = "add" /\ left'[r] = Tail(left[r])
      BY <1>6, <2>3 DEF MemoryTypes, TypeOK
    <3>2. n + 1 \in 0..L - 1 /\ (n + 1) + 1 = n + 2
      BY <1>1, <1>2, <1>4, <2>3
    <3>3. Through(r, n + 1)'
      BY <1>1, <1>4, <3>1, <3>2 DEF Through
    <3>4. QED  BY <1>1, <1>3, <2>1, <3>1, <3>2, <3>3 DEF FactsKept
  <2>4. QED  BY <2>2, <2>3
<1>7. QED
  BY <1>5, <1>6 DEF AddFact, Goes, MemoryTypes, TypeOK

(* ... and of the loop that tells them: what has been told is the first     *)
(* part of the facts, all of which are in the graph.                        *)
LEMMA TellFactKeeps ==
  ASSUME MemoryTypes, NEW r \in Requests, FactsKept(r), TellFact(r)
  PROVE  FactsKept(r)'
<1> DEFINE fs == facts[r]
           L == Len(fs)
           f == Head(left[r])
           event == <<"GraphFactAdded", f>>
<1>1. /\ pc[r] = "tell" /\ fs \in Seq(Facts) /\ L \in Nat
      /\ facts'[r] = fs /\ graph' = graph
  BY DEF TellFact, MemoryTypes, TypeOK, dbVars
<1>2. PICK n \in 0..L - 1 : Through(r, n) /\ Announced(r) = FirstOf(r, n)
  BY <1>1 DEF FactsKept
<1>3. Added(r, L)'
  BY <1>1 DEF FactsKept, Added
<1>4. /\ n + 1 \in 1..L /\ f = fs[n + 1] /\ f \in Facts
      /\ Tail(left[r]) = SubSeq(fs, n + 2, L)
      /\ Len(left[r]) = L - n
  BY <1>1, <1>2, LeftOver DEF Through
<1>5. FirstOf(r, n)' = FirstOf(r, n)
      /\ FirstOf(r, n + 1)' = FirstOf(r, n) \union {f}
  <2>1. \A i \in 1..n + 1 : i \in 1..n \/ i = n + 1
    BY <1>2
  <2>2. 1..n \subseteq 1..n + 1 /\ n + 1 \in 1..n + 1
    BY <1>2
  <2> HIDE DEF fs, f
  <2>3. {fs[i] : i \in 1..n + 1} = {fs[i] : i \in 1..n} \union {f}
    BY <1>4, <2>1, <2>2
  <2>4. QED  BY <1>1, <2>3 DEF FirstOf, fs
<1>6. /\ log'[r] = log[r] \union {event} => Announced(r)' = Announced(r) \union {f}
      /\ log'[r] = log[r] => Announced(r)' = Announced(r)
  BY <1>4 DEF Announced
<1>7. log'[r] = log[r] \/ log'[r] = log[r] \union {event}
  BY DEF TellFact, Stores, StoresPerhaps, MemoryTypes, TypeOK
<1> HIDE DEF fs, f, event
<1>8. CASE pc' = [pc EXCEPT ![r] = "failed"]
  <2>1. pc'[r] = "failed"
    BY <1>8 DEF MemoryTypes, TypeOK
  <2>2. n \in 0..L /\ n + 1 \in 0..L
    BY <1>1, <1>2
  <2>3. Announced(r)' = FirstOf(r, n)' \/ Announced(r)' = FirstOf(r, n + 1)'
    BY <1>2, <1>5, <1>6, <1>7
  <2>4. QED  BY <1>1, <1>3, <2>1, <2>2, <2>3 DEF FactsKept, fs
<1>9. CASE /\ log' = [log EXCEPT ![r] = @ \union {event}]
           /\ pc' = [pc EXCEPT ![r] = IF Len(left[r]) = 1 THEN "done" ELSE "tell"]
           /\ left' = [left EXCEPT ![r] = Tail(@)]
  <2>1. Announced(r)' = FirstOf(r, n + 1)'
    BY <1>2, <1>5, <1>6, <1>9 DEF MemoryTypes, TypeOK
  <2>2. CASE Len(left[r]) = 1
    <3>1. pc'[r] = "done" /\ n + 1 = L
      <4>1. DOMAIN pc = Requests
        BY DEF MemoryTypes, TypeOK
      <4>2. n + 1 = L
        BY <1>1, <1>2, <1>4, <2>2
      <4>3. QED  BY <1>9, <2>2, <4>1, <4>2
    <3>2. QED  BY <1>1, <1>3, <2>1, <3>1 DEF FactsKept, fs
  <2>3. CASE Len(left[r]) # 1
    <3>1. pc'[r] = "tell" /\ left'[r] = Tail(left[r])
      BY <1>9, <2>3 DEF MemoryTypes, TypeOK
    <3>2. n + 1 \in 0..L - 1 /\ (n + 1) + 1 = n + 2
      BY <1>1, <1>2, <1>4, <2>3
    <3>3. Through(r, n + 1)'
      BY <1>1, <1>4, <3>1, <3>2 DEF Through, fs
    <3>4. QED  BY <1>1, <1>3, <2>1, <3>1, <3>2, <3>3 DEF FactsKept, fs
  <2>4. QED  BY <2>2, <2>3
<1>10. QED
  BY <1>8, <1>9 DEF TellFact, Goes, Stores, f, event

(* Every step keeps what is told of episodes and facts. *)
LEMMA FactsStep == MemoryTypes /\ FactsInv /\ [Next]_vars => FactsInv'
<1> SUFFICES ASSUME MemoryTypes, FactsInv, [Next]_vars PROVE FactsInv'
  OBVIOUS
<1>1. CASE UNCHANGED vars
  <2>1. ASSUME NEW q \in Requests PROVE EpisodeKept(q)' /\ FactsKept(q)'
    BY <1>1, FactsFrame
    DEF FactsInv, Announced, vars, dbVars, rememberVars
  <2>2. QED  BY <2>1 DEF FactsInv
<1>2. ASSUME NEW r \in Requests, Request(r) \/ \E b \in Branches : Branch(r, b),
             EpisodeKept(r)' /\ FactsKept(r)'
      PROVE  FactsInv'
  <2>1. ASSUME NEW q \in Requests \ {r} PROVE EpisodeKept(q)' /\ FactsKept(q)'
    <3>1. /\ stored \subseteq stored' /\ graph \subseteq graph'
          /\ pc'[q] = pc[q] /\ episode'[q] = episode[q]
          /\ facts'[q] = facts[q] /\ left'[q] = left[q] /\ log'[q] = log[q]
      BY <1>2, OneAtATime
    <3>2. Announced(q)' = Announced(q)
      BY <3>1 DEF Announced
    <3>3. EpisodeKept(q) /\ FactsKept(q)
      BY DEF FactsInv
    <3>4. QED  BY <3>1, <3>2, <3>3, FactsFrame
  <2>2. QED  BY <1>2, <2>1 DEF FactsInv
<1>3. ASSUME NEW r \in Requests
      PROVE  /\ EpisodeKept(r) /\ FactsKept(r)
             /\ pc[r] \in Places /\ log[r] \subseteq Events
             /\ pc \in [Requests -> Places] /\ log \in [Requests -> SUBSET Events]
             /\ DOMAIN episode = Requests /\ DOMAIN facts = Requests
  BY DEF FactsInv, MemoryTypes, TypeOK
<1>4. ASSUME NEW r \in Requests, NEW b \in Branches, Branch(r, b)
      PROVE  FactsInv'
  <2>1. /\ UNCHANGED <<stored, graph, pc, episode, facts, left>>
        /\ log[r] \subseteq log'[r]
        /\ log'[r] \subseteq log[r] \union {Head(task[r][b])}
        /\ Head(task[r][b]) \in BranchSteps
    BY <1>4, BranchStep DEF dbVars, rememberVars
  <2>2. /\ Announced(r)' = Announced(r)
        /\ <<"MemoryStoreCompleted">> \in log'[r] =>
             <<"MemoryStoreCompleted">> \in log[r]
    BY <2>1, OtherEvents DEF Announced
  <2>3. EpisodeKept(r)' /\ FactsKept(r)'
    BY <1>3, <2>1, <2>2, FactsFrame
  <2>4. QED  BY <1>2, <1>4, <2>3
<1>5. ASSUME NEW r \in Requests,
             pc[r] \in Places \ {"add", "tell", "done", "failed"},
             facts' = facts, Announced(r)' = Announced(r),
             pc'[r] \notin {"add", "tell"}
      PROVE  FactsKept(r)'
  BY <1>3, <1>5, FactsNone DEF FactsKept
<1>6. ASSUME NEW r \in Requests,
             Recall(r) \/ Gather(r) \/ GatherReturns(r) \/ GatherRaises(r)
      PROVE  FactsInv'
  <2>1. /\ UNCHANGED <<stored, graph, episode, facts, log>>
        /\ pc[r] \in {"idle", "gather", "gathering"}
        /\ pc'[r] \in {"recall", "gathering", "recalled", "unrecalled"}
    BY <1>3, <1>6
    DEF Recall, Gather, GatherReturns, GatherRaises, Goes, dbVars, rememberVars
  <2>2. EpisodeKept(r)'
    BY <1>3, <2>1 DEF EpisodeKept
  <2>3. FactsKept(r)'
    BY <1>3, <1>5, <2>1 DEF Announced
  <2>4. QED  BY <1>2, <1>6, <2>2, <2>3 DEF Request
<1>7. ASSUME NEW r \in Requests, Publish(r) PROVE FactsInv'
  <2> DEFINE p == Publishes[pc[r]]
  <2>1. /\ UNCHANGED <<stored, graph, episode, facts>>
        /\ pc[r] \in DOMAIN Publishes
        /\ pc'[r] \in {p.next, p.error}
        /\ log[r] \subseteq log'[r]
        /\ log'[r] \subseteq log[r] \union {<<p.event>>}
    BY <1>3, <1>7, PublishStep DEF Publish, dbVars, rememberVars
  <2>2. Announced(r)' = Announced(r)
    BY <2>1, OtherEvents DEF Announced
  <2>3. /\ pc[r] \in Places \ {"add", "tell", "done", "failed"}
        /\ pc'[r] \notin {"add", "tell"}
    BY <1>3, <2>1, PublishTable
  <2>4. FactsKept(r)'
    BY <1>5, <2>1, <2>2, <2>3
  <2>5. CASE pc[r] = "remembered"
    <3>1. pc'[r] \in {"extract", "forgotten"} /\ episode[r] \in stored
      BY <1>3, <2>1, <2>5, PublishTable DEF EpisodeKept
    <3>2. EpisodeKept(r)'
      BY <2>1, <3>1 DEF EpisodeKept
    <3>3. QED  BY <1>2, <1>7, <2>4, <3>2 DEF Request
  <2>6. CASE pc[r] # "remembered"
    <3>1. <<p.event>> # <<"MemoryStoreCompleted">>
      BY <2>1, <2>6, PublishTable
    <3>2. <<"MemoryStoreCompleted">> \in log'[r] <=>
          <<"MemoryStoreCompleted">> \in log[r]
      BY <2>1, <3>1
    <3>3. /\ pc'[r] # "remembered"
          /\ pc'[r] \in {"idle", "recall", "gather", "gathering", "recalled",
                         "think"} => pc[r] \in {"recall", "recalled"}
      BY <2>1, PublishTable
    <3>4. EpisodeKept(r)'
      BY <1>3, <2>1, <3>2, <3>3 DEF EpisodeKept
    <3>5. QED  BY <1>2, <1>7, <2>4, <3>4 DEF Request
  <2>7. QED  BY <2>5, <2>6
<1>8. ASSUME NEW r \in Requests, Think(r) PROVE FactsInv'
  <2>1. /\ UNCHANGED <<stored, graph, facts, log>> /\ pc[r] = "think"
        /\ pc'[r] \in {"remember", "done", "failed"}
    BY <1>3, <1>8 DEF Think, Goes, dbVars
  <2>2. EpisodeKept(r)'
    BY <1>3, <2>1 DEF EpisodeKept
  <2>3. FactsKept(r)'
    BY <1>3, <1>5, <2>1 DEF Announced
  <2>4. QED  BY <1>2, <1>8, <2>2, <2>3 DEF Request
<1>9. ASSUME NEW r \in Requests, Store(r) PROVE FactsInv'
  <2>1. /\ UNCHANGED <<episode, facts, log>> /\ pc[r] = "store"
        /\ stored \subseteq stored'
        /\ \/ pc'[r] = "remembered" /\ episode[r] \in stored'
           \/ pc'[r] = "forgotten"
    BY <1>3, <1>9 DEF Store, Goes, rememberVars
  <2>2. EpisodeKept(r)'
    BY <1>3, <2>1 DEF EpisodeKept
  <2>3. FactsKept(r)'
    BY <1>3, <1>5, <2>1 DEF Announced
  <2>4. QED  BY <1>2, <1>9, <2>2, <2>3 DEF Request
<1>10. ASSUME NEW r \in Requests, Extract(r) PROVE FactsInv'
  <2>1. /\ UNCHANGED <<stored, graph, episode, log>> /\ pc[r] = "extract"
    BY <1>10 DEF Extract, dbVars
  <2>2. pc'[r] \in {"done", "add", "failed"}
    BY <1>3, <1>10 DEF Extract, Goes
  <2>3. EpisodeKept(r)'
    BY <1>3, <2>1, <2>2 DEF EpisodeKept
  <2>4. facts[r] = <<>> /\ Announced(r) = {} /\ Announced(r)' = {}
    BY <1>3, <2>1 DEF FactsKept, Announced
  <2>5. CASE Goes(r, "failed") /\ facts' = facts
    BY <1>2, <1>3, <1>5, <1>10, <2>1, <2>3, <2>4, <2>5 DEF Goes, Request
  <2>6. ASSUME NEW fs \in Extractions,
               facts' = [facts EXCEPT ![r] = fs],
               left' = [left EXCEPT ![r] = fs],
               Goes(r, IF fs = <<>> THEN "done" ELSE "add")
        PROVE  FactsKept(r)'
    <3>1. fs \in Seq(Facts) /\ facts'[r] = fs /\ left'[r] = fs
      BY <1>3, <2>6, MemoryAssumption DEF MemoryTypes, TypeOK
    <3>2. CASE fs = <<>>
      <4>1. pc'[r] = "done"
        BY <1>3, <2>6, <3>2 DEF Goes
      <4>2. QED  BY <2>4, <3>1, <3>2, <4>1, FactsNone
    <3>3. CASE fs # <<>>
      <4>1. pc'[r] = "add"
        BY <1>3, <2>6, <3>3 DEF Goes
      <4>2. 0 \in 0..Len(fs) - 1 /\ SubSeq(fs, 0 + 1, Len(fs)) = fs
        <5>1. Len(fs) \in Nat \ {0}
          BY <3>1, <3>3, EmptySeq
        <5>2. QED  BY <3>1, <5>1, SubSeqFull
      <4>3. Through(r, 0)' /\ Added(r, 0)'
        BY <3>1, <4>2 DEF Through, Added
      <4>4. QED  BY <2>4, <3>1, <4>1, <4>2, <4>3 DEF FactsKept
    <3>4. QED  BY <3>2, <3>3
  <2>7. FactsKept(r)'
    BY <1>3, <1>5, <1>10, <2>1, <2>4, <2>6 DEF Extract, Goes
  <2>8. QED  BY <1>2, <1>10, <2>3, <2>7 DEF Request
<1>11. ASSUME NEW r \in Requests, AddFact(r) \/ TellFact(r) PROVE FactsInv'
  <2>1. FactsKept(r)'
    BY <1>3, <1>11, AddFactKeeps, TellFactKeeps
  <2>2. /\ UNCHANGED <<stored, episode>>
        /\ pc[r] \in {"add", "tell"} /\ pc'[r] \in {"add", "tell", "done", "failed"}
    BY <1>3, <1>11 DEF AddFact, TellFact, Goes, dbVars
  <2>3. <<"MemoryStoreCompleted">> \in log'[r] =>
        <<"MemoryStoreCompleted">> \in log[r]
    <3>1. CASE AddFact(r)
      BY <3>1 DEF AddFact
    <3>2. CASE TellFact(r)
      BY <1>3, <3>2 DEF TellFact, Stores, StoresPerhaps
    <3>3. QED  BY <1>11, <3>1, <3>2
  <2>4. EpisodeKept(r)'
    BY <1>3, <2>2, <2>3 DEF EpisodeKept
  <2>5. QED  BY <1>2, <1>11, <2>1, <2>4 DEF Request
<1>12. QED
  BY <1>1, <1>4, <1>6, <1>7, <1>8, <1>9, <1>10, <1>11 DEF Next, Request

(* The inductive invariant of episodes and facts. *)
THEOREM FactsInvariant == Spec => [](MemoryTypes /\ FactsInv)
<1>1. QED  BY TypesInit, TypesStep, FactsInit, FactsStep, PTL DEF Spec

(* What a request remembers is what the databases hold, whatever calls and  *)
(* publishes raise: a stored episode and an added fact are there when the   *)
(* log says so, and a request that is done has announced every fact.        *)
THEOREM MemoryTruthfulHolds == Spec => []MemoryTruthful
<1>1. ASSUME MemoryTypes, FactsInv PROVE MemoryTruthful
  <2>1. ASSUME NEW r \in Requests, NEW f \in Facts,
               <<"GraphFactAdded", f>> \in log[r]
        PROVE  EdgeOf[f] \in graph
    <3>1. f \in Announced(r) /\ FactsKept(r) /\ pc[r] \in Places
      BY <1>1, <2>1 DEF Announced, FactsInv, MemoryTypes, TypeOK
    <3>2. /\ Added(r, Len(facts[r]))
          /\ \E n \in 0..Len(facts[r]) : Announced(r) = FirstOf(r, n)
      <4>1. Len(facts[r]) \in Nat
        BY <1>1 DEF MemoryTypes, TypeOK
      <4>2. QED  BY <3>1, <4>1 DEF FactsKept
    <3>3. QED  BY <3>1, <3>2 DEF Added, FirstOf
  <2>2. ASSUME NEW r \in Requests, pc[r] = "done", NEW f \in ToSet(facts[r])
        PROVE  <<"GraphFactAdded", f>> \in log[r]
    <3>1. Announced(r) = FirstOf(r, Len(facts[r]))
      BY <1>1, <2>2 DEF FactsInv, FactsKept
    <3>2. DOMAIN facts[r] = 1..Len(facts[r])
      BY <1>1 DEF MemoryTypes, TypeOK
    <3>3. QED  BY <3>1, <3>2 DEF Announced, FirstOf, ToSet
  <2>3. QED  BY <1>1, <2>1, <2>2 DEF MemoryTruthful, FactsInv, EpisodeKept
<1>2. QED  BY <1>1, FactsInvariant, PTL

(* No announcement without the whole: when a fact is announced, all the     *)
(* facts of its request are in the graph, and what is announced is the      *)
(* first part of them, wherever either loop has stopped.                    *)
THEOREM FactsAllOrNoneHolds == Spec => []FactsAllOrNone
<1>1. ASSUME MemoryTypes, FactsInv PROVE FactsAllOrNone
  <2>1. ASSUME NEW r \in Requests, Announced(r) # {}
        PROVE  /\ \A f \in ToSet(facts[r]) : EdgeOf[f] \in graph
               /\ \E n \in DOMAIN facts[r] : Announced(r) = FirstOf(r, n)
    <3>1. FactsKept(r) /\ pc[r] \in Places /\ Len(facts[r]) \in Nat
          /\ DOMAIN facts[r] = 1..Len(facts[r])
      BY <1>1 DEF FactsInv, MemoryTypes, TypeOK
    <3>2. Added(r, Len(facts[r]))
      BY <2>1, <3>1 DEF FactsKept
    <3>3. PICK n \in 0..Len(facts[r]) : Announced(r) = FirstOf(r, n)
      BY <2>1, <3>1 DEF FactsKept
    <3>4. n # 0
      BY <2>1, <3>3 DEF FirstOf
    <3>5. n \in DOMAIN facts[r]
      BY <3>1, <3>4
    <3>6. QED  BY <3>1, <3>2, <3>3, <3>5 DEF Added, ToSet
  <2>2. QED  BY <2>1 DEF FactsAllOrNone, Announced, FirstOf
<1>2. QED  BY <1>1, FactsInvariant, PTL

-----------------------------------------------------------------------------
(* What a recall tells.                                                     *)

(* The plans, step by step. *)
LEMMA PlanSteps ==
  /\ Plan.summary # <<>> /\ Head(Plan.summary) = <<"load">>
  /\ Tail(Plan.summary) # <<>> /\ Head(Tail(Plan.summary)) = <<"SummaryFetched">>
  /\ Tail(Tail(Plan.summary)) = <<>>
  /\ Plan.semantic # <<>> /\ Head(Plan.semantic) = <<"SemanticSearchStarted">>
  /\ Tail(Plan.semantic) # <<>> /\ Head(Tail(Plan.semantic)) = <<"search">>
  /\ Tail(Tail(Plan.semantic)) # <<>>
  /\ Head(Tail(Tail(Plan.semantic))) = <<"SemanticSearchCompleted">>
  /\ Tail(Tail(Tail(Plan.semantic))) = <<>>
  /\ Plan.facts # <<>> /\ Head(Plan.facts) = <<"GraphQueryStarted">>
  /\ Tail(Plan.facts) # <<>> /\ Head(Tail(Plan.facts)) = <<"query">>
  /\ Tail(Tail(Plan.facts)) = << <<"GraphQueryCompleted">> >>
  /\ Plan.recent # <<>> /\ Head(Plan.recent) = <<"scroll">>
  /\ Tail(Plan.recent) = <<>>
<1>1. ASSUME NEW x, NEW s, s = << x >>
      PROVE  s # <<>> /\ Head(s) = x /\ Tail(s) = <<>>
  BY <1>1
<1>2. Plan.summary = << <<"load">>, <<"SummaryFetched">> >>
  BY DEF Plan
<1>3. Plan.facts = << <<"GraphQueryStarted">>, <<"query">>,
                      <<"GraphQueryCompleted">> >>
  BY DEF Plan
<1>4. Plan.semantic = << <<"SemanticSearchStarted">>, <<"search">>,
                         <<"SemanticSearchCompleted">> >>
  BY DEF Plan
<1>5. Plan.recent = << <<"scroll">> >>
  BY DEF Plan
<1>6. /\ Plan.summary # <<>> /\ Head(Plan.summary) = <<"load">>
      /\ Tail(Plan.summary) # <<>>
      /\ Head(Tail(Plan.summary)) = <<"SummaryFetched">>
      /\ Tail(Tail(Plan.summary)) = <<>>
  <2> DEFINE s == Plan.summary
             x == <<"load">>
             y == <<"SummaryFetched">>
  <2>1. s = << x, y >>
    BY <1>2
  <2> HIDE DEF s, x, y
  <2>2. /\ s # <<>> /\ Head(s) = x
        /\ Tail(s) # <<>> /\ Head(Tail(s)) = y /\ Tail(Tail(s)) = <<>>
    BY <2>1
  <2>3. QED  BY <2>2 DEF s, x, y
<1>7. /\ Plan.facts # <<>> /\ Head(Plan.facts) = <<"GraphQueryStarted">>
      /\ Tail(Plan.facts) # <<>> /\ Head(Tail(Plan.facts)) = <<"query">>
      /\ Tail(Tail(Plan.facts)) = << <<"GraphQueryCompleted">> >>
  <2> DEFINE s == Plan.facts
             x == <<"GraphQueryStarted">>
             y == <<"query">>
             z == <<"GraphQueryCompleted">>
  <2>1. s = << x, y, z >>
    BY <1>3
  <2> HIDE DEF s, x, y, z
  <2>2. /\ s # <<>> /\ Head(s) = x
        /\ Tail(s) # <<>> /\ Head(Tail(s)) = y /\ Tail(Tail(s)) = << z >>
    BY <2>1
  <2>3. QED  BY <2>2 DEF s, x, y, z
<1>8. /\ Plan.semantic # <<>> /\ Head(Plan.semantic) = <<"SemanticSearchStarted">>
       /\ Tail(Plan.semantic) # <<>> /\ Head(Tail(Plan.semantic)) = <<"search">>
       /\ Tail(Tail(Plan.semantic)) = << <<"SemanticSearchCompleted">> >>
  <2> DEFINE s == Plan.semantic
             x == <<"SemanticSearchStarted">>
             y == <<"search">>
             z == <<"SemanticSearchCompleted">>
  <2>1. s = << x, y, z >>
    BY <1>4
  <2> HIDE DEF s, x, y, z
  <2>2. /\ s # <<>> /\ Head(s) = x
        /\ Tail(s) # <<>> /\ Head(Tail(s)) = y /\ Tail(Tail(s)) = << z >>
    BY <2>1
  <2>3. QED  BY <2>2 DEF s, x, y, z
<1>9. /\ Tail(Tail(Plan.semantic)) # <<>>
       /\ Head(Tail(Tail(Plan.semantic))) = <<"SemanticSearchCompleted">>
       /\ Tail(Tail(Tail(Plan.semantic))) = <<>>
  BY <1>1, <1>8, Zenon
<1>10. /\ Plan.recent # <<>> /\ Head(Plan.recent) = <<"scroll">>
       /\ Tail(Plan.recent) = <<>>
  BY <1>1, <1>5, Zenon
<1>11. QED  BY <1>6, <1>7, <1>8, <1>9, <1>10

(* A call of a database is not an event. *)
LEMMA CallsAreNoEvents == BranchCalls \intersect Events = {}
<1>1. \A e \in Events :
        /\ e # <<"load">> /\ e # <<"query">>
        /\ e # <<"search">> /\ e # <<"scroll">>
  BY PublishTable DEF Events
<1>2. QED  BY <1>1 DEF BranchCalls

(* How a branch moves on, unless it raises: it publishes its next event, or *)
(* its database answers.                                                    *)
LEMMA BranchMoves ==
  ASSUME MemoryTypes, NEW r \in Requests, NEW b \in Branches, Branch(r, b),
         broken'[r] = {}, NEW step, step = Head(task[r][b])
  PROVE  /\ step \in Events =>
              /\ task'[r][b] = Tail(task[r][b]) /\ log'[r] = log[r] \union {step}
              /\ found'[r] = found[r] /\ recent'[r] = recent[r]
         /\ step \in BranchCalls => log'[r] = log[r]
         /\ step \in { <<"load">>, <<"search">> } =>
              /\ task'[r][b] = Tail(task[r][b])
              /\ found'[r] = found[r] /\ recent'[r] = recent[r]
         /\ step = <<"query">> =>
              /\ recent'[r] = recent[r]
              /\ \E es \in SUBSET graph :
                   /\ found'[r] = es
                   /\ task'[r][b] = Tail(task[r][b])
                                      \o SetToSeq({"GraphFactFetched"} \X es)
         /\ step = <<"scroll">> =>
              /\ found'[r] = found[r] /\ task'[r][b] = Tail(task[r][b])
              /\ \E page \in Pages : recent'[r] = Newest(page)
<1>0. /\ DOMAIN log = Requests /\ DOMAIN found = Requests
      /\ DOMAIN recent = Requests /\ DOMAIN broken = Requests
      /\ task \in [Requests -> [Branches -> Seq(BranchSteps)]]
  BY DEF MemoryTypes, TypeOK
<1>1. ~ BranchRaises(r, b)
  BY <1>0 DEF BranchRaises
<1>2. CASE Announce(r, b)
  <2>1. step \in Events /\ step \notin BranchCalls
    BY <1>2, CallsAreNoEvents DEF Announce
  <2>2. step \notin { <<"load">>, <<"search">>, <<"query">>, <<"scroll">> }
    BY <2>1 DEF BranchCalls
  <2>3. /\ task'[r][b] = Tail(task[r][b]) /\ log'[r] = log[r] \union {step}
        /\ found'[r] = found[r] /\ recent'[r] = recent[r]
    BY <1>0, <1>2 DEF Announce, Stores
  <2>4. QED  BY <2>1, <2>2, <2>3
<1>3. CASE Answer(r, b)
  <2>1. step \in BranchCalls /\ step \notin Events /\ log'[r] = log[r]
    BY <1>3, CallsAreNoEvents DEF Answer
  <2>2. ~ (step = <<"query">> /\ step = <<"scroll">>)
        /\ <<"load">> # <<"query">> /\ <<"load">> # <<"scroll">>
        /\ <<"search">> # <<"query">> /\ <<"search">> # <<"scroll">>
    OBVIOUS
  <2>3. CASE step \in { <<"load">>, <<"search">> }
    <3>1. task' = [task EXCEPT ![r][b] = Tail(task[r][b])] /\ UNCHANGED <<found, recent>>
      BY <1>3, <2>2, <2>3 DEF Answer
    <3>2. QED  BY <1>0, <2>1, <2>2, <2>3, <3>1
  <2>4. CASE step = <<"query">>
    <3>1. PICK es \in SUBSET graph :
            /\ found' = [found EXCEPT ![r] = es]
            /\ task' = [task EXCEPT ![r][b] = Tail(task[r][b])
                          \o SetToSeq({"GraphFactFetched"} \X es)]
            /\ recent' = recent
      BY <1>3, <2>2, <2>4 DEF Answer
    <3>2. /\ found'[r] = es /\ recent'[r] = recent[r]
          /\ task'[r][b] = Tail(task[r][b]) \o SetToSeq({"GraphFactFetched"} \X es)
      BY <1>0, <3>1
    <3>3. QED  BY <2>1, <2>2, <2>4, <3>2
  <2>5. CASE step = <<"scroll">>
    <3>1. PICK page \in Pages :
            /\ recent' = [recent EXCEPT ![r] = Newest(page)]
            /\ task' = [task EXCEPT ![r][b] = Tail(task[r][b])]
            /\ found' = found
      BY <1>3, <2>2, <2>5 DEF Answer
    <3>2. /\ recent'[r] = Newest(page) /\ found'[r] = found[r]
          /\ task'[r][b] = Tail(task[r][b])
      BY <1>0, <3>1
    <3>3. QED  BY <2>1, <2>2, <2>5, <3>2
  <2>6. QED  BY <2>1, <2>3, <2>4, <2>5 DEF BranchCalls
<1>4. QED  BY <1>1, <1>2, <1>3 DEF Branch

(* The branch that loads the summary stays on its plan. *)
LEMMA SummaryStep ==
  ASSUME MemoryTypes, NEW r \in Requests, SummaryKept(r),
         Branch(r, "summary"), broken'[r] = {}
  PROVE  /\ SummaryKept(r)'
         /\ found'[r] = found[r] /\ recent'[r] = recent[r]
         /\ log'[r] \subseteq log[r] \union Answers
<1> DEFINE t == task[r]["summary"]
<1>1. t # <<>>
  BY BranchStep DEF Branches
<1>2. CASE t = Plan.summary
  <2>1. Head(t) = <<"load">> /\ Head(t) \in BranchCalls
    BY <1>2, PlanSteps DEF BranchCalls
  <2>2. /\ task'[r]["summary"] = Tail(Plan.summary) /\ log'[r] = log[r]
        /\ found'[r] = found[r] /\ recent'[r] = recent[r]
    BY <1>2, <2>1, BranchMoves DEF Branches
  <2>3. QED  BY <2>2 DEF SummaryKept
<1>3. CASE t = Tail(Plan.summary)
  <2>1. Head(t) = <<"SummaryFetched">> /\ Head(t) \in Answers /\ Head(t) \in Events
    BY <1>3, PlanSteps DEF Answers, Events
  <2>2. /\ task'[r]["summary"] = <<>> /\ log'[r] = log[r] \union {Head(t)}
        /\ found'[r] = found[r] /\ recent'[r] = recent[r]
    BY <1>3, <2>1, PlanSteps, BranchMoves DEF Branches
  <2>3. QED  BY <2>1, <2>2 DEF SummaryKept
<1>4. QED  BY <1>1, <1>2, <1>3 DEF SummaryKept

(* The semantic search stays on its plan. *)
LEMMA SemanticStep ==
  ASSUME MemoryTypes, NEW r \in Requests, SemanticKept(r),
         Branch(r, "semantic"), broken'[r] = {}
  PROVE  /\ SemanticKept(r)'
         /\ found'[r] = found[r] /\ recent'[r] = recent[r]
         /\ log'[r] \subseteq log[r] \union Answers
<1> DEFINE t == task[r]["semantic"]
<1>1. t # <<>>
  BY BranchStep DEF Branches
<1>2. CASE t = Plan.semantic
  <2>1. /\ Head(t) = <<"SemanticSearchStarted">>
        /\ Head(t) \in Answers /\ Head(t) \in Events
    BY <1>2, PlanSteps DEF Answers, Events
  <2>2. /\ task'[r]["semantic"] = Tail(Plan.semantic)
        /\ log'[r] = log[r] \union {Head(t)}
        /\ found'[r] = found[r] /\ recent'[r] = recent[r]
    BY <1>2, <2>1, BranchMoves DEF Branches
  <2>3. QED  BY <2>1, <2>2 DEF SemanticKept
<1>3. CASE t = Tail(Plan.semantic)
  <2>1. Head(t) = <<"search">> /\ Head(t) \in BranchCalls
    BY <1>3, PlanSteps DEF BranchCalls
  <2>2. /\ task'[r]["semantic"] = Tail(Tail(Plan.semantic)) /\ log'[r] = log[r]
        /\ found'[r] = found[r] /\ recent'[r] = recent[r]
    BY <1>3, <2>1, BranchMoves DEF Branches
  <2>3. QED  BY <2>2 DEF SemanticKept
<1>4. CASE t = Tail(Tail(Plan.semantic))
  <2>1. /\ Head(t) = <<"SemanticSearchCompleted">>
        /\ Head(t) \in Answers /\ Head(t) \in Events
    BY <1>4, PlanSteps DEF Answers, Events
  <2>2. /\ task'[r]["semantic"] = <<>> /\ log'[r] = log[r] \union {Head(t)}
        /\ found'[r] = found[r] /\ recent'[r] = recent[r]
    BY <1>4, <2>1, PlanSteps, BranchMoves DEF Branches
  <2>3. QED  BY <2>1, <2>2 DEF SemanticKept
<1>5. QED  BY <1>1, <1>2, <1>3, <1>4 DEF SemanticKept

(* No answer of a branch is a relationship that was found. *)
LEMMA AnswersFetchNothing ==
  \A e \in Edges : <<"GraphFactFetched", e>> \notin Answers
  BY DEF Answers

(* The graph query stays on its plan, with each relationship that was found *)
(* published or still to publish.                                           *)
LEMMA QueryStep ==
  ASSUME MemoryTypes, NEW r \in Requests, QueryKept(r),
         Branch(r, "facts"), broken'[r] = {}
  PROVE  QueryKept(r)' /\ recent'[r] = recent[r]
<1> DEFINE t == task[r]["facts"]
           T == Tail(Tail(Plan.facts))
           fetched(e) == <<"GraphFactFetched", e>>
<1>1. t # <<>>
  BY BranchStep DEF Branches
<1>2. CASE t = Plan.facts /\ NothingFetched(r)
  <2>1. /\ Head(t) = <<"GraphQueryStarted">>
        /\ Head(t) \in Answers /\ Head(t) \in Events
    BY <1>2, PlanSteps DEF Answers, Events
  <2>2. /\ task'[r]["facts"] = Tail(Plan.facts)
        /\ log'[r] = log[r] \union {Head(t)}
        /\ found'[r] = found[r] /\ recent'[r] = recent[r]
    BY <1>2, <2>1, BranchMoves DEF Branches
  <2>3. NothingFetched(r)'
    BY <1>2, <2>1, <2>2, AnswersFetchNothing DEF NothingFetched
  <2>4. QED  BY <2>2, <2>3 DEF QueryKept
<1>3. CASE t = Tail(Plan.facts) /\ NothingFetched(r)
  <2>1. Head(t) = <<"query">> /\ Head(t) \in BranchCalls
    BY <1>3, PlanSteps DEF BranchCalls
  <2>2. log'[r] = log[r] /\ recent'[r] = recent[r]
    BY <2>1, BranchMoves DEF Branches
  <2>3. PICK es \in SUBSET graph :
          /\ found'[r] = es
          /\ task'[r]["facts"] = T \o SetToSeq({"GraphFactFetched"} \X es)
    <3>1. \E es \in SUBSET graph :
            /\ found'[r] = es
            /\ task'[r]["facts"] = Tail(t) \o SetToSeq({"GraphFactFetched"} \X es)
      BY <2>1, BranchMoves DEF Branches
    <3>2. Tail(t) = T
      BY <1>3
    <3>3. QED  BY <3>1, <3>2, Zenon
  <2> DEFINE S == {"GraphFactFetched"} \X es
             s == SetToSeq(S)
  <2>4. IsFiniteSet(S) /\ es \subseteq Edges
    BY FS_Subset, FS_Singleton, FS_Product DEF MemoryTypes, TypeOK
  <2>5. s \in Seq(S) /\ ToSet(s) = S
    BY <2>4, SetToSeqProperties
  <2>6. S \subseteq Fetched
    BY <2>4 DEF Fetched
  <2>7. \A e : fetched(e) \in S <=> e \in es
    OBVIOUS
  <2> HIDE DEF S, s
  <2>8. s \in Seq(Fetched)
    BY <2>5, <2>6, SeqMonotonic
  <2>9. FetchedOr(r, s)'
    BY <1>3, <2>2, <2>3, <2>5, <2>7, <2>8 DEF FetchedOr, NothingFetched
  <2>10. QED  BY <2>2, <2>3, <2>8, <2>9 DEF QueryKept, S, s
<1>4. ASSUME NEW s \in Seq(Fetched), FetchedOr(r, s), t = T \o s
      PROVE  QueryKept(r)' /\ recent'[r] = recent[r]
  <2> DEFINE c == <<"GraphQueryCompleted">>
  <2>0. T = << c >>
    BY PlanSteps
  <2>1. c \in Answers /\ c \in Events
    BY DEF Answers, Events
  <2>2. c # <<"GraphFactFetched">> /\ \A e \in Edges : c # fetched(e)
    OBVIOUS
  <2> HIDE DEF c, T
  <2>3. Head(t) = c /\ Tail(t) = s
    <3>1. << c >> \o s \in Seq({c} \union Fetched) /\ << c >> \o s # <<>>
          /\ Len(<< c >> \o s) = Len(s) + 1
          /\ \A i \in 1..Len(s) : (<< c >> \o s)[i + 1] = s[i]
          /\ (<< c >> \o s)[1] = c
      OBVIOUS
    <3>2. s \in Seq({c} \union Fetched)
      BY SeqMonotonic
    <3> DEFINE u == << c >> \o s
    <3> HIDE DEF u
    <3>3. /\ Tail(u) \in Seq({c} \union Fetched) /\ Len(Tail(u)) = Len(s)
          /\ \A i \in 1..Len(s) : Tail(u)[i] = s[i]
      BY <3>1, HeadTailProperties DEF u
    <3>4. Tail(u) = s
      BY <3>2, <3>3, SeqEqual
    <3>5. QED  BY <1>4, <2>0, <3>1, <3>4 DEF u
  <2>4. /\ task'[r]["facts"] = s /\ log'[r] = log[r] \union {c}
        /\ found'[r] = found[r] /\ recent'[r] = recent[r]
    BY <2>1, <2>3, BranchMoves DEF Branches
  <2>5. FetchedOr(r, s)'
    BY <1>4, <2>2, <2>4 DEF FetchedOr
  <2>6. QED  BY <2>4, <2>5 DEF QueryKept, c
<1>5. ASSUME NEW s \in Seq(Fetched), FetchedOr(r, s), t = s,
             <<"GraphQueryCompleted">> \in log[r]
      PROVE  QueryKept(r)' /\ recent'[r] = recent[r]
  <2>1. /\ s # <<>> /\ Head(s) \in Fetched /\ Tail(s) \in Seq(Fetched)
        /\ Len(s) \in Nat /\ Len(s) >= 1 /\ Head(s) = s[1]
        /\ Len(Tail(s)) = Len(s) - 1 /\ DOMAIN s = 1..Len(s)
        /\ DOMAIN Tail(s) = 1..Len(s) - 1
        /\ \A i \in 1..Len(s) - 1 : Tail(s)[i] = s[i + 1]
    BY <1>1, <1>5
  <2>2. Head(s) \in Events
    BY <2>1 DEF Fetched, Events
  <2>3. /\ task'[r]["facts"] = Tail(s) /\ log'[r] = log[r] \union {Head(s)}
        /\ found'[r] = found[r] /\ recent'[r] = recent[r]
    BY <1>5, <2>2, BranchMoves DEF Branches
  <2>4. ToSet(s) = {Head(s)} \union ToSet(Tail(s))
    <3>1. \A i \in 1..Len(s) : i = 1 \/ i - 1 \in 1..Len(s) - 1
      BY <2>1
    <3>2. ASSUME NEW i \in 1..Len(s) - 1
          PROVE  i + 1 \in 1..Len(s) /\ Tail(s)[i] = s[i + 1]
      BY <2>1
    <3>3. ASSUME NEW i \in 1..Len(s), i # 1
          PROVE  i - 1 \in 1..Len(s) - 1 /\ Tail(s)[i - 1] = s[i]
      <4>1. i - 1 \in 1..Len(s) - 1 /\ (i - 1) + 1 = i
        BY <3>1, <3>3
      <4>2. QED  BY <2>1, <4>1
    <3>4. 1 \in 1..Len(s)
      BY <2>1
    <3>5. ToSet(s) \subseteq {Head(s)} \union ToSet(Tail(s))
      <4>1. ASSUME NEW i \in 1..Len(s)
            PROVE  s[i] \in {Head(s)} \union ToSet(Tail(s))
        <5>1. CASE i = 1
          BY <2>1, <5>1
        <5>2. CASE i # 1
          BY <2>1, <3>3, <5>2 DEF ToSet
        <5>3. QED  BY <5>1, <5>2
      <4>2. QED  BY <2>1, <4>1 DEF ToSet
    <3>6. {Head(s)} \union ToSet(Tail(s)) \subseteq ToSet(s)
      <4>1. Head(s) \in ToSet(s)
        BY <2>1, <3>4 DEF ToSet
      <4>2. ASSUME NEW i \in 1..Len(s) - 1 PROVE Tail(s)[i] \in ToSet(s)
        BY <2>1, <3>2 DEF ToSet
      <4>3. QED  BY <2>1, <4>1, <4>2 DEF ToSet
    <3>7. QED  BY <3>5, <3>6
  <2>5. FetchedOr(r, Tail(s))'
    BY <1>5, <2>1, <2>3, <2>4 DEF FetchedOr
  <2>6. QED  BY <1>5, <2>1, <2>3, <2>5 DEF QueryKept
<1>6. QED  BY <1>2, <1>3, <1>4, <1>5 DEF QueryKept

(* What recent returns comes from a page of the store. *)
LEMMA RecentStep ==
  ASSUME MemoryTypes, NEW r \in Requests, RecentKept(r),
         before[r] \subseteq stored, Branch(r, "recent"), broken'[r] = {}
  PROVE  RecentKept(r)' /\ found'[r] = found[r] /\ log'[r] = log[r]
<1>1. task[r]["recent"] = Plan.recent
  BY BranchStep DEF Branches, RecentKept
<1>2. /\ Head(task[r]["recent"]) = <<"scroll">>
      /\ Head(task[r]["recent"]) \in BranchCalls
  BY <1>1, PlanSteps DEF BranchCalls
<1>3. /\ task'[r]["recent"] = <<>> /\ found'[r] = found[r] /\ log'[r] = log[r]
  BY <1>1, <1>2, PlanSteps, BranchMoves DEF Branches
<1>4. PICK page \in Pages : recent'[r] = Newest(page)
  BY <1>2, BranchMoves DEF Branches
<1>5. UNCHANGED <<stored, before>>
  BY BranchStep DEF Branches, dbVars
<1>6. page \in SUBSET stored /\ (Cardinality(stored) <= PageSize => page = stored)
  BY DEF Pages, kSubset
<1>7. FromPage(r)'
  BY <1>4, <1>5, <1>6 DEF FromPage
<1>8. QED  BY <1>3, <1>7 DEF RecentKept

(* Initially nothing is recalled. *)
LEMMA RecallInit == Init => RecallInv
<1> SUFFICES ASSUME Init, NEW r \in Requests PROVE RecallKept(r)
  BY DEF RecallInv
<1>1. /\ pc[r] = "idle" /\ log[r] = {} /\ found[r] = {} /\ broken[r] = {}
      /\ before[r] = {} /\ \A b \in Branches : task[r][b] = <<>>
  BY DEF Init
<1>2. QED
  BY <1>1 DEF RecallKept, Idle, Recalled, NothingFetched, NotGathered, Gathered

(* A page of the store is still one when the store has grown. *)
LEMMA PageFrame ==
  ASSUME NEW q, FromPage(q), recent'[q] = recent[q], before'[q] = before[q],
         stored \subseteq stored', IsFiniteSet(stored')
  PROVE  FromPage(q)'
<1>1. PICK page \in SUBSET stored :
        /\ recent[q] = Newest(page)
        /\ Cardinality(stored) <= PageSize => before[q] \subseteq page
  BY DEF FromPage
<1>2. /\ Cardinality(stored) <= Cardinality(stored')
      /\ Cardinality(stored) \in Nat /\ Cardinality(stored') \in Nat
      /\ PageSize \in Nat
  BY FS_Subset, FS_CardinalityType, MemoryAssumption
<1>3. Cardinality(stored') <= PageSize => Cardinality(stored) <= PageSize
  BY <1>2
<1>4. page \in SUBSET stored'
  OBVIOUS
<1>5. QED  BY <1>1, <1>3, <1>4 DEF FromPage

(* What the branches of a request have to do and have told is the same, or  *)
(* there is more in its log, but no relationship.                           *)
LEMMA BranchesFrame ==
  ASSUME NEW q, task'[q] = task[q], found'[q] = found[q],
         recent'[q] = recent[q], before'[q] = before[q],
         log[q] \subseteq log'[q],
         \A e \in Edges : <<"GraphFactFetched", e>> \in log'[q] =>
                            <<"GraphFactFetched", e>> \in log[q],
         stored \subseteq stored', IsFiniteSet(stored')
  PROVE  /\ SummaryKept(q) => SummaryKept(q)'
         /\ SemanticKept(q) => SemanticKept(q)'
         /\ QueryKept(q) => QueryKept(q)'
         /\ RecentKept(q) => RecentKept(q)'
         /\ NothingFetched(q) => NothingFetched(q)'
<1>1. /\ SummaryKept(q) => SummaryKept(q)'
      /\ SemanticKept(q) => SemanticKept(q)'
  BY DEF SummaryKept, SemanticKept
<1>2. NothingFetched(q) => NothingFetched(q)'
  BY DEF NothingFetched
<1>3. \A s : FetchedOr(q, s) => FetchedOr(q, s)'
  BY DEF FetchedOr
<1>4. QueryKept(q) => QueryKept(q)'
  BY <1>2, <1>3 DEF QueryKept
<1>5. RecentKept(q) => RecentKept(q)'
  BY PageFrame DEF RecentKept
<1>6. QED  BY <1>1, <1>2, <1>4, <1>5

(* A request that starts no recall and no gather, and takes a gather to be  *)
(* over only when it is, keeps its word.                                    *)
LEMMA RecallFrame ==
  ASSUME NEW q, RecallKept(q),
         task'[q] = task[q], broken'[q] = broken[q], found'[q] = found[q],
         recent'[q] = recent[q], before'[q] = before[q],
         log[q] \subseteq log'[q],
         \A e \in Edges : <<"GraphFactFetched", e>> \in log'[q] =>
                            <<"GraphFactFetched", e>> \in log[q],
         stored \subseteq stored', IsFiniteSet(stored'),
         pc'[q] \in NotGathered =>
           pc[q] \in NotGathered /\ (Recalled(q)' => Recalled(q)),
         Gathered(q)' => Gathered(q),
         pc'[q] = "recalled" \/ Recalled(q)' =>
           pc[q] = "recalled" \/ Recalled(q) \/ Idle(q)
  PROVE  RecallKept(q)'
<1>1. Idle(q)' <=> Idle(q)
  BY DEF Idle
<1>2. before'[q] \subseteq stored'
  BY DEF RecallKept
<1>3. pc'[q] \in NotGathered => Idle(q)' /\ NothingFetched(q)' /\ ~ Recalled(q)'
  BY <1>1, BranchesFrame DEF RecallKept
<1>4. Gathered(q)' /\ broken'[q] = {} =>
        SummaryKept(q)' /\ SemanticKept(q)' /\ QueryKept(q)' /\ RecentKept(q)'
  BY BranchesFrame DEF RecallKept
<1>5. pc'[q] = "recalled" \/ Recalled(q)' => Idle(q)'
  BY <1>1 DEF RecallKept
<1>6. QED  BY <1>2, <1>3, <1>4, <1>5 DEF RecallKept

(* A branch that still has something to do belongs to a recall that has not *)
(* been told complete.                                                      *)
LEMMA BranchKeeps ==
  ASSUME MemoryTypes, MemoryTypes', NEW r \in Requests, NEW b \in Branches,
         RecallKept(r), Branch(r, b)
  PROVE  RecallKept(r)'
<1>1. /\ UNCHANGED <<stored, pc, before>>
      /\ task[r][b] # <<>> /\ Head(task[r][b]) \in BranchSteps
      /\ \A c \in Branches \ {b} : task'[r][c] = task[r][c]
      /\ log[r] \subseteq log'[r]
      /\ log'[r] \subseteq log[r] \union {Head(task[r][b])}
      /\ broken'[r] \in {broken[r], broken[r] \union {b}}
  BY BranchStep DEF dbVars
<1>2. ~ Idle(r)
  BY <1>1 DEF Idle
<1>3. pc[r] \notin NotGathered /\ pc[r] # "recalled" /\ ~ Recalled(r)
  BY <1>2 DEF RecallKept
<1>4. ~ Recalled(r)'
  BY <1>1, <1>3, OtherEvents DEF Recalled
<1>5. ASSUME Gathered(r)', broken'[r] = {}
      PROVE  SummaryKept(r)' /\ SemanticKept(r)' /\ QueryKept(r)' /\ RecentKept(r)'
  <2>1. Gathered(r) /\ broken[r] = {}
    BY <1>1, <1>4, <1>5 DEF Gathered
  <2>2. SummaryKept(r) /\ SemanticKept(r) /\ QueryKept(r) /\ RecentKept(r)
        /\ before[r] \subseteq stored
    BY <2>1 DEF RecallKept
  <2>3. b # "summary" => SummaryKept(r)'
    BY <1>1, <2>2 DEF SummaryKept, Branches
  <2>4. b # "semantic" => SemanticKept(r)'
    BY <1>1, <2>2 DEF SemanticKept, Branches
  <2>5. b # "facts" /\ found'[r] = found[r] /\ log'[r] \subseteq log[r] \union Answers
          => QueryKept(r)'
    <3> SUFFICES ASSUME b # "facts", found'[r] = found[r],
                        log'[r] \subseteq log[r] \union Answers
                 PROVE  QueryKept(r)'
      OBVIOUS
    <3>1. NothingFetched(r) => NothingFetched(r)'
      BY AnswersFetchNothing DEF NothingFetched
    <3>2. \A s : FetchedOr(r, s) => FetchedOr(r, s)'
      BY <1>1, AnswersFetchNothing DEF FetchedOr
    <3>3. task'[r]["facts"] = task[r]["facts"]
      BY <1>1 DEF Branches
    <3>4. QED  BY <1>1, <2>2, <3>1, <3>2, <3>3 DEF QueryKept
  <2>6. b # "recent" /\ recent'[r] = recent[r] => RecentKept(r)'
    BY <1>1, <2>2 DEF RecentKept, FromPage, Branches
  <2>7. CASE b = "summary"
    BY <1>5, <2>2, <2>4, <2>5, <2>6, <2>7, SummaryStep
  <2>8. CASE b = "semantic"
    BY <1>5, <2>2, <2>3, <2>5, <2>6, <2>8, SemanticStep
  <2>9. CASE b = "facts"
    BY <1>5, <2>2, <2>3, <2>4, <2>6, <2>9, QueryStep
  <2>10. CASE b = "recent"
    BY <1>5, <2>2, <2>3, <2>4, <2>5, <2>10, RecentStep
  <2>11. QED  BY <2>7, <2>8, <2>9, <2>10 DEF Branches
<1>6. QED  BY <1>1, <1>3, <1>4, <1>5 DEF RecallKept

(* Every step keeps what is told of recalls. *)
LEMMA RecallStep ==
  MemoryTypes /\ MemoryTypes' /\ RecallInv /\ [Next]_vars => RecallInv'
<1> SUFFICES ASSUME MemoryTypes, MemoryTypes', RecallInv, [Next]_vars
             PROVE  RecallInv'
  OBVIOUS
<1>1. IsFiniteSet(stored')
  <2>1. stored' \in SUBSET (1..clock') /\ 1 \in Int /\ clock' \in Int
    BY DEF MemoryTypes, TypeOK
  <2>2. QED  BY <2>1, FS_Interval, FS_Subset
<1>2. CASE UNCHANGED vars
  <2>1. ASSUME NEW q \in Requests PROVE RecallKept(q)'
    <3>1. UNCHANGED <<stored, pc, task, broken, found, recent, before, log>>
      BY <1>2 DEF vars, dbVars, recallVars
    <3>2. RecallKept(q)
      BY DEF RecallInv
    <3>3. QED  BY <1>1, <3>1, <3>2, RecallFrame DEF Gathered, Recalled
  <2>2. QED  BY <2>1 DEF RecallInv
<1>3. ASSUME NEW r \in Requests, Request(r) \/ \E b \in Branches : Branch(r, b),
             RecallKept(r)'
      PROVE  RecallInv'
  <2>1. ASSUME NEW q \in Requests \ {r} PROVE RecallKept(q)'
    <3>1. /\ stored \subseteq stored'
          /\ pc'[q] = pc[q] /\ task'[q] = task[q] /\ broken'[q] = broken[q]
          /\ found'[q] = found[q] /\ recent'[q] = recent[q]
          /\ before'[q] = before[q] /\ log'[q] = log[q]
      BY <1>3, OneAtATime
    <3>2. RecallKept(q)
      BY DEF RecallInv
    <3>3. QED  BY <1>1, <3>1, <3>2, RecallFrame DEF Gathered, Recalled
  <2>2. QED  BY <1>3, <2>1 DEF RecallInv
<1>4. ASSUME NEW r \in Requests
      PROVE  /\ RecallKept(r) /\ pc \in [Requests -> Places]
             /\ log \in [Requests -> SUBSET Events]
             /\ task \in [Requests -> [Branches -> Seq(BranchSteps)]]
             /\ DOMAIN before = Requests
  BY DEF RecallInv, MemoryTypes, TypeOK
<1>5. ASSUME NEW r \in Requests, NEW b \in Branches, Branch(r, b)
      PROVE  RecallInv'
  <2>1. RecallKept(r)'
    BY <1>4, <1>5, BranchKeeps
  <2>2. QED  BY <1>3, <1>5, <2>1
<1>6. ASSUME NEW r \in Requests, Recall(r) PROVE RecallInv'
  <2>1. /\ UNCHANGED <<stored, task, broken, found, log>>
        /\ pc[r] = "idle" /\ pc'[r] = "recall" /\ before'[r] = stored
    BY <1>4, <1>6 DEF Recall, Goes, dbVars
  <2>2. Idle(r) /\ NothingFetched(r) /\ ~ Recalled(r)
    BY <1>4, <2>1 DEF RecallKept, NotGathered
  <2>3. Idle(r)' /\ NothingFetched(r)' /\ ~ Recalled(r)'
    BY <2>1, <2>2 DEF Idle, NothingFetched, Recalled
  <2>4. RecallKept(r)'
    BY <2>1, <2>3 DEF RecallKept, Gathered
  <2>5. QED  BY <1>3, <1>6, <2>4 DEF Request
<1>7. ASSUME NEW r \in Requests, Gather(r) PROVE RecallInv'
  <2>1. /\ UNCHANGED <<stored, broken, found, before, log>>
        /\ pc[r] = "gather" /\ pc'[r] = "gathering" /\ task'[r] = Plan
    BY <1>4, <1>7 DEF Gather, Goes, dbVars
  <2>2. NothingFetched(r) /\ ~ Recalled(r) /\ before[r] \subseteq stored
    BY <1>4, <2>1 DEF RecallKept, NotGathered
  <2>3. NothingFetched(r)' /\ ~ Recalled(r)'
    BY <2>1, <2>2 DEF NothingFetched, Recalled
  <2>4. /\ task'[r]["summary"] = Plan.summary /\ task'[r]["facts"] = Plan.facts
        /\ task'[r]["semantic"] = Plan.semantic /\ task'[r]["recent"] = Plan.recent
    BY <2>1
  <2>5. SummaryKept(r)' /\ SemanticKept(r)' /\ QueryKept(r)' /\ RecentKept(r)'
    BY <2>3, <2>4 DEF SummaryKept, SemanticKept, QueryKept, RecentKept
  <2>6. RecallKept(r)'
    BY <2>1, <2>2, <2>3, <2>5 DEF RecallKept, NotGathered
  <2>7. QED  BY <1>3, <1>7, <2>6 DEF Request
<1>8. ASSUME NEW r \in Requests, GatherReturns(r) \/ GatherRaises(r)
      PROVE  RecallInv'
  <2>1. /\ UNCHANGED <<stored, task, broken, found, recent, before, log>>
        /\ pc[r] = "gathering"
        /\ \/ pc'[r] = "recalled" /\ Idle(r)
           \/ pc'[r] = "unrecalled"
    BY <1>4, <1>8
    DEF GatherReturns, GatherRaises, Goes, Idle, dbVars, recallVars
  <2>2. RecallKept(r)'
    BY <1>1, <1>4, <2>1, RecallFrame DEF Gathered, Recalled, NotGathered
  <2>3. QED  BY <1>3, <1>8, <2>2 DEF Request
<1>9. ASSUME NEW r \in Requests, Publish(r) PROVE RecallInv'
  <2> DEFINE p == Publishes[pc[r]]
  <2>1. /\ UNCHANGED <<stored, task, broken, found, recent, before>>
        /\ pc[r] \in DOMAIN Publishes
        /\ pc'[r] \in {p.next, p.error}
        /\ log[r] \subseteq log'[r]
        /\ log'[r] \subseteq log[r] \union {<<p.event>>}
    BY <1>4, <1>9, PublishStep DEF Publish, dbVars, recallVars
  <2>2. \A e \in Edges : <<p.event>> # <<"GraphFactFetched", e>>
    OBVIOUS
  <2>3. pc'[r] \in NotGathered => pc[r] = "recall" /\ p.event = "MemoryRecallStarted"
    BY <2>1, PublishTable DEF NotGathered
  <2>4. pc'[r] \notin {"gathering", "recalled"}
    BY <2>1, PublishTable
  <2>5. p.event = "MemoryRecallCompleted" => pc[r] = "recalled"
    BY <2>1, PublishTable
  <2>6. Recalled(r)' => Recalled(r) \/ p.event = "MemoryRecallCompleted"
    BY <2>1 DEF Recalled
  <2>7. RecallKept(r)'
    <3>1. \A e \in Edges : <<"GraphFactFetched", e>> \in log'[r] =>
                             <<"GraphFactFetched", e>> \in log[r]
      BY <2>1, <2>2
    <3>2. pc'[r] \in NotGathered =>
            pc[r] \in NotGathered /\ (Recalled(r)' => Recalled(r))
      BY <2>3, <2>6 DEF NotGathered
    <3>3. Gathered(r)' => Gathered(r)
      BY <2>4, <2>5, <2>6 DEF Gathered
    <3>4. pc'[r] = "recalled" \/ Recalled(r)' => pc[r] = "recalled" \/ Recalled(r)
      BY <2>4, <2>5, <2>6
    <3> HIDE DEF p
    <3>5. QED  BY <1>1, <1>4, <2>1, <3>1, <3>2, <3>3, <3>4, RecallFrame
  <2>8. QED  BY <1>3, <1>9, <2>7 DEF Request
<1>10. ASSUME NEW r \in Requests, Think(r) \/ Store(r) \/ Extract(r) \/ AddFact(r)
       PROVE  RecallInv'
  <2>1. /\ UNCHANGED <<task, broken, found, recent, before, log>>
        /\ stored \subseteq stored'
    BY <1>10 DEF Think, Store, Extract, AddFact, dbVars, recallVars
  <2>2. pc'[r] \in {"remember", "done", "failed", "remembered", "forgotten",
                    "add", "tell"}
    BY <1>4, <1>10 DEF Think, Store, Extract, AddFact, Goes
  <2>3. RecallKept(r)'
    BY <1>1, <1>4, <2>1, <2>2, RecallFrame DEF Gathered, Recalled, NotGathered
  <2>4. QED  BY <1>3, <1>10, <2>3 DEF Request
<1>11. ASSUME NEW r \in Requests, TellFact(r) PROVE RecallInv'
  <2> DEFINE event == <<"GraphFactAdded", Head(left[r])>>
  <2>1. /\ UNCHANGED <<stored, task, broken, found, recent, before>>
        /\ log'[r] = log[r] \/ log'[r] = log[r] \union {event}
    BY <1>4, <1>11 DEF TellFact, Stores, StoresPerhaps, dbVars, recallVars
  <2>2. pc'[r] \in {"done", "tell", "failed"}
    BY <1>4, <1>11 DEF TellFact, Goes
  <2>3. event # <<"MemoryRecallCompleted">>
        /\ \A e \in Edges : event # <<"GraphFactFetched", e>>
    OBVIOUS
  <2> HIDE DEF event
  <2>4. Recalled(r)' <=> Recalled(r)
    BY <2>1, <2>3 DEF Recalled
  <2>5. RecallKept(r)'
    BY <1>1, <1>4, <2>1, <2>2, <2>3, <2>4, RecallFrame
    DEF Gathered, NotGathered
  <2>6. QED  BY <1>3, <1>11, <2>5 DEF Request
<1>12. QED
  BY <1>2, <1>5, <1>6, <1>7, <1>8, <1>9, <1>10, <1>11 DEF Next, Request

(* The inductive invariant of recalls. *)
THEOREM RecallInvariant == Spec => [](MemoryTypes /\ RecallInv)
<1>1. MemoryTypes /\ RecallInv /\ [Next]_vars => MemoryTypes' /\ RecallInv'
  BY TypesStep, RecallStep
<1>2. QED  BY TypesInit, RecallInit, <1>1, PTL DEF Spec

(* A recall that is logged as completed is complete: all four coroutines    *)
(* have ended without error, none is left behind, and the log has what they *)
(* announced, with each relationship that was found and no other.           *)
THEOREM RecallCompleteHolds == Spec => []RecallComplete
<1>1. ASSUME MemoryTypes, RecallInv, NEW r \in Requests, Recalled(r)
      PROVE  /\ broken[r] = {}
             /\ \A b \in Branches : task[r][b] = <<>>
             /\ {<<"SummaryFetched">>, <<"GraphQueryCompleted">>,
                 <<"SemanticSearchCompleted">>} \subseteq log[r]
             /\ \A e \in Edges : <<"GraphFactFetched", e>> \in log[r] <=> e \in found[r]
  <2>1. Idle(r) /\ Gathered(r) /\ RecallKept(r)
    BY <1>1 DEF RecallInv, RecallKept, Gathered
  <2>2. broken[r] = {} /\ \A b \in Branches : task[r][b] = <<>>
    BY <2>1 DEF Idle
  <2>3. SummaryKept(r) /\ SemanticKept(r) /\ QueryKept(r)
    BY <2>1, <2>2 DEF RecallKept
  <2>4. task[r]["summary"] = <<>> /\ task[r]["semantic"] = <<>> /\ task[r]["facts"] = <<>>
    BY <2>2 DEF Branches
  <2>5. <<"SummaryFetched">> \in log[r] /\ <<"SemanticSearchCompleted">> \in log[r]
    BY <2>3, <2>4, PlanSteps DEF SummaryKept, SemanticKept
  <2>6. PICK s \in Seq(Fetched) :
          /\ FetchedOr(r, s)
          /\ \/ task[r]["facts"] = Tail(Tail(Plan.facts)) \o s
             \/ task[r]["facts"] = s /\ <<"GraphQueryCompleted">> \in log[r]
    BY <2>3, <2>4, PlanSteps DEF QueryKept
  <2>7. Tail(Tail(Plan.facts)) \o s # <<>>
    <3>1. \A c : << c >> \o s # <<>>
      OBVIOUS
    <3>2. QED  BY <3>1, PlanSteps
  <2>8. s = <<>> /\ <<"GraphQueryCompleted">> \in log[r]
    BY <2>4, <2>6, <2>7
  <2>9. ToSet(s) = {}
    BY <2>8 DEF ToSet
  <2>10. QED  BY <2>2, <2>5, <2>6, <2>8, <2>9 DEF FetchedOr
<1>2. MemoryTypes /\ RecallInv => RecallComplete
  BY <1>1 DEF RecallComplete
<1>3. QED  BY <1>2, RecallInvariant, PTL

(* While the store fits on a page, a recall misses no episode it could have *)
(* had: one that was stored when it began and is not among those it got is  *)
(* older than all of them, and they are as many as were asked for.          *)
THEOREM RecentIsNewestHolds == Spec => []RecentIsNewest
<1>1. ASSUME MemoryTypes, RecallInv, NEW r \in Requests, Recalled(r),
             Cardinality(stored) <= PageSize, NEW e \in before[r] \ ToSet(recent[r])
      PROVE  /\ Len(recent[r]) = HistoryLimit
             /\ \A n \in ToSet(recent[r]) : n > e
  <2>1. Idle(r) /\ Gathered(r) /\ RecallKept(r)
    BY <1>1 DEF RecallInv, RecallKept, Gathered
  <2>2. RecentKept(r) /\ task[r]["recent"] = <<>>
    BY <2>1 DEF RecallKept, Idle, Branches
  <2>3. FromPage(r)
    BY <2>2, PlanSteps DEF RecentKept
  <2>4. PICK page \in SUBSET stored :
          recent[r] = Newest(page) /\ before[r] \subseteq page
    BY <1>1, <2>3 DEF FromPage
  <2>5. page \subseteq Nat /\ IsFiniteSet(page)
    <3>1. page \in SUBSET (1..clock) /\ 1 \in Int /\ clock \in Int
      BY <1>1 DEF MemoryTypes, TypeOK
    <3>2. IsFiniteSet(1..clock) /\ 1..clock \subseteq Nat
      BY <3>1, FS_Interval
    <3>3. QED  BY <3>1, <3>2, FS_Subset
  <2>6. e \in page \ ToSet(Newest(page))
    BY <2>4
  <2>7. QED  BY <2>4, <2>5, <2>6, NewestProperties
<1>2. MemoryTypes /\ RecallInv => RecentIsNewest
  BY <1>1 DEF RecentIsNewest
<1>3. QED  BY <1>2, RecallInvariant, PTL
=============================================================================
