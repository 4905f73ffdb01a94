---------------------------- MODULE MemorySession ----------------------------
(***************************************************************************)
(* The memory of Orion as the agent's requests use it: MemorySession       *)
(* (memory/session.py) over the vector store, the knowledge graph and the  *)
(* summary, with the two nodes of the graph that call it and build_context *)
(* (agent/context.py), which puts what was recalled into the prompt.       *)
(*                                                                         *)
(* Requests of several clients run side by side on the same databases.     *)
(* A publish stores its event and runs the handlers (see EventBus): it     *)
(* succeeds, or it raises and the event may be stored, now or by the next  *)
(* commit on the store's connection, or not.                               *)
(*                                                                         *)
(* An episode is represented by its timestamp.  What a similarity search   *)
(* or a graph query answers is left open.                                  *)
(***************************************************************************)
EXTENDS Integers, Sequences, FiniteSets, SequencesExt, FiniteSetsExt

CONSTANTS
  Requests,      \* the requests that recall and remember
  Past,          \* how many episodes earlier lives of the runtime have left
  Facts,         \* what the model may extract
  Extractions,   \* the lists of facts it may answer with
  Edges,         \* relationships of the graph
  EdgeOf,        \* what add_fact merges for a fact
  NoEdge,        \* ... if its predicate is empty once normalised
  PageSize,      \* limit of recent's scroll (1000)
  HistoryLimit,  \* limit of recent (10)
  MaxRecent,     \* _MAX_RECENT (3)
  MaxErrors      \* bound: how many calls and publishes raise

ASSUME MemoryAssumption ==
  /\ {Past, MaxErrors} \subseteq Nat
  /\ Extractions \subseteq Seq(Facts)
  /\ EdgeOf \in [Facts -> Edges \union {NoEdge}]
  /\ NoEdge \notin Edges
  /\ {PageSize, HistoryLimit, MaxRecent} \subseteq Nat \ {0}

VARIABLES
  stored,   \* the episodes in the vector store
  graph,    \* the relationships in the knowledge graph
  clock,    \* the timestamp of the latest episode
  pc,       \* where every request is
  task,     \* what each branch of its gather has left to do
  broken,   \* the branches that have raised
  found,    \* the relationships its graph query answered
  recent,   \* the episodes recent returned
  before,   \* the episodes stored when its recall began (history)
  episode,  \* the episode it creates, 0 until then
  facts,    \* the facts it extracted
  left,     \* those it has still to add, or then to announce
  log,      \* its events in the store
  errors    \* how many calls and publishes have raised

dbVars == <<stored, graph>>
recallVars == <<task, broken, found, recent, before>>
rememberVars == <<clock, episode, facts, left>>
vars == <<dbVars, pc, recallVars, rememberVars, log, errors>>

(* The coroutines that retrieve gathers: their publishes and their calls of *)
(* a database, in order.                                                    *)
Branches == {"summary", "facts", "semantic", "recent"}

Plan == [summary  |-> << <<"load">>, <<"SummaryFetched">> >>,
         facts    |-> << <<"GraphQueryStarted">>, <<"query">>,
                         <<"GraphQueryCompleted">> >>,
         semantic |-> << <<"SemanticSearchStarted">>, <<"search">>,
                         <<"SemanticSearchCompleted">> >>,
         recent   |-> << <<"scroll">> >>]

BranchCalls == { <<"load">>, <<"query">>, <<"search">>, <<"scroll">> }

(* The other publishes: what follows each, and where its error leads.       *)
Publishes ==
  [recall   |-> [event |-> "MemoryRecallStarted", next |-> "gather",
                 error |-> "failed"],
   recalled |-> [event |-> "MemoryRecallCompleted", next |-> "think",
                 error |-> "unrecalled"],
   unrecalled |-> [event |-> "MemoryRecallFailed", next |-> "failed",
                   error |-> "failed"],
   remember |-> [event |-> "MemoryStoreStarted", next |-> "store",
                 error |-> "failed"],
   remembered |-> [event |-> "MemoryStoreCompleted", next |-> "extract",
                   error |-> "forgotten"],
   forgotten |-> [event |-> "MemoryStoreFailed", next |-> "failed",
                  error |-> "failed"]]

Places == DOMAIN Publishes \union
  {"idle", "gather", "gathering", "think", "store", "extract", "add", "tell",
   "done", "failed"}

Events ==
  { <<e>> : e \in {"SummaryFetched", "GraphQueryStarted",
                   "GraphQueryCompleted", "SemanticSearchStarted",
                   "SemanticSearchCompleted"}
               \union {Publishes[p].event : p \in DOMAIN Publishes} }
  \union ({"GraphFactFetched"} \X Edges)
  \union ({"GraphFactAdded"} \X Facts)

Init ==
  /\ stored = 1..Past
  /\ graph = {}
  /\ clock = Past
  /\ pc = [r \in Requests |-> "idle"]
  /\ task = [r \in Requests |-> [b \in Branches |-> <<>>]]
  /\ broken = [r \in Requests |-> {}]
  /\ found = [r \in Requests |-> {}]
  /\ recent = [r \in Requests |-> <<>>]
  /\ before = [r \in Requests |-> {}]
  /\ episode = [r \in Requests |-> 0]
  /\ facts = [r \in Requests |-> <<>>]
  /\ left = [r \in Requests |-> <<>>]
  /\ log = [r \in Requests |-> {}]
  /\ errors = 0

Goes(r, place) == pc' = [pc EXCEPT ![r] = place]

Stores(r, event) == log' = [log EXCEPT ![r] = @ \union {event}]

Works == UNCHANGED errors

Raises == errors < MaxErrors /\ errors' = errors + 1

(* A publish that raises may have stored its event. *)
StoresPerhaps(r, event) == Stores(r, event) \/ UNCHANGED log

-----------------------------------------------------------------------------
(* Recalling.                                                               *)

(* The retrieve node runs. *)
Recall(r) ==
  /\ pc[r] = "idle"
  /\ Goes(r, "recall")
  /\ before' = [before EXCEPT ![r] = stored]
  /\ UNCHANGED <<dbVars, task, broken, found, recent, rememberVars, log, errors>>

Publish(r) ==
  LET p == Publishes[pc[r]] IN
  /\ pc[r] \in DOMAIN Publishes
  /\ \/ Works /\ Stores(r, <<p.event>>) /\ Goes(r, p.next)
     \/ Raises /\ StoresPerhaps(r, <<p.event>>) /\ Goes(r, p.error)
  /\ UNCHANGED <<dbVars, recallVars, rememberVars>>

Gather(r) ==
  /\ pc[r] = "gather"
  /\ Goes(r, "gathering")
  /\ task' = [task EXCEPT ![r] = Plan]
  /\ UNCHANGED <<dbVars, broken, found, recent, before, rememberVars, log, errors>>

(* The episode of a page that n others of it are newer than. *)
Newer(page, e) == {f \in page : f > e}
Ranked(page, n) == CHOOSE e \in page : Cardinality(Newer(page, e)) = n

(* As many as the limit allows. *)
Limited(page) ==
  IF Cardinality(page) < HistoryLimit THEN Cardinality(page) ELSE HistoryLimit

(* Variant: the limit is not applied. *)
NewestOfAll(page) == [i \in 1..Cardinality(page) |-> Ranked(page, i - 1)]

(* Variant: the page is sorted, but not in reverse. *)
Oldest(page) ==
  [i \in 1..Limited(page) |-> Ranked(page, Cardinality(page) - i)]

(* What recent makes of the page it was given: newest first, cut off. *)
Newest(page) == [i \in 1..Limited(page) |-> Ranked(page, i - 1)]

(* A scroll returns one page: everything, or PageSize points in the order   *)
(* of their random ids.                                                     *)
Pages == IF Cardinality(stored) <= PageSize THEN {stored}
                                            ELSE kSubset(PageSize, stored)

(* A database answers a branch.  Every relationship that a query finds is   *)
(* published once more.                                                     *)
Answer(r, b) ==
  LET step == Head(task[r][b])
      rest == Tail(task[r][b]) IN
  /\ task[r][b] # <<>>
  /\ step \in BranchCalls
  /\ \/ /\ step \in { <<"load">>, <<"search">> }
        /\ task' = [task EXCEPT ![r][b] = rest]
        /\ UNCHANGED <<found, recent>>
     \/ /\ step = <<"query">>
        /\ \E es \in SUBSET graph :
             /\ found' = [found EXCEPT ![r] = es]
             /\ task' = [task EXCEPT ![r][b] =
                  rest \o SetToSeq({"GraphFactFetched"} \X es)]
        /\ UNCHANGED recent
     \/ /\ step = <<"scroll">>
        /\ \E page \in Pages :
             recent' = [recent EXCEPT ![r] = Newest(page)]
        /\ task' = [task EXCEPT ![r][b] = rest]
        /\ UNCHANGED found
  /\ UNCHANGED <<dbVars, pc, broken, before, rememberVars, log, errors>>

(* A branch publishes the event that is next. *)
Announce(r, b) ==
  /\ task[r][b] # <<>>
  /\ Head(task[r][b]) \in Events
  /\ Stores(r, Head(task[r][b]))
  /\ task' = [task EXCEPT ![r][b] = Tail(@)]
  /\ UNCHANGED <<dbVars, pc, broken, found, recent, before, rememberVars, errors>>

(* A branch raises: its database does, or its publish. *)
BranchRaises(r, b) ==
  /\ task[r][b] # <<>>
  /\ Raises
  /\ \/ UNCHANGED log
     \/ Head(task[r][b]) \in Events /\ Stores(r, Head(task[r][b]))
  /\ task' = [task EXCEPT ![r][b] = <<>>]
  /\ broken' = [broken EXCEPT ![r] = @ \union {b}]
  /\ UNCHANGED <<dbVars, pc, found, recent, before, rememberVars>>

(* Variant: gather collects exceptions among its results. *)
GatherReturnsAnyway(r) ==
  /\ pc[r] = "gathering"
  /\ \A b \in Branches : task[r][b] = <<>>
  /\ Goes(r, "recalled")
  /\ UNCHANGED <<dbVars, recallVars, rememberVars, log, errors>>

GatherReturns(r) ==
  /\ pc[r] = "gathering"
  /\ \A b \in Branches : task[r][b] = <<>>
  /\ broken[r] = {}
  /\ Goes(r, "recalled")
  /\ UNCHANGED <<dbVars, recallVars, rememberVars, log, errors>>

(* The first branch to raise ends the gather; the others are not cancelled. *)
GatherRaises(r) ==
  /\ pc[r] = "gathering"
  /\ broken[r] # {}
  /\ Goes(r, "unrecalled")
  /\ UNCHANGED <<dbVars, recallVars, rememberVars, log, errors>>

(* The part of its history that build_context shows to the model. *)
Shown(r) ==
  SubSeq(recent[r],
         IF Len(recent[r]) > MaxRecent THEN Len(recent[r]) - MaxRecent + 1
                                       ELSE 1,
         Len(recent[r]))

-----------------------------------------------------------------------------
(* Remembering.                                                             *)

(* The model and its tools are done, and the remember node creates the      *)
(* episode; or there is nothing to remember, or one of them raises.         *)
Think(r) ==
  /\ pc[r] = "think"
  /\ \/ /\ Goes(r, "remember")
        /\ clock' = clock + 1
        /\ episode' = [episode EXCEPT ![r] = clock + 1]
        /\ Works
     \/ /\ \/ Works /\ Goes(r, "done")
           \/ Raises /\ Goes(r, "failed")
        /\ UNCHANGED <<clock, episode>>
  /\ UNCHANGED <<dbVars, recallVars, facts, left, log>>

(* Variant: an error of the upsert is swallowed. *)
StoreQuietly(r) ==
  /\ pc[r] = "store"
  /\ stored' \in {stored, stored \union {episode[r]}}
  /\ Goes(r, "remembered")
  /\ UNCHANGED <<graph, recallVars, rememberVars, log, errors>>

(* The episode is embedded and upserted; an upsert whose answer is lost     *)
(* raises as well.                                                          *)
Store(r) ==
  /\ pc[r] = "store"
  /\ \/ /\ Works
        /\ stored' = stored \union {episode[r]}
        /\ Goes(r, "remembered")
     \/ /\ Raises
        /\ stored' \in {stored, stored \union {episode[r]}}
        /\ Goes(r, "forgotten")
  /\ UNCHANGED <<graph, recallVars, rememberVars, log>>

(* The model extracts facts; an answer that is not what it was asked for    *)
(* counts as none, an error of the model ends the request.                  *)
Extract(r) ==
  /\ pc[r] = "extract"
  /\ \/ \E fs \in Extractions :
          /\ Works
          /\ facts' = [facts EXCEPT ![r] = fs]
          /\ left' = [left EXCEPT ![r] = fs]
          /\ Goes(r, IF fs = <<>> THEN "done" ELSE "add")
     \/ Raises /\ Goes(r, "failed") /\ UNCHANGED <<facts, left>>
  /\ UNCHANGED <<dbVars, recallVars, clock, episode, log>>

(* Variant: a fact that cannot be added is skipped. *)
AddFactOrSkip(r) ==
  LET e == EdgeOf[Head(left[r])] IN
  /\ pc[r] = "add"
  /\ graph' \in {graph, graph \union ({e} \ {NoEdge})}
  /\ left' = [left EXCEPT ![r] = IF Len(@) = 1 THEN facts[r] ELSE Tail(@)]
  /\ Goes(r, IF Len(left[r]) = 1 THEN "tell" ELSE "add")
  /\ UNCHANGED <<stored, recallVars, clock, episode, facts, log, errors>>

(* add_facts merges one fact after the other.  One whose predicate is empty *)
(* raises, and so may the database: nothing of it is published.             *)
AddFact(r) ==
  LET e == EdgeOf[Head(left[r])] IN
  /\ pc[r] = "add"
  /\ \/ /\ e # NoEdge
        /\ Works
        /\ graph' = graph \union {e}
        /\ left' = [left EXCEPT ![r] = IF Len(@) = 1 THEN facts[r] ELSE Tail(@)]
        /\ Goes(r, IF Len(left[r]) = 1 THEN "tell" ELSE "add")
     \/ /\ \/ e = NoEdge /\ Works /\ UNCHANGED graph
           \/ e # NoEdge /\ Raises /\ graph' \in {graph, graph \union {e}}
        /\ Goes(r, "failed")
        /\ UNCHANGED left
  /\ UNCHANGED <<stored, recallVars, clock, episode, facts, log>>

(* ... and when they are all in, each is published. *)
TellFact(r) ==
  LET event == <<"GraphFactAdded", Head(left[r])>> IN
  /\ pc[r] = "tell"
  /\ \/ /\ Works
        /\ Stores(r, event)
        /\ Goes(r, IF Len(left[r]) = 1 THEN "done" ELSE "tell")
        /\ left' = [left EXCEPT ![r] = Tail(@)]
     \/ /\ Raises
        /\ StoresPerhaps(r, event)
        /\ Goes(r, "failed")
        /\ UNCHANGED left
  /\ UNCHANGED <<dbVars, recallVars, clock, episode, facts>>

-----------------------------------------------------------------------------
Request(r) ==
  \/ Recall(r)
  \/ Publish(r)
  \/ Gather(r)
  \/ GatherReturns(r)
  \/ GatherRaises(r)
  \/ Think(r)
  \/ Store(r)
  \/ Extract(r)
  \/ AddFact(r)
  \/ TellFact(r)

Branch(r, b) == Answer(r, b) \/ Announce(r, b) \/ BranchRaises(r, b)

Next == \E r \in Requests : Request(r) \/ \E b \in Branches : Branch(r, b)

Spec == Init /\ [][Next]_vars

-----------------------------------------------------------------------------
(* Types: the state is of the shape the code gives it, and a recall never   *)
(* brings more history than was asked for.                                  *)
TypeOK ==
  /\ stored \subseteq 1..clock
  /\ graph \subseteq Edges
  /\ clock \in Nat
  /\ pc \in [Requests -> Places]
  /\ task \in [Requests -> [Branches -> Seq(Events \union BranchCalls)]]
  /\ broken \in [Requests -> SUBSET Branches]
  /\ found \in [Requests -> SUBSET Edges]
  /\ recent \in [Requests -> Seq(1..clock)]
  /\ \A r \in Requests : Len(recent[r]) <= HistoryLimit
  /\ before \in [Requests -> SUBSET (1..clock)]
  /\ episode \in [Requests -> 0..clock]
  /\ facts \in [Requests -> Seq(Facts)]
  /\ left \in [Requests -> Seq(Facts)]
  /\ log \in [Requests -> SUBSET Events]
  /\ errors \in 0..MaxErrors

Recalled(r) == <<"MemoryRecallCompleted">> \in log[r]

(* A recall that is logged as completed is complete: all four coroutines    *)
(* have ended without error and none is left behind, and the log has        *)
(* everything they announce, with each relationship that was found and no   *)
(* other; only the publish of that event itself may still fail.             *)
RecallComplete ==
  \A r \in Requests : Recalled(r) =>
    /\ broken[r] = {}
    /\ \A b \in Branches : task[r][b] = <<>>
    /\ {<<"SummaryFetched">>, <<"GraphQueryCompleted">>,
        <<"SemanticSearchCompleted">>} \subseteq log[r]
    /\ \A e \in Edges : <<"GraphFactFetched", e>> \in log[r] <=> e \in found[r]

(* What a request remembers is what the databases hold: a stored episode    *)
(* and an added fact are there when the log says so, and a request that is  *)
(* done has added and announced every fact.                                 *)
MemoryTruthful ==
  \A r \in Requests :
    /\ <<"MemoryStoreCompleted">> \in log[r] => episode[r] \in stored
    /\ \A f \in Facts :
         <<"GraphFactAdded", f>> \in log[r] => EdgeOf[f] \in graph
    /\ pc[r] = "done" =>
         \A f \in ToSet(facts[r]) : <<"GraphFactAdded", f>> \in log[r]

(* No announcement without the whole: a fact is announced only when all the *)
(* facts of its request are in the graph, and what is announced is always   *)
(* the first part of them, although both loops may stop anywhere.           *)
FactsAllOrNone ==
  \A r \in Requests :
    LET announced == {f \in Facts : <<"GraphFactAdded", f>> \in log[r]} IN
    announced # {} =>
      /\ \A f \in ToSet(facts[r]) : EdgeOf[f] \in graph
      /\ \E n \in DOMAIN facts[r] : announced = {facts[r][i] : i \in 1..n}

(* While the store fits on a page, a recall misses no episode it could have *)
(* had: one that was stored when it began and is not among those it got is  *)
(* older than all of them, and they are as many as were asked for, whatever *)
(* other requests store while the recall runs.                              *)
RecentIsNewest ==
  \A r \in Requests :
    Recalled(r) /\ Cardinality(stored) <= PageSize =>
      \A e \in before[r] \ ToSet(recent[r]) :
        /\ Len(recent[r]) = HistoryLimit
        /\ \A n \in ToSet(recent[r]) : n > e

(* What the prompt shows as the most recent conversation are the most       *)
(* recent of the turns that were recalled, as the comment on _MAX_RECENT    *)
(* and the heading it is shown under say.                                   *)
MostRecentShown ==
  \A r \in Requests : Recalled(r) =>
    \A n \in ToSet(recent[r]) \ ToSet(Shown(r)), s \in ToSet(Shown(r)) : s > n
=============================================================================
