------------------------- MODULE ChatPipelineProofs -------------------------
(***************************************************************************)
(* Types, isolation and memory of ChatPipeline for any number of clients   *)
(* and requests: a client's requests are in the agent one at a time.       *)
(***************************************************************************)
EXTENDS ChatPipeline, TLAPS

(* The states of the agent, read off the two tables. *)
LEMMA Tables ==
  /\ DOMAIN Publishes = {"begin", "prompt", "started", "chunk", "completed",
                         "failing"}
  /\ DOMAIN Gathers = {"sendStart", "sendChunk", "sendEnd"}
  /\ \A p \in DOMAIN Publishes :
       /\ Publishes[p].type \in Types \union {"none"}
       /\ Publishes[p].next \in Running \union {"done"}
       /\ Publishes[p].next # "begin"
       /\ Publishes[p].next \in InGraph => p \in {"begin", "prompt"}
  /\ \A g \in DOMAIN Gathers :
       /\ Gathers[g].type \in Types
       /\ Gathers[g].next \in {"chunk", "completed", "done"}
<1>1. /\ DOMAIN Publishes = {"begin", "prompt", "started", "chunk",
                             "completed", "failing"}
      /\ DOMAIN Gathers = {"sendStart", "sendChunk", "sendEnd"}
  BY DEF Publishes, Gathers
<1>2. ASSUME NEW p \in DOMAIN Publishes
      PROVE  /\ Publishes[p].type \in Types \union {"none"}
             /\ Publishes[p].next \in Running \union {"done"}
             /\ Publishes[p].next # "begin"
             /\ Publishes[p].next \in InGraph => p \in {"begin", "prompt"}
  BY <1>1 DEF Publishes, Publish, Types, Running, InGraph
<1>3. ASSUME NEW g \in DOMAIN Gathers
      PROVE  /\ Gathers[g].type \in Types
             /\ Gathers[g].next \in {"chunk", "completed", "done"}
  BY <1>1 DEF Gathers, Types
<1>4. QED
  BY <1>1, <1>2, <1>3

-----------------------------------------------------------------------------
(* Sending an envelope keeps the types, whatever became of the client.      *)
LEMMA WriteTypes ==
  ASSUME TypeOK, NEW s \in Sessions, NEW r \in Requests, NEW k \in Types,
         Write(s, r, k)
  PROVE  /\ conn' \in [Sessions -> ConnStates]
         /\ send' \in [Requests -> [Types -> SendStates]]
         /\ wire' \in [Sessions -> Seq([req : Requests, type : Types])]
<1> USE DEF TypeOK, Write
<1>1. conn' \in [Sessions -> ConnStates]
  BY DEF ConnStates
<1>2. send' \in [Requests -> [Types -> SendStates]]
  BY DEF SendStates
<1>3. wire' \in [Sessions -> Seq([req : Requests, type : Types])]
  <2> DEFINE e == [req |-> r, type |-> k]
             E == [req : Requests, type : Types]
  <2>1. e \in E
    OBVIOUS
  <2>2. wire' = wire \/ wire' = [wire EXCEPT ![s] = Append(@, e)]
    OBVIOUS
  <2>3. wire \in [Sessions -> Seq(E)]
    OBVIOUS
  <2> HIDE DEF e, E
  <2>4. Append(wire[s], e) \in Seq(E)
    BY <2>1, <2>3
  <2>5. wire' \in [Sessions -> Seq(E)]
    BY <2>2, <2>3, <2>4
  <2>6. QED
    BY <2>5 DEF E
<1>4. QED
  BY <1>1, <1>2, <1>3

(* The states of the loop and of the agent that a step may lead to. *)
LEMMA States ==
  /\ DOMAIN Synthesis = {"start", "synthesize", "speak", "failing"}
  /\ \A t \in DOMAIN Synthesis : Synthesis[t] \in TtsStates
  /\ Running = {"begin", "prompt", "started", "chunk", "completed", "failing",
                "sendStart", "sendChunk", "sendEnd", "retrieve", "llm",
                "tools", "remember", "extract", "empty"}
BY Tables DEF Synthesis, TtsStates, Running

(* A row is absent, pending or stored, whatever becomes of a commit. *)
LEMMA RowTypes ==
  ASSUME TypeOK, NEW r, NEW event, Stores(r, event) \/ Refuses(r, event)
  PROVE  log' \in [Requests -> [Outcomes -> RowStates]]
<1>1. log \in [Requests -> [Outcomes -> RowStates]]
  BY DEF TypeOK
<1>2. CASE Stores(r, event)
  BY <1>2 DEF Stores, RowStates
<1>3. CASE Refuses(r, event)
  BY <1>1, <1>3 DEF Refuses, RowStates
<1>4. QED
  BY <1>2, <1>3

-----------------------------------------------------------------------------
(* The steps of the client and of the session loop keep the types. *)
LEMMA SessionTypes ==
  ASSUME TypeOK, PipelineInv, NEW s \in Sessions,
         \/ Connect(s) \/ Disconnect(s) \/ StopReading(s) \/ ResumeReading(s)
         \/ SessionStep(s)
  PROVE  TypeOK'
<1> USE DEF TypeOK, clientVars, loopVars, agentVars, sendVars
<1>1. CASE Connect(s) \/ Disconnect(s)
  BY <1>1 DEF Connect, Disconnect, ConnStates, LoopStates
<1>2. CASE StopReading(s) \/ ResumeReading(s)
  BY <1>2 DEF StopReading, ResumeReading
<1>3. ASSUME EndSession(s)
      PROVE  /\ registered' \subseteq Sessions
             /\ loop' \in [Sessions -> LoopStates]
             /\ cur' \in [Sessions -> Requests \union {NoRequest}]
             /\ conn' \in [Sessions -> ConnStates]
  BY <1>3 DEF EndSession, LoopStates, ConnStates
<1>4. ASSUME NEW r \in Requests \union {NoRequest}, NEW state \in LoopStates,
             Handling(s, r, state)
      PROVE  /\ registered' \subseteq Sessions
             /\ loop' \in [Sessions -> LoopStates]
             /\ cur' \in [Sessions -> Requests \union {NoRequest}]
  BY <1>4 DEF Handling
<1>5. CASE Receive(s)
  <2> DEFINE r == Head(inbox[s])
  <2>1. inbox[s] \in Seq(Requests) /\ inbox[s] # <<>>
    BY <1>5 DEF Receive
  <2>2. r \in Requests /\ Tail(inbox[s]) \in Seq(Requests)
    BY <2>1
  <2>3. inbox' \in [Sessions -> Seq(Requests)]
    BY <1>5, <2>2 DEF Receive
  <2>4. UNCHANGED <<clientVars, agentVars>>
    BY <1>5 DEF Receive
  <2> HIDE DEF r
  <2>5. CASE UNCHANGED sendVars /\ (\/ Handling(s, r, "store")
                                    \/ Handling(s, r, "transcribe")
                                    \/ UNCHANGED <<registered, loop, cur>>)
    BY <1>4, <2>2, <2>3, <2>4, <2>5 DEF LoopStates
  <2>6. CASE Write(s, r, "pong") /\ Handling(s, r, "pong")
    <3>1. "pong" \in Types
      BY DEF Types
    <3>2. /\ conn' \in [Sessions -> ConnStates]
          /\ send' \in [Requests -> [Types -> SendStates]]
          /\ wire' \in [Sessions -> Seq([req : Requests, type : Types])]
      BY <2>2, <2>6, <3>1, WriteTypes
    <3>3. QED
      BY <1>4, <2>2, <2>3, <2>4, <2>6, <3>2 DEF LoopStates
  <2>7. CASE EndSession(s) /\ UNCHANGED <<send, wire>>
    BY <1>3, <2>3, <2>4, <2>7
  <2>8. QED
    BY <1>5, <2>5, <2>6, <2>7 DEF Receive, r
<1>6. CASE ReceiveRaises(s) \/ StartFails(s) \/ PipelineRaises(s)
  <2>1. /\ EndSession(s)
        /\ UNCHANGED <<clientVars, agent, steps, tts, episodes, send, wire,
                       inbox>>
        /\ UNCHANGED log \/ Refuses(cur[s], "ChatPipelineStart")
    BY <1>6 DEF ReceiveRaises, StartFails, PipelineRaises
  <2>2. log' \in [Requests -> [Outcomes -> RowStates]]
    BY <2>1, RowTypes
  <2>3. QED
    BY <1>3, <2>1, <2>2
<1>7. CASE Transcribe(s) \/ PongSent(s) \/ PipelineReturns(s)
  <2>1. cur[s] \in Requests \union {NoRequest}
    OBVIOUS
  <2>2. \/ Handling(s, cur[s], "store") /\ UNCHANGED conn
        \/ Handling(s, NoRequest, "receive") /\ UNCHANGED conn
        \/ EndSession(s)
    BY <1>7 DEF Transcribe, PongSent, PipelineReturns
  <2>3. UNCHANGED <<clientVars, agentVars, inbox, send, wire>>
    BY <1>7 DEF Transcribe, PongSent, PipelineReturns
  <2>4. QED
    BY <1>3, <1>4, <2>1, <2>2, <2>3 DEF LoopStates
<1>8. CASE StartPipeline(s)
  <2> DEFINE r == cur[s]
  <2>1. r \in Requests
    BY <1>8 DEF StartPipeline, PipelineInv
  <2> HIDE DEF r
  <2>2. /\ Stores(r, "ChatPipelineStart")
        /\ agent' = [agent EXCEPT ![r] = "begin"]
        /\ steps' = [steps EXCEPT ![r] = 0]
        /\ Write(s, r, "submit_prompt")
        /\ Handling(s, r, "gather")
        /\ UNCHANGED <<clientVars, inbox, tts, episodes>>
    BY <1>8 DEF StartPipeline, r
  <2>3. "submit_prompt" \in Types
    BY DEF Types
  <2>4. /\ conn' \in [Sessions -> ConnStates]
        /\ send' \in [Requests -> [Types -> SendStates]]
        /\ wire' \in [Sessions -> Seq([req : Requests, type : Types])]
    BY <2>1, <2>2, <2>3, WriteTypes
  <2>5. log' \in [Requests -> [Outcomes -> RowStates]]
    BY <2>2, RowTypes
  <2>6. /\ agent' \in [Requests -> AgentStates]
        /\ steps' \in [Requests -> 0..RecursionLimit]
    BY <2>1, <2>2, States, PipelineAssumption DEF AgentStates
  <2>7. QED
    BY <1>4, <2>1, <2>2, <2>4, <2>5, <2>6 DEF LoopStates
<1>9. QED
  BY <1>1, <1>2, <1>5, <1>6, <1>7, <1>8 DEF SessionStep

-----------------------------------------------------------------------------
(* An agent only moves between its states, and counts a node only when one  *)
(* below the limit is done.                                                 *)
LEMMA AgentMoves ==
  ASSUME TypeOK, PipelineInv, NEW r \in Requests, AgentStep(r)
  PROVE  /\ agent[r] \in Running
         /\ agent' = [agent EXCEPT ![r] = agent'[r]]
         /\ agent'[r] \in (Running \ {"begin"}) \union {"done", "raised"}
         /\ steps' = steps \/ (/\ agent[r] \in InGraph
                               /\ steps' = [steps EXCEPT ![r] = @ + 1])
         /\ agent'[r] \in InGraph => steps'[r] < RecursionLimit
<1>1. /\ agent \in [Requests -> AgentStates]
      /\ steps \in [Requests -> 0..RecursionLimit]
      /\ RecursionLimit \in Nat \ {0}
      /\ agent[r] = "begin" => steps[r] = 0
      /\ agent[r] \in InGraph => steps[r] < RecursionLimit
  BY PipelineAssumption DEF TypeOK, PipelineInv
<1>2. CASE AgentPublishes(r)
  <2>1. /\ agent[r] \in DOMAIN Publishes
        /\ agent' = [agent EXCEPT ![r] = Publishes[agent[r]].next]
        /\ steps' = steps
    BY <1>2 DEF AgentPublishes, AgentGoes
  <2> DEFINE next == Publishes[agent[r]].next
  <2>2. /\ next \in Running \union {"done"}
        /\ next # "begin"
        /\ next \in InGraph => agent[r] \in {"begin", "prompt"}
    BY <2>1, Tables
  <2>3. agent[r] \in Running
    BY <2>1 DEF Running
  <2> HIDE DEF next
  <2>4. agent' = [agent EXCEPT ![r] = next] /\ agent'[r] = next
    BY <1>1, <2>1 DEF next
  <2>5. next \in InGraph => steps'[r] < RecursionLimit
    BY <1>1, <2>1, <2>2 DEF InGraph
  <2>6. QED
    BY <2>1, <2>2, <2>3, <2>4, <2>5
<1>3. CASE AgentResumes(r)
  <2> DEFINE next == Gathers[agent[r]].next
  <2>1. /\ agent[r] \in DOMAIN Gathers
        /\ \/ agent' = [agent EXCEPT ![r] = next]
           \/ agent' = [agent EXCEPT ![r] = "failing"]
        /\ steps' = steps
    BY <1>3, Tables DEF AgentResumes, AgentFails, AgentGoes
  <2>2. next \in {"chunk", "completed", "done"}
    BY <2>1, Tables
  <2>3. agent[r] \in Running
    BY <2>1 DEF Running
  <2> HIDE DEF next
  <2>4. QED
    BY <1>1, <2>1, <2>2, <2>3, States DEF InGraph
<1>4. CASE AgentPublishFails(r)
  <2>1. agent[r] \in Running /\ steps' = steps
    BY <1>4 DEF AgentPublishFails, Running
  <2>2. QED
    BY <1>1, <1>4, <2>1, States
       DEF AgentPublishFails, AgentFails, AgentGoes, InGraph
<1>5. CASE NodeFails(r) \/ SetUpFails(r)
  BY <1>1, <1>5, States
     DEF NodeFails, SetUpFails, AgentFails, AgentGoes, InGraph
<1>6. CASE Retrieve(r) \/ CallModel(r) \/ RunTools(r)
  <2>1. PICK next \in {"prompt", "tools", "remember", "empty"} :
          agent[r] \in {"retrieve", "llm", "tools"} /\ AfterNode(r, next)
    BY <1>6 DEF Retrieve, CallModel, RunTools
  <2>2. QED
    BY <1>1, <2>1, States DEF AfterNode, AgentGoes, InGraph
<1>7. CASE Remember(r)
  <2>1. /\ agent[r] = "remember"
        /\ \/ agent' = [agent EXCEPT ![r] = "extract"] /\ steps' = steps
           \/ agent' = [agent EXCEPT ![r] = "failing"] /\ steps' = steps
           \/ /\ agent' = [agent EXCEPT ![r] = "started"]
              /\ steps' = [steps EXCEPT ![r] = @ + 1]
    BY <1>7 DEF Remember, AgentFails, AgentGoes
  <2>2. QED
    BY <1>1, <2>1, States DEF InGraph
<1>8. CASE ExtractFacts(r) \/ RejectEmpty(r)
  BY <1>1, <1>8, States
     DEF ExtractFacts, RejectEmpty, AgentFails, AgentGoes, InGraph
<1>9. QED
  BY <1>2, <1>3, <1>4, <1>5, <1>6, <1>7, <1>8 DEF AgentStep

(* The steps of the agent keep the types. *)
LEMMA AgentTypes ==
  ASSUME TypeOK, PipelineInv, NEW r \in Requests, AgentStep(r)
  PROVE  TypeOK'
<1> USE DEF clientVars, loopVars, sendVars
<1>1. agent' \in [Requests -> AgentStates]
  BY AgentMoves DEF AgentStates, TypeOK
<1>2. steps' \in [Requests -> 0..RecursionLimit]
  <2>1. /\ steps \in [Requests -> 0..RecursionLimit]
        /\ RecursionLimit \in Nat
        /\ agent[r] \in InGraph => steps[r] < RecursionLimit
    BY PipelineAssumption DEF TypeOK, PipelineInv
  <2>2. \/ steps' = steps
        \/ agent[r] \in InGraph /\ steps' = [steps EXCEPT ![r] = @ + 1]
    BY AgentMoves
  <2>3. QED
    BY <2>1, <2>2
<1>3. UNCHANGED <<clientVars, loopVars>>
  BY DEF AgentStep, AgentPublishes, AgentPublishFails, AgentResumes, Retrieve,
     CallModel, RunTools, Remember, ExtractFacts, RejectEmpty, NodeFails,
     SetUpFails
<1>4. CASE AgentPublishes(r)
  <2> DEFINE p == Publishes[agent[r]]
  <2>1. agent[r] \in DOMAIN Publishes
    BY <1>4 DEF AgentPublishes
  <2>2. p.type \in Types \union {"none"}
    BY <2>1, Tables
  <2> HIDE DEF p
  <2>3. /\ Stores(r, p.event)
        /\ \/ p.type # "none" /\ Write(Owner[r], r, p.type)
           \/ UNCHANGED sendVars
        /\ \/ tts' = tts
           \/ tts' = [tts EXCEPT ![r] = "start"]
        /\ episodes' = episodes
    BY <1>4 DEF AgentPublishes, p
  <2>4. log' \in [Requests -> [Outcomes -> RowStates]]
    BY <2>3, RowTypes
  <2>5. tts' \in [Requests -> TtsStates]
    BY <2>3 DEF TypeOK, TtsStates
  <2>6. /\ conn' \in [Sessions -> ConnStates]
        /\ send' \in [Requests -> [Types -> SendStates]]
        /\ wire' \in [Sessions -> Seq([req : Requests, type : Types])]
    <3>1. CASE UNCHANGED sendVars
      BY <3>1 DEF TypeOK
    <3>2. CASE p.type # "none" /\ Write(Owner[r], r, p.type)
      <4>1. Owner[r] \in Sessions /\ p.type \in Types
        BY <2>2, <3>2, PipelineAssumption
      <4>2. QED
        BY <3>2, <4>1, WriteTypes
    <3>3. QED
      BY <2>3, <3>1, <3>2
  <2>7. QED
    BY <1>1, <1>2, <1>3, <2>3, <2>4, <2>5, <2>6 DEF TypeOK
<1>5. CASE ~ AgentPublishes(r)
  <2>1. UNCHANGED <<sendVars, tts>> /\ episodes' \subseteq Requests
    BY <1>5 DEF AgentStep, AgentPublishFails, AgentResumes, Retrieve,
       CallModel, RunTools, Remember, ExtractFacts, RejectEmpty, NodeFails,
       SetUpFails,
       TypeOK
  <2>2. \/ UNCHANGED log
        \/ Refuses(r, Publishes[agent[r]].event)
        \/ Stores(r, "AgentProcessingStart")
    BY <1>5 DEF AgentStep, AgentPublishFails, AgentResumes, Retrieve,
       CallModel, RunTools, Remember, ExtractFacts, RejectEmpty, NodeFails,
       SetUpFails
  <2>3. log' \in [Requests -> [Outcomes -> RowStates]]
    BY <2>2, RowTypes DEF TypeOK
  <2>4. QED
    BY <1>1, <1>2, <1>3, <2>1, <2>3 DEF TypeOK
<1>6. QED
  BY <1>4, <1>5

(* The steps of the client's requests, of sends and of speech keep the      *)
(* types.                                                                   *)
LEMMA RequestTypes ==
  ASSUME TypeOK, NEW r \in Requests,
         \/ \E k \in KindsOf[r] : Submit(r, k)
         \/ \E k \in Types : DrainReturns(r, k) \/ DrainRaises(r, k)
         \/ SpeechStep(r)
  PROVE  TypeOK'
<1> USE PipelineAssumption DEF TypeOK, clientVars, loopVars, agentVars, sendVars
<1>1. ASSUME NEW k \in KindsOf[r], Submit(r, k)
      PROVE  TypeOK'
  <2>1. Owner[r] \in Sessions /\ k \in AllKinds
    OBVIOUS
  <2>2. /\ inbox' = [inbox EXCEPT ![Owner[r]] = Append(@, r)]
        /\ submitted' = [submitted EXCEPT ![Owner[r]] = Append(@, r)]
    BY <1>1 DEF Submit
  <2>3. /\ inbox' \in [Sessions -> Seq(Requests)]
        /\ submitted' \in [Sessions -> Seq(Requests)]
    BY <2>1, <2>2
  <2>4. QED
    BY <1>1, <2>1, <2>3 DEF Submit
<1>2. ASSUME NEW k \in Types, DrainReturns(r, k) \/ DrainRaises(r, k)
      PROVE  TypeOK'
  <2>1. \E o \in SendStates : send' = [send EXCEPT ![r][k] = o]
    BY <1>2 DEF DrainReturns, DrainRaises, SendStates
  <2>2. send' \in [Requests -> [Types -> SendStates]]
    BY <2>1
  <2>3. conn' \in [Sessions -> ConnStates]
    <3>1. Owner[r] \in Sessions /\ "lost" \in ConnStates
      BY DEF ConnStates
    <3>2. \/ conn' = conn
          \/ conn' = [conn EXCEPT ![Owner[r]] = "lost"]
      BY <1>2, <3>1 DEF DrainReturns, DrainRaises
    <3>3. QED
      BY <3>1, <3>2
  <2>4. QED
    BY <1>2, <2>2, <2>3 DEF DrainReturns, DrainRaises
<1>3. CASE SpeechStep(r)
  BY <1>3, States DEF SpeechStep, Speak, SpeakFails, TtsStates
<1>4. QED
  BY <1>1, <1>2, <1>3

(* No step breaks a type. *)
LEMMA TypeStep == TypeOK /\ PipelineInv /\ [Next]_vars => TypeOK'
<1> SUFFICES ASSUME TypeOK, PipelineInv, [Next]_vars
             PROVE  TypeOK'
  OBVIOUS
<1>1. CASE UNCHANGED vars
  BY <1>1 DEF TypeOK, vars, clientVars, loopVars, agentVars, sendVars
<1>2. CASE CommitElsewhere
  BY <1>2 DEF TypeOK, CommitElsewhere, RowStates, clientVars, loopVars, sendVars
<1>3. CASE Next
  BY <1>2, <1>3, SessionTypes, AgentTypes, RequestTypes DEF Next
<1>4. QED
  BY <1>1, <1>3

-----------------------------------------------------------------------------
(* An envelope goes only to an existing connection, and makes none. *)
LEMMA WriteConn ==
  ASSUME TypeOK, NEW s \in Sessions, NEW r \in Requests, NEW k \in Types,
         Write(s, r, k)
  PROVE  \A t \in Sessions : conn'[t] = "none" => conn[t] = "none"
BY DEF TypeOK, Write

(* Taking the first envelope leaves those of the same client. *)
LEMMA TailOwned ==
  ASSUME NEW s \in Sessions, NEW q \in Seq(Requests), q # <<>>,
         \A i \in DOMAIN q : Owner[q[i]] = s
  PROVE  /\ Head(q) \in Requests
         /\ Owner[Head(q)] = s
         /\ \A i \in DOMAIN Tail(q) : Owner[Tail(q)[i]] = s
<1>1. Len(q) \in Nat /\ Len(q) > 0 /\ 1 \in DOMAIN q
  OBVIOUS
<1>2. ASSUME NEW i \in DOMAIN Tail(q)
      PROVE  Tail(q)[i] = q[i + 1] /\ i + 1 \in DOMAIN q
  OBVIOUS
<1>3. QED
  BY <1>1, <1>2

(* What one step of a session's loop may do to the loop's own state.        *)
LEMMA LoopMoves ==
  ASSUME TypeOK, PipelineInv, NEW s \in Sessions, SessionStep(s)
  PROVE  /\ loop[s] \notin {"none", "ended"}
         /\ \A t \in Sessions : conn'[t] = "none" => conn[t] = "none"
         /\ \A t \in Sessions :
              \A i \in DOMAIN inbox'[t] : Owner[inbox'[t][i]] = t
         /\ \/ EndSession(s) /\ UNCHANGED <<agent, steps>>
            \/ UNCHANGED <<registered, loop, cur, agent, steps>>
            \/ /\ ~ \E r \in Requests : Owner[r] = s /\ agent[r] \in Running
               /\ \E x \in Requests, st \in {"store", "transcribe", "pong"} :
                    Handling(s, x, st) /\ Owner[x] = s
               /\ UNCHANGED <<agent, steps>>
            \/ /\ ~ \E r \in Requests : Owner[r] = s /\ agent[r] \in Running
               /\ Handling(s, NoRequest, "receive")
               /\ UNCHANGED <<agent, steps>>
            \/ StartPipeline(s)
<1> USE DEF clientVars, loopVars, agentVars, sendVars
<1>1. loop[s] \notin {"none", "ended"}
  BY DEF SessionStep, Receive, ReceiveRaises, Transcribe, PongSent,
     StartPipeline, StartFails, PipelineReturns, PipelineRaises
<1>2. loop[s] # "gather" \/ agent[cur[s]] \notin Running =>
        ~ \E r \in Requests : Owner[r] = s /\ agent[r] \in Running
  BY <1>1 DEF PipelineInv
<1>3. \A t \in Sessions :
        \A i \in DOMAIN inbox[t] : Owner[inbox[t][i]] = t
  BY DEF PipelineInv
<1>4. EndSession(s) => \A t \in Sessions : conn'[t] = "none" => conn[t] = "none"
  BY DEF EndSession, TypeOK
<1>5. CASE Receive(s)
  <2> DEFINE r == Head(inbox[s])
  <2>1. /\ loop[s] = "receive"
        /\ inbox[s] \in Seq(Requests) /\ inbox[s] # <<>>
        /\ inbox' = [inbox EXCEPT ![s] = Tail(@)]
        /\ UNCHANGED <<agent, steps>>
    BY <1>5 DEF Receive, TypeOK
  <2>2. /\ r \in Requests
        /\ Owner[r] = s
        /\ \A i \in DOMAIN Tail(inbox[s]) : Owner[Tail(inbox[s])[i]] = s
    BY <2>1, <1>3, TailOwned
  <2>3. \A t \in Sessions :
          \A i \in DOMAIN inbox'[t] : Owner[inbox'[t][i]] = t
    BY <1>3, <2>1, <2>2 DEF TypeOK
  <2> HIDE DEF r
  <2>4. \/ Handling(s, r, "store") /\ UNCHANGED sendVars
        \/ Handling(s, r, "transcribe") /\ UNCHANGED sendVars
        \/ Handling(s, r, "pong") /\ Write(s, r, "pong")
        \/ UNCHANGED <<registered, loop, cur>> /\ UNCHANGED sendVars
        \/ EndSession(s)
    BY <1>5 DEF Receive, r
  <2>5. \A t \in Sessions : conn'[t] = "none" => conn[t] = "none"
    <3>1. "pong" \in Types
      BY DEF Types
    <3>2. QED
      BY <1>4, <2>2, <2>4, <3>1, WriteConn
  <2>6. QED
    BY <1>1, <1>2, <2>1, <2>2, <2>3, <2>4, <2>5
<1>6. CASE ReceiveRaises(s) \/ StartFails(s) \/ PipelineRaises(s)
  <2>1. EndSession(s) /\ UNCHANGED <<agent, steps, inbox>>
    BY <1>6 DEF ReceiveRaises, StartFails, PipelineRaises
  <2>2. QED
    BY <1>1, <1>3, <1>4, <2>1
<1>7. CASE Transcribe(s) \/ PongSent(s)
  <2>1. /\ loop[s] \in {"transcribe", "pong"}
        /\ cur[s] \in Requests
        /\ Owner[cur[s]] = s
    BY <1>7 DEF Transcribe, PongSent, PipelineInv, TypeOK
  <2>2. /\ UNCHANGED <<agent, steps, inbox>>
        /\ \/ Handling(s, cur[s], "store") /\ UNCHANGED conn
           \/ Handling(s, NoRequest, "receive") /\ UNCHANGED conn
           \/ EndSession(s)
    BY <1>7 DEF Transcribe, PongSent
  <2>3. QED
    BY <1>1, <1>2, <1>3, <1>4, <2>1, <2>2
<1>8. CASE PipelineReturns(s)
  <2>1. /\ agent[cur[s]] \notin Running
        /\ Handling(s, NoRequest, "receive")
        /\ UNCHANGED <<agent, steps, inbox, conn>>
    BY <1>8, States DEF PipelineReturns
  <2>2. QED
    BY <1>1, <1>2, <1>3, <2>1
<1>9. CASE StartPipeline(s)
  <2>1. cur[s] \in Requests /\ "submit_prompt" \in Types
    BY <1>9 DEF StartPipeline, PipelineInv, TypeOK, Types
  <2>2. Write(s, cur[s], "submit_prompt") /\ UNCHANGED inbox
    BY <1>9 DEF StartPipeline
  <2>3. \A t \in Sessions : conn'[t] = "none" => conn[t] = "none"
    BY <2>1, <2>2, WriteConn
  <2>4. QED
    BY <1>1, <1>3, <1>9, <2>2, <2>3
<1>10. QED
  BY <1>5, <1>6, <1>7, <1>8, <1>9 DEF SessionStep

(* A step of a session's loop keeps loop, table and agents together. *)
LEMMA SessionInv ==
  ASSUME TypeOK, PipelineInv, NEW s \in Sessions, SessionStep(s)
  PROVE  PipelineInv'
<1>1. /\ loop \in [Sessions -> LoopStates]
      /\ cur \in [Sessions -> Requests \union {NoRequest}]
      /\ registered \subseteq Sessions
      /\ agent \in [Requests -> AgentStates]
      /\ steps \in [Requests -> 0..RecursionLimit]
      /\ Owner \in [Requests -> Sessions]
      /\ RecursionLimit \in Nat \ {0}
      /\ NoRequest \notin Requests
  BY PipelineAssumption DEF TypeOK
<1>2. /\ loop[s] \notin {"none", "ended"}
      /\ \A t \in Sessions : conn'[t] = "none" => conn[t] = "none"
      /\ \A t \in Sessions :
           \A i \in DOMAIN inbox'[t] : Owner[inbox'[t][i]] = t
  BY LoopMoves
<1>3. CASE EndSession(s) /\ UNCHANGED <<agent, steps>>
  BY <1>1, <1>2, <1>3 DEF EndSession, PipelineInv
<1>4. CASE UNCHANGED <<registered, loop, cur, agent, steps>>
  BY <1>1, <1>2, <1>4 DEF PipelineInv
<1>5. CASE /\ ~ \E r \in Requests : Owner[r] = s /\ agent[r] \in Running
           /\ \E x \in Requests, st \in {"store", "transcribe", "pong"} :
                Handling(s, x, st) /\ Owner[x] = s
           /\ UNCHANGED <<agent, steps>>
  BY <1>1, <1>2, <1>5 DEF Handling, PipelineInv
<1>6. CASE /\ ~ \E r \in Requests : Owner[r] = s /\ agent[r] \in Running
           /\ Handling(s, NoRequest, "receive")
           /\ UNCHANGED <<agent, steps>>
  BY <1>1, <1>2, <1>6 DEF Handling, PipelineInv
<1>7. CASE StartPipeline(s)
  <2> DEFINE r == cur[s]
  <2>1. /\ r \in Requests
        /\ Owner[r] = s
        /\ \A q \in Requests : Owner[q] = s => agent[q] \notin Running
    BY <1>1, <1>7 DEF StartPipeline, PipelineInv
  <2> HIDE DEF r
  <2>2. /\ agent' = [agent EXCEPT ![r] = "begin"]
        /\ steps' = [steps EXCEPT ![r] = 0]
        /\ loop' = [loop EXCEPT ![s] = "gather"]
        /\ cur' = [cur EXCEPT ![s] = r]
        /\ registered' = registered
    BY <1>7 DEF StartPipeline, Handling, r
  <2>3. \A q \in Requests :
          /\ agent'[q] \in Running =>
               \/ loop'[Owner[q]] = "gather" /\ cur'[Owner[q]] = q
               \/ loop'[Owner[q]] = "ended"
          /\ agent'[q] = "begin" => steps'[q] = 0
          /\ agent'[q] \in InGraph => steps'[q] < RecursionLimit
    BY <1>1, <2>1, <2>2 DEF PipelineInv, InGraph
  <2>4. QED
    BY <1>1, <1>2, <2>1, <2>2, <2>3 DEF PipelineInv
<1>8. QED
  BY <1>3, <1>4, <1>5, <1>6, <1>7, LoopMoves

(* So does a step of the client, a new session with its empty loop          *)
(* included.                                                                *)
LEMMA ClientInv ==
  ASSUME TypeOK, PipelineInv, NEW s \in Sessions,
         Connect(s) \/ Disconnect(s) \/ StopReading(s) \/ ResumeReading(s)
  PROVE  PipelineInv'
<1> USE DEF clientVars, loopVars, agentVars, sendVars
<1>1. /\ conn \in [Sessions -> ConnStates]
      /\ loop \in [Sessions -> LoopStates]
      /\ registered \subseteq Sessions
  BY DEF TypeOK
<1>2. CASE Connect(s)
  BY <1>1, <1>2 DEF Connect, PipelineInv
<1>3. CASE Disconnect(s)
  BY <1>1, <1>3 DEF Disconnect, PipelineInv
<1>4. CASE StopReading(s) \/ ResumeReading(s)
  BY <1>4 DEF StopReading, ResumeReading, PipelineInv
<1>5. QED
  BY <1>2, <1>3, <1>4

(* A step that leaves loops and inboxes alone, makes no connection and      *)
(* starts no agent keeps the invariant if the graph stays below its limit.  *)
LEMMA FrameInv ==
  ASSUME PipelineInv, UNCHANGED loopVars,
         \A t \in Sessions : conn'[t] = "none" => conn[t] = "none",
         \A q \in Requests :
           \/ agent'[q] = agent[q] /\ steps'[q] = steps[q]
           \/ /\ agent[q] \in Running
              /\ agent'[q] # "begin"
              /\ agent'[q] \in InGraph => steps'[q] < RecursionLimit
  PROVE  PipelineInv'
BY DEF PipelineInv, loopVars

LEMMA RequestInv ==
  ASSUME TypeOK, PipelineInv, NEW r \in Requests,
         \/ \E k \in KindsOf[r] : Submit(r, k)
         \/ \E k \in Types : DrainReturns(r, k) \/ DrainRaises(r, k)
         \/ SpeechStep(r)
         \/ AgentStep(r)
  PROVE  PipelineInv'
<1> USE DEF clientVars, agentVars, sendVars
<1>1. ASSUME NEW k \in KindsOf[r], Submit(r, k)
      PROVE  PipelineInv'
  <2>1. /\ Owner[r] \in Sessions
        /\ inbox \in [Sessions -> Seq(Requests)]
        /\ \A t \in Sessions : \A i \in DOMAIN inbox[t] : Owner[inbox[t][i]] = t
    BY PipelineAssumption DEF TypeOK, PipelineInv
  <2> DEFINE q == inbox[Owner[r]]
  <2>2. inbox' = [inbox EXCEPT ![Owner[r]] = Append(q, r)]
    BY <1>1 DEF Submit
  <2>3. \A i \in DOMAIN Append(q, r) : Owner[Append(q, r)[i]] = Owner[r]
    <3>1. q \in Seq(Requests) /\ \A i \in DOMAIN q : Owner[q[i]] = Owner[r]
      BY <2>1
    <3> HIDE DEF q
    <3>2. QED
      BY <3>1
  <2> HIDE DEF q
  <2>4. \A t \in Sessions : \A i \in DOMAIN inbox'[t] : Owner[inbox'[t][i]] = t
    BY <2>1, <2>2, <2>3
  <2>5. UNCHANGED <<registered, loop, cur, agent, steps, conn>>
    BY <1>1 DEF Submit
  <2>6. QED
    BY <2>4, <2>5 DEF PipelineInv
<1>2. ASSUME NEW k \in Types, DrainReturns(r, k) \/ DrainRaises(r, k)
      PROVE  PipelineInv'
  <2>1. \A t \in Sessions : conn'[t] = "none" => conn[t] = "none"
    BY <1>2, PipelineAssumption DEF DrainReturns, DrainRaises, TypeOK
  <2>2. UNCHANGED <<loopVars, agent, steps>>
    BY <1>2 DEF DrainReturns, DrainRaises
  <2>3. QED
    BY <2>1, <2>2, FrameInv
<1>3. CASE SpeechStep(r)
  BY <1>3, FrameInv DEF SpeechStep, Speak, SpeakFails
<1>4. CASE AgentStep(r)
  <2>1. UNCHANGED loopVars
    BY <1>4 DEF AgentStep, AgentPublishes, AgentPublishFails, AgentResumes,
       Retrieve, CallModel, RunTools, Remember, ExtractFacts, RejectEmpty,
       NodeFails, SetUpFails
  <2>2. \A t \in Sessions : conn'[t] = "none" => conn[t] = "none"
    <3>1. CASE UNCHANGED sendVars
      BY <3>1
    <3>2. CASE AgentPublishes(r) /\ ~ UNCHANGED sendVars
      <4> DEFINE type == Publishes[agent[r]].type
      <4>1. type \in Types /\ Write(Owner[r], r, type)
        BY <3>2, Tables DEF AgentPublishes
      <4>2. Owner[r] \in Sessions
        BY PipelineAssumption
      <4> HIDE DEF type
      <4>3. QED
        BY <4>1, <4>2, WriteConn
    <3>3. QED
      BY <1>4, <3>1, <3>2 DEF AgentStep, AgentPublishFails, AgentResumes,
         Retrieve, CallModel, RunTools, Remember, ExtractFacts, RejectEmpty,
         NodeFails, SetUpFails
  <2>3. /\ agent[r] \in Running
        /\ agent' = [agent EXCEPT ![r] = agent'[r]]
        /\ agent'[r] \in (Running \ {"begin"}) \union {"done", "raised"}
        /\ \/ steps' = steps
           \/ steps' = [steps EXCEPT ![r] = @ + 1]
        /\ agent'[r] \in InGraph => steps'[r] < RecursionLimit
        /\ agent \in [Requests -> AgentStates]
        /\ steps \in [Requests -> 0..RecursionLimit]
    BY <1>4, AgentMoves DEF TypeOK
  <2>4. \A q \in Requests : q # r => agent'[q] = agent[q] /\ steps'[q] = steps[q]
    BY <2>3
  <2>5. QED
    BY <2>1, <2>2, <2>3, <2>4, FrameInv
<1>5. QED
  BY <1>1, <1>2, <1>3, <1>4

(* No step breaks the invariant. *)
LEMMA PipelineStep == TypeOK /\ PipelineInv /\ [Next]_vars => PipelineInv'
<1> SUFFICES ASSUME TypeOK, PipelineInv, [Next]_vars
             PROVE  PipelineInv'
  OBVIOUS
<1>1. CASE UNCHANGED vars
  BY <1>1 DEF PipelineInv, vars, clientVars, loopVars, agentVars, sendVars
<1>2. CASE CommitElsewhere
  BY <1>2 DEF PipelineInv, CommitElsewhere, loopVars, sendVars
<1>3. CASE Next
  BY <1>2, <1>3, SessionInv, ClientInv, RequestInv DEF Next
<1>4. QED
  BY <1>1, <1>3

(* The loop of a session, the table of sessions and the agents fit together *)
(* in every state of every run, and the state is of its shape: an agent     *)
(* that runs is the one its loop awaits or its session is over, and no      *)
(* graph starts a node at its limit.                                        *)
THEOREM PipelineInvariant == Spec => [](TypeOK /\ PipelineInv)
<1>1. Init => TypeOK /\ PipelineInv
  <2>1. RecursionLimit \in Nat
    BY PipelineAssumption
  <2>2. Init => TypeOK
    BY <2>1 DEF Init, TypeOK, ConnStates, LoopStates, AgentStates, TtsStates,
       SendStates, RowStates
  <2>3. Init => PipelineInv
    BY States DEF Init, PipelineInv, InGraph
  <2>4. QED
    BY <2>2, <2>3
<1>2. (TypeOK /\ PipelineInv) /\ [Next]_vars => (TypeOK /\ PipelineInv)'
  BY TypeStep, PipelineStep
<1>3. QED
  BY <1>1, <1>2, PTL DEF Spec

(* The types hold, and no graph runs more nodes than its limit, whatever    *)
(* the limit, the clients and their requests.                               *)
THEOREM TypeCorrect == Spec => []TypeOK
BY PipelineInvariant, PTL

(* A client's requests are in the agent one at a time, whatever the clients *)
(* send and however many there are: a later request of a client never       *)
(* reads a memory that an earlier one is still writing.                     *)
THEOREM Isolation == Spec => []OnePipelinePerSession
<1>1. PipelineInv => OnePipelinePerSession
  BY PipelineAssumption DEF PipelineInv, OnePipelinePerSession
<1>2. QED
  BY <1>1, PipelineInvariant, PTL

-----------------------------------------------------------------------------
(* What a client has been sent changes only by one more answer to one of    *)
(* its own requests, and only while its session is registered; the end of a *)
(* reply is sent only by an agent that completes it.                        *)
LEMMA WireStep ==
  ASSUME TypeOK, PipelineInv, [Next]_vars, NEW s \in Sessions
  PROVE  \/ wire'[s] = wire[s]
         \/ /\ s \in registered
            /\ \E r \in Requests, k \in Types :
                 /\ Owner[r] = s
                 /\ k = "assistant_end" =>
                      agent[r] = "completed" /\ AgentPublishes(r)
                 /\ wire'[s] = Append(wire[s], [req |-> r, type |-> k])
<1> USE DEF clientVars, loopVars, agentVars, sendVars
<1>1. ASSUME NEW t \in Sessions, NEW r \in Requests, NEW k \in Types,
             Write(t, r, k)
      PROVE  \/ wire'[s] = wire[s]
             \/ /\ s \in registered /\ s = t
                /\ wire'[s] = Append(wire[s], [req |-> r, type |-> k])
  <2> DEFINE e == [req |-> r, type |-> k]
  <2>1. \/ wire' = wire
        \/ t \in registered /\ wire' = [wire EXCEPT ![t] = Append(@, e)]
    BY <1>1 DEF Write
  <2>2. DOMAIN wire = Sessions
    BY DEF TypeOK
  <2> HIDE DEF e
  <2>3. \/ wire'[s] = wire[s]
        \/ s \in registered /\ s = t /\ wire'[s] = Append(wire[s], e)
    BY <2>1, <2>2
  <2>4. QED
    BY <2>3 DEF e
<1>2. ASSUME NEW t \in Sessions, SessionStep(t), wire' # wire
      PROVE  \E r \in Requests, k \in Types :
               Owner[r] = t /\ k # "assistant_end" /\ Write(t, r, k)
  <2>1. /\ "pong" \in Types /\ "pong" # "assistant_end"
        /\ "submit_prompt" \in Types /\ "submit_prompt" # "assistant_end"
    BY DEF Types
  <2>2. CASE Receive(t)
    <3>1. inbox[t] \in Seq(Requests) /\ inbox[t] # <<>>
      BY <2>2 DEF Receive, TypeOK
    <3>2. Head(inbox[t]) \in Requests /\ Owner[Head(inbox[t])] = t
      BY <3>1, TailOwned DEF PipelineInv
    <3>3. Write(t, Head(inbox[t]), "pong")
      BY <1>2, <2>2 DEF Receive
    <3>4. QED
      BY <2>1, <3>2, <3>3
  <2>3. CASE StartPipeline(t)
    <3>1. cur[t] \in Requests /\ Owner[cur[t]] = t
      BY <2>3 DEF StartPipeline, PipelineInv, TypeOK
    <3>2. Write(t, cur[t], "submit_prompt")
      BY <2>3 DEF StartPipeline
    <3>3. QED
      BY <2>1, <3>1, <3>2
  <2>4. QED
    BY <1>2, <2>2, <2>3 DEF SessionStep, ReceiveRaises, Transcribe, PongSent,
       StartFails, PipelineReturns, PipelineRaises
<1>3. ASSUME NEW r \in Requests, AgentStep(r), wire' # wire
      PROVE  /\ AgentPublishes(r)
             /\ \E k \in Types :
                  /\ k = "assistant_end" => agent[r] = "completed"
                  /\ Write(Owner[r], r, k)
  <2>1. AgentPublishes(r)
    BY <1>3 DEF AgentStep, AgentPublishFails, AgentResumes, Retrieve, CallModel,
       RunTools, Remember, ExtractFacts, RejectEmpty, NodeFails, SetUpFails
  <2> DEFINE k == Publishes[agent[r]].type
  <2>2. agent[r] \in DOMAIN Publishes /\ k # "none" /\ Write(Owner[r], r, k)
    BY <1>3, <2>1 DEF AgentPublishes
  <2>3. k \in Types
    BY <2>2, Tables
  <2>4. k = "assistant_end" => agent[r] = "completed"
    BY <2>2, Tables DEF Publishes, Publish
  <2>5. QED
    BY <2>1, <2>2, <2>3, <2>4
<1>4. wire' # wire =>
        \/ \E t \in Sessions : SessionStep(t)
        \/ \E r \in Requests : AgentStep(r)
  BY DEF Next, Connect, Disconnect, StopReading, ResumeReading, Submit,
     DrainReturns, DrainRaises, SpeechStep, Speak, SpeakFails, CommitElsewhere,
     vars
<1>5. \A r \in Requests : Owner[r] \in Sessions
  BY PipelineAssumption
<1>6. CASE wire' = wire
  BY <1>6
<1>7. CASE wire' # wire /\ \E t \in Sessions : SessionStep(t)
  <2>1. PICK t \in Sessions, r \in Requests, k \in Types :
          Owner[r] = t /\ k # "assistant_end" /\ Write(t, r, k)
    BY <1>2, <1>7
  <2>2. QED
    BY <1>1, <2>1
<1>8. CASE wire' # wire /\ \E r \in Requests : AgentStep(r)
  <2>1. PICK r \in Requests :
          /\ AgentPublishes(r)
          /\ \E k \in Types : /\ k = "assistant_end" => agent[r] = "completed"
                              /\ Write(Owner[r], r, k)
    BY <1>3, <1>8
  <2>2. PICK k \in Types : /\ k = "assistant_end" => agent[r] = "completed"
                           /\ Write(Owner[r], r, k)
    BY <2>1
  <2>3. \/ wire'[s] = wire[s]
        \/ /\ s \in registered /\ s = Owner[r]
           /\ wire'[s] = Append(wire[s], [req |-> r, type |-> k])
    BY <1>1, <1>5, <2>2
  <2>4. QED
    BY <2>1, <2>2, <2>3
<1>9. QED
  BY <1>4, <1>6, <1>7, <1>8

(* No client is sent an answer to another's request, however many there are *)
(* and whatever they send.                                                  *)
THEOREM AnswersAreOwn == Spec => []OwnAnswers
<1>1. Init => OwnAnswers
  BY DEF Init, OwnAnswers
<1>2. TypeOK /\ PipelineInv /\ OwnAnswers /\ [Next]_vars => OwnAnswers'
  <2> SUFFICES ASSUME TypeOK, PipelineInv, OwnAnswers, [Next]_vars,
                      NEW s \in Sessions, NEW i \in DOMAIN wire'[s]
               PROVE  Owner[wire'[s][i].req] = s
    BY DEF OwnAnswers
  <2>1. CASE wire'[s] = wire[s]
    BY <2>1 DEF OwnAnswers
  <2>2. CASE wire'[s] # wire[s]
    <3>1. PICK r \in Requests, k \in Types :
            Owner[r] = s /\ wire'[s] = Append(wire[s], [req |-> r, type |-> k])
      BY <2>2, WireStep
    <3> DEFINE e == [req |-> r, type |-> k]
               E == [req : Requests, type : Types]
    <3>2. wire[s] \in Seq(E) /\ e.req = r
      BY DEF TypeOK
    <3> HIDE DEF e, E
    <3>3. wire'[s] = Append(wire[s], e)
      BY <3>1 DEF e
    <3>4. (i \in DOMAIN wire[s] /\ wire'[s][i] = wire[s][i]) \/ wire'[s][i] = e
      BY <3>2, <3>3
    <3>5. QED
      BY <3>1, <3>2, <3>4 DEF OwnAnswers
  <2>3. QED
    BY <2>1, <2>2
<1>3. QED
  BY <1>1, <1>2, PipelineInvariant, PTL DEF Spec

(* Nothing is written to a client whose session is over, whatever its       *)
(* abandoned pipeline still publishes.                                      *)
THEOREM SilentAfterEnd == Spec => NothingAfterEnd
<1>1. TypeOK /\ PipelineInv /\ [Next]_vars =>
        [\A s \in Sessions : loop[s] = "ended" => wire'[s] = wire[s]]_vars
  <2> SUFFICES ASSUME TypeOK, PipelineInv, [Next]_vars,
                      NEW s \in Sessions, loop[s] = "ended"
               PROVE  wire'[s] = wire[s]
    OBVIOUS
  <2>1. s \notin registered
    BY DEF PipelineInv
  <2>2. QED
    BY <2>1, WireStep
<1>2. QED
  BY <1>1, PipelineInvariant, PTL DEF Spec, NothingAfterEnd

-----------------------------------------------------------------------------
(* The agent is past the episode. *)
Replying == {"extract", "started", "sendStart", "chunk", "sendChunk", "completed"}

Kept(r) == kind[r] = "blank" \/ r \in episodes

(* An agent that is past the episode has stored it, and so has one whose    *)
(* reply has ended, unless there was none to store.                         *)
EpisodeInv ==
  /\ \A r \in Requests : agent[r] \in Replying => Kept(r)
  /\ \A s \in Sessions : \A i \in DOMAIN wire[s] :
       wire[s][i].type = "assistant_end" => Kept(wire[s][i].req)

(* A request that was sent stays what it is. *)
LEMMA KindStays ==
  ASSUME TypeOK, [Next]_vars, NEW r \in Requests, kind[r] # "unsent"
  PROVE  kind'[r] = kind[r]
<1> USE DEF clientVars, loopVars, agentVars, sendVars
<1>1. \/ kind' = kind
      \/ \E q \in Requests, k \in AllKinds :
           kind[q] = "unsent" /\ kind' = [kind EXCEPT ![q] = k]
  BY PipelineAssumption
     DEF Next, SessionStep, AgentStep, Connect, Disconnect, StopReading,
     ResumeReading, Submit, DrainReturns, DrainRaises, SpeechStep, Speak,
     SpeakFails, CommitElsewhere, vars, Receive, ReceiveRaises, Transcribe,
     PongSent,
     StartPipeline, StartFails, PipelineReturns, PipelineRaises,
     AgentPublishes, AgentPublishFails, AgentResumes, Retrieve, CallModel,
     RunTools, Remember, ExtractFacts, RejectEmpty, NodeFails, SetUpFails
<1>2. QED
  BY <1>1 DEF TypeOK

(* What is kept stays kept: episodes are only added.                        *)
LEMMA KeptStays ==
  ASSUME TypeOK, [Next]_vars, NEW r \in Requests, Kept(r)
  PROVE  Kept(r)'
<1> USE DEF clientVars, loopVars, agentVars, sendVars
<1>1. kind[r] # "unsent" => kind'[r] = kind[r]
  BY KindStays
<1>2. episodes \subseteq episodes'
  BY DEF Next, SessionStep, AgentStep, Connect, Disconnect, StopReading,
     ResumeReading, Submit, DrainReturns, DrainRaises, SpeechStep, Speak,
     SpeakFails, CommitElsewhere, vars, Receive, ReceiveRaises, Transcribe,
     PongSent,
     StartPipeline, StartFails, PipelineReturns, PipelineRaises,
     AgentPublishes, AgentPublishFails, AgentResumes, Retrieve, CallModel,
     RunTools, Remember, ExtractFacts, RejectEmpty, NodeFails, SetUpFails
<1>3. QED
  BY <1>1, <1>2 DEF Kept

(* An agent comes past the episode only with it. *)
LEMMA RepliesKept ==
  ASSUME TypeOK, PipelineInv, [Next]_vars, NEW r \in Requests,
         agent[r] \in Replying => Kept(r), agent'[r] \in Replying
  PROVE  Kept(r)'
<1> USE DEF clientVars, loopVars, agentVars, sendVars
<1>1. CASE agent[r] \in Replying
  BY <1>1, KeptStays
<1>2. CASE agent[r] \notin Replying
  <2>1. agent'[r] # agent[r]
    BY <1>2
  <2>2. ASSUME NEW q \in Requests, AgentStep(q)
        PROVE  q = r
    <3>1. agent' = [agent EXCEPT ![q] = agent'[q]] /\ DOMAIN agent = Requests
      BY <2>2, AgentMoves DEF TypeOK
    <3>2. QED
      BY <2>1, <3>1
  <2>3. ~ \E s \in Sessions : SessionStep(s)
    <3>1. ASSUME NEW s \in Sessions, SessionStep(s)
          PROVE  agent'[r] \in {agent[r], "begin"}
      BY <3>1 DEF TypeOK, SessionStep, Receive, ReceiveRaises, Transcribe,
         PongSent, StartPipeline, StartFails, PipelineReturns, PipelineRaises
    <3>2. QED
      BY <2>1, <3>1 DEF Replying
  <2>4. AgentStep(r)
    BY <2>1, <2>2, <2>3 DEF Next, Connect, Disconnect, StopReading,
       ResumeReading, Submit, DrainReturns, DrainRaises, SpeechStep, Speak,
       SpeakFails, CommitElsewhere, vars
  <2>5. agent \in [Requests -> AgentStates]
    BY DEF TypeOK
  <2>6. CASE Remember(r)
    BY <1>2, <2>5, <2>6
       DEF Remember, AgentFails, AgentGoes, Kept, Replying
  <2>7. CASE AgentPublishes(r)
    <3>1. /\ agent[r] \in DOMAIN Publishes
          /\ agent'[r] = Publishes[agent[r]].next
      BY <2>5, <2>7 DEF AgentPublishes, AgentGoes
    <3>2. agent[r] \in {"begin", "prompt", "failing"}
      BY <1>2, <3>1, Tables DEF Replying
    <3>3. agent'[r] \in {"retrieve", "llm", "done"}
      BY <3>1, <3>2, Tables DEF Publishes, Publish
    <3>4. QED
      BY <3>3 DEF Replying
  <2>8. CASE AgentResumes(r)
    <3>1. agent[r] = "sendEnd"
      BY <1>2, <2>8, Tables DEF AgentResumes, Replying
    <3>2. agent'[r] \in {"done", "failing"}
      BY <2>5, <2>8, <3>1, Tables
         DEF AgentResumes, AgentFails, AgentGoes, Gathers
    <3>3. QED
      BY <3>2 DEF Replying
  <2>9. CASE \/ AgentPublishFails(r) \/ SetUpFails(r) \/ NodeFails(r)
             \/ RejectEmpty(r)
    <3>1. agent'[r] \in {"raised", "failing"}
      BY <2>5, <2>9
         DEF AgentPublishFails, SetUpFails, NodeFails, RejectEmpty,
              AgentFails, AgentGoes
    <3>2. QED
      BY <3>1 DEF Replying
  <2>10. CASE Retrieve(r) \/ CallModel(r) \/ RunTools(r)
    <3>1. agent'[r] \in {"failing", "prompt", "tools", "remember", "empty"}
      BY <2>5, <2>10 DEF Retrieve, CallModel, RunTools, AfterNode, AgentGoes
    <3>2. QED
      BY <3>1 DEF Replying
  <2>11. CASE ExtractFacts(r)
    BY <1>2, <2>11 DEF ExtractFacts, Replying
  <2>12. QED
    BY <2>4, <2>6, <2>7, <2>8, <2>9, <2>10, <2>11 DEF AgentStep
<1>3. QED
  BY <1>1, <1>2

(* A client that reads the end of a reply can rely on the exchange being in *)
(* memory, whatever the number of clients and whatever fails.               *)
THEOREM RepliesAreRemembered == Spec => []RepliesRemembered
<1>1. Init => EpisodeInv
  BY DEF Init, EpisodeInv, Replying
<1>2. TypeOK /\ PipelineInv /\ EpisodeInv /\ [Next]_vars => EpisodeInv'
  <2> SUFFICES ASSUME TypeOK, PipelineInv, EpisodeInv, [Next]_vars
               PROVE  EpisodeInv'
    OBVIOUS
  <2>1. ASSUME NEW r \in Requests, agent'[r] \in Replying
        PROVE  Kept(r)'
    BY <2>1, RepliesKept DEF EpisodeInv
  <2>2. ASSUME NEW s \in Sessions, NEW i \in DOMAIN wire'[s],
               wire'[s][i].type = "assistant_end"
        PROVE  \E r \in Requests : wire'[s][i].req = r /\ Kept(r)'
    <3> DEFINE E == [req : Requests, type : Types]
    <3>1. wire[s] \in Seq(E)
      BY DEF TypeOK
    <3> HIDE DEF E
    <3>2. ASSUME i \in DOMAIN wire[s], wire'[s][i] = wire[s][i]
          PROVE  \E r \in Requests : wire'[s][i].req = r /\ Kept(r)'
      <4>1. Kept(wire[s][i].req)
        <5>1. wire[s][i].type = "assistant_end"
          BY <2>2, <3>2
        <5>2. QED
          BY <3>2, <5>1 DEF EpisodeInv
      <4>2. PICK r \in Requests : wire[s][i].req = r
        <5>1. wire[s][i] \in E
          BY <3>1, <3>2
        <5>2. QED
          BY <5>1 DEF E
      <4>3. Kept(r)'
        BY <4>1, <4>2, KeptStays
      <4>4. QED
        BY <3>2, <4>2, <4>3
    <3>3. CASE wire'[s] = wire[s]
      BY <2>2, <3>2, <3>3
    <3>4. CASE wire'[s] # wire[s]
      <4>1. PICK r \in Requests, k \in Types :
              /\ k = "assistant_end" => agent[r] = "completed"
              /\ wire'[s] = Append(wire[s], [req |-> r, type |-> k])
        BY <3>4, WireStep
      <4> DEFINE e == [req |-> r, type |-> k]
      <4>2. e.req = r /\ e.type = k /\ e \in E
        BY DEF E
      <4> HIDE DEF e
      <4>3. wire'[s] = Append(wire[s], e)
        BY <4>1 DEF e
      <4>4. (i \in DOMAIN wire[s] /\ wire'[s][i] = wire[s][i]) \/ wire'[s][i] = e
        BY <2>2, <3>1, <4>2, <4>3
      <4>5. ASSUME wire'[s][i] = e
            PROVE  Kept(r)'
        <5>1. agent[r] = "completed"
          BY <2>2, <4>1, <4>2, <4>5
        <5>2. Kept(r)
          BY <5>1 DEF EpisodeInv, Replying
        <5>3. QED
          BY <5>2, KeptStays
      <4>6. QED
        BY <3>2, <4>2, <4>4, <4>5
    <3>5. QED
      BY <3>3, <3>4
  <2>3. /\ \A r \in Requests : agent'[r] \in Replying => Kept(r)'
        /\ \A s \in Sessions : \A i \in DOMAIN wire'[s] :
             wire'[s][i].type = "assistant_end" =>
               \E r \in Requests : wire'[s][i].req = r /\ Kept(r)'
    BY <2>1, <2>2
  <2>4. QED
    BY <2>3 DEF EpisodeInv, Kept
<1>3. EpisodeInv => RepliesRemembered
  BY DEF EpisodeInv, RepliesRemembered, Kept
<1>4. QED
  BY <1>1, <1>2, <1>3, PipelineInvariant, PTL DEF Spec

-----------------------------------------------------------------------------
(* The requests of a session that its loop has taken up are the first ones  *)
(* of those submitted.                                                      *)
Taken(s) == Len(submitted[s]) - Len(inbox[s])

Waiting == {"transcribe", "store"}

(* What a session was sent is in its inbox, is the one it handles or is     *)
(* past, in the order of its submission, and what has been written answers  *)
(* what is no longer waiting.                                               *)
Ordered(s) ==
  /\ \A i \in DOMAIN submitted[s] :
       kind[submitted[s][i]] # "unsent" /\ Owner[submitted[s][i]] = s
  /\ \A i, j \in DOMAIN submitted[s] :
       submitted[s][i] = submitted[s][j] => i = j
  /\ Len(inbox[s]) <= Len(submitted[s])
  /\ \A i \in DOMAIN inbox[s] : inbox[s][i] = submitted[s][Taken(s) + i]
  /\ loop[s] \in {"none", "receive", "ended"} => cur[s] = NoRequest
  /\ cur[s] # NoRequest =>
       Taken(s) > 0 /\ submitted[s][Taken(s)] = cur[s]
  /\ \A i \in DOMAIN wire[s] :
       \E k \in 1..Taken(s) :
         /\ submitted[s][k] = wire[s][i].req
         /\ loop[s] \in Waiting => k < Taken(s)

OrderInv == \A s \in Sessions : Ordered(s)

(* The line of the script that the client has been sent last when the agent *)
(* is in a state.                                                           *)
LineAt(state) ==
  CASE state \in {"sendStart", "chunk"} -> "assistant_start"
    [] state \in {"sendChunk", "completed"} -> "assistant_chunk"
    [] state = "sendEnd" -> "assistant_end"
    [] OTHER -> "submit_prompt"

Answering == Running \ {"failing"}

(* While its agent goes on, the last line a client has been sent is the one *)
(* the agent has got to in the script of this request.                      *)
LastLineInv ==
  \A r \in Requests :
    /\ agent[r] \in Answering
    /\ Owner[r] \in registered
    /\ conn[Owner[r]] = "open"
    => LET w == wire[Owner[r]] IN
       w # <<>> /\ w[Len(w)] = [req |-> r, type |-> LineAt(agent[r])]

(* A request that was not sent or still waits has not been in the agent.    *)
FreshInv ==
  /\ \A r \in Requests : kind[r] = "unsent" => agent[r] = "none"
  /\ \A s \in Sessions : \A i \in DOMAIN submitted[s] :
       i > Taken(s) \/ (i = Taken(s) /\ loop[s] \in Waiting) =>
         agent[submitted[s][i]] = "none"

(* A row of the store, if only in its open transaction. *)
Row(r, event) == log[r][event] # "absent"

(* The end of a reply was never written or its sending failed, or speech    *)
(* could not be reported as failed.                                         *)
Failure(r) ==
  send[r]["assistant_end"] \in {"none", "failed"} \/ tts[r] = "raised"

Ending == {"sendEnd", "done", "failing", "raised"}

(* Until the agent publishes the end of the reply nothing of it is sent or  *)
(* in the store; and where there is a row that says completed, a failure    *)
(* has its reason.  This speaks of the rows that wait for a commit as well, *)
(* since nothing says which publication's commit stores them.               *)
OutcomeInv ==
  \A r \in Requests :
    /\ agent[r] \notin Ending => send[r]["assistant_end"] = "none"
    /\ Row(r, "ResponseCompleted") => agent[r] \in Ending
    /\ Row(r, "PipelineFailed") => agent[r] \in {"done", "raised"}
    /\ /\ Row(r, "ResponseCompleted")
       /\ agent[r] \in {"failing", "raised"} \/ Row(r, "PipelineFailed")
       => Failure(r)

-----------------------------------------------------------------------------
(* What a step may do to the order of a session: nothing but move the loop  *)
(* on ...                                                                   *)
Stays(s) == inbox'[s] = inbox[s] /\ submitted'[s] = submitted[s]
Rests(s) == loop'[s] = loop[s] /\ cur'[s] = cur[s]

WritesOne(s, r, k) == wire'[s] = Append(wire[s], [req |-> r, type |-> k])

QuietMove(s) ==
  /\ Stays(s)
  /\ wire'[s] = wire[s]
  /\ \/ Rests(s)
     \/ loop'[s] \in {"receive", "ended"} /\ cur'[s] = NoRequest
     \/ loop[s] = "transcribe" /\ loop'[s] = "store" /\ cur'[s] = cur[s]
     \/ loop[s] = "none" /\ loop'[s] = "receive" /\ cur'[s] = cur[s]

(* ... receive an envelope, ...                                             *)
SubmitMove(s) ==
  /\ Rests(s)
  /\ wire'[s] = wire[s]
  /\ \E r \in Requests :
       /\ Owner[r] = s
       /\ kind[r] = "unsent"
       /\ kind'[r] # "unsent"
       /\ inbox'[s] = Append(inbox[s], r)
       /\ submitted'[s] = Append(submitted[s], r)

(* ... take the next one up, which answers it if it is a ping, ...          *)
TakeMove(s) ==
  LET r == Head(inbox[s]) IN
  /\ loop[s] = "receive"
  /\ inbox[s] # <<>>
  /\ inbox'[s] = Tail(inbox[s])
  /\ submitted'[s] = submitted[s]
  /\ \/ /\ cur'[s] = r /\ loop'[s] \in {"store", "transcribe", "pong"}
        /\ \/ wire'[s] = wire[s]
           \/ loop'[s] = "pong" /\ WritesOne(s, r, "pong")
     \/ /\ cur'[s] = cur[s] /\ loop'[s] = "receive"
        /\ wire'[s] = wire[s]
     \/ /\ cur'[s] = NoRequest /\ loop'[s] = "ended"
        /\ wire'[s] = wire[s]

(* ... start a pipeline with the echo of the prompt ...                     *)
StartMove(s) ==
  /\ Stays(s)
  /\ loop[s] = "store"
  /\ loop'[s] = "gather"
  /\ cur'[s] = cur[s]
  /\ wire'[s] = wire[s] \/ WritesOne(s, cur[s], "submit_prompt")

(* ... or send the line that an agent of the session has come to.           *)
AnswerMove(s) ==
  /\ Stays(s)
  /\ Rests(s)
  /\ s \in registered
  /\ \E r \in Requests :
       /\ Owner[r] = s
       /\ agent[r] \in DOMAIN Publishes
       /\ AgentPublishes(r)
       /\ Publishes[agent[r]].type # "none"
       /\ conn[s] = "open"
       /\ WritesOne(s, r, Publishes[agent[r]].type)

(* What one write does to the line of a client. *)
LEMMA WriteMoves ==
  ASSUME TypeOK, NEW s \in Sessions, NEW t \in Sessions, NEW r \in Requests,
         NEW k \in Types, Write(t, r, k)
  PROVE  \/ wire'[s] = wire[s] /\ ~ (s = t /\ s \in registered /\ conn[s] = "open")
         \/ /\ s = t /\ s \in registered /\ conn[s] = "open"
            /\ WritesOne(s, r, k)
<1> DEFINE e == [req |-> r, type |-> k]
<1>1. \/ /\ wire' = wire
         /\ ~ (t \in registered /\ conn[t] = "open")
      \/ /\ t \in registered /\ conn[t] = "open"
         /\ wire' = [wire EXCEPT ![t] = Append(@, e)]
  BY DEF Write
<1>2. DOMAIN wire = Sessions
  BY DEF TypeOK
<1> HIDE DEF e
<1>3. \/ wire'[s] = wire[s] /\ ~ (s = t /\ s \in registered /\ conn[s] = "open")
      \/ /\ s = t /\ s \in registered /\ conn[s] = "open"
         /\ wire'[s] = Append(wire[s], e)
  BY <1>1, <1>2
<1>4. QED
  BY <1>3 DEF e, WritesOne

(* The loop of a session moves only this session's order.                   *)
LEMMA SessionMoves ==
  ASSUME TypeOK, PipelineInv, NEW s \in Sessions, NEW t \in Sessions,
         SessionStep(t)
  PROVE  QuietMove(s) \/ TakeMove(s) \/ StartMove(s)
<1> USE DEF clientVars, loopVars, agentVars, sendVars
<1>1. /\ DOMAIN inbox = Sessions /\ DOMAIN loop = Sessions
      /\ DOMAIN cur = Sessions /\ DOMAIN wire = Sessions
      /\ inbox[t] \in Seq(Requests)
      /\ cur[t] \in Requests \union {NoRequest}
  BY DEF TypeOK
<1>2. EndSession(t) =>
        \/ s # t /\ Rests(s)
        \/ s = t /\ loop'[s] = "ended" /\ cur'[s] = NoRequest
  BY <1>1 DEF EndSession, Rests
<1>3. ASSUME NEW x, NEW state, Handling(t, x, state)
      PROVE  \/ s # t /\ Rests(s)
             \/ s = t /\ loop'[s] = state /\ cur'[s] = x
  BY <1>1, <1>3 DEF Handling, Rests
<1>4. CASE Receive(t)
  <2> DEFINE r == Head(inbox[t])
  <2>1. /\ loop[t] = "receive"
        /\ inbox[t] # <<>>
        /\ inbox' = [inbox EXCEPT ![t] = Tail(@)]
        /\ submitted' = submitted
    BY <1>4 DEF Receive
  <2>2. r \in Requests
    BY <1>1, <2>1, TailOwned DEF PipelineInv
  <2>3. \/ Handling(t, r, "store") /\ wire' = wire
        \/ Handling(t, r, "transcribe") /\ wire' = wire
        \/ Handling(t, r, "pong") /\ Write(t, r, "pong")
        \/ UNCHANGED <<registered, loop, cur>> /\ wire' = wire
        \/ EndSession(t) /\ wire' = wire
    BY <1>4 DEF Receive
  <2>4. Write(t, r, "pong") =>
          wire'[s] = wire[s] \/ (s = t /\ WritesOne(s, r, "pong"))
    <3>1. "pong" \in Types
      BY DEF Types
    <3>2. QED
      BY <2>2, <3>1, WriteMoves
  <2> HIDE DEF r
  <2>5. CASE s = t
    <3>1. /\ inbox'[s] = Tail(inbox[s]) /\ inbox[s] # <<>>
          /\ submitted'[s] = submitted[s]
          /\ loop[s] = "receive" /\ r = Head(inbox[s])
      BY <1>1, <2>1, <2>5 DEF r
    <3>2. \/ /\ cur'[s] = r /\ loop'[s] \in {"store", "transcribe", "pong"}
             /\ wire'[s] = wire[s] \/ (loop'[s] = "pong" /\ WritesOne(s, r, "pong"))
          \/ cur'[s] = cur[s] /\ loop'[s] = "receive" /\ wire'[s] = wire[s]
          \/ cur'[s] = NoRequest /\ loop'[s] = "ended" /\ wire'[s] = wire[s]
      BY <1>2, <1>3, <2>1, <2>3, <2>4, <2>5
    <3>3. QED
      BY <3>1, <3>2 DEF TakeMove
  <2>6. CASE s # t
    <3>1. Stays(s) /\ wire'[s] = wire[s]
      BY <1>1, <2>1, <2>3, <2>4, <2>6 DEF Stays
    <3>2. Rests(s)
      BY <1>2, <1>3, <2>3, <2>6 DEF Rests
    <3>3. QED
      BY <3>1, <3>2 DEF QuietMove
  <2>7. QED
    BY <2>5, <2>6
<1>5. CASE StartPipeline(t)
  <2>1. /\ loop[t] = "store" /\ Handling(t, cur[t], "gather")
        /\ Write(t, cur[t], "submit_prompt")
        /\ inbox' = inbox /\ submitted' = submitted
    BY <1>5 DEF StartPipeline
  <2>2. cur[t] \in Requests /\ "submit_prompt" \in Types
    BY <1>1, <2>1 DEF PipelineInv, Types
  <2>3. wire'[s] = wire[s] \/ (s = t /\ WritesOne(s, cur[t], "submit_prompt"))
    BY <2>1, <2>2, WriteMoves
  <2>4. QED
    BY <1>3, <2>1, <2>3 DEF QuietMove, StartMove, Stays
<1>6. CASE ReceiveRaises(t) \/ StartFails(t) \/ PipelineRaises(t)
  <2>1. EndSession(t) /\ UNCHANGED <<inbox, submitted, wire>>
    BY <1>6 DEF ReceiveRaises, StartFails, PipelineRaises
  <2>2. QED
    BY <1>2, <2>1 DEF QuietMove, Stays
<1>7. CASE Transcribe(t) \/ PongSent(t) \/ PipelineReturns(t)
  <2>1. /\ UNCHANGED <<inbox, submitted, wire>>
        /\ \/ loop[t] = "transcribe" /\ Handling(t, cur[t], "store")
           \/ Handling(t, NoRequest, "receive")
           \/ EndSession(t)
    BY <1>7 DEF Transcribe, PongSent, PipelineReturns
  <2>2. QED
    BY <1>2, <1>3, <2>1 DEF QuietMove, Stays
<1>8. QED
  BY <1>4, <1>5, <1>6, <1>7 DEF SessionStep

(* Every step moves the order of a session in one of these ways.            *)
LEMMA Moves ==
  ASSUME TypeOK, PipelineInv, [Next]_vars, NEW s \in Sessions
  PROVE  \/ QuietMove(s) \/ SubmitMove(s) \/ TakeMove(s) \/ StartMove(s)
         \/ AnswerMove(s)
<1> USE DEF clientVars, loopVars, agentVars, sendVars
<1>1. /\ DOMAIN inbox = Sessions /\ DOMAIN loop = Sessions
      /\ DOMAIN cur = Sessions /\ DOMAIN wire = Sessions
      /\ DOMAIN submitted = Sessions /\ DOMAIN kind = Requests
  BY DEF TypeOK
<1>2. UNCHANGED <<inbox, submitted, loop, cur, wire>> => QuietMove(s)
  BY DEF QuietMove, Stays, Rests
<1>3. ASSUME NEW t \in Sessions,
             Connect(t) \/ Disconnect(t) \/ StopReading(t) \/ ResumeReading(t)
      PROVE  QuietMove(s)
  <2>1. CASE Connect(t)
    <3>1. loop[t] = "none"
      BY <2>1 DEF Connect, PipelineInv
    <3>2. QED
      BY <1>1, <2>1, <3>1 DEF Connect, QuietMove, Stays, Rests
  <2>2. QED
    BY <1>2, <1>3, <2>1 DEF Disconnect, StopReading, ResumeReading
<1>4. ASSUME NEW r \in Requests, NEW k \in KindsOf[r], Submit(r, k)
      PROVE  QuietMove(s) \/ SubmitMove(s)
  <2>1. /\ kind[r] = "unsent" /\ kind'[r] = k
        /\ inbox' = [inbox EXCEPT ![Owner[r]] = Append(@, r)]
        /\ submitted' = [submitted EXCEPT ![Owner[r]] = Append(@, r)]
        /\ UNCHANGED <<loop, cur, wire>>
    BY <1>1, <1>4 DEF Submit
  <2>2. k \in AllKinds /\ k # "unsent"
    BY PipelineAssumption DEF AllKinds
  <2>3. CASE s = Owner[r]
    BY <1>1, <2>1, <2>2, <2>3 DEF SubmitMove, Rests
  <2>4. CASE s # Owner[r]
    BY <1>1, <2>1, <2>4 DEF QuietMove, Stays, Rests
  <2>5. QED
    BY <2>3, <2>4
<1>5. ASSUME NEW r \in Requests, AgentStep(r)
      PROVE  QuietMove(s) \/ AnswerMove(s)
  <2>1. UNCHANGED <<inbox, submitted, loop, cur>>
    BY <1>5 DEF AgentStep, AgentPublishes, AgentPublishFails, AgentResumes,
       Retrieve, CallModel, RunTools, Remember, ExtractFacts, RejectEmpty,
       NodeFails, SetUpFails
  <2>2. CASE wire'[s] = wire[s]
    BY <2>1, <2>2 DEF QuietMove, Stays, Rests
  <2>3. CASE wire'[s] # wire[s]
    <3>1. AgentPublishes(r)
      BY <1>5, <2>3 DEF AgentStep, AgentPublishFails, AgentResumes, Retrieve,
         CallModel, RunTools, Remember, ExtractFacts, RejectEmpty, NodeFails,
         SetUpFails
    <3> DEFINE k == Publishes[agent[r]].type
    <3>2. agent[r] \in DOMAIN Publishes /\ k # "none" /\ Write(Owner[r], r, k)
      BY <2>3, <3>1 DEF AgentPublishes
    <3>3. k \in Types /\ Owner[r] \in Sessions
      BY <3>2, Tables, PipelineAssumption
    <3>4. s = Owner[r] /\ s \in registered /\ conn[s] = "open" /\ WritesOne(s, r, k)
      BY <2>3, <3>2, <3>3, WriteMoves
    <3>5. QED
      BY <2>1, <3>1, <3>2, <3>4 DEF AnswerMove, Stays, Rests
  <2>4. QED
    BY <2>2, <2>3
<1>6. ASSUME NEW r \in Requests,
             \/ \E k \in Types : DrainReturns(r, k) \/ DrainRaises(r, k)
             \/ SpeechStep(r)
             \/ CommitElsewhere
      PROVE  QuietMove(s)
  BY <1>2, <1>6 DEF DrainReturns, DrainRaises, SpeechStep, Speak, SpeakFails,
     CommitElsewhere
<1>7. CASE UNCHANGED vars
  BY <1>2, <1>7 DEF vars
<1>8. CASE Next
  BY <1>3, <1>4, <1>5, <1>6, <1>8, SessionMoves DEF Next, CommitElsewhere
<1>9. QED
  BY <1>7, <1>8

-----------------------------------------------------------------------------
(* One more request at the end. *)
LEMMA AppendPieces ==
  ASSUME NEW q \in Seq(Requests), NEW r \in Requests
  PROVE  /\ Len(Append(q, r)) = Len(q) + 1
         /\ \A i \in DOMAIN q : Append(q, r)[i] = q[i]
         /\ Append(q, r)[Len(q) + 1] = r
         /\ \A i \in DOMAIN Append(q, r) : i \in DOMAIN q \/ i = Len(q) + 1
OBVIOUS

(* What has been sent to a client gets longer by at most one line, at its   *)
(* end.                                                                     *)
LEMMA OneMoreLine ==
  ASSUME TypeOK, NEW s \in Sessions, NEW r \in Requests, NEW k \in Types,
         WritesOne(s, r, k)
  PROVE  /\ Len(wire[s]) \in Nat
         /\ Len(wire'[s]) = Len(wire[s]) + 1
         /\ wire'[s] # <<>> /\ wire'[s] # wire[s]
         /\ wire'[s][Len(wire'[s])] = [req |-> r, type |-> k]
         /\ \A i \in DOMAIN wire[s] : wire'[s][i] = wire[s][i]
         /\ \A i \in DOMAIN wire'[s] :
              i \in DOMAIN wire[s] \/ i = Len(wire'[s])
<1> DEFINE e == [req |-> r, type |-> k]
           E == [req : Requests, type : Types]
<1>1. wire[s] \in Seq(E) /\ e \in E /\ wire'[s] = Append(wire[s], e)
  BY DEF TypeOK, WritesOne
<1> HIDE DEF e, E
<1>2. /\ Len(wire[s]) \in Nat
      /\ Len(wire'[s]) = Len(wire[s]) + 1
      /\ wire'[s] # <<>> /\ wire'[s] # wire[s]
      /\ wire'[s][Len(wire'[s])] = e
      /\ \A i \in DOMAIN wire[s] : wire'[s][i] = wire[s][i]
      /\ \A i \in DOMAIN wire'[s] : i \in DOMAIN wire[s] \/ i = Len(wire'[s])
  BY <1>1
<1>3. QED
  BY <1>2 DEF e

(* The order of a session in a state. *)
LEMMA OrderTypes ==
  ASSUME TypeOK, OrderInv, NEW s \in Sessions
  PROVE  /\ submitted[s] \in Seq(Requests) /\ inbox[s] \in Seq(Requests)
         /\ Taken(s) \in Nat
         /\ Len(submitted[s]) = Taken(s) + Len(inbox[s])
<1>1. submitted[s] \in Seq(Requests) /\ inbox[s] \in Seq(Requests)
  BY DEF TypeOK
<1>2. /\ Len(submitted[s]) \in Nat /\ Len(inbox[s]) \in Nat
      /\ Len(inbox[s]) <= Len(submitted[s])
  BY <1>1 DEF OrderInv, Ordered
<1>3. QED
  BY <1>1, <1>2 DEF Taken

(* A session's order is kept by every step: what is taken up is the oldest  *)
(* of those that wait.                                                      *)
LEMMA OrderStep ==
  ASSUME TypeOK, PipelineInv, OrderInv, [Next]_vars
  PROVE  OrderInv'
<1> SUFFICES ASSUME NEW s \in Sessions
             PROVE  Ordered(s)'
  BY DEF OrderInv
<1> DEFINE sub == submitted[s]
           inb == inbox[s]
           n == Taken(s)
<1>1. /\ sub \in Seq(Requests) /\ inb \in Seq(Requests) /\ n \in Nat
      /\ Len(sub) = n + Len(inb) /\ Len(inb) \in Nat
  BY OrderTypes
<1>2. /\ \A i \in DOMAIN sub : kind[sub[i]] # "unsent" /\ Owner[sub[i]] = s
      /\ \A i, j \in DOMAIN sub : sub[i] = sub[j] => i = j
      /\ \A i \in DOMAIN inb : inb[i] = sub[n + i]
      /\ loop[s] \in {"none", "receive", "ended"} => cur[s] = NoRequest
      /\ cur[s] # NoRequest => n > 0 /\ sub[n] = cur[s]
      /\ \A i \in DOMAIN wire[s] :
           \E k \in 1..n : /\ sub[k] = wire[s][i].req
                           /\ loop[s] \in Waiting => k < n
  BY DEF OrderInv, Ordered
<1>3. ASSUME NEW i \in DOMAIN sub
      PROVE  kind'[sub[i]] # "unsent" /\ Owner[sub[i]] = s
  <2>1. PICK q \in Requests : q = sub[i]
    BY <1>1
  <2>2. kind[q] # "unsent"
    BY <1>2, <2>1
  <2>3. QED
    BY <1>2, <2>1, <2>2, KindStays
<1>4. ASSUME NEW r \in Requests, NEW k \in Types, WritesOne(s, r, k),
             n > 0, sub[n] = r, loop[s] \notin Waiting \/ loop'[s] \notin Waiting,
             loop'[s] \in Waiting => loop[s] \in Waiting
      PROVE  \A i \in DOMAIN wire'[s] :
               \E p \in 1..n : /\ sub[p] = wire'[s][i].req
                               /\ loop'[s] \in Waiting => p < n
  <2> DEFINE e == [req |-> r, type |-> k]
  <2>1. /\ wire'[s][Len(wire'[s])] = e
        /\ \A i \in DOMAIN wire[s] : wire'[s][i] = wire[s][i]
        /\ \A i \in DOMAIN wire'[s] : i \in DOMAIN wire[s] \/ i = Len(wire'[s])
    BY <1>4, OneMoreLine
  <2>2. e.req = r
    OBVIOUS
  <2> HIDE DEF e, sub, n
  <2>3. n \in 1..n
    BY <1>1, <1>4
  <2>4. QED
    BY <1>2, <1>4, <2>1, <2>2, <2>3
<1>5. CASE QuietMove(s)
  <2>1. /\ submitted'[s] = sub /\ inbox'[s] = inb /\ wire'[s] = wire[s]
        /\ Taken(s)' = n
        /\ loop'[s] \in Waiting => loop[s] \in Waiting
        /\ cur'[s] = NoRequest \/ cur'[s] = cur[s]
        /\ loop'[s] \in {"none", "receive", "ended"} => cur'[s] = NoRequest
    BY <1>2, <1>5 DEF QuietMove, Stays, Rests, Taken, Waiting
  <2> HIDE DEF sub, inb, n
  <2>2. QED
    BY <1>1, <1>2, <1>3, <2>1 DEF Ordered
<1>6. CASE SubmitMove(s)
  <2>1. PICK r \in Requests :
          /\ Owner[r] = s
          /\ kind[r] = "unsent"
          /\ kind'[r] # "unsent"
          /\ inbox'[s] = Append(inb, r)
          /\ submitted'[s] = Append(sub, r)
    BY <1>6 DEF SubmitMove
  <2>2. Rests(s) /\ wire'[s] = wire[s]
    BY <1>6 DEF SubmitMove
  <2> HIDE DEF sub, inb, n
  <2>3. /\ Len(submitted'[s]) = Len(sub) + 1
        /\ \A i \in DOMAIN sub : submitted'[s][i] = sub[i]
        /\ submitted'[s][Len(sub) + 1] = r
        /\ \A i \in DOMAIN submitted'[s] : i \in DOMAIN sub \/ i = Len(sub) + 1
        /\ Len(inbox'[s]) = Len(inb) + 1
        /\ \A i \in DOMAIN inb : inbox'[s][i] = inb[i]
        /\ inbox'[s][Len(inb) + 1] = r
        /\ \A i \in DOMAIN inbox'[s] : i \in DOMAIN inb \/ i = Len(inb) + 1
    <3> DEFINE Pieces(q, a) == /\ Len(a) = Len(q) + 1
                               /\ \A i \in DOMAIN q : a[i] = q[i]
                               /\ a[Len(q) + 1] = r
                               /\ \A i \in DOMAIN a :
                                    i \in DOMAIN q \/ i = Len(q) + 1
    <3>1. sub \in Seq(Requests) /\ inb \in Seq(Requests)
      BY <1>1
    <3>2. \A q \in Seq(Requests) : Pieces(q, Append(q, r))
      BY AppendPieces
    <3>3. Pieces(sub, Append(sub, r)) /\ Pieces(inb, Append(inb, r))
      BY <3>1, <3>2
    <3>4. QED
      BY <2>1, <3>3
  <2>4. Taken(s)' = n /\ Len(inbox'[s]) <= Len(submitted'[s])
    <3>1. Taken(s)' = Len(submitted'[s]) - Len(inbox'[s])
      BY DEF Taken
    <3>2. PICK a \in Nat : a = Len(inb)
      BY <1>1
    <3>3. PICK b \in Nat : b = n
      BY <1>1
    <3>4. Taken(s)' = ((b + a) + 1) - (a + 1)
      BY <1>1, <2>3, <3>1, <3>2, <3>3
    <3>5. Len(inbox'[s]) = a + 1 /\ Len(submitted'[s]) = (b + a) + 1
      BY <1>1, <2>3, <3>2, <3>3
    <3>6. QED
      BY <3>3, <3>4, <3>5
  <2>5. \A i \in DOMAIN submitted'[s] :
          kind'[submitted'[s][i]] # "unsent" /\ Owner[submitted'[s][i]] = s
    BY <1>3, <2>1, <2>3
  <2>6. \A i \in DOMAIN sub : sub[i] # r
    BY <1>2, <2>1
  <2>7. \A i, j \in DOMAIN submitted'[s] :
          submitted'[s][i] = submitted'[s][j] => i = j
    BY <1>2, <2>3, <2>6
  <2>8. \A i \in DOMAIN inbox'[s] : inbox'[s][i] = submitted'[s][n + i]
    <3>1. ASSUME NEW i \in DOMAIN inb
          PROVE  inbox'[s][i] = submitted'[s][n + i]
      <4>1. n + i \in DOMAIN sub
        BY <1>1
      <4>2. QED
        BY <1>2, <2>3, <4>1
    <3>2. n + (Len(inb) + 1) = Len(sub) + 1
      BY <1>1
    <3>3. QED
      BY <2>3, <3>1, <3>2
  <2>9. cur'[s] # NoRequest => n > 0 /\ submitted'[s][n] = cur'[s]
    <3>1. n > 0 => n \in DOMAIN sub
      BY <1>1
    <3>2. QED
      BY <1>2, <2>2, <2>3, <3>1 DEF Rests
  <2>10. \A i \in DOMAIN wire'[s] :
           \E k \in 1..n : /\ submitted'[s][k] = wire'[s][i].req
                           /\ loop'[s] \in Waiting => k < n
    <3>1. \A k \in 1..n : k \in DOMAIN sub
      BY <1>1
    <3>2. QED
      BY <1>2, <2>2, <2>3, <3>1 DEF Rests
  <2>11. QED
    BY <1>2, <2>2, <2>4, <2>5, <2>7, <2>8, <2>9, <2>10 DEF Ordered, Rests
<1>7. CASE TakeMove(s)
  <2> DEFINE r == Head(inb)
  <2>1. /\ loop[s] = "receive" /\ cur[s] = NoRequest
        /\ inb # <<>>
        /\ inbox'[s] = Tail(inb)
        /\ submitted'[s] = sub
    BY <1>2, <1>7 DEF TakeMove
  <2>2. /\ r \in Requests
        /\ Len(Tail(inb)) = Len(inb) - 1
        /\ Len(inb) > 0
        /\ \A i \in DOMAIN Tail(inb) : Tail(inb)[i] = inb[i + 1] /\ i + 1 \in DOMAIN inb
        /\ r = inb[1] /\ 1 \in DOMAIN inb
    BY <1>1, <2>1
  <2>3. /\ Taken(s)' = n + 1
        /\ Len(inbox'[s]) <= Len(submitted'[s])
    <3>1. Taken(s)' = Len(submitted'[s]) - Len(inbox'[s])
      BY DEF Taken
    <3>2. PICK a \in Nat : a = Len(inb)
      BY <1>1
    <3>3. PICK b \in Nat : b = n
      BY <1>1
    <3>4. Taken(s)' = (b + a) - (a - 1)
      BY <1>1, <2>1, <2>2, <3>1, <3>2, <3>3
    <3>5. Len(inbox'[s]) = a - 1 /\ Len(submitted'[s]) = b + a
      BY <1>1, <2>1, <2>2, <3>2, <3>3
    <3>6. QED
      BY <3>3, <3>4, <3>5
  <2>4. sub[n + 1] = r
    BY <1>2, <2>2
  <2>5. \A i \in DOMAIN inbox'[s] : inbox'[s][i] = submitted'[s][(n + 1) + i]
    <3> SUFFICES ASSUME NEW i \in DOMAIN Tail(inb)
                 PROVE  Tail(inb)[i] = sub[(n + 1) + i]
      BY <2>1
    <3>1. Tail(inb)[i] = sub[n + (i + 1)]
      BY <1>2, <2>2
    <3>2. n + (i + 1) = (n + 1) + i
      BY <1>1, <2>2
    <3>3. QED
      BY <3>1, <3>2
  <2>6. \A i \in DOMAIN wire[s] :
          \E k \in 1..(n + 1) : sub[k] = wire[s][i].req /\ k < n + 1
    <3>1. \A k \in 1..n : k \in 1..(n + 1) /\ k < n + 1
      BY <1>1
    <3>2. QED
      BY <1>2, <3>1
  <2>7. cur'[s] \in {r, NoRequest} /\ n + 1 > 0
    BY <1>1, <1>7, <2>1 DEF TakeMove
  <2>8. loop'[s] \in {"none", "receive", "ended"} => cur'[s] = NoRequest
    BY <1>7, <2>1 DEF TakeMove
  <2>9. \A i \in DOMAIN wire'[s] :
          \E k \in 1..(n + 1) : /\ sub[k] = wire'[s][i].req
                                /\ loop'[s] \in Waiting => k < n + 1
    <3>1. CASE wire'[s] = wire[s]
      BY <2>6, <3>1
    <3>2. CASE loop'[s] = "pong" /\ WritesOne(s, r, "pong")
      <4> DEFINE e == [req |-> r, type |-> "pong"]
      <4>1. "pong" \in Types /\ loop'[s] \notin Waiting
        BY <3>2 DEF Types, Waiting
      <4>2. /\ wire'[s][Len(wire'[s])] = e
            /\ \A i \in DOMAIN wire[s] : wire'[s][i] = wire[s][i]
            /\ \A i \in DOMAIN wire'[s] :
                 i \in DOMAIN wire[s] \/ i = Len(wire'[s])
        BY <2>2, <3>2, <4>1, OneMoreLine
      <4>3. e.req = r /\ n + 1 \in 1..(n + 1)
        BY <1>1
      <4> HIDE DEF e, sub, n, r
      <4>4. QED
        BY <2>4, <2>6, <4>1, <4>2, <4>3
    <3>3. QED
      BY <1>7, <3>1, <3>2 DEF TakeMove
  <2>10. \A i \in DOMAIN submitted'[s] :
           kind'[submitted'[s][i]] # "unsent" /\ Owner[submitted'[s][i]] = s
    BY <1>3, <2>1
  <2> HIDE DEF sub, inb, n, r
  <2>11. QED
    BY <1>2, <2>1, <2>3, <2>4, <2>5, <2>7, <2>8, <2>9, <2>10 DEF Ordered
<1>8. CASE StartMove(s)
  <2>1. /\ submitted'[s] = sub /\ inbox'[s] = inb /\ cur'[s] = cur[s]
        /\ loop[s] = "store" /\ loop'[s] = "gather"
        /\ Taken(s)' = n
        /\ loop'[s] \notin Waiting
        /\ wire'[s] = wire[s] \/ WritesOne(s, cur[s], "submit_prompt")
    BY <1>8 DEF StartMove, Stays, Taken, Waiting
  <2>2. cur[s] \in Requests /\ cur[s] # NoRequest /\ "submit_prompt" \in Types
    BY <2>1 DEF PipelineInv, TypeOK, Types
  <2> HIDE DEF sub, inb, n
  <2>3. \A i \in DOMAIN wire'[s] :
          \E p \in 1..n : /\ sub[p] = wire'[s][i].req
                          /\ loop'[s] \in Waiting => p < n
    BY <1>2, <1>4, <2>1, <2>2
  <2>4. QED
    BY <1>1, <1>2, <1>3, <2>1, <2>3 DEF Ordered
<1>9. CASE AnswerMove(s)
  <2>1. /\ submitted'[s] = sub /\ inbox'[s] = inb
        /\ Taken(s)' = n
        /\ cur'[s] = cur[s] /\ loop'[s] = loop[s] /\ s \in registered
    BY <1>9 DEF AnswerMove, Stays, Rests, Taken
  <2>2. PICK r \in Requests :
          /\ Owner[r] = s
          /\ agent[r] \in DOMAIN Publishes
          /\ Publishes[agent[r]].type # "none"
          /\ WritesOne(s, r, Publishes[agent[r]].type)
    BY <1>9 DEF AnswerMove
  <2> DEFINE k == Publishes[agent[r]].type
  <2>3. k \in Types /\ agent[r] \in Running
    BY <2>2, Tables DEF Running
  <2>4. loop[s] = "gather" /\ cur[s] = r /\ r # NoRequest
    BY <2>1, <2>2, <2>3, PipelineAssumption DEF PipelineInv
  <2>5. loop[s] \notin Waiting /\ WritesOne(s, r, k)
    BY <2>2, <2>4 DEF Waiting
  <2> HIDE DEF sub, inb, n, k
  <2>6. \A i \in DOMAIN wire'[s] :
          \E p \in 1..n : /\ sub[p] = wire'[s][i].req
                          /\ loop'[s] \in Waiting => p < n
    BY <1>2, <1>4, <2>1, <2>3, <2>4, <2>5
  <2>7. QED
    BY <1>1, <1>2, <1>3, <2>1, <2>6 DEF Ordered
<1>10. QED
  BY <1>5, <1>6, <1>7, <1>8, <1>9, Moves

-----------------------------------------------------------------------------
(* A session is registered and open after a step only if it was before, or  *)
(* has just been connected.                                                 *)
LEMMA OnlyConnect ==
  ASSUME TypeOK, PipelineInv, [Next]_vars, NEW s \in Sessions,
         loop[s] # "none", s \in registered', conn'[s] = "open"
  PROVE  s \in registered /\ conn[s] = "open"
<1> USE DEF clientVars, loopVars, agentVars, sendVars
<1>1. DOMAIN conn = Sessions
  BY DEF TypeOK
<1>2. ASSUME NEW t \in Sessions, NEW r, NEW k, Write(t, r, k)
      PROVE  conn[s] = "open"
  BY <1>1, <1>2 DEF Write
<1>3. ASSUME NEW t \in Sessions, EndSession(t)
      PROVE  conn[s] = "open" /\ s \in registered
  BY <1>1, <1>3 DEF EndSession
<1>4. ASSUME NEW t \in Sessions, SessionStep(t)
      PROVE  s \in registered /\ conn[s] = "open"
  <2>1. CASE Receive(t)
    BY <1>2, <1>3, <2>1 DEF Receive, Handling
  <2>2. CASE StartPipeline(t)
    BY <1>2, <2>2 DEF StartPipeline, Handling
  <2>3. QED
    BY <1>3, <1>4, <2>1, <2>2 DEF SessionStep, ReceiveRaises, Transcribe,
       PongSent, StartFails, PipelineReturns, PipelineRaises, Handling
<1>5. ASSUME NEW r \in Requests, AgentStep(r)
      PROVE  s \in registered /\ conn[s] = "open"
  <2>1. CASE AgentPublishes(r)
    BY <1>2, <2>1, PipelineAssumption DEF AgentPublishes
  <2>2. QED
    BY <1>5, <2>1 DEF AgentStep, AgentPublishFails, AgentResumes, Retrieve,
       CallModel, RunTools, Remember, ExtractFacts, RejectEmpty, NodeFails,
       SetUpFails
<1>6. ASSUME NEW t \in Sessions, Connect(t)
      PROVE  s \in registered /\ conn[s] = "open"
  BY <1>1, <1>6 DEF Connect, PipelineInv
<1>7. QED
  BY <1>1, <1>4, <1>5, <1>6 DEF Next, Disconnect, StopReading, ResumeReading,
     Submit, DrainReturns, DrainRaises, SpeechStep, Speak, SpeakFails,
     CommitElsewhere, vars

(* Where the agent is for a request changes by a step of its own or when    *)
(* its session's loop starts it.                                            *)
LEMMA AgentChanges ==
  ASSUME TypeOK, PipelineInv, [Next]_vars, NEW r \in Requests,
         agent'[r] # agent[r]
  PROVE  \/ AgentStep(r)
         \/ /\ StartPipeline(Owner[r])
            /\ cur[Owner[r]] = r
            /\ agent' = [agent EXCEPT ![r] = "begin"]
<1> USE DEF clientVars, loopVars, agentVars, sendVars
<1>1. DOMAIN agent = Requests
  BY DEF TypeOK
<1>2. ASSUME NEW q \in Requests, AgentStep(q)
      PROVE  q = r
  <2>1. agent' = [agent EXCEPT ![q] = agent'[q]]
    BY <1>2, AgentMoves
  <2>2. QED
    BY <1>1, <2>1
<1>3. ASSUME NEW t \in Sessions, SessionStep(t)
      PROVE  /\ StartPipeline(t) /\ cur[t] = r /\ Owner[r] = t
             /\ agent' = [agent EXCEPT ![r] = "begin"]
  <2>1. StartPipeline(t)
    BY <1>3 DEF SessionStep, Receive, ReceiveRaises, Transcribe, PongSent,
       StartFails, PipelineReturns, PipelineRaises
  <2>2. /\ agent' = [agent EXCEPT ![cur[t]] = "begin"]
        /\ loop[t] = "store"
    BY <2>1 DEF StartPipeline
  <2>3. cur[t] = r /\ cur[t] # NoRequest
    BY <1>1, <2>2 DEF PipelineInv
  <2>4. Owner[r] = t
    BY <2>3 DEF PipelineInv
  <2>5. QED
    BY <2>1, <2>2, <2>3, <2>4
<1>4. QED
  BY <1>2, <1>3 DEF Next, Connect, Disconnect, StopReading, ResumeReading,
     Submit, DrainReturns, DrainRaises, SpeechStep, Speak, SpeakFails,
     CommitElsewhere, vars

(* The line of the script an agent has got to changes only when it sends    *)
(* the next.                                                                *)
LEMMA LineMoves ==
  ASSUME TypeOK, NEW r \in Requests, AgentStep(r), agent'[r] \in Answering
  PROVE  \/ LineAt(agent'[r]) = LineAt(agent[r]) /\ agent[r] \in Answering
         \/ /\ AgentPublishes(r)
            /\ agent[r] \in DOMAIN Publishes
            /\ Publishes[agent[r]].type # "none"
            /\ LineAt(agent'[r]) = Publishes[agent[r]].type
<1> USE DEF clientVars, loopVars, agentVars, sendVars
<1>1. agent \in [Requests -> AgentStates]
  BY DEF TypeOK
<1>2. CASE AgentPublishes(r)
  <2>1. /\ agent[r] \in DOMAIN Publishes
        /\ agent'[r] = Publishes[agent[r]].next
    BY <1>1, <1>2 DEF AgentPublishes, AgentGoes
  <2>2. agent[r] \in {"begin", "prompt", "started", "chunk", "completed"}
    <3>1. agent[r] # "failing"
      BY <2>1, States DEF Publishes, Publish, Answering
    <3>2. QED
      BY <2>1, <3>1, Tables
  <2>3. CASE agent[r] \in {"begin", "prompt"}
    BY <2>1, <2>3, States DEF Publishes, Publish, Answering, LineAt
  <2>4. CASE agent[r] \in {"started", "chunk", "completed"}
    BY <1>2, <2>1, <2>4 DEF Publishes, Publish, LineAt
  <2>5. QED
    BY <2>2, <2>3, <2>4
<1>3. CASE AgentResumes(r)
  <2>1. /\ agent[r] \in {"sendStart", "sendChunk", "sendEnd"}
        /\ agent'[r] \in {Gathers[agent[r]].next, "failing"}
    BY <1>1, <1>3, Tables DEF AgentResumes, AgentFails, AgentGoes
  <2>2. agent'[r] = Gathers[agent[r]].next
    BY <2>1 DEF Answering
  <2>3. \/ agent[r] = "sendStart" /\ agent'[r] = "chunk"
        \/ agent[r] = "sendChunk" /\ agent'[r] = "completed"
    BY <2>1, <2>2, States DEF Gathers, Answering
  <2>4. QED
    BY <2>3, States DEF LineAt, Answering
<1>4. CASE \/ AgentPublishFails(r) \/ SetUpFails(r) \/ NodeFails(r)
           \/ RejectEmpty(r)
  <2>1. agent'[r] \in {"raised", "failing"}
    BY <1>1, <1>4
       DEF AgentPublishFails, SetUpFails, NodeFails, RejectEmpty,
              AgentFails, AgentGoes
  <2>2. QED
    BY <2>1, States DEF Answering
<1>5. CASE Retrieve(r) \/ CallModel(r) \/ RunTools(r)
  <2>1. /\ agent[r] \in {"retrieve", "llm", "tools"}
        /\ agent'[r] \in {"failing", "prompt", "tools", "remember", "empty"}
    BY <1>1, <1>5 DEF Retrieve, CallModel, RunTools, AfterNode, AgentGoes
  <2>2. QED
    BY <2>1, States DEF LineAt, Answering
<1>6. CASE Remember(r) \/ ExtractFacts(r)
  <2>1. /\ agent[r] \in {"remember", "extract"}
        /\ agent'[r] \in {"extract", "failing", "started"}
    BY <1>1, <1>6 DEF Remember, ExtractFacts, AgentFails, AgentGoes
  <2>2. QED
    BY <2>1, States DEF LineAt, Answering
<1>7. QED
  BY <1>2, <1>3, <1>4, <1>5, <1>6 DEF AgentStep

(* As long as an agent goes on, the last line its client has been sent is   *)
(* the one it has got to.                                                   *)
LEMMA LastLineStep ==
  ASSUME TypeOK, PipelineInv, LastLineInv, [Next]_vars
  PROVE  LastLineInv'
<1> SUFFICES ASSUME NEW r \in Requests,
                    agent'[r] \in Answering,
                    Owner[r] \in registered',
                    conn'[Owner[r]] = "open"
             PROVE  LET w == wire'[Owner[r]] IN
                    w # <<>> /\ w[Len(w)] = [req |-> r, type |-> LineAt(agent'[r])]
  BY DEF LastLineInv
<1> DEFINE s == Owner[r]
           Last1(w, k) == w # <<>> /\ w[Len(w)] = [req |-> r, type |-> k]
<1>1. s \in Sessions /\ r # NoRequest
  BY PipelineAssumption
<1>2. ASSUME NEW k \in Types, WritesOne(s, r, k)
      PROVE  Last1(wire'[s], k)
  BY <1>1, <1>2, OneMoreLine
<1>3. CASE agent[r] \in Running
  <2>1. loop[s] \in {"gather", "ended"}
    BY <1>3 DEF PipelineInv
  <2>2. s \in registered /\ conn[s] = "open"
    BY <1>1, <2>1, OnlyConnect
  <2>3. loop[s] = "gather" /\ cur[s] = r
    BY <1>1, <1>3, <2>2 DEF PipelineInv
  <2>4. CASE AnswerMove(s)
    <3>1. PICK q \in Requests :
            /\ Owner[q] = s
            /\ agent[q] \in DOMAIN Publishes
            /\ AgentPublishes(q)
            /\ Publishes[agent[q]].type # "none"
            /\ WritesOne(s, q, Publishes[agent[q]].type)
      BY <2>4 DEF AnswerMove
    <3>2. agent[q] \in Running
      BY <3>1 DEF Running
    <3>3. q = r
      BY <1>1, <2>2, <2>3, <3>1, <3>2 DEF PipelineInv
    <3>4. agent'[r] = Publishes[agent[r]].next
      BY <3>1, <3>3 DEF AgentPublishes, AgentGoes, TypeOK
    <3>5. LineAt(agent'[r]) = Publishes[agent[r]].type
      <4>1. agent[r] \in {"started", "chunk", "completed"}
        BY <3>1, <3>3, Tables DEF Publishes, Publish
      <4>2. QED
        BY <3>4, <4>1 DEF Publishes, Publish, LineAt
    <3>6. LineAt(agent'[r]) \in Types
      BY <3>1, <3>3, <3>5, Tables
    <3>7. QED
      BY <1>2, <3>1, <3>3, <3>5, <3>6
  <2>5. CASE wire'[s] = wire[s]
    <3>1. LineAt(agent'[r]) = LineAt(agent[r]) /\ agent[r] \in Answering
      <4>1. CASE agent'[r] = agent[r]
        BY <4>1
      <4>2. CASE AgentStep(r)
        <5>1. SUFFICES ASSUME AgentPublishes(r),
                              agent[r] \in DOMAIN Publishes,
                              Publishes[agent[r]].type # "none"
                       PROVE  FALSE
          BY <4>2, LineMoves
        <5> DEFINE k == Publishes[agent[r]].type
        <5>2. k \in Types /\ Write(s, r, k)
          BY <5>1, Tables DEF AgentPublishes
        <5>3. WritesOne(s, r, k)
          BY <1>1, <2>2, <5>2, WriteMoves
        <5> HIDE DEF k
        <5>4. QED
          BY <1>1, <2>5, <5>2, <5>3, OneMoreLine
      <4>3. ~ StartPipeline(s)
        BY <2>3 DEF StartPipeline
      <4>4. QED
        BY <4>1, <4>2, <4>3, AgentChanges
    <3>2. QED
      BY <1>1, <2>2, <2>5, <3>1 DEF LastLineInv
  <2>6. ~ TakeMove(s) /\ ~ StartMove(s)
    BY <2>3 DEF TakeMove, StartMove
  <2>7. QED
    BY <1>1, <2>4, <2>5, <2>6, Moves DEF QuietMove, SubmitMove
<1>4. CASE agent[r] \notin Running
  <2>1. agent'[r] # agent[r] /\ ~ AgentStep(r)
    BY <1>4, AgentMoves DEF Answering
  <2>2. /\ StartPipeline(s) /\ cur[s] = r
        /\ agent' = [agent EXCEPT ![r] = "begin"]
    BY <2>1, AgentChanges
  <2>3. loop[s] = "store" /\ Write(s, r, "submit_prompt") /\ "submit_prompt" \in Types
    BY <2>2 DEF StartPipeline, Types
  <2>4. s \in registered /\ conn[s] = "open"
    BY <1>1, <2>3, OnlyConnect
  <2>5. WritesOne(s, r, "submit_prompt")
    BY <1>1, <2>3, <2>4, WriteMoves
  <2>6. LineAt(agent'[r]) = "submit_prompt"
    BY <2>2 DEF TypeOK, LineAt
  <2>7. QED
    BY <1>2, <2>3, <2>5, <2>6
<1>5. QED
  BY <1>3, <1>4

(* In a sequence without repetition every element has one position. *)
LEMMA OnePosition ==
  ASSUME NEW q \in Seq(Requests),
         \A i, j \in DOMAIN q : q[i] = q[j] => i = j,
         NEW k \in DOMAIN q, NEW y, q[k] = y
  PROVE  (CHOOSE i \in DOMAIN q : q[i] = y) = k
OBVIOUS

(* The position of the request that a line answers. *)
PlaceOf(s, i) == Position(s, wire[s][i].req)

(* The line of a client at an index is in its place: the first line of a    *)
(* script comes after those of earlier requests, and the others after the   *)
(* one before.                                                              *)
InPlace(s, i) ==
  LET e == wire[s][i] IN
  \/ Script[e.type] = 1
     /\ \A j \in 1..(i-1) : PlaceOf(s, j) < PlaceOf(s, i)
  \/ i > 1 /\ wire[s][i-1].req = e.req
     /\ Script[wire[s][i-1].type] = Script[e.type] - 1

(* A line answers the request at one position, now ...                      *)
LEMMA PlaceIs ==
  ASSUME TypeOK, OrderInv, NEW s \in Sessions, NEW j,
         NEW k \in DOMAIN submitted[s], submitted[s][k] = wire[s][j].req
  PROVE  PlaceOf(s, j) = k
<1>1. /\ submitted[s] \in Seq(Requests)
      /\ \A i, l \in DOMAIN submitted[s] :
           submitted[s][i] = submitted[s][l] => i = l
  BY DEF TypeOK, OrderInv, Ordered
<1>2. QED
  BY <1>1, OnePosition DEF PlaceOf, Position

(* ... and after the next step: what was submitted keeps its position.      *)
LEMMA NextPlaceIs ==
  ASSUME TypeOK, PipelineInv, OrderInv, [Next]_vars, NEW s \in Sessions, NEW j,
         NEW k \in DOMAIN submitted[s], submitted[s][k] = wire'[s][j].req
  PROVE  PlaceOf(s, j)' = k
<1> DEFINE q == submitted[s]
           p == submitted'[s]
<1>1. q \in Seq(Requests)
  BY DEF TypeOK
<1>2. \A i, l \in DOMAIN p : p[i] = p[l] => i = l
  BY OrderStep DEF OrderInv, Ordered
<1>3. p = q \/ \E r \in Requests : p = Append(q, r)
  BY Moves DEF QuietMove, SubmitMove, TakeMove, StartMove, AnswerMove, Stays
<1>4. /\ p \in Seq(Requests)
      /\ k \in DOMAIN p
      /\ p[k] = wire'[s][j].req
  <2>1. CASE p = q
    BY <1>1, <2>1
  <2>2. CASE \E r \in Requests : p = Append(q, r)
    <3>1. PICK r \in Requests : p = Append(q, r)
      BY <2>2
    <3>2. /\ Len(p) = Len(q) + 1
          /\ \A i \in DOMAIN q : p[i] = q[i]
      BY <1>1, <3>1, AppendPieces
    <3>3. p \in Seq(Requests) /\ Len(q) \in Nat /\ DOMAIN q = 1..Len(q)
      BY <1>1, <3>1
    <3>4. k \in DOMAIN q /\ k \in DOMAIN p
      BY <3>2, <3>3
    <3>5. QED
      BY <3>2, <3>3, <3>4
  <2>3. QED
    BY <1>3, <2>1, <2>2
<1> HIDE DEF q, p
<1>5. (CHOOSE i \in DOMAIN p : p[i] = wire'[s][j].req) = k
  BY <1>2, <1>4, OnePosition
<1>6. QED
  BY <1>5 DEF PlaceOf, Position, p

(* What is written next is in its place. *)
LEMMA NextInPlace ==
  ASSUME TypeOK, PipelineInv, OrderInv, LastLineInv, [Next]_vars,
         NEW s \in Sessions, wire'[s] # wire[s]
  PROVE  \E n \in Nat :
           /\ n = Len(wire[s]) + 1
           /\ Len(wire'[s]) = n
           /\ \A i \in DOMAIN wire[s] : wire'[s][i] = wire[s][i]
           /\ InPlace(s, n)'
<1> DEFINE sub == submitted[s]
<1>0. Len(wire[s]) \in Nat /\ DOMAIN wire[s] = 1..Len(wire[s])
  BY DEF TypeOK
<1> PICK n \in Nat : n = Len(wire[s]) + 1
  BY <1>0
<1>1. /\ sub \in Seq(Requests) /\ inbox[s] \in Seq(Requests)
      /\ Taken(s) \in Nat
      /\ Len(sub) = Taken(s) + Len(inbox[s]) /\ Len(inbox[s]) \in Nat
  BY OrderTypes
<1>2. ASSUME NEW j, NEW k \in DOMAIN sub, sub[k] = wire'[s][j].req
      PROVE  PlaceOf(s, j)' = k
  BY <1>2, NextPlaceIs
<1>3. ASSUME NEW r \in Requests, NEW k \in Types, WritesOne(s, r, k)
      PROVE  /\ n \in Nat /\ n > 0
             /\ Len(wire'[s]) = n
             /\ \A i \in DOMAIN wire[s] : wire'[s][i] = wire[s][i]
             /\ \A i \in 1..(n - 1) : i \in DOMAIN wire[s]
             /\ wire'[s][n].req = r /\ wire'[s][n].type = k
  <2> DEFINE e == [req |-> r, type |-> k]
  <2>1. e.req = r /\ e.type = k
    OBVIOUS
  <2>2. wire'[s][Len(wire'[s])] = e
    BY <1>3, OneMoreLine
  <2> HIDE DEF e
  <2>3. /\ Len(wire'[s]) = n
        /\ \A i \in DOMAIN wire[s] : wire'[s][i] = wire[s][i]
    BY <1>3, OneMoreLine
  <2>4. QED
    BY <1>0, <2>1, <2>2, <2>3
<1>4. ASSUME NEW r \in Requests, NEW k \in {"submit_prompt", "pong"},
             WritesOne(s, r, k), NEW m \in DOMAIN sub, sub[m] = r,
             \A i \in DOMAIN wire[s] :
               \E p \in 1..Taken(s) : sub[p] = wire[s][i].req /\ p < m
      PROVE  InPlace(s, n)'
  <2>1. k \in Types /\ Script[k] = 1
    BY DEF Types, Script
  <2>2. /\ \A i \in DOMAIN wire[s] : wire'[s][i] = wire[s][i]
        /\ \A i \in 1..(n - 1) : i \in DOMAIN wire[s]
        /\ wire'[s][n].req = r /\ wire'[s][n].type = k
    BY <1>3, <1>4, <2>1
  <2>3. PlaceOf(s, n)' = m
    BY <1>2, <1>4, <2>2
  <2>4. ASSUME NEW i \in DOMAIN wire[s]
        PROVE  PlaceOf(s, i)' < m
    <3>1. PICK p \in 1..Taken(s) : sub[p] = wire[s][i].req /\ p < m
      BY <1>4
    <3>2. p \in DOMAIN sub /\ sub[p] = wire'[s][i].req
      BY <1>1, <2>2, <3>1
    <3>3. PlaceOf(s, i)' = p
      BY <1>2, <3>2
    <3>4. QED
      BY <3>1, <3>3
  <2>5. \A j \in 1..(n - 1) : PlaceOf(s, j)' < PlaceOf(s, n)'
    BY <2>2, <2>3, <2>4
  <2>6. QED
    BY <2>1, <2>2, <2>5 DEF InPlace
<1>5. \A i \in DOMAIN wire[s] :
        \E p \in 1..Taken(s) : /\ sub[p] = wire[s][i].req
                               /\ loop[s] \in Waiting => p < Taken(s)
  BY DEF OrderInv, Ordered
<1>6. CASE TakeMove(s)
  <2> DEFINE r == Head(inbox[s])
             m == Taken(s) + 1
  <2>1. inbox[s] # <<>> /\ WritesOne(s, r, "pong")
    BY <1>6 DEF TakeMove
  <2>2. r \in Requests /\ r = inbox[s][1] /\ 1 \in DOMAIN inbox[s] /\ Len(inbox[s]) > 0
    BY <1>1, <2>1
  <2>3. sub[m] = r /\ m \in DOMAIN sub
    <3>1. m \in 1..Len(sub)
      BY <1>1, <2>2
    <3>2. QED
      BY <1>1, <2>2, <3>1 DEF OrderInv, Ordered
  <2>4. \A i \in DOMAIN wire[s] :
          \E p \in 1..Taken(s) : sub[p] = wire[s][i].req /\ p < m
    <3>1. \A p \in 1..Taken(s) : p < m
      BY <1>1
    <3>2. QED
      BY <1>5, <3>1
  <2>5. "pong" \in Types
    BY DEF Types
  <2> HIDE DEF r, m, sub
  <2>6. InPlace(s, n)'
    BY <1>4, <2>1, <2>2, <2>3, <2>4
  <2>7. QED
    BY <1>3, <2>1, <2>2, <2>5, <2>6
<1>7. CASE StartMove(s)
  <2>1. /\ loop[s] = "store" /\ WritesOne(s, cur[s], "submit_prompt")
    BY <1>7 DEF StartMove
  <2>2. cur[s] \in Requests /\ cur[s] # NoRequest /\ "submit_prompt" \in Types
    BY <2>1 DEF PipelineInv, TypeOK, Types
  <2>3. Taken(s) > 0 /\ sub[Taken(s)] = cur[s]
    BY <2>2 DEF OrderInv, Ordered
  <2>4. Taken(s) \in DOMAIN sub
    BY <1>1, <2>3
  <2>5. \A i \in DOMAIN wire[s] :
          \E p \in 1..Taken(s) : sub[p] = wire[s][i].req /\ p < Taken(s)
    BY <1>5, <2>1 DEF Waiting
  <2> HIDE DEF sub
  <2>6. InPlace(s, n)'
    BY <1>4, <2>1, <2>2, <2>3, <2>4, <2>5
  <2>7. QED
    BY <1>3, <2>1, <2>2, <2>6
<1>8. CASE AnswerMove(s)
  <2>1. PICK r \in Requests :
          /\ Owner[r] = s
          /\ agent[r] \in DOMAIN Publishes
          /\ Publishes[agent[r]].type # "none"
          /\ conn[s] = "open"
          /\ WritesOne(s, r, Publishes[agent[r]].type)
    BY <1>8 DEF AnswerMove
  <2> DEFINE k == Publishes[agent[r]].type
             e == [req |-> r, type |-> LineAt(agent[r])]
  <2>2. agent[r] \in {"started", "chunk", "completed"} /\ k \in Types
    BY <2>1, Tables DEF Publishes, Publish
  <2>3. Script[LineAt(agent[r])] = Script[k] - 1
    BY <2>2 DEF Publishes, Publish, LineAt, Script
  <2>4. wire[s] # <<>> /\ wire[s][Len(wire[s])] = e
    <3>1. s \in registered /\ agent[r] \in Answering
      BY <1>8, <2>2, States DEF AnswerMove, Answering
    <3>2. QED
      BY <2>1, <3>1 DEF LastLineInv
  <2>5. e.req = r /\ e.type = LineAt(agent[r])
    OBVIOUS
  <2>6. WritesOne(s, r, k)
    BY <2>1
  <2> HIDE DEF k, e
  <2>7. /\ n \in Nat /\ n > 0
        /\ Len(wire'[s]) = n
        /\ \A i \in DOMAIN wire[s] : wire'[s][i] = wire[s][i]
        /\ \A i \in 1..(n - 1) : i \in DOMAIN wire[s]
        /\ wire'[s][n].req = r /\ wire'[s][n].type = k
    BY <1>3, <2>2, <2>6
  <2>8. n > 1 /\ n - 1 = Len(wire[s]) /\ n - 1 \in 1..(n - 1)
    <3>1. Len(wire[s]) # 0
      BY <2>4 DEF TypeOK
    <3>2. QED
      BY <1>0, <3>1
  <2>9. wire'[s][n - 1] = e
    BY <2>4, <2>7, <2>8
  <2>10. InPlace(s, n)'
    BY <2>3, <2>5, <2>7, <2>8, <2>9 DEF InPlace
  <2>11. QED
    BY <2>7, <2>10
<1>9. QED
  BY <1>6, <1>7, <1>8, Moves DEF QuietMove, SubmitMove

(* What is in its place stays there. *)
LEMMA StaysInPlace ==
  ASSUME TypeOK, PipelineInv, OrderInv, [Next]_vars,
         NEW s \in Sessions, NEW i \in DOMAIN wire[s], InPlace(s, i),
         \A j \in DOMAIN wire[s] : wire'[s][j] = wire[s][j]
  PROVE  InPlace(s, i)'
<1> DEFINE E == [req : Requests, type : Types]
<1>1. wire[s] \in Seq(E)
  BY DEF TypeOK
<1> HIDE DEF E
<1>2. i \in Nat /\ \A j \in 1..(i - 1) : j \in DOMAIN wire[s]
  BY <1>1
<1>3. ASSUME NEW j \in DOMAIN wire[s]
      PROVE  PlaceOf(s, j)' = PlaceOf(s, j)
  <2>1. PICK k \in 1..Taken(s) : submitted[s][k] = wire[s][j].req
    BY DEF OrderInv, Ordered
  <2>2. k \in DOMAIN submitted[s]
    BY OrderTypes
  <2>3. submitted[s][k] = wire'[s][j].req
    BY <2>1
  <2>4. QED
    BY <2>1, <2>2, <2>3, PlaceIs, NextPlaceIs
<1>4. i > 1 => i - 1 \in DOMAIN wire[s]
  BY <1>2
<1>5. CASE i > 1 /\ wire[s][i-1].req = wire[s][i].req
           /\ Script[wire[s][i-1].type] = Script[wire[s][i].type] - 1
  BY <1>4, <1>5 DEF InPlace
<1>6. CASE /\ Script[wire[s][i].type] = 1
           /\ \A j \in 1..(i - 1) : PlaceOf(s, j) < PlaceOf(s, i)
  <2>1. \A j \in 1..(i - 1) : PlaceOf(s, j)' < PlaceOf(s, i)'
    BY <1>2, <1>3, <1>6
  <2>2. QED
    BY <1>6, <2>1 DEF InPlace
<1>7. QED
  BY <1>5, <1>6 DEF InPlace

(* The order of the sessions, and the last lines, in every state. *)
LEMMA OrderHolds == Spec => [](OrderInv /\ LastLineInv)
<1>1. Init => OrderInv
  BY DEF Init, OrderInv, Ordered, Taken
<1>2. Init => LastLineInv
  BY States DEF Init, LastLineInv, Answering
<1>3. TypeOK /\ PipelineInv /\ (OrderInv /\ LastLineInv) /\ [Next]_vars
        => (OrderInv /\ LastLineInv)'
  BY OrderStep, LastLineStep
<1>4. QED
  BY <1>1, <1>2, <1>3, PipelineInvariant, PTL DEF Spec

(* A client is sent the answers to its own envelopes, one after the other   *)
(* in the order it sent them, each in the order of the script with no line  *)
(* left out or repeated: for any number of clients and requests, whatever   *)
(* fails, is slow or goes away.                                             *)
THEOREM WireFollowsTheScript == Spec => []WireFollowsScript
<1> DEFINE AllInPlace == \A s \in Sessions : \A i \in DOMAIN wire[s] : InPlace(s, i)
<1>1. Init => AllInPlace
  BY DEF Init
<1>2. TypeOK /\ PipelineInv /\ OrderInv /\ LastLineInv /\ AllInPlace /\ [Next]_vars
        => AllInPlace'
  <2> SUFFICES ASSUME TypeOK, PipelineInv, OrderInv, LastLineInv, AllInPlace,
                      [Next]_vars
               PROVE  AllInPlace'
    OBVIOUS
  <2>1. ASSUME NEW s \in Sessions, NEW i \in DOMAIN wire'[s]
        PROVE  InPlace(s, i)'
    <3>1. CASE wire'[s] = wire[s]
      BY <2>1, <3>1, StaysInPlace
    <3>2. CASE wire'[s] # wire[s]
      <4> DEFINE E == [req : Requests, type : Types]
      <4>1. PICK n \in Nat :
              /\ n = Len(wire[s]) + 1
              /\ Len(wire'[s]) = n
              /\ \A j \in DOMAIN wire[s] : wire'[s][j] = wire[s][j]
              /\ InPlace(s, n)'
        BY <3>2, NextInPlace
      <4>2. wire[s] \in Seq(E) /\ wire'[s] \in Seq(E)
        BY TypeStep DEF TypeOK
      <4> HIDE DEF E
      <4>3. i \in DOMAIN wire[s] \/ i = n
        BY <2>1, <4>1, <4>2
      <4>4. QED
        BY <4>1, <4>3, StaysInPlace
    <3>3. QED
      BY <3>1, <3>2
  <2>2. QED
    BY <2>1
<1>3. OwnAnswers /\ AllInPlace => WireFollowsScript
  BY DEF WireFollowsScript, InPlace, PlaceOf
<1>4. QED
  BY <1>1, <1>2, <1>3, AnswersAreOwn, OrderHolds, PipelineInvariant, PTL DEF Spec

-----------------------------------------------------------------------------
(* Of the rows told apart, a step adds only the one of the event that the   *)
(* agent of this request publishes or fails to; whose commit stores it does *)
(* not matter.                                                              *)
LEMMA RowsAdded ==
  ASSUME TypeOK, [Next]_vars, NEW r \in Requests, NEW event \in Outcomes,
         Row(r, event)'
  PROVE  \/ Row(r, event)
         \/ /\ AgentStep(r)
            /\ agent[r] \in DOMAIN Publishes
            /\ Publishes[agent[r]].event = event
<1> USE DEF clientVars, loopVars, agentVars, sendVars
<1>1. \A p : "ChatPipelineStart" # event /\ "AgentProcessingStart" # event
  BY DEF Outcomes
<1>2. ASSUME NEW q, NEW e, Stores(q, e) \/ Refuses(q, e)
      PROVE  Row(r, event) \/ (q = r /\ e = event)
  BY <1>2 DEF Stores, Refuses, Row
<1>3. ASSUME NEW q \in Requests, AgentStep(q), ~ Row(r, event)
      PROVE  /\ q = r
             /\ agent[r] \in DOMAIN Publishes
             /\ Publishes[agent[r]].event = event
  <2>1. log' # log
    BY <1>3 DEF Row
  <2>2. \/ /\ agent[q] \in DOMAIN Publishes
           /\ \/ Stores(q, Publishes[agent[q]].event)
              \/ Refuses(q, Publishes[agent[q]].event)
        \/ Stores(q, "AgentProcessingStart")
    BY <1>3, <2>1 DEF AgentStep, AgentPublishes, AgentPublishFails, AgentResumes,
       Retrieve, CallModel, RunTools, Remember, ExtractFacts, RejectEmpty,
       NodeFails, SetUpFails
  <2>3. QED
    BY <1>1, <1>2, <1>3, <2>2
<1>4. ASSUME NEW t \in Sessions, SessionStep(t)
      PROVE  Row(r, event)
  <2>1. \/ log' = log
        \/ Stores(cur[t], "ChatPipelineStart")
        \/ Refuses(cur[t], "ChatPipelineStart")
    BY <1>4 DEF SessionStep, Receive, ReceiveRaises, Transcribe, PongSent,
       StartPipeline, StartFails, PipelineReturns, PipelineRaises
  <2>2. QED
    BY <1>1, <1>2, <2>1 DEF Row
<1>5. CASE CommitElsewhere
  BY <1>5 DEF CommitElsewhere, Row
<1>6. CASE log' = log
  BY <1>6 DEF Row
<1>7. QED
  BY <1>3, <1>4, <1>5, <1>6 DEF Next, Connect, Disconnect, StopReading,
     ResumeReading, Submit, DrainReturns, DrainRaises, SpeechStep, Speak,
     SpeakFails, vars

(* The loop starts the pipeline of a request that was sent and taken up     *)
(* last, and that has not been in the agent.                                *)
LEMMA StartsFresh ==
  ASSUME TypeOK, PipelineInv, OrderInv, FreshInv, NEW r \in Requests,
         StartPipeline(Owner[r]), cur[Owner[r]] = r
  PROVE  /\ Taken(Owner[r]) \in DOMAIN submitted[Owner[r]]
         /\ submitted[Owner[r]][Taken(Owner[r])] = r
         /\ kind[r] # "unsent"
         /\ agent[r] = "none"
<1>1. /\ Owner[r] \in Sessions /\ r # NoRequest
      /\ loop[Owner[r]] \in Waiting
  BY PipelineAssumption DEF StartPipeline, Waiting
<1>2. Taken(Owner[r]) > 0 /\ submitted[Owner[r]][Taken(Owner[r])] = r
  BY <1>1 DEF OrderInv, Ordered
<1>3. Taken(Owner[r]) \in DOMAIN submitted[Owner[r]]
  BY <1>1, <1>2, OrderTypes
<1>4. agent[r] = "none" /\ kind[r] # "unsent"
  BY <1>1, <1>2, <1>3 DEF FreshInv, OrderInv, Ordered
<1>5. QED
  BY <1>2, <1>3, <1>4

(* A request that waits after a step has waited before it or has just been  *)
(* sent.                                                                    *)
LEMMA WaitsBefore ==
  ASSUME TypeOK, PipelineInv, OrderInv, [Next]_vars, NEW s \in Sessions,
         NEW i \in DOMAIN submitted'[s],
         i > Taken(s)' \/ (i = Taken(s)' /\ loop'[s] \in Waiting)
  PROVE  \/ kind[submitted'[s][i]] = "unsent"
         \/ /\ i \in DOMAIN submitted[s] /\ submitted'[s][i] = submitted[s][i]
            /\ i > Taken(s) \/ (i = Taken(s) /\ loop[s] \in Waiting)
<1>1. /\ submitted[s] \in Seq(Requests) /\ inbox[s] \in Seq(Requests)
      /\ Taken(s) \in Nat
      /\ Len(submitted[s]) = Taken(s) + Len(inbox[s])
      /\ Len(inbox[s]) \in Nat
  BY OrderTypes
<1>2. Taken(s)' = Len(submitted'[s]) - Len(inbox'[s])
  BY DEF Taken
<1>3. CASE QuietMove(s) \/ StartMove(s) \/ AnswerMove(s)
  <2>1. /\ submitted'[s] = submitted[s] /\ Taken(s)' = Taken(s)
        /\ loop'[s] \in Waiting => loop[s] \in Waiting
    BY <1>3 DEF QuietMove, StartMove, AnswerMove, Stays, Rests, Taken, Waiting
  <2>2. QED
    BY <2>1
<1>4. CASE SubmitMove(s)
  <2>1. PICK r \in Requests :
          /\ kind[r] = "unsent"
          /\ inbox'[s] = Append(inbox[s], r)
          /\ submitted'[s] = Append(submitted[s], r)
    BY <1>4 DEF SubmitMove
  <2>2. /\ Len(submitted'[s]) = Len(submitted[s]) + 1
        /\ \A j \in DOMAIN submitted[s] : submitted'[s][j] = submitted[s][j]
        /\ submitted'[s][Len(submitted[s]) + 1] = r
        /\ \A j \in DOMAIN submitted'[s] :
             j \in DOMAIN submitted[s] \/ j = Len(submitted[s]) + 1
    BY <1>1, <2>1, AppendPieces
  <2>3. Len(inbox'[s]) = Len(inbox[s]) + 1
    BY <1>1, <2>1
  <2>4. Taken(s)' = Taken(s)
    <3>1. PICK a \in Nat : a = Len(inbox[s])
      BY <1>1
    <3>2. PICK b \in Nat : b = Taken(s)
      BY <1>1
    <3>3. Taken(s)' = ((b + a) + 1) - (a + 1)
      BY <1>1, <1>2, <2>2, <2>3, <3>1, <3>2
    <3>4. QED
      BY <3>2, <3>3
  <2>5. loop'[s] = loop[s]
    BY <1>4 DEF SubmitMove, Rests
  <2>6. QED
    BY <2>1, <2>2, <2>4, <2>5
<1>5. CASE TakeMove(s)
  <2>1. /\ submitted'[s] = submitted[s] /\ inbox[s] # <<>>
        /\ inbox'[s] = Tail(inbox[s])
    BY <1>5 DEF TakeMove
  <2>2. Len(inbox'[s]) = Len(inbox[s]) - 1
    BY <1>1, <2>1
  <2>3. Taken(s)' = Taken(s) + 1
    <3>1. PICK a \in Nat : a = Len(inbox[s])
      BY <1>1
    <3>2. PICK b \in Nat : b = Taken(s)
      BY <1>1
    <3>3. Taken(s)' = (b + a) - (a - 1)
      BY <1>1, <1>2, <2>1, <2>2, <3>1, <3>2
    <3>4. QED
      BY <3>2, <3>3
  <2>4. i > Taken(s) /\ i \in DOMAIN submitted[s]
    BY <1>1, <2>1, <2>3
  <2>5. QED
    BY <2>1, <2>4
<1>6. QED
  BY <1>3, <1>4, <1>5, Moves

(* A request comes to the agent once, when it has been taken up. *)
LEMMA FreshStep ==
  ASSUME TypeOK, PipelineInv, OrderInv, FreshInv, [Next]_vars
  PROVE  FreshInv'
<1>1. ASSUME NEW r \in Requests, agent[r] = "none", agent'[r] # "none"
      PROVE  /\ StartPipeline(Owner[r]) /\ cur[Owner[r]] = r
             /\ agent'[r] = "begin"
  <2>1. ~ AgentStep(r)
    BY <1>1, AgentMoves, States
  <2>2. QED
    BY <1>1, <2>1, AgentChanges DEF TypeOK
<1>2. ASSUME NEW r \in Requests, agent'[r] = "none"
      PROVE  agent[r] = "none"
  <2>1. SUFFICES ASSUME agent'[r] # agent[r]
                 PROVE  FALSE
    BY <1>2
  <2>2. ~ AgentStep(r)
    BY <1>2, AgentMoves, States
  <2>3. agent' = [agent EXCEPT ![r] = "begin"]
    BY <2>1, <2>2, AgentChanges
  <2>4. QED
    BY <1>2, <2>3 DEF TypeOK
<1>3. ASSUME NEW r \in Requests, kind'[r] = "unsent"
      PROVE  agent'[r] = "none"
  <2>1. kind[r] = "unsent"
    BY <1>3, KindStays
  <2>2. agent[r] = "none"
    BY <2>1 DEF FreshInv
  <2>3. QED
    BY <1>1, <2>1, <2>2, StartsFresh
<1>4. ASSUME NEW s \in Sessions, NEW i \in DOMAIN submitted'[s],
             i > Taken(s)' \/ (i = Taken(s)' /\ loop'[s] \in Waiting)
      PROVE  agent'[submitted'[s][i]] = "none"
  <2>1. OrderInv' /\ TypeOK'
    BY OrderStep, TypeStep
  <2>2. PICK x \in Requests : x = submitted'[s][i]
    BY <2>1 DEF TypeOK
  <2>3. Owner[x] = s
    BY <2>1, <2>2 DEF OrderInv, Ordered
  <2>4. \/ kind[x] = "unsent"
        \/ /\ i \in DOMAIN submitted[s] /\ x = submitted[s][i]
           /\ i > Taken(s) \/ (i = Taken(s) /\ loop[s] \in Waiting)
    BY <1>4, <2>2, WaitsBefore
  <2>5. agent[x] = "none"
    BY <2>4 DEF FreshInv
  <2>6. SUFFICES ASSUME StartPipeline(s), cur[s] = x
                 PROVE  FALSE
    BY <1>1, <2>2, <2>3, <2>5
  <2>7. /\ Taken(s) \in DOMAIN submitted[s]
        /\ submitted[s][Taken(s)] = x
        /\ kind[x] # "unsent"
    BY <2>3, <2>6, StartsFresh
  <2>8. i = Taken(s)
    BY <2>4, <2>7 DEF OrderInv, Ordered
  <2>9. Taken(s)' = Taken(s) /\ loop'[s] = "gather" /\ Taken(s) \in Nat
    <3>1. /\ UNCHANGED <<inbox, submitted>>
          /\ loop'[s] = "gather"
      BY <2>6 DEF StartPipeline, Handling, TypeOK, clientVars
    <3>2. QED
      BY <3>1, OrderTypes DEF Taken
  <2>10. QED
    BY <1>4, <2>8, <2>9 DEF Waiting
<1>5. QED
  BY <1>3, <1>4 DEF FreshInv

-----------------------------------------------------------------------------
(* An end of a reply that was not written or could not be sent, and speech  *)
(* that could not be reported as failed, stay so until the agent publishes  *)
(* the end of the reply.                                                    *)
LEMMA EndStays ==
  ASSUME TypeOK, PipelineInv, [Next]_vars, NEW r \in Requests,
         agent[r] # "completed" \/ agent'[r] # "sendEnd"
  PROVE  /\ send[r]["assistant_end"] # "drain" =>
              send'[r]["assistant_end"] = send[r]["assistant_end"]
         /\ tts[r] = "raised" => tts'[r] = "raised"
<1> USE DEF clientVars, loopVars, agentVars, sendVars
<1>1. /\ send \in [Requests -> [Types -> SendStates]]
      /\ tts \in [Requests -> TtsStates]
      /\ "assistant_end" \in Types
  BY DEF TypeOK, Types
<1>2. ASSUME NEW t, NEW q \in Requests, NEW k \in Types, Write(t, q, k),
             q # r \/ k # "assistant_end"
      PROVE  send'[r]["assistant_end"] = send[r]["assistant_end"]
  <2> DEFINE x == IF t \in registered THEN "drain" ELSE "ok"
  <2>1. send' = [send EXCEPT ![q][k] = x]
    BY <1>2 DEF Write
  <2> HIDE DEF x
  <2>2. QED
    BY <1>1, <1>2, <2>1
<1>3. ASSUME NEW t \in Sessions, SessionStep(t)
      PROVE  send'[r]["assistant_end"] = send[r]["assistant_end"] /\ tts' = tts
  <2>1. CASE Receive(t)
    <3>1. inbox[t] \in Seq(Requests) /\ inbox[t] # <<>>
      BY <2>1 DEF Receive, TypeOK
    <3>2. Head(inbox[t]) \in Requests /\ "pong" \in Types
      BY <3>1 DEF Types
    <3>3. send' = send \/ Write(t, Head(inbox[t]), "pong")
      BY <2>1 DEF Receive
    <3>4. QED
      BY <1>2, <2>1, <3>2, <3>3 DEF Receive
  <2>2. CASE StartPipeline(t)
    <3>1. cur[t] \in Requests /\ "submit_prompt" \in Types
      BY <2>2 DEF StartPipeline, PipelineInv, TypeOK, Types
    <3>2. Write(t, cur[t], "submit_prompt") /\ tts' = tts
      BY <2>2 DEF StartPipeline
    <3>3. QED
      BY <1>2, <3>1, <3>2
  <2>3. QED
    BY <1>3, <2>1, <2>2 DEF SessionStep, ReceiveRaises, Transcribe, PongSent,
       StartFails, PipelineReturns, PipelineRaises
<1>4. ASSUME NEW q \in Requests, AgentStep(q)
      PROVE  send'[r]["assistant_end"] = send[r]["assistant_end"] /\ tts'[r] = tts[r]
  <2>1. CASE AgentPublishes(q)
    <3> DEFINE k == Publishes[agent[q]].type
    <3>1. /\ agent[q] \in DOMAIN Publishes
          /\ (k = "none" /\ send' = send) \/ (k # "none" /\ Write(Owner[q], q, k))
          /\ tts' = IF Publishes[agent[q]].event = "ResponseCompleted"
                    THEN [tts EXCEPT ![q] = "start"] ELSE tts
      BY <2>1 DEF AgentPublishes
    <3>2. q = r => agent[q] # "completed"
      BY <2>1 DEF AgentPublishes, AgentGoes, Publishes, Publish, TypeOK
    <3>3. /\ q = r => Publishes[agent[q]].event # "ResponseCompleted"
          /\ q = r => k # "assistant_end"
      BY <3>1, <3>2, Tables DEF Publishes, Publish
    <3>4. k # "none" => k \in Types
      BY <3>1, Tables
    <3> HIDE DEF k
    <3>5. send'[r]["assistant_end"] = send[r]["assistant_end"]
      BY <1>2, <3>1, <3>3, <3>4
    <3>6. tts'[r] = tts[r]
      BY <1>1, <3>1, <3>3
    <3>7. QED
      BY <3>5, <3>6
  <2>2. QED
    BY <1>4, <2>1 DEF AgentStep, AgentPublishFails, AgentResumes, Retrieve,
       CallModel, RunTools, Remember, ExtractFacts, RejectEmpty, NodeFails,
       SetUpFails
<1>5. ASSUME NEW q \in Requests, NEW k \in Types,
             DrainReturns(q, k) \/ DrainRaises(q, k)
      PROVE  /\ tts' = tts
             /\ send[r]["assistant_end"] # "drain" =>
                  send'[r]["assistant_end"] = send[r]["assistant_end"]
  <2>1. PICK x \in {"ok", "failed"} : send' = [send EXCEPT ![q][k] = x]
    BY <1>5 DEF DrainReturns, DrainRaises
  <2>2. send[q][k] = "drain" /\ tts' = tts
    BY <1>5 DEF DrainReturns, DrainRaises
  <2>3. QED
    BY <1>1, <2>1, <2>2
<1>6. ASSUME NEW q \in Requests, SpeechStep(q)
      PROVE  send' = send /\ (tts[r] = "raised" => tts'[r] = "raised")
  <2>1. tts[q] # "raised" /\ send' = send /\ tts' = [tts EXCEPT ![q] = tts'[q]]
    BY <1>1, <1>6, States DEF SpeechStep, Speak, SpeakFails
  <2>2. QED
    BY <1>1, <2>1
<1>7. CASE UNCHANGED vars
  BY <1>7 DEF vars
<1>8. CASE Next
  BY <1>3, <1>4, <1>5, <1>6, <1>8 DEF Next, Connect, Disconnect, StopReading,
     ResumeReading, Submit, CommitElsewhere
<1>9. QED
  BY <1>7, <1>8

(* How the agent goes on from the publish that ends a reply, from its       *)
(* handlers and from a failure: it fails after the end of a reply only if   *)
(* that was not sent or not spoken.                                         *)
LEMMA OutcomeMoves ==
  ASSUME TypeOK, NEW r \in Requests, AgentStep(r)
  PROVE  \/ agent[r] = "completed" /\ agent'[r] \in {"sendEnd", "failing"}
         \/ agent[r] = "sendEnd" /\ agent'[r] = "done"
         \/ /\ agent[r] = "sendEnd" /\ agent'[r] = "failing"
            /\ send[r]["assistant_end"] = "failed" \/ tts[r] = "raised"
         \/ agent[r] = "failing" /\ agent'[r] \in {"done", "raised"}
         \/ agent[r] \notin Ending \union {"completed"}
<1> USE DEF Ending
<1>1. agent \in [Requests -> AgentStates]
  BY DEF TypeOK
<1>2. CASE AgentPublishes(r)
  <2>1. /\ agent[r] \in DOMAIN Publishes
        /\ agent'[r] = Publishes[agent[r]].next
    BY <1>1, <1>2 DEF AgentPublishes, AgentGoes
  <2>2. QED
    BY <2>1, Tables DEF Publishes, Publish
<1>3. CASE AgentResumes(r)
  <2>1. agent[r] \in {"sendStart", "sendChunk", "sendEnd"}
    BY <1>3, Tables DEF AgentResumes
  <2>2. agent[r] = "sendEnd" =>
          \/ agent'[r] = "done"
          \/ /\ agent'[r] = "failing"
             /\ send[r]["assistant_end"] = "failed" \/ tts[r] = "raised"
    BY <1>1, <1>3 DEF AgentResumes, AgentFails, AgentGoes, Gathers
  <2>3. QED
    BY <2>1, <2>2
<1>4. CASE AgentPublishFails(r)
  BY <1>1, <1>4, Tables DEF AgentPublishFails, AgentFails, AgentGoes
<1>5. CASE \/ Retrieve(r) \/ CallModel(r) \/ RunTools(r) \/ Remember(r)
           \/ ExtractFacts(r) \/ RejectEmpty(r) \/ NodeFails(r)
           \/ SetUpFails(r)
  BY <1>5 DEF Retrieve, CallModel, RunTools, Remember, ExtractFacts,
     RejectEmpty, NodeFails, SetUpFails
<1>6. QED
  BY <1>2, <1>3, <1>4, <1>5 DEF AgentStep

(* No step makes the store contradict itself about a request. *)
LEMMA OutcomeStep ==
  ASSUME TypeOK, PipelineInv, OrderInv, FreshInv, OutcomeInv, [Next]_vars
  PROVE  OutcomeInv'
<1> DEFINE Fine(r) ==
             /\ agent[r] \notin Ending => send[r]["assistant_end"] = "none"
             /\ Row(r, "ResponseCompleted") => agent[r] \in Ending
             /\ Row(r, "PipelineFailed") => agent[r] \in {"done", "raised"}
             /\ /\ Row(r, "ResponseCompleted")
                /\ agent[r] \in {"failing", "raised"} \/ Row(r, "PipelineFailed")
                => Failure(r)
<1> SUFFICES ASSUME NEW r \in Requests
             PROVE  Fine(r)'
  BY DEF OutcomeInv
<1>1. Fine(r)
  BY DEF OutcomeInv
<1>2. /\ Row(r, "ResponseCompleted")' =>
            Row(r, "ResponseCompleted") \/ (agent[r] = "completed" /\ AgentStep(r))
      /\ Row(r, "PipelineFailed")' =>
            Row(r, "PipelineFailed") \/ (agent[r] = "failing" /\ AgentStep(r))
  <2>1. /\ "ResponseCompleted" \in Outcomes /\ "PipelineFailed" \in Outcomes
        /\ \A p \in DOMAIN Publishes :
             /\ Publishes[p].event = "ResponseCompleted" => p = "completed"
             /\ Publishes[p].event = "PipelineFailed" => p = "failing"
    BY Tables DEF Outcomes, Publishes, Publish
  <2>2. QED
    BY <2>1, RowsAdded
<1>3. agent[r] # "completed" \/ agent'[r] # "sendEnd" =>
        /\ send[r]["assistant_end"] = "none" => send'[r]["assistant_end"] = "none"
        /\ Failure(r) => Failure(r)'
  BY EndStays DEF Failure
<1>4. CASE AgentStep(r)
  <2>1. agent[r] \notin {"none", "done", "raised"}
    BY <1>4, AgentMoves, States
  <2>2. CASE agent[r] = "completed" /\ agent'[r] \in {"sendEnd", "failing"}
    <3>1. send[r]["assistant_end"] = "none" /\ ~ Row(r, "PipelineFailed")'
      BY <1>1, <1>2, <2>2 DEF Ending
    <3>2. agent'[r] = "failing" => Failure(r)'
      BY <1>3, <2>2, <3>1 DEF Failure
    <3>3. QED
      BY <2>2, <3>1, <3>2 DEF Ending
  <2>3. CASE /\ agent[r] = "sendEnd"
             /\ \/ agent'[r] = "done"
                \/ /\ agent'[r] = "failing"
                   /\ send[r]["assistant_end"] = "failed" \/ tts[r] = "raised"
    <3>1. ~ Row(r, "PipelineFailed")'
      BY <1>1, <1>2, <2>3
    <3>2. agent'[r] = "failing" => Failure(r)'
      BY <1>3, <2>3 DEF Failure
    <3>3. QED
      BY <2>3, <3>1, <3>2 DEF Ending
  <2>4. CASE agent[r] = "failing" /\ agent'[r] \in {"done", "raised"}
    <3>1. Row(r, "ResponseCompleted")' => Failure(r)'
      BY <1>1, <1>2, <1>3, <2>4
    <3>2. QED
      BY <2>4, <3>1 DEF Ending
  <2>5. CASE agent[r] \notin Ending \union {"completed"}
    <3>1. /\ ~ Row(r, "ResponseCompleted")' /\ ~ Row(r, "PipelineFailed")'
          /\ send'[r]["assistant_end"] = "none"
      BY <1>1, <1>2, <1>3, <2>5 DEF Ending
    <3>2. QED
      BY <3>1
  <2>6. QED
    BY <1>4, <2>2, <2>3, <2>4, <2>5, OutcomeMoves
<1>5. CASE ~ AgentStep(r) /\ agent'[r] = agent[r]
  BY <1>1, <1>2, <1>3, <1>5
<1>6. CASE ~ AgentStep(r) /\ agent'[r] # agent[r]
  <2>1. agent[r] = "none" /\ agent'[r] = "begin"
    BY <1>6, AgentChanges, StartsFresh DEF TypeOK
  <2>2. /\ ~ Row(r, "ResponseCompleted")' /\ ~ Row(r, "PipelineFailed")'
        /\ send'[r]["assistant_end"] = "none"
    BY <1>1, <1>2, <1>3, <2>1 DEF Ending
  <2>3. QED
    BY <2>2
<1>7. QED
  BY <1>4, <1>5, <1>6

(* The store says of a request that it completed and that it failed only if *)
(* the end of its reply was not sent or its speech could not even be        *)
(* reported as failed, for any number of clients and requests, whichever    *)
(* commits fail and whoever's commit then stores their rows.                *)
THEOREM OneOutcomeHolds == Spec => []OneOutcome
<1> DEFINE Inv == OrderInv /\ FreshInv /\ OutcomeInv
<1>1. Init => Inv
  <2>1. Init => OrderInv
    BY DEF Init, OrderInv, Ordered, Taken
  <2>2. Init => FreshInv
    BY DEF Init, FreshInv
  <2>3. Init => OutcomeInv
    BY DEF Init, OutcomeInv, Ending, Row, Types, Outcomes
  <2>4. QED
    BY <2>1, <2>2, <2>3
<1>2. TypeOK /\ PipelineInv /\ Inv /\ [Next]_vars => Inv'
  BY OrderStep, FreshStep, OutcomeStep
<1>3. Inv => OneOutcome
  BY DEF OutcomeInv, OneOutcome, Logged, Row, Failure
<1>4. QED
  BY <1>1, <1>2, <1>3, PipelineInvariant, PTL DEF Spec

-----------------------------------------------------------------------------
(* The runtime implements ChatService.                                      *)

(* The line that is written next is one the service may say. *)
LEMMA NextLine ==
  ASSUME TypeOK, PipelineInv, OrderInv, LastLineInv, [Next]_vars,
         NEW s \in Sessions, NEW r \in Requests, NEW k \in Types,
         WritesOne(s, r, k), submitted'[s] = submitted[s]
  PROVE  LET line == [req |-> r, type |-> k] IN
         Service!Begins(s, line) \/ Service!Continues(s, line)
<1> DEFINE line == [req |-> r, type |-> k]
           sub == submitted[s]
           E == [req : Requests, type : Types]
<1>1. /\ wire'[s] # wire[s]
      /\ wire'[s][Len(wire'[s])] = line
  BY OneMoreLine
<1>2. PICK n \in Nat :
        /\ n = Len(wire[s]) + 1
        /\ Len(wire'[s]) = n
        /\ \A i \in DOMAIN wire[s] : wire'[s][i] = wire[s][i]
        /\ InPlace(s, n)'
  BY <1>1, NextInPlace
<1>3. /\ wire[s] \in Seq(E) /\ wire'[s] \in Seq(E) /\ sub \in Seq(Requests)
      /\ line.req = r /\ line.type = k
  BY TypeStep DEF TypeOK
<1> HIDE DEF line, E
<1>4. /\ DOMAIN wire[s] = 1..(n - 1) /\ DOMAIN wire'[s] = 1..n
      /\ wire'[s][n] = line
  BY <1>1, <1>2, <1>3
<1>5. ASSUME NEW i \in 1..n
      PROVE  \E p \in DOMAIN sub : /\ sub[p] = wire'[s][i].req
                                   /\ PlaceOf(s, i)' = p
  <2>1. /\ Taken(s)' \in Nat
        /\ Len(submitted'[s]) = Taken(s)' + Len(inbox'[s])
        /\ Len(inbox'[s]) \in Nat
    <3>1. TypeOK' /\ OrderInv'
      BY TypeStep, OrderStep
    <3>2. /\ submitted'[s] \in Seq(Requests) /\ inbox'[s] \in Seq(Requests)
          /\ Len(inbox'[s]) <= Len(submitted'[s])
      BY <3>1 DEF TypeOK, OrderInv, Ordered
    <3>3. Taken(s)' = Len(submitted'[s]) - Len(inbox'[s])
      BY DEF Taken
    <3>4. QED
      BY <3>2, <3>3
  <2>2. PICK p \in 1..Taken(s)' : submitted'[s][p] = wire'[s][i].req
    BY <1>4, OrderStep DEF OrderInv, Ordered
  <2>3. p \in DOMAIN sub /\ sub[p] = wire'[s][i].req
    BY <1>3, <2>1, <2>2
  <2>4. PlaceOf(s, i)' = p
    BY <2>3, NextPlaceIs
  <2>5. QED
    BY <2>3, <2>4
<1>6. CASE /\ Script[wire'[s][n].type] = 1
           /\ \A j \in 1..(n - 1) : PlaceOf(s, j)' < PlaceOf(s, n)'
  <2>1. PICK q \in DOMAIN sub : sub[q] = r /\ PlaceOf(s, n)' = q
    <3>1. n \in 1..n
      BY <1>2, <1>3
    <3>2. QED
      BY <1>3, <1>4, <1>5, <3>1
  <2>2. ASSUME NEW i \in DOMAIN wire[s]
        PROVE  Service!AskedBefore(s, wire[s][i].req, r)
    <3>1. i \in 1..(n - 1) /\ i \in 1..n
      BY <1>2, <1>4
    <3>2. PICK p \in DOMAIN sub : /\ sub[p] = wire[s][i].req
                                  /\ PlaceOf(s, i)' = p
      BY <1>2, <1>5, <3>1
    <3>3. p < q
      BY <1>6, <2>1, <3>1, <3>2
    <3>4. QED
      BY <2>1, <3>2, <3>3 DEF Service!AskedBefore
  <2>3. r \in Service!ToSet(sub)
    BY <2>1 DEF Service!ToSet
  <2>4. Service!Begins(s, line)
    BY <1>3, <1>4, <1>6, <2>2, <2>3 DEF Service!Begins
  <2>5. QED
    BY <2>4 DEF line
<1>7. CASE /\ n > 1 /\ wire'[s][n - 1].req = wire'[s][n].req
           /\ Script[wire'[s][n - 1].type] = Script[wire'[s][n].type] - 1
  <2>1. n - 1 \in DOMAIN wire[s] /\ n - 1 = Len(wire[s]) /\ wire[s] # <<>>
    BY <1>2, <1>3, <1>4, <1>7
  <2>2. Service!Last(wire[s]) = wire'[s][n - 1]
    BY <1>2, <2>1 DEF Service!Last
  <2>3. wire'[s][n - 1] \in E
    BY <1>2, <1>3, <2>1
  <2>4. Script[wire'[s][n - 1].type] \in Nat /\ Script[k] \in Nat
    <3>1. \A t \in Types : Script[t] \in Nat
      BY DEF Types, Script
    <3>2. QED
      BY <2>3, <3>1 DEF E
  <2>5. Script[k] = Script[wire'[s][n - 1].type] + 1
    BY <1>3, <1>4, <1>7, <2>4
  <2>6. Service!Continues(s, line)
    BY <1>3, <1>4, <1>7, <2>1, <2>2, <2>5 DEF Service!Continues
  <2>7. QED
    BY <2>6 DEF line
<1>8. QED
  BY <1>2, <1>6, <1>7 DEF InPlace

View == [s \in Sessions |-> InService(loop[s])]

Serving == LoopStates \ {"none", "ended"}

(* What the service sees of a loop that moves. *)
LEMMA ViewMoves ==
  ASSUME TypeOK, NEW s \in Sessions, NEW x \in LoopStates,
         loop' = [loop EXCEPT ![s] = x]
  PROVE  /\ View' = [View EXCEPT ![s] = InService(x)]
         /\ View[s] = InService(loop[s])
         /\ loop[s] \in Serving /\ x \in Serving => View' = View
<1>1. DOMAIN loop = Sessions /\ loop[s] \in LoopStates
  BY DEF TypeOK
<1>2. /\ View' = [t \in Sessions |-> InService(loop'[t])]
      /\ View = [t \in Sessions |-> InService(loop[t])]
  BY DEF View
<1>3. \A t \in Sessions : loop'[t] = IF t = s THEN x ELSE loop[t]
  BY <1>1
<1>4. \A y \in Serving : InService(y) = "open"
  BY DEF Serving, InService, LoopStates
<1>5. View' = [View EXCEPT ![s] = InService(x)]
  BY <1>2, <1>3
<1>6. ASSUME loop[s] \in Serving, x \in Serving
      PROVE  View' = View
  BY <1>2, <1>3, <1>4, <1>6
<1>7. QED
  BY <1>2, <1>5, <1>6

(* What the service does not see. *)
LEMMA Unseen ==
  ASSUME UNCHANGED <<submitted, wire, loop>>
  PROVE  UNCHANGED Service!vars
BY DEF Service!vars

(* A write is a line that the service says, or nothing. *)
LEMMA SayStep ==
  ASSUME TypeOK, PipelineInv, OrderInv, LastLineInv, [Next]_vars,
         NEW s \in Sessions, NEW r \in Requests, NEW k \in Types,
         Owner[r] = s, Write(s, r, k), UNCHANGED submitted, View' = View
  PROVE  [Service!Next]_(Service!vars)
<1> DEFINE line == [req |-> r, type |-> k]
<1>1. CASE wire' = wire
  BY <1>1 DEF Service!vars, View
<1>2. CASE wire' # wire
  <2>1. /\ s \in registered
        /\ wire' = [wire EXCEPT ![s] = Append(@, line)]
    BY <1>2 DEF Write
  <2>2. DOMAIN wire = Sessions
    BY DEF TypeOK
  <2> HIDE DEF line
  <2>3. wire'[s] = Append(wire[s], line)
    BY <2>1, <2>2
  <2>4. Service!Begins(s, line) \/ Service!Continues(s, line)
    <3>1. WritesOne(s, r, k)
      BY <2>3 DEF WritesOne, line
    <3>2. QED
      BY <3>1, NextLine DEF line
  <2>5. View[s] = "open"
    <3>1. loop[s] \notin {"none", "ended"}
      BY <2>1 DEF PipelineInv
    <3>2. QED
      BY <3>1 DEF View, InService
  <2>6. Service!Say(s, line)
    BY <2>1, <2>4, <2>5 DEF Service!Say, View
  <2>7. k \in DOMAIN Script
    BY DEF Types, Script
  <2>8. QED
    BY <2>6, <2>7 DEF Service!Next, line
<1>3. QED
  BY <1>1, <1>2

(* A loop that ends closes the session. *)
LEMMA CloseStep ==
  ASSUME TypeOK, NEW s \in Sessions, loop[s] \in Serving, EndSession(s),
         UNCHANGED <<submitted, wire>>
  PROVE  Service!Next
<1>1. loop' = [loop EXCEPT ![s] = "ended"] /\ "ended" \in LoopStates
  BY DEF EndSession, LoopStates
<1>2. /\ View' = [View EXCEPT ![s] = InService("ended")]
      /\ View[s] = InService(loop[s])
  BY <1>1, ViewMoves
<1>3. InService("ended") = "over" /\ InService(loop[s]) = "open"
  BY DEF InService, Serving
<1>4. Service!Close(s)
  BY <1>2, <1>3 DEF Service!Close, View
<1>5. QED
  BY <1>4 DEF Service!Next

(* What a session's loop does is one step of the service, or none. *)
LEMMA ServiceLoop ==
  ASSUME TypeOK, PipelineInv, OrderInv, LastLineInv, [Next]_vars,
         NEW s \in Sessions, SessionStep(s)
  PROVE  [Service!Next]_(Service!vars)
<1> USE DEF clientVars, loopVars, agentVars, sendVars
<1>1. loop[s] \in Serving
  BY LoopMoves DEF TypeOK, Serving
<1>2. UNCHANGED submitted
  BY DEF SessionStep, Receive, ReceiveRaises, Transcribe, PongSent,
     StartPipeline, StartFails, PipelineReturns, PipelineRaises
<1>3. ASSUME EndSession(s), UNCHANGED wire
      PROVE  [Service!Next]_(Service!vars)
  BY <1>1, <1>2, <1>3, CloseStep
<1>4. ASSUME NEW r, NEW x \in {"receive", "store", "transcribe", "pong", "gather"},
             Handling(s, r, x)
      PROVE  View' = View
  <2>1. x \in Serving /\ x \in LoopStates
    BY DEF Serving, LoopStates
  <2>2. loop' = [loop EXCEPT ![s] = x]
    BY <1>4 DEF Handling
  <2>3. QED
    BY <1>1, <2>1, <2>2, ViewMoves
<1>5. ASSUME NEW r, NEW x \in {"receive", "store", "transcribe", "pong", "gather"},
             Handling(s, r, x), UNCHANGED wire
      PROVE  [Service!Next]_(Service!vars)
  <2>1. View' = View
    BY <1>4, <1>5
  <2>2. QED
    BY <1>2, <1>5, <2>1 DEF Service!vars, View
<1>6. CASE Receive(s)
  <2> DEFINE r == Head(inbox[s])
  <2>1. r \in Requests /\ Owner[r] = s
    <3>1. inbox[s] \in Seq(Requests) /\ inbox[s] # <<>>
      BY <1>6 DEF Receive, TypeOK
    <3>2. \A i \in DOMAIN inbox[s] : Owner[inbox[s][i]] = s
      BY DEF PipelineInv
    <3>3. QED
      BY <3>1, <3>2, TailOwned
  <2> HIDE DEF r
  <2>2. \/ Handling(s, r, "store") /\ UNCHANGED wire
        \/ Handling(s, r, "transcribe") /\ UNCHANGED wire
        \/ Handling(s, r, "pong") /\ Write(s, r, "pong")
        \/ UNCHANGED <<loop, wire>>
        \/ EndSession(s) /\ UNCHANGED wire
    BY <1>6 DEF Receive, r
  <2>3. "pong" \in Types
    BY DEF Types
  <2>4. CASE Handling(s, r, "pong") /\ Write(s, r, "pong")
    <3>1. View' = View
      BY <1>4, <2>4
    <3>2. QED
      BY <1>2, <2>1, <2>3, <2>4, <3>1, SayStep
  <2>5. CASE UNCHANGED <<loop, wire>>
    BY <1>2, <2>5, Unseen
  <2>6. QED
    BY <1>3, <1>5, <2>2, <2>4, <2>5
<1>7. CASE StartPipeline(s)
  <2>1. cur[s] \in Requests /\ Owner[cur[s]] = s /\ "submit_prompt" \in Types
    BY <1>7 DEF StartPipeline, PipelineInv, TypeOK, Types
  <2>2. Write(s, cur[s], "submit_prompt") /\ Handling(s, cur[s], "gather")
    BY <1>7 DEF StartPipeline
  <2>3. View' = View
    BY <1>4, <2>2
  <2>4. QED
    BY <1>2, <2>1, <2>2, <2>3, SayStep
<1>8. CASE ReceiveRaises(s) \/ StartFails(s) \/ PipelineRaises(s)
  BY <1>3, <1>8 DEF ReceiveRaises, StartFails, PipelineRaises
<1>9. CASE Transcribe(s) \/ PongSent(s) \/ PipelineReturns(s)
  <2>1. /\ UNCHANGED wire
        /\ \/ Handling(s, cur[s], "store")
           \/ Handling(s, NoRequest, "receive")
           \/ EndSession(s)
    BY <1>9 DEF Transcribe, PongSent, PipelineReturns
  <2>2. QED
    BY <1>3, <1>5, <2>1
<1>10. QED
  BY <1>6, <1>7, <1>8, <1>9 DEF SessionStep

(* Every step of the runtime is one of the service, or none. *)
LEMMA ServiceStep ==
  TypeOK /\ PipelineInv /\ OrderInv /\ LastLineInv /\ [Next]_vars
    => [Service!Next]_(Service!vars)
<1> SUFFICES ASSUME TypeOK, PipelineInv, OrderInv, LastLineInv, [Next]_vars
             PROVE  [Service!Next]_(Service!vars)
  OBVIOUS
<1> USE DEF clientVars, loopVars, agentVars, sendVars
<1>1. ASSUME NEW s \in Sessions, Connect(s)
      PROVE  Service!Next
  <2>1. loop[s] = "none" /\ loop' = [loop EXCEPT ![s] = "receive"]
    BY <1>1 DEF Connect, PipelineInv
  <2>2. "receive" \in LoopStates
    BY DEF LoopStates
  <2>3. /\ View' = [View EXCEPT ![s] = InService("receive")]
        /\ View[s] = InService("none")
    BY <2>1, <2>2, ViewMoves
  <2>4. InService("receive") = "open" /\ InService("none") = "new"
    BY DEF InService
  <2>5. UNCHANGED <<submitted, wire>>
    BY <1>1 DEF Connect
  <2>6. Service!Open(s)
    BY <2>3, <2>4, <2>5 DEF Service!Open, View
  <2>7. QED
    BY <2>6 DEF Service!Next
<1>2. ASSUME NEW r \in Requests, NEW k \in KindsOf[r], Submit(r, k)
      PROVE  Service!Next
  <2>1. /\ kind[r] = "unsent"
        /\ submitted' = [submitted EXCEPT ![Owner[r]] = Append(@, r)]
        /\ UNCHANGED <<loop, wire>>
    BY <1>2 DEF Submit
  <2>2. r \notin Service!ToSet(submitted[Owner[r]])
    <3>1. Owner[r] \in Sessions
      BY PipelineAssumption
    <3>2. QED
      BY <2>1, <3>1 DEF OrderInv, Ordered, Service!ToSet
  <2>3. Service!Ask(r)
    BY <2>1, <2>2 DEF Service!Ask
  <2>4. QED
    BY <2>3 DEF Service!Next
<1>3. ASSUME NEW r \in Requests, AgentStep(r)
      PROVE  [Service!Next]_(Service!vars)
  <2>1. CASE AgentPublishes(r)
    <3> DEFINE k == Publishes[agent[r]].type
    <3>1. /\ UNCHANGED <<submitted, loop>>
          /\ agent[r] \in DOMAIN Publishes
          /\ \/ k = "none" /\ UNCHANGED wire
             \/ k # "none" /\ Write(Owner[r], r, k)
      BY <2>1 DEF AgentPublishes
    <3>2. View' = View
      BY <3>1 DEF View
    <3>3. CASE k # "none" /\ Write(Owner[r], r, k)
      <4>1. k \in Types /\ Owner[r] \in Sessions
        BY <3>1, <3>3, Tables, PipelineAssumption
      <4>2. QED
        BY <3>1, <3>2, <3>3, <4>1, SayStep
    <3>4. QED
      BY <3>1, <3>3, Unseen
  <2>2. CASE ~ AgentPublishes(r)
    <3>1. UNCHANGED <<submitted, wire, loop>>
      BY <1>3, <2>2 DEF AgentStep, AgentPublishFails, AgentResumes, Retrieve,
         CallModel, RunTools, Remember, ExtractFacts, RejectEmpty, NodeFails,
         SetUpFails
    <3>2. QED
      BY <3>1, Unseen
  <2>3. QED
    BY <2>1, <2>2
<1>4. ASSUME \/ \E s \in Sessions : Disconnect(s) \/ StopReading(s)
                                      \/ ResumeReading(s)
             \/ \E r \in Requests :
                  \/ \E k \in Types : DrainReturns(r, k) \/ DrainRaises(r, k)
                  \/ SpeechStep(r)
             \/ CommitElsewhere
             \/ UNCHANGED vars
      PROVE  UNCHANGED Service!vars
  <2>1. UNCHANGED <<submitted, wire, loop>>
    BY <1>4 DEF Disconnect, StopReading, ResumeReading, DrainReturns,
       DrainRaises, SpeechStep, Speak, SpeakFails, CommitElsewhere, vars
  <2>2. QED
    BY <2>1, Unseen
<1>5. QED
  BY <1>1, <1>2, <1>3, <1>4, ServiceLoop DEF Next

(* The socket keeps what the service promises: for any number of clients    *)
(* and requests, whatever fails, is slow or goes away, a step of the        *)
(* runtime writes to a client at most the next line of the replies to its   *)
(* own envelopes, and nothing to one whose session is over.                 *)
THEOREM ServiceRefinement == Spec => ImplementsService
<1>1. Init => Service!Init
  BY DEF Init, Service!Init, InService
<1>2. QED
  BY <1>1, ServiceStep, PipelineInvariant, OrderHolds, PTL
  DEF Spec, ImplementsService, Service!Spec
=============================================================================
