---------------------------- MODULE ChatPipeline ----------------------------
(***************************************************************************)
(* A request's way through the runtime of Orion: the session loop of the   *)
(* IPC bridge (transport/bridge.py, session.py, server.py), the agent      *)
(* service and its graph (services/agent.py, agent/graph.py and nodes),    *)
(* speech synthesis (services/text_to_speech.py) and the publisher that    *)
(* turns events into envelopes for the client (services/ipc_publisher.py). *)
(*                                                                         *)
(* One step is what one task does between two awaits.  EventBus models     *)
(* publish itself; here a publish is the step at which the store answers   *)
(* and the handlers run up to their first await (the tasks of a gather are *)
(* started in order, so the echo of a prompt is written before the agent   *)
(* resumes), and the step at which the last awaited handler is done or the *)
(* first one has raised.  Logging never awaits and is left out, as are the *)
(* texts; memory and tools are an outcome (MemorySession and MCPManager    *)
(* have what happens inside).                                              *)
(***************************************************************************)
EXTENDS Integers, Sequences, SequencesExt

CONSTANTS
  Sessions,        \* client connections; each gets one ClientSession
  Requests,        \* the envelopes clients may send
  Owner,           \* the session each is sent on
  NoRequest,       \* what a session handles when it handles nothing
  KindsOf,         \* what each of them may be, of AllKinds
  RecursionLimit   \* bound of the graph's node executions (LangGraph's)

(* prompt: submit_prompt.  blank: submit_prompt with an empty text.  voice: *)
(* voice_end.  ping.  note: voice_start or voice_chunk, which do nothing.   *)
(* bad: a type the bridge does not support, an undecodable line, or an      *)
(* invalid payload.                                                         *)
AllKinds == {"prompt", "blank", "voice", "ping", "note", "bad"}

ASSUME PipelineAssumption ==
  /\ Owner \in [Requests -> Sessions]
  /\ NoRequest \notin Requests
  /\ KindsOf \in [Requests -> SUBSET AllKinds]
  /\ RecursionLimit \in Nat \ {0}

VARIABLES
  conn,        \* the transport of every session
  reading,     \* whether the client reads what it is sent
  inbox,       \* envelopes received and not yet read by the session loop
  submitted,   \* envelopes sent so far, in order (history)
  kind,        \* what each request is
  registered,  \* IPCBridge._sessions
  loop,        \* where the session's serve loop is
  cur,         \* the request it is handling
  agent,       \* where AgentService.handle is for a request
  steps,       \* nodes its graph has executed
  tts,         \* where TTSService.handle is
  send,        \* the publisher's (and pong's) send of each envelope type
  log,         \* the rows of its outcome in the store's database
  episodes,    \* requests whose episode is in vector memory
  wire         \* the envelopes written to each client, in order

clientVars == <<reading, submitted, kind>>
loopVars == <<inbox, registered, loop, cur>>
agentVars == <<agent, steps, tts, log, episodes>>
sendVars == <<conn, send, wire>>
vars == <<clientVars, loopVars, agentVars, sendVars>>

ConnStates == {"none", "open", "eof", "lost", "closed"}
LoopStates == {"none", "receive", "transcribe", "store", "gather", "pong",
               "ended"}
SendStates == {"none", "drain", "ok", "failed"}
TtsStates == {"none", "start", "synthesize", "speak", "failing", "done",
              "raised"}
Types == {"submit_prompt", "assistant_start", "assistant_chunk",
          "assistant_end", "pong"}

(* The publishes of the agent's task: the event each stores, the envelope   *)
(* the publisher sends for it (none for most), and where the agent goes on. *)
Publish(event, type, next) == [event |-> event, type |-> type, next |-> next]

Publishes ==
  [begin     |-> Publish("AgentProcessingStart", "none", "retrieve"),
   prompt    |-> Publish("PromptBuilt", "none", "llm"),
   started   |-> Publish("ResponseStarted", "assistant_start", "sendStart"),
   chunk     |-> Publish("ResponseChunk", "assistant_chunk", "sendChunk"),
   completed |-> Publish("ResponseCompleted", "assistant_end", "sendEnd"),
   failing   |-> Publish("PipelineFailed", "none", "done")]

(* The states in which the agent awaits the handlers of a publish.          *)
Gathers ==
  [sendStart |-> [type |-> "assistant_start", next |-> "chunk"],
   sendChunk |-> [type |-> "assistant_chunk", next |-> "completed"],
   sendEnd   |-> [type |-> "assistant_end", next |-> "done"]]

Running == DOMAIN Publishes \union DOMAIN Gathers
             \union {"retrieve", "llm", "tools", "remember", "extract", "empty"}
AgentStates == Running \union {"none", "done", "raised"}

(* The events that say how a request ended: of the rows in the store only   *)
(* these are told apart.                                                    *)
Outcomes == {"ResponseCompleted", "PipelineFailed"}

(* A row is inserted in the transaction that the store's one connection has *)
(* open, and stored when that is committed.                                 *)
RowStates == {"absent", "pending", "stored"}

Logged(r, event) == log[r][event] = "stored"

Init ==
  /\ conn = [s \in Sessions |-> "none"]
  /\ reading = [s \in Sessions |-> TRUE]
  /\ inbox = [s \in Sessions |-> <<>>]
  /\ submitted = [s \in Sessions |-> <<>>]
  /\ kind = [r \in Requests |-> "unsent"]
  /\ registered = {}
  /\ loop = [s \in Sessions |-> "none"]
  /\ cur = [s \in Sessions |-> NoRequest]
  /\ agent = [r \in Requests |-> "none"]
  /\ steps = [r \in Requests |-> 0]
  /\ tts = [r \in Requests |-> "none"]
  /\ send = [r \in Requests |-> [k \in Types |-> "none"]]
  /\ log = [r \in Requests |-> [e \in Outcomes |-> "absent"]]
  /\ episodes = {}
  /\ wire = [s \in Sessions |-> <<>>]

-----------------------------------------------------------------------------
(* SQLiteEventStore.append.                                                 *)

(* The commit of one event stores every row that is waiting. *)
Stores(r, event) ==
  log' = [q \in Requests |-> [e \in Outcomes |->
            IF (q = r /\ e = event) \/ log[q][e] # "absent"
            THEN "stored" ELSE "absent"]]

(* The insert is refused, or the commit: the row then stays for the next.   *)
Refuses(r, event) ==
  \/ UNCHANGED log
  \/ log' = [q \in Requests |-> [e \in Outcomes |->
               IF q = r /\ e = event /\ log[q][e] = "absent"
               THEN "pending" ELSE log[q][e]]]

(* The events of memory, MCP and speech are committed on the same           *)
(* connection, also by the tasks that a failed recall leaves behind.        *)
CommitElsewhere ==
  /\ \E r \in Requests : agent[r] # "none"
  /\ \E r \in Requests, e \in Outcomes : log[r][e] = "pending"
  /\ log' = [r \in Requests |-> [e \in Outcomes |->
               IF log[r][e] # "absent" THEN "stored" ELSE "absent"]]
  /\ UNCHANGED <<clientVars, loopVars, sendVars, agent, steps, tts, episodes>>

-----------------------------------------------------------------------------
(* The client's side of the connection.                                     *)

(* The server accepts and the serve loop registers the session. *)
Connect(s) ==
  /\ conn[s] = "none"
  /\ conn' = [conn EXCEPT ![s] = "open"]
  /\ registered' = registered \union {s}
  /\ loop' = [loop EXCEPT ![s] = "receive"]
  /\ UNCHANGED <<clientVars, agentVars, inbox, cur, send, wire>>

Submit(r, k) ==
  LET s == Owner[r] IN
  /\ conn[s] = "open"
  /\ kind[r] = "unsent"
  /\ kind' = [kind EXCEPT ![r] = k]
  /\ inbox' = [inbox EXCEPT ![s] = Append(@, r)]
  /\ submitted' = [submitted EXCEPT ![s] = Append(@, r)]
  /\ UNCHANGED <<agentVars, sendVars, reading, registered, loop, cur>>

(* The client goes away: either the lines it sent can still be read and the *)
(* first write finds out, or the transport is lost at once.                 *)
Disconnect(s) ==
  /\ conn[s] = "open"
  /\ \E c \in {"eof", "lost"} : conn' = [conn EXCEPT ![s] = c]
  /\ UNCHANGED <<clientVars, loopVars, agentVars, send, wire>>

StopReading(s) ==
  /\ conn[s] = "open"
  /\ reading[s]
  /\ reading' = [reading EXCEPT ![s] = FALSE]
  /\ UNCHANGED <<loopVars, agentVars, sendVars, submitted, kind>>

ResumeReading(s) ==
  /\ ~ reading[s]
  /\ reading' = [reading EXCEPT ![s] = TRUE]
  /\ UNCHANGED <<loopVars, agentVars, sendVars, submitted, kind>>

-----------------------------------------------------------------------------
(* Sending an envelope.                                                     *)

(* Variant: the publisher writes to the session it was given, registered or *)
(* not.                                                                     *)
WriteUnregistered(s, r, k) ==
  /\ send' = [send EXCEPT ![r][k] = "drain"]
  /\ wire' = [wire EXCEPT ![s] = Append(@, [req |-> r, type |-> k])]
  /\ conn' = IF conn[s] = "eof" THEN [conn EXCEPT ![s] = "lost"] ELSE conn

(* IPCBridge.send and ClientSession.send up to drain: nothing for a session *)
(* that is not registered; a write to a client that is gone loses the       *)
(* transport.                                                               *)
Write(s, r, k) ==
  /\ send' = [send EXCEPT ![r][k] = IF s \in registered THEN "drain" ELSE "ok"]
  /\ wire' = IF s \in registered /\ conn[s] = "open"
             THEN [wire EXCEPT ![s] = Append(@, [req |-> r, type |-> k])]
             ELSE wire
  /\ conn' = IF s \in registered /\ conn[s] = "eof"
             THEN [conn EXCEPT ![s] = "lost"]
             ELSE conn

(* Variant: one drain waits for the clients of all sessions. *)
DrainReturnsForAll(r, k) ==
  /\ send[r][k] = "drain"
  /\ conn[Owner[r]] # "lost"
  /\ \A s \in Sessions : reading[s]
  /\ send' = [send EXCEPT ![r][k] = "ok"]
  /\ UNCHANGED <<clientVars, loopVars, agentVars, conn, wire>>

(* The transport has room again, or never was short of it. *)
DrainReturns(r, k) ==
  /\ send[r][k] = "drain"
  /\ conn[Owner[r]] # "lost"
  /\ send' = [send EXCEPT ![r][k] = "ok"]
  /\ UNCHANGED <<clientVars, loopVars, agentVars, conn, wire>>

(* The connection is lost, or is found to be while data is waiting. *)
DrainRaises(r, k) ==
  /\ send[r][k] = "drain"
  /\ conn[Owner[r]] \in {"eof", "lost", "closed"}
  /\ send' = [send EXCEPT ![r][k] = "failed"]
  /\ conn' = [conn EXCEPT ![Owner[r]] = IF @ = "eof" THEN "lost" ELSE @]
  /\ UNCHANGED <<clientVars, loopVars, agentVars, wire>>

-----------------------------------------------------------------------------
(* IPCBridge.serve: receive one envelope, handle it to the end, and again.  *)

(* Any exception ends the loop: the session is unregistered and closed.     *)
EndSession(s) ==
  /\ registered' = registered \ {s}
  /\ loop' = [loop EXCEPT ![s] = "ended"]
  /\ cur' = [cur EXCEPT ![s] = NoRequest]
  /\ conn' = [conn EXCEPT ![s] = IF @ = "lost" THEN "lost" ELSE "closed"]

Handling(s, r, state) ==
  /\ loop' = [loop EXCEPT ![s] = state]
  /\ cur' = [cur EXCEPT ![s] = r]
  /\ UNCHANGED registered

Receive(s) ==
  LET r == Head(inbox[s]) IN
  /\ loop[s] = "receive"
  /\ conn[s] \in {"open", "eof"}
  /\ inbox[s] # <<>>
  /\ inbox' = [inbox EXCEPT ![s] = Tail(@)]
  /\ \/ /\ kind[r] \in {"prompt", "blank"}
        /\ Handling(s, r, "store")
        /\ UNCHANGED sendVars
     \/ /\ kind[r] = "voice"
        /\ Handling(s, r, "transcribe")
        /\ UNCHANGED sendVars
     \/ /\ kind[r] = "ping"
        /\ Write(s, r, "pong")
        /\ Handling(s, r, "pong")
     \/ /\ kind[r] = "note"
        /\ UNCHANGED <<sendVars, registered, loop, cur>>
     \/ /\ kind[r] = "bad"
        /\ EndSession(s)
        /\ UNCHANGED <<send, wire>>
  /\ UNCHANGED <<clientVars, agentVars>>

(* Variant: the end of the stream is taken for an empty line. *)
ReceiveIgnoresEof(s) ==
  /\ loop[s] = "receive"
  /\ conn[s] = "lost"
  /\ EndSession(s)
  /\ UNCHANGED <<clientVars, agentVars, inbox, send, wire>>

ReceiveRaises(s) ==
  /\ loop[s] = "receive"
  /\ conn[s] = "lost" \/ (conn[s] = "eof" /\ inbox[s] = <<>>)
  /\ EndSession(s)
  /\ UNCHANGED <<clientVars, agentVars, inbox, send, wire>>

(* The transcriber answers: with a prompt, with silence or noise, or with   *)
(* an error, which nothing catches.                                         *)
Transcribe(s) ==
  /\ loop[s] = "transcribe"
  /\ \/ Handling(s, cur[s], "store") /\ UNCHANGED conn
     \/ Handling(s, NoRequest, "receive") /\ UNCHANGED conn
     \/ EndSession(s)
  /\ UNCHANGED <<clientVars, agentVars, inbox, send, wire>>

PongSent(s) ==
  /\ loop[s] = "pong"
  /\ \/ send[cur[s]]["pong"] = "ok" /\ Handling(s, NoRequest, "receive")
                                    /\ UNCHANGED conn
     \/ send[cur[s]]["pong"] = "failed" /\ EndSession(s)
  /\ UNCHANGED <<clientVars, agentVars, inbox, send, wire>>

(* Variant: the loop does not await the pipeline it starts. *)
StartDetached(s) ==
  LET r == cur[s] IN
  /\ loop[s] = "store"
  /\ Stores(r, "ChatPipelineStart")
  /\ agent' = [agent EXCEPT ![r] = "begin"]
  /\ steps' = [steps EXCEPT ![r] = 0]
  /\ Write(s, r, "submit_prompt")
  /\ Handling(s, NoRequest, "receive")
  /\ UNCHANGED <<clientVars, inbox, tts, episodes>>

(* ChatPipelineStart is stored; the agent's task starts, with a graph of    *)
(* its own, and the publisher echoes the prompt to the client.              *)
StartPipeline(s) ==
  LET r == cur[s] IN
  /\ loop[s] = "store"
  /\ Stores(r, "ChatPipelineStart")
  /\ agent' = [agent EXCEPT ![r] = "begin"]
  /\ steps' = [steps EXCEPT ![r] = 0]
  /\ Write(s, r, "submit_prompt")
  /\ Handling(s, r, "gather")
  /\ UNCHANGED <<clientVars, inbox, tts, episodes>>

StartFails(s) ==
  /\ loop[s] = "store"
  /\ Refuses(cur[s], "ChatPipelineStart")
  /\ EndSession(s)
  /\ UNCHANGED <<clientVars, agent, steps, tts, episodes, inbox, send, wire>>

(* Variant: a pipeline that ended without speech is still waited for. *)
PipelineReturnsSpoken(s) ==
  /\ loop[s] = "gather"
  /\ agent[cur[s]] = "done"
  /\ tts[cur[s]] = "done"
  /\ send[cur[s]]["submit_prompt"] = "ok"
  /\ Handling(s, NoRequest, "receive")
  /\ UNCHANGED <<clientVars, agentVars, sendVars, inbox>>

(* publish returns when the agent and the echo are both done ...            *)
PipelineReturns(s) ==
  /\ loop[s] = "gather"
  /\ agent[cur[s]] = "done"
  /\ send[cur[s]]["submit_prompt"] = "ok"
  /\ Handling(s, NoRequest, "receive")
  /\ UNCHANGED <<clientVars, agentVars, sendVars, inbox>>

(* ... and raises as soon as one of them does, the other running on.        *)
PipelineRaises(s) ==
  /\ loop[s] = "gather"
  /\ agent[cur[s]] = "raised" \/ send[cur[s]]["submit_prompt"] = "failed"
  /\ EndSession(s)
  /\ UNCHANGED <<clientVars, agentVars, inbox, send, wire>>

-----------------------------------------------------------------------------
(* AgentService.handle, from the handler of ChatPipelineStart on.           *)

AgentGoes(r, state) == agent' = [agent EXCEPT ![r] = state]

(* A publish of the agent is stored and its handlers start.  Only an        *)
(* envelope has one that awaits, and ResponseCompleted starts the speech    *)
(* synthesis as well.                                                       *)
AgentPublishes(r) ==
  LET p == Publishes[agent[r]] IN
  /\ agent[r] \in DOMAIN Publishes
  /\ Stores(r, p.event)
  /\ AgentGoes(r, p.next)
  /\ IF p.type = "none" THEN UNCHANGED sendVars ELSE Write(Owner[r], r, p.type)
  /\ tts' = IF p.event = "ResponseCompleted"
            THEN [tts EXCEPT ![r] = "start"] ELSE tts
  /\ UNCHANGED <<clientVars, loopVars, steps, episodes>>

(* What fails inside the try ends in the publish of PipelineFailed; the     *)
(* first publish, what is set up before the try, and that publish itself    *)
(* are outside it.                                                          *)
AgentFails(r) ==
  AgentGoes(r, IF agent[r] \in {"begin", "failing"} THEN "raised" ELSE "failing")

(* The store refuses an event. *)
AgentPublishFails(r) ==
  /\ agent[r] \in DOMAIN Publishes
  /\ Refuses(r, Publishes[agent[r]].event)
  /\ AgentFails(r)
  /\ UNCHANGED <<clientVars, loopVars, sendVars, steps, tts, episodes>>

(* What is set up between the first publish and the try raises. *)
SetUpFails(r) ==
  /\ agent[r] = "begin"
  /\ Stores(r, "AgentProcessingStart")
  /\ AgentFails(r)
  /\ UNCHANGED <<clientVars, loopVars, sendVars, steps, tts, episodes>>

(* Variant: the agent does not wait for slow speech synthesis. *)
AgentTimesOut(r) ==
  LET g == Gathers[agent[r]] IN
  /\ agent[r] \in DOMAIN Gathers
  /\ \/ /\ send[r][g.type] = "ok"
        /\ tts[r] \in {"none", "done"}
        /\ AgentGoes(r, g.next)
     \/ /\ send[r][g.type] = "failed" \/ tts[r] \notin {"none", "done"}
        /\ AgentFails(r)
  /\ UNCHANGED <<clientVars, loopVars, sendVars, steps, tts, log, episodes>>

(* The handlers of a publish are done, or one of them raised. *)
AgentResumes(r) ==
  LET g == Gathers[agent[r]] IN
  /\ agent[r] \in DOMAIN Gathers
  /\ \/ /\ send[r][g.type] = "ok"
        /\ tts[r] \in {"none", "done"}
        /\ AgentGoes(r, g.next)
     \/ /\ send[r][g.type] = "failed" \/ tts[r] = "raised"
        /\ AgentFails(r)
  /\ UNCHANGED <<clientVars, loopVars, sendVars, steps, tts, log, episodes>>

(* Variant: nothing bounds the rounds of the graph. *)
AfterNodeUnbounded(r, next) ==
  /\ steps' = [steps EXCEPT ![r] = @ + 1]
  /\ AgentGoes(r, next)

(* A node of the graph is done.  LangGraph raises instead of starting one   *)
(* more node than its limit.                                                *)
AfterNode(r, next) ==
  /\ steps' = [steps EXCEPT ![r] = @ + 1]
  /\ AgentGoes(r, IF steps[r] + 1 = RecursionLimit THEN "failing" ELSE next)

Retrieve(r) ==
  /\ agent[r] = "retrieve"
  /\ AfterNode(r, "prompt")
  /\ UNCHANGED <<clientVars, loopVars, sendVars, tts, log, episodes>>

(* The model wants tools, answers, or answers with nothing. *)
CallModel(r) ==
  /\ agent[r] = "llm"
  /\ \E next \in {"tools", "remember", "empty"} : AfterNode(r, next)
  /\ UNCHANGED <<clientVars, loopVars, sendVars, tts, log, episodes>>

RunTools(r) ==
  /\ agent[r] = "tools"
  /\ AfterNode(r, "prompt")
  /\ UNCHANGED <<clientVars, loopVars, sendVars, tts, log, episodes>>

(* Variant: an error of the memory is swallowed. *)
RememberQuietly(r) ==
  /\ agent[r] = "remember"
  /\ episodes' \in {episodes, episodes \union {r}}
  /\ AgentGoes(r, "extract")
  /\ UNCHANGED <<clientVars, loopVars, sendVars, steps, tts, log>>

(* RememberNode up to the extraction of facts.  Storing the episode fails   *)
(* before or after the vector store has it; a blank prompt has no episode.  *)
Remember(r) ==
  /\ agent[r] = "remember"
  /\ \/ /\ kind[r] # "blank"
        /\ episodes' = episodes \union {r}
        /\ AgentGoes(r, "extract")
        /\ UNCHANGED steps
     \/ /\ kind[r] # "blank"
        /\ episodes' \in {episodes, episodes \union {r}}
        /\ AgentFails(r)
        /\ UNCHANGED steps
     \/ /\ kind[r] = "blank"
        /\ steps' = [steps EXCEPT ![r] = @ + 1]
        /\ AgentGoes(r, "started")
        /\ UNCHANGED episodes
  /\ UNCHANGED <<clientVars, loopVars, sendVars, tts, log>>

(* The facts are extracted and stored, or there are none. *)
ExtractFacts(r) ==
  /\ agent[r] = "extract"
  /\ steps' = [steps EXCEPT ![r] = @ + 1]
  /\ AgentGoes(r, "started")
  /\ UNCHANGED <<clientVars, loopVars, sendVars, tts, log, episodes>>

(* An empty answer is not remembered, and handle raises over it. *)
RejectEmpty(r) ==
  /\ agent[r] = "empty"
  /\ steps' = [steps EXCEPT ![r] = @ + 1]
  /\ AgentFails(r)
  /\ UNCHANGED <<clientVars, loopVars, sendVars, tts, log, episodes>>

(* Memory, the model or a tool raises. *)
NodeFails(r) ==
  /\ agent[r] \in {"retrieve", "llm", "tools", "extract"}
  /\ AgentFails(r)
  /\ UNCHANGED <<clientVars, loopVars, sendVars, steps, tts, log, episodes>>

-----------------------------------------------------------------------------
(* TTSService.handle.                                                       *)

Synthesis == [start |-> "synthesize", synthesize |-> "speak", speak |-> "done",
              failing |-> "done"]

Speak(r) ==
  /\ tts[r] \in DOMAIN Synthesis
  /\ tts' = [tts EXCEPT ![r] = Synthesis[@]]
  /\ UNCHANGED <<clientVars, loopVars, sendVars, agent, steps, log, episodes>>

(* An error is published as SpeechGenerationFailed; if that fails, handle   *)
(* raises.                                                                  *)
SpeakFails(r) ==
  /\ tts[r] \in DOMAIN Synthesis
  /\ tts' = [tts EXCEPT ![r] = IF @ = "failing" THEN "raised" ELSE "failing"]
  /\ UNCHANGED <<clientVars, loopVars, sendVars, agent, steps, log, episodes>>

-----------------------------------------------------------------------------
SessionStep(s) ==
  \/ Receive(s)
  \/ ReceiveRaises(s)
  \/ Transcribe(s)
  \/ PongSent(s)
  \/ StartPipeline(s)
  \/ StartFails(s)
  \/ PipelineReturns(s)
  \/ PipelineRaises(s)

AgentStep(r) ==
  \/ AgentPublishes(r)
  \/ AgentPublishFails(r)
  \/ SetUpFails(r)
  \/ AgentResumes(r)
  \/ Retrieve(r)
  \/ CallModel(r)
  \/ RunTools(r)
  \/ Remember(r)
  \/ ExtractFacts(r)
  \/ RejectEmpty(r)
  \/ NodeFails(r)

SpeechStep(r) == Speak(r) \/ SpeakFails(r)

Next ==
  \/ \E s \in Sessions :
       \/ Connect(s)
       \/ Disconnect(s)
       \/ StopReading(s)
       \/ ResumeReading(s)
       \/ SessionStep(s)
  \/ \E r \in Requests :
       \/ \E k \in KindsOf[r] : Submit(r, k)
       \/ \E k \in Types : DrainReturns(r, k) \/ DrainRaises(r, k)
       \/ AgentStep(r)
       \/ SpeechStep(r)
  \/ CommitElsewhere

Spec == Init /\ [][Next]_vars

(* The event loop runs every ready task; the database, the models and the   *)
(* tools answer or fail; what is written to a client that reads, or is      *)
(* gone, is sent or fails.  Nothing is assumed of what clients do.          *)
DrainSettles(r, k) ==
  \/ reading[Owner[r]] /\ DrainReturns(r, k)
  \/ conn[Owner[r]] # "closed" /\ DrainRaises(r, k)

Fairness ==
  /\ \A s \in Sessions : WF_vars(SessionStep(s))
  /\ \A r \in Requests : WF_vars(AgentStep(r)) /\ WF_vars(SpeechStep(r))
  /\ \A r \in Requests, k \in Types : WF_vars(DrainSettles(r, k))

FairSpec == Spec /\ Fairness

-----------------------------------------------------------------------------
(* Types: the state is of the shape the code gives it, and no graph runs    *)
(* more nodes than its limit.                                               *)
TypeOK ==
  /\ conn \in [Sessions -> ConnStates]
  /\ reading \in [Sessions -> BOOLEAN]
  /\ inbox \in [Sessions -> Seq(Requests)]
  /\ submitted \in [Sessions -> Seq(Requests)]
  /\ kind \in [Requests -> AllKinds \union {"unsent"}]
  /\ registered \subseteq Sessions
  /\ loop \in [Sessions -> LoopStates]
  /\ cur \in [Sessions -> Requests \union {NoRequest}]
  /\ agent \in [Requests -> AgentStates]
  /\ steps \in [Requests -> 0..RecursionLimit]
  /\ tts \in [Requests -> TtsStates]
  /\ send \in [Requests -> [Types -> SendStates]]
  /\ log \in [Requests -> [Outcomes -> RowStates]]
  /\ episodes \subseteq Requests
  /\ wire \in [Sessions -> Seq([req : Requests, type : Types])]

(* While a session is served at most one of its requests is in the agent,   *)
(* and it is the one the loop is handling: envelopes of one client are      *)
(* handled one at a time, although every session and every pipeline is a    *)
(* task of its own.                                                         *)
OnePipelinePerSession ==
  \A r \in Requests :
    Owner[r] \in registered /\ agent[r] \in Running => cur[Owner[r]] = r

InGraph == {"retrieve", "prompt", "llm", "tools", "remember", "extract", "empty"}

(* The loop of a session, the table of sessions, the request it handles and *)
(* the agents of its requests fit together: an agent that runs is the one   *)
(* its loop awaits, or its session is over, and a graph starts a node only  *)
(* below its limit.  With this the types and the property above are         *)
(* inductive.                                                               *)
PipelineInv ==
  /\ \A s \in Sessions :
       /\ conn[s] = "none" => loop[s] = "none"
       /\ s \in registered <=> loop[s] \notin {"none", "ended"}
       /\ \A i \in DOMAIN inbox[s] : Owner[inbox[s][i]] = s
       /\ loop[s] \in {"transcribe", "store", "gather", "pong"} =>
            cur[s] # NoRequest
       /\ cur[s] # NoRequest => Owner[cur[s]] = s
  /\ \A r \in Requests :
       /\ agent[r] \in Running =>
            \/ loop[Owner[r]] = "gather" /\ cur[Owner[r]] = r
            \/ loop[Owner[r]] = "ended"
       /\ agent[r] = "begin" => steps[r] = 0
       /\ agent[r] \in InGraph => steps[r] < RecursionLimit

(* A client is sent the answers to its own envelopes only. *)
OwnAnswers ==
  \A s \in Sessions : \A i \in DOMAIN wire[s] : Owner[wire[s][i].req] = s

Script == [submit_prompt |-> 1, assistant_start |-> 2, assistant_chunk |-> 3,
           assistant_end |-> 4, pong |-> 1]

Position(s, r) == CHOOSE i \in DOMAIN submitted[s] : submitted[s][i] = r

(* What a client is sent answers its own envelopes, one after the other in  *)
(* the order it sent them, each in the order of the script from its first   *)
(* line and with none left out or repeated: a client that assembles replies *)
(* without looking at correlation ids never mixes two of them.              *)
WireFollowsScript ==
  /\ OwnAnswers
  /\ \A s \in Sessions : \A i \in DOMAIN wire[s] :
       LET e == wire[s][i] IN
       \/ Script[e.type] = 1
          /\ \A j \in 1..(i-1) :
               Position(s, wire[s][j].req) < Position(s, e.req)
       \/ i > 1 /\ wire[s][i-1].req = e.req
          /\ Script[wire[s][i-1].type] = Script[e.type] - 1

(* A client reads the end of a reply only if the exchange is in memory: the *)
(* next prompt can recall it.  Prompts with no text leave no episode.       *)
RepliesRemembered ==
  \A s \in Sessions : \A i \in DOMAIN wire[s] :
    wire[s][i].type = "assistant_end" /\ kind[wire[s][i].req] # "blank"
      => wire[s][i].req \in episodes

(* The store says of a request that it completed and that it failed only if *)
(* the end of the reply was not sent, because the commit of its event or    *)
(* the sending failed, or if its speech could not even be reported as       *)
(* failed: a reply whose end went out and was spoken is never a failure.    *)
OneOutcome ==
  \A r \in Requests :
    /\ Logged(r, "ResponseCompleted")
    /\ agent[r] \in {"failing", "raised"} \/ Logged(r, "PipelineFailed")
    => send[r]["assistant_end"] \in {"none", "failed"} \/ tts[r] = "raised"

(* Once a session is over, nothing is written to its client, whatever its   *)
(* abandoned pipeline still publishes.                                      *)
NothingAfterEnd ==
  [][\A s \in Sessions : loop[s] = "ended" => wire'[s] = wire[s]]_vars

(* A session as its client sees it. *)
InService(state) ==
  CASE state = "none" -> "new"
    [] state = "ended" -> "over"
    [] OTHER -> "open"

Service == INSTANCE ChatService WITH
             asked <- submitted,
             session <- [s \in Sessions |-> InService(loop[s])]

(* The runtime implements ChatService: the sessions, pipelines, agents and  *)
(* sends of all clients, whatever fails or goes away, write to a client     *)
(* only the next line of the replies to its own envelopes, and nothing once *)
(* its session is over.                                                     *)
ImplementsService == Service!Spec

(* A failure that the store has reaches the client as an error envelope     *)
(* before the request is over, if the client is still there: the table of   *)
(* outgoing events in the bridge's tests says that PipelineFailed is sent   *)
(* as ERROR.                                                                *)
FailureReported ==
  \A r \in Requests :
    /\ agent[r] = "done"
    /\ Logged(r, "PipelineFailed")
    /\ conn[Owner[r]] = "open"
    => \E i \in DOMAIN wire[Owner[r]] :
         wire[Owner[r]][i] = [req |-> r, type |-> "error"]

(* The requests that may start a pipeline. *)
Piped ==
  {r \in Requests : KindsOf[r] \intersect {"prompt", "blank", "voice"} # {}}

(* A pipeline whose client in the end keeps reading comes to its end,       *)
(* whatever the clients of other sessions do: a client that stops reading   *)
(* delays nobody else.                                                      *)
PipelineSettles ==
  \A r \in Piped :
    <>[]reading[Owner[r]] =>
      (agent[r] \in Running ~> agent[r] \in {"done", "raised"})

(* Every envelope of a client that keeps reading is taken up, unless the    *)
(* session ends before.                                                     *)
InboxServed ==
  \A s \in Sessions :
    <>[]reading[s] => []<>(inbox[s] = <<>> \/ loop[s] = "ended")

(* A client that went away is noticed, even in the middle of a pipeline and *)
(* even if it had stopped reading.                                          *)
DisconnectNoticed ==
  \A s \in Sessions : conn[s] \in {"eof", "lost"} ~> s \notin registered
=============================================================================
