# A verification project for Orion

Orion is a desktop assistant: a Python runtime (`src/runtime`) that keeps an
event log, a language-model agent, a memory and external tools, and a Rust
terminal client (`src/client`) that talks to it over a local socket. The
modules here model the parts of it whose correctness depends on the order in
which tasks, clients, the database and the tools happen to act; TLC checks
them on small instances and TLAPS proves the central results for every
instance. Paths below are relative to `src/runtime/src/orion` unless they
start with `client/`.

## 1. The system

### 1.1 Components

| Component | Code | State | Operations | What is hard |
|---|---|---|---|---|
| Event bus | `bus/event_bus.py` | lists of subscribers, per class and global | `subscribe`, `subscribe_all`, `publish` | publications of many tasks overlap; the lists are read after two awaits; `gather` raises at the first failing handler and leaves the rest running |
| Event store | `store/sqlite_store.py`, `events/registry.py` | one SQLite connection with one open transaction; the file | `startup`, `append`, `load_all`, `shutdown` | the transaction is shared by all publications; failing statements; death of the process |
| IPC sessions | `transport/server.py`, `session.py`, `bridge.py`, `protocol.py` | the socket, `_sessions`, one serve loop per client | accept, receive, handle each envelope type, send, unregister | backpressure, disconnects in the middle of a pipeline, sessions side by side |
| IPC publisher | `services/ipc_publisher.py`, `services/base.py` | none | `handle`: event to envelope | it is a global subscriber of every event and asserts a session |
| Agent service and graph | `services/agent.py`, `agent/` | the graph's state for one request | `handle`; nodes retrieve, agent, tools, remember | eight publishes interleaved with memory, model and tools; a loop only LangGraph bounds; the error path |
| Speech | `services/text_to_speech.py` | none | `handle` of `ResponseCompleted` | runs inside the publish that ends a reply |
| MCP manager, servers | `integrations/_mcp/` | `_servers`, `_tools`, `_tool_routing`, one connection per server | `startup`, `shutdown`, `call_tool` | partial failures of the loops, tools of the same name, calls that overlap the shutdown |
| Memory session | `memory/session.py`, `memory/module.py` | connections of three databases | `recall`, `store_episode`, `remember_facts` ... | `gather` of four recalls; several facts, one of which fails |
| Vector store, context | `memory/providers/vector/qdrant.py`, `agent/context.py` | points in Qdrant | `add`, `search`, `recent`; `build_context` | which episodes count as recent |
| Runtime lifecycle | `runtime/`, `orchestrator/` | the started components | `startup`, `shutdown`, `start` | a startup that fails half-way, the reverse shutdown |
| Client application | `client/src/app.rs`, `main.rs`, `audio.rs` | prompt, cursor, recorder, the speech that is playing | keys, runtime events, `select!` over both and a tick | character and byte positions, a read that is cancelled, the loop after a disconnect, one file for all recordings |
| Client IPC | `client/src/ipc/` | the socket and the part of a line read so far | send, receive | a line is read inside `select!` |
| Client widgets | `client/src/widgets/` | messages, the capped event list | begin, append, push, coalesce | which message a chunk belongs to, which entry it updates |
| Voice recorder | `services/voice_recording.py` | the frames of one capture | `handle`, `record`, `_record_with_vad` | the pre-roll, four limits that interact, failures between the events |
| Local tools, LLM providers, planner, logging | `agent/tools.py`, `llm/`, `memory/planner/`, `services/logging.py` | - | - | pure I/O or not reached (section 7) |

### 1.2 How they interact

A client's envelope is read by its serve loop, which publishes
`ChatPipelineStart` and awaits the publish. The bus stores the event and starts
two handlers: the publisher echoes the prompt to the client, and the agent
service runs the whole request. In it the agent publishes seven more events;
each publish stores the event and runs the handlers of that class and the
global ones (logging and the IPC publisher) to their end. `ResponseCompleted`
also starts speech synthesis, so the publish that ends a reply returns only
when it has been spoken. When the agent is done the first publish returns, and
only then does the loop read the client's next envelope.

What is called "one request at a time" is thus nowhere a lock or a queue: it
follows from awaits nested across four components, with every session, every
pipeline and every handler a task of its own on one event loop. That is why the
models take one step per stretch of code between two awaits.

### 1.3 What makes each part correct

- Bus and store: nothing acts on an event a crash could take back; a publish
  that returns is complete; no handler is missed; a handler that hangs holds up
  no publication but its own.
- Sessions, publisher, agent: a client is sent the answers to its own
  envelopes only, one after the other, in order, each after the store has its
  event; a reply that ended is remembered; the outcome in the store is the
  outcome; nothing is written after a session is over; a client that stops
  reading delays only itself; one that left is noticed; failures are reported.
- MCP: a tool name belongs to the first server that offers it; what the model
  is offered can be routed; the log of a call tells what happened; a server
  that fails does not keep others from being tried; shutdown stops them all.
- Lifecycle: shutdown is the reverse of startup, ends, and leaves nothing open
  unless it says so; it breaks no request it could have waited for.
- Memory: a recall has the latest episodes and the prompt shows the latest of
  them; a completed recall leaves nothing running; an announced fact or episode
  is in its database.
- Client: a key takes effect where the cursor is drawn and cuts no character; a
  reply is shown once and
  whole; what is spoken is the reply that ended, what is transcribed the
  recording that was sent; what is marked completed stays so; an undecodable
  line stops nothing.
- Voice recorder: nothing said is clipped or kept twice; a transcription starts
  only from a complete file of speech.

## 2. The modules

| Module | Models | Status |
|---|---|---|
| `EventLog` | abstract: what the bus promises its users | checked and proved against |
| `EventBus` | bus and store | checked and proved |
| `MCEventBus` | its instances | |
| `EventBusProofs` | its theorems | |
| `ChatService` | abstract: what the runtime promises a client of its socket | checked and proved against |
| `ChatPipeline` | a request's way through sessions, agent, speech and publisher | checked, its safety proved |
| `MCChatPipeline` | its instances | |
| `ChatPipelineProofs` | its theorems | |
| `MCPManager` | MCP manager and servers, with the shutdown | checked, its safety proved |
| `MCMCPManager` | its instance | |
| `MCPManagerProofs` | its theorems | |
| `Lifecycle` | `run()`, startup, Ctrl-C and shutdown of the whole process | checked, its safety proved |
| `MCLifecycle` | its instance | |
| `LifecycleProofs` | its theorems | |
| `MemorySession` | recall, remembering, recency: the agent's use of its three databases | checked and proved |
| `MCMemorySession` | its instances | |
| `MemorySessionProofs` | its theorems | |
| `TextEditor` | abstract: what a prompt line promises its user | checked and proved against |
| `PromptEditor` | the client's prompt line, byte by byte | checked and proved |
| `PromptEditorProofs` | its theorems | |
| `ClientApp` | the client: keys, conversation, event list, recording, reading; on `PromptEditor` | checked, its safety proved |
| `MCClientApp` | its instances | |
| `ClientAppProofs` | its theorems | |
| `VoiceRecorder` | one cycle of the runtime's recorder | checked and proved |
| `MCVoiceRecorder` | its instance | |
| `VoiceRecorderProofs` | its theorems | |

### 2.1 `EventLog` and `EventBus`

`Publish` is the call up to the first await; `Insert` and `Commit` are the two
statements of `SQLiteEventStore.append` as the connection's thread executes
them; `Dispatch` is `publish` resuming after the commit, reading the subscriber
lists and starting the gather; `HandlerEnds` is the end of one handler task;
`PublishReturns` and `PublishRaises` are the gather's two ends. `pending` is
the transaction the shared connection has open, `durable` the file. A commit
makes *every* pending row durable, whichever publication executes it, and a row
whose own commit failed stays pending for the next. `StoreShutdown` and `Crash`
drop what is pending; `Crash` also ends every task, and the next process
starts with the file and no subscribers. `due`, the handlers subscribed when
publish was called, is a history variable.

`EventLog` says the same with no mechanism: a log that only grows, one batch of
deliveries per event and only from the log, results that are final. `EventBus`
implements it under the mapping `durable`, `Seen`, `Outcomes`.

### 2.2 `ChatService` and `ChatPipeline`

The state of a session is its transport (`conn`: `eof` is a client that has
gone while what it sent can still be read, `lost` a transport that knows), its
unread envelopes (`inbox`), its place in `IPCBridge.serve` (`loop`, `cur`) and
whether `IPCBridge._sessions` has it (`registered`). The state of a request is
the await at which `AgentService.handle` stands (`agent`), the number of nodes
its graph has run (`steps`), the await of `TTSService.handle` (`tts`), and one
send per envelope type (`send`, `drain` while `ClientSession.send` awaits the
transport). `episodes` and `wire` are what the vector memory and the client have
received. `log` has the two rows that say how a request ended (`Outcomes`): each
is absent, pending in the transaction that the store's one connection has open,
or stored. A publish that succeeds commits, and its commit stores every pending
row (`Stores`); one whose commit fails may leave its own row pending
(`Refuses`), for the next commit of any task on that connection, those of
memory, MCP and speech included (`CommitElsewhere`).

| Action | Code |
|---|---|
| `Connect`, `EndSession` | `IPCServer._accept_client`, `IPCBridge.serve` |
| `Receive`, `ReceiveRaises` | `ClientSession.receive`, `IPCBridge.handle` |
| `Transcribe` | `_handle_voice_end`, whose errors end the session |
| `PongSent` | `_handle_ping` |
| `StartPipeline`, `StartFails` | `_handle_submit_prompt` up to the gather |
| `PipelineReturns`, `PipelineRaises` | the end of the publish in `serve` |
| `Write`, `DrainReturns`, `DrainRaises` | `IPCBridge.send`, `ClientSession.send` |
| `AgentPublishes`, `AgentPublishFails`, `AgentResumes` | each publish of `AgentService.handle` |
| `SetUpFails` | the tools, nodes and graph made before its `try` |
| `CommitElsewhere` | `SQLiteEventStore.append` of another event |
| `Retrieve`, `CallModel`, `RunTools`, `Remember`, `ExtractFacts`, `RejectEmpty`, `NodeFails` | the graph's nodes and its routing |
| `Speak`, `SpeakFails` | `TTSService.handle` |

A publish is two steps here, the answer of the store and the end of the
handlers; `EventBus` is where the steps inside are. The tables `Publishes` and
`Gathers` list the publishes with the event, the envelope and the next await.
Left out: texts, logging (it never awaits), what memory and tools do inside.

`ChatService` is what remains of all this for a client: it opens a session,
asks, and is sent the next line of the last reply (`Continues`) or the first
line of a reply to something it asked later (`Begins`), until the session is
over. A client that leaves just stops being sent lines. Under the mapping
`submitted`, `wire` and `InService` of the session's loop, `ChatPipeline`
implements it (`ImplementsService`).

### 2.3 `MCPManager`

`pc` walks the loops of `startup` and `shutdown`, `todo` is what the loop has
left. Each lifecycle event is published by `Announce`, which may raise at any
time and raises for certain once `observed` holds: `IPCPublisherService` is
then subscribed to every event and asserts a session, which these events lack.
`Route`, `Report`, `Send` and `ToolEnds` are `call_tool_raw` between its awaits,
for several calls at once and while `StopServer` and `ServerStopped` close their
server. `link` has the state `leaked` for a server whose transport was entered
and whose session did not come up: nobody closes it.

### 2.4 `Lifecycle`

`part` has the state of everything the runtime starts, in the order of
`StartOrder`: the store, the four parts of the memory module, the MCP manager,
the orchestrator's services, the server. `StartPart` and `StopPart` are one
turn of the loops of `OrionRuntime`, `MemoryModule` and `Orchestrator`;
`StartFails` and `StopFails` are their error paths, which differ: a startup that
raises ends `run()`, and as that call is outside its `try` and `_started` is
still false, what was started before is simply left; a shutdown that raises is
collected by the runtime and raised in the end, makes the memory module leave
its other parts alone, and is only printed by the orchestrator. A part may be
left `broken`, half open, if what it does may raise half-way.

`Drain` is `serve_forever` after its cancellation. `wait_closed` returns at
once before Python 3.12 and waits for every client since; `waits` is chosen at
the start and both are checked. The first Ctrl-C cancels `run()`, a later one
every task (`asyncio.run`): `InterruptStart`, `InterruptServe`,
`InterruptDrain`, `InterruptStop` and `Cancelled`. Clients connect as soon as
the socket exists, `Begin` requests also while the runtime is stopping, and
`PipelineFails` is a request that comes to use a part that is not there.

### 2.5 `MemorySession`

A request recalls before the model runs and remembers after it. `Recall`,
`Publish` and `Gather` are `MemorySession.retrieve` up to its `gather`;
`task[r][b]` is what the coroutine of branch `b` has left, as a list of calls
and publishes (`Plan`), taken step by step by `Answer`, `Announce` or
`BranchRaises`. `GatherRaises` needs one raised branch and cancels nothing: the
other tasks go on after the recall has failed and the request is over. `Store`,
`Extract`, `AddFact` and `TellFact` are the remember node: the episode, the
model's facts, the loop of `Neo4jKnowledgeGraph.add_facts` that merges them one
by one, and the loop that publishes them when all are in. `EdgeOf` is what
`normalize_predicate` makes of a fact: two may be one relationship, an empty
predicate raises. An episode *is* its timestamp, so `Newest` is the sort and the
cut of `QdrantVectorMemory.recent` (`Ranked`, `Limited`), over one of the `Pages`
a scroll can return, and `Shown` the slice that `build_context` puts into the
prompt.

Any call or publish may raise, `MaxErrors` times in all; an upsert, a merge or a
publish that raises may have had its effect. What a similarity search or a
graph query answers is left open.

### 2.6 `TextEditor`, `PromptEditor` and `ClientApp`

`PromptEditor` is the line as a Rust `String`: a character is its first byte and
`Cont` for each further one, and `cursor_position` an index into the bytes, as
`String::insert` and `remove` take it. `EnterChar` and `DeleteChar` move the
cursor by one *byte*, whatever the width of the character; at an index inside a
character they are a `Panic`, after which the client does nothing. `TextEditor`
is what the user of such a line can rely on; the mapping (`Text`) keeps the first
byte of each character (`Characters`, a recursive function over the line) and
counts those before the cursor (`point`, where keys take effect). The cursor is
*drawn* elsewhere: `PromptWidget::render` puts it at column `cursor_position`
(`CursorColumn`), which is the point as long as every character is one byte and
runs ahead of it behind a wider one. So `TextEditor` promises less of a line with
a wide character in it: the drawn cursor may be elsewhere, a move may not reach
the next character, a key may break the editor down.

`ClientApp` adds the rest of `main`'s loop. Keys are `Key`, `SubmitPrompt`,
`InterruptSpeech`, `StartRecording`, `StopRecording`, `FinishRecording`;
`Handle` is `handle_runtime_event` on a line, `Push` and `BumpLast` are the two
ways into the event list, `BeginMessage` and `AppendChunk` those into the
conversation. A recording is its number, and `clip` is what the one file of all
recordings holds, `orion_client_recording.wav` in the temp directory
(`client/src/audio.rs:17`); a second client on the host, which would write the
same file, is left out. `finish()` writes it synchronously, so the loop stands
still from `StopRecording` to `FinishRecording` while the runtime may read.
`ReadLine` is `next_event` returning a line or a decoding error, `CancelRead` a
tick or a key that wins `select!` while a line is half read, `ReadEnd` the
error of every read after the end of the stream. The runtime's side
(`RuntimeTakes`, `RuntimeWrites`, `RuntimeFails`, `RuntimeGone`) is what
`ChatPipeline` and `ChatService` establish of a session: one request at a time,
its lines in the order of the script, the rest left out when it fails.

At this commit `RuntimeEvent` has no variant `UserPrompt`, which
`client/src/ipc/client.rs:76` constructs for the echo of a prompt, so the client
does not compile; the model takes the echo as the unsupported event it would be
without that arm. A text is the request it answers: one chunk per reply, as the
agent sends it.

### 2.7 `VoiceRecorder`

One handling of a `PipelineStartEvent`. `Publishes` lists the publishes of
`handle` with what comes next; `Listen` and `Record` are the two arms of the
loop in `_record_with_vad`, a frame of 30 ms each, and a frame is its number;
`Remembered` is the `deque(maxlen=pre_roll)`; `Judge` is what `_record_with_vad`
and `record` do with the capture when the loop is over, `WriteFile` the wave
file. The limits are read once (`config`), in whole frames: the code rounds
seconds to frames in floating point, which is left out. `PublishRaises`,
`MicrophoneFails` and the second disjunct of `WriteFile` are the failures that
the `except` of `handle` reports.

### 2.8 How the modules relate

`EventBus` is the contract the others rely on: `ChatPipeline` and `MCPManager`
take a publish as stored-then-handled, or stored-or-not and raised, which is
what `HandledIsDurable` and `ReturnedMeansHandled` say. `MCPManager` is one
step (`RunTools`) of `ChatPipeline`. `MemorySession` is what its steps
`Retrieve`, `Remember` and `ExtractFacts` stand for. `Lifecycle` has as one
step what `MCPManager` and `EventBus` do when they start and stop, and one
boolean per client for its request. `ClientApp` is the other end of the wire:
`ChatService` and `OnePipelinePerSession` are what its runtime side takes for
granted. It EXTENDS `PromptEditor`, whose variables no other action of it
changes but `ClearLine`. `VoiceRecorder` stands alone, as the voice path in use
is the client's recording and the bridge's `_handle_voice_end`.

## 3. The runs

| Run | Instance | Shows |
|---|---|---|
| `bus` | 2 publications of one class, 2 handlers, lists of up to 1 for the class and 1 global, 1 crash | `TypeOK`, `HandledIsDurable`, `ReturnedMeansHandled`, `NoSubscriberMissed`, `PublishSettles` (a call that never ends waits for a handler of its own that never ends), and that the bus implements `EventLog` |
| `chat_session` | 1 client, 2 envelopes of every kind, a limit of 5 nodes | `TypeOK`, `OnePipelinePerSession`, `WireFollowsScript`, `RepliesRemembered`, `OneOutcome`, and that the runtime implements `ChatService` |
| `chat_liveness` | a client with a prompt and a ping, and one with a line that ends its session; a limit of 3 nodes | `PipelineSettles`, `InboxServed`, `DisconnectNoticed` |
| `chat_failure` | 1 client, 2 envelopes | `FailureReported` is violated (section 6) |
| `mcp_safety` | 2 servers with a tool in common, one of which may list it twice, 2 calls | `TypeOK`, `FirstClaimer`, `ToolsRouted`, `CallHistory` |
| `mcp_shutdown` | the same | `AllStopped` is violated (section 6) |
| `lifecycle` | 2 clients, 3 Ctrl-C, both behaviours of `wait_closed` | `TypeOK`, `CleanExit`, `ClientsServed`, `StopsInReverse`, `ShutdownEnds` |
| `memory` | 2 requests, 2 episodes from before, pages of 3, 2 errors | `TypeOK`, `RecallComplete`, `MemoryTruthful`, `FactsAllOrNone`, `RecentIsNewest` |
| `memory_recency` | 1 request, 4 episodes from before, 3 of them recalled, 2 shown | `MostRecentShown` is violated (section 6) |
| `client` | 2 requests, 2 recordings, 2 messages at a submission, a list of 2 entries, 1 line in the socket, a prompt of 2 bytes over a letter and a blank of two bytes | `TypeOK`, `RepliesShown`, `SpokenIsReply`, `HeardItsClip`, `CompletedStays`, `LinesServed`, and that the prompt line implements `TextEditor` |
| `client_receive` | 1 request, no recording, 2 lines in the socket | `NoMessageLost` is violated (section 6) |
| `voice` | every setting with limits of a few frames, on either side of each other | `TypeOK`, `WholeCapture`, `CompletedIsSpeech` |

### 3.1 The bounds, and why they are enough

- `MaxSubscriptions = 1` gives an event a class handler and a global one: a
  gather of two, one of which fails while the other runs, and the same handler
  twice. `MaxCrashes = 1`: a second death finds the same file. Two publications
  are what it takes for one to commit, or to lose, the other's row. Both are of
  one class, so that they meet in its list: what a class does is to say which
  list an event reads, and two lists that are read apart add no order of steps.
  `EventBusProofs` is about any number of classes.
- Two envelopes on one session give every pair of kinds, one handled while the
  other waits; a third would meet the same loop. In `chat_liveness` the second
  client's line ends its session: it goes through the publisher's and the
  bridge's shared state while the other's pipeline runs, and either client may
  stop reading or leave. That no client is sent another's lines does not need a
  run with two prompts: it is proved for any number of them (section 5).
- A limit of 5 nodes allows one round of tools before the answer is remembered,
  and is exceeded by a second; a limit of 3 ends the loop at its first round.
  LangGraph's default is larger; the theorems of section 5 hold for any.
- Two servers, one offering a tool of the other: a third adds no new order of
  claims. Two calls: one to each server while one is being stopped.
- The first Ctrl-C begins a shutdown, the second ends its wait for clients, the
  third breaks off the loops that follow: `MaxInterrupts = 3`. A second client
  is one that stays while the other has left.
- Two requests on the memory: one stores while the other recalls; with four
  episodes the store outgrows its page of 3, with three it does not. Two errors
  let a branch of a recall raise and then the report of it, or break the store
  and the facts of both requests. The limits 1000, 10 and 3 of the code become
  3, 2 and 1 (5, 3 and 2 in `memory_recency`), in the same order.
- The client: two requests are what it takes for a prompt to be sent while a
  reply is on its way and for one reply's end to speak the other's text; two
  recordings, for the second to overwrite the first before it is transcribed. A
  list of two entries is full after the first exchange. Two bytes hold two
  letters, or one blank of two bytes with the cursor before, in and after it;
  the theorem of section 5 is for every alphabet.
  With one line in the socket the runtime waits for the client to read before
  it writes the next; `client_receive` has two.
- The voice recorder: the limits are chosen so that the pre-roll is longer and
  shorter than what was heard, a recording is full before and after its closing
  silence, and the minimum is below and above both. No counter is bounded: the
  limits end the loop. The theorems hold for every setting.

Symmetry is used where no property or action tells the elements apart:
requests of one session of the same kinds, tool calls, requests on the memory.
No run with liveness uses it. Deadlock is not checked, as all
these systems may stop: the process shut down, every session over, the manager
stopped, every request ended.

### 3.2 The fairness, and why the code justifies it

- `EventBus`: the connection's thread answers each queued statement, with
  success or an error, and the event loop resumes each publisher that has nothing
  left to await (`EventProgress`). Nothing is assumed of handlers: the IPC
  publisher is one, and its `drain` (`transport/session.py:65`) never ends for a
  client that stops reading. Nothing forces a publish, a crash or a shutdown.
- `ChatPipeline`: the event loop runs every task that can run (`SessionStep`,
  `AgentStep`, `SpeechStep`); database, models and tools answer or fail, which
  is an assumption about them: the code sets no timeout of its own. A drain
  settles if the client reads or its transport has noticed that it is gone
  (`DrainSettles`). Nothing is assumed of clients: they may never read,
  never send and never leave.
- `ClientApp`: the loop selects again as long as the client runs, and
  `tokio::select!` picks a ready branch at random, so that none is passed over
  for ever (`ReadLine`); writing the file of a recording returns
  (`FinishRecording`). Nothing is assumed of the user or of the runtime. Quitting
  is left out of the model: a client that has quit does nothing more, and it is
  the one thing besides a panic that may leave lines unread.
- `Lifecycle`: what is started or stopped answers or raises (`RunStep`), and a
  cancelled task ends (`Cancelled`). Nothing forces a Ctrl-C, a client to leave
  or a request to end; `ShutdownEnds` names the clients as its condition.

Liveness therefore says something only about the clients it names:
`PipelineSettles` and `InboxServed` are about those that in the end keep
reading, and hold whatever the others do.

## 4. Properties worth a word

- `WireFollowsScript` is what the client relies on when it appends chunks to the
  last open message without looking at correlation ids: each reply's lines are
  contiguous and in order, replies in the order of the prompts.
- `PublishSettles`: with no assumption about handlers a publisher may wait for
  ever, and the property says for what: for one of its own event's handlers that
  never ends, none of the others having failed. A hanging handler reaches neither
  the store nor another publication, though they share the transaction and the
  handlers. What this makes of a client that stops reading is the subject of
  `PipelineSettles` and `InboxServed`.
- `OneOutcome` holds with exceptions that the code makes: when the *end* of a
  reply was not sent, as the commit of its event failed or the sending did, or
  when speech fails and even that cannot be reported, the store may say of the
  request that it completed and that it failed. The first is easily overlooked:
  the row of the failed commit stays in the open transaction, and the commit of
  `PipelineFailed`, or of any other event, stores it. A reply whose end was sent
  and spoken is never logged as failed.
- `RepliesRemembered`: the episode is in the vector memory before the end of
  the reply is sent; a request may well be remembered whose reply never ends.
- `ImplementsService`: a pipeline abandoned by its session (the client left while
  the model ran) goes on publishing; it must find the session unregistered, or
  it would write to one that is over (`NothingAfterEnd`).
- `CallHistory` allows for a tool that ran and whose caller sees an error,
  because the event of its completion could not be published.
- `CleanExit` is about the errors that two nested loops swallow, collect and
  skip over: if `run()` ends with none, everything it had started was stopped.
  It says nothing of the services, whose errors are lost.
- `ClientsServed`: a request can fail over a part that is not there only during
  a shutdown, and, on a Python that waits for clients, only after a second
  Ctrl-C. That the server is the last to start and the first to stop is what
  makes it true.
- `RecallComplete`: only a recall that failed may leave tasks behind; one that is
  logged as completed has none, and its events are all there.
- `FactsAllOrNone`: a failure among several facts leaves a prefix of them in the
  graph and announces none; a failure of the announcements, all in the graph and
  a prefix announced. A model may answer the same fact twice, so the prefix is
  one of the list and not of the set: the run has such a list.
- `RecentIsNewest` holds while the store fits on one page, which is its
  condition: beyond 1000 episodes `recent` sorts an arbitrary page of them.
- `ShutdownEnds` on a Python that waits: a client that never leaves holds the
  shutdown until the second Ctrl-C.
- `EditsRight`: while every character of the line is one byte, a key takes effect
  where the cursor is drawn and never breaks the client off. With a wider one in
  it the drawn cursor runs ahead of that place (section 6), the cursor may stand
  inside the character, and a key there may be a panic; but a key that is not
  still does only what it says, between two whole characters.
- `RepliesShown`: the next prompt may be in the conversation before the chunk of
  a reply is; the chunk then gets a bubble of its own, and must not be shown
  twice or go to another reply. Its exception, a line damaged in reading, is
  finding 4.
- `SpokenIsReply`: the end of a reply carries no text; the client speaks the last
  bubble of the conversation, whatever that is.
- `HeardItsClip`: a recording is sent as a path, and the path is always the same.
  What the runtime finds there is the recording it was told of, complete, *unless
  the user has recorded again* before it gets to it: that much the code does
  not prevent.
- `CompletedStays`: an entry moves down the capped list and is coalesced with
  what is pushed; once completed it may only leave.
- `WholeCapture`: the capture may exceed `max_duration` only by the pre-roll.

## 5. What is proved

All theorems hold for any finite or infinite sets of events, handlers, clients,
requests, servers, facts or characters and for all bounds, from the one named
assumption of each module on its constants (`EventBusAssumption`,
`PipelineAssumption`, `ManagerAssumption`, `LifecycleAssumption`,
`MemoryAssumption`, `EditorAssumption`, `ClientAssumption`, `ConfigAssumption`),
which the runs evaluate. Every safety property that a passing run checks is the
statement of a theorem.

`EventBusProofs`:
- `TypeCorrect`, `PublishInvariant` (`PublishInv`), `Durability`
  (`HandledIsDurable`), `ReturnIsComplete` (`ReturnedMeansHandled`),
  `NobodyMissed` (`NoSubscriberMissed`);
- `Refinement`: the bus implements `EventLog`.

The properties are not inductive: that a handled event is durable depends on
where its publication stood one step before. `PublishInv` says, for each place
a publication may be at, what is already true of its event: between its insert
and its commit the row is in the open transaction *or already in the file*
(another publication may have committed it); from the dispatch on it is in the
file; until the dispatch it has no tasks, and whoever was subscribed at the
call still is. The steps of other publications, of the store and of the
process preserve it, and the properties follow one by one. For the refinement,
each action is a step of `EventLog` or a stutter: commit persists, dispatch
with a subscriber delivers, and a crash fails every open publication.

`ChatPipelineProofs`:
- `PipelineInvariant` (`TypeOK` and `PipelineInv` together), `TypeCorrect`,
  `Isolation` (`OnePipelinePerSession`);
- `AnswersAreOwn` (`OwnAnswers`), `SilentAfterEnd` (`NothingAfterEnd`),
  `RepliesAreRemembered` (`RepliesRemembered`), `WireFollowsTheScript`
  (`WireFollowsScript`) and `OneOutcomeHolds` (`OneOutcome`);
- `ServiceRefinement`: the runtime implements `ChatService`
  (`ImplementsService`).

That a client's requests are in the agent one at a time is not inductive
either: it needs that a session is in the table exactly while its loop runs,
that a loop handles only requests of its own client (hence that the inbox holds
no others), and that a running agent is the one its loop awaits unless the
session is over. `PipelineInv` is that, with the recursion limit: a graph
starts at zero and starts a node only below the limit, which is what keeps
`steps` in its type. Types and invariant need each other, so they are proved
together: `LoopMoves` and `AgentMoves` say what a step of a loop or of an agent
may do, `SessionInv`, `ClientInv` and `RequestInv` that it preserves the
invariant. From there `WireStep` says that what a client has been sent changes
only while its session is registered, and only by an answer to a request of its
own: the first two of the other theorems are that. The third has an invariant
of its own (`EpisodeInv`): an agent that is past the remember node has its
episode in memory, or a prompt with no text, and so has every reply that has
ended.

`WireFollowsScript` needs to know where a request is in the order of its
client: `OrderInv` says that what has been submitted is, in this order, what
the loop has taken, and what is in the inbox. With one request at a time, what
is on the wire is of the requests taken, and the last line is the one the agent
has just sent (`LastLineInv`), so that the next one follows it in the script
(`NextInPlace`), and what was in place stays so (`StaysInPlace`). For
`OneOutcome`, `FreshInv` says that a request still in the inbox has not been to
the agent, hence that its pipeline begins once, and `OutcomeInv` which outcomes
the place of the agent allows. It speaks of the rows that are only pending as
well: nothing says whose commit stores them, so a property of the stored ones
alone would not be inductive. `RowsAdded` is why that suffices: whatever
commits, a step adds only the row of the event that this request's agent is
publishing.

For the refinement, `OrderHolds` takes `OrderInv` and `LastLineInv` to every
reachable state, and `NextLine` says what they make of a line that is written
to a client still connected: it begins the reply to something asked after all
that was answered before, or continues the last reply. So each write is a `Say`
of `ChatService` (`SayStep`), a loop that ends is a `Close` (`CloseStep`), and
every step of `ChatPipeline` is one of `ChatService` or a stutter
(`ServiceStep`).

`VoiceRecorderProofs`, for every set of settings and any number of frames:
- `RecorderInvariant`, `TypeCorrect` (`TypeOK`), `NothingClipped`
  (`WholeCapture`), `FilterNeverApplies` (`NothingFiltered`, section 6),
  `SilenceIsNotTranscribed` (`CompletedIsSpeech`).

The invariant has three parts. `LoopInv` is the bookkeeping of the detection
loop: as long as nobody has spoken the look-back is the latest frames and as
full as it can be, so that the first loud frame makes of it a capture that
begins where it should; a recording goes on only within its limits, and
whatever ends it (`Judge`) left `silent` or the length at one of them, which is
why a minimum below both filters nothing. `LogInv` says what the store has at
each place of `handle`. The third part is that what `CompletedIsSpeech` promises
is kept once it is due: `PromiseBegins` is the step on which it falls due, the
publish of the closing silence, and `PromiseKept` every step after it, which can
only report a failure.

`MCPManagerProofs`, for every configuration, any answers of the servers and any
number of calls:
- `ManagerInvariant`, `TypeCorrect` (`TypeOK`), `FirstClaimerHolds`
  (`FirstClaimer`), `ToolsRoutedHolds` (`ToolsRouted`), `CallHistoryHolds`
  (`CallHistory`).

That the owner of a tool is the *first* server that offered it holds because
`startup` goes through the configuration once: `LoopInv` says that what `todo`
has left is a suffix of it, that the servers before have been left behind and
those after have offered nothing. With `ClaimedInv` (what was offered has an
owner until the shutdown clears the tables) a claim that finds a name free is
the first. `CallInv` is what the store and the server know at each await of
`call_tool_raw`; no step of another call, and none of the shutdown, touches it.

`LifecycleProofs`, for any set of clients and number of Ctrl-C:
- `LifecycleInvariant`, `TypeCorrect` (`TypeOK`), `CleanExitHolds` (`CleanExit`),
  `ClientsServedHolds` (`ClientsServed`), `StopsInReverseHolds`
  (`StopsInReverse`).

The place that the loops have reached says what state every part is in:
`StartedTo(k)` that the first `k` of `StartOrder` are up and no others,
`StoppedTo(j)` that the first `j` of `StopOrder` are stopped, or given up on
after an error in the memory module, which can only be so from the memory
module on. `EndInv` is about clients: on a Python that waits, and before a second
Ctrl-C, none is left when the parts begin to stop. The clean exit, the served
clients and the order of the stops are read off that.

`MemorySessionProofs`, for any number of requests and errors, any page and limit:
- `MemoryTypesHold`, `TypeCorrect` (`TypeOK`); `FactsInvariant`,
  `MemoryTruthfulHolds` (`MemoryTruthful`), `FactsAllOrNoneHolds`
  (`FactsAllOrNone`); `RecallInvariant`, `RecallCompleteHolds` (`RecallComplete`),
  `RecentIsNewestHolds` (`RecentIsNewest`).

`FactsInv` counts the two loops of a request: after `n` turns of the first the
first `n` facts are in the graph and none is announced, after `n` turns of the
second all are in and the first `n` announced; an error leaves it at some `n`.
The first attempt at this proof showed that the property as it had been stated,
which counted announced facts as a set, is false of a list that has a fact twice
(section 4). `RecallInv` says of each coroutine of the gather that what it has
left is the rest of its plan, and what its events then are in the log. For
`RecentIsNewest` what `recent` returned is `Newest` of a page that contains the
store as it was when the recall began; that `Newest` is the sorted front of any
finite page is a lemma by the ranks of its elements.

`PromptEditorProofs`, for every alphabet, all widths and any length of the line:
- `EditorInvariant`: the cursor stays within the bytes of the line, and a key
  breaks the client off only if the line has a character of several bytes;
- `EditorRefinement`: the line implements `TextEditor` (`EditsRight`).

The two parts of `EditorInvariant` are inductive together: where the cursor is
within the line, a place that is no boundary is followed by a continuation
byte, which is the reason of the panic, and `NoBoundary` is that lemma. The
refinement (`LineInv`) needs that no key ever cuts a character (`Whole`): every
first byte is followed by the continuation bytes it needs, so that to the right
of a cursor inside a character the text is the same as behind it
(`RestOfCharacter`), and erasing takes one character off it. It needs the
converse as well (`Owned`): every continuation byte belongs to a character
before it, so that a line of narrow characters has none. Then the cursor is
drawn at the point (`NarrowPoint`), and a panic is a wide character's doing
(`WideShown`). The lemmas below say what `Characters` makes of a line put
together (`CharactersConcat`), of a typed character (`CharactersOfOne`) and of
the two sides of a place (`TextAt`), and that the point moves by at most one
when the cursor moves by a byte (`PointMoves`).

`ClientAppProofs`, for any number of requests, recordings and lines and any cap:
- `ClientTypesHold`, `TypeCorrect` (`TypeOK`), `HeardItsClipHolds`
  (`HeardItsClip`), `SpokenIsReplyHolds` (`SpokenIsReply`), `CompletedStaysHolds`
  (`CompletedStays`), `RepliesShownHolds` (`RepliesShown`) and, as no action of
  the client does anything else to the line, `EditsRightHolds` (`EditsRight`).

`ClipInv`: the recording in progress is the latest and was not sent; what was
sent is in the file, or a later one was begun. `ScriptInv` says that the lines
in the socket and the one written next follow the script, `HeadInv` what that
means for the line that is read next: a chunk finds no completed reply at the end of
the event list and, if nothing was lost, an empty bubble or none; an end finds
that the last reply of the conversation is its own. `OnceInv` follows a reply
from the runtime to the conversation: it is written once, then it is on the
socket once or in one place of one bubble, and never both.

Two parts need induction over data, which the prover's induction theorems do not
offer (they take an operator as a parameter): `Unclaimed` of `MCPManager` and
`Characters` of `PromptEditor` are recursive functions. What they return is
proved from `LeastNatural`, that a set of naturals has a least element, applied
to the places where a claim about the recursion would fail first.

Model-checked only: liveness (`PublishSettles`, `PipelineSettles`,
`InboxServed`, `DisconnectNoticed`, `ShutdownEnds`, `LinesServed`), as fairness
and `ENABLED` are beyond the prover; and the four properties of section 6, which
are violated.

## 6. Findings

1. *A failed request is not reported to its client* (`chat_failure`).
   `PipelineFailedEvent` declares no envelope type, so the publisher returns
   before sending; the event that has the type ERROR,
   `ResponseGenerationFailedEvent`, is never published. The table of outgoing
   events in `tests/transport/test_bridge.py:244` says that `PipelineFailedEvent`
   is sent as ERROR. The run shows a request logged as failed and over, its
   client connected and told nothing: it waits for ever.
2. *Shutdown stops at the first MCP server* (`mcp_shutdown`).
   `MCPManager.shutdown` publishes `MCPServerStoppedEvent` with no session while
   the IPC publisher is still subscribed to everything; its assertion
   (`services/base.py:39`) makes the publish raise and the loop ends. The
   docstring at `manager.py:264` promises to shut down all connected servers.
   With the one server of the shipped `mcp.json` it only keeps the manager's
   tables; with two the second is left running.

3. *The most recent conversation is the oldest* (`memory_recency`). `recent`
   returns the ten newest episodes newest first, and `build_context` shows
   `recent_messages[-_MAX_RECENT:]`, the last three: the oldest of the ten. The
   comment at `agent/context.py:12` says "most-recent turns". With three episodes
   or fewer it makes no difference.

4. *A reply can be lost in reading* (`client_receive`). `main` awaits the next
   line inside `select!`, beside the tick and the keys. The comment at
   `client/src/ipc/client_session.rs:55` says that the bytes read so far remain
   in `read_buf`, so that "no message is corrupted or lost". tokio documents
   `read_line` as not cancellation safe: its future takes the buffer's contents
   and drops them with itself. The rest of the line then fails to decode, and
   the run shows a chunk that was written and is never in the conversation.

`Lifecycle` shows another thing, which no line of the code contradicts: a
startup that fails leaves the components before it running (`StartFails`), as
`run()` calls `startup` before its `try`; they end with the process.

Met while reading, outside the models: at this commit
`transport/bridge.py:28` imports from `services/transcript_generation.py`,
whose whole text is commented out, and `client/src/ipc/client.rs:76` uses a
variant `RuntimeEvent::UserPrompt` that is not declared (section 2.6).
`ChatPipeline` reads the import as its caller expects it.

Two comments are contradicted by what is proved, with no run of their own:

- `client/src/app.rs:25` says that `cursor_position` tracks a character index; it
  counts bytes. `EditorRefinement` says what that leaves of the prompt line: of a
  line with a character of several bytes neither that its cursor is drawn where
  keys take effect nor that no key breaks the client off (section 4,
  `EditsRight`).
- `services/voice_recording.py:31-32` and `234-237` say that ultra-short captures,
  a cough or a click, never reach the transcriber. The length compared with the
  minimum includes the silence that ended the recording, so that with the
  defaults (a minimum of 0.8 s, a closing silence of 2.0 s, at most 15 s) nothing
  is ever filtered: `FilterNeverApplies` proves it for every setting with such a
  minimum.

## 7. Not modelled, and why

- Pure I/O or presentation: the desktop tools, audio capture and playback,
  rendering, logging, the SDKs behind model providers and embeddings.
- Not reached: the retrieval planner and the recall node (constructed, never
  asked), transcript generation (commented out), `IPCBridge.broadcast`,
  `load_all` and the event registry (no caller outside of tests), the envelopes
  `close` and `status`. The voice recorder is not reached either (nothing
  publishes the event that starts it) but is whole, and is modelled.
- Of the client: the mode line (a failed request leaves it at THINKING, which
  only looks busy), scrolling and effects; the ids of messages, which nothing
  reads; quitting; a send that blocks because the socket's buffers are full.
- The database engines, LangGraph, asyncio and the MCP library appear only as
  the outcomes the code can see.
- Planned: section 8.

## 8. The plan

In order of importance; each module gets its instance, its runs and, where it
says so, its proofs.

1. `EventLog`, `EventBus`, `ChatPipeline`, `MCPManager`: done, with proofs.
2. `Lifecycle`: done, with proofs.
3. `MemorySession`, with the recency of its episodes: done, with proofs.
4. `PromptEditor` under `TextEditor`, `ClientApp`: done, with proofs.
5. `VoiceRecorder`: done, with proofs.
6. `ChatService`, implemented by `ChatPipeline`: done, with its proof. What is
   left is to state the runtime's side of `ClientApp` as an instance of it.
