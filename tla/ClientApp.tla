------------------------------ MODULE ClientApp ------------------------------
(***************************************************************************)
(* The terminal client (src/client): one loop that selects between a tick, *)
(* a key and the next line from the runtime, the prompt line of            *)
(* PromptEditor, the conversation, the event list, and the recording that  *)
(* is handed to the runtime as a file.  The runtime's side is what         *)
(* ChatPipeline establishes: the requests of a session are served one at a *)
(* time, each with the lines of one script, of which a failing pipeline    *)
(* leaves out the end.                                                     *)
(*                                                                         *)
(* Left out: the mode line, effects and scrolling (presentation), the ids  *)
(* of messages (nothing reads them), and the arms of handle_runtime_event  *)
(* for events the runtime never sends.  The echo of a prompt is an         *)
(* unsupported event, since RuntimeEvent has no variant for it.  Quitting  *)
(* is left out too: a client that has quit does nothing more.              *)
(***************************************************************************)
EXTENDS PromptEditor, SequencesExt

CONSTANTS
  MaxRequests,     \* bound on the requests sent
  MaxMessages,     \* bound on the messages when a prompt is submitted
  MaxRecordings,   \* bound on the recordings made
  MaxLines,        \* bound on the lines waiting in the socket
  MaxEntries       \* the cap of the event list

ASSUME ClientAssumption ==
  /\ {MaxRequests, MaxMessages, MaxRecordings, MaxLines} \subseteq Nat
  /\ MaxEntries \in Nat \ {0}

VARIABLES
  link,        \* the connection: "off" if there was none at startup
  lines,       \* what the runtime has written and the client not yet read
  lost,        \* a line has been damaged in reading (history)
  messages,    \* the conversation
  entries,     \* the event list
  recorder,    \* the recording in progress, or 0
  recordings,  \* recordings started so far
  writing,     \* finish() is writing the file
  clip,        \* the recording that is in the file, 0 or Torn
  spoken,      \* the speech started last and not stopped
  sent,        \* the requests sent: a recording, or 0 for a typed prompt
  served,      \* how many of them the runtime has taken up
  at,          \* the line of the script it is at, 0 between two requests
  replied      \* the requests whose reply it has written (history)

socketVars == <<link, lines, lost>>
viewVars == <<messages, entries>>
audioVars == <<recorder, recordings, writing, clip>>
runtimeVars == <<served, at, replied>>
vars == <<editorVars, socketVars, viewVars, audioVars, runtimeVars, spoken,
          sent>>

Torn == -1       \* a file that is only partly written
Script == <<"submit_prompt", "assistant_start", "assistant_chunk",
            "assistant_end">>
Silence == [req |-> 0, text |-> <<>>]
Kinds == {"CONNECTED", "OFFLINE", "PROMPT", "VOICE_START", "VOICE_END",
          "RESPONSE", "IPC_ERROR", "UNKNOWN"}
Statuses == {"Info", "Running", "Completed", "Failed"}

(* on_connected and on_offline *)
Init ==
  /\ EditorInit
  /\ \/ link = "open"
        /\ entries = <<[kind |-> "CONNECTED", status |-> "Completed"]>>
     \/ link = "off"
        /\ entries = <<[kind |-> "OFFLINE", status |-> "Failed"]>>
  /\ lines = <<>>
  /\ lost = FALSE
  /\ messages = <<>>
  /\ recorder = 0
  /\ recordings = 0
  /\ writing = FALSE
  /\ clip = 0
  /\ spoken = Silence
  /\ sent = <<>>
  /\ served = 0
  /\ at = 0
  /\ replied = {}

-----------------------------------------------------------------------------
(* The event list and the conversation.                                     *)

Entry(kind, status) == [kind |-> kind, status |-> status]

(* EventLog::push: what is over the cap is drained from the front. *)
Push(kind, status) ==
  LET all == Append(entries, Entry(kind, status)) IN
  entries' = IF Len(all) > MaxEntries THEN Tail(all) ELSE all

(* EventLog::bump_last *)
BumpLast(kind, status) ==
  IF entries # <<>> /\ Last(entries).kind = kind
  THEN entries' = [entries EXCEPT ![Len(entries)].status = status]
  ELSE Push(kind, status)

Message(author, text) == [author |-> author, text |-> text]

LastIsOrion == messages # <<>> /\ Last(messages).author = "Orion"

(* Variant: a reply that follows a reply goes on in its bubble. *)
BeginMessageOnce ==
  messages' = IF LastIsOrion THEN messages
              ELSE Append(messages, Message("Orion", <<>>))

(* begin_assistant_message *)
BeginMessage == messages' = Append(messages, Message("Orion", <<>>))

(* Variant: a chunk that finds no bubble of its own is dropped. *)
AppendChunkOrDrop(q) ==
  messages' = IF LastIsOrion
              THEN [messages EXCEPT ![Len(messages)].text = Append(@, q)]
              ELSE messages

(* append_assistant_chunk: to the last message if it is a reply, else to a  *)
(* new one.                                                                 *)
AppendChunk(q) ==
  messages' = IF LastIsOrion
              THEN [messages EXCEPT ![Len(messages)].text = Append(@, q)]
              ELSE Append(messages, Message("Orion", <<q>>))

(* last_assistant_text: of the last message that is a reply. *)
Replies == {i \in DOMAIN messages : messages[i].author = "Orion"}
LastAssistantText ==
  IF Replies = {} THEN <<>> ELSE messages[Max(Replies)].text

-----------------------------------------------------------------------------
(* The keys.  While the file of a recording is written nothing else happens *)
(* in the client.                                                           *)

Awake == ~ panicked /\ ~ writing

Key ==
  /\ Awake
  /\ EditorStep
  /\ UNCHANGED <<socketVars, viewVars, audioVars, runtimeVars, spoken,
                 sent>>

(* submit_prompt with something in the line: to the runtime if there is     *)
(* one, and into the conversation.  When the connection is gone the send    *)
(* fails and the line is kept.                                              *)
SubmitPrompt ==
  /\ Awake
  /\ Typing
  /\ ~ IsBlank
  /\ Len(messages) < MaxMessages
  /\ \/ /\ link = "open"
        /\ Len(sent) < MaxRequests
        /\ sent' = Append(sent, 0)
     \/ link = "off" /\ UNCHANGED sent
  /\ ClearLine
  /\ messages' = Append(messages, Message("User", <<>>))
  /\ Push("PROMPT", "Info")
  /\ UNCHANGED <<socketVars, audioVars, runtimeVars, spoken>>

Command == Awake /\ input_mode = "Normal"

InterruptSpeech ==
  /\ Command
  /\ spoken' = Silence
  /\ UNCHANGED <<editorVars, socketVars, viewVars, audioVars, runtimeVars,
                 sent>>

(* start_recording stops the speech, whether or not there is a microphone. *)
StartRecording ==
  /\ Command
  /\ recorder = 0
  /\ recordings < MaxRecordings
  /\ spoken' = Silence
  /\ \/ /\ recordings' = recordings + 1
        /\ recorder' = recordings + 1
        /\ Push("VOICE_START", "Running")
     \/ Push("VOICE_START", "Failed") /\ UNCHANGED <<recorder, recordings>>
  /\ UNCHANGED <<editorVars, socketVars, messages, writing, clip, runtimeVars,
                 sent>>

(* Variant: the runtime is told before the file is complete. *)
StopRecordingEarly ==
  /\ Command
  /\ recorder # 0
  /\ Len(sent) < MaxRequests
  /\ writing' = TRUE
  /\ clip' = Torn
  /\ sent' = IF link = "open" THEN Append(sent, recorder) ELSE sent
  /\ UNCHANGED <<editorVars, socketVars, viewVars, recorder, recordings,
                 runtimeVars, spoken>>

(* stop_recording: finish creates the file anew, or fails to ... *)
StopRecording ==
  /\ Command
  /\ recorder # 0
  /\ Len(sent) < MaxRequests
  /\ \/ writing' = TRUE /\ clip' = Torn /\ UNCHANGED <<recorder, entries>>
     \/ recorder' = 0 /\ Push("VOICE_END", "Failed")
                      /\ UNCHANGED <<writing, clip>>
  /\ UNCHANGED <<editorVars, socketVars, messages, recordings, runtimeVars,
                 spoken, sent>>

(* ... and writes the samples, before the runtime is sent its path. *)
FinishRecording ==
  /\ writing
  /\ writing' = FALSE
  /\ recorder' = 0
  /\ \/ /\ clip' = recorder
        /\ Push("VOICE_END", "Completed")
        /\ sent' = IF link = "open" THEN Append(sent, recorder) ELSE sent
     \/ Push("VOICE_END", "Failed") /\ UNCHANGED <<clip, sent>>
  /\ UNCHANGED <<editorVars, socketVars, messages, recordings, runtimeVars,
                 spoken>>

-----------------------------------------------------------------------------
(* Reading.                                                                 *)

(* A line of a type that RuntimeEvent has no variant for. *)
Unsupported == Push("UNKNOWN", "Info") /\ UNCHANGED <<messages, spoken>>

(* handle_runtime_event, on what the runtime sends. *)
Handle(line) ==
  \/ line.type = "submit_prompt" /\ Unsupported
  \/ /\ line.type = "assistant_start"
     /\ BeginMessage
     /\ Push("RESPONSE", "Running")
     /\ UNCHANGED spoken
  \/ /\ line.type = "assistant_chunk"
     /\ AppendChunk(line.req)
     /\ BumpLast("RESPONSE", "Running")
     /\ UNCHANGED spoken
  \/ /\ line.type = "assistant_end"
     /\ BumpLast("RESPONSE", "Completed")
     /\ spoken' = IF LastAssistantText = <<>> THEN spoken
                  ELSE [req |-> line.req, text |-> LastAssistantText]
     /\ UNCHANGED messages

(* Variant: an undecodable line is skipped. *)
OnIpcErrorQuiet == UNCHANGED <<viewVars, spoken>>

OnIpcError == Push("IPC_ERROR", "Failed") /\ UNCHANGED <<messages, spoken>>

(* Variant: nothing is read during a recording. *)
ReadLineUnlessRecording ==
  /\ Awake
  /\ recorder = 0
  /\ link # "off"
  /\ lines # <<>>
  /\ lines' = Tail(lines)
  /\ IF Head(lines).torn THEN OnIpcError ELSE Handle(Head(lines))
  /\ UNCHANGED <<editorVars, link, lost, audioVars, runtimeVars, sent>>

(* next_event returns: a line that cannot be decoded is an error like any   *)
(* other, and the loop reads on.                                            *)
ReadLine ==
  /\ Awake
  /\ link # "off"
  /\ lines # <<>>
  /\ lines' = Tail(lines)
  /\ IF Head(lines).torn THEN OnIpcError ELSE Handle(Head(lines))
  /\ UNCHANGED <<editorVars, link, lost, audioVars, runtimeVars, sent>>

(* After the last line every read fails at once, as often as the loop gets  *)
(* to it.                                                                   *)
ReadEnd ==
  /\ Awake
  /\ link = "gone"
  /\ lines = <<>>
  /\ OnIpcError
  /\ UNCHANGED <<editorVars, socketVars, audioVars, runtimeVars, sent>>

(* A tick or a key ends the select while a part of a line has been read:    *)
(* tokio's read_line, dropped in the middle, makes no promise for that part *)
(* (it keeps it in the future, not in read_buf).                            *)
CancelRead ==
  /\ Awake
  /\ link # "off"
  /\ lines # <<>>
  /\ ~ Head(lines).torn
  /\ lines' = [lines EXCEPT ![1].torn = TRUE]
  /\ lost' = TRUE
  /\ UNCHANGED <<editorVars, link, viewVars, audioVars, runtimeVars,
                 spoken, sent>>

-----------------------------------------------------------------------------
(* The runtime, as far as this client sees it (ChatPipeline).  Once the     *)
(* client has broken off it is of no concern what it writes.                *)

Serving == link = "open" /\ ~ panicked

(* It takes up a request; for a recording it reads the file and may hear    *)
(* nothing in it.                                                           *)
RuntimeTakes ==
  LET q == served + 1 IN
  /\ Serving
  /\ at = 0
  /\ served < Len(sent)
  /\ served' = q
  /\ at' \in IF sent[q] = 0 THEN {1} ELSE {0, 1}
  /\ UNCHANGED <<editorVars, socketVars, viewVars, audioVars, replied,
                 spoken, sent>>

RuntimeWrites ==
  /\ Serving
  /\ at # 0
  /\ Len(lines) < MaxLines
  /\ lines' = Append(lines,
                     [type |-> Script[at], req |-> served, torn |-> FALSE])
  /\ at' = IF at = Len(Script) THEN 0 ELSE at + 1
  /\ replied' = IF Script[at] = "assistant_chunk"
                THEN replied \union {served} ELSE replied
  /\ UNCHANGED <<editorVars, link, lost, viewVars, audioVars, served,
                 spoken, sent>>

(* The pipeline fails after the echo: the rest of the script is not sent. *)
RuntimeFails ==
  /\ Serving
  /\ at > 1
  /\ at' = 0
  /\ UNCHANGED <<editorVars, socketVars, viewVars, audioVars, served,
                 replied, spoken, sent>>

RuntimeGone ==
  /\ Serving
  /\ link' = "gone"
  /\ UNCHANGED <<editorVars, lines, lost, viewVars, audioVars, runtimeVars,
                 spoken, sent>>

-----------------------------------------------------------------------------
Next ==
  \/ Key
  \/ SubmitPrompt
  \/ InterruptSpeech
  \/ StartRecording
  \/ StopRecording
  \/ FinishRecording
  \/ ReadLine
  \/ ReadEnd
  \/ CancelRead
  \/ RuntimeTakes
  \/ RuntimeWrites
  \/ RuntimeFails
  \/ RuntimeGone

Spec == Init /\ [][Next]_vars

(* The loop selects again as long as the client runs, and select! picks a   *)
(* ready branch at random, so none is passed over for ever.  Nothing is     *)
(* assumed of the user or of the runtime.                                   *)
Fairness == WF_vars(ReadLine) /\ WF_vars(FinishRecording)

FairSpec == Spec /\ Fairness

-----------------------------------------------------------------------------
Requests == 1..Len(sent)

(* Types: the state is of the shape the code gives it, and the event list   *)
(* never grows over its cap.                                                *)
TypeOK ==
  /\ EditorTypeOK
  /\ link \in {"off", "open", "gone"}
  /\ lines \in Seq([type : ToSet(Script), req : Requests, torn : BOOLEAN])
  /\ lost \in BOOLEAN
  /\ messages \in Seq([author : {"User", "Orion"}, text : Seq(Requests)])
  /\ entries \in Seq([kind : Kinds, status : Statuses])
  /\ Len(entries) <= MaxEntries
  /\ recorder \in 0..recordings
  /\ recordings \in 0..MaxRecordings
  /\ writing \in BOOLEAN
  /\ clip \in {Torn} \union 0..recordings
  /\ spoken \in [req : {0} \union Requests, text : Seq(Requests)]
  /\ sent \in Seq(0..recordings)
  /\ served \in {0} \union Requests
  /\ at \in 0..Len(Script)
  /\ replied \subseteq Requests

OnSocket(q) ==
  {i \in DOMAIN lines : lines[i].req = q /\ lines[i].type = "assistant_chunk"}

Shown(q) ==
  {p \in (DOMAIN messages) \X Requests :
     p[2] \in DOMAIN messages[p[1]].text /\ messages[p[1]].text[p[2]] = q}

(* A reply that was written is on its way or in the conversation, and never *)
(* twice, wherever the user was with the next prompt when it came; it can   *)
(* be missing only if a line was damaged in reading.                        *)
RepliesShown ==
  \A q \in replied :
    /\ Cardinality(OnSocket(q)) + Cardinality(Shown(q)) <= 1
    /\ ~ lost => OnSocket(q) \union Shown(q) # {}

(* As long as no line is damaged, what the client speaks is the reply that  *)
(* has just ended and no other: although the script may stop anywhere, and  *)
(* the speech is taken from the last bubble of the conversation.            *)
SpokenIsReply ==
  spoken # Silence /\ ~ lost => spoken.text = <<spoken.req>>

(* What the event list says has been completed stays so until it is the     *)
(* oldest of a full list: chunks are coalesced into the entry of their own  *)
(* reply, also when lines are lost in between.                              *)
CompletedStays ==
  [][\A i \in DOMAIN entries :
       entries[i].status = "Completed" =>
         \/ i \in DOMAIN entries' /\ entries'[i] = entries[i]
         \/ /\ Len(entries) = MaxEntries
            /\ i = 1 \/ entries'[i - 1] = entries[i]]_vars

(* What the runtime transcribes for a recording is that recording, complete *)
(* on disk, unless the user has recorded again before it got to it: every   *)
(* recording goes to the same path.                                         *)
HeardItsClip ==
  [][LET r == sent[served'] IN
     served' # served /\ r # 0 => clip = r \/ recordings > r]_vars

(* Every line is read, whatever was wrong with those before it, unless the  *)
(* client breaks off.                                                       *)
LinesServed == lines # <<>> ~> (lines = <<>> \/ panicked)

(* No message is corrupted or lost because a tick or a key interrupted its  *)
(* reading, as the comments on read_buf and receive say: a reply that is no *)
(* longer on the socket is in the conversation.                             *)
NoMessageLost == \A q \in replied : OnSocket(q) \union Shown(q) # {}
=============================================================================
