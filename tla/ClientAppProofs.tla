--------------------------- MODULE ClientAppProofs ---------------------------
(***************************************************************************)
(* The client for any line, any number of requests, recordings and lines,  *)
(* and an event list of any length: what is transcribed is the recording   *)
(* that was made, what was completed stays so, every reply is shown once,  *)
(* and what is spoken is the reply that has ended.                         *)
(***************************************************************************)
EXTENDS ClientApp, PromptEditorProofs, FiniteSetTheorems

-----------------------------------------------------------------------------
(* The inductive invariants.                                                *)

(* What is written is a recording in progress; that is the last one begun,  *)
(* and was not sent; what was sent is in the file or a later recording has  *)
(* been begun.                                                              *)
ClipInv ==
  /\ writing => recorder # 0
  /\ recorder # 0 =>
       recorder = recordings /\ \A i \in DOMAIN sent : sent[i] < recorder
  /\ \A i \in DOMAIN sent :
       sent[i] # 0 => clip = sent[i] \/ recordings > sent[i]

(* The lines on the socket follow the script, up to the one that is written *)
(* next, and only a damaged one counts as lost.                             *)
ScriptInv ==
  /\ \A i \in DOMAIN lines :
       /\ lines[i].torn => lost
       /\ i # 1 /\ lines[i].type = "assistant_chunk" =>
            lines[i - 1].type = "assistant_start"
       /\ i # 1 /\ lines[i].type = "assistant_end" =>
            /\ lines[i - 1].type = "assistant_chunk"
            /\ lines[i - 1].req = lines[i].req
  /\ lines # <<>> /\ at = 3 => lines[Len(lines)].type = "assistant_start"
  /\ lines # <<>> /\ at = 4 =>
       /\ lines[Len(lines)].type = "assistant_chunk"
       /\ lines[Len(lines)].req = served

(* What is read next, or if nothing waits, written next. *)
NextType ==
  IF lines # <<>> THEN lines[1].type ELSE IF at = 0 THEN "none" ELSE Script[at]

NextReq == IF lines # <<>> THEN lines[1].req ELSE served

(* The event list ends with a reply that is completed. *)
Ended == entries # <<>> /\ entries[Len(entries)] = Entry("RESPONSE", "Completed")

(* The conversation does not end with a reply that has a text. *)
Open == LastIsOrion => messages[Len(messages)].text = <<>>

(* A chunk finds the entry of its own reply, or none, and its bubble empty; *)
(* the end of a reply finds that the last reply is its own.                 *)
HeadInv ==
  /\ NextType = "assistant_chunk" => ~ Ended /\ (~ lost => Open)
  /\ NextType = "assistant_end" /\ ~ lost => LastAssistantText = <<NextReq>>

(* A reply is in the bubble m of the conversation, at the place t.          *)
InBubble(q, m, t) ==
  /\ m \in DOMAIN messages
  /\ t \in DOMAIN messages[m].text
  /\ messages[m].text[t] = q

IsChunk(i) == i \in DOMAIN lines /\ lines[i].type = "assistant_chunk"

(* A reply is on the socket. *)
Waiting(q) == \E i \in DOMAIN lines : IsChunk(i) /\ lines[i].req = q

(* A reply that was written is of a request taken up, and the one that is   *)
(* written next was not written before.                                     *)
WrittenOnce ==
  /\ \A q \in replied : q <= served
  /\ at \in 1..3 => served \notin replied

(* The replies on the socket were written, each once. *)
WaitingOnce ==
  /\ \A i \in DOMAIN lines : IsChunk(i) => lines[i].req \in replied
  /\ \A i, j \in DOMAIN lines :
       IsChunk(i) /\ IsChunk(j) /\ lines[i].req = lines[j].req => i = j

(* Those in the conversation were written too and are not on the socket any *)
(* more, and each is in one place.                                          *)
BubbleOnce ==
  /\ \A m, t : \A q : InBubble(q, m, t) => q \in replied /\ ~ Waiting(q)
  /\ \A q, m, t, k, u :
       InBubble(q, m, t) /\ InBubble(q, k, u) => k = m /\ u = t

(* None is missing but for a line that was damaged, and the others begin a  *)
(* bubble.                                                                  *)
NoneMissing ==
  ~ lost => \A q \in replied : Waiting(q) \/ \E m : InBubble(q, m, 1)

OnceInv == WrittenOnce /\ WaitingOnce /\ BubbleOnce /\ NoneMissing

-----------------------------------------------------------------------------
(* The event list.                                                          *)

EntrySet == [kind : Kinds, status : Statuses]

(* An entry of the list before a step is in its place after it, or it was   *)
(* the oldest of a full list or has come forward by one.                    *)
StaysOrDrops(i) ==
  \/ i \in DOMAIN entries' /\ entries'[i] = entries[i]
  \/ /\ Len(entries) = MaxEntries
     /\ i = 1 \/ entries'[i - 1] = entries[i]

(* An entry that is pushed is the last one of a list that is not over its   *)
(* cap, and the others stay or drop.                                        *)
LEMMA PushEffect ==
  ASSUME TypeOK, NEW k \in Kinds, NEW st \in Statuses, Push(k, st)
  PROVE  /\ entries' \in Seq(EntrySet)
         /\ Len(entries') <= MaxEntries
         /\ entries' # <<>>
         /\ entries'[Len(entries')] = Entry(k, st)
         /\ \A i \in DOMAIN entries : StaysOrDrops(i)
<1> DEFINE e == Entry(k, st)
           all == Append(entries, e)
<1>1. /\ entries \in Seq(EntrySet) /\ Len(entries) <= MaxEntries
      /\ Len(entries) \in Nat /\ MaxEntries \in Nat \ {0}
  BY ClientAssumption DEF TypeOK, EntrySet
<1>2. e \in EntrySet
  BY DEF Entry, EntrySet
<1>3. entries' = IF Len(all) > MaxEntries THEN Tail(all) ELSE all
  BY DEF Push
<1> HIDE DEF e
<1>4. /\ all \in Seq(EntrySet) /\ Len(all) = Len(entries) + 1
      /\ all[Len(entries) + 1] = e
      /\ \A i \in DOMAIN entries : i \in DOMAIN all /\ all[i] = entries[i]
  BY <1>1, <1>2
<1> HIDE DEF all
<1>5. CASE Len(all) > MaxEntries
  <2>1. Len(entries) = MaxEntries /\ Len(entries) > 0
    BY <1>1, <1>4, <1>5
  <2>2. /\ entries' \in Seq(EntrySet) /\ Len(entries') = Len(entries)
        /\ \A i \in 1..Len(entries) : entries'[i] = all[i + 1]
    <3>1. entries' = Tail(all) /\ all # <<>>
      BY <1>1, <1>3, <1>4, <1>5
    <3>2. /\ Tail(all) \in Seq(EntrySet) /\ Len(Tail(all)) = Len(all) - 1
          /\ \A i \in 1..(Len(all) - 1) : Tail(all)[i] = all[i + 1]
      BY <1>4, <3>1
    <3>3. Len(all) - 1 = Len(entries)
      BY <1>1, <1>4
    <3>4. QED
      BY <3>1, <3>2, <3>3
  <2>3. entries' # <<>> /\ entries'[Len(entries')] = e
    BY <1>1, <1>4, <2>1, <2>2
  <2>4. \A i \in DOMAIN entries : i # 1 => entries'[i - 1] = entries[i]
    <3>1. ASSUME NEW i \in DOMAIN entries, i # 1
          PROVE  i - 1 \in 1..Len(entries) /\ (i - 1) + 1 = i
      BY <1>1, <3>1
    <3>2. QED
      BY <1>4, <2>2, <3>1
  <2>5. QED
    BY <1>1, <2>1, <2>2, <2>3, <2>4 DEF StaysOrDrops, e
<1>6. CASE ~ (Len(all) > MaxEntries)
  <2>1. entries' = all /\ Len(all) <= MaxEntries /\ Len(all) > 0
    BY <1>1, <1>3, <1>4, <1>6
  <2>2. entries' # <<>>
    BY <1>4, <2>1
  <2>3. QED
    BY <1>4, <2>1, <2>2 DEF StaysOrDrops, e
<1>7. QED
  BY <1>5, <1>6

(* An entry that is bumped is the last one then, and of the others none     *)
(* changes; it is a new one unless the last was one of its kind.            *)
LEMMA BumpEffect ==
  ASSUME TypeOK, NEW k \in Kinds, NEW st \in Statuses, BumpLast(k, st)
  PROVE  /\ entries' \in Seq(EntrySet)
         /\ Len(entries') <= MaxEntries
         /\ entries' # <<>>
         /\ entries'[Len(entries')] = Entry(k, st)
         /\ \A i \in DOMAIN entries :
              StaysOrDrops(i) \/ (i = Len(entries) /\ entries[i].kind = k)
<1>1. /\ entries \in Seq(EntrySet) /\ Len(entries) <= MaxEntries
  BY DEF TypeOK, EntrySet
<1>2. CASE entries # <<>> /\ entries[Len(entries)].kind = k
  <2> DEFINE n == Len(entries)
             e == [entries[n] EXCEPT !.status = st]
  <2>1. entries' = [entries EXCEPT ![n] = e]
    BY <1>2 DEF BumpLast, Last
  <2>2. n \in Nat /\ n \in DOMAIN entries /\ DOMAIN entries = 1..n
    BY <1>1, <1>2
  <2>3. e \in EntrySet /\ e = Entry(k, st)
    <3>1. PICK x \in EntrySet : x = entries[n] /\ x.kind = k
      BY <1>1, <1>2, <2>2
    <3>2. e = [x EXCEPT !.status = st]
      BY <3>1
    <3>3. QED
      BY <3>1, <3>2 DEF EntrySet, Entry
  <2> HIDE DEF n, e
  <2>4. /\ entries' \in Seq(EntrySet) /\ Len(entries') = n
        /\ entries'[n] = e
        /\ \A i \in DOMAIN entries : i # n =>
             i \in DOMAIN entries' /\ entries'[i] = entries[i]
    BY <1>1, <2>1, <2>2, <2>3
  <2>5. entries' # <<>>
    BY <2>2, <2>4
  <2>6. \A i \in DOMAIN entries :
          StaysOrDrops(i) \/ (i = Len(entries) /\ entries[i].kind = k)
    BY <1>2, <2>4 DEF StaysOrDrops, n
  <2>7. QED
    BY <1>1, <2>3, <2>4, <2>5, <2>6 DEF n
<1>3. CASE ~ (entries # <<>> /\ entries[Len(entries)].kind = k)
  <2>1. Push(k, st)
    BY <1>3 DEF BumpLast, Last
  <2>2. QED
    BY <2>1, PushEffect
<1>4. QED
  BY <1>2, <1>3

-----------------------------------------------------------------------------
(* What a step may do to the state.                                         *)

(* One more entry that does not complete a reply. *)
Notes ==
  \E k \in Kinds, st \in Statuses :
    Entry(k, st) # Entry("RESPONSE", "Completed") /\ Push(k, st)

(* Keys leave the socket, the runtime and the conversation alone; a prompt  *)
(* that is submitted ends the conversation.                                 *)
UserMove ==
  /\ UNCHANGED <<socketVars, runtimeVars>>
  /\ entries' = entries \/ Notes
  /\ messages' = messages \/ messages' = Append(messages, Message("User", <<>>))
  /\ spoken' = spoken \/ spoken' = Silence
  /\ \/ sent' = sent
     \/ sent' = Append(sent, 0)
     \/ recorder # 0 /\ sent' = Append(sent, recorder)

(* A line is read. *)
ReadMove ==
  /\ lines # <<>>
  /\ lines' = Tail(lines)
  /\ \/ lines[1].torn /\ Notes /\ UNCHANGED <<messages, spoken>>
     \/ ~ lines[1].torn /\ Handle(lines[1])
  /\ UNCHANGED <<link, lost, runtimeVars, audioVars, sent>>

(* The runtime goes on, without writing. *)
RuntimeMove ==
  /\ UNCHANGED <<lines, lost, replied, viewVars, audioVars, spoken, sent>>
  /\ \/ /\ at = 0 /\ served < Len(sent) /\ served' = served + 1
        /\ at' \in {0, 1}
     \/ at > 1 /\ at' = 0 /\ served' = served
     \/ UNCHANGED <<at, served>>

(* A line is damaged. *)
TearMove ==
  /\ lines # <<>>
  /\ lines' = [lines EXCEPT ![1].torn = TRUE]
  /\ lost' = TRUE
  /\ UNCHANGED <<viewVars, audioVars, runtimeVars, spoken, sent>>

(* Every step is one of these. *)
LEMMA Moves ==
  ASSUME TypeOK, [Next]_vars
  PROVE  UserMove \/ ReadMove \/ RuntimeMove \/ RuntimeWrites \/ TearMove
<1> USE DEF socketVars, viewVars, audioVars, runtimeVars
<1>1. /\ {"PROMPT", "VOICE_START", "VOICE_END", "IPC_ERROR", "UNKNOWN"}
           \subseteq Kinds
      /\ {"Info", "Running", "Failed", "Completed"} \subseteq Statuses
      /\ \A k \in Kinds, st \in Statuses :
           k # "RESPONSE" => Entry(k, st) # Entry("RESPONSE", "Completed")
  BY DEF Kinds, Statuses, Entry
<1>2. \A k \in Kinds, st \in Statuses : k # "RESPONSE" /\ Push(k, st) => Notes
  BY <1>1 DEF Notes
<1> HIDE DEF Notes
<1>3. CASE \/ Key \/ SubmitPrompt \/ InterruptSpeech \/ StartRecording
           \/ StopRecording \/ FinishRecording
  BY <1>1, <1>2, <1>3 DEF Key, SubmitPrompt, InterruptSpeech, StartRecording,
     StopRecording, FinishRecording, UserMove
<1>4. CASE ReadLine
  <2>1. Head(lines) = lines[1]
    BY <1>4 DEF ReadLine, TypeOK
  <2>2. QED
    BY <1>1, <1>2, <1>4, <2>1 DEF ReadLine, OnIpcError, ReadMove
<1>5. CASE ReadEnd
  BY <1>1, <1>2, <1>5 DEF ReadEnd, OnIpcError, UserMove
<1>6. CASE CancelRead
  BY <1>6 DEF CancelRead, TearMove
<1>7. CASE RuntimeTakes \/ RuntimeFails \/ RuntimeGone
  BY <1>7 DEF RuntimeTakes, RuntimeFails, RuntimeGone, RuntimeMove
<1>8. CASE UNCHANGED vars
  BY <1>8 DEF vars, RuntimeMove
<1>9. QED
  BY <1>3, <1>4, <1>5, <1>6, <1>7, <1>8 DEF Next

-----------------------------------------------------------------------------
(* The types, each as a function of the number of requests.                 *)

LineSet(n) == [type : ToSet(Script), req : 1..n, torn : BOOLEAN]
MessageSet(n) == [author : {"User", "Orion"}, text : Seq(1..n)]
SpokenSet(n) == [req : {0} \union 1..n, text : Seq(1..n)]

AudioTypes ==
  /\ recorder \in 0..recordings
  /\ recordings \in 0..MaxRecordings
  /\ writing \in BOOLEAN
  /\ clip \in {Torn} \union 0..recordings

EntryTypes == entries \in Seq(EntrySet) /\ Len(entries) <= MaxEntries

LinkTypes == link \in {"off", "open", "gone"} /\ lost \in BOOLEAN

(* The lines, the conversation and what the runtime has done, with at most  *)
(* n requests.                                                              *)
RequestTypes(n) ==
  /\ lines \in Seq(LineSet(n))
  /\ messages \in Seq(MessageSet(n))
  /\ spoken \in SpokenSet(n)
  /\ served \in 0..n
  /\ at \in 0..4
  /\ at # 0 => served # 0
  /\ replied \subseteq 1..n

(* The types, and that a request that is being answered was taken up. *)
ClientTypes ==
  /\ EditorInv
  /\ LinkTypes
  /\ EntryTypes
  /\ AudioTypes
  /\ sent \in Seq(0..recordings)
  /\ RequestTypes(Len(sent))

(* This is the type invariant, and that only a wide character breaks the    *)
(* client off.                                                              *)
LEMMA TypeParts ==
  ClientTypes <=> TypeOK /\ PanicNeedsWide /\ (at # 0 => served # 0)
<1>1. Len(Script) = 4 /\ Requests = 1..Len(sent)
  BY DEF Script, Requests
<1>2. ASSUME sent \in Seq(0..recordings)
      PROVE  {0} \union 1..Len(sent) = 0..Len(sent)
  <2>1. Len(sent) \in Nat
    BY <1>2
  <2>2. QED
    BY <2>1
<1>3. QED
  BY <1>1, <1>2 DEF ClientTypes, TypeOK, EditorInv, LinkTypes, EntryTypes,
     AudioTypes, RequestTypes, LineSet, MessageSet, SpokenSet, EntrySet

(* One more request leaves everything of its type. *)
LEMMA MoreRequests ==
  ASSUME NEW n \in Nat, NEW m \in Nat, n <= m, RequestTypes(n)
  PROVE  RequestTypes(m)
<1>1. 1..n \subseteq 1..m /\ 0..n \subseteq 0..m
  OBVIOUS
<1>2. Seq(1..n) \subseteq Seq(1..m)
  BY <1>1
<1>3. /\ LineSet(n) \subseteq LineSet(m) /\ MessageSet(n) \subseteq MessageSet(m)
      /\ SpokenSet(n) \subseteq SpokenSet(m)
  BY <1>1, <1>2 DEF LineSet, MessageSet, SpokenSet
<1>4. lines \in Seq(LineSet(m)) /\ messages \in Seq(MessageSet(m))
  <2>1. lines \in Seq(LineSet(n)) /\ messages \in Seq(MessageSet(n))
    BY DEF RequestTypes
  <2> HIDE DEF RequestTypes, LineSet, MessageSet
  <2>2. QED
    BY <1>3, <2>1
<1>5. QED
  BY <1>1, <1>3, <1>4 DEF RequestTypes

(* The lines of the script are those that the runtime writes. *)
LEMMA ScriptLines ==
  /\ ToSet(Script) = {"submit_prompt", "assistant_start", "assistant_chunk",
                      "assistant_end"}
  /\ \A k \in 1..4 : Script[k] \in ToSet(Script)
  /\ Len(Script) = 4
  /\ Script[1] = "submit_prompt" /\ Script[2] = "assistant_start"
  /\ Script[3] = "assistant_chunk" /\ Script[4] = "assistant_end"
<1>1. DOMAIN Script = 1..4 /\ Len(Script) = 4
  BY DEF Script
<1>2. /\ Script[1] = "submit_prompt" /\ Script[2] = "assistant_start"
      /\ Script[3] = "assistant_chunk" /\ Script[4] = "assistant_end"
  BY DEF Script
<1>3. ToSet(Script) = {Script[k] : k \in 1..4}
  BY <1>1 DEF ToSet
<1>4. \A k \in 1..4 : k = 1 \/ k = 2 \/ k = 3 \/ k = 4
  OBVIOUS
<1> HIDE DEF Script
<1>5. QED
  BY <1>1, <1>2, <1>3, <1>4

(* A request is sent: what it is for is not newer than the last recording.  *)
LEMMA SentGrows ==
  ASSUME ClientTypes, NEW r \in 0..recordings, sent' = Append(sent, r),
         UNCHANGED <<lines, messages, spoken, served, at, replied, recordings>>
  PROVE  sent' \in Seq(0..recordings') /\ RequestTypes(Len(sent))'
<1>1. sent \in Seq(0..recordings) /\ RequestTypes(Len(sent))
  BY DEF ClientTypes
<1>2. PICK n \in Nat : n = Len(sent)
  BY <1>1
<1>3. sent' \in Seq(0..recordings') /\ Len(sent') = n + 1
  BY <1>1, <1>2
<1>4. RequestTypes(n + 1)
  BY <1>1, <1>2, MoreRequests
<1>5. QED
  BY <1>3, <1>4 DEF RequestTypes

(* Neither a longer conversation nor another speech changes the rest.       *)
LEMMA ViewStep ==
  ASSUME NEW n \in Nat, RequestTypes(n),
         messages' \in Seq(MessageSet(n)), spoken' \in SpokenSet(n),
         UNCHANGED <<lines, served, at, replied>>
  PROVE  RequestTypes(n)'
BY DEF RequestTypes

(* An empty message of either author can be added, and silence is a speech. *)
LEMMA MessageAdded ==
  ASSUME NEW n \in Nat, messages \in Seq(MessageSet(n)),
         NEW a \in {"User", "Orion"}, NEW t \in Seq(1..n)
  PROVE  /\ Append(messages, Message(a, t)) \in Seq(MessageSet(n))
         /\ Silence \in SpokenSet(n)
<1>1. Message(a, t) \in MessageSet(n)
  BY DEF Message, MessageSet
<1>2. <<>> \in Seq(1..n)
  OBVIOUS
<1>3. QED
  BY <1>1, <1>2 DEF Silence, SpokenSet

(* More recordings. *)
LEMMA MoreRecordings ==
  ASSUME NEW a \in Nat, NEW b \in Nat, a <= b, NEW s \in Seq(0..a)
  PROVE  s \in Seq(0..b)
<1>1. 0..a \subseteq 0..b
  OBVIOUS
<1>2. QED
  BY <1>1

(* The list after a push or a bump. *)
LEMMA PushTypes ==
  ASSUME ClientTypes, NEW k \in Kinds, NEW st \in Statuses,
         Push(k, st) \/ BumpLast(k, st)
  PROVE  EntryTypes'
<1>1. TypeOK
  BY TypeParts
<1>2. QED
  BY <1>1, PushEffect, BumpEffect DEF EntryTypes

(* The keys. *)
LEMMA KeyTypes ==
  ASSUME ClientTypes,
         Key \/ SubmitPrompt \/ InterruptSpeech \/ StartRecording
             \/ StopRecording \/ FinishRecording
  PROVE  ClientTypes'
<1> USE DEF socketVars, viewVars, audioVars, runtimeVars
<1>1. /\ {"PROMPT", "VOICE_START", "VOICE_END", "IPC_ERROR", "UNKNOWN"}
           \subseteq Kinds
      /\ {"Info", "Running", "Failed", "Completed"} \subseteq Statuses
  BY DEF Kinds, Statuses
<1>2. PICK n \in Nat : /\ n = Len(sent) /\ sent \in Seq(0..recordings)
                       /\ RequestTypes(n)
  BY DEF ClientTypes
<1>3. /\ messages \in Seq(MessageSet(n)) /\ <<>> \in Seq(1..n)
      /\ spoken \in SpokenSet(n)
  BY <1>2 DEF RequestTypes
<1>4. /\ Append(messages, Message("User", <<>>)) \in Seq(MessageSet(n))
      /\ Silence \in SpokenSet(n)
  BY <1>3, MessageAdded
<1>5. /\ EditorInv /\ LinkTypes /\ EntryTypes /\ AudioTypes
      /\ MaxRecordings \in Nat /\ recordings \in Nat
  BY ClientAssumption DEF ClientTypes, AudioTypes
<1>6. ASSUME UNCHANGED editorVars
      PROVE  EditorInv'
  BY <1>5, <1>6 DEF editorVars, EditorInv, EditorTypeOK, PanicNeedsWide
<1>7. ASSUME UNCHANGED <<messages, spoken, lines, served, at, replied, sent>>
      PROVE  RequestTypes(Len(sent))'
  BY <1>2, <1>7 DEF RequestTypes
<1>8. CASE Key
  <2>1. EditorInv'
    BY <1>5, <1>8, EditorStepInv DEF Key
  <2>2. RequestTypes(Len(sent))'
    BY <1>7, <1>8 DEF Key
  <2>3. QED
    BY <1>2, <1>5, <1>8, <2>1, <2>2
    DEF Key, ClientTypes, LinkTypes, EntryTypes, AudioTypes
<1>9. CASE SubmitPrompt
  <2>1. EditorInv'
    BY <1>5, <1>9, ClearInv DEF SubmitPrompt
  <2>2. EntryTypes'
    BY <1>1, <1>9, PushTypes DEF SubmitPrompt
  <2>3. RequestTypes(n)'
    BY <1>2, <1>3, <1>4, <1>9, ViewStep DEF SubmitPrompt
  <2>4. sent' \in Seq(0..recordings') /\ RequestTypes(Len(sent))'
    <3>1. CASE sent' = sent
      BY <1>2, <1>9, <2>3, <3>1 DEF SubmitPrompt
    <3>2. CASE sent' = Append(sent, 0)
      <4>1. 0 \in 0..recordings
        BY <1>5
      <4>2. Len(sent') = n + 1 /\ sent' \in Seq(0..recordings')
        BY <1>2, <1>9, <3>2, <4>1 DEF SubmitPrompt
      <4>3. RequestTypes(n + 1)'
        <5>1. RequestTypes(n + 1)
          BY <1>2, MoreRequests
        <5>2. Append(messages, Message("User", <<>>)) \in Seq(MessageSet(n + 1))
          <6>1. PICK m \in Nat : m = n + 1
            BY <1>2
          <6>2. messages \in Seq(MessageSet(m)) /\ <<>> \in Seq(1..m)
            BY <5>1, <6>1 DEF RequestTypes
          <6>3. QED
            BY <6>1, <6>2, MessageAdded
        <5>3. spoken \in SpokenSet(n + 1)
          BY <5>1 DEF RequestTypes
        <5>4. QED
          BY <1>9, <5>1, <5>2, <5>3, ViewStep DEF SubmitPrompt
      <4>4. QED
        BY <4>2, <4>3
    <3>3. QED
      BY <1>9, <3>1, <3>2 DEF SubmitPrompt
  <2>5. QED
    BY <1>2, <1>5, <1>9, <2>1, <2>2, <2>4
    DEF SubmitPrompt, ClientTypes, LinkTypes, AudioTypes
<1>10. CASE InterruptSpeech
  <2>1. RequestTypes(n)'
    BY <1>2, <1>3, <1>4, <1>10, ViewStep DEF InterruptSpeech
  <2>2. QED
    BY <1>2, <1>5, <1>6, <1>10, <2>1
    DEF InterruptSpeech, ClientTypes, LinkTypes, EntryTypes, AudioTypes
<1>11. CASE StartRecording
  <2>1. RequestTypes(n)'
    BY <1>2, <1>3, <1>4, <1>11, ViewStep DEF StartRecording
  <2>2. EntryTypes'
    BY <1>1, <1>11, PushTypes DEF StartRecording
  <2>3. AudioTypes' /\ recordings <= recordings' /\ recordings' \in Nat
    BY <1>5, <1>11 DEF StartRecording, AudioTypes
  <2>4. sent' \in Seq(0..recordings')
    BY <1>2, <1>5, <1>11, <2>3, MoreRecordings DEF StartRecording
  <2>5. QED
    BY <1>2, <1>5, <1>6, <1>11, <2>1, <2>2, <2>3, <2>4
    DEF StartRecording, ClientTypes, LinkTypes
<1>12. CASE StopRecording
  <2>1. EntryTypes'
    BY <1>1, <1>5, <1>12, PushTypes DEF StopRecording, EntryTypes
  <2>2. AudioTypes'
    <3>1. /\ recorder' = recorder \/ recorder' = 0
          /\ clip' = Torn \/ clip' = clip
          /\ writing' = TRUE \/ writing' = writing
          /\ recordings' = recordings
      BY <1>12 DEF StopRecording
    <3>2. writing' \in BOOLEAN
      BY <1>5, <3>1 DEF AudioTypes
    <3>3. recorder' \in 0..recordings' /\ clip' \in {Torn} \union 0..recordings'
      BY <1>5, <3>1 DEF AudioTypes
    <3>4. QED
      BY <1>5, <3>1, <3>2, <3>3 DEF AudioTypes
  <2>3. RequestTypes(Len(sent))'
    BY <1>7, <1>12 DEF StopRecording
  <2>4. QED
    BY <1>2, <1>5, <1>6, <1>12, <2>1, <2>2, <2>3
    DEF StopRecording, ClientTypes, LinkTypes
<1>13. CASE FinishRecording
  <2>1. EntryTypes'
    BY <1>1, <1>13, PushTypes DEF FinishRecording
  <2>2. AudioTypes'
    <3>1. /\ recorder' = 0 /\ writing' = FALSE /\ recordings' = recordings
          /\ clip' = recorder \/ clip' = clip
      BY <1>13 DEF FinishRecording
    <3>2. writing' \in BOOLEAN
      BY <1>5, <3>1 DEF AudioTypes
    <3>3. recorder' \in 0..recordings' /\ clip' \in {Torn} \union 0..recordings'
      BY <1>5, <3>1 DEF AudioTypes
    <3>4. QED
      BY <1>5, <3>1, <3>2, <3>3 DEF AudioTypes
  <2>3. sent' \in Seq(0..recordings') /\ RequestTypes(Len(sent))'
    <3>1. CASE sent' = sent
      BY <1>2, <1>7, <1>13, <3>1 DEF FinishRecording
    <3>2. CASE sent' = Append(sent, recorder)
      <4>1. recorder \in 0..recordings
        BY <1>5 DEF AudioTypes
      <4>2. QED
        BY <1>13, <3>2, <4>1, SentGrows DEF FinishRecording
    <3>3. QED
      BY <1>13, <3>1, <3>2 DEF FinishRecording
  <2>4. QED
    BY <1>5, <1>6, <1>13, <2>1, <2>2, <2>3
    DEF FinishRecording, ClientTypes, LinkTypes
<1>14. QED
  BY <1>8, <1>9, <1>10, <1>11, <1>12, <1>13

-----------------------------------------------------------------------------
(* The last reply in the conversation.                                      *)

(* A set of places in a sequence has a greatest one. *)
LEMMA Greatest ==
  ASSUME NEW n \in Nat, NEW T, T \subseteq 1..n, T # {}
  PROVE  Max(T) \in T /\ \A x \in T : x <= Max(T)
<1> DEFINE D == {d \in Nat : n - d \in T}
<1>1. ASSUME NEW x \in T
      PROVE  x \in 1..n /\ n - x \in D /\ n - (n - x) = x
  <2>1. x \in 1..n
    OBVIOUS
  <2>2. n - x \in Nat /\ n - (n - x) = x
    BY <2>1
  <2>3. QED
    BY <2>1, <2>2
<1>2. D \subseteq Nat /\ D # {}
  BY <1>1
<1>3. PICK d \in D : \A m \in D : d <= m
  <2> HIDE DEF D
  <2>1. QED
    BY <1>2, LeastNatural
<1>4. n - d \in T /\ d \in Nat
  OBVIOUS
<1>5. ASSUME NEW x \in T
      PROVE  n - d >= x
  <2>1. x \in 1..n /\ d <= n - x
    BY <1>1, <1>3
  <2>2. QED
    BY <1>4, <2>1
<1>6. \E b \in T : \A x \in T : b >= x
  BY <1>4, <1>5
<1>7. Max(T) \in T /\ \A x \in T : Max(T) >= x
  BY <1>6 DEF Max
<1>8. QED
  <2>1. Max(T) \in 1..n
    BY <1>7
  <2>2. QED
    BY <1>7, <2>1

(* The reply at a place after which there is none is the last one. *)
LEMMA GreatestIs ==
  ASSUME NEW n \in Nat, NEW T, T \subseteq 1..n, NEW b \in T,
         \A x \in T : x <= b
  PROVE  Max(T) = b
<1>1. Max(T) \in T /\ \A x \in T : x <= Max(T)
  BY Greatest
<1>2. b <= Max(T) /\ Max(T) <= b /\ b \in 1..n /\ Max(T) \in 1..n
  BY <1>1
<1>3. QED
  BY <1>2

(* The text of the last reply is one. *)
LEMMA LastTextType ==
  ASSUME NEW n \in Nat, messages \in Seq(MessageSet(n))
  PROVE  LastAssistantText \in Seq(1..n)
<1>1. CASE Replies = {}
  BY <1>1 DEF LastAssistantText
<1>2. CASE Replies # {}
  <2>1. Len(messages) \in Nat /\ Replies \subseteq 1..Len(messages)
    BY DEF Replies
  <2>2. Max(Replies) \in 1..Len(messages)
    BY <1>2, <2>1, Greatest
  <2>3. messages[Max(Replies)] \in MessageSet(n)
    BY <2>2
  <2>4. QED
    BY <1>2, <2>3 DEF LastAssistantText, MessageSet
<1>3. QED
  BY <1>1, <1>2

RepliesOf(ms) == {i \in DOMAIN ms : ms[i].author = "Orion"}

TextOf(ms) == IF RepliesOf(ms) = {} THEN <<>> ELSE ms[Max(RepliesOf(ms))].text

(* A conversation that ends with a reply: that is the last one. *)
LEMMA LastTextAtEnd ==
  ASSUME NEW n \in Nat, NEW ms \in Seq(MessageSet(n)), ms # <<>>,
         ms[Len(ms)].author = "Orion"
  PROVE  TextOf(ms) = ms[Len(ms)].text
<1>1. Len(ms) \in Nat /\ Len(ms) \in DOMAIN ms /\ DOMAIN ms = 1..Len(ms)
  OBVIOUS
<1>2. /\ RepliesOf(ms) \subseteq 1..Len(ms) /\ Len(ms) \in RepliesOf(ms)
      /\ \A x \in RepliesOf(ms) : x <= Len(ms)
  BY <1>1 DEF RepliesOf
<1>3. Max(RepliesOf(ms)) = Len(ms)
  BY <1>1, <1>2, GreatestIs
<1>4. QED
  BY <1>2, <1>3 DEF TextOf

(* A prompt changes nothing about the last reply. *)
LEMMA LastTextStays ==
  ASSUME NEW n \in Nat, NEW ms \in Seq(MessageSet(n))
  PROVE  TextOf(Append(ms, Message("User", <<>>))) = TextOf(ms)
<1> DEFINE m == Message("User", <<>>)
           all == Append(ms, m)
<1>1. m \in MessageSet(n) /\ m.author # "Orion"
  BY DEF Message, MessageSet
<1> HIDE DEF m
<1>2. PICK k \in Nat : k = Len(ms) /\ DOMAIN ms = 1..k
  OBVIOUS
<1>3. /\ DOMAIN all = 1..(k + 1) /\ all[k + 1] = m
      /\ \A i \in DOMAIN ms : all[i] = ms[i]
  BY <1>1, <1>2
<1> HIDE DEF all
<1>4. RepliesOf(all) = RepliesOf(ms)
  BY <1>1, <1>2, <1>3 DEF RepliesOf
<1>5. TextOf(all) = TextOf(ms)
  <2>1. CASE RepliesOf(ms) # {}
    <3>1. RepliesOf(ms) \subseteq 1..k
      BY <1>2 DEF RepliesOf
    <3>2. Max(RepliesOf(ms)) \in 1..k
      BY <2>1, <3>1, Greatest
    <3>3. QED
      BY <1>2, <1>3, <1>4, <3>2 DEF TextOf
  <2>2. CASE RepliesOf(ms) = {}
    BY <1>4, <2>2 DEF TextOf
  <2>3. QED
    BY <2>1, <2>2
<1>6. QED
  BY <1>5 DEF all, m

-----------------------------------------------------------------------------
(* Type correctness.                                                        *)

(* A chunk goes on in the bubble that the conversation ends with, or begins *)
(* one.                                                                     *)
LEMMA ChunkEffect ==
  ASSUME NEW n \in Nat, messages \in Seq(MessageSet(n)), NEW q \in 1..n,
         AppendChunk(q)
  PROVE  /\ messages' \in Seq(MessageSet(n))
         /\ LastIsOrion =>
              LET k == Len(messages) IN
              /\ k \in DOMAIN messages
              /\ Len(messages') = k
              /\ \A m \in DOMAIN messages : m # k => messages'[m] = messages[m]
              /\ messages'[k] = Message("Orion", Append(messages[k].text, q))
         /\ ~ LastIsOrion =>
              messages' = Append(messages, Message("Orion", <<q>>))
<1>1. <<q>> \in Seq(1..n) /\ Message("Orion", <<q>>) \in MessageSet(n)
  BY DEF Message, MessageSet
<1>2. CASE LastIsOrion
  <2>1. PICK k \in Nat : k = Len(messages)
    OBVIOUS
  <2>2. k \in DOMAIN messages /\ messages[k].author = "Orion"
    BY <1>2, <2>1 DEF LastIsOrion, Last
  <2>3. PICK b \in MessageSet(n) : b = messages[k]
    BY <2>2
  <2>4. b.author = "Orion" /\ b.text \in Seq(1..n)
    BY <2>2, <2>3 DEF MessageSet
  <2>5. PICK c : c = [b EXCEPT !.text = Append(b.text, q)]
    OBVIOUS
  <2>6. c = Message("Orion", Append(b.text, q)) /\ c \in MessageSet(n)
    <3>1. Append(b.text, q) \in Seq(1..n)
      BY <2>4
    <3>2. QED
      BY <2>3, <2>4, <2>5, <3>1 DEF Message, MessageSet
  <2>7. messages' = [messages EXCEPT ![k] = c]
    BY <1>2, <2>1, <2>3, <2>5 DEF AppendChunk
  <2>8. /\ messages' \in Seq(MessageSet(n)) /\ Len(messages') = k
        /\ \A m \in DOMAIN messages : m # k => messages'[m] = messages[m]
        /\ messages'[k] = c
    BY <2>1, <2>2, <2>6, <2>7
  <2>9. QED
    BY <1>2, <2>1, <2>2, <2>3, <2>6, <2>8
<1>3. CASE ~ LastIsOrion
  <2>1. messages' = Append(messages, Message("Orion", <<q>>))
    BY <1>3 DEF AppendChunk
  <2>2. messages' \in Seq(MessageSet(n))
    BY <1>1, <2>1
  <2>3. QED
    BY <1>3, <2>1, <2>2
<1>4. QED
  BY <1>2, <1>3

(* The conversation, the event list and the speech after a line. *)
LEMMA HandleTypes ==
  ASSUME ClientTypes, NEW n \in Nat, n = Len(sent), NEW line \in LineSet(n),
         Handle(line)
  PROVE  /\ messages' \in Seq(MessageSet(n)) /\ spoken' \in SpokenSet(n)
         /\ EntryTypes'
<1>1. /\ messages \in Seq(MessageSet(n)) /\ spoken \in SpokenSet(n)
      /\ <<>> \in Seq(1..n)
  BY DEF ClientTypes, RequestTypes
<1>2. line.req \in 1..n
  BY DEF LineSet
<1>3. EntryTypes'
  <2>1. /\ {"UNKNOWN", "RESPONSE"} \subseteq Kinds
        /\ {"Info", "Running", "Completed"} \subseteq Statuses
    BY DEF Kinds, Statuses
  <2>2. QED
    BY <2>1, PushTypes DEF Handle, Unsupported
<1>4. messages' \in Seq(MessageSet(n))
  <2>1. CASE messages' = messages
    BY <1>1, <2>1
  <2>2. CASE BeginMessage
    BY <1>1, <2>2, MessageAdded DEF BeginMessage
  <2>3. CASE AppendChunk(line.req)
    BY <1>1, <1>2, <2>3, ChunkEffect
  <2>4. QED
    BY <2>1, <2>2, <2>3 DEF Handle, Unsupported
<1>5. spoken' \in SpokenSet(n)
  <2>1. CASE spoken' = spoken
    BY <1>1, <2>1
  <2>2. CASE spoken' = [req |-> line.req, text |-> LastAssistantText]
    <3>1. LastAssistantText \in Seq(1..n)
      BY <1>1, LastTextType
    <3>2. QED
      BY <1>2, <2>2, <3>1 DEF SpokenSet
  <2>3. QED
    BY <2>1, <2>2 DEF Handle, Unsupported
<1>6. QED
  BY <1>3, <1>4, <1>5

(* What the runtime and the socket do. *)
LEMMA OtherTypes ==
  ASSUME ClientTypes,
         ReadLine \/ ReadEnd \/ CancelRead \/ RuntimeTakes \/ RuntimeWrites
           \/ RuntimeFails \/ RuntimeGone
  PROVE  ClientTypes'
<1> USE DEF socketVars, viewVars, audioVars, runtimeVars
<1>1. PICK n \in Nat : /\ n = Len(sent) /\ sent \in Seq(0..recordings)
                       /\ RequestTypes(n)
  BY DEF ClientTypes
<1>2. /\ lines \in Seq(LineSet(n)) /\ messages \in Seq(MessageSet(n))
      /\ spoken \in SpokenSet(n) /\ served \in 0..n /\ at \in 0..4
      /\ replied \subseteq 1..n /\ (at # 0 => served # 0)
  BY <1>1 DEF RequestTypes
<1>3. /\ "IPC_ERROR" \in Kinds /\ "Failed" \in Statuses
      /\ EditorInv /\ LinkTypes /\ EntryTypes /\ AudioTypes
  BY DEF Kinds, Statuses, ClientTypes
<1>4. UNCHANGED <<editorVars, audioVars, sent>>
  BY DEF ReadLine, ReadEnd, CancelRead, RuntimeTakes, RuntimeWrites,
     RuntimeFails, RuntimeGone
<1>5. EditorInv' /\ AudioTypes' /\ sent' \in Seq(0..recordings')
  BY <1>1, <1>3, <1>4 DEF editorVars, EditorInv, EditorTypeOK, PanicNeedsWide,
     AudioTypes
<1>6. SUFFICES LinkTypes' /\ EntryTypes' /\ RequestTypes(n)'
  BY <1>1, <1>4, <1>5 DEF ClientTypes
<1>7. CASE ReadLine
  <2>1. Head(lines) \in LineSet(n) /\ Tail(lines) \in Seq(LineSet(n))
    BY <1>2, <1>7 DEF ReadLine
  <2>2. /\ messages' \in Seq(MessageSet(n)) /\ spoken' \in SpokenSet(n)
        /\ EntryTypes'
    <3>1. CASE Handle(Head(lines))
      BY <1>1, <2>1, <3>1, HandleTypes
    <3>2. CASE OnIpcError
      BY <1>2, <1>3, <3>2, PushTypes DEF OnIpcError
    <3>3. QED
      BY <1>7, <3>1, <3>2 DEF ReadLine
  <2>3. QED
    BY <1>2, <1>3, <1>7, <2>1, <2>2 DEF ReadLine, RequestTypes, LinkTypes
<1>8. CASE ReadEnd
  BY <1>2, <1>3, <1>8, PushTypes
  DEF ReadEnd, OnIpcError, RequestTypes, LinkTypes
<1>9. CASE CancelRead
  <2>1. lines # <<>> /\ lines' = [lines EXCEPT ![1].torn = TRUE]
    BY <1>9 DEF CancelRead
  <2>2. PICK x \in LineSet(n) : x = lines[1]
    BY <1>2, <2>1
  <2>3. [x EXCEPT !.torn = TRUE] \in LineSet(n)
    BY <2>2 DEF LineSet
  <2>4. lines' \in Seq(LineSet(n))
    BY <1>2, <2>1, <2>2, <2>3
  <2>5. QED
    BY <1>2, <1>3, <1>9, <2>4
    DEF CancelRead, RequestTypes, LinkTypes, EntryTypes
<1>10. CASE RuntimeTakes
  BY <1>1, <1>2, <1>3, <1>10
  DEF RuntimeTakes, RequestTypes, LinkTypes, EntryTypes
<1>11. CASE RuntimeWrites
  <2>1. at \in 1..4 /\ served \in 1..n
    BY <1>2, <1>11 DEF RuntimeWrites
  <2>2. [type |-> Script[at], req |-> served, torn |-> FALSE] \in LineSet(n)
    BY <2>1, ScriptLines DEF LineSet
  <2>3. lines' \in Seq(LineSet(n))
    BY <1>2, <1>11, <2>2 DEF RuntimeWrites
  <2>4. at' \in 0..4 /\ replied' \subseteq 1..n
    BY <1>2, <1>11, <2>1, ScriptLines DEF RuntimeWrites
  <2>5. QED
    BY <1>2, <1>3, <1>11, <2>1, <2>3, <2>4
    DEF RuntimeWrites, RequestTypes, LinkTypes, EntryTypes
<1>12. CASE RuntimeFails \/ RuntimeGone
  <2>1. /\ UNCHANGED <<lines, messages, spoken, served, replied, entries, lost>>
        /\ at' = at \/ at' = 0
        /\ link' = link \/ link' = "gone"
    BY <1>12 DEF RuntimeFails, RuntimeGone
  <2>2. RequestTypes(n)' /\ EntryTypes'
    BY <1>2, <1>3, <2>1 DEF RequestTypes, EntryTypes
  <2>3. LinkTypes'
    BY <1>3, <2>1 DEF LinkTypes
  <2>4. QED
    BY <2>2, <2>3
<1>13. QED
  BY <1>7, <1>8, <1>9, <1>10, <1>11, <1>12

(* The client begins with types. *)
LEMMA InitTypes ==
  ASSUME Init
  PROVE  ClientTypes
<1>1. EditorInv
  <2>1. input = <<>> /\ cursor_position = 0 /\ MaxBytes \in Nat
    BY EditorAssumption DEF Init, EditorInit
  <2>2. input \in Seq(Chars \union {Cont}) /\ Len(input) = 0
    BY <2>1
  <2>3. cursor_position \in 0..Len(input) /\ Len(input) <= MaxBytes
    BY <2>1, <2>2
  <2>4. QED
    BY <2>2, <2>3 DEF Init, EditorInit, EditorInv, EditorTypeOK, PanicNeedsWide
<1>2. EntryTypes
  <2>1. {"CONNECTED", "OFFLINE"} \subseteq Kinds
        /\ {"Completed", "Failed"} \subseteq Statuses /\ MaxEntries \in Nat \ {0}
    BY ClientAssumption DEF Kinds, Statuses
  <2>2. PICK e \in EntrySet : entries = <<e>>
    BY <2>1 DEF Init, EntrySet
  <2>3. entries \in Seq(EntrySet) /\ Len(entries) = 1
    BY <2>2
  <2>4. 1 <= MaxEntries
    BY <2>1
  <2>5. QED
    BY <2>3, <2>4 DEF EntryTypes
<1>3. AudioTypes /\ LinkTypes
  <2>1. writing \in BOOLEAN /\ lost \in BOOLEAN
    BY DEF Init
  <2>2. 0 \in 0..0 /\ 0 \in 0..MaxRecordings
    BY ClientAssumption
  <2>3. recorder = 0 /\ recordings = 0 /\ clip = 0
    BY DEF Init
  <2>4. link \in {"off", "open", "gone"}
    BY DEF Init
  <2>5. QED
    BY <2>1, <2>2, <2>3, <2>4 DEF AudioTypes, LinkTypes
<1>4. sent \in Seq(0..recordings) /\ Len(sent) = 0
  BY DEF Init
<1>5. RequestTypes(0)
  BY DEF Init, RequestTypes, Silence, SpokenSet
<1>6. QED
  BY <1>1, <1>2, <1>3, <1>4, <1>5 DEF ClientTypes

(* Every step keeps the types. *)
LEMMA StepTypes ==
  ASSUME ClientTypes, [Next]_vars
  PROVE  ClientTypes'
<1>1. CASE UNCHANGED vars
  <2>1. UNCHANGED <<input, cursor_position, input_mode, panicked, link, lines,
                    lost, messages, entries, recorder, recordings, writing,
                    clip, spoken, sent, served, at, replied>>
    BY <1>1 DEF vars, editorVars, socketVars, viewVars, audioVars, runtimeVars
  <2>2. QED
    BY <2>1 DEF ClientTypes, EditorInv, EditorTypeOK, PanicNeedsWide,
       LinkTypes, EntryTypes, AudioTypes, RequestTypes
<1>2. CASE Next
  BY <1>2, KeyTypes, OtherTypes DEF Next
<1>3. QED
  BY <1>1, <1>2

(* The state is of the shape the code gives it, the event list never grows  *)
(* over its cap, and the client breaks off over a key only if there is a    *)
(* character of several bytes in the line.                                  *)
THEOREM ClientTypesHold == Spec => []ClientTypes
BY InitTypes, StepTypes, PTL DEF Spec

(* So is the type invariant. *)
THEOREM TypeCorrect == Spec => []TypeOK
<1>1. ClientTypes => TypeOK
  BY TypeParts
<1>2. QED
  BY <1>1, ClientTypesHold, PTL

-----------------------------------------------------------------------------
(* The runtime hears the recording it was sent.                             *)

(* Whatever is sent later leaves what was sent in its place. *)
LEMMA SentAppend ==
  ASSUME NEW S, NEW s \in Seq(S), NEW r \in S
  PROVE  /\ DOMAIN Append(s, r) = 1..(Len(s) + 1)
         /\ \A i \in DOMAIN Append(s, r) :
              IF i \in DOMAIN s THEN Append(s, r)[i] = s[i]
              ELSE Append(s, r)[i] = r
OBVIOUS

(* The file is not written over while it is needed. *)
LEMMA ClipStep ==
  ASSUME ClientTypes, ClipInv, [Next]_vars
  PROVE  ClipInv'
<1>1. /\ sent \in Seq(0..recordings) /\ recordings \in Nat
      /\ recorder \in 0..recordings /\ 0 \in 0..recordings
      /\ \A i \in DOMAIN sent : sent[i] \in 0..recordings
  <2>1. /\ sent \in Seq(0..recordings) /\ recordings \in Nat
        /\ recorder \in 0..recordings
    BY ClientAssumption DEF ClientTypes, AudioTypes
  <2>2. QED
    BY <2>1
<1>2. CASE UNCHANGED <<audioVars, sent>>
  BY <1>2 DEF audioVars, ClipInv
<1>3. CASE SubmitPrompt
  <2>1. UNCHANGED audioVars
    BY <1>3 DEF SubmitPrompt
  <2>2. CASE sent' = Append(sent, 0)
    <3>1. \A i \in DOMAIN sent' :
            sent'[i] = 0 \/ (i \in DOMAIN sent /\ sent'[i] = sent[i])
      BY <1>1, <2>2, SentAppend
    <3>2. QED
      BY <1>1, <2>1, <3>1 DEF audioVars, ClipInv
  <2>3. CASE sent' = sent
    BY <2>1, <2>3 DEF audioVars, ClipInv
  <2>4. QED
    BY <1>3, <2>2, <2>3 DEF SubmitPrompt
<1>4. CASE StartRecording
  <2>1. sent' = sent /\ writing' = writing /\ ~ writing /\ clip' = clip
    BY <1>4 DEF StartRecording, Command, Awake
  <2>2. CASE recordings' = recordings + 1 /\ recorder' = recordings + 1
    <3>1. \A i \in DOMAIN sent : sent[i] < recordings'
      BY <1>1, <2>2
    <3>2. QED
      BY <1>1, <2>1, <2>2, <3>1 DEF ClipInv
  <2>3. CASE UNCHANGED <<recorder, recordings>>
    BY <2>1, <2>3 DEF ClipInv
  <2>4. QED
    BY <1>4, <2>2, <2>3 DEF StartRecording
<1>5. CASE StopRecording
  <2>1. UNCHANGED <<sent, recordings>> /\ recorder # 0 /\ ~ writing
    BY <1>5 DEF StopRecording, Command, Awake
  <2>2. CASE writing' = TRUE /\ clip' = Torn /\ UNCHANGED recorder
    BY <1>1, <2>1, <2>2 DEF ClipInv
  <2>3. CASE recorder' = 0 /\ UNCHANGED <<writing, clip>>
    BY <1>1, <2>1, <2>3 DEF ClipInv
  <2>4. QED
    BY <1>5, <2>2, <2>3 DEF StopRecording
<1>6. CASE FinishRecording
  <2>1. /\ writing /\ ~ writing' /\ recorder' = 0 /\ recordings' = recordings
        /\ recorder = recordings /\ \A i \in DOMAIN sent : sent[i] < recorder
    BY <1>6 DEF FinishRecording, ClipInv
  <2>2. CASE clip' = recorder /\ sent' = Append(sent, recorder)
    <3>1. \A i \in DOMAIN sent' :
            sent'[i] = recorder \/ (i \in DOMAIN sent /\ sent'[i] = sent[i])
      BY <1>1, <2>2, SentAppend
    <3>2. QED
      BY <1>1, <2>1, <2>2, <3>1 DEF ClipInv
  <2>3. CASE sent' = sent
    BY <1>1, <2>1, <2>3 DEF ClipInv
  <2>4. QED
    BY <1>6, <2>2, <2>3 DEF FinishRecording
<1>7. QED
  BY <1>2, <1>3, <1>4, <1>5, <1>6
  DEF Next, vars, Key, InterruptSpeech, ReadLine, ReadEnd, CancelRead,
      RuntimeTakes, RuntimeWrites, RuntimeFails, RuntimeGone

(* What the runtime transcribes for a recording is that recording, complete *)
(* on disk, unless the user has recorded again before it got to it.         *)
THEOREM HeardItsClipHolds == Spec => HeardItsClip
<1>1. Init => ClipInv
  BY DEF Init, ClipInv
<1>2. ClientTypes /\ ClipInv /\ [Next]_vars => ClipInv'
  BY ClipStep
<1>3. ASSUME ClientTypes, ClipInv, [Next]_vars
      PROVE  [LET r == sent[served'] IN
              served' # served /\ r # 0 => clip = r \/ recordings > r]_vars
  <2>1. CASE served' = served
    BY <2>1
  <2>2. CASE served' # served
    <3>1. RuntimeTakes
      BY <1>3, <2>2
      DEF Next, vars, Key, SubmitPrompt, InterruptSpeech, StartRecording,
          StopRecording, FinishRecording, ReadLine, ReadEnd, CancelRead,
          RuntimeWrites, RuntimeFails, RuntimeGone, runtimeVars
    <3>2. served' \in DOMAIN sent
      <4>1. /\ sent \in Seq(0..recordings) /\ served \in 0..Len(sent)
        BY <1>3 DEF ClientTypes, RequestTypes
      <4>2. served < Len(sent) /\ served' = served + 1
        BY <3>1 DEF RuntimeTakes
      <4>3. QED
        BY <4>1, <4>2
    <3>3. QED
      BY <1>3, <3>2 DEF ClipInv
  <2>3. QED
    BY <2>1, <2>2
<1>4. QED
  BY <1>1, <1>2, <1>3, ClientTypesHold, PTL DEF Spec, HeardItsClip

-----------------------------------------------------------------------------
(* The script.                                                              *)

(* The parts of the types that the rest of this module needs. *)
LEMMA ViewTypes ==
  ASSUME ClientTypes
  PROVE  \E n \in Nat :
           /\ n = Len(sent)
           /\ lines \in Seq(LineSet(n)) /\ messages \in Seq(MessageSet(n))
           /\ served \in 0..n /\ at \in 0..4 /\ (at # 0 => served # 0)
           /\ replied \subseteq 1..n
           /\ entries \in Seq(EntrySet) /\ Len(entries) <= MaxEntries
BY DEF ClientTypes, RequestTypes, EntryTypes

(* What is behind the first line when it has been read. *)
LEMMA Behind ==
  ASSUME NEW S, NEW s \in Seq(S), s # <<>>
  PROVE  /\ Tail(s) \in Seq(S) /\ Len(Tail(s)) = Len(s) - 1 /\ Len(s) \in Nat
         /\ Len(s) >= 1
         /\ \A i \in DOMAIN Tail(s) : i + 1 \in DOMAIN s /\ Tail(s)[i] = s[i + 1]
OBVIOUS

(* A line that is written is the last one. *)
LEMMA Written ==
  ASSUME NEW S, NEW s \in Seq(S), NEW x \in S
  PROVE  /\ Append(s, x) \in Seq(S) /\ Append(s, x) # <<>>
         /\ Len(Append(s, x)) = Len(s) + 1 /\ Len(s) \in Nat
         /\ Append(s, x)[Len(s) + 1] = x
         /\ \A i \in DOMAIN s : i \in DOMAIN Append(s, x) /\ Append(s, x)[i] = s[i]
         /\ \A i \in DOMAIN Append(s, x) : i \in DOMAIN s \/ i = Len(s) + 1
         /\ s = <<>> => Append(s, x)[1] = x
OBVIOUS

(* Damage to a line leaves its type and its request. *)
LEMMA Torn1 ==
  ASSUME NEW n \in Nat, lines \in Seq(LineSet(n)), TearMove
  PROVE  /\ lines' \in Seq(LineSet(n)) /\ Len(lines') = Len(lines)
         /\ lines' # <<>> /\ 1 \in DOMAIN lines
         /\ \A i \in DOMAIN lines' :
              /\ i \in DOMAIN lines
              /\ lines'[i].type = lines[i].type /\ lines'[i].req = lines[i].req
<1>1. PICK x \in LineSet(n) : x = lines[1]
  BY DEF TearMove
<1>2. PICK y \in LineSet(n) : y = [x EXCEPT !.torn = TRUE]
  BY DEF LineSet
<1>3. y.type = x.type /\ y.req = x.req
  BY <1>1, <1>2 DEF LineSet
<1>4. lines' = [lines EXCEPT ![1] = y] /\ 1 \in DOMAIN lines
  BY <1>1, <1>2 DEF TearMove
<1>5. /\ lines' \in Seq(LineSet(n)) /\ Len(lines') = Len(lines)
      /\ \A i \in DOMAIN lines' :
           i \in DOMAIN lines /\ lines'[i] = IF i = 1 THEN y ELSE lines[i]
  BY <1>4
<1>6. QED
  BY <1>1, <1>3, <1>4, <1>5

(* The lines on the socket follow the script. *)
LEMMA ScriptStep ==
  ASSUME ClientTypes, ScriptInv, [Next]_vars
  PROVE  ScriptInv'
<1> USE DEF socketVars, runtimeVars
<1>1. PICK n \in Nat : /\ lines \in Seq(LineSet(n)) /\ at \in 0..4
                       /\ served \in 0..n /\ (at # 0 => served # 0)
  BY ViewTypes
<1>2. UserMove \/ ReadMove \/ RuntimeMove \/ RuntimeWrites \/ TearMove
  BY Moves, TypeParts
<1>3. CASE UserMove
  BY <1>3 DEF UserMove, ScriptInv
<1>4. CASE ReadMove
  <2>1. lines # <<>> /\ lines' = Tail(lines) /\ UNCHANGED <<lost, at, served>>
    BY <1>4 DEF ReadMove
  <2>2. /\ Len(lines') = Len(lines) - 1 /\ Len(lines) \in Nat /\ Len(lines) >= 1
        /\ \A i \in DOMAIN lines' :
             i + 1 \in DOMAIN lines /\ lines'[i] = lines[i + 1]
        /\ DOMAIN lines' = 1..Len(lines') /\ DOMAIN lines = 1..Len(lines)
    BY <1>1, <2>1, Behind
  <2>3. ASSUME NEW i \in DOMAIN lines'
        PROVE  /\ lines'[i].torn => lost'
               /\ i # 1 /\ lines'[i].type = "assistant_chunk" =>
                    lines'[i - 1].type = "assistant_start"
               /\ i # 1 /\ lines'[i].type = "assistant_end" =>
                    /\ lines'[i - 1].type = "assistant_chunk"
                    /\ lines'[i - 1].req = lines'[i].req
    <3>1. i + 1 \in DOMAIN lines /\ lines'[i] = lines[i + 1] /\ i + 1 # 1
      BY <2>2
    <3>2. i # 1 => i - 1 \in DOMAIN lines' /\ lines'[i - 1] = lines[(i + 1) - 1]
      BY <2>2
    <3>3. QED
      BY <2>1, <3>1, <3>2 DEF ScriptInv
  <2>4. lines' # <<>> => lines'[Len(lines')] = lines[Len(lines)]
    BY <2>2
  <2>5. QED
    BY <2>1, <2>3, <2>4 DEF ScriptInv
<1>5. CASE RuntimeMove
  BY <1>1, <1>5 DEF RuntimeMove, ScriptInv
<1>6. CASE RuntimeWrites
  <2>1. PICK x : /\ lines' = Append(lines, x)
                 /\ x = [type |-> Script[at], req |-> served, torn |-> FALSE]
    BY <1>6 DEF RuntimeWrites
  <2>2. /\ at \in 1..4 /\ UNCHANGED <<lost, served>>
        /\ at' = IF at = 4 THEN 0 ELSE at + 1
    BY <1>1, <1>6, ScriptLines DEF RuntimeWrites
  <2>3. x \in LineSet(n)
    BY <1>1, <2>1, <2>2, ScriptLines DEF LineSet
  <2>4. /\ x.type = Script[at] /\ x.req = served /\ ~ x.torn
        /\ at = 1 \/ at = 2 \/ at = 3 \/ at = 4
    BY <2>1, <2>2
  <2>5. PICK k \in Nat : /\ k = Len(lines) /\ Len(lines') = k + 1
                         /\ lines'[k + 1] = x /\ DOMAIN lines = 1..k
                         /\ DOMAIN lines' = 1..(k + 1)
                         /\ \A i \in 1..k : lines'[i] = lines[i]
    BY <1>1, <2>1, <2>3, Written
  <2>6. k # 0 => lines # <<>>
    BY <2>5
  <2>7. ASSUME NEW i \in DOMAIN lines'
        PROVE  /\ lines'[i].torn => lost'
               /\ i # 1 /\ lines'[i].type = "assistant_chunk" =>
                    lines'[i - 1].type = "assistant_start"
               /\ i # 1 /\ lines'[i].type = "assistant_end" =>
                    /\ lines'[i - 1].type = "assistant_chunk"
                    /\ lines'[i - 1].req = lines'[i].req
    <3>1. CASE i \in 1..k
      <4>1. i # 1 => i - 1 \in 1..k
        BY <3>1
      <4>2. QED
        BY <2>2, <2>5, <3>1, <4>1 DEF ScriptInv
    <3>2. CASE i = k + 1
      <4>1. i # 1 => k # 0 /\ i - 1 = k /\ lines'[i - 1] = lines[k]
        BY <2>5, <3>2
      <4>2. x.type = "assistant_chunk" => at = 3
        BY <2>2, <2>4, ScriptLines
      <4>3. x.type = "assistant_end" => at = 4
        BY <2>2, <2>4, ScriptLines
      <4>4. QED
        BY <2>4, <2>5, <2>6, <3>2, <4>1, <4>2, <4>3 DEF ScriptInv
    <3>3. QED
      BY <2>5, <3>1, <3>2
  <2>8. at' = 3 => x.type = "assistant_start"
    BY <2>2, <2>4, ScriptLines
  <2>9. at' = 4 => x.type = "assistant_chunk" /\ x.req = served'
    BY <2>2, <2>4, ScriptLines
  <2>10. QED
    BY <2>5, <2>7, <2>8, <2>9 DEF ScriptInv
<1>7. CASE TearMove
  <2>1. /\ Len(lines') = Len(lines) /\ lines' # <<>> /\ lost'
        /\ \A i \in DOMAIN lines' :
             /\ i \in DOMAIN lines
             /\ lines'[i].type = lines[i].type /\ lines'[i].req = lines[i].req
        /\ lines # <<>> /\ UNCHANGED <<at, served>>
    BY <1>1, <1>7, Torn1 DEF TearMove
  <2>2. /\ lines' \in Seq(LineSet(n)) /\ Len(lines) \in DOMAIN lines'
        /\ Len(lines') \in DOMAIN lines'
        /\ \A i \in DOMAIN lines' : i # 1 => i - 1 \in DOMAIN lines'
    BY <1>1, <1>7, <2>1, Torn1
  <2>3. QED
    BY <2>1, <2>2 DEF ScriptInv
<1>8. QED
  BY <1>2, <1>3, <1>4, <1>5, <1>6, <1>7

-----------------------------------------------------------------------------
(* The reply that is read and the one that is shown.                        *)

(* In the words of the lemmas on the last reply. *)
LEMMA LastReply ==
  /\ LastAssistantText = TextOf(messages)
  /\ LastIsOrion <=>
       messages # <<>> /\ messages[Len(messages)].author = "Orion"
BY DEF LastAssistantText, TextOf, Replies, RepliesOf, LastIsOrion, Last

(* After a prompt the conversation does not end with a reply. *)
LEMMA PromptEffect ==
  ASSUME NEW n \in Nat, messages \in Seq(MessageSet(n)),
         messages' = Append(messages, Message("User", <<>>))
  PROVE  Open' /\ LastAssistantText' = LastAssistantText
<1>1. Message("User", <<>>) \in MessageSet(n)
  <2>1. <<>> \in Seq(1..n)
    OBVIOUS
  <2>2. QED
    BY <2>1 DEF Message, MessageSet
<1>2. messages'[Len(messages')] = Message("User", <<>>)
  BY <1>1
<1>3. ~ LastIsOrion'
  BY <1>2 DEF LastIsOrion, Last, Message
<1>4. LastAssistantText' = TextOf(messages')
  BY DEF LastAssistantText, TextOf, Replies, RepliesOf
<1>5. QED
  BY <1>3, <1>4, LastReply, LastTextStays DEF Open

(* After the beginning of a reply it ends with an empty bubble. *)
LEMMA BeginEffect ==
  ASSUME NEW n \in Nat, messages \in Seq(MessageSet(n)), BeginMessage
  PROVE  Open'
<1>1. Message("Orion", <<>>) \in MessageSet(n)
  <2>1. <<>> \in Seq(1..n)
    OBVIOUS
  <2>2. QED
    BY <2>1 DEF Message, MessageSet
<1>2. messages'[Len(messages')] = Message("Orion", <<>>)
  BY <1>1 DEF BeginMessage
<1>3. QED
  BY <1>2 DEF Open, Message

(* After a chunk that found no other text, the last reply is its own. *)
LEMMA ChunkIsLast ==
  ASSUME NEW n \in Nat, messages \in Seq(MessageSet(n)), NEW q \in 1..n,
         Open, AppendChunk(q)
  PROVE  LastAssistantText' = <<q>>
<1>1. /\ messages' \in Seq(MessageSet(n)) /\ messages' # <<>>
      /\ messages'[Len(messages')] = Message("Orion", <<q>>)
  <2>1. CASE LastIsOrion
    <3>1. PICK k \in Nat :
            /\ k = Len(messages) /\ k \in DOMAIN messages /\ Len(messages') = k
            /\ messages' \in Seq(MessageSet(n))
            /\ messages'[k] = Message("Orion", Append(messages[k].text, q))
      BY <2>1, ChunkEffect
    <3>2. messages[k].text = <<>>
      BY <2>1, <3>1 DEF Open
    <3>3. Append(<<>>, q) = <<q>>
      OBVIOUS
    <3>4. QED
      BY <3>1, <3>2, <3>3
  <2>2. CASE ~ LastIsOrion
    <3>1. Message("Orion", <<q>>) \in MessageSet(n)
      BY DEF Message, MessageSet
    <3>2. messages' = Append(messages, Message("Orion", <<q>>))
      BY <2>2, ChunkEffect
    <3>3. QED
      BY <3>1, <3>2
  <2>3. QED
    BY <2>1, <2>2
<1>2. /\ messages'[Len(messages')].author = "Orion"
      /\ messages'[Len(messages')].text = <<q>>
  BY <1>1 DEF Message
<1>3. TextOf(messages') = <<q>>
  BY <1>1, <1>2, LastTextAtEnd
<1>4. QED
  BY <1>3 DEF LastAssistantText, TextOf, Replies, RepliesOf

(* An entry that is noted is not the end of a reply. *)
LEMMA NotesEffect ==
  ASSUME TypeOK, Notes
  PROVE  ~ Ended'
<1>1. PICK k \in Kinds, st \in Statuses :
        Entry(k, st) # Entry("RESPONSE", "Completed") /\ Push(k, st)
  BY DEF Notes
<1>2. entries'[Len(entries')] = Entry(k, st)
  BY <1>1, PushEffect
<1>3. QED
  BY <1>1, <1>2 DEF Ended

(* What is read next is the line behind the one that is read, and that is   *)
(* the next one of the script.                                              *)
LEMMA NextAfterRead ==
  ASSUME ClientTypes, ScriptInv, ReadMove
  PROVE  /\ NextType' = "assistant_chunk" => lines[1].type = "assistant_start"
         /\ NextType' = "assistant_end" =>
              lines[1].type = "assistant_chunk" /\ NextReq' = lines[1].req
<1>1. PICK n \in Nat : lines \in Seq(LineSet(n)) /\ at \in 0..4
  BY ViewTypes
<1>2. /\ lines # <<>> /\ lines' = Tail(lines) /\ UNCHANGED <<at, served>>
  BY DEF ReadMove, runtimeVars
<1>3. /\ lines' \in Seq(LineSet(n)) /\ Len(lines') = Len(lines) - 1
      /\ Len(lines) \in Nat /\ Len(lines) >= 1
      /\ \A i \in DOMAIN lines' : i + 1 \in DOMAIN lines /\ lines'[i] = lines[i + 1]
  BY <1>1, <1>2, Behind
<1>4. CASE lines' # <<>>
  <2>1. 1 \in DOMAIN lines' /\ 1 + 1 = 2
    BY <1>3, <1>4
  <2>2. 2 \in DOMAIN lines /\ lines'[1] = lines[2] /\ 2 - 1 = 1
    BY <1>3, <2>1
  <2>3. NextType' = lines[2].type /\ NextReq' = lines[2].req
    BY <1>4, <2>2 DEF NextType, NextReq
  <2>4. QED
    BY <2>2, <2>3 DEF ScriptInv
<1>5. CASE lines' = <<>>
  <2>1. Len(lines) = 1
    BY <1>3, <1>5
  <2>2. /\ NextType' = IF at = 0 THEN "none" ELSE Script[at]
        /\ NextReq' = served
    BY <1>2, <1>5 DEF NextType, NextReq
  <2>3. at = 0 \/ at = 1 \/ at = 2 \/ at = 3 \/ at = 4
    BY <1>1
  <2>4. /\ NextType' = "assistant_chunk" => at = 3
        /\ NextType' = "assistant_end" => at = 4
    BY <2>2, <2>3, ScriptLines
  <2>5. QED
    BY <1>2, <2>1, <2>2, <2>4 DEF ScriptInv
<1>6. QED
  BY <1>4, <1>5

(* Writing a line does not change what is read next. *)
LEMMA NextAfterWrite ==
  ASSUME ClientTypes, RuntimeWrites
  PROVE  NextType' = NextType /\ NextReq' = NextReq
<1>1. PICK n \in Nat : /\ lines \in Seq(LineSet(n)) /\ at \in 0..4
                       /\ served \in 0..n /\ (at # 0 => served # 0)
  BY ViewTypes
<1>2. PICK x : /\ lines' = Append(lines, x)
               /\ x = [type |-> Script[at], req |-> served, torn |-> FALSE]
               /\ at # 0
  BY DEF RuntimeWrites
<1>3. x \in LineSet(n) /\ x.type = Script[at] /\ x.req = served
  <2>1. at \in 1..4 /\ served \in 1..n
    BY <1>1, <1>2
  <2>2. QED
    BY <1>2, <2>1, ScriptLines DEF LineSet
<1>4. lines' # <<>> /\ (lines # <<>> => lines'[1] = lines[1])
      /\ (lines = <<>> => lines'[1] = x)
  BY <1>1, <1>2, <1>3, Written
<1>5. QED
  BY <1>2, <1>3, <1>4 DEF NextType, NextReq

(* A chunk finds the entry of its own reply, or none, and its bubble empty; *)
(* the end of a reply finds that the last reply is its own.                 *)
LEMMA HeadStep ==
  ASSUME ClientTypes, ScriptInv, HeadInv, [Next]_vars
  PROVE  HeadInv'
<1> USE DEF socketVars, runtimeVars
<1>1. PICK n \in Nat : /\ lines \in Seq(LineSet(n)) /\ at \in 0..4
                       /\ messages \in Seq(MessageSet(n))
                       /\ entries \in Seq(EntrySet)
  BY ViewTypes
<1>2. TypeOK
  BY TypeParts
<1>3. UserMove \/ ReadMove \/ RuntimeMove \/ RuntimeWrites \/ TearMove
  BY <1>2, Moves
<1>4. CASE UserMove
  <2>1. NextType' = NextType /\ NextReq' = NextReq /\ lost' = lost
    BY <1>4 DEF UserMove, NextType, NextReq
  <2>2. ~ Ended => ~ Ended'
    BY <1>2, <1>4, NotesEffect DEF UserMove, Ended
  <2>3. LastAssistantText' = LastAssistantText /\ (Open => Open')
    <3>1. CASE messages' = messages
      BY <3>1 DEF LastAssistantText, Replies, Open, LastIsOrion
    <3>2. CASE messages' = Append(messages, Message("User", <<>>))
      BY <1>1, <3>2, PromptEffect
    <3>3. QED
      BY <1>4, <3>1, <3>2 DEF UserMove
  <2>4. QED
    BY <2>1, <2>2, <2>3 DEF HeadInv
<1>5. CASE ReadMove
  <2>1. lines # <<>> /\ lost' = lost /\ lines[1] \in LineSet(n)
    BY <1>1, <1>5 DEF ReadMove
  <2>2. lines[1].torn => lost /\ Notes
    <3>1. 1 \in DOMAIN lines
      BY <1>1, <2>1
    <3>2. QED
      BY <1>5, <3>1 DEF ReadMove, ScriptInv
  <2>3. NextType = lines[1].type /\ NextReq = lines[1].req
    BY <2>1 DEF NextType, NextReq
  <2>4. ASSUME NextType' = "assistant_chunk"
        PROVE  ~ Ended' /\ (~ lost' => Open')
    <3>1. lines[1].type = "assistant_start"
      BY <1>5, <2>4, NextAfterRead
    <3>2. CASE lines[1].torn
      BY <1>2, <2>1, <2>2, <3>2, NotesEffect
    <3>3. CASE ~ lines[1].torn
      <4>1. BeginMessage /\ Push("RESPONSE", "Running")
        BY <1>5, <3>1, <3>3 DEF ReadMove, Handle
      <4>2. ~ Ended'
        <5>1. "RESPONSE" \in Kinds /\ "Running" \in Statuses
          BY DEF Kinds, Statuses
        <5>2. entries'[Len(entries')] = Entry("RESPONSE", "Running")
          BY <1>2, <4>1, <5>1, PushEffect
        <5>3. QED
          BY <5>2 DEF Ended, Entry
      <4>3. QED
        BY <1>1, <4>1, <4>2, BeginEffect
    <3>4. QED
      BY <3>2, <3>3
  <2>5. ASSUME NextType' = "assistant_end", ~ lost'
        PROVE  LastAssistantText' = <<NextReq'>>
    <3>1. lines[1].type = "assistant_chunk" /\ NextReq' = lines[1].req
      BY <1>5, <2>5, NextAfterRead
    <3>2. Open /\ ~ lines[1].torn
      BY <2>1, <2>2, <2>3, <2>5, <3>1 DEF HeadInv
    <3>3. AppendChunk(lines[1].req)
      BY <1>5, <3>1, <3>2 DEF ReadMove, Handle
    <3>4. lines[1].req \in 1..n
      BY <2>1 DEF LineSet
    <3>5. QED
      BY <1>1, <3>1, <3>2, <3>3, <3>4, ChunkIsLast
  <2>6. QED
    BY <2>4, <2>5 DEF HeadInv
<1>6. CASE RuntimeMove
  <2>1. /\ UNCHANGED <<lines, lost, messages, entries>>
        /\ \/ at' = 0 \/ at' = 1
           \/ at' = at /\ served' = served
    BY <1>6 DEF RuntimeMove, viewVars
  <2>2. /\ Ended' = Ended /\ Open' = Open
        /\ LastAssistantText' = LastAssistantText
    BY <2>1 DEF Ended, Open, LastIsOrion, LastAssistantText, Replies
  <2>3. \/ NextType' = NextType /\ NextReq' = NextReq
        \/ NextType' = "none" \/ NextType' = "submit_prompt"
    BY <2>1, ScriptLines DEF NextType, NextReq
  <2>4. QED
    BY <2>1, <2>2, <2>3 DEF HeadInv
<1>7. CASE RuntimeWrites
  <2>1. NextType' = NextType /\ NextReq' = NextReq
    BY <1>7, NextAfterWrite
  <2>2. UNCHANGED <<lost, messages, entries>>
    BY <1>7 DEF RuntimeWrites, viewVars
  <2>3. /\ Ended' = Ended /\ Open' = Open
        /\ LastAssistantText' = LastAssistantText
    BY <2>2 DEF Ended, Open, LastIsOrion, LastAssistantText, Replies
  <2>4. QED
    BY <2>1, <2>2, <2>3 DEF HeadInv
<1>8. CASE TearMove
  <2>1. /\ lines # <<>> /\ lines' # <<>> /\ lost' /\ UNCHANGED <<messages, entries>>
        /\ lines'[1].type = lines[1].type
    BY <1>1, <1>8, Torn1 DEF TearMove, viewVars
  <2>2. NextType' = NextType /\ (Ended' = Ended)
    BY <2>1 DEF NextType, Ended
  <2>3. QED
    BY <2>1, <2>2 DEF HeadInv
<1>9. QED
  BY <1>3, <1>4, <1>5, <1>6, <1>7, <1>8

(* What is spoken is the reply that has just ended. *)
LEMMA SpokenStep ==
  ASSUME ClientTypes, ScriptInv, HeadInv, SpokenIsReply, [Next]_vars
  PROVE  SpokenIsReply'
<1> USE DEF socketVars, runtimeVars
<1>1. UserMove \/ ReadMove \/ RuntimeMove \/ RuntimeWrites \/ TearMove
  BY Moves, TypeParts
<1>2. CASE ReadMove
  <2>1. CASE spoken' = spoken
    BY <1>2, <2>1 DEF ReadMove, SpokenIsReply
  <2>2. CASE /\ lines[1].type = "assistant_end"
             /\ spoken' = [req |-> lines[1].req, text |-> LastAssistantText]
    <3>1. lines # <<>> /\ lost' = lost
      BY <1>2 DEF ReadMove
    <3>2. ~ lost => LastAssistantText = <<lines[1].req>>
      BY <2>2, <3>1 DEF HeadInv, NextType, NextReq
    <3>3. QED
      BY <2>2, <3>1, <3>2 DEF SpokenIsReply
  <2>3. QED
    BY <1>2, <2>1, <2>2 DEF ReadMove, Handle, Unsupported
<1>3. CASE UserMove
  BY <1>3 DEF UserMove, SpokenIsReply
<1>4. CASE RuntimeMove \/ RuntimeWrites
  BY <1>4 DEF RuntimeMove, RuntimeWrites, SpokenIsReply
<1>5. CASE TearMove
  BY <1>5 DEF TearMove, SpokenIsReply
<1>6. QED
  BY <1>1, <1>2, <1>3, <1>4, <1>5

(* An entry that says that something is completed stays as it is. *)
LEMMA CompletedStep ==
  ASSUME ClientTypes, ScriptInv, HeadInv, [Next]_vars,
         NEW i \in DOMAIN entries, entries[i].status = "Completed"
  PROVE  StaysOrDrops(i)
<1> USE DEF socketVars, viewVars
<1>1. TypeOK /\ entries \in Seq(EntrySet) /\ i \in 1..Len(entries)
  BY TypeParts DEF ClientTypes, EntryTypes
<1>2. {"UNKNOWN", "RESPONSE"} \subseteq Kinds
      /\ {"Info", "Running", "Completed"} \subseteq Statuses
  BY DEF Kinds, Statuses
<1>3. UserMove \/ ReadMove \/ RuntimeMove \/ RuntimeWrites \/ TearMove
  BY <1>1, Moves
<1>4. CASE entries' = entries
  BY <1>4 DEF StaysOrDrops
<1>5. CASE \E k \in Kinds, st \in Statuses : Push(k, st)
  BY <1>1, <1>5, PushEffect
<1>6. CASE ReadMove /\ ~ lines[1].torn /\ BumpLast("RESPONSE", "Running")
           /\ lines[1].type = "assistant_chunk"
  <2>1. ~ Ended
    BY <1>6 DEF ReadMove, HeadInv, NextType
  <2>2. ~ (i = Len(entries) /\ entries[i].kind = "RESPONSE")
    <3>1. SUFFICES ASSUME i = Len(entries), entries[i].kind = "RESPONSE"
                   PROVE  Ended
      BY <2>1
    <3>2. PICK x \in EntrySet : x = entries[i]
      BY <1>1
    <3>3. x = Entry("RESPONSE", "Completed")
      BY <3>1, <3>2 DEF EntrySet, Entry
    <3>4. QED
      BY <1>1, <3>1, <3>2, <3>3 DEF Ended
  <2>3. QED
    BY <1>1, <1>2, <1>6, <2>2, BumpEffect
<1>7. CASE BumpLast("RESPONSE", "Completed")
  <2>1. \/ StaysOrDrops(i)
        \/ i = Len(entries) /\ entries[i].kind = "RESPONSE"
    BY <1>1, <1>2, <1>7, BumpEffect
  <2>2. CASE i = Len(entries) /\ entries[i].kind = "RESPONSE"
    <3>1. PICK x \in EntrySet : x = entries[i]
      BY <1>1
    <3>2. [x EXCEPT !.status = "Completed"] = x
      <4>1. x.kind = "RESPONSE" /\ x.status = "Completed"
        BY <2>2, <3>1
      <4>2. x = Entry("RESPONSE", "Completed")
        BY <4>1 DEF EntrySet, Entry
      <4>3. [x EXCEPT !.status = "Completed"] = Entry("RESPONSE", "Completed")
        BY <4>1 DEF EntrySet, Entry
      <4>4. QED
        BY <4>2, <4>3
    <3>3. entries' = [entries EXCEPT ![i].status = "Completed"]
      BY <1>1, <1>7, <2>2 DEF BumpLast, Last
    <3>4. entries' = [entries EXCEPT ![i] = x]
      BY <3>1, <3>2, <3>3
    <3>5. QED
      BY <1>1, <3>1, <3>4 DEF StaysOrDrops
  <2>3. QED
    BY <2>1, <2>2
<1>8. QED
  BY <1>2, <1>3, <1>4, <1>5, <1>6, <1>7
  DEF UserMove, ReadMove, RuntimeMove, RuntimeWrites, TearMove, Notes, Handle,
      Unsupported

(* The replies on the socket follow the script, and the client is where     *)
(* the script is.                                                           *)
LEMMA HeadHolds == Spec => [](ScriptInv /\ HeadInv)
<1>1. Init => ScriptInv /\ HeadInv
  BY DEF Init, ScriptInv, HeadInv, NextType
<1>2. ClientTypes /\ ScriptInv /\ HeadInv /\ [Next]_vars
        => ScriptInv' /\ HeadInv'
  BY ScriptStep, HeadStep
<1>3. QED
  BY <1>1, <1>2, ClientTypesHold, PTL DEF Spec

(* As long as no line is damaged, what the client speaks is the reply that  *)
(* has just ended and no other.                                             *)
THEOREM SpokenIsReplyHolds == Spec => []SpokenIsReply
<1>1. Init => SpokenIsReply
  BY DEF Init, SpokenIsReply
<1>2. ClientTypes /\ ScriptInv /\ HeadInv /\ SpokenIsReply /\ [Next]_vars
        => SpokenIsReply'
  BY SpokenStep
<1>3. QED
  BY <1>1, <1>2, ClientTypesHold, HeadHolds, PTL DEF Spec

(* What the event list says has been completed stays so until it is the     *)
(* oldest of a full list, also when lines are lost.                         *)
THEOREM CompletedStaysHolds == Spec => CompletedStays
<1>1. ClientTypes /\ ScriptInv /\ HeadInv /\ [Next]_vars =>
        [\A i \in DOMAIN entries :
           entries[i].status = "Completed" =>
             \/ i \in DOMAIN entries' /\ entries'[i] = entries[i]
             \/ /\ Len(entries) = MaxEntries
                /\ i = 1 \/ entries'[i - 1] = entries[i]]_vars
  BY CompletedStep DEF StaysOrDrops
<1>2. QED
  BY <1>1, ClientTypesHold, HeadHolds, PTL DEF Spec, CompletedStays

-----------------------------------------------------------------------------
(* Every reply is shown, and once.                                          *)

(* The line that is read is not on the socket any more. *)
LEMMA ReadWaiting ==
  ASSUME ClientTypes, WaitingOnce, ReadMove
  PROVE  /\ WaitingOnce'
         /\ \A q : Waiting(q)' => Waiting(q)
         /\ lines[1].type # "assistant_chunk" =>
              \A q : Waiting(q) => Waiting(q)'
         /\ lines[1].type = "assistant_chunk" =>
              \A q : IF q = lines[1].req
                     THEN Waiting(q) /\ ~ Waiting(q)' /\ q \in replied
                     ELSE Waiting(q) => Waiting(q)'
<1>1. PICK n \in Nat : lines \in Seq(LineSet(n))
  BY ViewTypes
<1>2. lines # <<>> /\ lines' = Tail(lines) /\ replied' = replied
  BY DEF ReadMove, runtimeVars
<1>3. PICK k \in Nat :
        /\ k = Len(lines) /\ k >= 1 /\ DOMAIN lines = 1..k
        /\ DOMAIN lines' = 1..(k - 1)
        /\ \A i \in 1..(k - 1) : lines'[i] = lines[i + 1]
  BY <1>1, <1>2, Behind
<1>4. \A i \in DOMAIN lines' :
        /\ i + 1 \in DOMAIN lines /\ i + 1 # 1
        /\ lines'[i] = lines[i + 1] /\ IsChunk(i)' = IsChunk(i + 1)
  BY <1>3 DEF IsChunk
<1>5. \A i \in DOMAIN lines : i # 1 =>
        /\ i - 1 \in DOMAIN lines' /\ lines'[i - 1] = lines[i]
        /\ IsChunk(i - 1)' = IsChunk(i)
  <2>1. ASSUME NEW i \in DOMAIN lines, i # 1
        PROVE  i - 1 \in DOMAIN lines' /\ (i - 1) + 1 = i
    BY <1>3, <2>1
  <2>2. QED
    BY <1>4, <2>1
<1>6. WaitingOnce'
  <2>1. \A i, j \in DOMAIN lines' : i + 1 = j + 1 => i = j
    BY <1>3
  <2>2. QED
    BY <1>2, <1>4, <2>1 DEF WaitingOnce
<1>7. \A q : Waiting(q)' => Waiting(q)
  BY <1>4 DEF Waiting
<1>8. \A q : Waiting(q) =>
        Waiting(q)' \/ (IsChunk(1) /\ lines[1].req = q)
  BY <1>5 DEF Waiting
<1>9. 1 \in DOMAIN lines
  BY <1>3
<1>10. ASSUME lines[1].type = "assistant_chunk", NEW q, q = lines[1].req
       PROVE  ~ Waiting(q)'
  BY <1>4, <1>9, <1>10 DEF WaitingOnce, Waiting, IsChunk
<1>11. QED
  BY <1>6, <1>7, <1>8, <1>9, <1>10 DEF IsChunk, Waiting, WaitingOnce

(* What an empty message, and what a chunk adds to the conversation. *)
LEMMA EmptyAdded ==
  ASSUME NEW n \in Nat, messages \in Seq(MessageSet(n)),
         NEW a \in {"User", "Orion"},
         messages' = Append(messages, Message(a, <<>>))
  PROVE  \A q, m, t : InBubble(q, m, t)' <=> InBubble(q, m, t)
<1>1. Message(a, <<>>) \in MessageSet(n) /\ Message(a, <<>>).text = <<>>
  <2>1. <<>> \in Seq(1..n)
    OBVIOUS
  <2>2. QED
    BY <2>1 DEF Message, MessageSet
<1>2. /\ \A m \in DOMAIN messages :
           m \in DOMAIN messages' /\ messages'[m] = messages[m]
      /\ \A m \in DOMAIN messages' :
           m \in DOMAIN messages \/ messages'[m] = Message(a, <<>>)
  BY <1>1
<1>3. DOMAIN <<>> = {}
  OBVIOUS
<1>4. ASSUME NEW q, NEW m, NEW t
      PROVE  InBubble(q, m, t)' <=> InBubble(q, m, t)
  <2>1. CASE m \in DOMAIN messages
    BY <1>2, <2>1 DEF InBubble
  <2>2. CASE m \notin DOMAIN messages
    <3>1. m \in DOMAIN messages' => messages'[m].text = <<>>
      BY <1>1, <1>2, <2>2
    <3>2. QED
      BY <1>3, <2>2, <3>1 DEF InBubble
  <2>3. QED
    BY <2>1, <2>2
<1>5. QED
  BY <1>4

(* A chunk is added at one place, the first one of a bubble that was empty. *)
LEMMA ChunkAdded ==
  ASSUME NEW n \in Nat, messages \in Seq(MessageSet(n)), NEW q \in 1..n,
         AppendChunk(q)
  PROVE  \E a, b :
           /\ \A x, m, t : InBubble(x, m, t)' <=>
                InBubble(x, m, t) \/ (x = q /\ m = a /\ t = b)
           /\ Open => b = 1
<1>1. CASE LastIsOrion
  <2>1. PICK k \in Nat :
          /\ k = Len(messages) /\ k \in DOMAIN messages /\ Len(messages') = k
          /\ messages' \in Seq(MessageSet(n))
          /\ \A m \in DOMAIN messages : m # k => messages'[m] = messages[m]
          /\ messages'[k] = Message("Orion", Append(messages[k].text, q))
    BY <1>1, ChunkEffect
  <2>2. DOMAIN messages' = DOMAIN messages
    BY <2>1
  <2>3. PICK s \in Seq(1..n) : s = messages[k].text
    <3>1. PICK c \in MessageSet(n) : c = messages[k]
      BY <2>1
    <3>2. QED
      BY <3>1 DEF MessageSet
  <2>4. messages'[k].text = Append(s, q)
    BY <2>1, <2>3 DEF Message
  <2>5. PICK b \in Nat : b = Len(s) + 1
    BY <2>3
  <2>6. /\ DOMAIN Append(s, q) = DOMAIN s \union {b} /\ b \notin DOMAIN s
        /\ Append(s, q)[b] = q /\ \A t \in DOMAIN s : Append(s, q)[t] = s[t]
    BY <2>3, <2>5
  <2>7. ASSUME NEW x, NEW m, NEW t
        PROVE  InBubble(x, m, t)' <=>
                 InBubble(x, m, t) \/ (x = q /\ m = k /\ t = b)
    <3>1. CASE m = k
      BY <2>1, <2>2, <2>3, <2>4, <2>6, <3>1 DEF InBubble
    <3>2. CASE m # k
      BY <2>1, <2>2, <3>2 DEF InBubble
    <3>3. QED
      BY <3>1, <3>2
  <2>8. Open => b = 1
    BY <1>1, <2>1, <2>3, <2>5 DEF Open
  <2>9. QED
    BY <2>7, <2>8
<1>2. CASE ~ LastIsOrion
  <2> DEFINE c == Message("Orion", <<q>>)
  <2>1. c \in MessageSet(n) /\ c.text = <<q>>
    BY DEF Message, MessageSet
  <2>2. messages' = Append(messages, c)
    BY <1>2, ChunkEffect
  <2> HIDE DEF c
  <2>3. PICK k \in Nat : k = Len(messages) + 1
    OBVIOUS
  <2>4. /\ DOMAIN messages' = DOMAIN messages \union {k}
        /\ k \notin DOMAIN messages /\ messages'[k] = c
        /\ \A m \in DOMAIN messages : messages'[m] = messages[m]
    BY <2>1, <2>2, <2>3
  <2>5. DOMAIN <<q>> = {1} /\ <<q>>[1] = q
    OBVIOUS
  <2>6. ASSUME NEW x, NEW m, NEW t
        PROVE  InBubble(x, m, t)' <=>
                 InBubble(x, m, t) \/ (x = q /\ m = k /\ t = 1)
    <3>1. CASE m = k
      <4>1. InBubble(x, m, t)' <=> t \in {1} /\ <<q>>[t] = x
        BY <2>1, <2>4, <2>5, <3>1 DEF InBubble
      <4>2. QED
        BY <2>4, <2>5, <3>1, <4>1 DEF InBubble
    <3>2. CASE m # k
      BY <2>4, <3>2 DEF InBubble
    <3>3. QED
      BY <3>1, <3>2
  <2>7. QED
    BY <2>6
<1>3. QED
  BY <1>1, <1>2

(* The line that is written is on the socket then. *)
LEMMA WriteWaiting ==
  ASSUME ClientTypes, WrittenOnce, WaitingOnce, RuntimeWrites
  PROVE  /\ WrittenOnce' /\ WaitingOnce'
         /\ \A q : Waiting(q)' <=> Waiting(q) \/ (at = 3 /\ q = served)
         /\ replied' = IF at = 3 THEN replied \union {served} ELSE replied
         /\ at = 3 => served \notin replied
<1>1. PICK n \in Nat : /\ lines \in Seq(LineSet(n)) /\ at \in 0..4
                       /\ served \in 0..n /\ (at # 0 => served # 0)
  BY ViewTypes
<1>2. PICK x : /\ lines' = Append(lines, x)
               /\ x = [type |-> Script[at], req |-> served, torn |-> FALSE]
               /\ at # 0 /\ served' = served
  BY DEF RuntimeWrites
<1>3. /\ x \in LineSet(n) /\ x.type = Script[at] /\ x.req = served
      /\ at = 1 \/ at = 2 \/ at = 3 \/ at = 4
  <2>1. at \in 1..4 /\ served \in 1..n
    BY <1>1, <1>2
  <2>2. QED
    BY <1>2, <2>1, ScriptLines DEF LineSet
<1>4. Script[at] = "assistant_chunk" <=> at = 3
  BY <1>3, ScriptLines
<1>5. /\ at' = IF at = 4 THEN 0 ELSE at + 1
      /\ replied' = IF at = 3 THEN replied \union {served} ELSE replied
  BY <1>4, ScriptLines DEF RuntimeWrites
<1>6. PICK k \in Nat :
        /\ DOMAIN lines = 1..k /\ DOMAIN lines' = 1..(k + 1)
        /\ lines'[k + 1] = x /\ \A i \in 1..k : lines'[i] = lines[i]
  <2>1. PICK k \in Nat : k = Len(lines)
    BY <1>1
  <2>2. QED
    BY <1>1, <1>2, <1>3, <2>1, Written
<1>7. /\ \A i \in DOMAIN lines :
           /\ i \in DOMAIN lines' /\ lines'[i] = lines[i]
           /\ IsChunk(i)' = IsChunk(i)
      /\ \A i \in DOMAIN lines' : i \in DOMAIN lines \/ i = k + 1
      /\ IsChunk(k + 1)' <=> at = 3
  BY <1>3, <1>4, <1>6 DEF IsChunk
<1>8. at = 3 => served \notin replied
  BY DEF WrittenOnce
<1>9. WrittenOnce'
  <2>1. \A q \in replied' : q <= served'
    BY <1>1, <1>2, <1>5 DEF WrittenOnce
  <2>2. at' \in 1..3 => at \in 1..2
    BY <1>3, <1>5
  <2>3. at' \in 1..3 => served' \notin replied'
    BY <1>2, <1>5, <2>2 DEF WrittenOnce
  <2>4. QED
    BY <2>1, <2>3 DEF WrittenOnce
<1>10. WaitingOnce'
  <2>1. ASSUME NEW i \in DOMAIN lines', IsChunk(i)'
        PROVE  lines'[i].req \in replied'
    BY <1>3, <1>5, <1>6, <1>7, <2>1 DEF WaitingOnce
  <2>2. ASSUME NEW i \in DOMAIN lines', NEW j \in DOMAIN lines', IsChunk(i)',
               IsChunk(j)', lines'[i].req = lines'[j].req
        PROVE  i = j
    <3>1. CASE i \in DOMAIN lines /\ j \in DOMAIN lines
      BY <1>7, <2>2, <3>1 DEF WaitingOnce
    <3>2. CASE i = k + 1 /\ j \in DOMAIN lines
      BY <1>3, <1>6, <1>7, <1>8, <2>2, <3>2 DEF WaitingOnce
    <3>3. CASE j = k + 1 /\ i \in DOMAIN lines
      BY <1>3, <1>6, <1>7, <1>8, <2>2, <3>3 DEF WaitingOnce
    <3>4. QED
      BY <1>7, <3>1, <3>2, <3>3
  <2>3. QED
    BY <2>1, <2>2 DEF WaitingOnce
<1>11. ASSUME NEW q
       PROVE  Waiting(q)' <=> Waiting(q) \/ (at = 3 /\ q = served)
  <2>1. Waiting(q) => Waiting(q)'
    BY <1>7 DEF Waiting
  <2>2. Waiting(q)' => Waiting(q) \/ (at = 3 /\ q = served)
    BY <1>3, <1>6, <1>7 DEF Waiting
  <2>3. at = 3 /\ q = served => Waiting(q)'
    <3>1. k + 1 \in DOMAIN lines'
      BY <1>6
    <3>2. QED
      BY <1>3, <1>6, <1>7, <3>1 DEF Waiting
  <2>4. QED
    BY <2>1, <2>2, <2>3
<1>12. QED
  BY <1>5, <1>8, <1>9, <1>10, <1>11

(* Of what is in the conversation nothing is on the socket. *)
LEMMA OnceStep ==
  ASSUME ClientTypes, ScriptInv, HeadInv, OnceInv, [Next]_vars
  PROVE  OnceInv'
<1> USE DEF socketVars, runtimeVars, viewVars
<1>1. PICK n \in Nat : /\ lines \in Seq(LineSet(n)) /\ at \in 0..4
                       /\ messages \in Seq(MessageSet(n))
                       /\ served \in 0..n /\ replied \subseteq 1..n
  BY ViewTypes
<1>2. UserMove \/ ReadMove \/ RuntimeMove \/ RuntimeWrites \/ TearMove
  BY Moves, TypeParts
<1>3. CASE UserMove
  <2>1. UNCHANGED <<lines, lost, at, served, replied>>
    BY <1>3 DEF UserMove
  <2>2. \A q, m, t : InBubble(q, m, t)' <=> InBubble(q, m, t)
    BY <1>1, <1>3, EmptyAdded DEF UserMove, InBubble
  <2>3. \A q : Waiting(q)' <=> Waiting(q)
    BY <2>1 DEF Waiting, IsChunk
  <2>4. WrittenOnce' /\ WaitingOnce'
    BY <2>1 DEF OnceInv, WrittenOnce, WaitingOnce, IsChunk
  <2>5. QED
    BY <2>1, <2>2, <2>3, <2>4 DEF OnceInv, BubbleOnce, NoneMissing
<1>4. CASE ReadMove
  <2>1. /\ lines # <<>> /\ UNCHANGED <<lost, at, served, replied>>
        /\ 1 \in DOMAIN lines /\ lines[1] \in LineSet(n)
    BY <1>1, <1>4 DEF ReadMove
  <2>2. WrittenOnce'
    BY <2>1 DEF OnceInv, WrittenOnce
  <2>3. /\ WaitingOnce' /\ \A q : Waiting(q)' => Waiting(q)
        /\ lines[1].type # "assistant_chunk" => \A q : Waiting(q) => Waiting(q)'
        /\ lines[1].type = "assistant_chunk" =>
             \A q : IF q = lines[1].req
                    THEN Waiting(q) /\ ~ Waiting(q)' /\ q \in replied
                    ELSE Waiting(q) => Waiting(q)'
    BY <1>4, ReadWaiting DEF OnceInv
  <2>4. CASE lines[1].torn
    <3>1. lost
      BY <2>1, <2>4 DEF ScriptInv
    <3>2. messages' = messages
      BY <1>4, <2>4 DEF ReadMove
    <3>3. \A q, m, t : InBubble(q, m, t)' <=> InBubble(q, m, t)
      BY <3>2 DEF InBubble
    <3>4. QED
      BY <2>1, <2>2, <2>3, <3>1, <3>3 DEF OnceInv, BubbleOnce, NoneMissing
  <2>5. CASE ~ lines[1].torn /\ lines[1].type # "assistant_chunk"
    <3>1. \A q, m, t : InBubble(q, m, t)' <=> InBubble(q, m, t)
      <4>1. messages' = messages \/ BeginMessage
        BY <1>4, <2>5 DEF ReadMove, Handle, Unsupported
      <4>2. QED
        BY <1>1, <4>1, EmptyAdded DEF BeginMessage, InBubble
    <3>2. QED
      BY <2>1, <2>2, <2>3, <2>5, <3>1 DEF OnceInv, BubbleOnce, NoneMissing
  <2>6. CASE ~ lines[1].torn /\ lines[1].type = "assistant_chunk"
    <3>1. PICK q \in 1..n : q = lines[1].req
      BY <2>1 DEF LineSet
    <3>2. AppendChunk(q)
      BY <1>4, <2>6, <3>1 DEF ReadMove, Handle
    <3>3. ~ lost => Open
      BY <2>1, <2>6 DEF HeadInv, NextType
    <3>4. PICK a, b :
            /\ \A x, m, t : InBubble(x, m, t)' <=>
                 InBubble(x, m, t) \/ (x = q /\ m = a /\ t = b)
            /\ Open => b = 1
      BY <1>1, <3>2, ChunkAdded
    <3>5. /\ Waiting(q) /\ ~ Waiting(q)' /\ q \in replied
          /\ \A x : x # q => (Waiting(x) => Waiting(x)')
      BY <2>3, <2>6, <3>1
    <3>6. \A m, t : ~ InBubble(q, m, t)
      BY <3>5 DEF OnceInv, BubbleOnce
    <3>7. BubbleOnce'
      BY <2>1, <2>3, <3>4, <3>5, <3>6 DEF OnceInv, BubbleOnce
    <3>8. NoneMissing'
      <4>1. ASSUME ~ lost, NEW x \in replied
            PROVE  Waiting(x)' \/ \E m : InBubble(x, m, 1)'
        <5>1. CASE x = q
          BY <3>3, <3>4, <4>1, <5>1
        <5>2. CASE x # q
          BY <3>4, <3>5, <4>1, <5>2 DEF OnceInv, NoneMissing
        <5>3. QED
          BY <5>1, <5>2
      <4>2. QED
        BY <2>1, <4>1 DEF NoneMissing
    <3>9. QED
      BY <2>2, <2>3, <3>7, <3>8 DEF OnceInv
  <2>7. QED
    BY <2>4, <2>5, <2>6
<1>5. CASE RuntimeMove
  <2>1. UNCHANGED <<lines, lost, replied, messages>>
    BY <1>5 DEF RuntimeMove
  <2>2. /\ \A q, m, t : InBubble(q, m, t)' <=> InBubble(q, m, t)
        /\ \A q : Waiting(q)' <=> Waiting(q)
    BY <2>1 DEF InBubble, Waiting, IsChunk
  <2>3. WaitingOnce'
    BY <2>1 DEF OnceInv, WaitingOnce, IsChunk
  <2>4. WrittenOnce'
    <3>1. CASE served' = served + 1
      <4>1. \A q \in replied : q \in 1..n /\ q <= served
        BY <1>1 DEF OnceInv, WrittenOnce
      <4>2. \A q \in replied : q <= served' /\ q # served'
        BY <1>1, <3>1, <4>1
      <4>3. QED
        BY <2>1, <4>2 DEF WrittenOnce
    <3>2. CASE served' = served /\ (at' = 0 \/ at' = at)
      BY <2>1, <3>2 DEF OnceInv, WrittenOnce
    <3>3. QED
      BY <1>5, <3>1, <3>2 DEF RuntimeMove
  <2>5. QED
    BY <2>1, <2>2, <2>3, <2>4 DEF OnceInv, BubbleOnce, NoneMissing
<1>6. CASE RuntimeWrites
  <2>1. UNCHANGED <<lost, messages>>
    BY <1>6 DEF RuntimeWrites
  <2>2. \A q, m, t : InBubble(q, m, t)' <=> InBubble(q, m, t)
    BY <2>1 DEF InBubble
  <2>3. /\ WrittenOnce' /\ WaitingOnce'
        /\ \A q : Waiting(q)' <=> Waiting(q) \/ (at = 3 /\ q = served)
        /\ replied' = IF at = 3 THEN replied \union {served} ELSE replied
        /\ at = 3 => served \notin replied
    BY <1>6, WriteWaiting DEF OnceInv
  <2>4. BubbleOnce'
    BY <2>2, <2>3 DEF OnceInv, BubbleOnce
  <2>5. NoneMissing'
    BY <2>1, <2>2, <2>3 DEF OnceInv, NoneMissing
  <2>6. QED
    BY <2>3, <2>4, <2>5 DEF OnceInv
<1>7. CASE TearMove
  <2>1. lost' /\ UNCHANGED <<replied, at, served, messages>>
    BY <1>7 DEF TearMove
  <2>2. /\ DOMAIN lines' = DOMAIN lines
        /\ \A i \in DOMAIN lines' :
             lines'[i].type = lines[i].type /\ lines'[i].req = lines[i].req
    BY <1>1, <1>7, Torn1
  <2>3. \A q : Waiting(q)' <=> Waiting(q)
    BY <2>2 DEF Waiting, IsChunk
  <2>4. \A q, m, t : InBubble(q, m, t)' <=> InBubble(q, m, t)
    BY <2>1 DEF InBubble
  <2>5. WaitingOnce' /\ WrittenOnce'
    BY <2>1, <2>2 DEF OnceInv, WaitingOnce, WrittenOnce, IsChunk
  <2>6. QED
    BY <2>1, <2>3, <2>4, <2>5 DEF OnceInv, BubbleOnce, NoneMissing
<1>8. QED
  BY <1>2, <1>3, <1>4, <1>5, <1>6, <1>7

(* A set in which there are no two elements has none or one. *)
LEMMA AtMostOne ==
  ASSUME NEW S, \A x, y \in S : x = y
  PROVE  Cardinality(S) = IF S = {} THEN 0 ELSE 1
<1>1. CASE S = {}
  BY <1>1, FS_EmptySet
<1>2. CASE S # {}
  <2>1. PICK x \in S : S = {x}
    BY <1>2
  <2>2. Cardinality({x}) = 1
    BY FS_Singleton
  <2>3. QED
    BY <1>2, <2>1, <2>2
<1>3. QED
  BY <1>1, <1>2

(* The property is this invariant. *)
LEMMA ShownOnce ==
  ASSUME ClientTypes, OnceInv
  PROVE  RepliesShown
<1>1. PICK n \in Nat : n = Len(sent) /\ replied \subseteq 1..n
  BY ViewTypes
<1>2. Requests = 1..n
  BY <1>1 DEF Requests
<1>3. SUFFICES ASSUME NEW q \in replied
               PROVE  /\ Cardinality(OnSocket(q)) + Cardinality(Shown(q)) <= 1
                      /\ ~ lost => OnSocket(q) \union Shown(q) # {}
  BY DEF RepliesShown
<1>4. OnSocket(q) # {} <=> Waiting(q)
  BY DEF OnSocket, Waiting, IsChunk
<1>5. \A i, j \in OnSocket(q) : i = j
  BY DEF OnSocket, OnceInv, WaitingOnce, IsChunk
<1>6. ASSUME NEW p \in Shown(q)
      PROVE  /\ p = <<p[1], p[2]>>
             /\ InBubble(q, p[1], p[2])
  BY DEF Shown, InBubble
<1>7. \A p, r \in Shown(q) : p = r
  <2>1. ASSUME NEW p \in Shown(q), NEW r \in Shown(q)
        PROVE  p[1] = r[1] /\ p[2] = r[2]
    BY <1>6 DEF OnceInv, BubbleOnce
  <2>2. QED
    BY <1>6, <2>1
<1>8. Shown(q) # {} => OnSocket(q) = {}
  <2>1. ASSUME NEW p \in Shown(q)
        PROVE  ~ Waiting(q)
    BY <1>6 DEF OnceInv, BubbleOnce
  <2>2. QED
    BY <1>4, <2>1
<1>9. /\ Cardinality(OnSocket(q)) = IF OnSocket(q) = {} THEN 0 ELSE 1
      /\ Cardinality(Shown(q)) = IF Shown(q) = {} THEN 0 ELSE 1
  BY <1>5, <1>7, AtMostOne
<1>10. Cardinality(OnSocket(q)) + Cardinality(Shown(q)) <= 1
  BY <1>8, <1>9
<1>11. ASSUME ~ lost
       PROVE  OnSocket(q) \union Shown(q) # {}
  <2>1. CASE Waiting(q)
    BY <1>4, <2>1
  <2>2. CASE \E m : InBubble(q, m, 1)
    <3>1. PICK m : InBubble(q, m, 1)
      BY <2>2
    <3>2. 1 \in Requests
      BY <1>1, <1>2
    <3>3. <<m, 1>> \in Shown(q)
      BY <3>1, <3>2 DEF Shown, InBubble
    <3>4. QED
      BY <3>3
  <2>3. QED
    BY <1>11, <2>1, <2>2 DEF OnceInv, NoneMissing
<1>12. QED
  BY <1>10, <1>11

(* A reply that was written is on its way or in the conversation, and never *)
(* twice, wherever the user was when it came; it can be missing only if a   *)
(* line was damaged in reading.                                             *)
THEOREM RepliesShownHolds == Spec => []RepliesShown
<1>1. Init => OnceInv
  BY DEF Init, OnceInv, WrittenOnce, WaitingOnce, BubbleOnce, NoneMissing,
     InBubble
<1>2. ClientTypes /\ ScriptInv /\ HeadInv /\ OnceInv /\ [Next]_vars => OnceInv'
  BY OnceStep
<1>3. ClientTypes /\ OnceInv => RepliesShown
  BY ShownOnce
<1>4. QED
  BY <1>1, <1>2, <1>3, ClientTypesHold, HeadHolds, PTL DEF Spec

-----------------------------------------------------------------------------
(* The prompt line.                                                         *)

(* The client does nothing to the prompt line but what the editor allows. *)
LEMMA LineSteps == Spec => EditorSpec
<1>1. Init => EditorInit
  BY DEF Init
<1>2. [Next]_vars => [EditorStep \/ SubmitLine]_editorVars
  <2> SUFFICES ASSUME [Next]_vars
               PROVE  [EditorStep \/ SubmitLine]_editorVars
    OBVIOUS
  <2>1. CASE Key
    BY <2>1 DEF Key
  <2>2. CASE SubmitPrompt
    BY <2>2 DEF SubmitPrompt, SubmitLine
  <2>3. CASE InterruptSpeech \/ StartRecording \/ StopRecording
               \/ FinishRecording
    BY <2>3
    DEF InterruptSpeech, StartRecording, StopRecording, FinishRecording
  <2>4. CASE ReadLine \/ ReadEnd \/ CancelRead
    BY <2>4 DEF ReadLine, ReadEnd, CancelRead
  <2>5. CASE RuntimeTakes \/ RuntimeWrites \/ RuntimeFails \/ RuntimeGone
    BY <2>5 DEF RuntimeTakes, RuntimeWrites, RuntimeFails, RuntimeGone
  <2>6. CASE UNCHANGED vars
    BY <2>6 DEF vars
  <2>7. QED
    BY <2>1, <2>2, <2>3, <2>4, <2>5, <2>6 DEF Next
<1>3. QED
  BY <1>1, <1>2, PTL DEF Spec, EditorSpec

(* So whatever the client is doing besides, and whatever comes in from the  *)
(* runtime meanwhile, a key does to the text what it says or breaks the     *)
(* client off (app.rs, with the line inside the whole event loop).          *)
THEOREM EditsRightHolds == Spec => EditsRight
BY LineSteps, EditorRefinement
=============================================================================
