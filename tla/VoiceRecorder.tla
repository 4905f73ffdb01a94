---------------------------- MODULE VoiceRecorder ----------------------------
(***************************************************************************)
(* The runtime's own recorder (services/voice_recording.py): one handling  *)
(* of a PipelineStartEvent, from the announcement over the loop that       *)
(* detects speech to the file and the events the transcriber starts from.  *)
(*                                                                         *)
(* Durations are counted in frames of 30 ms, which is how the loop counts  *)
(* them; a frame is its number, and whether it is loud is up to the        *)
(* microphone.  A publish may raise before or after the store has the      *)
(* event (EventBus).  The samples and the wave format are left out.        *)
(***************************************************************************)
EXTENDS Integers, Sequences, SequencesExt

CONSTANT Configs   \* what the environment variables may say, in frames

ASSUME ConfigAssumption ==
  Configs \subseteq [listen : Nat, hangover : Nat, max : Nat, min : Nat,
                     pre_roll : Nat \ {0}]

VARIABLES
  config,          \* the limits read when the service was made
  pc,              \* where handle, record or the detection loop is
  count,           \* frames read so far
  lookback,        \* the latest frames, while nobody speaks
  frames,          \* the frames kept
  speech_started,
  waited,          \* quiet frames before the first loud one
  silent,          \* quiet frames since the last loud one
  first,           \* the first loud frame, or 0 (history)
  file,            \* what data/audio/input.wav holds
  log              \* the events published, in order

loopVars == <<count, lookback, frames, speech_started, waited, silent, first>>
vars == <<config, pc, loopVars, file, log>>

(* The publishes of handle: the event each stores and what comes next. *)
Publishes ==
  [begin     |-> [event |-> "VoiceRecordingStart", next |-> "listen"],
   quiet     |-> [event |-> "SilenceDetected", next |-> "done"],
   speech    |-> [event |-> "SpeechDetected", next |-> "silence"],
   silence   |-> [event |-> "SilenceDetected", next |-> "completed"],
   completed |-> [event |-> "VoiceRecordingCompleted", next |-> "done"],
   failing   |-> [event |-> "VoiceRecordingFailed", next |-> "done"]]

EventNames == {Publishes[p].event : p \in DOMAIN Publishes}

Places == DOMAIN Publishes
            \union {"listen", "record", "judge", "write", "done", "raised"}

Init ==
  /\ config \in Configs
  /\ pc = "begin"
  /\ count = 0
  /\ lookback = <<>>
  /\ frames = <<>>
  /\ speech_started = FALSE
  /\ waited = 0
  /\ silent = 0
  /\ first = 0
  /\ file = <<>>
  /\ log = <<>>

-----------------------------------------------------------------------------
(* handle                                                                   *)

Publish ==
  /\ pc \in DOMAIN Publishes
  /\ log' = Append(log, Publishes[pc].event)
  /\ pc' = Publishes[pc].next
  /\ UNCHANGED <<config, loopVars, file>>

(* Every exception ends in the publish of the failure, except its own. *)
Failure == IF pc = "failing" THEN "raised" ELSE "failing"

(* The store refuses the event, or has it at the next commit, or has it and *)
(* a handler raises: what comes after a publish, the transcription          *)
(* included, is awaited by it.                                              *)
PublishRaises ==
  /\ pc \in DOMAIN Publishes
  /\ log' \in {log, Append(log, Publishes[pc].event)}
  /\ pc' = Failure
  /\ UNCHANGED <<config, loopVars, file>>

(* The microphone cannot be opened or read. *)
MicrophoneFails ==
  /\ pc \in {"listen", "record"}
  /\ pc' = Failure
  /\ UNCHANGED <<config, loopVars, file, log>>

-----------------------------------------------------------------------------
(* _record_with_vad: the deque keeps the last pre_roll frames.              *)

(* Variant: the look-back is not bounded. *)
RememberedAll(f) == Append(lookback, f)

(* Variant: the look-back is one frame short. *)
RememberedShort(f) ==
  IF Len(lookback) + 1 < config.pre_roll THEN Append(lookback, f)
  ELSE Append(IF lookback = <<>> THEN <<>> ELSE Tail(lookback), f)

Remembered(f) ==
  IF Len(lookback) < config.pre_roll THEN Append(lookback, f)
  ELSE Append(Tail(lookback), f)

(* LISTEN: a loud frame starts the recording with what is remembered, this  *)
(* frame included; too many quiet ones end it.                              *)
Listen(loud) ==
  LET f == count + 1 IN
  /\ pc = "listen"
  /\ count' = f
  /\ lookback' = Remembered(f)
  /\ IF loud
     THEN /\ speech_started' = TRUE
          /\ first' = f
          /\ frames' = lookback'
          /\ pc' = "record"
          /\ UNCHANGED waited
     ELSE /\ waited' = waited + 1
          /\ pc' = IF waited' >= config.listen THEN "judge" ELSE "listen"
          /\ UNCHANGED <<speech_started, first, frames>>
  /\ UNCHANGED <<config, silent, file, log>>

(* RECORD: every frame is kept, until it has been quiet for long enough or  *)
(* the recording is full.                                                   *)
Record(loud) ==
  LET f == count + 1 IN
  /\ pc = "record"
  /\ count' = f
  /\ frames' = Append(frames, f)
  /\ silent' = IF loud THEN 0 ELSE silent + 1
  /\ pc' = IF \/ ~ loud /\ silent' >= config.hangover
              \/ Len(frames') >= config.max
           THEN "judge" ELSE "record"
  /\ UNCHANGED <<config, lookback, speech_started, waited, first, file, log>>

(* A capture below the minimum is to count as no speech; its length includes *)
(* the silence that ended it.                                               *)
TooShort == Len(frames) < config.min

(* Variant: whatever was captured is written. *)
JudgeAll ==
  /\ pc = "judge"
  /\ speech_started' = (speech_started /\ ~ TooShort)
  /\ pc' = "write"
  /\ UNCHANGED <<config, count, lookback, frames, waited, silent, first, file,
                 log>>

(* The loop is over: record and handle go on with speech, or with none. *)
Judge ==
  /\ pc = "judge"
  /\ speech_started' = (speech_started /\ ~ TooShort)
  /\ pc' = IF speech_started' THEN "write" ELSE "quiet"
  /\ UNCHANGED <<config, count, lookback, frames, waited, silent, first, file,
                 log>>

WriteFile ==
  /\ pc = "write"
  /\ \/ file' = frames /\ pc' = "speech"
     \/ file' \in {file, <<>>} /\ pc' = Failure
  /\ UNCHANGED <<config, loopVars, log>>

Next ==
  \/ Publish
  \/ PublishRaises
  \/ MicrophoneFails
  \/ \E loud \in BOOLEAN : Listen(loud) \/ Record(loud)
  \/ Judge
  \/ WriteFile

Spec == Init /\ [][Next]_vars

-----------------------------------------------------------------------------
(* Types: the state is of the shape the code gives it, and the look-back    *)
(* never grows over its bound.                                              *)
TypeOK ==
  /\ config \in Configs
  /\ pc \in Places
  /\ count \in Nat
  /\ lookback \in Seq(Nat)
  /\ Len(lookback) <= config.pre_roll
  /\ frames \in Seq(Nat)
  /\ speech_started \in BOOLEAN
  /\ waited \in Nat
  /\ silent \in Nat
  /\ first \in Nat
  /\ file \in Seq(Nat)
  /\ log \in Seq(EventNames)

Larger(a, b) == IF a >= b THEN a ELSE b

(* A sequence of the frames read last, each once and in order. *)
Latest(s) == \A i \in DOMAIN s : s[i] = count - Len(s) + i

(* From the first loud frame on the capture is a gapless piece of what the  *)
(* microphone gave: it begins the pre-roll before that frame, or as far     *)
(* back as there was anything, has every frame once and in order up to the  *)
(* last one read, and is no longer than max_duration, except when the       *)
(* pre-roll alone reaches it.                                               *)
WholeCapture ==
  first # 0 =>
    /\ Latest(frames)
    /\ count - Len(frames) + 1 = Larger(1, first - config.pre_roll + 1)
    /\ Len(frames) <= Larger(config.max, config.pre_roll + 1)

(* What the store has of a good recording before it is complete. *)
Prologue == <<"VoiceRecordingStart", "SpeechDetected", "SilenceDetected">>

Said(n) == Len(log) >= n /\ \A i \in 1..n : log[i] = Prologue[i]

(* The event the transcription starts from is published only when the file  *)
(* holds this recording, the recording has somebody speaking in it, and the *)
(* store already says so: silence is never transcribed.                     *)
CompletedIsSpeech ==
  pc = "completed" \/ "VoiceRecordingCompleted" \in ToSet(log) =>
    /\ file = frames
    /\ first \in ToSet(file)
    /\ Len(file) >= config.min
    /\ Said(3)
=============================================================================
