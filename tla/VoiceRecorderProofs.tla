------------------------ MODULE VoiceRecorderProofs ------------------------
(***************************************************************************)
(* The recorder for every setting of its limits: what it keeps, what it    *)
(* calls silence and what it lets a transcription start from.              *)
(***************************************************************************)
EXTENDS VoiceRecorder, TLAPS

(* Before anybody speaks nothing is kept and the look-back is full, or as   *)
(* full as it can be; from the first loud frame on that frame is in the     *)
(* capture, and the loop goes on only within its limits and ends for one of *)
(* its reasons.                                                             *)
LoopInv ==
  /\ pc \in {"begin", "listen"} => first = 0
  /\ pc \in {"begin", "listen", "record", "judge"} =>
       (speech_started <=> first # 0)
  /\ pc = "record" => first # 0
  /\ first = 0 =>
       /\ frames = <<>>
       /\ silent = 0
       /\ Latest(lookback)
       /\ Len(lookback) = IF count < config.pre_roll THEN count ELSE config.pre_roll
  /\ first # 0 =>
       /\ first <= count
       /\ silent <= Len(frames)
  /\ pc = "record" =>
       Len(frames) < config.max \/ Len(frames) <= config.pre_roll
  /\ pc = "judge" /\ first # 0 =>
       silent >= config.hangover \/ Len(frames) >= config.max

(* What the store has is what the place in handle says, and from the        *)
(* judgement on it was about a capture with somebody speaking.              *)
LogInv ==
  /\ pc = "begin" => Len(log) = 0
  /\ pc \in {"listen", "record", "judge", "write", "quiet", "speech"} =>
       Len(log) = 1 /\ Said(1)
  /\ pc = "silence" => Len(log) = 2 /\ Said(2)
  /\ pc = "completed" => Said(3)
  /\ pc \in {"write", "speech", "silence", "completed"} =>
       first # 0 /\ Len(frames) >= config.min
  /\ pc \in {"speech", "silence", "completed"} => file = frames

-----------------------------------------------------------------------------
(* A setting is a record of numbers. *)
LEMMA Setting ==
  ASSUME config \in Configs
  PROVE  /\ config.listen \in Nat /\ config.hangover \in Nat
         /\ config.max \in Nat /\ config.min \in Nat
         /\ config.pre_roll \in Nat \ {0}
BY ConfigAssumption

(* The publishes, read off the table. *)
LEMMA Tables ==
  /\ DOMAIN Publishes =
       {"begin", "quiet", "speech", "silence", "completed", "failing"}
  /\ \A p \in DOMAIN Publishes :
       /\ Publishes[p].event \in EventNames
       /\ Publishes[p].next \in {"listen", "done", "silence", "completed"}
<1>1. DOMAIN Publishes =
        {"begin", "quiet", "speech", "silence", "completed", "failing"}
  BY DEF Publishes
<1>2. ASSUME NEW p \in DOMAIN Publishes
      PROVE  Publishes[p].event \in EventNames
  BY DEF EventNames
<1>3. ASSUME NEW p \in DOMAIN Publishes
      PROVE  Publishes[p].next \in {"listen", "done", "silence", "completed"}
  BY <1>1 DEF Publishes
<1>4. QED
  BY <1>1, <1>2, <1>3

(* The look-back keeps the latest frames, up to its bound. *)
LEMMA LookBack ==
  ASSUME TypeOK, NEW loud \in BOOLEAN, Listen(loud)
  PROVE  /\ lookback' \in Seq(Nat)
         /\ Len(lookback') = IF Len(lookback) < config.pre_roll
                             THEN Len(lookback) + 1 ELSE Len(lookback)
         /\ lookback'[Len(lookback')] = count + 1
         /\ Len(lookback') > 0
         /\ \A i \in 1..(Len(lookback') - 1) :
              lookback'[i] = lookback[i + Len(lookback) + 1 - Len(lookback')]
<1>1. /\ lookback \in Seq(Nat) /\ count \in Nat
      /\ Len(lookback) <= config.pre_roll /\ config.pre_roll \in Nat \ {0}
  BY Setting DEF TypeOK
<1>2. lookback' = IF Len(lookback) < config.pre_roll
                  THEN Append(lookback, count + 1)
                  ELSE Append(Tail(lookback), count + 1)
  BY DEF Listen, Remembered
<1>3. CASE Len(lookback) < config.pre_roll
  BY <1>1, <1>2, <1>3
<1>4. CASE ~ Len(lookback) < config.pre_roll
  <2>1. lookback # <<>> /\ Len(lookback) > 0
    BY <1>1, <1>4
  <2>2. /\ Tail(lookback) \in Seq(Nat)
        /\ Len(Tail(lookback)) = Len(lookback) - 1
        /\ \A i \in 1..Len(Tail(lookback)) : Tail(lookback)[i] = lookback[i + 1]
    BY <1>1, <2>1
  <2>3. QED
    BY <1>1, <1>2, <1>4, <2>1, <2>2
<1>5. QED
  BY <1>3, <1>4

-----------------------------------------------------------------------------
(* What a step does outside of the loop keeps the types. *)
LEMMA OutsideTypes ==
  ASSUME TypeOK, UNCHANGED <<config, loopVars>>, pc' \in Places,
         file' \in Seq(Nat), log' \in Seq(EventNames)
  PROVE  TypeOK'
BY DEF TypeOK, loopVars

(* The places a step goes to are places. *)
LEMMA PlaceNames ==
  Places = {"begin", "quiet", "speech", "silence", "completed", "failing",
            "listen", "record", "judge", "write", "done", "raised"}
BY Tables DEF Places

(* Every step keeps the types and the bound of the look-back. *)
LEMMA TypeStep == TypeOK /\ [Next]_vars => TypeOK'
<1> SUFFICES ASSUME TypeOK, [Next]_vars
             PROVE  TypeOK'
  OBVIOUS
<1>0. /\ config \in Configs /\ count \in Nat /\ frames \in Seq(Nat)
      /\ file \in Seq(Nat) /\ log \in Seq(EventNames) /\ waited \in Nat
      /\ silent \in Nat /\ first \in Nat /\ speech_started \in BOOLEAN
      /\ lookback \in Seq(Nat) /\ Len(lookback) <= config.pre_roll
      /\ pc \in Places
  BY DEF TypeOK
<1>1. ASSUME pc \in DOMAIN Publishes, log' \in {log, Append(log, Publishes[pc].event)}
      PROVE  log' \in Seq(EventNames)
  <2> DEFINE e == Publishes[pc].event
  <2>1. e \in EventNames
    BY <1>1, Tables
  <2>2. log' = log \/ log' = Append(log, e)
    BY <1>1
  <2>3. log \in Seq(EventNames)
    BY DEF TypeOK
  <2> HIDE DEF e
  <2>4. QED
    BY <2>1, <2>2, <2>3
<1>2. CASE Publish
  <2>1. pc' \in Places
    BY <1>2, Tables, PlaceNames DEF Publish
  <2>2. QED
    BY <1>0, <1>1, <1>2, <2>1, OutsideTypes DEF Publish
<1>3. CASE PublishRaises
  <2>1. pc' \in Places
    BY <1>3, PlaceNames DEF PublishRaises, Failure
  <2>2. QED
    BY <1>0, <1>1, <1>3, <2>1, OutsideTypes DEF PublishRaises
<1>4. CASE MicrophoneFails
  BY <1>0, <1>4, PlaceNames, OutsideTypes DEF MicrophoneFails, Failure
<1>5. ASSUME NEW loud \in BOOLEAN, Listen(loud)
      PROVE  TypeOK'
  <2>1. lookback' \in Seq(Nat) /\ Len(lookback') <= config'.pre_roll
    <3>1. /\ lookback' \in Seq(Nat)
          /\ Len(lookback') = IF Len(lookback) < config.pre_roll
                              THEN Len(lookback) + 1 ELSE Len(lookback)
      BY <1>5, LookBack
    <3>2. config' = config /\ config.pre_roll \in Nat
      BY <1>0, <1>5, Setting DEF Listen
    <3>3. Len(lookback) \in Nat
      BY <1>0
    <3>4. QED
      BY <1>0, <3>1, <3>2, <3>3
  <2>2. UNCHANGED <<config, silent, file, log>> /\ count' = count + 1
    BY <1>5 DEF Listen
  <2>3. /\ pc' \in {"record", "judge", "listen"}
        /\ frames' \in {lookback', frames} /\ first' \in {count + 1, first}
        /\ waited' \in {waited, waited + 1}
        /\ speech_started' \in {TRUE, speech_started}
    BY <1>5 DEF Listen
  <2>4. QED
    <3>1. pc' \in Places
      BY <2>3, PlaceNames
    <3>2. /\ frames' \in Seq(Nat) /\ first' \in Nat /\ waited' \in Nat
          /\ count' \in Nat
      BY <2>1, <2>2, <2>3 DEF TypeOK
    <3>3. speech_started' \in BOOLEAN
      BY <2>3 DEF TypeOK
    <3>4. QED
      BY <2>1, <2>2, <3>1, <3>2, <3>3 DEF TypeOK
<1>6. ASSUME NEW loud \in BOOLEAN, Record(loud)
      PROVE  TypeOK'
  <2>1. /\ UNCHANGED <<config, lookback, speech_started, waited, first, file, log>>
        /\ count' = count + 1 /\ frames' = Append(frames, count + 1)
        /\ silent' \in {0, silent + 1} /\ pc' \in {"judge", "record"}
    BY <1>6 DEF Record
  <2>2. frames' \in Seq(Nat) /\ count' \in Nat /\ silent' \in Nat /\ pc' \in Places
    BY <1>0, <2>1, PlaceNames
  <2>3. QED
    BY <1>0, <2>1, <2>2 DEF TypeOK
<1>7. CASE Judge
  <2>1. pc' \in Places /\ speech_started' \in BOOLEAN
    BY <1>7, PlaceNames DEF Judge
  <2>2. UNCHANGED <<config, count, lookback, frames, waited, silent, first,
                    file, log>>
    BY <1>7 DEF Judge
  <2>3. QED
    BY <1>0, <2>1, <2>2 DEF TypeOK
<1>8. CASE WriteFile
  <2>1. file' \in Seq(Nat) /\ pc' \in Places
    <3>1. file' \in {file, frames, <<>>} /\ pc' \in {"speech", "failing"}
      BY <1>8 DEF WriteFile, Failure
    <3>2. file \in Seq(Nat) /\ frames \in Seq(Nat)
      BY DEF TypeOK
    <3>3. pc' \in Places
      BY <3>1, PlaceNames
    <3>4. <<>> \in Seq(Nat)
      OBVIOUS
    <3>5. file' \in Seq(Nat)
      BY <3>1, <3>2, <3>4
    <3>6. QED
      BY <3>3, <3>5
  <2>2. QED
    BY <1>0, <1>8, <2>1, OutsideTypes DEF WriteFile
<1>9. CASE UNCHANGED vars
  BY <1>0, <1>9, OutsideTypes DEF vars
<1>10. QED
  BY <1>2, <1>3, <1>4, <1>5, <1>6, <1>7, <1>8, <1>9 DEF Next

-----------------------------------------------------------------------------
(* The loop.                                                                *)

(* A cycle ends as silence though it has heard a loud frame only if the     *)
(* minimum is configured longer than the silence that ends a recording, or  *)
(* than the longest recording.                                              *)
NothingFiltered ==
  pc = "quiet" /\ config.min <= config.hangover /\ config.min <= config.max
    => first = 0

Loop == LoopInv /\ WholeCapture /\ NothingFiltered

(* A step outside of the loop leaves what it has gathered alone, and enters *)
(* it only at its beginning.                                                *)
LEMMA OutsideStep ==
  ASSUME TypeOK, Loop, UNCHANGED <<config, loopVars>>,
         \/ pc = "begin" /\ pc' = "listen"
         \/ pc' \notin {"begin", "listen", "record", "judge", "quiet"}
         \/ pc' = pc
  PROVE  Loop'
BY DEF Loop, LoopInv, WholeCapture, NothingFiltered, Latest, Larger, loopVars

(* A frame before anybody speaks: the look-back stays full, and a loud one  *)
(* starts the capture with it.                                              *)
LEMMA ListenStep ==
  ASSUME TypeOK, Loop, NEW loud \in BOOLEAN, Listen(loud)
  PROVE  Loop'
<1> USE DEF Loop
<1>0. ~ speech_started
  BY DEF LoopInv, Listen
<1>1. /\ first = 0 /\ frames = <<>> /\ silent = 0
      /\ Latest(lookback)
      /\ Len(lookback) = IF count < config.pre_roll THEN count ELSE config.pre_roll
  BY DEF LoopInv, Listen
<1>2. /\ lookback \in Seq(Nat) /\ count \in Nat /\ config.pre_roll \in Nat \ {0}
      /\ config.max \in Nat
  BY Setting DEF TypeOK
<1>3. /\ count' = count + 1 /\ UNCHANGED <<config, silent>>
      /\ pc' \in {"record", "judge", "listen"}
  BY DEF Listen
<1>4. /\ lookback' \in Seq(Nat)
      /\ Len(lookback') = IF Len(lookback) < config.pre_roll
                          THEN Len(lookback) + 1 ELSE Len(lookback)
      /\ lookback'[Len(lookback')] = count + 1
      /\ Len(lookback') > 0
      /\ \A i \in 1..(Len(lookback') - 1) :
           lookback'[i] = lookback[i + Len(lookback) + 1 - Len(lookback')]
  BY LookBack
<1>5. /\ lookback' \in Seq(Nat)
      /\ Len(lookback') = IF count' < config.pre_roll THEN count'
                          ELSE config.pre_roll
      /\ Len(lookback') \in Nat /\ Len(lookback) \in Nat
  BY <1>1, <1>2, <1>3, <1>4
<1>6. ASSUME NEW i \in 1..Len(lookback')
      PROVE  lookback'[i] = count' - Len(lookback') + i
  <2>1. CASE i = Len(lookback')
    BY <2>1, <1>2, <1>3, <1>5, <1>4
  <2>2. CASE i < Len(lookback')
    <3> DEFINE j == i + Len(lookback) + 1 - Len(lookback')
    <3>1. lookback'[i] = lookback[j] /\ j \in 1..Len(lookback)
      <4>1. Len(lookback') \in {Len(lookback), Len(lookback) + 1}
        BY <1>4
      <4>2. i \in 1..(Len(lookback') - 1) /\ i \in Int
        BY <2>2, <1>5
      <4>3. j \in 1..Len(lookback)
        BY <4>1, <4>2, <1>5
      <4>4. QED
        BY <4>2, <4>3, <1>4
    <3>2. lookback[j] = count - Len(lookback) + j
      <4> HIDE DEF j
      <4>1. QED
        BY <3>1, <1>1, <1>2 DEF Latest
    <3>3. QED
      <4>1. lookback'[i] = count - Len(lookback) + j
        BY <3>1, <3>2
      <4>2. i \in Int
        OBVIOUS
      <4>3. /\ Len(lookback) \in Int /\ Len(lookback') \in Int
            /\ count \in Int /\ count' = count + 1
        BY <1>2, <1>3, <1>5
      <4>4. QED
        BY <4>1, <4>2, <4>3
  <2>3. QED
    BY <2>1, <2>2, <1>5
<1>7. CASE loud
  <2>1. /\ speech_started' = TRUE /\ first' = count + 1
        /\ frames' = lookback' /\ pc' = "record"
    BY <1>7 DEF Listen
  <2>2. LoopInv'
    BY <2>1, <1>1, <1>2, <1>3, <1>5 DEF LoopInv
  <2>3. WholeCapture'
    <3>1. Latest(frames)'
      BY <2>1, <1>5, <1>6 DEF Latest
    <3>2. count' - Len(frames') + 1 = Larger(1, first' - config.pre_roll + 1)
      BY <2>1, <1>2, <1>3, <1>5 DEF Larger
    <3>3. Len(frames') <= Larger(config.max, config.pre_roll + 1)
      BY <2>1, <1>2, <1>5 DEF Larger
    <3>4. QED
      BY <3>1, <3>2, <3>3, <1>3 DEF WholeCapture
  <2>4. NothingFiltered'
    BY <2>1 DEF NothingFiltered
  <2>5. QED
    BY <2>2, <2>3, <2>4
<1>8. CASE ~ loud
  <2>1. /\ UNCHANGED <<speech_started, first, frames>>
        /\ pc' \in {"judge", "listen"}
    BY <1>8 DEF Listen
  <2>2. LoopInv'
    <3>1. Latest(lookback)'
      <4>1. DOMAIN lookback' = 1..Len(lookback')
        BY <1>5
      <4>2. QED
        BY <4>1, <1>6 DEF Latest
    <3>2. ~ speech_started'
      BY <1>0, <2>1
    <3>3. QED
      BY <2>1, <3>1, <3>2, <1>1, <1>3, <1>5 DEF LoopInv
  <2>3. QED
    BY <2>1, <2>2, <1>1 DEF WholeCapture, NothingFiltered
<1>9. QED
  BY <1>7, <1>8

(* A frame while somebody speaks: the capture is the longer by it. *)
LEMMA RecordStep ==
  ASSUME TypeOK, Loop, NEW loud \in BOOLEAN, Record(loud)
  PROVE  Loop'
<1> USE DEF Loop
<1>1. /\ first # 0 /\ speech_started /\ first <= count /\ silent <= Len(frames)
      /\ Len(frames) < config.max \/ Len(frames) <= config.pre_roll
      /\ Latest(frames)
      /\ count - Len(frames) + 1 = Larger(1, first - config.pre_roll + 1)
  BY DEF LoopInv, WholeCapture, Record
<1>2. /\ frames \in Seq(Nat) /\ count \in Nat /\ first \in Nat /\ silent \in Nat
      /\ config.pre_roll \in Nat \ {0} /\ config.max \in Nat
      /\ config.hangover \in Nat
  BY Setting DEF TypeOK
<1>3. /\ count' = count + 1 /\ frames' = Append(frames, count + 1)
      /\ UNCHANGED <<config, lookback, speech_started, first>>
      /\ silent' = IF loud THEN 0 ELSE silent + 1
      /\ \/ /\ pc' = "judge"
            /\ silent' >= config.hangover \/ Len(frames') >= config.max
         \/ pc' = "record" /\ ~ Len(frames') >= config.max
  BY DEF Record
<1>4. /\ Len(frames') = Len(frames) + 1
      /\ frames'[Len(frames')] = count + 1
      /\ \A i \in 1..Len(frames) : frames'[i] = frames[i]
  BY <1>2, <1>3
<1>5. LoopInv'
  BY <1>1, <1>2, <1>3, <1>4 DEF LoopInv
<1>6. Latest(frames)'
  <2> SUFFICES ASSUME NEW i \in 1..Len(frames')
               PROVE  frames'[i] = count' - Len(frames') + i
    BY <1>2, <1>3 DEF Latest
  <2>1. CASE i = Len(frames')
    BY <2>1, <1>2, <1>3, <1>4
  <2>2. CASE i < Len(frames')
    <3>1. i \in 1..Len(frames) /\ frames'[i] = frames[i]
      BY <2>2, <1>2, <1>4
    <3>2. frames[i] = count - Len(frames) + i
      BY <3>1, <1>1, <1>2 DEF Latest
    <3>3. QED
      BY <3>1, <3>2, <1>2, <1>3, <1>4
  <2>3. QED
    BY <2>1, <2>2, <1>2, <1>4
<1>7. WholeCapture'
  <2>1. /\ Len(frames) \in Nat
        /\ \/ Len(frames) + 1 <= config.max
           \/ Len(frames) + 1 <= config.pre_roll + 1
        /\ count' - Len(frames') = count - Len(frames)
    BY <1>1, <1>2, <1>3, <1>4
  <2>2. Len(frames') <= Larger(config.max, config.pre_roll + 1)
    BY <1>2, <1>4, <2>1 DEF Larger
  <2>3. QED
    BY <1>1, <1>2, <1>3, <1>6, <2>1, <2>2 DEF WholeCapture
<1>8. NothingFiltered'
  BY <1>3 DEF NothingFiltered
<1>9. QED
  BY <1>5, <1>7, <1>8

(* A capture that is judged too short was ended by neither reason if the    *)
(* minimum is below both limits.                                            *)
LEMMA JudgeStep ==
  ASSUME TypeOK, Loop, Judge
  PROVE  Loop'
<1> USE DEF Loop
<1>1. /\ speech_started <=> first # 0
      /\ first # 0 => /\ silent <= Len(frames)
                      /\ silent >= config.hangover \/ Len(frames) >= config.max
  BY DEF LoopInv, Judge
<1>2. /\ UNCHANGED <<config, count, lookback, frames, silent, first>>
      /\ pc' = "write" \/ (pc' = "quiet" /\ ~ (speech_started /\ ~ TooShort))
  BY DEF Judge
<1>3. LoopInv' /\ WholeCapture'
  BY <1>2 DEF LoopInv, WholeCapture, Latest, Larger
<1>4. NothingFiltered'
  BY <1>1, <1>2, Setting DEF NothingFiltered, TooShort, TypeOK
<1>5. QED
  BY <1>3, <1>4

(* Every step keeps the bookkeeping of the loop. *)
LEMMA LoopStep == TypeOK /\ Loop /\ [Next]_vars => Loop'
<1> SUFFICES ASSUME TypeOK, Loop, [Next]_vars
             PROVE  Loop'
  OBVIOUS
<1>1. CASE Publish
  <2>1. UNCHANGED <<config, loopVars>>
    BY <1>1 DEF Publish
  <2>2. \/ pc = "begin" /\ pc' = "listen"
        \/ pc' \notin {"begin", "listen", "record", "judge", "quiet"}
    BY <1>1, Tables DEF Publish, Publishes
  <2>3. QED
    BY <2>1, <2>2, OutsideStep
<1>2. CASE PublishRaises \/ MicrophoneFails \/ WriteFile
  BY <1>2, OutsideStep
    DEF PublishRaises, MicrophoneFails, WriteFile, Failure, loopVars
<1>3. ASSUME NEW loud \in BOOLEAN, Listen(loud) \/ Record(loud)
      PROVE  Loop'
  BY <1>3, ListenStep, RecordStep
<1>4. CASE Judge
  BY <1>4, JudgeStep
<1>5. CASE UNCHANGED vars
  BY <1>5, OutsideStep DEF vars
<1>6. QED
  BY <1>1, <1>2, <1>3, <1>4, <1>5 DEF Next

-----------------------------------------------------------------------------
(* The log.                                                                 *)

(* The frame that started a capture is in it. *)
LEMMA FirstKept ==
  ASSUME TypeOK, Loop, first # 0
  PROVE  first \in ToSet(frames)
<1>1. /\ frames \in Seq(Nat) /\ count \in Nat /\ first \in Nat
      /\ config.pre_roll \in Nat \ {0}
  BY Setting DEF TypeOK
<1>2. /\ first <= count /\ Latest(frames)
      /\ count - Len(frames) + 1 = Larger(1, first - config.pre_roll + 1)
  BY DEF Loop, LoopInv, WholeCapture
<1> DEFINE i == first - count + Len(frames)
<1>3. i \in DOMAIN frames
  BY <1>1, <1>2 DEF Larger
<1>4. frames[i] = first
  BY <1>1, <1>2, <1>3 DEF Latest
<1>5. QED
  BY <1>3, <1>4 DEF ToSet

(* An event more does not change what the log begins with. *)
LEMMA LogGrows ==
  ASSUME TypeOK, NEW e \in EventNames, log' = Append(log, e)
  PROVE  /\ Len(log') = Len(log) + 1
         /\ \A i \in 1..Len(log) : log'[i] = log[i]
         /\ ToSet(log') = ToSet(log) \union {e}
<1>1. log \in Seq(EventNames)
  BY DEF TypeOK
<1>2. /\ Len(log') = Len(log) + 1
      /\ \A i \in 1..Len(log) : log'[i] = log[i]
      /\ log'[Len(log) + 1] = e
      /\ DOMAIN log' = 1..(Len(log) + 1) /\ DOMAIN log = 1..Len(log)
      /\ Len(log) \in Nat
  BY <1>1
<1>3. ToSet(log') = ToSet(log) \union {e}
  BY <1>2 DEF ToSet
<1>4. QED
  BY <1>2, <1>3

(* What has been said stays said, and one event more may be the next. *)
LEMMA SaidMore ==
  ASSUME TypeOK, NEW n \in 0..3, Said(n), NEW e \in EventNames,
         log' = Append(log, e)
  PROVE  /\ Said(n)'
         /\ Len(log') = Len(log) + 1
         /\ n < 3 /\ Len(log) = n /\ e = Prologue[n + 1] => Said(n + 1)'
<1>1. /\ Len(log') = Len(log) + 1 /\ Len(log) \in Nat
      /\ \A i \in 1..Len(log) : log'[i] = log[i]
      /\ log'[Len(log) + 1] = e
  BY DEF TypeOK
<1>2. Len(log) >= n /\ \A i \in 1..n : log[i] = Prologue[i]
  BY DEF Said
<1>3. Said(n)'
  BY <1>1, <1>2 DEF Said
<1>4. ASSUME n < 3, Len(log) = n, e = Prologue[n + 1]
      PROVE  Said(n + 1)'
  <2>1. \A i \in 1..(n + 1) : i = n + 1 \/ i \in 1..n
    OBVIOUS
  <2>2. QED
    BY <1>1, <1>2, <1>4, <2>1 DEF Said
<1>5. QED
  BY <1>1, <1>3, <1>4

(* What is true of the log at the places in handle. *)
LEMMA LogStep == TypeOK /\ Loop /\ LogInv /\ [Next]_vars => LogInv'
<1> SUFFICES ASSUME TypeOK, Loop, LogInv, [Next]_vars
             PROVE  LogInv'
  OBVIOUS
<1> USE DEF LogInv
<1>1. CASE Publish
  <2>1. UNCHANGED <<config, loopVars, file>>
    BY <1>1 DEF Publish
  <2>2. \/ /\ pc = "begin" /\ pc' = "listen"
           /\ log' = Append(log, "VoiceRecordingStart")
        \/ /\ pc = "speech" /\ pc' = "silence"
           /\ log' = Append(log, "SpeechDetected")
        \/ /\ pc = "silence" /\ pc' = "completed"
           /\ log' = Append(log, "SilenceDetected")
        \/ pc' = "done"
    BY <1>1, Tables DEF Publish, Publishes
  <2>3. UNCHANGED <<config, frames, first, file>>
    BY <2>1 DEF loopVars
  <2>4. /\ "VoiceRecordingStart" = Prologue[1] /\ "SpeechDetected" = Prologue[2]
        /\ "SilenceDetected" = Prologue[3]
        /\ {Prologue[1], Prologue[2], Prologue[3]} \subseteq EventNames
    BY Tables DEF Prologue, EventNames, Publishes
  <2>5. CASE pc = "begin" /\ pc' = "listen" /\ log' = Append(log, "VoiceRecordingStart")
    <3>1. Len(log) = 0 /\ Said(0)
      BY <2>5 DEF Said
    <3>2. Len(log') = 1 /\ Said(1)'
      BY <2>5, <2>4, <3>1, SaidMore
    <3>3. QED
      BY <2>5, <3>2
  <2>6. CASE pc = "speech" /\ pc' = "silence" /\ log' = Append(log, "SpeechDetected")
    <3>1. Len(log) = 1 /\ Said(1)
      BY <2>6
    <3>2. Len(log') = 2 /\ Said(2)'
      BY <2>6, <2>4, <3>1, SaidMore
    <3>3. QED
      BY <2>3, <2>6, <3>2
  <2>7. CASE pc = "silence" /\ pc' = "completed" /\ log' = Append(log, "SilenceDetected")
    <3>1. Len(log) = 2 /\ Said(2)
      BY <2>7
    <3>2. Said(3)'
      BY <2>7, <2>4, <3>1, SaidMore
    <3>3. QED
      BY <2>3, <2>7, <3>2
  <2>8. CASE pc' = "done"
    BY <2>8
  <2>9. QED
    BY <2>2, <2>5, <2>6, <2>7, <2>8
<1>2. CASE PublishRaises \/ MicrophoneFails
  BY <1>2 DEF PublishRaises, MicrophoneFails, Failure
<1>3. ASSUME NEW loud \in BOOLEAN, Listen(loud)
      PROVE  LogInv'
  <2>1. pc = "listen" /\ pc' \in {"record", "judge", "listen"} /\ log' = log
    BY <1>3 DEF Listen
  <2>2. QED
    BY <2>1 DEF Said
<1>4. ASSUME NEW loud \in BOOLEAN, Record(loud)
      PROVE  LogInv'
  <2>1. pc = "record" /\ pc' \in {"record", "judge"} /\ log' = log
    BY <1>4 DEF Record
  <2>2. QED
    BY <2>1 DEF Said
<1>5. CASE Judge
  <2>1. /\ pc = "judge" /\ UNCHANGED <<config, frames, first, log>>
        /\ pc' \in {"write", "quiet"}
    BY <1>5 DEF Judge
  <2>2. pc' = "write" => first # 0 /\ ~ TooShort
    BY <1>5 DEF Judge, Loop, LoopInv
  <2>3. ~ TooShort => Len(frames) >= config.min
    BY Setting DEF TooShort, TypeOK
  <2>4. QED
    BY <2>1, <2>2, <2>3 DEF Said
<1>6. CASE WriteFile
  BY <1>6 DEF WriteFile, Failure, loopVars, Said
<1>7. CASE UNCHANGED vars
  BY <1>7 DEF vars, loopVars, Said
<1>8. QED
  BY <1>1, <1>2, <1>3, <1>4, <1>5, <1>6, <1>7 DEF Next

(* What the last event of a good recording promises. *)
Promise ==
  /\ file = frames
  /\ first \in ToSet(file)
  /\ Len(file) >= config.min
  /\ Said(3)

Due == pc = "completed" \/ "VoiceRecordingCompleted" \in ToSet(log)

(* The property is that the promise is kept whenever it is due. *)
LEMMA PromiseDue == CompletedIsSpeech <=> (Due => Promise)
BY DEF CompletedIsSpeech, Due, Promise

(* A promise that is due stays kept: the handler is over but for a failure  *)
(* to report.                                                               *)
LEMMA PromiseKept ==
  ASSUME TypeOK, LogInv, Due, Promise, [Next]_vars
  PROVE  Promise'
<1>1. pc \notin {"begin", "listen", "record", "judge", "write", "quiet",
                 "speech", "silence"}
  <2>1. PICK n \in Nat : n = Len(log)
    BY DEF TypeOK
  <2>2. n >= 3
    BY <2>1 DEF Promise, Said
  <2>3. pc \in {"begin", "listen", "record", "judge", "write", "quiet",
               "speech", "silence"} => n \in {0, 1, 2}
    BY <2>1 DEF LogInv
  <2>4. QED
    BY <2>2, <2>3
<1>2. \/ Publish \/ PublishRaises \/ UNCHANGED vars
  BY <1>1 DEF Next, MicrophoneFails, Listen, Record, Judge, WriteFile
<1>3. UNCHANGED <<config, file, frames, first>>
  BY <1>2 DEF Publish, PublishRaises, vars, loopVars
<1>4. log' = log \/ \E e \in EventNames : log' = Append(log, e)
  BY <1>2, Tables DEF Publish, PublishRaises, vars
<1>5. Said(3)'
  BY <1>4, SaidMore DEF Promise, Said
<1>6. QED
  BY <1>3, <1>5 DEF Promise

(* A promise falls due when the silence at the end has been published: the  *)
(* first loud frame is in the file then.                                    *)
LEMMA PromiseBegins ==
  ASSUME TypeOK, Loop, LogInv, ~ Due, [Next]_vars, Due'
  PROVE  Promise'
<1>1. pc # "completed" /\ "VoiceRecordingCompleted" \notin ToSet(log)
  BY DEF Due
<1>2. ASSUME pc \in DOMAIN Publishes
      PROVE  Publishes[pc].event # "VoiceRecordingCompleted"
  BY <1>1, <1>2, Tables DEF Publishes
<1>3. "VoiceRecordingCompleted" \notin ToSet(log')
  <2>1. \/ log' = log
        \/ pc \in DOMAIN Publishes /\ log' = Append(log, Publishes[pc].event)
    BY DEF Next, Publish, PublishRaises, MicrophoneFails, Listen, Record, Judge,
           WriteFile, vars
  <2>2. CASE log' = log
    BY <1>1, <2>2
  <2>3. CASE pc \in DOMAIN Publishes /\ log' = Append(log, Publishes[pc].event)
    <3>1. ToSet(log') = ToSet(log) \union {Publishes[pc].event}
      BY <2>3, Tables, LogGrows
    <3>2. QED
      BY <1>1, <1>2, <2>3, <3>1
  <2>4. QED
    BY <2>1, <2>2, <2>3
<1>4. pc' = "completed"
  BY <1>3 DEF Due
<1>5. Publish /\ pc = "silence"
  <2>1. Publish
    BY <1>1, <1>4 DEF Next, PublishRaises, Failure, MicrophoneFails, Listen,
                      Record, Judge, WriteFile, vars
  <2>2. QED
    BY <1>4, <2>1, Tables DEF Publish, Publishes
<1>6. /\ UNCHANGED <<config, file, frames, first>>
      /\ log' = Append(log, "SilenceDetected")
  BY <1>5, Tables DEF Publish, Publishes, loopVars
<1>7. /\ Len(log) = 2 /\ Said(2)
      /\ first # 0 /\ Len(frames) >= config.min /\ file = frames
  BY <1>5 DEF LogInv
<1>8. first \in ToSet(frames)
  BY <1>7, FirstKept
<1>9. Said(3)'
  <2>1. "SilenceDetected" = Prologue[3] /\ "SilenceDetected" \in EventNames
    BY Tables DEF Prologue, EventNames, Publishes
  <2>2. QED
    BY <1>6, <1>7, <2>1, SaidMore
<1>10. QED
  BY <1>6, <1>7, <1>8, <1>9 DEF Promise

-----------------------------------------------------------------------------
IInv == TypeOK /\ Loop /\ LogInv /\ (Due => Promise)

(* The inductive invariant: the loop's bookkeeping, the log and the         *)
(* promises.                                                                *)
THEOREM RecorderInvariant == Spec => []IInv
<1>1. Init => IInv
  <2> SUFFICES ASSUME Init
               PROVE  IInv
    OBVIOUS
  <2>1. TypeOK
    <3>1. config \in Configs /\ Len(<<>>) = 0 /\ 0 <= config.pre_roll
      BY Setting DEF Init
    <3>2. pc \in Places
      BY PlaceNames DEF Init
    <3>3. lookback = <<>> /\ frames = <<>> /\ file = <<>> /\ log = <<>>
      BY DEF Init
    <3>4. /\ lookback \in Seq(Nat) /\ frames \in Seq(Nat) /\ file \in Seq(Nat)
          /\ log \in Seq(EventNames) /\ Len(lookback) <= config.pre_roll
      BY <3>1, <3>3
    <3>5. /\ count \in Nat /\ waited \in Nat /\ silent \in Nat /\ first \in Nat
          /\ speech_started \in BOOLEAN
      BY DEF Init
    <3>6. QED
      BY <3>1, <3>2, <3>4, <3>5 DEF TypeOK
  <2>2. Loop
    BY Setting DEF Init, Loop, LoopInv, WholeCapture, NothingFiltered, Latest
  <2>3. LogInv
    BY DEF Init, LogInv
  <2>4. ~ Due
    BY DEF Init, Due, ToSet
  <2>5. QED
    BY <2>1, <2>2, <2>3, <2>4 DEF IInv
<1>2. IInv /\ [Next]_vars => IInv'
  BY TypeStep, LoopStep, LogStep, PromiseKept, PromiseBegins DEF IInv
<1>3. QED
  BY <1>1, <1>2, PTL DEF Spec

(* The types and the bound of the look-back, for every setting. *)
THEOREM TypeCorrect == Spec => []TypeOK
<1>1. IInv => TypeOK
  BY DEF IInv
<1>2. QED
  BY <1>1, RecorderInvariant, PTL

(* Nothing of what is said is clipped or kept twice, whatever the pre-roll  *)
(* and the limits are.                                                      *)
THEOREM NothingClipped == Spec => []WholeCapture
<1>1. IInv => WholeCapture
  BY DEF IInv, Loop
<1>2. QED
  BY <1>1, RecorderInvariant, PTL

(* The filter for ultra-short captures never applies unless the minimum is  *)
(* longer than the silence that ends a recording or than the longest        *)
(* recording, as the length it compares includes that silence.  With the    *)
(* defaults (a minimum of 0.8 s, 2 s of silence, at most 15 s) it filters   *)
(* nothing: what the comments at voice_recording.py:31-32 and 234-237 say   *)
(* of a cough, a click or a stray noise does not hold.                      *)
THEOREM FilterNeverApplies == Spec => []NothingFiltered
<1>1. IInv => NothingFiltered
  BY DEF IInv, Loop
<1>2. QED
  BY <1>1, RecorderInvariant, PTL

(* Whatever fails, a transcription starts only from a complete file with    *)
(* somebody speaking in it.                                                 *)
THEOREM SilenceIsNotTranscribed == Spec => []CompletedIsSpeech
<1>1. IInv => CompletedIsSpeech
  BY PromiseDue DEF IInv
<1>2. QED
  BY <1>1, RecorderInvariant, PTL
=============================================================================
