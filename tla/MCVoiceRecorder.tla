--------------------------- MODULE MCVoiceRecorder ---------------------------
(* VoiceRecorder with every setting of small limits: pre-roll longer and    *)
(* shorter than what was heard, a minimum on either side of the others.     *)
EXTENDS VoiceRecorder

MCConfigs ==
  [listen : {0, 3}, hangover : {1, 2}, max : {2, 5}, min : {0, 2, 4},
   pre_roll : {1, 2, 4}]
=============================================================================
