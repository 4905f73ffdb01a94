\* Every setting of small limits, every pattern of loud and quiet frames.
CONSTANT
  Configs <- MCConfigs
SPECIFICATION Spec
INVARIANTS
  TypeOK
  WholeCapture
  CompletedIsSpeech
\* A handler that is done is done.
CHECK_DEADLOCK FALSE
