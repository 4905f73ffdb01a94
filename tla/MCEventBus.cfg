\* Two overlapping publications, a crash, lists of one handler each.
CONSTANTS
  e1 = e1
  e2 = e2
  h1 = h1
  h2 = h2
  chat = chat
  Events = {e1, e2}
  Handlers = {h1, h2}
  Types = {chat}
  TypeOf <- MCTypeOf
  MaxSubscriptions = 1
  MaxCrashes = 1
SPECIFICATION FairSpec
INVARIANTS
  TypeOK
  HandledIsDurable
  ReturnedMeansHandled
  NoSubscriberMissed
PROPERTIES
  ImplementsLog
  PublishSettles
\* A process that has shut its store down and has nothing in flight is done.
CHECK_DEADLOCK FALSE
