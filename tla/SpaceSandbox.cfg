\* One run with two programs and two tries beside two other users of one tool slot;
\* one waiting place.
CONSTANTS
  Runs = {r}
  Users = {r, u1, u2}
  Codes = {c1, c2}
  NoCode = NoCode
  NoSandbox = NoSandbox
  MaxTries = 2
  Capacity = 1
  MaxWaiters = 1
SPECIFICATION FairSpec
CHECK_DEADLOCK FALSE
INVARIANTS
  SandboxTypeOK
  RunsAtMostOnce
  NothingUnrecorded
  ReleasedMeansGone
PROPERTIES
  SlotsComeBack
