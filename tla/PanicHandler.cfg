CONSTANTS
  Threads = {t1, t2, t3}
  NoThread = NoThread
  UserHandlers = {"aborts", "returns", "throws", "chains", "null"}
  PanicGuard = TRUE
SPECIFICATION FairSpec
INVARIANTS PanicExclusive OneVoice NoSelfDeadlock PanicIsPanic
PROPERTY EventuallyAborts
