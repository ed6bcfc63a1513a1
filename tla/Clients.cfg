SPECIFICATION MCSpec
CONSTANTS
  Subs = {sub1, sub2}
  Builders = {builder1}
  Ops <- AllOps
  Events <- SomeEvents
  HandlersPanic = FALSE
  MaxConds = 2
  Nil = Nil
  Callers = {c1, c2}
  SeqRange = 4
  Visible = 2
  MaxTime = 3
  MaxIssued = 3
  MaxSteps = 3
INVARIANTS
  UniqueUnlessWrapped
  HandledOnceByKind
  CrashOnlyByUndecoded
  
  ReadOnceUnlessShifted
  GovAnswersTrue
CHECK_DEADLOCK FALSE
