\* Three calls in two threads of one process, in any interleaving.
SPECIFICATION Spec
CONSTANTS
  c1 = c1
  c2 = c2
  c3 = c3
  name = name
  t1 = t1
  t2 = t2
  create = create
  run = run
  modelDeployment = modelDeployment
  dataScienceJob = dataScienceJob
  conda = conda
  container = container
  Call = {c1, c2, c3}
  Value = {name, create, run, modelDeployment, dataScienceJob, conda, container}
  Name = name
  Blank = Blank
  Other = Other
  ThreadOf <- TwoThreads
  EntryOf <- Entries
  InfraOf <- Infrastructures
  RuntimeOf <- Runtimes
CHECK_DEADLOCK FALSE
INVARIANTS
  TypeOK
  QuietWhenIdle
  NoValueTwice
  OwnSequence
