CONSTANTS
  MaxConns = 2
  ServerStack = 3
  ClientStack = 2
  Scripts <- MixedScripts
SPECIFICATION FairSpec
CHECK_DEADLOCK FALSE
INVARIANTS TypeOK SurvivesWhileConnected ClientStays LaterInStep
PROPERTIES CommandsArrive AnswersArrive StatusFresh StatusAnswered ShutdownEnds
