\* Two threads of the framework and an edc process, three commands of any
\* form, a death of the server, timeouts and interruptions.
CONSTANTS
  Callers = {a, b}
  Tools = {t}
  Java = Java
  MaxCommands = 3
  MaxDeaths = 1
SPECIFICATION FairSpec
PROPERTIES AnswersTrue InOrder ToolReturns
CHECK_DEADLOCK FALSE
