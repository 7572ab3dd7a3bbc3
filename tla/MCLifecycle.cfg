SPECIFICATION FairSpec
CONSTANTS
  MaxMemory = 10
  Rss = {8, 9}
INVARIANTS
  TypeOK
  TerminalGivenBack
PROPERTIES
  JoinsEveryComponent
  BotStops
