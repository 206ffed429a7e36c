SPECIFICATION AgentSpec
CONSTANTS
  Calls = {c1}
  Others = {main}
  Operators <- McOperators
  Commands = {restart}
  Skews <- McSkews
  TTL = 1
  MaxTime = 2
  MaxLines = 3
  Drift <- McDrift
CONSTRAINT McSettled
INVARIANTS
  OutsidersAreRefused
  AskedUntilRun
PROPERTY
  NeverComesBack
