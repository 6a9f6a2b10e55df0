SPECIFICATION FairSpec
CONSTANTS
  Channels = {c1}
  MaxRuns = 2
  MaxInputs = 1
  MaxSaid = 2
  MaxCloses = 1
  MaxFaults = 2
  MaxTrouble = 2
INVARIANTS MarksAreTrue RepeatsNeedFaults
PROPERTIES WhatIsOwedArrives NoteSettles
CHECK_DEADLOCK FALSE
