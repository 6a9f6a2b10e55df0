SPECIFICATION FairSpec
CONSTANTS
  Messages = {1, 2}
  InitiationOf <- OneThing
  Sources = {s1}
  Claimants = {p1, p2}
  Convs = {1, 2}
  MaxPerSource = 2
  Crowd = 1
  MaxWindows = 1
  MaxFaults = 1
INVARIANTS RoutedOnce ArrivalOrder CooldownHolds
PROPERTIES SuppressedByAnother EverySignalSettles
CHECK_DEADLOCK FALSE
