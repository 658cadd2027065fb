SPECIFICATION FairSpec
CONSTANTS
  l1 = l1  l2 = l2
  MaxCommands = 3
  MaxFrames = 3
  Listeners = {l1, l2}
PROPERTIES Implements EveryCommandSettles
CHECK_DEADLOCK FALSE
