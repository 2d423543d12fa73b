SPECIFICATION GuestSpec
CONSTANTS
  Recipes = {"debian-13", "windows-server-2022", "windows-server-2025"}
  Levels = {"quick", "full"}
  Shuffles <- MCShuffles
  MaxPolls = 4
  MaxOutage = 3
CHECK_DEADLOCK FALSE
INVARIANTS FlawsFail SoundImagePasses
PROPERTY VerdictComes
