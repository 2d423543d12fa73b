SPECIFICATION GuestSpec
CONSTANTS
  Recipes = {"windows-server-2022", "windows-server-2025"}
  Levels = {"quick", "full"}
  Shuffles <- MCShuffles
  MaxPolls = 4
  MaxOutage = 3
CHECK_DEADLOCK FALSE
INVARIANT RebootProven
