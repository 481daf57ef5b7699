CONSTANTS
  Plan = {"p1", "p2", "p3"}
  Batch = {"b1", "b2"}
  Envelopes <- TwoEnvelopes
  Commands = {"plan", "replace", "append", "abort", "recover"}
  Kinds = {"crash", "plan", "archive", "relocate", "batch", "config", "state", "run"}
  MaxTrouble = 2
  Troubled = {"plan", "replace", "append", "abort", "recover", "exec", "finalize", "fallback"}
  Live = {}
SPECIFICATION FairSpec
PROPERTIES EntryIsFinal CursorReleased
CHECK_DEADLOCK FALSE
