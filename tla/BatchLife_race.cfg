CONSTANTS
  Plan = {"p1", "p2", "p3"}
  Batch = {"b1", "b2"}
  Envelopes <- TwoEnvelopes
  Commands = {"plan", "replace", "abort", "recover"}
  Kinds = {"crash", "plan", "archive", "remove", "batch", "config", "state", "run"}
  MaxTrouble = 1
  Troubled = {"plan", "replace", "abort", "recover", "exec", "finalize", "fallback"}
  Live = {"abort", "recover"}
SPECIFICATION Spec
INVARIANTS Accounted NoOrphanStub CompletedMeansRun
CHECK_DEADLOCK FALSE
