SPECIFICATION CollectingSpec
CONSTANTS
  old = old
  new = new
  Processes = {old, new}
  HeadOf <- Heads
  Targets = {1, 6, 9}
  Started <- Databases0
  Arrivals <- NewRows
  Unset = unset
  MaxBigint = 7
  Providers = {"pi", "qwen", "gemini", "gemini-json", "codex", "claude", "copilot", "opencode", "kilo", "goose", "crush", "amp", "amp-ledger", "continue", "openhands", "kimi", "plandex", "amazon-q", "mistral-vibe", "cline", "cursor", "aider", "grok", "grok-events"}
  Outcomes <- MCOutcomes
  MaxFacts = 4
  MaxCollected <- MCMaxCollected
  c1 = c1
  c2 = c2
  Commands = {c1, c2}
  Options <- Calls
  Inputs <- Stores
  Conversations <- Keys
  Limit = 3
  BatchCandidates = 2
  MaxBatches = 4
  MaxStaged = 5
  None = None
INVARIANTS NeverHalfMigrated HistoryIsConverted
  RowsTellTheTruth CountersAddUp SettledIsCurrent
  EveryGroupOnce DoneIsOneCollection PartialImportsAgree StrictWritesWholes
PROPERTIES UnknownIsUntouched EveryCommandEnds EveryCollectionEnds
CHECK_DEADLOCK FALSE
