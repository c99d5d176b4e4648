SPECIFICATION Spec
CONSTANTS
  None = None
  i1 = i1
  i2 = i2
  i3 = i3
  Tasks <- MCTasks
  Upstreams = {"groq", "openrouter", "gemini", "ollama"}
  Concurrency = 2
  MinInterval = 2
  MaxRetries = 2
  Waits = {0, 1}
  Counts = {0, 3}
  MaxRuns = 2
  MaxFaults = 1
INVARIANTS ResultsAreKept
PROPERTIES FirstCallsSpaced RunsEnd
\* The last run ends and the system rests.
CHECK_DEADLOCK FALSE
