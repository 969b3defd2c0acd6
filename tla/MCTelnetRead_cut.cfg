\* The same stream and limits as MCTelnetRead.
CONSTANTS Idle = 3 MaxWait = 10 Poll = 2 Lag = 1
CONSTANTS Prompt <- MCPrompt MaxChunk = 3
SPECIFICATION TelnetSpec
INVARIANT CutsDontMatter
CHECK_DEADLOCK FALSE
