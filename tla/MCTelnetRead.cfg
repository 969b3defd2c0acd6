\* Idle does not divide MaxWait, and Poll is shorter than either; a chunk holds
\* a whole command.
CONSTANTS Idle = 3 MaxWait = 10 Poll = 2 Lag = 1
CONSTANTS Prompt <- MCPrompt MaxChunk = 3
SPECIFICATION TelnetSpec
INVARIANTS TelnetTypeOK EndsInTime NeverEarly TextIntact PromptFound
PROPERTY LoopEnds
