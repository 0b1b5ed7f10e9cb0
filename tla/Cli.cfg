CONSTANTS
    NumNames = 4
    Commands <- MCCommands
SPECIFICATION FairSpec
INVARIANTS CliInv ResolvedExactly MeasuresWhatIsConfigured ExitTellsTheTruth
PROPERTY MainEnds
