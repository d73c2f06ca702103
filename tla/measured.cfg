SPECIFICATION FairSpec
CONSTANTS
    w1 = w1
    w2 = w2
    Tiers <- MCTiers
    Merges = 1
    Queries = 2
    Worker <- MCWorker
    Args <- MCArgs
    Sources <- MCSources
    Faults = 1
INVARIANTS FedAsDeclared SettingsRestored CleanCellWasStable OwnAnswers
PROPERTIES Ends
