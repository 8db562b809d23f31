CONSTANTS
    polkadot = polkadot
    statemint = statemint
    Chains = {polkadot, statemint}
    Paying = {statemint}
    Nobody = Nobody
    MaxFailures = 2
SPECIFICATION FairSpec
INVARIANTS TypeOK GracefulExitIsComplete EntropyIsErased ExitTellsCause
           CancelHasCause LedgerOutlivesChains
PROPERTIES ShutdownCompletes
CHECK_DEADLOCK FALSE
