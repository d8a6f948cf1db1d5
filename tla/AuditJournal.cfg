SPECIFICATION MCSpec
CONSTANTS
    MaxLines = 4
    MaxTokens = 2
    MaxCrashes = 2
    ProfileFiles <- MCProfileFiles
    TierOf <- MCTierOf
    Contents <- MCContents
    IdOf <- MCIdOf
    ProbesOf <- MCProbesOf
    Manifest = {"a1"}
    Drives <- MCDrives
    Approvers = {1, 2}
    MaxEdits = 1
    MaxStarts = 2
CHECK_DEADLOCK FALSE
INVARIANTS VerdictIsTrue TokensAreSingleUse TrustFollowsFiles TwinsAreNotVerified
