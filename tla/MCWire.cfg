SPECIFICATION FairSpec
CONSTANTS
    Own = 2
    Width = 5
    Versions = {1, 2, 3, 5, 7}
    Options <- MCOptions
    Secrets = {"pin", "new", "long"}
    Oversized = {"long"}
INVARIANTS
    OkMeansHonoured
    HonouredOrRefused
    SecretsScrubbed
PROPERTY ConfirmNotStranded
CHECK_DEADLOCK FALSE
