SPECIFICATION Spec
CONSTANTS
    Auth = Auth
    Identity = Identity
    User = User
    Command <- Commands
INVARIANTS
    SettingsInForce
    NoCollision
    RefreshFitsSource
CHECK_DEADLOCK FALSE
