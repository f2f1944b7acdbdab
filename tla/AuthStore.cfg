SPECIFICATION FairSpec
CONSTANTS
    Tabs = {t1, t2}
    Account <- TwoAccounts
    MaxLogins = 2
    MaxInputs = 5
INVARIANTS
    UserOfToken
    PollsWhileHolding
    QuietTabsAgree
PROPERTIES
    DeadIsDropped
CHECK_DEADLOCK FALSE
