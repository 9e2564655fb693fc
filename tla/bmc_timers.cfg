SPECIFICATION MCSpec
CONSTANTS
    MaxNum = 2
    MaxLogins = 2
    MaxAccounts = 2
    MaxTimeout = 1
    MaxRemain = 2
    MaxChanges = 1
    MaxKills = 1
    MaxLan = 2
INVARIANTS
       SessionKeepsItsAccount
    
PROPERTIES
    SessionsEnd PassFollowsChange
CHECK_DEADLOCK FALSE
