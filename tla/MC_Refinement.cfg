CONSTANTS
    r1 = r1
    r2 = r2
    d = d
    a = a
    Procs <- MCProcs
    Accounts <- MCAccounts
    Deployer = d
    Recipient = a
    InitialSupply = 2
    GasCost = 1
    MaxNative = 4
SPECIFICATION Spec
PROPERTY Refines
