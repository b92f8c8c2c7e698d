CONSTANTS
    c1 = c1
    c2 = c2
    none = none
    home = home
    wrong = wrong
    Client = {c1, c2}
    NoClient = NoClient
    Sender = {"dispatcher", "loop"}
    Dispatcher = "dispatcher"
    ClientQueueLength = 2
    MaxLine = 3
    CommandLength = 2
    Credential = {home, wrong}
    Good = {home}
    NoCredential = none
    Budgets <- MCBudgets
SPECIFICATION Spec
CHECK_DEADLOCK FALSE
INVARIANT TypeOK
INVARIANT LineAtMostOnce
INVARIANT OvertakenOnlyByDirect
INVARIANT SendersNeverMix
INVARIANT QueueLife
INVARIANT CommandsInOrder
PROPERTY DispatcherGoesOn
