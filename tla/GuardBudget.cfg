\* Two repairs in a window of five seconds, two polls to settle, nine seconds.
SPECIFICATION Spec
CONSTANTS
    MaxRepairs = 2
    Window = 5
    Settle = 2
    Horizon = 9
INVARIANTS
    TypeOK
    RepairBudget
PROPERTIES
    SettledBeforeRepair
