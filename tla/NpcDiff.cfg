CONSTANTS
    Val = {0, 1}
    Pcs = {0, 1, 2}
    MaxCycles = 2
SPECIFICATION Spec
INVARIANTS RegistersAgree InStep NoFalseAlarm
\* Closing the window or the q command ends the simulation.
CHECK_DEADLOCK FALSE
