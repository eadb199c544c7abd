CONSTANTS
  Programs <- Examples
  Rounds = 3
SPECIFICATION Spec
INVARIANTS NoDataRace OutcomesAsAsserted OneValue
PROPERTY Termination
