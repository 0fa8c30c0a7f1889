CONSTANTS
    k1 = k1
    k2 = k2
    None = None
    MaxBlock = 3
    Names = {k1, k2}
    FailingCalls = {"getValidators", "filterValidators", "minDeposit", "newRound", "saveHash",
                    "listValidators", "consensusContext"}
    Selected = {1, 3}

SPECIFICATION Spec
INVARIANT NotAValidatorIsTrue
INVARIANT FindsItsState
INVARIANT KeptUntilHandled
CHECK_DEADLOCK FALSE
