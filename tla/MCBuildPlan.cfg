CONSTANTS
    None = None
    Inputs <- MCInputs
SPECIFICATION Spec
INVARIANTS LinkIsComplete LinkedAsChosen SanitizersAgree
