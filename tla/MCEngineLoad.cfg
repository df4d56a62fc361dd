CONSTANTS
    MaxSettings = 3
    MaxCalls = 2
SPECIFICATION Spec
INVARIANTS AbiBeforeStructs NativeContract
