CONSTANTS
    Names <- MCNames
    Blocks <- MCBlocks
    Encapsulations <- MCEncapsulations
    S7Exchanges <- MCS7Exchanges
    MaxBlocks = 2
    MaxAddress = 12
SPECIFICATION Spec

CHECK_DEADLOCK FALSE
INVARIANT BlockCountRecorded
