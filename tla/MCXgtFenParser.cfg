CONSTANTS
    Names <- MCNames
    Blocks <- MCBlocks
    Encapsulations <- MCEncapsulations
    S7Exchanges <- MCS7Exchanges
    MaxBlocks = 2
    MaxAddress = 12
SPECIFICATION Spec
INVARIANT TypeOK
INVARIANT InstructionWalkCorrect
INVARIANT AddressTranslated
INVARIANT PayloadDelivered
INVARIANT RegistryAsSpecified
CHECK_DEADLOCK FALSE
INVARIANT S7CorrelationAsSpecified
