SPECIFICATION LiveSpec
CONSTANT Environments <- Fair
CHECK_DEADLOCK FALSE
INVARIANTS NoProtocolError
PROPERTIES BothEnd ComesUp KeyUpdateCompletes
