\* Expected to be violated: a short AckMsg makes Msg::parse_from_string throw.
CONSTANTS
    U32Vals <- MCU32Vals
    U16Vals <- MCU16Vals
    TypeBytes <- MCTypeBytes
    Payloads <- MCPayloads
SPECIFICATION Spec
INVARIANT MalformedMsgDropped
