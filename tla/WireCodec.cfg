\* Round trip and header-length handling of the wire format.
CONSTANTS
    U32Vals <- MCU32Vals
    U16Vals <- MCU16Vals
    TypeBytes <- MCTypeBytes
    Payloads <- MCPayloads
SPECIFICATION Spec
INVARIANT TypeOK
INVARIANT RoundTrip
INVARIANT DatagramParseTotal
