CONSTANTS
    AddrBits = 2
    DataBits = 1
SPECIFICATION EepromSpec
INVARIANT DisabledIsReadOnly
