CONSTANTS
    AddrBits = 2
    DataBits = 2
SPECIFICATION EepromSpec
PROPERTY ImplementsChip
