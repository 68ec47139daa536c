SPECIFICATION SlavePcbSpec
CONSTANTS
    Readings <- MCReadings
    DivX100 = 0
INVARIANTS SlavePcbTypeOK OnePulse ChargeAgrees OneChain
PROPERTIES JoinConfirmed   BlueEnds
