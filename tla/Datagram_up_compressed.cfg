CONSTANTS
    OooCap = 1
    DownMessages <- MCDown
    UpMessages <- MCUpCompressed
    ConnectionIds = {9}
    MaxPacked = 1
    MaxDatagrams = 1
SPECIFICATION DatagramSpec
INVARIANTS ItemsIntact
CHECK_DEADLOCK FALSE
