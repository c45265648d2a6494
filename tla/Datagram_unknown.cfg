CONSTANTS
    OooCap = 1
    DownMessages <- MCDownUnknown
    UpMessages <- MCUp
    ConnectionIds = {9}
    MaxPacked = 2
    MaxDatagrams = 1
SPECIFICATION DatagramSpec
INVARIANTS NeighboursKept
CHECK_DEADLOCK FALSE
