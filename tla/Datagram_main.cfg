CONSTANTS
    OooCap = 1
    DownMessages <- MCDown
    UpMessages <- MCUp
    ConnectionIds = {0, 9}
    MaxPacked = 2
    MaxDatagrams = 2
SPECIFICATION DatagramSpec
INVARIANTS ItemsIntact DeliveredInOrder
CHECK_DEADLOCK FALSE
