SPECIFICATION Spec
CONSTANTS
    Listeners = {l1, l2}
    Connections = {c1}
    Requests = {r1}
    ListenerOf <- MCListenerOf
    ConnectionOf <- MCConnectionOf
    MaxConnections = 1
    MaxFaults = 0
PROPERTY ReloadKeepsService
CHECK_DEADLOCK FALSE
