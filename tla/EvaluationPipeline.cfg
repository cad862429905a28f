CONSTANTS
    home = home
    shed = shed
    lamp = lamp
    plug = plug
    lock1 = lock1
    Mqtt = Mqtt
    Timer = Timer
    Api = Api
    None = None
    Networks <- MCNetworks
    Devices <- MCDevices
    NetOf <- MCNetOf
    Faults = {"persist", "sync"}
    MaxFaults = 1
SPECIFICATION Spec
INVARIANTS QuietIsCurrent QuietIsTold
PROPERTY FaultsHeal
