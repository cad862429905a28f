CONSTANTS
    offline = offline
    weak = weak
    a = a
    b = b
    None = None
    Keys <- MCKeys
    Payloads <- MCPayloads
    Slots <- MCSlots
    Window = 2
SPECIFICATION Spec
INVARIANT OneActivePerKey
PROPERTIES QuietKeysClose KeepsPromise
