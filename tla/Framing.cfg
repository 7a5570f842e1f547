CONSTANTS
    Payloads <- SomePayloads
    Noise <- SomeNoise
    MaxFrames = 4
    MaxFaults = 2
SPECIFICATION Spec
INVARIANTS CleanDelivery NoBogusFrame Resync
