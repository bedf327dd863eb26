\* Expected to fail: one handler, and no charge for its streams.
SPECIFICATION Spec
CONSTANTS
    t1 = t1
    t2 = t2
    None = None
    Tasks <- OneTask
    Settings <- ExampleSettings
    Headers <- SomeHeaders
    Costs <- NoneOrTwo
    MaxCost = 2
    MaxUsed = 2
PROPERTY
    CapIsKept
