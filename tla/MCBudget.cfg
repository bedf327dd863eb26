\* Two handlers, a tenant with two capped keys and one without a cap.
SPECIFICATION Spec
CONSTANTS
    t1 = t1
    t2 = t2
    None = None
    Tasks <- TwoTasks
    Settings <- ExampleSettings
    Headers <- SomeHeaders
    Costs <- NoneOrTwo
    MaxCost = 2
    MaxUsed = 2
INVARIANTS
    TypeOK
    SpendBounded
PROPERTIES
    CapReopens
