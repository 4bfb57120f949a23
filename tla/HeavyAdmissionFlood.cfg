SPECIFICATION Spec
CONSTANTS
    Capacity = 5
    Rate = 2
    Scale = 3
    BucketTTL = 3
    IngestCost = 1
    HeavyCost = 3
    Gap = 0
    Hold = 12
PROPERTY HeavyIsAdmitted
