SPECIFICATION Spec
CONSTANTS
    NumScanlines = 2
    PerScanline = 3
    MaxReturns = 2
    MaxRows = 4
    Partial = {1, 3}
    Unset = Unset
INVARIANTS NumpyRows SimplePoints BackInScanlines
CHECK_DEADLOCK FALSE
