SPECIFICATION MCSpec
CONSTANTS
    L = 3
    MaxUpper = 3
    GeneralRegisters = {0, 1, 2, 3}
    Array = 64
    N = 6
    W = 12
    M = 4
    ExpBits = 5
    TriedExponents <- SomeExponents
    TriedMantissas <- SomeMantissas
INVARIANTS
    NotTorn
    NanSound FailsOnlyOff LoadsSound
    IntegersExact FloatsExpected
