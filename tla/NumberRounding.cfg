CONSTANTS
    P = 2
    MinExponent <- MCMinExponent
    MaxExponent = 20
    Mantissas <- MCMantissas
    Exponents <- MCExponents
SPECIFICATION Spec
INVARIANTS ResultsRoundCorrectly QuotientsAreFaithful DifferencesAreClose
CHECK_DEADLOCK FALSE
