CONSTANTS
    AUTHENTICATION_LEN = 2
    Missing = Missing
    Malformed = Malformed
    Input <- MCInput
SPECIFICATION Spec
INVARIANTS OptionsAgree TokenSpelled
