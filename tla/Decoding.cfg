\* Every query of up to four bytes over the bytes the decoders tell apart:
\* '%', '&', '+', '=', the digits '2', '5', '6' and 'B', and 'z'.
SPECIFICATION Spec
CONSTANTS
    Alphabet = {37, 38, 43, 61, 50, 53, 54, 66, 122}
    MaxLength = 4
INVARIANTS
    DecodersAgree
    FormRoundTrip
CHECK_DEADLOCK FALSE
