\* foo.py for rounds 1..14: no division by zero, and the Leibniz terms.
CONSTANTS
    Rounds = {1, 2, 3, 4, 5, 6, 7, 8, 9, 10, 11, 12, 13, 14}
SPECIFICATION Spec
INVARIANT NoZeroDivision LeibnizTerms
CHECK_DEADLOCK FALSE
