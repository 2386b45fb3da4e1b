\* Three lines let a copy fill one, some or all of test_buffer, so that lines
\* inside and outside the copy are modified; two copies show what one leaves
\* for the next.
SPECIFICATION Spec
CONSTANTS
    NumLines = 3
    MaxCopies = 2
INVARIANTS NeverStale ReadExact Settled
