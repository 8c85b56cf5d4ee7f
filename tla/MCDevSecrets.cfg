SPECIFICATION Spec
CONSTANTS
    Runs = {r1, r2}
    Ports = {p1}
    Codes = {k1, k2}
    Accounts = {a1, a2}
    Targets = {local, production}
    Texts = {t1, t2}
    Passwords = {w1, w2}
    HandoffTtl = 1
    CliSessionTtl = 1
    MaxTime = 2
    None = None
INVARIANTS SessionIsTheRunsLogin SuccessIsReal StoredWasConfirmed
PROPERTY AccessIsVouchedFor
SYMMETRY Symmetry
CHECK_DEADLOCK FALSE
