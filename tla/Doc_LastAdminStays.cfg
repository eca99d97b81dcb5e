\* Two administrators at the same time.
SPECIFICATION Spec
CONSTANTS
    User = {u1, u2, u3}
    Request = {r1, r2}
INVARIANT AdminRemains
