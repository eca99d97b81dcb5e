\* Two requests whose reads and writes interleave.  Without an administrator left
\* (Doc_LastAdminStays) nothing happens any more.
SPECIFICATION Spec
CONSTANTS
    User = {u1, u2, u3}
    Request = {r1, r2}
PROPERTIES LastAdminProtected NoAdminByAccident
CHECK_DEADLOCK FALSE
SYMMETRY Symmetry
