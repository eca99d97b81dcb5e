\* Two requests whose reads and writes interleave, two certificates, two days.
SPECIFICATION Spec
CONSTANTS
    Pair = {A, B}
    Nothing = Nothing
    Day = {1, 2}
    Request = {r1, r2}
PROPERTIES CredentialStays UploadStaysWhole ThresholdsStayOrdered
SYMMETRY Symmetry
