\* Two requests at a time: four customers in a day of ten minutes.
SPECIFICATION Spec
CONSTANTS
    Customer = {1, 2, 3, 4}
    Request = {r1, r2}
    MinutesPerDay = 10
    RoundsDown <- OneRoundsDown
INVARIANTS TypeOK
PROPERTIES SharedOnlyByOvertaken ChoiceIsFarthest RedistributionEvens
SYMMETRY Symmetry
