\* Up to three channels of three objects that share names, kinds and prefixes of
\* ids in every way.
SPECIFICATION NamesSpec
CONSTANTS
    Object = {o1, o2, o3}
    App = {Alpha, Beta}
    Prefix = {p, q}
    Ordinal <- Numbers
    Most = 3
INVARIANTS NamesUnique LoneNameKept
SYMMETRY Symmetry
