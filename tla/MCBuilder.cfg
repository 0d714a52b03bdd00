SPECIFICATION Spec
CONSTANTS
    Defs = {d1, d2, d3}
    Args = {x, y}
    EmptyArgs = {y}
    DelimArgs = {x}
    x = x
    y = y
    comma = comma
    space1 = space1
    narrow = narrow
    wide = wide
    Domains <- Ranges
    Seps <- Both
    Expanding <- Expands
    Comma = comma
    Spaces = {"ns", "vrf"}
    NoDef = NoDef
    NoArg = NoArg
    NoDomain = NoDomain
    NoSpace = NoSpace
    Packages <- Vendors
SYMMETRY Alike
INVARIANTS
    Exclusions
    GroupsPartition
CHECK_DEADLOCK FALSE
