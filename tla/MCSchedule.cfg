SPECIFICATION Spec
CONSTANTS
    Layouts <- AllLayouts
    Policies = {"Abort", "Break"}
INVARIANTS
    IndegCounts
    WalkIsSound
    Topological
    StallMeansCycle
    DeclarationOrderKept
    SectionLeftOnlyForEdge
PROPERTIES
    Terminates
    OrderSpec
