SPECIFICATION RTSpec
CONSTANTS
    Levels <- RouterLevels
    Lines <- RouterLines
    LitLen <- RouterLengths
    Exact <- RouterExact
    Prefix <- RouterPrefix
    NoDef = NoDef
    Roots <- RouterRoots
    Children <- RouterChildren
    BlockKind <- RouterBlocks
    Terminator <- RouterTerminator
    RawLines <- RouterRawLines
    NoTerm = NoTerm
    MaxLines = 6
    Nil = Nil
    NoBlock = NoBlock
    Rule <- RouterRule
    ExitToken <- RouterExits
    Vocabularies <- RouterTexts
    NoTree = NoTree
CHECK_DEADLOCK FALSE
INVARIANTS
    StacksAgree
    IndentDecides
    OpenBlockIsTop
    NoLineLost
    ReadsBack
    BlocksAreVerbatim
