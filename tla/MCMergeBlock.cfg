SPECIFICATION Spec
CONSTANTS
    Schema <- MergeSchema
    Merges <- CertCalls
    FreshLines <- NoLines
PROPERTIES
    EarlierIsReported
