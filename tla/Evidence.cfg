SPECIFICATION Spec
CONSTANTS
    MCRefSets <- MCAllRefs
    Indexes <- MCIndexes
    Queries <- MCQueries
    TestFiles <- MCTestFiles
INVARIANTS
    WalksAreExact
    AnswersAreTheBest
