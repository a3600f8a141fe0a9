CONSTANTS
    Setups <- AllSetups
    Lines <- AllLines
    Truth <- TwoTruths
    skip_features <- HostFeatures
    Shared <- s
    NoNumber <- nan
    SizeLimit = 20
SPECIFICATION Spec
INVARIANTS TypeOK HeadingComplete RowsDistinct CorrectFirst RowsAreSections LabelsCurrent NothingLost
PROPERTIES Finishes
CHECK_DEADLOCK FALSE
