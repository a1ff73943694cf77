\* DEV mode with edits that may include a missing file or delete a
\* template: is every request still answered?
CONSTANTS
    Main = Main
    Requests = {r1, r2}
    NoG = NoG
    NoUnit = NoUnit
    NilUnit = NilUnit
    ViewPaths = {views, admin}
    ViewsPath = views
    Listing <- MCListing
    RunModes = {"dev"}
    EditKinds <- MCEditKindsAll
    MaxEdits = 1
SPECIFICATION FairSpec
PROPERTY RequestsComplete
CHECK_DEADLOCK FALSE
