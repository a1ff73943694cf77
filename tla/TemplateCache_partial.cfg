\* DEV mode: does a render ever read a view path's map while a rebuild
\* of that path is part-way through?
CONSTANTS
    Main = Main
    Requests = {r1, r2}
    NoG = NoG
    NoUnit = NoUnit
    NilUnit = NilUnit
    ViewPaths = {views, admin}
    ViewsPath = views
    Listing <- MCListing
    RunModes = {"dev"}
    EditKinds <- MCEditKinds
    MaxEdits = 1
SYMMETRY MCSymmetry
SPECIFICATION Spec
INVARIANT NoPartialBuildObserved
