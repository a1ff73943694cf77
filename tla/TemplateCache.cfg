\* Both run modes: in DEV every request rebuilds its template and layout
\* before rendering under RLock, and edits leave files compiling or
\* failing to parse; in PROD renders take no lock and edits are of every
\* kind.
CONSTANTS
    Main = Main
    Requests = {r1, r2}
    NoG = NoG
    NoUnit = NoUnit
    NilUnit = NilUnit
    ViewPaths = {views, admin}
    ViewsPath = views
    Listing <- MCListing
    RunModes = {"dev", "prod"}
    EditKinds <- MCEditKinds
    MaxEdits = 2
SPECIFICATION FairSpec
INVARIANT TypeOK
INVARIANT DataRaceFree
PROPERTY RequestsComplete
