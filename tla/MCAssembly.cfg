SPECIFICATION FairSpec
CONSTANTS
    None = None Outside = Outside External = External Absent = Absent Garbled = Garbled
    Order <- MCOrder Collection <- MCCollection Overview = "docs/README.md"
    Others = {"logo.png", "docs/handbook"} Directories = {"docs/handbook"} Readme <- MCReadme
    Ids <- MCIds Prefix <- MCPrefix Number <- MCNumber
    Drafts <- MCDrafts Seeds <- MCSeeds Envs <- MCEnvs MaxEdits = 2
INVARIANTS ValidationExact SiteWhole
PROPERTY RunsEnd
