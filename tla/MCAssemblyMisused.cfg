SPECIFICATION Spec
CONSTANTS
    None = None Outside = Outside External = External Absent = Absent Garbled = Garbled
    Order <- MCOrder Collection <- MCCollection Overview = "docs/README.md"
    Others = {"logo.png", "docs/handbook"} Directories = {"docs/handbook"} Readme <- MCReadme
    Ids <- MCIds Prefix <- MCPrefix Number <- MCNumber
    Drafts <- NoDrafts Seeds <- MisusedSeeds Envs <- MCEnvs MaxEdits = 0
INVARIANT ReplacedOnlySuperseded
