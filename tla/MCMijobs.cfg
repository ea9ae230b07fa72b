SPECIFICATION MijobsSpec
CONSTANTS
  Sessions = {generator, loader, harvester, analyst}
  Swallowers = {harvester}
  Keys = {}
  Contents = {}
  None = none
  MaxRows = 14
  Auditors = {generator, loader, viewer, reader}
  Databases <- AllFound
  Generator = generator
  Monthly = {"rate"}
  Quarterly = {"emp"}
  Sections <- TheSections
  AsOf = 5
  YearLength = 2
  Loader = loader
  Viewer = viewer
  u1 = u1
  u2 = u2
  Partners <- Institutions
  Answers <- FeedAnswers
  Reader = reader
  Asked <- AskedClaims
  Commands <- AllCommands
  Found <- FoundBy
  Harvester = harvester
  Analyst = analyst
  Facts <- NewFacts
  Objections <- Methods
  MaxWrites = 2
  Files <- TheFiles
  Years = {2023, 2024}
  Wanted <- Both
  Programs <- Six
  Marker = marker
  Blank = blank
  NoNumber = noNumber
  MaxEditions = 2
  Payloads <- ThePayloads
  Registered = {1, 2}
  Refusal = refusal
  Whole = 10
  Top = 1
  MinMonths = 4
  Recent = 3
  MaxSpan = 5
  MaxHeld = 2
INVARIANTS ValidMeansLedgered RefusalHasCause RestsOnLedgered NewestYearApart LoadedWhole
  HeadCoversReport ContextHonest SourcesTraced CurrentIsLastEdition
  AwardsCountedOnce AnswersAddUp
PROPERTY CommitsOnlyAudited
CONSTRAINT FactsThatMatter
CHECK_DEADLOCK FALSE
