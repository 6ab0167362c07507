CONSTANTS
  None = None
  Agent <- MCAgent
  Lower <- MCLower
  Profiles <- MCProfiles
  DefaultItems <- MCDefaultItems
  ExtraFile <- MCExtraFile
  TrackmeFile <- MCTrackme
  PluginFiles <- MCPlugins
  Exported <- MCExported
  Calls <- MCCalls
  Batches <- MCBatches
  Worlds <- MCWorlds
  MyHeaders <- MCMyHeaders
  SessionHeaders <- MCSessionHeaders
  SessionAuth = "sess"
  BaseUrl = "base"
  MaxRegistryOps = 2
  MaxOps = 2
  MaxSessionCalls = 3
SPECIFICATION Spec
INVARIANTS
  SentIsWhatWasAsked
  CookiesFollow
  OutcomeIsHonest
PROPERTIES
  CallersDictIsKept
  RestartRestores
