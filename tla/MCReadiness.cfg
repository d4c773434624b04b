CONSTANTS
  c1 = c1
  c2 = c2
  Cases = {c1, c2}
  Domains = {"writing"}
  DomainOf <- One
  Dirs = {d1, d2}
  Ids = {i1, i2}
  Definitions = {b1}
  Profiles <- SomeProfiles
  MinimumReplicates = 1
  MinimumCases = 2
  ReleaseDomains = 1
  ReleaseCases = 2
  MaxExecutions = 2
  MaxReports = 2
  Reviewers = {r1, r2}
  Blindings <- SomeBlindings
  Views <- SomeViews
  MinimumReviewers = 1
  MinimumReviewed = 2
  MinimumProbes = 1
  MaxPackets = 2
  ExpertDomains = {"writing"}
  p1 = p1
  p2 = p2
  ImageCases = {p1, p2}
  Qualified = {r1, r2}
  Opinions <- SomeOpinions
  Placements <- SomePlacements
  MinimumImages = 2
  MinimumLookers = 2
  MaxImageChanges = 1
  MaxVisualPackets = 3
  Null = Null
SYMMETRY Symmetry
SPECIFICATION Spec
INVARIANTS
  
  E3IsAgreed
  VotesAreForWhatWasSeen
  E4IsDirectPreference
  CompleteIsOneChain
  ImagesWerePreferred
CHECK_DEADLOCK FALSE
