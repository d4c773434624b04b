SPECIFICATION Spec
CONSTANTS
  Systems = {"cand", "base"}
  Bundles = {"frozen", "revised", "skimpy", "partial"}
  Contents <- MCContents
  MaxTime = 2
  MaxFaults = 1
  MaxPreflights = 2
  NoReceipt = "none"
  NoHost = NoHost
  MaxHosts = 2
  Gates = {"readiness", "quality"}
  Invalidating = {"readiness"}
  Comparisons = {"identity", "expert"}
  Original = "identity"
  RoleOf <- MCRoleOf
  Authorities = {"a1", "a2", "auditor"}
  Attesting <- MCAttesting
  NoAuthority = "nobody"
  Margin = 1
  ReportWindows <- MCWindows
  Auditor = "auditor"
  Groups <- MCGroups
  NoPlan = NoPlan
INVARIANTS
  CallsFollowPreflight
  
  ReplayedIsOneCampaign
  TopTierIsEarned
  ThreeIndependentReplays
CHECK_DEADLOCK FALSE
