SPECIFICATION Spec
CONSTANTS
  Agencies = {a1, a2, a3, a4}
  Topics = {permits}
  Tabs = {x}
  Processes = {p}
  Episodes = {0, 1}
  MinAgencies = 2
  MinEpisodes = 2
  Share = 1
  Whole = 2
  Week = 2
  Environments <- Circumstances
INVARIANTS ConsentIsRecorded RevokedLeaves
PROPERTIES NumbersMoveTogether WeekBetweenRebuilds
SYMMETRY Symmetric
CHECK_DEADLOCK FALSE
