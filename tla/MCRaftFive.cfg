SPECIFICATION Spec
CONSTANTS
  s0 = s0
  s1 = s1
  s2 = s2
  s3 = s3
  s4 = s4
  Server <- FiveServers
  Zero = s0
  NoVote = NoVote
  Unreliable = FALSE
  MaxElections <- TwoOnce
  MaxTerm = 1
  MaxBeats <- NoBeat
INVARIANTS
  LeaderHasMajority
