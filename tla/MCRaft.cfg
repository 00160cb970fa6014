SPECIFICATION Spec
CONSTANTS
  s0 = s0
  s1 = s1
  s2 = s2
  s3 = s3
  s4 = s4
  Server <- TwoServers
  Zero = s0
  NoVote = NoVote
  Unreliable = TRUE
  MaxElections <- OnceAndTwice
  MaxTerm = 2
  MaxBeats <- OneBeat
INVARIANTS
  TypeOK
  
  OneHeartbeat
  TermsAreElected
