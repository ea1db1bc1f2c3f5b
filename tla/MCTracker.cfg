CONSTANTS
  low = low
  high = high
  p1 = p1
  p2 = p2
  p3 = p3
  zero = zero
  Urls <- MCUrls
  Port <- MCPort
  Listings <- MCListings
  ErrorTexts <- MCErrorTexts
  Unset <- MCUnset
  Strays <- MCStrays
  MaxRounds = 2
SPECIFICATION FairSpec
INVARIANTS
  OnlyListedPeers
  AnnounceUsesIssuedId
  LostForACause
PROPERTIES
  SwarmIsFinal
  FetchEnds
CHECK_DEADLOCK FALSE
