\* A burst of two tokens, one more for every two units of time.
SPECIFICATION Spec
CONSTANTS
  h1 = h1
  h2 = h2
  h3 = h3
  ip = ip
  good = good
  plain = plain
  bad = bad
  Handlers = {h1, h2, h3}
  IPs = {ip}
  IpOf <- OneAddress
  Tokens = {good, plain, bad}
  TokenOf <- Presented
  Valid = {good, plain}
  Named = {good, bad}
  MaxTokens = 2
  RefillNs = 2
  Start = 4
  MaxTime = 7
  MaxUnanswered = 1
INVARIANTS TokensWithinBurst RateRespected RevokedStaysOut
CHECK_DEADLOCK FALSE
