SPECIFICATION Spec
CONSTANTS
  Token = {t1, t2, t3}
  NoToken = NoToken
  Stale = 1
  Counted = {"dead guard", "no victim", "dead release", "dead renewal", "old clock", "two releases"}
  Renewers = {t1}
  MaxCrashes = 1
  
PROPERTY KeyIsTakenAgain
CHECK_DEADLOCK FALSE
