SPECIFICATION FairSpec
CONSTANTS
  r1 = r1 r2 = r2 r3 = r3 k1 = k1 k2 = k2
  Request = {r1, r2}
  Key = {k1}
  Sha1 <- SameSha1
  Fetch = {f1, f2}
  Thread = {t1, t2}
PROPERTIES EveryRequestServed ImplementsCollapsing
