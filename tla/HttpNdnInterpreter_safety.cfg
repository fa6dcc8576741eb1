SPECIFICATION Spec
CONSTANTS
  r1 = r1 r2 = r2 r3 = r3 k1 = k1 k2 = k2 
  Request = {r1, r2, r3}
  Key = {k1, k2}
  Sha1 <- Sha1Table
  Fetch = {f1, f2, f3}
  Thread = {t1, t2}
SYMMETRY Symmetry
INVARIANTS NoUncaughtException OneFetchPerKey EachRequestOnce RightResponse UnparsedOnlyIfHeaderless
