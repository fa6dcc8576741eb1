----------------------- MODULE MCHttpNdnInterpreter -----------------------
(* Instances of HttpNdnInterpreter: two requests with the same digest and  *)
(* one with another, on two threads as in igw/main.cpp.                    *)
EXTENDS HttpNdnInterpreter, TLC

CONSTANTS r1, r2, r3, k1, k2

Sha1Table == (r1 :> k1 @@ r2 :> k1 @@ r3 :> k2)
SameSha1 == (r1 :> k1 @@ r2 :> k1)

Symmetry == Permutations(Thread) \cup Permutations(Fetch)
===========================================================================
