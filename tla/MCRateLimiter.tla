--------------------------- MODULE MCRateLimiter ---------------------------
(* Four clients and room for three buckets, two requests at a time. *)
EXTENDS RateLimiter, Functions, TLC

Symmetry == Permutations(Clients) \cup Permutations(Requests)

(* bound: what the buckets have seen *)
Admitted(of) == FoldFunction(LAMBDA b, n : Len(b.log) + n, 0, of)
Short == Admitted(buckets) + Admitted(evicted) <= 5
=============================================================================
