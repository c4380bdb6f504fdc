-------------------------- MODULE MCOwningHandles --------------------------
EXTENDS OwningHandles, TLC

CONSTANTS v1, g1, g2, o1, o2, m1, w1, w2, r1, k1, k2, h1, h2, p1, p2, t1

Symmetry ==
  UNION {Permutations({g1, g2}), Permutations({o1, o2}), Permutations({p1, p2}),
         Permutations({w1, w2}), Permutations({k1, k2}),
         Permutations(Buffer)}
=============================================================================
