----------------------------- MODULE MCServices -----------------------------
EXTENDS Services

\* two CPUs that share power, in a package of three
MCTopology == <<
  [mask |-> <<{1, 2}, {1, 2}, {3}>>, flags |-> {"affine", "share_power"}],
  [mask |-> <<{1, 2}, {1, 2}, {3}>>, flags |-> {"affine"}],
  [mask |-> [c \in 1 .. 3 |-> 1 .. 3], flags |-> {"affine"}] >>

Domain(m, relax_level) == [mask |-> m, relax |-> relax_level]
MCRequests == {{Domain({1, 2}, -1), Domain({3}, -1)}, {Domain({2, 3}, 1)}}
MCFallbacks == {{1, 2, 3}}
=============================================================================
