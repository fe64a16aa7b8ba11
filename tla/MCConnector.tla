---------------------------- MODULE MCConnector ----------------------------
(* An instance of Connector for TLC. *)
EXTENDS Connector, Integers, FiniteSets

CONSTANTS c1, p1, default, own, key, arn

\* Bound: how many variables of the environment are set at a time.
Count(b) == IF b THEN 1 ELSE 0
FewVariables ==
  Count(env.load) + Count(env.profile # None) + Count(env.id # None) + Count(env.secret # None)
    + Count(env.token # None) + Count(env.role # None) + Count(env.web) + Count(env.malformed) <= 2

\* Bound: how many entries of the shared files there are, good or broken.
FewEntries ==
  Cardinality({e \in SharedFiles \X Profiles : files[e[1]][e[2]] # "absent"}) <= 2
=============================================================================
