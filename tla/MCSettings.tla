----------------------------- MODULE MCSettings -----------------------------
(* Instances of Settings for TLC. *)
EXTENDS Settings, FiniteSets

CONSTANTS t1,             \* a text
          bucket, dir,
          k1, k2, v1, v2, \* keys and values of tags
          plain, capped   \* workgroup configurations

MCTexts == {t1}
MCTags == {<<k1, v1>>, <<k1, v2>>, <<k2, v1>>}
MCMasks == {"masked_a"}

\* The environment has an access ID, and nothing else that a getter looks at.
MCFallback == [k \in TextKeys |-> IF k \in {"db", "accessID"} THEN t1 ELSE Empty]

SomeEnvTags == << <<k1, v2>> >>

\* A DSN written by hand: a limit below the poll interval, a number that is
\* none, a flag with a typing error, a list of tags and no database.
HandWritten ==
  [host |-> bucket, path |-> [rooted |-> TRUE, rest |-> dir], user |-> Empty,
   query |-> [NoValues EXCEPT !["region"] = t1,
                              !["DMLQueryTimeout"] = 1,
                              !["DDLQueryTimeout"] = t1,
                              !["missingAsNil"] = t1,
                              !["sessionTags"] = << <<k1, v1>>, <<k1, v2>> >>]]
MCDsns == {HandWritten}

\* With and without tags and a configuration of their own.
MCWorkgroups ==
  {NewWG(t1, NoWGConfig, NoTags), NewWG(t1, plain, << <<k1, v1>> >>),
   NewWG(Empty, capped, << <<k1, v2>> >>), NewDefaultWG(t1, NoWGConfig, NoTags)}

\* Negative (no limit), below and at the poll interval.
MCNumbers == {-1, 2, 3}

\* One key of every kind.
SomeKeys == {"externalID", "LoggingEnabled", "resultPollIntervalSeconds",
             "masked_a", "tag", "sessionTags"} \cup LimitKeys

\* Bound: how many of these keys are away from their first value at a time,
\* in the values or in the URL's copy of them; a user or another path counts as
\* one, and so does a session tag with the second key.
First(k) == IF conf.values["db"] = Unset THEN {HandWritten.query[k]}
            ELSE IF k = "resultPollIntervalSeconds" THEN {Unset, PoolInterval} ELSE {Unset}
Departures == {k \in SomeKeys : {conf.values[k], conf.query[k]} \ First(k) \notin {{}, {Unset}}}
SecondKey == \E p \in SessionTagsOf(conf) : p[1] = k2
FewDepartures == Cardinality(Departures) <=
  IF conf.user = Empty /\ conf.path \in {NoPath, HandWritten.path} /\ ~SecondKey THEN 2 ELSE 1

\* Bound: how many of them the URL's copy is behind of.
FewStale == Cardinality({k \in Departures : conf.values[k] # conf.query[k]}) <=
  IF granted = NoLimits THEN 1 ELSE 2
=============================================================================
