--------------------------- MODULE SettingsProofs ---------------------------
(***************************************************************************)
(* Proofs about Settings, for every set of texts, numbers, tags,           *)
(* workgroups and handwritten DSNs.                                        *)
(*                                                                         *)
(* The inductive invariant adds two facts to the types: the region is      *)
(* never empty, so that every DSN is valid; and the limits granted last    *)
(* are what url.Values holds under the keys of the limits, since no other  *)
(* setter writes there.                                                    *)
(***************************************************************************)
EXTENDS Settings, SequenceTheorems, TLAPS

RegionSet == conf.values["region"] \in Texts

LimitsStored ==
  granted # NoLimits =>
    \A k \in LimitKeys : /\ conf.values[k] = granted[k]
                         /\ granted[k] \in Int
                         /\ granted[k] = 0 \/ Acceptable(granted[k])

IInv == TypeOK /\ RegionSet /\ LimitsStored

-----------------------------------------------------------------------------
(* Lemmas about the operators. *)

LEMMA KeysApart ==
  /\ TextKeys \cup FlagKeys \cup NumberKeys \cup Masks \subseteq Keys
  /\ LimitKeys \subseteq NumberKeys
  /\ {"workgroupName", "tag", "workgroupConfig", "sessionTags"} \subseteq Keys
BY DEF Keys, NamedKeys, NumberKeys, LimitKeys, TextKeys, FlagKeys

\* What each kind of key holds.
LEMMA StoredAs ==
  /\ \A k \in TextKeys \cup Masks : Stored(k) = Strings
  /\ Stored("workgroupName") = Strings
  /\ \A k \in FlagKeys : Stored(k) = BOOLEAN \cup Strings
  /\ \A k \in NumberKeys : Stored(k) = Int \cup Strings
  /\ Stored("tag") = Pairs /\ Stored("sessionTags") = Pairs
  /\ Stored("workgroupConfig") = WGConfigs \cup Strings
<1>1. \A k \in Masks : Stored(k) = Strings
  BY SettingsAssumption DEF Stored, NamedKeys, TextKeys, FlagKeys, NumberKeys, LimitKeys
<1>2. QED
  BY <1>1 DEF Stored, TextKeys, FlagKeys, NumberKeys, LimitKeys

LEMMA SetKeepsQuery ==
  ASSUME NEW q, IsQuery(q), NEW k \in Keys, NEW v \in {Unset} \cup Stored(k)
  PROVE  IsQuery([q EXCEPT ![k] = v])
BY DEF IsQuery

LEMMA PairsArePairs ==
  ASSUME NEW c, NEW k \in {"tag", "sessionTags"}, IsQuery(c.values)
  PROVE  PairsOf(c, k) \in Pairs
<1>1. k \in Keys /\ Stored(k) = Pairs
  BY KeysApart, StoredAs
<1>2. c.values[k] \in {Unset} \cup Pairs
  BY <1>1 DEF IsQuery
<1>3. << >> \in Pairs
  BY DEF Pairs
<1>4. QED
  BY <1>2, <1>3 DEF PairsOf, Get

\* A Config is observed only through these four.
LEMMA ObservedThrough ==
  ASSUME NEW c, NEW d,
         c.host = d.host, c.path.rest = d.path.rest, c.user = d.user, c.values = d.values
  PROVE  Observed(c) = Observed(d)
<1>1. ASSUME NEW k
      PROVE  /\ Get(c, k) = Get(d, k)
             /\ TextOf(c, k) = TextOf(d, k)
             /\ FlagOf(c, k) = FlagOf(d, k)
             /\ LimitOf(c, k) = LimitOf(d, k)
             /\ PairsOf(c, k) = PairsOf(d, k)
  <2>1. Get(c, k) = Get(d, k)
    BY DEF Get
  <2>2. QED
    BY <2>1 DEF TextOf, FlagOf, LimitOf, PairsOf
<1>2. LocationOf(c) = LocationOf(d)
  BY DEF LocationOf
<1>3. PollIntervalOf(c) = PollIntervalOf(d)
  BY <1>1 DEF PollIntervalOf
<1>4. WorkgroupOf(c) = WorkgroupOf(d)
  BY <1>1 DEF WorkgroupOf
<1>5. SessionTagsOf(c) = SessionTagsOf(d)
  <2>1. PairsOf(c, "sessionTags") = PairsOf(d, "sessionTags")
    BY <1>1
  <2>2. QED
    BY <2>1 DEF SessionTagsOf
<1>6. MissingValueOf(c) = MissingValueOf(d)
  BY <1>1 DEF MissingValueOf
<1>7. Counted(c) = Counted(d) /\ \A level \in Levels : Logged(c, level) = Logged(d, level)
  BY <1>1 DEF Counted, Logged
<1>8. QED
  BY <1>1, <1>2, <1>3, <1>4, <1>5, <1>6, <1>7 DEF Observed

\* The DSN adds a slash to the path and changes nothing else.
LEMMA ReopenedIs ==
  /\ Reopened.host = conf.host
  /\ Reopened.path.rest = conf.path.rest
  /\ Reopened.user = conf.user
  /\ Reopened.values = conf.values
<1>1. Printed(conf.path).rest = conf.path.rest
  BY DEF Printed, NoPath
<1>2. QED
  BY <1>1 DEF Reopened, Parsed, StringOf, Stringified

-----------------------------------------------------------------------------
(* The inductive invariant. *)

\* A setter that writes v under k, where v may be stored and k is not a limit,
\* and that keeps the region when it writes there, keeps the invariant.
LEMMA SetKeeps ==
  ASSUME IInv, NEW k \in Keys \ LimitKeys, NEW v \in {Unset} \cup Stored(k),
         k = "region" => v \in Texts,
         Set(k, v), UNCHANGED <<asked, granted>>
  PROVE  IInv'
<1>1. conf' = [conf EXCEPT !.values = [conf.values EXCEPT ![k] = v]]
  BY DEF Set, IInv, TypeOK
<1>2. IsQuery([conf.values EXCEPT ![k] = v])
  BY SetKeepsQuery DEF IInv, TypeOK
<1>3. TypeOK'
  BY <1>1, <1>2 DEF IInv, TypeOK
<1>4. \A x \in Keys : conf'.values[x] = IF x = k THEN v ELSE conf.values[x]
  BY <1>1 DEF IInv, TypeOK, IsQuery
<1>5. RegionSet'
  BY <1>4, KeysApart DEF IInv, RegionSet, TextKeys
<1>6. LimitsStored'
  BY <1>4, KeysApart DEF IInv, LimitsStored
<1>7. QED
  BY <1>3, <1>5, <1>6 DEF IInv

LEMMA BlankIsQuery ==
  /\ IsQuery(NoValues)
  /\ IsQuery(BlankConfig.values)
  /\ BlankConfig.values["region"] = DefaultRegion
<1>1. IsQuery(NoValues)
  BY DEF IsQuery, NoValues
<1>2. /\ {"db", "region", "missingAsEmptyString", "WGRemoteCreation"} \subseteq Keys
      /\ DefaultDB \in Stored("db") /\ DefaultRegion \in Stored("region")
      /\ TRUE \in Stored("missingAsEmptyString") /\ TRUE \in Stored("WGRemoteCreation")
  BY KeysApart, StoredAs, SettingsAssumption DEF TextKeys, FlagKeys, Strings
<1> DEFINE q1 == [NoValues EXCEPT !["db"] = DefaultDB]
           q2 == [q1 EXCEPT !["region"] = DefaultRegion]
           q3 == [q2 EXCEPT !["missingAsEmptyString"] = TRUE]
           q4 == [q3 EXCEPT !["WGRemoteCreation"] = TRUE]
<1>3. IsQuery(q1)
  BY <1>1, <1>2, SetKeepsQuery
<1>4. IsQuery(q2)
  BY <1>2, <1>3, SetKeepsQuery
<1>5. IsQuery(q3)
  BY <1>2, <1>4, SetKeepsQuery
<1>6. IsQuery(q4)
  BY <1>2, <1>5, SetKeepsQuery
<1>7. BlankConfig.values = q4
  BY DEF BlankConfig
<1>8. q4["region"] = DefaultRegion
  BY <1>2 DEF NoValues
<1>9. QED
  BY <1>1, <1>6, <1>7, <1>8

LEMMA DefaultIsQuery ==
  ASSUME NEW h, NEW p, NEW r \in Texts, NEW id \in Strings, NEW secret \in Strings
  PROVE  LET c == DefaultConfig(h, p, r, id, secret)
         IN  IsQuery(c.values) /\ c.values["region"] = r
<1> DEFINE idText == IF id = Empty THEN Unset ELSE id
           secretText == IF secret = Empty THEN Unset ELSE secret
           q1 == [BlankConfig.values EXCEPT !["region"] = r]
           q2 == [q1 EXCEPT !["accessID"] = idText]
           q3 == [q2 EXCEPT !["secretAccessKey"] = secretText]
           q4 == [q3 EXCEPT !["resultPollIntervalSeconds"] = PoolInterval]
<1>1. /\ {"region", "accessID", "secretAccessKey", "resultPollIntervalSeconds"} \subseteq Keys
      /\ r \in Stored("region")
      /\ idText \in {Unset} \cup Stored("accessID")
      /\ secretText \in {Unset} \cup Stored("secretAccessKey")
      /\ PoolInterval \in Stored("resultPollIntervalSeconds")
  BY KeysApart, StoredAs, SettingsAssumption DEF TextKeys, NumberKeys, Strings
<1>2. IsQuery(q1)
  BY <1>1, BlankIsQuery, SetKeepsQuery
<1>3. IsQuery(q2)
  <2> HIDE DEF q1, idText
  <2> QED BY <1>1, <1>2, SetKeepsQuery
<1>4. IsQuery(q3)
  <2> HIDE DEF q2, secretText
  <2> QED BY <1>1, <1>3, SetKeepsQuery
<1>5. IsQuery(q4)
  <2> HIDE DEF q3
  <2> QED BY <1>1, <1>4, SetKeepsQuery
<1>6. DefaultConfig(h, p, r, id, secret).values = q4
  BY DEF DefaultConfig, BlankConfig
<1>7. q4["region"] = r
  BY <1>1, BlankIsQuery DEF IsQuery
<1>8. QED
  BY <1>5, <1>6, <1>7

LEMMA InitInv == Init => IInv
<1> SUFFICES ASSUME Init PROVE IInv
  OBVIOUS
<1>1. /\ granted = NoLimits
      /\ asked = NoWorkgroup
  BY DEF Init
<1>2. NoPath \in Path
  BY DEF NoPath, Path
<1>3. TypeOK /\ RegionSet
  <2>1. CASE conf = BlankConfig
    <3>1. IsQuery(conf.query) /\ IsQuery(conf.values) /\ RegionSet
      BY <2>1, BlankIsQuery, SettingsAssumption DEF BlankConfig, RegionSet
    <3>2. QED
      BY <1>1, <1>2, <2>1, <3>1 DEF TypeOK, BlankConfig, Strings
  <2>2. ASSUME NEW h \in Hosts, NEW p \in Path, NEW r \in Texts, NEW id \in Strings,
               NEW secret \in Strings, conf = DefaultConfig(h, p, r, id, secret)
        PROVE  TypeOK /\ RegionSet
    <3>1. IsQuery(conf.values) /\ RegionSet
      BY <2>2, DefaultIsQuery DEF RegionSet
    <3>2. conf.host = h /\ conf.path = p /\ conf.user = Empty /\ conf.query = NoValues
      BY <2>2 DEF DefaultConfig, BlankConfig
    <3>3. conf = [host |-> conf.host, path |-> conf.path, user |-> conf.user,
                  query |-> conf.query, values |-> conf.values]
      BY <2>2 DEF DefaultConfig, BlankConfig
    <3>4. QED
      BY <1>1, <3>1, <3>2, <3>3, BlankIsQuery DEF TypeOK, Strings
  <2>3. ASSUME NEW d \in Dsns, conf = Parsed(d)
        PROVE  TypeOK /\ RegionSet
    <3>1. /\ d.host \in Hosts /\ d.path \in Path /\ d.user \in Strings
          /\ IsQuery(d.query) /\ d.query["region"] \in Texts
      BY SettingsAssumption
    <3>2. QED
      BY <1>1, <2>3, <3>1 DEF TypeOK, RegionSet, Parsed
  <2>4. QED
    BY <2>1, <2>2, <2>3 DEF Init
<1>4. QED
  BY <1>1, <1>3 DEF IInv, LimitsStored

\* What the setters of an override leave in it.
LEMMA OverridesFit ==
  ASSUME NEW limits \in Overrides
  PROVE  /\ limits \in [LimitKeys -> Numbers \cup {0}]
         /\ \A k \in LimitKeys : limits[k] = 0 \/ Acceptable(limits[k])
<1> DEFINE Fits(o) == /\ o \in [LimitKeys -> Numbers \cup {0}]
                      /\ \A k \in LimitKeys : o[k] = 0 \/ Acceptable(o[k])
<1>1. Fits(NewServiceLimitOverride)
  BY DEF NewServiceLimitOverride
<1>2. ASSUME NEW o, Fits(o), NEW j \in LimitKeys, NEW n \in Numbers
      PROVE  Fits(SetTimeout(o, j, n))
  <2>1. CASE Acceptable(n)
    BY <1>2, <2>1 DEF SetTimeout
  <2>2. CASE ~Acceptable(n)
    BY <1>2, <2>2 DEF SetTimeout
  <2>3. QED
    BY <2>1, <2>2
<1>3. PICK ddl \in Numbers, dml \in Numbers :
        limits = SetTimeout(SetTimeout(NewServiceLimitOverride, "DDLQueryTimeout", ddl),
                            "DMLQueryTimeout", dml)
  BY DEF Overrides
<1>4. {"DDLQueryTimeout", "DMLQueryTimeout"} \subseteq LimitKeys
  BY DEF LimitKeys
<1> HIDE DEF Fits
<1>5. Fits(SetTimeout(NewServiceLimitOverride, "DDLQueryTimeout", ddl))
  BY <1>1, <1>2, <1>4
<1>6. Fits(limits)
  BY <1>2, <1>3, <1>4, <1>5
<1>7. QED
  BY <1>6 DEF Fits

\* SetServiceLimitOverride writes both limits, and they are the ones granted.
LEMMA LimitsKeep ==
  ASSUME IInv, NEW limits \in Overrides, SetServiceLimitOverride(limits)
  PROVE  IInv'
<1> DEFINE q1 == [conf.values EXCEPT !["DDLQueryTimeout"] = limits["DDLQueryTimeout"]]
           q2 == [q1 EXCEPT !["DMLQueryTimeout"] = limits["DMLQueryTimeout"]]
<1>1. conf' = [conf EXCEPT !.values = q2]
  BY DEF SetServiceLimitOverride, IInv, TypeOK
<1>2. /\ {"DDLQueryTimeout", "DMLQueryTimeout"} \subseteq Keys
      /\ \A k \in LimitKeys : limits[k] \in Int /\ limits[k] \in Stored(k)
  <2>1. Numbers \cup {0} \subseteq Int
    BY SettingsAssumption
  <2>2. \A k \in LimitKeys : limits[k] \in Int
    BY <2>1, OverridesFit
  <2>3. \A k \in LimitKeys : k \in Keys /\ Stored(k) = Int \cup Strings
    BY KeysApart, StoredAs
  <2>4. QED
    BY <2>2, <2>3 DEF LimitKeys
<1>3. IsQuery(q1)
  BY <1>2, SetKeepsQuery DEF LimitKeys, IInv, TypeOK
<1>4. IsQuery(q2)
  <2> HIDE DEF q1
  <2> QED BY <1>2, <1>3, SetKeepsQuery DEF LimitKeys
<1>5. \A x \in Keys : q2[x] = IF x \in LimitKeys THEN limits[x] ELSE conf.values[x]
  BY <1>2 DEF LimitKeys, IInv, TypeOK, IsQuery
<1>6. granted' = limits /\ asked' = asked
  BY DEF SetServiceLimitOverride
<1>7. granted' \in [LimitKeys -> Int]
  BY <1>2, <1>6, OverridesFit
<1>8. conf'.values = q2 /\ conf'.host = conf.host /\ conf'.path = conf.path
        /\ conf'.user = conf.user /\ conf'.query = conf.query
        /\ conf' = [host |-> conf.host, path |-> conf.path, user |-> conf.user,
                    query |-> conf.query, values |-> q2]
  <2> HIDE DEF q2
  <2> QED BY <1>1 DEF IInv, TypeOK
<1>9. TypeOK'
  <2> HIDE DEF q2
  <2> QED BY <1>4, <1>6, <1>7, <1>8 DEF IInv, TypeOK
<1>10. RegionSet'
  <2>1. "region" \in Keys \ LimitKeys
    BY KeysApart DEF TextKeys, LimitKeys
  <2> HIDE DEF q2
  <2> QED BY <1>5, <1>8, <2>1 DEF IInv, RegionSet
<1>11. LimitsStored'
  <2>1. \A k \in LimitKeys : limits[k] = 0 \/ Acceptable(limits[k])
    BY OverridesFit
  <2>2. LimitKeys \subseteq Keys
    BY KeysApart
  <2> HIDE DEF q2
  <2> QED BY <1>2, <1>5, <1>6, <1>8, <2>1, <2>2 DEF LimitsStored
<1>12. QED
  BY <1>9, <1>10, <1>11 DEF IInv

LEMMA WorkgroupKeeps ==
  ASSUME IInv, NEW w \in Workgroups, SetWorkGroup(w)
  PROVE  IInv'
<1> DEFINE config == IF w.config = NoWGConfig THEN DefaultWGConfig ELSE w.config
           tag == IF w.tags = NoTags THEN conf.values["tag"] ELSE PairsOf(conf, "tag") \o w.tags
           q1 == [conf.values EXCEPT !["workgroupName"] = w.name]
           q2 == [q1 EXCEPT !["tag"] = tag]
           q3 == [q2 EXCEPT !["workgroupConfig"] = config]
<1>1. /\ w.name \in Strings
      /\ w.tags \in {NoTags} \cup Pairs
      /\ config \in WGConfigs
      /\ w = [name |-> w.name, tags |-> w.tags, config |-> w.config]
  BY SettingsAssumption
<1>2. /\ {"workgroupName", "tag", "workgroupConfig"} \subseteq Keys
      /\ w.name \in Stored("workgroupName")
      /\ config \in Stored("workgroupConfig")
      /\ Stored("tag") = Pairs
  BY <1>1, KeysApart, StoredAs
<1>3. tag \in {Unset} \cup Stored("tag")
  <2>1. PairsOf(conf, "tag") \in Pairs
    BY PairsArePairs DEF IInv, TypeOK
  <2>2. conf.values["tag"] \in {Unset} \cup Pairs
    BY <1>2 DEF IInv, TypeOK, IsQuery
  <2>3. CASE w.tags = NoTags
    BY <1>2, <2>2, <2>3
  <2>4. CASE w.tags # NoTags
    <3>1. PairsOf(conf, "tag") \o w.tags \in Pairs
      BY <1>1, <2>1, <2>4 DEF Pairs
    <3>2. QED
      BY <1>2, <2>4, <3>1
  <2>5. QED
    BY <2>3, <2>4
<1> HIDE DEF config, tag
<1>4. conf' = [conf EXCEPT !.values = q3] /\ asked' = [w EXCEPT !.config = config]
        /\ granted' = granted
  BY DEF SetWorkGroup, IInv, TypeOK, config, tag
<1>5. IsQuery(q1)
  BY <1>2, SetKeepsQuery DEF IInv, TypeOK
<1>6. IsQuery(q2)
  <2> HIDE DEF q1
  <2> QED BY <1>2, <1>3, <1>5, SetKeepsQuery
<1>7. IsQuery(q3)
  <2> HIDE DEF q2
  <2> QED BY <1>2, <1>6, SetKeepsQuery
<1>8. \A x \in Keys \ {"workgroupName", "tag", "workgroupConfig"} : q3[x] = conf.values[x]
  BY DEF IInv, TypeOK, IsQuery
<1> HIDE DEF q3
<1>9. conf'.values = q3 /\ conf' = [host |-> conf.host, path |-> conf.path, user |-> conf.user,
                                   query |-> conf.query, values |-> q3]
  BY <1>4 DEF IInv, TypeOK
<1>10. asked' \in [name : Strings, tags : {NoTags} \cup Pairs, config : WGConfigs]
  BY <1>1, <1>4 DEF config
<1>11. TypeOK'
  BY <1>4, <1>7, <1>9, <1>10 DEF IInv, TypeOK
<1>12. RegionSet' /\ LimitsStored'
  <2>1. LimitKeys \cup {"region"} \subseteq Keys \ {"workgroupName", "tag", "workgroupConfig"}
    BY KeysApart DEF LimitKeys, TextKeys
  <2>2. \A x \in LimitKeys \cup {"region"} : conf'.values[x] = conf.values[x]
    BY <1>8, <1>9, <2>1
  <2>3. QED
    BY <1>4, <2>2 DEF IInv, RegionSet, LimitsStored
<1>13. QED
  BY <1>11, <1>12 DEF IInv

\* Steps that leave the values alone.
LEMMA ValuesKept ==
  ASSUME IInv, TypeOK', conf'.values = conf.values, granted' = granted
  PROVE  IInv'
BY DEF IInv, RegionSet, LimitsStored

LEMMA NextInv == IInv /\ [Next]_vars => IInv'
<1> SUFFICES ASSUME IInv, [Next]_vars PROVE IInv'
  OBVIOUS
<1>1. ASSUME NEW k \in TextKeys, NEW t \in Strings, SetText(k, t)
      PROVE  IInv'
  <2>1. k \in Keys \ LimitKeys /\ t \in {Unset} \cup Stored(k)
    BY KeysApart, StoredAs DEF TextKeys, LimitKeys
  <2>2. k = "region" => t \in Texts
    BY <1>1 DEF SetText, Required, Strings
  <2>3. QED
    BY <1>1, <2>1, <2>2, SetKeeps DEF SetText
<1>2. ASSUME NEW k \in FlagKeys, NEW b \in BOOLEAN, SetFlag(k, b)
      PROVE  IInv'
  <2>1. k \in Keys \ LimitKeys /\ b \in {Unset} \cup Stored(k) /\ k # "region"
    BY KeysApart, StoredAs DEF FlagKeys, LimitKeys
  <2>2. QED
    BY <1>2, <2>1, SetKeeps DEF SetFlag
<1>3. ASSUME NEW k \in Masks, NEW t \in Strings, SetMaskedColumnValue(k, t)
      PROVE  IInv'
  <2>1. k \in Keys \ LimitKeys /\ t \in {Unset} \cup Stored(k) /\ k # "region"
    BY KeysApart, StoredAs, SettingsAssumption DEF NamedKeys, TextKeys, NumberKeys
  <2>2. QED
    BY <1>3, <2>1, SetKeeps DEF SetMaskedColumnValue
<1>4. ASSUME NEW n \in Numbers, SetResultPollIntervalSeconds(n)
      PROVE  IInv'
  <2> DEFINE k == "resultPollIntervalSeconds"
  <2>1. k \in Keys \ LimitKeys /\ n \in {Unset} \cup Stored(k) /\ k # "region"
    BY KeysApart, StoredAs, SettingsAssumption DEF NumberKeys, LimitKeys
  <2>2. QED
    BY <1>4, <2>1, SetKeeps DEF SetResultPollIntervalSeconds
<1>5. ASSUME NEW limits \in Overrides, SetServiceLimitOverride(limits)
      PROVE  IInv'
  BY <1>5, LimitsKeep
<1>6. ASSUME NEW h \in Hosts, NEW p \in Path, SetOutputBucket(h, p)
      PROVE  IInv'
  <2>1. TypeOK' /\ conf'.values = conf.values /\ granted' = granted
    BY <1>6 DEF SetOutputBucket, IInv, TypeOK
  <2>2. QED
    BY <2>1, ValuesKept
<1>7. ASSUME NEW t \in Strings, SetUser(t)
      PROVE  IInv'
  <2>1. TypeOK' /\ conf'.values = conf.values /\ granted' = granted
    BY <1>7 DEF SetUser, IInv, TypeOK
  <2>2. QED
    BY <2>1, ValuesKept
<1>8. ASSUME NEW w \in Workgroups, SetWorkGroup(w)
      PROVE  IInv'
  BY <1>8, WorkgroupKeeps
<1>9. ASSUME NEW pair \in Tags, SetSessionTag(pair)
      PROVE  IInv'
  <2> DEFINE v == Append(PairsOf(conf, "sessionTags"), pair)
  <2>1. PairsOf(conf, "sessionTags") \in Seq(Tags)
    BY PairsArePairs DEF IInv, TypeOK, Pairs
  <2>2. v \in {Unset} \cup Stored("sessionTags")
    <3>1. v \in Seq(Tags)
      BY <1>9, <2>1
    <3>2. QED
      BY <3>1, StoredAs DEF Pairs
  <2>3. "sessionTags" \in Keys \ LimitKeys
    BY KeysApart DEF LimitKeys
  <2>4. Set("sessionTags", v) /\ UNCHANGED <<asked, granted>>
    BY <1>9 DEF SetSessionTag
  <2> HIDE DEF v
  <2>5. QED
    BY <2>2, <2>3, <2>4, SetKeeps
<1>10. ASSUME ClearSessionTags
       PROVE  IInv'
  <2>1. "sessionTags" \in Keys \ LimitKeys
    BY KeysApart DEF LimitKeys
  <2>2. QED
    BY <1>10, <2>1, SetKeeps DEF ClearSessionTags
<1>11. ASSUME Stringify
       PROVE  IInv'
  <2>1. TypeOK' /\ conf'.values = conf.values /\ granted' = granted
    BY <1>11 DEF Stringify, Stringified, IInv, TypeOK
  <2>2. QED
    BY <2>1, ValuesKept
<1>12. CASE UNCHANGED vars
  BY <1>12 DEF vars, IInv, TypeOK, RegionSet, LimitsStored
<1>13. QED
  BY <1>1, <1>2, <1>3, <1>4, <1>5, <1>6, <1>7, <1>8, <1>9, <1>10, <1>11, <1>12 DEF Next

-----------------------------------------------------------------------------
(* Theorems. *)

\* The types: every Config an application can build holds, under each key, a
\* value that this key's getter can read.
THEOREM SettingsTypes == Spec => []TypeOK
<1>1. Spec => []IInv
  BY InitInv, NextInv, PTL DEF Spec
<1>2. IInv => TypeOK
  BY DEF IInv
<1>3. QED
  BY <1>1, <1>2, PTL

\* The DSN of Stringify opens, and reads back as the Config it came from: the
\* region is never empty, and all that is observed of a Config goes through
\* what the URL keeps.
THEOREM DsnFaithful == Spec => []DsnKeepsSettings
<1>1. ASSUME IInv PROVE DsnKeepsSettings
  <2>1. Observed(Reopened) = Observed(conf)
    BY ReopenedIs, ObservedThrough
  <2>2. Get(Reopened, "region") \in Texts
    BY <1>1, ReopenedIs, SettingsAssumption DEF IInv, RegionSet, Get
  <2>3. IsValid(Reopened)
    BY <2>2, SettingsAssumption DEF IsValid
  <2>4. QED
    BY <2>1, <2>3 DEF DsnKeepsSettings
<1>2. IInv => DsnKeepsSettings
  BY <1>1
<1>3. QED
  BY <1>2, InitInv, NextInv, PTL DEF Spec

\* A limit the setters accepted passes the check of the getter behind the DSN.
THEOREM LimitsApply == Spec => []GrantedLimitsApply
<1>1. ASSUME IInv, granted # NoLimits, NEW k \in LimitKeys
      PROVE  LimitOf(Reopened, k) = granted[k]
  <2>1. conf.values[k] = granted[k] /\ granted[k] \in Int
          /\ (granted[k] = 0 \/ Acceptable(granted[k]))
    BY <1>1 DEF IInv, LimitsStored
  <2>2. \A t \in Texts \cup {Empty, Unset} : t \notin Int
    BY SettingsAssumption
  <2>3. Get(Reopened, k) = granted[k]
    BY <2>1, <2>2, ReopenedIs DEF Get
  <2>4. IsNumber(granted[k])
    BY <2>1, <2>2 DEF IsNumber, Strings
  <2>5. QED
    BY <2>1, <2>3, <2>4 DEF LimitOf
<1>2. IInv => GrantedLimitsApply
  BY <1>1 DEF GrantedLimitsApply
<1>3. QED
  BY <1>2, InitInv, NextInv, PTL DEF Spec

\* A list of pairs read as a map: appending a pair replaces the entry of its key.
LEMMA AppendUpdates ==
  ASSUME NEW s \in Seq(Tags), NEW pair \in Tags
  PROVE  LastOfEachKey(Append(s, pair)) = {pair} \cup {p \in LastOfEachKey(s) : p[1] # pair[1]}
<1> DEFINE a == Append(s, pair)
           last(q) == {n \in DOMAIN q : \A m \in n + 1 .. Len(q) : q[m][1] # q[n][1]}
<1>1. /\ Len(s) \in Nat /\ Len(a) = Len(s) + 1
      /\ DOMAIN s = 1 .. Len(s) /\ DOMAIN a = 1 .. Len(s) + 1
      /\ a[Len(s) + 1] = pair
      /\ \A i \in 1 .. Len(s) : a[i] = s[i]
  OBVIOUS
<1> HIDE DEF a
<1>2. Len(s) + 1 \in last(a)
  BY <1>1
<1>3. \A n \in 1 .. Len(s) : n \in last(a) <=> n \in last(s) /\ s[n][1] # pair[1]
  BY <1>1
<1>4. LastOfEachKey(a) = {a[i] : i \in last(a)} /\ LastOfEachKey(s) = {s[i] : i \in last(s)}
  BY DEF LastOfEachKey
<1>5. last(a) = {Len(s) + 1} \cup {n \in last(s) : s[n][1] # pair[1]}
  BY <1>1, <1>2, <1>3
<1> HIDE DEF last
<1>6. last(s) \subseteq 1 .. Len(s)
  BY <1>1 DEF last
<1>7. QED
  BY <1>1, <1>4, <1>5, <1>6 DEF a

\* Every SetSessionTag updates one entry of the application's map of tags.
THEOREM SessionTagsUpdate == Spec => SessionTagIsAdded
<1>1. ASSUME IInv, NEW pair \in Tags, SetSessionTag(pair)
      PROVE  SessionTagsOf(conf') =
               {pair} \cup {p \in LastOfEachKey(PairsOf(conf, "sessionTags")) : p[1] # pair[1]}
  <2> DEFINE s == PairsOf(conf, "sessionTags")
  <2>1. s \in Seq(Tags)
    BY <1>1, PairsArePairs DEF IInv, TypeOK, Pairs
  <2>2. conf'.values["sessionTags"] = Append(s, pair)
    BY <1>1, KeysApart DEF SetSessionTag, Set, IInv, TypeOK, IsQuery
  <2>3. Append(s, pair) # << >> /\ Append(s, pair) \in Seq(Tags)
    BY <2>1
  <2> HIDE DEF s
  <2>4. Append(s, pair) \notin {Unset, Empty}
    BY <2>3, SettingsAssumption DEF Pairs
  <2>5. PairsOf(conf', "sessionTags") = Append(s, pair)
    BY <2>2, <2>4 DEF PairsOf, Get
  <2>6. SessionTagsOf(conf') = LastOfEachKey(Append(s, pair))
    BY <2>3, <2>5 DEF SessionTagsOf
  <2>7. QED
    BY <2>1, <2>6, AppendUpdates DEF s
<1>2. IInv /\ [Next]_vars =>
        [\A pair \in Tags : SetSessionTag(pair) =>
           SessionTagsOf(conf') =
             {pair} \cup {p \in LastOfEachKey(PairsOf(conf, "sessionTags")) : p[1] # pair[1]}]_vars
  BY <1>1
<1>3. QED
  BY <1>2, InitInv, NextInv, PTL DEF Spec, SessionTagIsAdded
-----------------------------------------------------------------------------
(* The workgroup set last.  Its name is what url.Values holds, and its tags *)
(* end the list there: only SetWorkGroup writes either, and it writes both. *)

EndsWith(s, t) == \E n \in 0 .. Len(s) : t = SubSeq(s, n + 1, Len(s))

WorkgroupStored ==
  asked # NoWorkgroup =>
    /\ conf.values["workgroupName"] = asked.name
    /\ asked.tags # NoTags => EndsWith(PairsOf(conf, "tag"), asked.tags)

LEMMA AppendedEnds ==
  ASSUME NEW s \in Seq(Tags), NEW t \in Seq(Tags)
  PROVE  EndsWith(s \o t, t)
<1> DEFINE st == s \o t
           n  == Len(s)
           u  == SubSeq(st, n + 1, Len(st))
<1>1. /\ st \in Seq(Tags) /\ n \in Nat /\ Len(t) \in Nat
      /\ Len(st) = n + Len(t)
      /\ \A i \in 1 .. Len(t) : st[n + i] = t[i]
  OBVIOUS
<1> HIDE DEF st, n
<1>2. \A i \in n + 1 .. Len(st) : st[i] \in Tags
  BY <1>1, ElementOfSeq
<1>3. /\ u \in Seq(Tags)
      /\ Len(u) = IF n + 1 <= Len(st) THEN Len(st) - (n + 1) + 1 ELSE 0
      /\ \A i \in 1 .. Len(st) - (n + 1) + 1 : u[i] = st[n + 1 + i - 1]
  BY <1>1, <1>2, SubSeqProperties
<1> HIDE DEF u
<1>4. Len(u) = Len(t)
  BY <1>1, <1>3
<1>5. \A i \in 1 .. Len(u) : u[i] = t[i]
  <2> SUFFICES ASSUME NEW i \in 1 .. Len(u) PROVE u[i] = t[i]
    OBVIOUS
  <2>1. u[i] = st[n + 1 + i - 1] /\ n + 1 + i - 1 = n + i
    BY <1>1, <1>3, <1>4
  <2>2. QED
    BY <1>1, <1>4, <2>1
<1>6. u = t
  BY <1>3, <1>4, <1>5, SeqEqual
<1>7. n \in 0 .. Len(st)
  BY <1>1
<1>8. t = SubSeq(st, n + 1, Len(st))
  BY <1>6 DEF u
<1>9. QED
  BY <1>7, <1>8 DEF EndsWith, st

\* Setters of other keys, and those that set none.
LEMMA OthersLeaveWorkgroup ==
  ASSUME IInv, WorkgroupStored, asked' = asked,
         conf'.values["workgroupName"] = conf.values["workgroupName"],
         conf'.values["tag"] = conf.values["tag"]
  PROVE  WorkgroupStored'
BY DEF WorkgroupStored, PairsOf, Get

LEMMA SetLeavesWorkgroup ==
  ASSUME IInv, WorkgroupStored, NEW k \in Keys, NEW v, Set(k, v), UNCHANGED <<asked, granted>>,
         k \notin {"workgroupName", "tag"}
  PROVE  WorkgroupStored'
<1>1. {"workgroupName", "tag"} \subseteq Keys
  BY KeysApart
<1>2. \A x \in Keys \ {k} : conf'.values[x] = conf.values[x]
  BY DEF Set, IInv, TypeOK, IsQuery
<1>3. QED
  BY <1>1, <1>2, OthersLeaveWorkgroup

LEMMA WorkgroupNext == IInv /\ WorkgroupStored /\ [Next]_vars => WorkgroupStored'
<1> SUFFICES ASSUME IInv, WorkgroupStored, [Next]_vars PROVE WorkgroupStored'
  OBVIOUS
<1>1. ASSUME NEW k \in TextKeys, NEW t \in Strings, SetText(k, t)
      PROVE  WorkgroupStored'
  <2>1. k \in Keys /\ k \notin {"workgroupName", "tag"}
    BY KeysApart DEF TextKeys
  <2>2. QED
    BY <1>1, <2>1, SetLeavesWorkgroup DEF SetText
<1>2. ASSUME NEW k \in FlagKeys, NEW b \in BOOLEAN, SetFlag(k, b)
      PROVE  WorkgroupStored'
  <2>1. k \in Keys /\ k \notin {"workgroupName", "tag"}
    BY KeysApart DEF FlagKeys
  <2>2. QED
    BY <1>2, <2>1, SetLeavesWorkgroup DEF SetFlag
<1>3. ASSUME NEW k \in Masks, NEW t \in Strings, SetMaskedColumnValue(k, t)
      PROVE  WorkgroupStored'
  <2>1. k \in Keys /\ k \notin {"workgroupName", "tag"}
    BY KeysApart, SettingsAssumption DEF NamedKeys
  <2>2. QED
    BY <1>3, <2>1, SetLeavesWorkgroup DEF SetMaskedColumnValue
<1>4. ASSUME NEW n \in Numbers, SetResultPollIntervalSeconds(n)
      PROVE  WorkgroupStored'
  <2>1. "resultPollIntervalSeconds" \in Keys
    BY KeysApart DEF NumberKeys
  <2>2. QED
    BY <1>4, <2>1, SetLeavesWorkgroup DEF SetResultPollIntervalSeconds
<1>5. ASSUME NEW limits \in Overrides, SetServiceLimitOverride(limits)
      PROVE  WorkgroupStored'
  <2>1. {"workgroupName", "tag"} \subseteq Keys \ LimitKeys
    BY KeysApart DEF LimitKeys
  <2>2. \A x \in Keys \ LimitKeys : conf'.values[x] = conf.values[x]
    BY <1>5 DEF SetServiceLimitOverride, LimitKeys, IInv, TypeOK, IsQuery
  <2>3. QED
    BY <1>5, <2>1, <2>2, OthersLeaveWorkgroup DEF SetServiceLimitOverride
<1>6. ASSUME NEW h \in Hosts, NEW p \in Path, SetOutputBucket(h, p)
      PROVE  WorkgroupStored'
  BY <1>6, OthersLeaveWorkgroup DEF SetOutputBucket, IInv, TypeOK
<1>7. ASSUME NEW t \in Strings, SetUser(t)
      PROVE  WorkgroupStored'
  BY <1>7, OthersLeaveWorkgroup DEF SetUser, IInv, TypeOK
<1>8. ASSUME NEW w \in Workgroups, SetWorkGroup(w)
      PROVE  WorkgroupStored'
  <2> DEFINE old == PairsOf(conf, "tag")
  <2>1. old \in Seq(Tags)
    BY PairsArePairs DEF IInv, TypeOK, Pairs
  <2>2. {"workgroupName", "tag", "workgroupConfig"} \subseteq Keys
    BY KeysApart
  <2>3. asked'.name = w.name /\ asked'.tags = w.tags
    BY <1>8, SettingsAssumption DEF SetWorkGroup
  <2> HIDE DEF old
  <2>4. /\ conf'.values["workgroupName"] = w.name
        /\ w.tags # NoTags => conf'.values["tag"] = old \o w.tags
    BY <1>8, <2>2 DEF SetWorkGroup, IInv, TypeOK, IsQuery, old
  <2>5. ASSUME w.tags # NoTags
        PROVE  EndsWith(PairsOf(conf', "tag"), w.tags)
    <3>1. w.tags \in Seq(Tags)
      BY <2>5, SettingsAssumption DEF Pairs
    <3>2. old \o w.tags \in Seq(Tags)
      BY <2>1, <3>1
    <3>3. old \o w.tags \notin {Unset, Empty}
      BY <3>2, SettingsAssumption DEF Pairs
    <3>4. PairsOf(conf', "tag") = old \o w.tags
      BY <2>4, <2>5, <3>3 DEF PairsOf, Get
    <3>5. QED
      BY <2>1, <3>1, <3>4, AppendedEnds
  <2>6. QED
    BY <2>3, <2>4, <2>5 DEF WorkgroupStored
<1>9. ASSUME NEW pair \in Tags, SetSessionTag(pair)
      PROVE  WorkgroupStored'
  <2>1. "sessionTags" \in Keys
    BY KeysApart
  <2>2. QED
    BY <1>9, <2>1, SetLeavesWorkgroup DEF SetSessionTag
<1>10. ASSUME ClearSessionTags
       PROVE  WorkgroupStored'
  <2>1. "sessionTags" \in Keys
    BY KeysApart
  <2>2. QED
    BY <1>10, <2>1, SetLeavesWorkgroup DEF ClearSessionTags
<1>11. ASSUME Stringify
       PROVE  WorkgroupStored'
  BY <1>11, OthersLeaveWorkgroup DEF Stringify, Stringified, IInv, TypeOK
<1>12. ASSUME UNCHANGED vars
       PROVE  WorkgroupStored'
  BY <1>12, OthersLeaveWorkgroup DEF vars
<1>13. QED
  BY <1>1, <1>2, <1>3, <1>4, <1>5, <1>6, <1>7, <1>8, <1>9, <1>10, <1>11, <1>12 DEF Next

\* The workgroup set last is the one the handle reads, for any workgroups and
\* whatever else was set before or since.
THEOREM LastWorkgroup == Spec => []LastWorkgroupIsRead
<1>1. Init => WorkgroupStored
  BY DEF Init, WorkgroupStored
<1>2. ASSUME IInv, WorkgroupStored, asked # NoWorkgroup
      PROVE  LET w == WorkgroupOf(Reopened)
             IN  /\ w.name = asked.name
                 /\ asked.tags # NoTags => EndsWith(w.tags, asked.tags)
  <2>1. asked.name \in Strings
    BY <1>2 DEF IInv, TypeOK
  <2>2. asked.name # Unset
    BY <2>1, SettingsAssumption DEF Strings
  <2>3. Get(Reopened, "workgroupName") = asked.name
    BY <1>2, <2>2, ReopenedIs DEF WorkgroupStored, Get
  <2>4. PairsOf(Reopened, "tag") = PairsOf(conf, "tag")
    BY ReopenedIs DEF PairsOf, Get
  <2>5. QED
    BY <1>2, <2>3, <2>4 DEF WorkgroupStored, WorkgroupOf
<1>3. IInv /\ WorkgroupStored => LastWorkgroupIsRead
  BY <1>2 DEF LastWorkgroupIsRead, EndsWith
<1>4. QED
  BY <1>1, <1>3, InitInv, NextInv, WorkgroupNext, PTL DEF Spec
=============================================================================
