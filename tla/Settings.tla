------------------------------ MODULE Settings ------------------------------
(***************************************************************************)
(* The settings of a database handle (go/config.go,                        *)
(* go/servicelimitoverride.go, go/wgconfig.go, go/wgtag.go).               *)
(*                                                                         *)
(* An application fills a Config with setters, or gets one from a DSN      *)
(* somebody wrote, turns it into a DSN and gives that to sql.Open, which   *)
(* parses it into the Config every connection of the handle reads through  *)
(* getters.  So a setting takes effect only if it survives three hops: the *)
(* setter's encoding, the DSN, and the getter's decoding and fallbacks.    *)
(*                                                                         *)
(* A Config is a URL and url.Values.  Texts are opaque: url.Values.Encode  *)
(* and url.ParseQuery escape any text and give it back, and neither tags   *)
(* nor session tags may hold the separators "|" and "`" (the service       *)
(* allows no such character in a tag).  Numbers are stored as decimals.    *)
(***************************************************************************)
EXTENDS Integers, Sequences

CONSTANTS
  Texts,         \* the non-empty texts of this deployment
  Empty,         \* the empty string
  Unset,         \* what url.Values has under a key it does not hold
  Touched,       \* the keys the application sets
  Masks,         \* the keys "masked_<column>"
  Hosts,         \* buckets
  Dirs,          \* paths behind the bucket, without their leading slash
  Numbers,       \* the numbers an application tries
  Tags,          \* key-value pairs
  MaxTags,       \* bound: tags an application sets under one key
  WGConfigs,     \* workgroup configurations
  DefaultWGConfig,
  NoWGConfig,    \* a nil *WorkGroupConfiguration
  NoTags,        \* a nil *WGTags
  Fallback,      \* what a getter answers for a key with no text
  EnvSessionTags,\* the pairs of AWS_SESSION_TAGS
  PoolInterval,
  Dsns,          \* the valid DSNs that people wrote
  DefaultDB, DefaultRegion,
  Workgroups,    \* the workgroups an application sets
  NoWorkgroup, NoLimits

TextKeys == {"region", "db", "scratchDir", "accessID", "secretAccessKey",
             "sessionToken", "AWSProfile", "roleArn", "externalID",
             "roleSessionName"}
Required == {"region", "accessID", "secretAccessKey"}
FlagKeys == {"missingAsEmptyString", "missingAsDefault", "missingAsNil",
             "WGRemoteCreation", "LoggingEnabled", "MetricsEnabled",
             "ReadOnly", "MoneyWise"}
LimitKeys == {"DDLQueryTimeout", "DMLQueryTimeout"}
NumberKeys == LimitKeys \cup {"resultPollIntervalSeconds"}
NamedKeys == TextKeys \cup FlagKeys \cup NumberKeys
               \cup {"workgroupName", "tag", "workgroupConfig", "sessionTags"}
Keys == NamedKeys \cup Masks

Strings == Texts \cup {Empty}

Pairs == Seq(Tags)

\* What may be stored under a key; somebody who writes a DSN by hand may put
\* a text where a flag or a number belongs.
Stored(k) ==
  CASE k \in FlagKeys                   -> BOOLEAN \cup Strings
    [] k \in NumberKeys                 -> Int \cup Strings
    [] k \in {"tag", "sessionTags"}     -> Pairs
    [] k = "workgroupConfig"            -> WGConfigs \cup Strings
    [] OTHER                            -> Strings

Path == [rooted : BOOLEAN, rest : Dirs \cup {Empty}]

NoPath == [rooted |-> FALSE, rest |-> Empty]

\* url.URL.String prints a path behind a host with a slash in front.
Printed(path) == IF path = NoPath THEN NoPath ELSE [path EXCEPT !.rooted = TRUE]

IsQuery(v) == /\ v = [k \in Keys |-> v[k]]
              /\ \A k \in Keys : v[k] \in {Unset} \cup Stored(k)

ASSUME SettingsAssumption ==
  /\ Empty \notin Texts
  /\ Unset \notin Texts \cup {Empty}
  /\ Numbers \subseteq Int
  /\ \A t \in Texts \cup {Empty, Unset} : t \notin Int
  /\ {Empty, Unset} \cap Pairs = {}
  /\ PoolInterval \in Nat \ {0}
  /\ Masks \cap NamedKeys = {}
  /\ Fallback \in [TextKeys -> Strings]
  /\ EnvSessionTags \in Pairs
  /\ DefaultDB \in Texts /\ DefaultRegion \in Texts
  /\ DefaultWGConfig \in WGConfigs
  /\ Workgroups \subseteq [name : Strings, tags : {NoTags} \cup Pairs,
                           config : {NoWGConfig} \cup WGConfigs]
  /\ \A d \in Dsns : /\ d.host \in Hosts
                     /\ d.path \in Path /\ d.path = Printed(d.path)
                     /\ d.user \in Strings
                     /\ IsQuery(d.query)
                     /\ d.query["region"] \in Texts

VARIABLES
  conf,     \* the application's Config: URL and values
  asked,    \* history: the workgroup last given to SetWorkGroup
  granted   \* history: the limits last given to SetServiceLimitOverride

vars == <<conf, asked, granted>>

-----------------------------------------------------------------------------
(* Reading a Config. *)

Get(c, k) == IF c.values[k] = Unset THEN Empty ELSE c.values[k]

TextOf(c, k) == IF Get(c, k) = Empty THEN Fallback[k] ELSE Get(c, k)

\* Every flag is off unless it says "true", but logging is on unless "false".
FlagOf(c, k) == IF k = "LoggingEnabled" THEN Get(c, k) # FALSE ELSE Get(c, k) = TRUE

IsNumber(x) == x \notin Strings \cup {Unset}

PollIntervalOf(c) ==
  LET n == Get(c, "resultPollIntervalSeconds")
  IN  IF IsNumber(n) THEN n ELSE PoolInterval

\* A ServiceLimitOverride and its setters: what they refuse leaves the field
\* alone, and 0 is a limit it was not given.
NewServiceLimitOverride == [k \in LimitKeys |-> 0]
Acceptable(seconds) == seconds < 0 \/ seconds >= PoolInterval
SetTimeout(override, k, seconds) ==
  IF Acceptable(seconds) THEN [override EXCEPT ![k] = seconds] ELSE override

Overrides ==
  {SetTimeout(SetTimeout(NewServiceLimitOverride, "DDLQueryTimeout", ddl), "DMLQueryTimeout", dml) :
     ddl \in Numbers, dml \in Numbers}

\* Mutant: the getter refuses what means no limit.
PositiveLimitOf(c, k) ==
  IF IsNumber(Get(c, k)) /\ Get(c, k) >= PoolInterval THEN Get(c, k) ELSE 0

\* SetFromValues: a refused or unreadable limit is 0, no override.
LimitOf(c, k) ==
  IF IsNumber(Get(c, k)) /\ Acceptable(Get(c, k)) THEN Get(c, k) ELSE 0

PairsOf(c, k) == IF Get(c, k) = Empty THEN << >> ELSE Get(c, k)

WorkgroupOf(c) ==
  [name   |-> Get(c, "workgroupName"),
   tags   |-> PairsOf(c, "tag"),
   config |-> DefaultWGConfig]

\* The workgroup of NewDefaultWG, and that of NewWG, which leaves gaps.
NewWG(name, config, tags) == [name |-> name, tags |-> tags, config |-> config]
NewDefaultWG(name, config, tags) ==
  NewWG(name, IF config = NoWGConfig THEN DefaultWGConfig ELSE config,
        IF tags = NoTags THEN << >> ELSE tags)

\* Mutant: the first pair of a key wins.
FirstOfEachKey(pairs) ==
  {pairs[i] : i \in {n \in DOMAIN pairs : \A m \in 1 .. n - 1 : pairs[m][1] # pairs[n][1]}}

\* The map that a list of pairs is read into: the last pair of a key wins.
LastOfEachKey(pairs) ==
  {pairs[i] : i \in {n \in DOMAIN pairs : \A m \in n + 1 .. Len(pairs) : pairs[m][1] # pairs[n][1]}}

\* An application that sets no session tag gets those of the environment.
SessionTagsOf(c) ==
  LET own == PairsOf(c, "sessionTags")
  IN  LastOfEachKey(IF own = << >> THEN EnvSessionTags ELSE own)

\* What a missing value of a result becomes (athenaTypeToGoType).
MissingValueOf(c) ==
  IF FlagOf(c, "missingAsNil") THEN "nil"
  ELSE IF FlagOf(c, "missingAsEmptyString") THEN "empty"
  ELSE IF FlagOf(c, "missingAsDefault") THEN "default"
  ELSE "error"

\* DriverTracer: what a message of a level is logged as, if at all.
Levels == {"debug", "info", "warn", "error", "dpanic", "panic", "fatal"}
Logged(c, level) ==
  IF ~FlagOf(c, "LoggingEnabled") THEN "nothing"
  ELSE IF level \in {"dpanic", "panic", "fatal"} THEN "error" ELSE level

\* The scope it counts to is the no-op one or that of the connection.
Counted(c) == FlagOf(c, "MetricsEnabled")

\* Mutant: the slash in front of the path is taken for part of it.
RawLocationOf(c) == <<c.host, c.path>>

\* GetOutputBucket and GetQueryResultKey look past one leading slash.
LocationOf(c) == <<c.host, c.path.rest>>

\* All that a connection can learn from its Config.
Observed(c) ==
  [location    |-> LocationOf(c),
   user        |-> c.user,
   texts       |-> [k \in TextKeys |-> TextOf(c, k)],
   flags       |-> [k \in FlagKeys |-> FlagOf(c, k)],
   masks       |-> [k \in Masks |-> c.values[k]],
   poll        |-> PollIntervalOf(c),
   missing     |-> MissingValueOf(c),
   logs        |-> [level \in Levels |-> Logged(c, level)],
   counts      |-> Counted(c),
   limits      |-> [k \in LimitKeys |-> LimitOf(c, k)],
   workgroup   |-> WorkgroupOf(c),
   sessionTags |-> SessionTagsOf(c)]

-----------------------------------------------------------------------------
(* The DSN: the URL as url.URL.String prints it and url.Parse reads it. *)

NoValues == [k \in Keys |-> Unset]

\* Config.String: the URL as it stands, its query included.
StringOf(c) == [host |-> c.host, path |-> Printed(c.path), user |-> c.user, query |-> c.query]

\* Stringify refreshes the query of the URL, then prints it.
Stringified(c) == [c EXCEPT !.query = c.values]

IsValid(c) == Get(c, "region") # Empty

Parsed(dsn) == [host |-> dsn.host, path |-> dsn.path, user |-> dsn.user,
                query |-> dsn.query, values |-> dsn.query]

-----------------------------------------------------------------------------
(* Constructors. *)

BlankConfig ==
  [host |-> Empty, path |-> NoPath, user |-> Empty, query |-> NoValues,
   values |-> [NoValues EXCEPT !["db"] = DefaultDB,
                               !["region"] = DefaultRegion,
                               !["missingAsEmptyString"] = TRUE,
                               !["WGRemoteCreation"] = TRUE]]

\* Empty credentials are left unset.
DefaultConfig(host, path, region, id, secret) ==
  [BlankConfig EXCEPT !.host = host, !.path = path,
     !.values = [@ EXCEPT !["region"] = region,
                          !["accessID"] = IF id = Empty THEN Unset ELSE id,
                          !["secretAccessKey"] = IF secret = Empty THEN Unset ELSE secret,
                          !["resultPollIntervalSeconds"] = PoolInterval]]

Init ==
  /\ \/ conf = BlankConfig
     \/ \E h \in Hosts, p \in Path, r \in Texts, id \in Strings, secret \in Strings :
          conf = DefaultConfig(h, p, r, id, secret)
     \/ \E d \in Dsns : conf = Parsed(d)
  /\ asked = NoWorkgroup
  /\ granted = NoLimits

-----------------------------------------------------------------------------
(* The setters.  Those that refuse a value leave the Config as it is. *)

Set(k, v) ==
  /\ k \in Touched
  /\ conf' = [conf EXCEPT !.values[k] = v]

SetText(k, t) ==
  /\ k \in Required => t # Empty
  /\ Set(k, t)
  /\ UNCHANGED <<asked, granted>>

SetFlag(k, b) == Set(k, b) /\ UNCHANGED <<asked, granted>>

SetMaskedColumnValue(k, t) == Set(k, t) /\ UNCHANGED <<asked, granted>>

SetResultPollIntervalSeconds(n) ==
  Set("resultPollIntervalSeconds", n) /\ UNCHANGED <<asked, granted>>

SetServiceLimitOverride(limits) ==
  /\ LimitKeys \subseteq Touched
  /\ conf' = [conf EXCEPT !.values["DDLQueryTimeout"] = limits["DDLQueryTimeout"],
                          !.values["DMLQueryTimeout"] = limits["DMLQueryTimeout"]]
  /\ granted' = limits
  /\ UNCHANGED asked

\* One slash ends the bucket and is dropped; the path is what follows it.
SetOutputBucket(host, path) ==
  /\ conf' = [conf EXCEPT !.host = host, !.path = path]
  /\ UNCHANGED <<asked, granted>>

SetUser(t) ==
  /\ conf' = [conf EXCEPT !.user = t]
  /\ UNCHANGED <<asked, granted>>

\* Mutant: the tags go in front of the others.
SetWorkGroupInFront(w) ==
  /\ "tag" \in Touched
  /\ conf' = [conf EXCEPT !.values["workgroupName"] = w.name,
                          !.values["tag"] = IF w.tags = NoTags THEN @ ELSE w.tags \o PairsOf(conf, "tag")]
  /\ asked' = [w EXCEPT !.config = IF @ = NoWGConfig THEN DefaultWGConfig ELSE @]
  /\ UNCHANGED granted

\* The tags are appended to those of the workgroups set before.  A missing
\* configuration is replaced by the default one, in the workgroup itself.
SetWorkGroup(w) ==
  LET config == IF w.config = NoWGConfig THEN DefaultWGConfig ELSE w.config
      tag    == IF w.tags = NoTags THEN conf.values["tag"]
                                   ELSE PairsOf(conf, "tag") \o w.tags
  IN  /\ "tag" \in Touched
      /\ conf' = [conf EXCEPT !.values["workgroupName"] = w.name,
                              !.values["tag"] = tag,
                              !.values["workgroupConfig"] = config]
      /\ asked' = [w EXCEPT !.config = config]
      /\ UNCHANGED granted

SetSessionTag(pair) ==
  /\ Set("sessionTags", Append(PairsOf(conf, "sessionTags"), pair))
  /\ UNCHANGED <<asked, granted>>

\* Mutant: an empty text is stored where a list of pairs belongs.
BlankSessionTags == Set("sessionTags", Empty) /\ UNCHANGED <<asked, granted>>

ClearSessionTags == Set("sessionTags", Unset) /\ UNCHANGED <<asked, granted>>

\* SafeStringify does the same and masks secrets in what it returns.
Stringify ==
  /\ conf' = Stringified(conf)
  /\ UNCHANGED <<asked, granted>>

Next ==
  \/ \E k \in TextKeys, t \in Strings : SetText(k, t)
  \/ \E k \in FlagKeys, b \in BOOLEAN : SetFlag(k, b)
  \/ \E k \in Masks, t \in Strings : SetMaskedColumnValue(k, t)
  \/ \E n \in Numbers : SetResultPollIntervalSeconds(n)
  \/ \E limits \in Overrides : SetServiceLimitOverride(limits)
  \/ \E h \in Hosts, p \in Path : SetOutputBucket(h, p)
  \/ \E t \in Strings : SetUser(t)
  \/ \E w \in Workgroups :
       /\ w.tags # NoTags => Len(PairsOf(conf, "tag")) + Len(w.tags) <= MaxTags
       /\ SetWorkGroup(w)
  \/ \E pair \in Tags :
       /\ Len(PairsOf(conf, "sessionTags")) < MaxTags
       /\ SetSessionTag(pair)
  \/ ClearSessionTags
  \/ Stringify

Spec == Init /\ [][Next]_vars

-----------------------------------------------------------------------------
(* Properties. *)

TypeOK ==
  /\ conf = [host |-> conf.host, path |-> conf.path, user |-> conf.user,
             query |-> conf.query, values |-> conf.values]
  /\ conf.host \in Hosts \cup {Empty}
  /\ conf.path \in Path
  /\ conf.user \in Strings
  /\ IsQuery(conf.query)
  /\ IsQuery(conf.values)
  /\ asked = NoWorkgroup \/ asked \in [name : Strings, tags : {NoTags} \cup Pairs, config : WGConfigs]
  /\ granted = NoLimits \/ granted \in [LimitKeys -> Int]

\* What sql.Open reads from the DSN that Stringify would return now.
Reopened == Parsed(StringOf(Stringified(conf)))

\* A DSN carries every setting: whatever setters were called in whatever
\* order, on a Config built in whatever way, sql.Open accepts the DSN that
\* Stringify returns, and the connections of that handle read from it what the
\* application's own Config would answer (config.go:122-153).
DsnKeepsSettings == IsValid(Reopened) /\ Observed(Reopened) = Observed(conf)

\* The time limits an application was granted are in force on the handle it
\* opens: the decimal in the DSN passes the getter's own check again, negative
\* numbers (no limit at all) included (servicelimitoverride.go:40-86).
GrantedLimitsApply ==
  granted # NoLimits => \A k \in LimitKeys : LimitOf(Reopened, k) = granted[k]

\* Setting a session tag updates one entry of the tags an application has set
\* so far, however the list it is appended to looks (config.go:576-616).
SessionTagIsAdded ==
  [][\A pair \in Tags : SetSessionTag(pair) =>
       SessionTagsOf(conf') =
         {pair} \cup {p \in LastOfEachKey(PairsOf(conf, "sessionTags")) : p[1] # pair[1]}]_vars

\* The workgroup set last is the one that connections of the handle look up, or
\* create: they read its name, and its tags behind those of the workgroups set
\* before, whatever was set since (config.go:241-259, 350-373).
LastWorkgroupIsRead ==
  asked # NoWorkgroup =>
    LET w == WorkgroupOf(Reopened)
    IN  /\ w.name = asked.name
        /\ asked.tags # NoTags =>
             \E n \in 0 .. Len(w.tags) : asked.tags = SubSeq(w.tags, n + 1, Len(w.tags))
=============================================================================
