----------------------------- MODULE Connector -----------------------------
(***************************************************************************)
(* How a connection finds the identity it signs its requests with          *)
(* (go/connector.go, the getters of go/config.go).                         *)
(*                                                                         *)
(* database/sql calls Connect whenever the pool needs another connection.  *)
(* Connect reads environment variables one by one and, on some of its      *)
(* ways, lets the AWS SDK read the shared files ~/.aws/config and          *)
(* ~/.aws/credentials.  Both may change at any time: applications set and  *)
(* unset variables around queries, and people edit files.                  *)
(*                                                                         *)
(* Values are opaque.  A profile in a file is absent, good or broken;      *)
(* broken is whatever makes the SDK refuse to load it.  Regions and the    *)
(* transport settings are left out but for their being malformed, which    *)
(* every way of building a configuration reports.                          *)
(***************************************************************************)
CONSTANTS
  Conns,      \* the connections of a handle
  None,       \* no value
  Default,    \* the profile the SDK takes when none is selected
  Profiles,   \* the names of profiles, Default among them
  OwnKeys,    \* access IDs and secrets that a DSN may hold
  EnvKeys,    \* access IDs and secrets that the environment may hold
  Tokens,     \* session tokens
  Roles       \* ARNs of roles

ASSUME ConnectorAssumption ==
  /\ Default \in Profiles
  /\ None \notin Profiles \cup OwnKeys \cup EnvKeys \cup Tokens \cup Roles

VARIABLES
  config,   \* the handle's Config: what sql.Open parsed, never changed since
  env,      \* the environment of the process
  files,    \* the state of each profile in each shared file
  conn,     \* where each Connect is, and what it has found
  quiet     \* history: connections since whose Connect nothing has changed

vars == <<config, env, files, conn, quiet>>

SharedFiles == {"config", "credentials"}

Configs == [profile : Profiles \cup {None}, id : OwnKeys \cup {None}, secret : OwnKeys \cup {None},
            token : Tokens \cup {None}, role : Roles \cup {None}]

\* load is AWS_SDK_LOAD_CONFIG, profile AWS_PROFILE, web a web identity's token
\* file; malformed is a setting the SDK cannot read, like a missing CA bundle.
Environments == [load : BOOLEAN, profile : Profiles \cup {None}, id : EnvKeys \cup {None},
                 secret : EnvKeys \cup {None}, token : Tokens \cup {None},
                 role : Roles \cup {None}, web : BOOLEAN, malformed : BOOLEAN]

\* Whom requests are signed as: nobody yet, static keys, the entry of a
\* profile, a web identity's role or the role of the machine.
Keys(id, secret, token) == [kind |-> "keys", id |-> id, secret |-> secret, token |-> token]
Profile(p) == [kind |-> "profile", profile |-> p]
Web(role)  == [kind |-> "web", role |-> role]
Machine    == [kind |-> "machine"]
Nobody     == [kind |-> "nobody"]

Identities ==
  {Nobody, Machine} \cup {Profile(p) : p \in Profiles} \cup {Web(r) : r \in Roles}
    \cup [kind : {"keys"}, id : OwnKeys \cup EnvKeys \cup {None},
          secret : OwnKeys \cup EnvKeys \cup {None}, token : Tokens \cup {None}]

\* basis signs the requests, or the request for the role when there is one.
NewConnect == [pc |-> "new", way |-> "none", role |-> None, basis |-> Nobody, error |-> "none"]

-----------------------------------------------------------------------------
(* The getters: the Config first, then the environment. *)

GetRoleArn         == IF config.role # None THEN config.role ELSE env.role
GetAccessID        == IF config.id # None THEN config.id ELSE env.id
GetSecretAccessKey == IF config.secret # None THEN config.secret ELSE env.secret
GetSessionToken    == IF config.token # None THEN config.token ELSE env.token

-----------------------------------------------------------------------------
(* LoadDefaultConfig of the SDK, with a profile asked for (or None) and the *)
(* shared files it may read.                                                *)

Selected(asked) == IF asked # None THEN asked
                   ELSE IF env.profile # None THEN env.profile ELSE Default

HasEnvKeys == env.id # None /\ env.secret # None

Known(p, read) == \E f \in read : files[f][p] = "good"

\* A profile that was selected by name has to exist.
ProfileFails(asked, read) ==
  \/ \E f \in read : files[f][Selected(asked)] = "broken"
  \/ (asked # None \/ env.profile # None) /\ ~Known(Selected(asked), read)

\* A web identity needs the role it stands for.
EnvironmentFails(asked) ==
  env.malformed \/ (asked = None /\ ~HasEnvKeys /\ env.web /\ env.role = None)

LoadFails(asked, read) == EnvironmentFails(asked) \/ ProfileFails(asked, read)

LoadError(asked) == IF EnvironmentFails(asked) THEN "environment" ELSE "profile"

ChainIdentity(asked, read) ==
  CASE asked # None -> Profile(asked)
    [] asked = None /\ HasEnvKeys -> Keys(env.id, env.secret, env.token)
    [] asked = None /\ ~HasEnvKeys /\ env.web -> Web(env.role)
    [] OTHER -> IF Known(Selected(asked), read) THEN Profile(Selected(asked)) ELSE Machine

-----------------------------------------------------------------------------
Init ==
  /\ config \in Configs
  /\ env = [load |-> FALSE, profile |-> None, id |-> None, secret |-> None, token |-> None,
            role |-> None, web |-> FALSE, malformed |-> FALSE]
  /\ files \in [SharedFiles -> [Profiles -> {"absent", "good", "broken"}]]
  /\ conn = [c \in Conns |-> NewConnect]
  /\ quiet = {}

Moves(c, how) == conn' = [conn EXCEPT ![c] = how] /\ UNCHANGED <<config, env, files>>

Fail(c, error) ==
  Moves(c, [conn[c] EXCEPT !.pc = "failed", !.error = error]) /\ UNCHANGED quiet

\* Connect looks at AWS_SDK_LOAD_CONFIG, then at the role, then at the access ID.
Connect(c) ==
  /\ conn[c].pc = "new"
  /\ Moves(c, IF env.load THEN [NewConnect EXCEPT !.pc = "shared", !.way = "shared"]
              ELSE [NewConnect EXCEPT !.pc = "askRole"])
  /\ quiet' = quiet \cup {c}

AskRole(c) ==
  /\ conn[c].pc = "askRole"
  /\ Moves(c, IF GetRoleArn # None
              THEN [conn[c] EXCEPT !.pc = "role", !.way = "role", !.role = GetRoleArn]
              ELSE [conn[c] EXCEPT !.pc = "askKeys"])
  /\ UNCHANGED quiet

KeysOrChain == IF GetAccessID # None THEN "keys" ELSE "chain"

AskKeys(c) ==
  /\ conn[c].pc = "askKeys"
  /\ Moves(c, [conn[c] EXCEPT !.pc = KeysOrChain, !.way = KeysOrChain])
  /\ UNCHANGED quiet

\* AWS_SDK_LOAD_CONFIG is set: the SDK decides, the Config may name a profile.
LoadShared(c) ==
  /\ conn[c].pc = "shared"
  /\ LET asked == config.profile
     IN  IF LoadFails(asked, SharedFiles)
         THEN Fail(c, LoadError(asked))
         ELSE /\ Moves(c, [conn[c] EXCEPT !.pc = "connected",
                                          !.basis = ChainIdentity(asked, SharedFiles)])
              /\ UNCHANGED quiet

\* createBaseConfig: who asks for the role.
CreateBaseConfig(c) ==
  /\ conn[c].pc = "role"
  /\ Moves(c, [conn[c] EXCEPT !.pc = KeysOrChain])
  /\ UNCHANGED quiet

\* Mutant: two arguments change places.
SwappedKeys == Keys(GetAccessID, GetSessionToken, GetSecretAccessKey)

\* NewStaticCredentialsProvider of what the getters answer now.
StaticKeys == Keys(GetAccessID, GetSecretAccessKey, GetSessionToken)

StaticCredentials(c) ==
  /\ conn[c].pc = "keys"
  /\ Moves(c, [conn[c] EXCEPT !.pc = "env", !.basis = StaticKeys])
  /\ UNCHANGED quiet

\* Mutant: the base configuration of a role is taken for the whole.
AfterBaseAlone(c) == "connected"

\* The base configuration is ready: with a role, the connection's own follows.
AfterBase(c) == IF conn[c].role # None THEN "assume" ELSE "connected"

\* Mutant: a configuration with credentials of its own goes through the SDK's
\* loader, which reads the shared files.
LoaderError == IF LoadFails(None, SharedFiles) THEN LoadError(None) ELSE "none"

\* configFromEnv fails on what it cannot read in the environment.
ConfigFromEnvError == IF env.malformed THEN "environment" ELSE "none"

\* loadConfigWithCredentials: the rest of the configuration is in place, or not.
LoadWithCredentials(c, next) ==
  IF ConfigFromEnvError # "none"
  THEN Fail(c, ConfigFromEnvError)
  ELSE Moves(c, [conn[c] EXCEPT !.pc = next]) /\ UNCHANGED quiet

LoadWithKeys(c) == conn[c].pc = "env" /\ LoadWithCredentials(c, AfterBase(c))

AssumeRole(c) == conn[c].pc = "assume" /\ LoadWithCredentials(c, "connected")

\* Mutant: the first failure is final.
OnChainFailureFinal(c, error) == [conn[c] EXCEPT !.pc = "failed", !.error = error]

\* The first load failed: its error is kept for the case that the second does.
OnChainFailure(c, error) == [conn[c] EXCEPT !.pc = "retry", !.error = error]

\* loadDefaultChainConfig, first attempt.
LoadChain(c) ==
  /\ conn[c].pc = "chain"
  /\ IF LoadFails(None, SharedFiles)
     THEN Moves(c, OnChainFailure(c, LoadError(None)))
     ELSE Moves(c, [conn[c] EXCEPT !.pc = AfterBase(c),
                                   !.basis = ChainIdentity(None, SharedFiles)])
  /\ UNCHANGED quiet

\* Mutant: neither shared file is read the second time.
NoFile == {}

\* The files of the second attempt.
KeptFiles == {"credentials"}

\* loadDefaultChainConfig, second attempt.
RetryChain(c) ==
  /\ conn[c].pc = "retry"
  /\ IF LoadFails(None, KeptFiles)
     THEN Fail(c, conn[c].error)
     ELSE /\ Moves(c, [conn[c] EXCEPT !.pc = AfterBase(c), !.error = "none",
                                      !.basis = ChainIdentity(None, KeptFiles)])
          /\ UNCHANGED quiet

\* The pool lets the connection go, or its caller tries again.
Discard(c) ==
  /\ conn[c].pc \in {"connected", "failed"}
  /\ Moves(c, NewConnect)
  /\ quiet' = quiet \ {c}

-----------------------------------------------------------------------------
(* The world around. *)

Setenv ==
  /\ \/ \E b \in BOOLEAN : \/ env' = [env EXCEPT !.load = b]
                           \/ env' = [env EXCEPT !.web = b]
                           \/ env' = [env EXCEPT !.malformed = b]
     \/ \E p \in Profiles \cup {None} : env' = [env EXCEPT !.profile = p]
     \/ \E k \in EnvKeys \cup {None} : \/ env' = [env EXCEPT !.id = k]
                                       \/ env' = [env EXCEPT !.secret = k]
     \/ \E t \in Tokens \cup {None} : env' = [env EXCEPT !.token = t]
     \/ \E r \in Roles \cup {None} : env' = [env EXCEPT !.role = r]
  /\ quiet' = {}
  /\ UNCHANGED <<config, files, conn>>

EditFile ==
  /\ \E f \in SharedFiles, p \in Profiles, s \in {"absent", "good", "broken"} :
       files' = [files EXCEPT ![f][p] = s]
  /\ quiet' = {}
  /\ UNCHANGED <<config, env, conn>>

Step(c) ==
  \/ Connect(c) \/ AskRole(c) \/ AskKeys(c)
  \/ LoadShared(c) \/ CreateBaseConfig(c) \/ StaticCredentials(c)
  \/ LoadWithKeys(c) \/ AssumeRole(c) \/ LoadChain(c) \/ RetryChain(c) \/ Discard(c)

Next == (\E c \in Conns : Step(c)) \/ Setenv \/ EditFile

Spec == Init /\ [][Next]_vars

-----------------------------------------------------------------------------
(* Properties. *)

TypeOK ==
  /\ config \in Configs
  /\ env \in Environments
  /\ files \in [SharedFiles -> [Profiles -> {"absent", "good", "broken"}]]
  /\ conn \in [Conns ->
       [pc : {"new", "askRole", "askKeys", "shared", "role", "keys", "env", "assume", "chain",
              "retry", "connected", "failed"},
        way : {"none", "shared", "role", "keys", "chain"}, role : Roles \cup {None},
        basis : Identities, error : {"none", "environment", "profile"}]]
  /\ quiet \subseteq Conns

\* Explicit credentials never depend on the shared files (connector.go:160-175):
\* a DSN with an access ID connects, with or without a role, whatever profile is
\* selected, absent or broken, and however often that changes, unless
\* AWS_SDK_LOAD_CONFIG was set when Connect began.
ExplicitNeverBlocked ==
  \A c \in Conns : config.id # None /\ conn[c].way # "shared" => conn[c].error # "profile"

\* "Ambient shared configuration cannot block a connection whose credentials
\* are meant to come from the environment or an instance/container role"
\* (connector.go:342-351): while nothing changes, a Connect that goes through
\* the default chain fails only for what is malformed in the environment, or for
\* a selected profile that ~/.aws/credentials alone cannot serve either.
ConfigFileNeverBlocks ==
  \A c \in quiet :
    conn[c].pc = "failed" /\ conn[c].way # "shared" =>
      \/ EnvironmentFails(None)
      \/ files["credentials"][Selected(None)] = "broken"
      \/ env.profile # None /\ files["credentials"][env.profile] # "good"

\* A profile of ~/.aws/credentials "must keep authenticating" (connector.go:
\* 345-348): while nothing changes, a connection whose identity, or whose base
\* for the role, is left to the default chain signs as the selected profile if
\* that file has it, be ~/.aws/config broken or not.
CredentialsFileCounts ==
  \A c \in quiet :
    /\ conn[c].pc = "connected"
    /\ conn[c].way # "shared"
    /\ GetAccessID = None
    /\ ~env.web
    /\ files["credentials"][Selected(None)] = "good"
    => conn[c].basis = Profile(Selected(None))

\* A connection whose Config names a role is made with that role, whoever asks
\* for it and whatever failed on the way (connector.go:99-128).
RoleIsAssumed ==
  [][\A c \in Conns : conn[c].pc # "connected" /\ conn'[c].pc = "connected" =>
       \/ conn'[c].way = "shared"
       \/ config.role = None
       \/ conn[c].pc = "assume" /\ conn[c].role = config.role]_vars
=============================================================================
