-------------------------- MODULE ConnectorProofs --------------------------
(***************************************************************************)
(* Proofs about Connector, for any connections, profiles, keys and roles.  *)
(*                                                                         *)
(* Connections do not look at one another, so the inductive invariant is a *)
(* conjunction over them: what the way a Connect took says about the       *)
(* Config, and, while nothing has changed since it began, what its outcome *)
(* says about the environment and the files as they are.                   *)
(***************************************************************************)
EXTENDS Connector, TLAPS

\* Where a Connect is agrees with the way it took.
WayInv(c) ==
  /\ conn[c].pc \in {"new", "askRole", "askKeys"} =>
       conn[c].way = "none" /\ conn[c].error = "none"
  /\ conn[c].pc = "shared" => conn[c].way = "shared"
  /\ conn[c].pc = "retry" => conn[c].error # "none"

\* With an access ID in the Config the default chain is never entered.
ExplicitInv(c) ==
  config.id # None =>
    /\ conn[c].pc \notin {"chain", "retry"}
    /\ conn[c].way # "shared" => conn[c].error # "profile"

\* With a role in the Config it is kept until it is assumed.
RoleInv(c) ==
  config.role # None /\ conn[c].pc \notin {"new", "askRole"} /\ conn[c].way # "shared" =>
    conn[c].role = config.role

\* What lets the second load of the default chain fail.
ChainBlocked ==
  \/ EnvironmentFails(None)
  \/ files["credentials"][Selected(None)] = "broken"
  \/ env.profile # None /\ files["credentials"][env.profile] # "good"

\* What the default chain finds when there are no keys and ~/.aws/credentials
\* has the selected profile.
ChainServes(c) ==
  ~env.web /\ files["credentials"][Selected(None)] = "good" =>
    conn[c].basis = Profile(Selected(None))

QuietInv(c) ==
  c \in quiet /\ conn[c].way # "shared" =>
    /\ conn[c].pc = "failed" => ChainBlocked
    /\ GetAccessID = None =>
         /\ conn[c].pc \notin {"keys", "env"}
         /\ conn[c].pc \in {"assume", "connected"} => ChainServes(c)

ConnInv(c) == WayInv(c) /\ ExplicitInv(c) /\ RoleInv(c) /\ QuietInv(c)

IInv == TypeOK /\ \A c \in Conns : ConnInv(c)

USE ConnectorAssumption

-----------------------------------------------------------------------------
(* Operators. *)

LEMMA LoadedIsIdentity ==
  ASSUME TypeOK, NEW asked \in Profiles \cup {None}, NEW read, ~EnvironmentFails(asked)
  PROVE  ChainIdentity(asked, read) \in Identities
<1>1. Selected(asked) \in Profiles
  BY DEF Selected, TypeOK, Environments
<1>2. CASE asked # None
  BY <1>2 DEF ChainIdentity, Identities
<1>3. CASE asked = None /\ HasEnvKeys
  <2>1. /\ env.id \in OwnKeys \cup EnvKeys \cup {None}
        /\ env.secret \in OwnKeys \cup EnvKeys \cup {None}
        /\ env.token \in Tokens \cup {None}
    BY DEF TypeOK, Environments
  <2>2. ChainIdentity(asked, read) = Keys(env.id, env.secret, env.token)
    BY <1>3 DEF ChainIdentity
  <2>3. QED
    BY <2>1, <2>2 DEF Identities, Keys
<1>4. CASE asked = None /\ ~HasEnvKeys /\ env.web
  <2>1. env.role \in Roles
    BY <1>4 DEF EnvironmentFails, TypeOK, Environments
  <2>2. QED
    BY <1>4, <2>1 DEF ChainIdentity, Identities
<1>5. CASE asked = None /\ ~HasEnvKeys /\ ~env.web
  BY <1>1, <1>5 DEF ChainIdentity, Identities
<1>6. QED
  BY <1>2, <1>3, <1>4, <1>5

LEMMA StaticIsIdentity == TypeOK => StaticKeys \in Identities
<1>1. ASSUME TypeOK
      PROVE  /\ GetAccessID \in OwnKeys \cup EnvKeys \cup {None}
             /\ GetSecretAccessKey \in OwnKeys \cup EnvKeys \cup {None}
             /\ GetSessionToken \in Tokens \cup {None}
  BY <1>1 DEF TypeOK, Configs, Environments, GetAccessID, GetSecretAccessKey, GetSessionToken
<1>2. QED
  BY <1>1 DEF StaticKeys, Keys, Identities

\* A good profile in a file that is read is what the chain finds.
LEMMA ServedByFile ==
  ASSUME TypeOK, NEW read, "credentials" \in read, GetAccessID = None, ~env.web,
         files["credentials"][Selected(None)] = "good"
  PROVE  ChainIdentity(None, read) = Profile(Selected(None))
<1>1. env.id = None
  BY DEF GetAccessID
<1>2. ~HasEnvKeys
  BY <1>1 DEF HasEnvKeys
<1>3. Known(Selected(None), read)
  BY DEF Known
<1>4. QED
  BY <1>2, <1>3 DEF ChainIdentity

\* The second load fails only for what ConfigFileNeverBlocks names.
LEMMA BlockedMeans == LoadFails(None, KeptFiles) => ChainBlocked
BY DEF LoadFails, ChainBlocked, ProfileFails, KeptFiles, Known, Selected

-----------------------------------------------------------------------------
(* The world around leaves the Connects alone and ends every quiet. *)

LEMMA InitInv == Init => IInv
<1>1. Init => TypeOK
  BY DEF Init, TypeOK, Environments, NewConnect, Identities
<1>2. ASSUME Init, NEW c \in Conns
      PROVE  ConnInv(c)
  <2>1. conn[c] = NewConnect /\ c \notin quiet
    BY <1>2 DEF Init
  <2>2. conn[c].pc = "new" /\ conn[c].way = "none" /\ conn[c].error = "none"
    BY <2>1 DEF NewConnect
  <2>3. QED
    BY <2>1, <2>2 DEF ConnInv, WayInv, ExplicitInv, RoleInv, QuietInv
<1>3. QED
  BY <1>1, <1>2 DEF IInv

LEMMA NoisyKeeps ==
  ASSUME IInv, config' = config, conn' = conn, quiet' = {}, NEW c \in Conns
  PROVE  ConnInv(c)'
BY DEF IInv, ConnInv, WayInv, ExplicitInv, RoleInv, QuietInv

LEMMA SetenvInv == IInv /\ Setenv => IInv'
<1>1. SUFFICES ASSUME IInv, Setenv
               PROVE  IInv'
  OBVIOUS
<1>2. env' \in Environments
  BY <1>1 DEF Setenv, IInv, TypeOK, Environments
<1>3. TypeOK'
  BY <1>1, <1>2 DEF Setenv, IInv, TypeOK
<1>4. QED
  BY <1>1, <1>3, NoisyKeeps DEF Setenv, IInv

LEMMA EditFileInv == IInv /\ EditFile => IInv'
<1>1. SUFFICES ASSUME IInv, EditFile
               PROVE  IInv'
  OBVIOUS
<1>2. files' \in [SharedFiles -> [Profiles -> {"absent", "good", "broken"}]]
  BY <1>1 DEF EditFile, IInv, TypeOK
<1>3. TypeOK'
  BY <1>1, <1>2 DEF EditFile, IInv, TypeOK
<1>4. QED
  BY <1>1, <1>3, NoisyKeeps DEF EditFile, IInv

-----------------------------------------------------------------------------
(* The steps of a Connect. *)

\* The type of one Connect, apart from the connection it belongs to.
ConnType ==
  [pc : {"new", "askRole", "askKeys", "shared", "role", "keys", "env", "assume", "chain",
         "retry", "connected", "failed"},
   way : {"none", "shared", "role", "keys", "chain"}, role : Roles \cup {None},
   basis : Identities, error : {"none", "environment", "profile"}]

\* A step of one connection that keeps its own invariant keeps them all.
LEMMA MovesKeep ==
  ASSUME IInv, NEW c \in Conns, NEW how \in ConnType, Moves(c, how),
         quiet' \subseteq Conns, quiet' \ {c} = quiet \ {c}, ConnInv(c)'
  PROVE  IInv'
<1>1. conn' \in [Conns -> ConnType] /\ \A d \in Conns \ {c} : conn'[d] = conn[d]
  BY DEF Moves, IInv, TypeOK, ConnType
<1>2. TypeOK'
  BY <1>1 DEF Moves, IInv, TypeOK, ConnType
<1>3. ASSUME NEW d \in Conns, d # c
      PROVE  ConnInv(d)'
  <2>1. conn'[d] = conn[d] /\ (d \in quiet' <=> d \in quiet)
    BY <1>1, <1>3
  <2>2. config' = config /\ env' = env /\ files' = files
    BY DEF Moves
  <2>3. ConnInv(d)
    BY DEF IInv
  <2>4. QED
    BY <2>1, <2>2, <2>3 DEF ConnInv, WayInv, ExplicitInv, RoleInv, QuietInv, ChainBlocked,
       ChainServes, EnvironmentFails, Selected, HasEnvKeys, GetAccessID
<1>4. QED
  BY <1>2, <1>3 DEF IInv

\* A step that changes nothing around: the operators keep their values.
LEMMA SameWorld ==
  ASSUME NEW c, NEW how, Moves(c, how)
  PROVE  /\ config' = config /\ env' = env /\ files' = files
         /\ GetAccessID' = GetAccessID
         /\ ChainBlocked' = ChainBlocked
         /\ Selected(None)' = Selected(None)
BY DEF Moves, GetAccessID, ChainBlocked, EnvironmentFails, Selected, HasEnvKeys

LEMMA ConnectInv ==
  ASSUME IInv, NEW c \in Conns, Connect(c)
  PROVE  IInv'
<1> DEFINE how == IF env.load THEN [NewConnect EXCEPT !.pc = "shared", !.way = "shared"]
                  ELSE [NewConnect EXCEPT !.pc = "askRole"]
<1>1. Moves(c, how) /\ quiet' = quiet \cup {c}
  BY DEF Connect
<1>2. /\ how \in ConnType /\ how.error = "none"
      /\ \/ how.pc = "shared" /\ how.way = "shared"
         \/ how.pc = "askRole" /\ how.way = "none"
  BY DEF ConnType, NewConnect, Identities
<1> HIDE DEF how
<1>3. conn'[c] = how
  BY <1>1 DEF Moves, IInv, TypeOK
<1>4. ConnInv(c)'
  BY <1>1, <1>2, <1>3, SameWorld DEF ConnInv, WayInv, ExplicitInv, RoleInv, QuietInv
<1>5. quiet' \subseteq Conns /\ quiet' \ {c} = quiet \ {c}
  BY <1>1 DEF IInv, TypeOK
<1>6. QED
  BY <1>1, <1>2, <1>4, <1>5, MovesKeep

LEMMA AskRoleInv ==
  ASSUME IInv, NEW c \in Conns, AskRole(c)
  PROVE  IInv'
<1> DEFINE how == IF GetRoleArn # None
                  THEN [conn[c] EXCEPT !.pc = "role", !.way = "role", !.role = GetRoleArn]
                  ELSE [conn[c] EXCEPT !.pc = "askKeys"]
<1>1. Moves(c, how) /\ quiet' = quiet /\ conn[c].pc = "askRole"
  BY DEF AskRole
<1>2. conn[c] \in ConnType /\ GetRoleArn \in Roles \cup {None}
  BY DEF GetRoleArn, IInv, TypeOK, ConnType, Configs, Environments
<1>3. config.role # None => GetRoleArn = config.role
  BY DEF GetRoleArn
<1>4. /\ how \in ConnType /\ how.error = conn[c].error
      /\ \/ how.pc = "role" /\ how.way = "role" /\ how.role = GetRoleArn
         \/ how.pc = "askKeys" /\ how.way = conn[c].way /\ config.role = None
  BY <1>2, <1>3 DEF ConnType
<1> HIDE DEF how
<1>5. conn'[c] = how
  BY <1>1 DEF Moves, IInv, TypeOK
<1>6. ConnInv(c)
  BY DEF IInv
<1>7. ConnInv(c)'
  BY <1>1, <1>3, <1>4, <1>5, <1>6, SameWorld DEF ConnInv, WayInv, ExplicitInv, RoleInv, QuietInv
<1>8. QED
  BY <1>1, <1>4, <1>7, MovesKeep DEF IInv, TypeOK

\* Static keys are taken exactly when there is an access ID.
LEMMA KeysOrChainIs ==
  /\ KeysOrChain \in {"keys", "chain"}
  /\ KeysOrChain = "keys" <=> GetAccessID # None
  /\ config.id # None => KeysOrChain = "keys"
BY DEF KeysOrChain, GetAccessID

LEMMA AskKeysInv ==
  ASSUME IInv, NEW c \in Conns, AskKeys(c)
  PROVE  IInv'
<1> DEFINE how == [conn[c] EXCEPT !.pc = KeysOrChain, !.way = KeysOrChain]
<1>1. Moves(c, how) /\ quiet' = quiet /\ conn[c].pc = "askKeys"
  BY DEF AskKeys
<1>2. conn[c] \in ConnType
  BY DEF IInv, TypeOK, ConnType
<1>3. /\ how \in ConnType
      /\ how.pc = KeysOrChain /\ how.way = KeysOrChain
      /\ how.error = conn[c].error /\ how.role = conn[c].role
  BY <1>2, KeysOrChainIs DEF ConnType
<1> HIDE DEF how
<1>4. conn'[c] = how
  BY <1>1 DEF Moves, IInv, TypeOK
<1>5. ConnInv(c)
  BY DEF IInv
<1>6. ConnInv(c)'
  BY <1>1, <1>3, <1>4, <1>5, KeysOrChainIs, SameWorld
     DEF ConnInv, WayInv, ExplicitInv, RoleInv, QuietInv
<1>7. QED
  BY <1>1, <1>3, <1>6, MovesKeep DEF IInv, TypeOK

\* A Connect that fails, of whatever way.
LEMMA FailInv ==
  ASSUME IInv, NEW c \in Conns, NEW error \in {"environment", "profile"}, Fail(c, error),
         conn[c].pc \notin {"new", "askRole"},
         config.id # None /\ conn[c].way # "shared" => error # "profile",
         conn[c].way # "shared" => ChainBlocked
  PROVE  IInv'
<1> DEFINE how == [conn[c] EXCEPT !.pc = "failed", !.error = error]
<1>1. Moves(c, how) /\ quiet' = quiet
  BY DEF Fail
<1>2. conn[c] \in ConnType
  BY DEF IInv, TypeOK, ConnType
<1>3. /\ how \in ConnType
      /\ how.pc = "failed" /\ how.error = error
      /\ how.way = conn[c].way /\ how.role = conn[c].role
  BY <1>2 DEF ConnType
<1> HIDE DEF how
<1>4. conn'[c] = how
  BY <1>1 DEF Moves, IInv, TypeOK
<1>5. ConnInv(c)
  BY DEF IInv
<1>6. ConnInv(c)'
  BY <1>1, <1>3, <1>4, <1>5, SameWorld DEF ConnInv, WayInv, ExplicitInv, RoleInv, QuietInv
<1>7. QED
  BY <1>1, <1>3, <1>6, MovesKeep DEF IInv, TypeOK

LEMMA LoadSharedInv ==
  ASSUME IInv, NEW c \in Conns, LoadShared(c)
  PROVE  IInv'
<1> DEFINE asked == config.profile
           how == [conn[c] EXCEPT !.pc = "connected", !.basis = ChainIdentity(asked, SharedFiles)]
<1>1. conn[c].pc = "shared" /\ conn[c].way = "shared"
  BY DEF LoadShared, IInv, ConnInv, WayInv
<1>2. asked \in Profiles \cup {None}
  BY DEF IInv, TypeOK, Configs
<1>3. CASE LoadFails(asked, SharedFiles)
  <2>1. LoadError(asked) \in {"environment", "profile"}
    BY DEF LoadError
  <2>2. Fail(c, LoadError(asked))
    BY <1>3 DEF LoadShared
  <2>3. QED
    BY <1>1, <2>1, <2>2, FailInv
<1>4. CASE ~LoadFails(asked, SharedFiles)
  <2>1. ChainIdentity(asked, SharedFiles) \in Identities
    BY <1>2, <1>4, LoadedIsIdentity DEF LoadFails, IInv
  <2>2. Moves(c, how) /\ quiet' = quiet
    BY <1>4 DEF LoadShared
  <2>3. conn[c] \in ConnType
    BY DEF IInv, TypeOK, ConnType
  <2>4. how \in ConnType /\ how.pc = "connected" /\ how.way = "shared"
    BY <1>1, <2>1, <2>3 DEF ConnType
  <2> HIDE DEF how
  <2>5. conn'[c] = how
    BY <2>2 DEF Moves, IInv, TypeOK
  <2>6. ConnInv(c)'
    BY <2>4, <2>5 DEF ConnInv, WayInv, ExplicitInv, RoleInv, QuietInv
  <2>7. QED
    BY <2>2, <2>4, <2>6, MovesKeep DEF IInv, TypeOK
<1>5. QED
  BY <1>3, <1>4

LEMMA CreateBaseConfigInv ==
  ASSUME IInv, NEW c \in Conns, CreateBaseConfig(c)
  PROVE  IInv'
<1> DEFINE how == [conn[c] EXCEPT !.pc = KeysOrChain]
<1>1. Moves(c, how) /\ quiet' = quiet /\ conn[c].pc = "role"
  BY DEF CreateBaseConfig
<1>2. conn[c] \in ConnType
  BY DEF IInv, TypeOK, ConnType
<1>3. /\ how \in ConnType
      /\ how.pc = KeysOrChain /\ how.error = conn[c].error
      /\ how.way = conn[c].way /\ how.role = conn[c].role
  BY <1>2, KeysOrChainIs DEF ConnType
<1> HIDE DEF how
<1>4. conn'[c] = how
  BY <1>1 DEF Moves, IInv, TypeOK
<1>5. ConnInv(c)
  BY DEF IInv
<1>6. ConnInv(c)'
  BY <1>1, <1>3, <1>4, <1>5, KeysOrChainIs, SameWorld
     DEF ConnInv, WayInv, ExplicitInv, RoleInv, QuietInv
<1>7. QED
  BY <1>1, <1>3, <1>6, MovesKeep DEF IInv, TypeOK

LEMMA StaticCredentialsInv ==
  ASSUME IInv, NEW c \in Conns, StaticCredentials(c)
  PROVE  IInv'
<1> DEFINE how == [conn[c] EXCEPT !.pc = "env", !.basis = StaticKeys]
<1>1. Moves(c, how) /\ quiet' = quiet /\ conn[c].pc = "keys"
  BY DEF StaticCredentials
<1>2. conn[c] \in ConnType /\ StaticKeys \in Identities
  BY StaticIsIdentity DEF IInv, TypeOK, ConnType
<1>3. /\ how \in ConnType
      /\ how.pc = "env" /\ how.error = conn[c].error
      /\ how.way = conn[c].way /\ how.role = conn[c].role
  BY <1>2 DEF ConnType
<1> HIDE DEF how
<1>4. conn'[c] = how
  BY <1>1 DEF Moves, IInv, TypeOK
<1>5. ConnInv(c)
  BY DEF IInv
<1>6. ConnInv(c)'
  BY <1>1, <1>3, <1>4, <1>5, SameWorld DEF ConnInv, WayInv, ExplicitInv, RoleInv, QuietInv
<1>7. QED
  BY <1>1, <1>3, <1>6, MovesKeep DEF IInv, TypeOK

\* A configuration with credentials of its own: those of the role keep the
\* basis that was found, static keys are their own.
LEMMA LoadWithCredentialsInv ==
  ASSUME IInv, NEW c \in Conns, NEW next \in {"assume", "connected"},
         LoadWithCredentials(c, next), conn[c].pc \in {"env", "assume"}
  PROVE  IInv'
<1>1. CASE ConfigFromEnvError # "none"
  <2>1. ConfigFromEnvError = "environment" /\ ChainBlocked
    BY <1>1 DEF ConfigFromEnvError, ChainBlocked, EnvironmentFails
  <2>2. Fail(c, "environment")
    BY <1>1, <2>1 DEF LoadWithCredentials
  <2>3. QED
    BY <2>1, <2>2, FailInv
<1>2. CASE ConfigFromEnvError = "none"
  <2> DEFINE how == [conn[c] EXCEPT !.pc = next]
  <2>1. Moves(c, how) /\ quiet' = quiet
    BY <1>2 DEF LoadWithCredentials
  <2>2. conn[c] \in ConnType
    BY DEF IInv, TypeOK, ConnType
  <2>3. /\ how \in ConnType
        /\ how.pc = next /\ how.error = conn[c].error /\ how.basis = conn[c].basis
        /\ how.way = conn[c].way /\ how.role = conn[c].role
    BY <2>2 DEF ConnType
  <2> HIDE DEF how
  <2>4. conn'[c] = how
    BY <2>1 DEF Moves, IInv, TypeOK
  <2>5. ConnInv(c)
    BY DEF IInv
  <2>6. ChainServes(c) => ChainServes(c)'
    BY <2>1, <2>3, <2>4, SameWorld DEF ChainServes
  <2>7. ConnInv(c)'
    BY <2>1, <2>3, <2>4, <2>5, <2>6, SameWorld
       DEF ConnInv, WayInv, ExplicitInv, RoleInv, QuietInv
  <2>8. QED
    BY <2>1, <2>3, <2>7, MovesKeep DEF IInv, TypeOK
<1>3. QED
  BY <1>1, <1>2

\* The default chain is loaded, the first time or the second.
LEMMA ChainLoadedInv ==
  ASSUME IInv, NEW c \in Conns, NEW read, "credentials" \in read, ~LoadFails(None, read),
         conn[c].pc \in {"chain", "retry"}, NEW error \in {conn[c].error, "none"},
         Moves(c, [conn[c] EXCEPT !.pc = AfterBase(c), !.error = error,
                                  !.basis = ChainIdentity(None, read)]),
         quiet' = quiet
  PROVE  IInv'
<1> DEFINE how == [conn[c] EXCEPT !.pc = AfterBase(c), !.error = error,
                                  !.basis = ChainIdentity(None, read)]
<1>1. ChainIdentity(None, read) \in Identities
  BY LoadedIsIdentity DEF LoadFails, IInv
<1>2. conn[c] \in ConnType /\ AfterBase(c) \in {"assume", "connected"}
  BY DEF IInv, TypeOK, ConnType, AfterBase
<1>3. /\ how \in ConnType
      /\ how.pc = AfterBase(c) /\ how.error = error /\ how.basis = ChainIdentity(None, read)
      /\ how.way = conn[c].way /\ how.role = conn[c].role
  BY <1>1, <1>2 DEF ConnType
<1>4. Moves(c, how)
  OBVIOUS
<1> HIDE DEF how
<1>5. conn'[c] = how
  BY <1>4 DEF Moves, IInv, TypeOK
<1>6. ConnInv(c)
  BY DEF IInv
<1>7. GetAccessID = None => ChainServes(c)'
  BY <1>3, <1>4, <1>5, SameWorld, ServedByFile DEF ChainServes, IInv
<1>8. ConnInv(c)'
  BY <1>2, <1>3, <1>4, <1>5, <1>6, <1>7, SameWorld
     DEF ConnInv, WayInv, ExplicitInv, RoleInv, QuietInv
<1>9. QED
  BY <1>3, <1>4, <1>8, MovesKeep DEF IInv, TypeOK

LEMMA LoadChainInv ==
  ASSUME IInv, NEW c \in Conns, LoadChain(c)
  PROVE  IInv'
<1>1. conn[c] \in ConnType /\ conn[c].pc = "chain" /\ quiet' = quiet /\ ConnInv(c)
  BY DEF LoadChain, IInv, TypeOK, ConnType
<1>2. CASE LoadFails(None, SharedFiles)
  <2> DEFINE how == [conn[c] EXCEPT !.pc = "retry", !.error = LoadError(None)]
  <2>1. Moves(c, how)
    BY <1>2 DEF LoadChain, OnChainFailure
  <2>2. LoadError(None) \in {"environment", "profile"}
    BY DEF LoadError
  <2>3. /\ how \in ConnType /\ how.pc = "retry" /\ how.error = LoadError(None)
        /\ how.way = conn[c].way /\ how.role = conn[c].role
    BY <1>1, <2>2 DEF ConnType
  <2> HIDE DEF how
  <2>4. conn'[c] = how
    BY <2>1 DEF Moves, IInv, TypeOK
  <2>5. config.id = None
    BY <1>1 DEF ConnInv, ExplicitInv
  <2>6. ConnInv(c)'
    BY <1>1, <2>1, <2>2, <2>3, <2>4, <2>5, SameWorld
       DEF ConnInv, WayInv, ExplicitInv, RoleInv, QuietInv
  <2>7. QED
    BY <1>1, <2>1, <2>3, <2>6, MovesKeep DEF IInv, TypeOK
<1>3. CASE ~LoadFails(None, SharedFiles)
  <2> DEFINE how == [conn[c] EXCEPT !.pc = AfterBase(c), !.error = conn[c].error,
                                    !.basis = ChainIdentity(None, SharedFiles)]
  <2>1. how = [conn[c] EXCEPT !.pc = AfterBase(c), !.basis = ChainIdentity(None, SharedFiles)]
    BY <1>1 DEF ConnType
  <2>2. Moves(c, how)
    BY <1>3, <2>1 DEF LoadChain
  <2>3. "credentials" \in SharedFiles
    BY DEF SharedFiles
  <2>4. QED
    BY <1>1, <1>3, <2>2, <2>3, ChainLoadedInv
<1>4. QED
  BY <1>2, <1>3

LEMMA RetryChainInv ==
  ASSUME IInv, NEW c \in Conns, RetryChain(c)
  PROVE  IInv'
<1>1. conn[c] \in ConnType /\ conn[c].pc = "retry" /\ ConnInv(c)
  BY DEF RetryChain, IInv, TypeOK, ConnType
<1>2. CASE LoadFails(None, KeptFiles)
  <2>1. conn[c].error \in {"environment", "profile"} /\ config.id = None
    BY <1>1 DEF ConnType, ConnInv, WayInv, ExplicitInv
  <2>2. Fail(c, conn[c].error)
    BY <1>2 DEF RetryChain
  <2>3. QED
    BY <1>1, <1>2, <2>1, <2>2, BlockedMeans, FailInv
<1>3. CASE ~LoadFails(None, KeptFiles)
  <2>1. /\ quiet' = quiet
        /\ Moves(c, [conn[c] EXCEPT !.pc = AfterBase(c), !.error = "none",
                                    !.basis = ChainIdentity(None, KeptFiles)])
    BY <1>3 DEF RetryChain
  <2>2. "credentials" \in KeptFiles
    BY DEF KeptFiles
  <2>3. QED
    BY <1>1, <1>3, <2>1, <2>2, ChainLoadedInv
<1>4. QED
  BY <1>2, <1>3

LEMMA DiscardInv ==
  ASSUME IInv, NEW c \in Conns, Discard(c)
  PROVE  IInv'
<1>1. Moves(c, NewConnect) /\ quiet' = quiet \ {c}
  BY DEF Discard
<1>2. /\ NewConnect \in ConnType /\ NewConnect.pc = "new" /\ NewConnect.way = "none"
      /\ NewConnect.error = "none"
  BY DEF NewConnect, ConnType, Identities
<1>3. conn'[c] = NewConnect
  BY <1>1 DEF Moves, IInv, TypeOK
<1>4. ConnInv(c)'
  BY <1>1, <1>2, <1>3 DEF ConnInv, WayInv, ExplicitInv, RoleInv, QuietInv
<1>5. QED
  BY <1>1, <1>2, <1>4, MovesKeep DEF IInv, TypeOK

-----------------------------------------------------------------------------
LEMMA StepInv ==
  ASSUME IInv, NEW c \in Conns, Step(c)
  PROVE  IInv'
<1>1. CASE Connect(c) \/ AskRole(c) \/ AskKeys(c)
  BY <1>1, ConnectInv, AskRoleInv, AskKeysInv
<1>2. CASE LoadShared(c)
  BY <1>2, LoadSharedInv
<1>3. CASE CreateBaseConfig(c)
  BY <1>3, CreateBaseConfigInv
<1>4. CASE StaticCredentials(c)
  BY <1>4, StaticCredentialsInv
<1>5. CASE LoadWithKeys(c)
  BY <1>5, LoadWithCredentialsInv DEF LoadWithKeys, AfterBase
<1>6. CASE AssumeRole(c)
  BY <1>6, LoadWithCredentialsInv DEF AssumeRole
<1>7. CASE LoadChain(c)
  BY <1>7, LoadChainInv
<1>8. CASE RetryChain(c)
  BY <1>8, RetryChainInv
<1>9. CASE Discard(c)
  BY <1>9, DiscardInv
<1>10. QED
  BY <1>1, <1>2, <1>3, <1>4, <1>5, <1>6, <1>7, <1>8, <1>9 DEF Step

LEMMA NextInv == IInv /\ [Next]_vars => IInv'
<1>1. CASE UNCHANGED vars
  BY <1>1 DEF vars, IInv, TypeOK, ConnInv, WayInv, ExplicitInv, RoleInv, QuietInv, ChainBlocked,
     ChainServes, EnvironmentFails, Selected, HasEnvKeys, GetAccessID
<1>2. QED
  BY <1>1, StepInv, SetenvInv, EditFileInv DEF Next

LEMMA Invariant == Spec => []IInv
BY InitInv, NextInv, PTL DEF Spec

\* Every Connect keeps its type, and the identity it finds is a proper one, for
\* any connections, profiles, keys and roles (connector.go, Connect).
THEOREM ConnectorTypes == Spec => []TypeOK
<1>1. IInv => TypeOK
  BY DEF IInv
<1>2. QED
  BY <1>1, Invariant, PTL

\* A DSN with an access ID is never refused because of a shared file, whatever
\* happens to the files and the environment (connector.go:160-178, 309-317).
THEOREM ExplicitKeysConnect == Spec => []ExplicitNeverBlocked
<1>1. IInv => ExplicitNeverBlocked
  BY DEF IInv, ConnInv, ExplicitInv, ExplicitNeverBlocked
<1>2. QED
  BY <1>1, Invariant, PTL

\* The default chain survives any ~/.aws/config (connector.go:353-380).
THEOREM ChainSurvivesConfigFile == Spec => []ConfigFileNeverBlocks
<1>1. IInv => ConfigFileNeverBlocks
  BY DEF IInv, TypeOK, ConnInv, QuietInv, ChainBlocked, ConfigFileNeverBlocks
<1>2. QED
  BY <1>1, Invariant, PTL

\* And serves the profiles of ~/.aws/credentials (connector.go:345-348).
THEOREM ChainServesCredentialsFile == Spec => []CredentialsFileCounts
<1>1. IInv => CredentialsFileCounts
  BY DEF IInv, TypeOK, ConnInv, QuietInv, ChainServes, CredentialsFileCounts
<1>2. QED
  BY <1>1, Invariant, PTL

\* A connection is made with the role its Config names (connector.go:99-128).
THEOREM ConfiguredRole == Spec => RoleIsAssumed
<1>1. ASSUME IInv, Next, NEW c \in Conns,
             conn[c].pc # "connected", conn'[c].pc = "connected"
      PROVE  \/ conn'[c].way = "shared"
             \/ config.role = None
             \/ conn[c].pc = "assume" /\ conn[c].role = config.role
  <2>1. PICK d \in Conns : Step(d)
    BY <1>1 DEF Next, Setenv, EditFile
  <2>2. conn[c] \in ConnType /\ conn \in [Conns -> ConnType] /\ ConnInv(c)
    BY <1>1 DEF IInv, TypeOK, ConnType
  <2>3. ASSUME NEW how, Moves(d, how)
        PROVE  d = c /\ conn'[c] = how
    BY <1>1, <2>2, <2>3 DEF Moves
  <2>4. ASSUME NEW error, Fail(d, error)
        PROVE  FALSE
    <3>1. conn'[c] = [conn[c] EXCEPT !.pc = "failed", !.error = error]
      BY <2>3, <2>4 DEF Fail
    <3>2. QED
      BY <1>1, <2>2, <3>1 DEF ConnType
  <2>5. AfterBase(c) = "connected" => conn[c].role = None
    BY DEF AfterBase
  <2>6. conn[c].role = None /\ conn[c].pc \notin {"new", "askRole"} /\ conn[c].way # "shared" =>
          config.role = None
    BY <2>2 DEF ConnInv, RoleInv
  <2>7. CASE Connect(d) \/ AskRole(d) \/ AskKeys(d)
    <3>1. CASE Connect(d)
      <4> DEFINE how == IF env.load THEN [NewConnect EXCEPT !.pc = "shared", !.way = "shared"]
                        ELSE [NewConnect EXCEPT !.pc = "askRole"]
      <4>1. Moves(d, how) /\ how.pc # "connected"
        BY <3>1 DEF Connect, NewConnect
      <4> HIDE DEF how
      <4>2. QED
        BY <1>1, <2>3, <4>1
    <3>2. CASE AskRole(d)
      <4> DEFINE how == IF GetRoleArn # None
                        THEN [conn[d] EXCEPT !.pc = "role", !.way = "role", !.role = GetRoleArn]
                        ELSE [conn[d] EXCEPT !.pc = "askKeys"]
      <4>1. Moves(d, how) /\ how.pc # "connected"
        BY <2>2, <3>2 DEF AskRole, ConnType
      <4> HIDE DEF how
      <4>2. QED
        BY <1>1, <2>3, <4>1
    <3>3. CASE AskKeys(d)
      <4> DEFINE how == [conn[d] EXCEPT !.pc = KeysOrChain, !.way = KeysOrChain]
      <4>1. Moves(d, how) /\ how.pc # "connected"
        BY <2>2, <3>3, KeysOrChainIs DEF AskKeys, ConnType
      <4> HIDE DEF how
      <4>2. QED
        BY <1>1, <2>3, <4>1
    <3>4. QED
      BY <2>7, <3>1, <3>2, <3>3
  <2>8. CASE LoadShared(d)
    <3> DEFINE how == [conn[d] EXCEPT !.pc = "connected",
                                      !.basis = ChainIdentity(config.profile, SharedFiles)]
    <3>1. ~LoadFails(config.profile, SharedFiles)
      BY <2>4, <2>8 DEF LoadShared
    <3>2. Moves(d, how)
      BY <2>8, <3>1 DEF LoadShared
    <3>3. how.way = conn[d].way
      BY <2>2 DEF ConnType
    <3> HIDE DEF how
    <3>4. d = c /\ conn'[c] = how
      BY <2>3, <3>2
    <3>5. conn[c].pc = "shared"
      BY <2>8, <3>4 DEF LoadShared
    <3>6. QED
      BY <2>2, <3>3, <3>4, <3>5 DEF ConnInv, WayInv
  <2>9. CASE CreateBaseConfig(d)
    BY <1>1, <2>2, <2>3, <2>9, KeysOrChainIs DEF CreateBaseConfig, ConnType
  <2>10. CASE StaticCredentials(d)
    <3> DEFINE how == [conn[d] EXCEPT !.pc = "env", !.basis = StaticKeys]
    <3>1. Moves(d, how)
      BY <2>10 DEF StaticCredentials
    <3>2. how.pc = "env"
      BY <2>2 DEF ConnType
    <3> HIDE DEF how
    <3>3. QED
      BY <1>1, <2>3, <3>1, <3>2
  <2>11. CASE LoadWithKeys(d)
    <3>1. /\ d = c /\ conn[c].pc = "env" /\ conn'[c].way = conn[c].way
          /\ conn'[c].pc = AfterBase(c)
      BY <2>2, <2>3, <2>4, <2>11 DEF LoadWithKeys, LoadWithCredentials, ConnType
    <3>2. QED
      BY <1>1, <2>5, <2>6, <3>1
  <2>12. CASE AssumeRole(d)
    <3>1. d = c /\ conn[c].pc = "assume" /\ conn'[c].way = conn[c].way
      BY <2>2, <2>3, <2>4, <2>12 DEF AssumeRole, LoadWithCredentials, ConnType
    <3>2. QED
      BY <2>2, <3>1 DEF ConnInv, RoleInv
  <2>13. CASE LoadChain(d)
    <3> DEFINE failed == [conn[d] EXCEPT !.pc = "retry", !.error = LoadError(None)]
               loaded == [conn[d] EXCEPT !.pc = AfterBase(d),
                                         !.basis = ChainIdentity(None, SharedFiles)]
    <3>1. Moves(d, failed) \/ Moves(d, loaded)
      BY <2>13 DEF LoadChain, OnChainFailure
    <3>2. /\ failed.pc = "retry"
          /\ loaded.pc = AfterBase(d) /\ loaded.way = conn[d].way
      BY <2>2 DEF ConnType
    <3> HIDE DEF failed, loaded
    <3>3. CASE Moves(d, failed)
      BY <1>1, <2>3, <3>2, <3>3
    <3>4. CASE Moves(d, loaded)
      <4>1. d = c /\ conn'[c] = loaded
        BY <2>3, <3>4
      <4>2. conn[c].pc = "chain"
        BY <2>13, <4>1 DEF LoadChain
      <4>3. QED
        BY <1>1, <2>5, <2>6, <3>2, <4>1, <4>2
    <3>5. QED
      BY <3>1, <3>3, <3>4
  <2>14. CASE RetryChain(d)
    <3> DEFINE loaded == [conn[d] EXCEPT !.pc = AfterBase(d), !.error = "none",
                                         !.basis = ChainIdentity(None, KeptFiles)]
    <3>1. Moves(d, loaded)
      BY <2>4, <2>14 DEF RetryChain
    <3>2. loaded.pc = AfterBase(d) /\ loaded.way = conn[d].way
      BY <2>2 DEF ConnType
    <3> HIDE DEF loaded
    <3>3. d = c /\ conn'[c] = loaded
      BY <2>3, <3>1
    <3>4. conn[c].pc = "retry"
      BY <2>14, <3>3 DEF RetryChain
    <3>5. QED
      BY <1>1, <2>5, <2>6, <3>2, <3>3, <3>4
  <2>15. CASE Discard(d)
    BY <1>1, <2>3, <2>15 DEF Discard, NewConnect
  <2>16. QED
    BY <2>1, <2>7, <2>8, <2>9, <2>10, <2>11, <2>12, <2>13, <2>14, <2>15 DEF Step
<1>2. IInv /\ [Next]_vars =>
        [\A c \in Conns : conn[c].pc # "connected" /\ conn'[c].pc = "connected" =>
           \/ conn'[c].way = "shared"
           \/ config.role = None
           \/ conn[c].pc = "assume" /\ conn[c].role = config.role]_vars
  BY <1>1
<1>3. QED
  BY <1>2, Invariant, PTL DEF Spec, RoleIsAssumed
=============================================================================
