--------------------------- MODULE PostgresProofs ---------------------------
(* For every set of modes, and of users: the two clusters are apart, and   *)
(* what that and the order of postgres_get's commands give.                *)
EXTENDS Postgres, SequenceTheorems, TLAPS

(* What the paths of this module are made of.                              *)
Words == {"PARENTF", "build", "data", "/usr/local", PGSQL}

LEMMA LongerPath ==
  ASSUME NEW s \in Seq(Words), NEW a \in Words
  PROVE  Append(s, a) \in Seq(Words) /\ Len(Append(s, a)) = Len(s) + 1
  BY AppendProperties

LEMMA PathRoots ==
  /\ PARENTF \in Seq(Words) /\ Len(PARENTF) = 1
  /\ USRLOCAL \in Seq(Words) /\ Len(USRLOCAL) = 1
  /\ "build" \in Words /\ "data" \in Words /\ PGSQL \in Words
<1>1. PARENTF \in Seq(Words) /\ Len(PARENTF) = 1  BY DEF PARENTF, Words
<1>2. USRLOCAL \in Seq(Words) /\ Len(USRLOCAL) = 1  BY DEF USRLOCAL, Words
<1>3. "build" \in Words /\ "data" \in Words /\ PGSQL \in Words  BY DEF PGSQL, Words
<1> QED BY <1>1, <1>2, <1>3

(* The data directories, and the prefixes, of the two modes are not one.   *)
LEMMA TwoDirs ==
  /\ DataDir(TRUE) # DataDir(FALSE)
  /\ Prefix(TRUE) # Prefix(FALSE)
  /\ NoServer \notin DataDirs
<1> DEFINE b == BUILDF
<1> DEFINE p == Append(b, PGSQL)
<1> DEFINE q == Append(p, "data")
<1> DEFINE r == Append(USRLOCAL, PGSQL)
<1> DEFINE s == <<"/data", PGSQL>>
<1>1. b \in Seq(Words) /\ Len(b) = Len(PARENTF) + 1
  BY PathRoots, LongerPath, Zenon DEF BUILDF
<1>2. r \in Seq(Words) /\ Len(r) = Len(USRLOCAL) + 1
  BY PathRoots, LongerPath, Zenon
<1>3. p \in Seq(Words) /\ Len(p) = Len(b) + 1
  <2> HIDE DEF b
  <2> QED BY <1>1, PathRoots, LongerPath, Zenon
<1>4. q \in Seq(Words) /\ Len(q) = Len(p) + 1
  <2> HIDE DEF p
  <2> QED BY <1>3, PathRoots, LongerPath, Zenon
<1>5. Len(s) = 2 /\ Len(<<>>) = 0  OBVIOUS
<1>6. Prefix(TRUE) = p /\ Prefix(FALSE) = r  BY Zenon DEF Prefix
<1>7. DataDir(TRUE) = q /\ DataDir(FALSE) = s  BY <1>6, Zenon DEF DataDir
<1> HIDE DEF b, p, q, r, s
<1>8. q # s /\ p # r /\ q # <<>> /\ s # <<>>
  <2>1. Len(p) = 3 /\ Len(q) = 4 /\ Len(r) = 2
    BY <1>1, <1>2, <1>3, <1>4, PathRoots
  <2>2. /\ Len(q) # Len(s) /\ Len(p) # Len(r)
        /\ Len(q) # Len(<<>>) /\ Len(s) # Len(<<>>)
    BY <2>1, <1>5
  <2> QED BY <2>2, Zenon
<1> QED BY <1>6, <1>7, <1>8, Zenon DEF DataDirs, NoServer

(* The data directory of a run.                                            *)
LEMMA DirOfRun ==
  ASSUME local \in BOOLEAN
  PROVE  /\ D \in DataDirs
         /\ local => D = DataDir(TRUE)
         /\ ~local => D = DataDir(FALSE)
<1>1. CASE local = TRUE  BY <1>1, Zenon DEF D, DataDirs
<1>2. CASE local = FALSE  BY <1>2, Zenon DEF D, DataDirs
<1> QED BY <1>1, <1>2

-----------------------------------------------------------------------------
(* A run that ought to succeed.                                            *)
Good == well /\ quiet /\ ~(local /\ admin)

(* What is in a cluster is in a cluster: there is a database only where    *)
(* initdb has come to its end, and only such a cluster has a server,       *)
(* unless the server is an orphan, as only a local one can be.             *)
ContentInCluster ==
  /\ \A d \in DataDirs : content[d] # {} => cluster[d] = "whole"
  /\ (server # NoServer /\ ~orphan) => cluster[server] = "whole"
  /\ orphan => server = DataDir(TRUE)

(* The programs of a run that lost nothing are there once it made them.    *)
ProgramsMade ==
  (pc \in {"initdb", "bootstrap", "start", "createdb", "createuser", "alter",
          "stop", "done"} /\ well) => Prefix(local) \in programs

(* A local run has no cluster until initdb.                                *)
Cleared == (pc \in {"get", "make", "initdb"} /\ local) => cluster[D] = "none"

(* No server comes up before the run's own, but the unit's may be up.      *)
Alone ==
  (pc \in {"rm", "get", "make", "initdb", "bootstrap", "start"} /\ quiet)
    => server = NoServer \/ (~local /\ server = DataDir(FALSE))

(* After initdb there is a cluster, or what a crash left of one in /data.  *)
Ready ==
  (pc = "start" /\ Good) => cluster[D] = "whole" \/ (~local /\ cluster[D] = "half")

(* While the clients run, the server is this run's, if there is one.       *)
Serving ==
  (pc \in {"createdb", "createuser", "alter", "stop"} /\ Good)
    => \/ cluster[D] = "whole" /\ server = D /\ ~orphan
       \/ ~local /\ cluster[D] = "half" /\ server = NoServer

(* What the clients have added.                                            *)
Added ==
  (Good /\ cluster[D] = "whole") =>
    /\ pc \in {"createuser", "alter", "stop", "done"} => "db" \in content[D]
    /\ pc \in {"alter", "stop", "done"} => "role" \in content[D]
    /\ (pc \in {"stop", "done"} /\ ~local) => "password" \in content[D]

(* The server is gone at the end.                                          *)
Ended ==
  (pc = "done" /\ Good)
    => /\ server # D
       /\ cluster[D] = "whole" \/ (~local /\ cluster[D] = "half")

Inv == /\ TypeOK /\ ContentInCluster
       /\ ProgramsMade /\ Cleared /\ Alone /\ Ready /\ Serving /\ Added /\ Ended

LEMMA InvInit == Init => Inv
<1> SUFFICES ASSUME Init PROVE Inv  OBVIOUS
<1>1. TypeOK
  BY TwoDirs, PostgresAssumption DEF Init, TypeOK, Running
<1>2. ContentInCluster  BY DEF Init, ContentInCluster
<1> QED
  BY <1>1, <1>2
  DEF Init, Inv, ProgramsMade, Cleared, Alone, Ready, Serving, Added, Ended

(* What UnitStarts starts is a whole cluster.                              *)
LEMMA UnitStartsWhole ==
  ASSUME TypeOK
  PROVE  UnitStarts = NoServer
         \/ (UnitStarts \in DataDirs /\ cluster[UnitStarts] = "whole")
<1>1. CASE UnitStarts = NoServer  BY <1>1
<1>2. CASE UnitStarts # NoServer
  <2>1. PICK m \in unit :
          /\ UnitPrefix(m) \in programs
          /\ UnitDataDir(m) \in {d \in DataDirs : cluster[d] = "whole"}
    BY <1>2, Zenon DEF UnitStarts
  <2>2. UnitStarts = UnitDataDir(CHOOSE k \in unit : TRUE)
    BY <1>2, <2>1, Zenon DEF UnitStarts
  <2>3. unit = {m}  BY <2>1, Zenon DEF TypeOK
  <2>4. (CHOOSE k \in unit : TRUE) = m  BY <2>3, Zenon
  <2> QED BY <2>1, <2>2, <2>4, Zenon
<1> QED BY <1>1, <1>2

LEMMA TypeStep == TypeOK /\ [Next]_vars => TypeOK'
<1> SUFFICES ASSUME TypeOK, [Next]_vars PROVE TypeOK'  OBVIOUS
<1>0. D \in DataDirs /\ local \in BOOLEAN
  BY PostgresAssumption, DirOfRun DEF TypeOK
<1>m. Modes \subseteq BOOLEAN /\ Admins \subseteq BOOLEAN
  BY PostgresAssumption DEF PostgresAssumption
<1> USE <1>0 DEF TypeOK, Running, data, serve
<1>1. CASE Begin  BY <1>1, <1>m DEF Begin
<1>2. CASE Remove  BY <1>2, TwoDirs DEF Remove
<1>3. CASE Get  BY <1>3 DEF Get
<1>4. CASE Make
  <2>1. Prefix(local) \in {Prefix(TRUE), Prefix(FALSE)}
    BY <1>0, Zenon
  <2> QED BY <1>4, <2>1 DEF Make
<1>5. CASE Initdb  BY <1>5 DEF Initdb
<1>6. CASE Bootstrap  BY <1>6 DEF Bootstrap
<1>7. CASE StartServer  BY <1>7, TwoDirs DEF StartServer
<1>8. CASE CreateDb  BY <1>8 DEF CreateDb, Add
<1>9. CASE CreateUser  BY <1>9 DEF CreateUser, Add
<1>10. CASE Alter  BY <1>10 DEF Alter, Add
<1>11. CASE StopServer  BY <1>11 DEF StopServer
<1>12. CASE MakePostgresService  BY <1>12 DEF MakePostgresService
<1>13. CASE Gone  BY <1>13 DEF Gone
<1>18. CASE EnableService  BY <1>18 DEF EnableService
<1>14. CASE OrphanEnds  BY <1>14 DEF OrphanEnds
<1>15. CASE Reboot \/ StartService
  <2>1. UnitStarts \in DataDirs \cup {NoServer}  BY UnitStartsWhole, Zenon
  <2> QED BY <1>15, <2>1 DEF Reboot, StartService
<1>16. CASE UserWrites  BY <1>16 DEF UserWrites
<1>17. CASE UNCHANGED vars  BY <1>17 DEF vars
<1> QED
  BY <1>1, <1>2, <1>3, <1>4, <1>5, <1>6, <1>7, <1>8, <1>9, <1>10, <1>11,
     <1>12, <1>13, <1>14, <1>15, <1>16, <1>17, <1>18 DEF Next, Script

(* A database only in a cluster that initdb made, a server only for one.   *)
LEMMA ContentStep == Inv /\ [Next]_vars => ContentInCluster'
<1> SUFFICES ASSUME Inv, [Next]_vars PROVE ContentInCluster'  OBVIOUS
<1>0. /\ TypeOK /\ ContentInCluster /\ Cleared
      /\ D \in DataDirs /\ local \in BOOLEAN
  BY PostgresAssumption, DirOfRun DEF Inv, TypeOK
<1> USE <1>0 DEF TypeOK, ContentInCluster, data, serve
<1>1. CASE \/ Begin \/ Get \/ Make \/ MakePostgresService \/ EnableService
           \/ Gone \/ OrphanEnds
  <2>1. CASE OrphanEnds  BY <2>1 DEF OrphanEnds
  <2>2. CASE UNCHANGED <<cluster, content, server, orphan>>  BY <2>2
  <2> QED
    BY <1>1, <2>1, <2>2
    DEF Begin, Get, Make, MakePostgresService, EnableService, Gone
<1>2. CASE Remove
  <2>1. CASE local = TRUE  BY <1>2, <2>1, DirOfRun, TwoDirs DEF Remove
  <2>2. CASE local = FALSE  BY <1>2, <2>2 DEF Remove
  <2> QED BY <2>1, <2>2
<1>3. CASE Initdb  BY <1>3 DEF Initdb
<1>4. CASE Bootstrap  BY <1>4 DEF Bootstrap
<1>5. CASE StartServer  BY <1>5 DEF StartServer
<1>6. CASE CreateDb  BY <1>6, TwoDirs DEF CreateDb, Add, Connects
<1>7. CASE CreateUser  BY <1>7, TwoDirs DEF CreateUser, Add, Connects
<1>8. CASE Alter  BY <1>8, TwoDirs DEF Alter, Add, Connects
<1>9. CASE StopServer  BY <1>9 DEF StopServer
<1>10. CASE Reboot \/ StartService
  BY <1>10, UnitStartsWhole DEF Reboot, StartService
<1>11. CASE UserWrites  BY <1>11 DEF UserWrites
<1>12. CASE UNCHANGED vars  BY <1>12 DEF vars
<1> QED
  BY <1>1, <1>2, <1>3, <1>4, <1>5, <1>6, <1>7, <1>8, <1>9, <1>10, <1>11, <1>12
  DEF Next, Script

(* Prefix and data directory are fixed for the run.                        *)
LEMMA SameRun ==
  local' = local => D' = D /\ Prefix(local)' = Prefix(local)
  BY Zenon DEF D

LEMMA ProgramsStep == Inv /\ [Next]_vars => ProgramsMade'
<1> SUFFICES ASSUME Inv, [Next]_vars PROVE ProgramsMade'  OBVIOUS
<1> DEFINE p == Prefix(local)
<1> DEFINE Made == {"initdb", "bootstrap", "start", "createdb", "createuser",
                    "alter", "stop", "done"}
<1>0. pc \in Made /\ well => p \in programs  BY Zenon DEF Inv, ProgramsMade
<1>s. local' = local => p' = p  BY SameRun, Zenon
<1> SUFFICES pc' \in Made /\ well' => p' \in programs'
  BY Zenon DEF ProgramsMade
<1>2. CASE Make  BY <1>2, <1>s DEF Make
<1> HIDE DEF p
<1> USE <1>0, <1>s DEF data, serve
<1>1. CASE Begin \/ Remove \/ Get  BY <1>1 DEF Begin, Remove, Get
<1>3. CASE Initdb \/ Bootstrap \/ StartServer \/ StopServer
  <2>1. pc \in Made /\ UNCHANGED <<local, programs, well>>
    BY <1>3 DEF Initdb, Bootstrap, StartServer, StopServer
  <2> QED BY <2>1, Zenon
<1>4. CASE CreateDb \/ CreateUser \/ Alter
  <2>1. pc \in Made /\ UNCHANGED <<local, programs, well>>
    BY <1>4 DEF CreateDb, CreateUser, Alter
  <2> QED BY <2>1, Zenon
<1>5. CASE MakePostgresService \/ EnableService \/ Gone \/ Reboot \/ StartService
  BY <1>5 DEF MakePostgresService, EnableService, Gone, Reboot, StartService
<1>6. CASE OrphanEnds \/ UserWrites \/ UNCHANGED vars
  BY <1>6 DEF OrphanEnds, UserWrites, vars
<1> QED BY <1>1, <1>2, <1>3, <1>4, <1>5, <1>6 DEF Next, Script

LEMMA ClearedStep == Inv /\ [Next]_vars => Cleared'
<1> SUFFICES ASSUME Inv, [Next]_vars PROVE Cleared'  OBVIOUS
<1>0. TypeOK /\ Cleared /\ D \in DataDirs
  BY PostgresAssumption, DirOfRun DEF Inv, TypeOK
<1> USE <1>0 DEF Cleared, data, serve
<1>1. CASE Remove
  <2>1. cluster \in [DataDirs -> {"none", "half", "whole"}]  BY DEF TypeOK
  <2>2. D' = D  BY <1>1 DEF Remove, D
  <2> QED BY <1>1, <2>1, <2>2 DEF Remove
<1>2. CASE Begin  BY <1>2 DEF Begin
<1>3. CASE Get \/ Make  BY <1>3 DEF Get, Make, D
<1>4. CASE Initdb \/ Bootstrap \/ StartServer \/ StopServer
  BY <1>4 DEF Initdb, Bootstrap, StartServer, StopServer
<1>5. CASE CreateDb \/ CreateUser \/ Alter
  BY <1>5 DEF CreateDb, CreateUser, Alter
<1>6. CASE MakePostgresService \/ EnableService \/ Gone \/ Reboot \/ StartService
  BY <1>6 DEF MakePostgresService, EnableService, Gone, Reboot, StartService
<1>7. CASE OrphanEnds \/ UserWrites \/ UNCHANGED vars
  BY <1>7 DEF OrphanEnds, UserWrites, vars, D
<1> QED BY <1>1, <1>2, <1>3, <1>4, <1>5, <1>6, <1>7 DEF Next, Script

LEMMA AloneStep == Inv /\ [Next]_vars => Alone'
<1> SUFFICES ASSUME Inv, [Next]_vars PROVE Alone'  OBVIOUS
<1>0. Alone  BY DEF Inv
<1> USE <1>0 DEF Alone, data, serve
<1>1. CASE Begin  BY <1>1 DEF Begin
<1>2. CASE Remove \/ Get \/ Make  BY <1>2 DEF Remove, Get, Make
<1>3. CASE Initdb \/ Bootstrap \/ StartServer \/ StopServer
  BY <1>3 DEF Initdb, Bootstrap, StartServer, StopServer
<1>4. CASE CreateDb \/ CreateUser \/ Alter
  BY <1>4 DEF CreateDb, CreateUser, Alter
<1>5. CASE MakePostgresService \/ EnableService \/ Gone \/ Reboot \/ StartService
  BY <1>5 DEF MakePostgresService, EnableService, Gone, Reboot, StartService
<1>6. CASE OrphanEnds \/ UserWrites \/ UNCHANGED vars
  BY <1>6 DEF OrphanEnds, UserWrites, vars
<1> QED BY <1>1, <1>2, <1>3, <1>4, <1>5, <1>6 DEF Next, Script

(* The commands that the following four say nothing about.                 *)
Elsewhere ==
  \/ Begin \/ Remove \/ Get \/ Make \/ MakePostgresService
  \/ EnableService \/ Gone \/ Reboot \/ StartService

LEMMA ElsewhereGoes ==
  Elsewhere => pc' \in {"idle", "enable", "rm", "get", "make", "initdb"}
  BY DEF Elsewhere, Begin, Remove, Get, Make, MakePostgresService,
         EnableService, Gone, Reboot, StartService

(* What a step of somebody else leaves alone.                              *)
LEMMA Others ==
  ASSUME Inv, OrphanEnds \/ UserWrites \/ UNCHANGED vars
  PROVE  /\ UNCHANGED <<pc, local, admin, cluster, quiet, well>>
         /\ D' = D
         /\ ~orphan => UNCHANGED serve
         /\ server = NoServer => UNCHANGED serve
         /\ server # NoServer => server' \in {server, NoServer}
         /\ server # D => server' # D
         /\ \A d \in DataDirs : content[d] \subseteq content'[d]
<1>0. TypeOK /\ D \in DataDirs
  BY PostgresAssumption, DirOfRun DEF Inv, TypeOK
<1>1. CASE OrphanEnds
  BY <1>0, <1>1, SameRun, TwoDirs DEF OrphanEnds, TypeOK, data
<1>2. CASE UserWrites
  BY <1>0, <1>2, SameRun DEF UserWrites, TypeOK, serve
<1>3. CASE UNCHANGED vars
  BY <1>0, <1>3, SameRun DEF vars, data, serve
<1> QED BY <1>1, <1>2, <1>3

LEMMA ReadyStep == Inv /\ [Next]_vars => Ready'
<1> SUFFICES ASSUME Inv, [Next]_vars PROVE Ready'  OBVIOUS
<1>0. /\ cluster \in [DataDirs -> {"none", "half", "whole"}]
      /\ D \in DataDirs /\ Cleared /\ ProgramsMade /\ Ready
  BY PostgresAssumption, DirOfRun DEF Inv, TypeOK
<1> USE <1>0 DEF Ready, Good
<1>1. CASE Elsewhere  BY <1>1, ElsewhereGoes
<1>2. CASE Initdb
  BY <1>2, SameRun DEF Initdb, CanRun, Cleared, ProgramsMade
<1>3. CASE Bootstrap  BY <1>3, SameRun DEF Bootstrap
<1>4. CASE StartServer \/ CreateDb \/ CreateUser \/ Alter \/ StopServer
  BY <1>4 DEF StartServer, CreateDb, CreateUser, Alter, StopServer
<1>5. CASE OrphanEnds \/ UserWrites \/ UNCHANGED vars
  BY <1>5, Others
<1> QED BY <1>1, <1>2, <1>3, <1>4, <1>5 DEF Next, Script, Elsewhere

LEMMA ServingStep == Inv /\ [Next]_vars => Serving'
<1> SUFFICES ASSUME Inv, [Next]_vars PROVE Serving'  OBVIOUS
<1>0. /\ D \in DataDirs /\ orphan \in BOOLEAN /\ (orphan => server # NoServer)
      /\ ProgramsMade /\ Alone /\ Ready /\ Serving
  BY PostgresAssumption, DirOfRun DEF Inv, TypeOK
<1> USE <1>0 DEF Serving, Good
<1>1. CASE Elsewhere  BY <1>1, ElsewhereGoes
<1>2. CASE Initdb \/ Bootstrap \/ StopServer
  BY <1>2 DEF Initdb, Bootstrap, StopServer
<1>3. CASE StartServer
  <2>1. D' = D  BY <1>3, SameRun DEF StartServer
  <2>2. CASE server = NoServer
    BY <1>3, <2>1, <2>2
    DEF StartServer, CanRun, ProgramsMade, Ready, data, serve
  <2>3. CASE ~local /\ server = DataDir(FALSE)
    <3>1. D = server /\ local = FALSE /\ server # NoServer /\ ~orphan /\ cluster[D] = "whole"
      BY <2>3, DirOfRun, TwoDirs, PostgresAssumption
      DEF Inv, TypeOK, ContentInCluster
    <3>2. UNCHANGED <<serve, cluster>>  BY <1>3, <3>1, Zenon DEF StartServer, data
    <3> QED BY <2>1, <3>1, <3>2 DEF serve
  <2>4. CASE ~(pc = "start" /\ Good)
    BY <1>3, <2>4 DEF StartServer
  <2> QED BY <2>2, <2>3, <2>4 DEF Alone
<1>4. CASE CreateDb \/ CreateUser \/ Alter
  BY <1>4, SameRun DEF CreateDb, CreateUser, Alter, serve
<1>5. CASE OrphanEnds \/ UserWrites \/ UNCHANGED vars
  BY <1>5, Others DEF serve
<1> QED BY <1>1, <1>2, <1>3, <1>4, <1>5 DEF Next, Script, Elsewhere

LEMMA AddedStep == Inv /\ [Next]_vars => Added'
<1> SUFFICES ASSUME Inv, [Next]_vars PROVE Added'  OBVIOUS
<1>0. /\ D \in DataDirs /\ content \in [DataDirs -> SUBSET {"db", "role", "password", "rows"}]
      /\ ProgramsMade /\ Serving /\ Added
  BY PostgresAssumption, DirOfRun DEF Inv, TypeOK
<1> USE <1>0 DEF Added, Good
<1>1. CASE Elsewhere  BY <1>1, ElsewhereGoes
<1>2. CASE Initdb \/ Bootstrap \/ StartServer
  BY <1>2 DEF Initdb, Bootstrap, StartServer
<1>3. CASE CreateDb
  BY <1>3, SameRun DEF CreateDb, Add, Connects, ProgramsMade, Serving
<1>4. CASE CreateUser
  BY <1>4, SameRun DEF CreateUser, Add, Connects, ProgramsMade, Serving
<1>5. CASE Alter
  BY <1>5, SameRun DEF Alter, Add, Connects, ProgramsMade, Serving
<1>6. CASE StopServer  BY <1>6, SameRun DEF StopServer, data
<1>7. CASE OrphanEnds \/ UserWrites \/ UNCHANGED vars
  BY <1>7, Others
<1> QED BY <1>1, <1>2, <1>3, <1>4, <1>5, <1>6, <1>7
        DEF Next, Script, Elsewhere

LEMMA EndedStep == Inv /\ [Next]_vars => Ended'
<1> SUFFICES ASSUME Inv, [Next]_vars PROVE Ended'  OBVIOUS
<1>0. /\ D \in DataDirs
      /\ ProgramsMade /\ Serving /\ Ended
  BY PostgresAssumption, DirOfRun DEF Inv, TypeOK
<1> USE <1>0 DEF Ended, Good
<1>1. CASE Elsewhere  BY <1>1, ElsewhereGoes
<1>2. CASE Initdb \/ Bootstrap \/ StartServer \/ CreateDb \/ CreateUser \/ Alter
  BY <1>2 DEF Initdb, Bootstrap, StartServer, CreateDb, CreateUser, Alter
<1>3. CASE StopServer
  BY <1>3, SameRun, TwoDirs DEF StopServer, CanRun, ProgramsMade, Serving, data
<1>4. CASE OrphanEnds \/ UserWrites \/ UNCHANGED vars
  BY <1>4, Others
<1> QED BY <1>1, <1>2, <1>3, <1>4 DEF Next, Script, Elsewhere

LEMMA InvAlways == Spec => []Inv
<1>1. Inv /\ [Next]_vars => Inv'
  BY TypeStep, ContentStep, ProgramsStep, ClearedStep, AloneStep, ReadyStep,
     ServingStep, AddedStep, EndedStep DEF Inv
<1> QED BY InvInit, <1>1, PTL DEF Spec
-----------------------------------------------------------------------------
(* Type correctness of postgres_get and make_postgres_service.             *)
THEOREM PostgresTypes == Spec => []TypeOK
<1>1. Inv => TypeOK  BY DEF Inv
<1> QED BY <1>1, InvAlways, PTL

(* A run of postgres_get in which nothing failed, and which found the port *)
(* free or had by its own cluster's server, ends with database and role,   *)
(* with the password where IS_LOCAL=0, and without its server, or with a   *)
(* cluster in /data that a crash halved.                                   *)
THEOREM RunsEndWithDatabase == Spec => []RunEndsWithDatabase
<1>1. Inv => RunEndsWithDatabase
  BY DEF Inv, RunEndsWithDatabase, Ended, Added, Good
<1> QED BY <1>1, InvAlways, PTL

(* No step of postgres_get takes anything out of the cluster in /data.     *)
THEOREM SystemDataKept == Spec => SystemDataSurvives
<1> DEFINE S == DataDir(FALSE)
<1>1. ASSUME Inv, [Next]_vars PROVE content[S] \subseteq content'[S]
  <2>0. /\ TypeOK /\ D \in DataDirs /\ S \in DataDirs
        /\ (local => D # S)
    BY <1>1, PostgresAssumption, DirOfRun, TwoDirs, Zenon DEF Inv, TypeOK, DataDirs
  <2> HIDE DEF S
  <2> USE <2>0 DEF TypeOK, data
  <2>1. CASE Remove  BY <2>1 DEF Remove
  <2>2. CASE CreateDb \/ CreateUser \/ Alter
    BY <2>2 DEF CreateDb, CreateUser, Alter, Add
  <2>3. CASE UserWrites  BY <2>3 DEF UserWrites
  <2>4. CASE UNCHANGED content  BY <2>4
  <2> QED
    BY <1>1, <2>1, <2>2, <2>3, <2>4
    DEF Next, Script, Begin, Get, Make, Initdb, Bootstrap, StartServer,
        StopServer, MakePostgresService, EnableService, Gone, OrphanEnds, Reboot,
        StartService, vars
<1> QED BY <1>1, InvAlways, PTL DEF Spec, SystemDataSurvives

(* The unit of a run with IS_LOCAL=0 starts the cluster that postgres_get  *)
(* makes with IS_LOCAL=0.                                                  *)
THEOREM SystemUnitIsRight == Spec => SystemUnitStartsCluster
<1>1. ASSUME Inv PROVE Restarted(FALSE)
  <2> SUFFICES ASSUME Reboot, FALSE \in unit, enabled, Prefix(FALSE) \in programs,
                      cluster[DataDir(FALSE)] = "whole"
               PROVE  server' = DataDir(FALSE)
    BY Zenon DEF Restarted
  <2>1. unit = {FALSE}  BY <1>1, Zenon DEF Inv, TypeOK
  <2>2. (CHOOSE m \in unit : TRUE) = FALSE  BY <2>1, Zenon
  <2>3. UnitPrefix(FALSE) = Prefix(FALSE) /\ UnitDataDir(FALSE) = DataDir(FALSE)
    BY Zenon DEF UnitPrefix, UnitDataDir, Prefix, DataDir
  <2>4. DataDir(FALSE) \in {d \in DataDirs : cluster[d] = "whole"}
    BY Zenon DEF DataDirs
  <2>5. UnitStarts = UnitDataDir(CHOOSE m \in unit : TRUE)
    BY <2>1, <2>3, <2>4, Zenon DEF UnitStarts
  <2>6. server' = UnitStarts  BY Zenon DEF Reboot
  <2> QED BY <2>2, <2>3, <2>5, <2>6, Zenon
<1> QED BY <1>1, InvAlways, PTL DEF Spec, SystemUnitStartsCluster
=============================================================================
