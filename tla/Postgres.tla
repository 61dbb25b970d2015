------------------------------ MODULE Postgres ------------------------------
(***************************************************************************)
(* postgres_get and make_postgres_service of src/nginx_builder: PostgreSQL *)
(* is built, a cluster initialised, a server started for as long as it     *)
(* takes to make a database and a role, and a unit written that starts the *)
(* server at boot.                                                         *)
(*                                                                         *)
(* A run begins with rm -rf of the programs, and with IS_LOCAL=1 that is   *)
(* rm -rf of the cluster too; none of the later commands is checked.  A    *)
(* server outlives the script that started it, and only one has port 5432; *)
(* a server whose cluster was deleted notices after a while.  The          *)
(* PostgreSQL programs are outside the repository; they are modelled by    *)
(* when they refuse and what they change.                                  *)
(***************************************************************************)
EXTENDS Layout

CONSTANTS
  Modes,  \* the values of IS_LOCAL: TRUE for 1
  Admins  \* whether an IS_LOCAL=1 run is root's: a set of Booleans

ASSUME PostgresAssumption == Modes \subseteq BOOLEAN /\ Admins \subseteq BOOLEAN

PGSQL == "pgsql-12.2"

(* PREFIX and DATADIR of postgres_get                                      *)
Prefix(local)  == IF local THEN Append(BUILDF, PGSQL) ELSE Append(USRLOCAL, PGSQL)
DataDir(local) == IF local THEN Append(Prefix(TRUE), "data") ELSE <<"/data", PGSQL>>

(* PREFIX and DATADIR of make_postgres_service                             *)
UnitPrefix(local)  == IF local THEN Append(PARENTF, PGSQL) ELSE Append(USRLOCAL, PGSQL)

(* Mutant of UnitDataDir: below the prefix in either mode.                 *)
UnitDataInPrefix(local) == Append(UnitPrefix(local), "data")

UnitDataDir(local) == IF local THEN Sub(PARENTF, PGSQL, "data") ELSE <<"/data", PGSQL>>

DataDirs == {DataDir(TRUE), DataDir(FALSE)}
NoServer == <<>>

VARIABLES
  pc,        \* the next command
  local,     \* IS_LOCAL of the present run
  admin,     \* the run is root's
  source,    \* the folder postgresql-12.2 is there
  programs,  \* the prefixes that hold PostgreSQL's programs
  cluster,   \* each data directory: "none", "half", "whole"
  content,   \* what each cluster holds: "db", "role", "password", "rows"
  server,    \* the data directory of the server on port 5432, or NoServer
  orphan,    \* its data directory was deleted
  unit,      \* postgresql122.service: the IS_LOCAL of its paths; {} for none
  enabled,   \* systemd starts it at boot
  quiet,     \* the port was free when the run began, or its own server had it
  well       \* nothing that may fail by itself has failed in this run

data  == <<cluster, content>>
serve == <<server, orphan>>
vars  == <<pc, local, admin, source, programs, data, serve, unit, enabled, quiet, well>>

D == DataDir(local)
Running == {"rm", "get", "make", "initdb", "bootstrap", "start", "createdb",
            "createuser", "alter", "stop"}

(* The programs of this run's prefix can be run: they are there, and       *)
(* initdb and pg_ctl refuse to be root.                                    *)
CanRun == Prefix(local) \in programs /\ ~(local /\ admin)

(* A client program reaches this run's cluster: the server that listens is *)
(* this cluster's.  In another one the user is no role.                    *)
Connects == Prefix(local) \in programs /\ server = D /\ ~orphan /\ ~(local /\ admin)
-----------------------------------------------------------------------------
Init ==
  /\ pc = "idle" /\ local \in Modes /\ admin = FALSE
  /\ source = FALSE /\ programs = {}
  /\ cluster = [d \in DataDirs |-> "none"]
  /\ content = [d \in DataDirs |-> {}]
  /\ server = NoServer /\ orphan = FALSE /\ unit = {} /\ enabled = FALSE
  /\ quiet = TRUE /\ well = TRUE

(* A run that calls postgres_get.  With IS_LOCAL=0 it is root's.           *)
Begin ==
  /\ pc = "idle" /\ pc' = "rm"
  /\ local' \in Modes
  /\ admin' \in IF local' THEN Admins ELSE {TRUE}
  /\ quiet' = (server = NoServer \/ (~local' /\ server = DataDir(FALSE)))
  /\ well' = TRUE
  /\ UNCHANGED <<source, programs, data, serve, unit, enabled>>

(* Mutant of Remove: the data directory goes in either mode.               *)
RemoveData ==
  /\ pc = "rm" /\ pc' = "get"
  /\ programs' = programs \ {Prefix(local)}
  /\ cluster' = [cluster EXCEPT ![D] = "none"]
  /\ content' = [content EXCEPT ![D] = {}]
  /\ orphan' = (orphan \/ server = D)
  /\ UNCHANGED <<local, admin, source, server, unit, enabled, quiet, well>>

(* Mutant of Remove: only with IS_LOCAL=0.                                 *)
RemoveSystemOnly ==
  /\ pc = "rm" /\ pc' = "get"
  /\ programs' = IF local THEN programs ELSE programs \ {Prefix(local)}
  /\ UNCHANGED <<local, admin, source, data, serve, unit, enabled, quiet, well>>

(* Mutant of Remove: any server is taken for one of the deleted cluster.   *)
RemoveOrphans ==
  /\ pc = "rm" /\ pc' = "get"
  /\ programs' = programs \ {Prefix(local)}
  /\ orphan' = TRUE
  /\ UNCHANGED <<local, admin, source, data, server, unit, enabled, quiet, well>>

(* rm -rf $PREFIX, in which the local data directory is; account and data  *)
(* directory with IS_LOCAL=0                                               *)
Remove ==
  /\ pc = "rm" /\ pc' = "get"
  /\ programs' = programs \ {Prefix(local)}
  /\ IF local
     THEN /\ cluster' = [cluster EXCEPT ![D] = "none"]
          /\ content' = [content EXCEPT ![D] = {}]
          /\ orphan' = (orphan \/ server = D)
     ELSE UNCHANGED <<data, orphan>>
  /\ UNCHANGED <<local, admin, source, server, unit, enabled, quiet, well>>

(* get_arch: an exit without the source, which is looked for only after    *)
(* the deletion                                                            *)
Get ==
  /\ pc = "get"
  /\ \/ pc' = "make" /\ source' = TRUE
     \/ ~source /\ pc' = "idle" /\ UNCHANGED source
  /\ UNCHANGED <<local, admin, programs, data, serve, unit, enabled, quiet, well>>

(* ./configure && make install                                             *)
Make ==
  /\ pc = "make" /\ pc' = "initdb"
  /\ \/ programs' = programs \cup {Prefix(local)} /\ UNCHANGED well
     \/ well' = FALSE /\ UNCHANGED programs
  /\ UNCHANGED <<local, admin, source, data, serve, unit, enabled, quiet>>

(* initdb refuses a directory that is not empty.                           *)
Initdb ==
  /\ pc = "initdb"
  /\ IF CanRun /\ cluster[D] = "none"
     THEN cluster' = [cluster EXCEPT ![D] = "half"] /\ pc' = "bootstrap"
     ELSE pc' = "start" /\ UNCHANGED cluster
  /\ UNCHANGED <<local, admin, source, programs, content, serve, unit, enabled, quiet, well>>

Bootstrap ==
  /\ pc = "bootstrap" /\ pc' = "start"
  /\ cluster' = [cluster EXCEPT ![D] = "whole"]
  /\ UNCHANGED <<local, admin, source, programs, content, serve, unit, enabled, quiet, well>>

(* pg_ctl start: one server at a time has the port, an orphan included.    *)
StartServer ==
  /\ pc = "start" /\ pc' = "createdb"
  /\ IF CanRun /\ cluster[D] = "whole" /\ server = NoServer
     THEN server' = D /\ orphan' = FALSE
     ELSE UNCHANGED serve
  /\ UNCHANGED <<local, admin, source, programs, data, unit, enabled, quiet, well>>

Add(what) == content' = [content EXCEPT ![D] = @ \cup what]

CreateDb ==
  /\ pc = "createdb" /\ pc' = "createuser"
  /\ Add(IF Connects THEN {"db"} ELSE {})
  /\ UNCHANGED <<local, admin, source, programs, cluster, serve, unit, enabled, quiet, well>>

CreateUser ==
  /\ pc = "createuser" /\ pc' = "alter"
  /\ Add(IF Connects THEN {"role"} ELSE {})
  /\ UNCHANGED <<local, admin, source, programs, cluster, serve, unit, enabled, quiet, well>>

(* psql without a database takes the one with the user's name: there is    *)
(* one called postgres, which is the user with IS_LOCAL=0 only; a local    *)
(* run is that of somebody with a name of his own.                         *)
Alter ==
  /\ pc = "alter" /\ pc' = "stop"
  /\ Add(IF Connects /\ "role" \in content[D] /\ ~local THEN {"password"} ELSE {})
  /\ UNCHANGED <<local, admin, source, programs, cluster, serve, unit, enabled, quiet, well>>

(* pg_ctl stop: also of a server that the unit had started.                *)
StopServer ==
  /\ pc = "stop" /\ pc' = "done"
  /\ server' = IF CanRun /\ server = D /\ ~orphan THEN NoServer ELSE server
  /\ UNCHANGED <<local, admin, source, programs, data, orphan, unit, enabled, quiet, well>>

(* A run of root, in either mode, that calls make_postgres_service: the    *)
(* unit is written,                                                        *)
MakePostgresService ==
  /\ pc = "idle" /\ pc' = "enable"
  /\ local' \in Modes /\ admin' = TRUE
  /\ unit' = {local'}
  /\ UNCHANGED <<source, programs, data, serve, enabled, quiet, well>>

(* and enabled, as it still is if an earlier one was.                      *)
EnableService ==
  /\ pc = "enable" /\ pc' = "idle"
  /\ enabled' = TRUE
  /\ UNCHANGED <<local, admin, source, programs, data, serve, unit, quiet, well>>

(* The script comes to its end, or is killed at any command; a server it   *)
(* started goes on.                                                        *)
Gone ==
  /\ pc # "idle" /\ pc' = "idle"
  /\ UNCHANGED <<local, admin, source, programs, data, serve, unit, enabled, quiet, well>>

(* The server finds its lock file gone and stops.                          *)
OrphanEnds ==
  /\ orphan /\ server' = NoServer /\ orphan' = FALSE
  /\ UNCHANGED <<pc, local, admin, source, programs, data, unit, enabled, quiet, well>>

(* ExecStart of the unit, as the user postgres                             *)
UnitStarts ==
  IF \E m \in unit : /\ UnitPrefix(m) \in programs
                     /\ UnitDataDir(m) \in {d \in DataDirs : cluster[d] = "whole"}
  THEN UnitDataDir(CHOOSE m \in unit : TRUE)
  ELSE NoServer

Reboot ==
  /\ pc' = "idle"
  /\ server' = IF enabled THEN UnitStarts ELSE NoServer
  /\ orphan' = FALSE
  /\ UNCHANGED <<local, admin, source, programs, data, unit, enabled, quiet, well>>

(* systemctl start postgresql122.service                                   *)
StartService ==
  /\ pc = "idle" /\ server = NoServer
  /\ server' = UnitStarts /\ orphan' = FALSE
  /\ UNCHANGED <<pc, local, admin, source, programs, data, unit, enabled, quiet, well>>

(* Somebody uses the database.                                             *)
UserWrites ==
  /\ server # NoServer /\ ~orphan
  /\ content' = [content EXCEPT ![server] = @ \cup {"rows"}]
  /\ UNCHANGED <<pc, local, admin, source, programs, cluster, serve, unit, enabled, quiet, well>>

Script == \/ Remove \/ Get \/ Make \/ Initdb \/ Bootstrap \/ StartServer
          \/ CreateDb \/ CreateUser \/ Alter \/ StopServer

Next == \/ Begin \/ Script \/ MakePostgresService \/ EnableService
        \/ Gone \/ OrphanEnds \/ Reboot \/ StartService \/ UserWrites

Spec == Init /\ [][Next]_vars
-----------------------------------------------------------------------------
TypeOK ==
  /\ pc \in {"idle", "done", "enable"} \cup Running
  /\ local \in Modes /\ admin \in BOOLEAN
  /\ source \in BOOLEAN
  /\ programs \subseteq {Prefix(TRUE), Prefix(FALSE)}
  /\ cluster \in [DataDirs -> {"none", "half", "whole"}]
  /\ content \in [DataDirs -> SUBSET {"db", "role", "password", "rows"}]
  /\ server \in DataDirs \cup {NoServer}
  /\ orphan \in BOOLEAN /\ (orphan => server # NoServer)
  /\ unit \in {{}} \cup {{m} : m \in Modes}
  /\ enabled \in BOOLEAN /\ quiet \in BOOLEAN /\ well \in BOOLEAN

(* What is in the cluster in /data stays there: no run in either mode, no  *)
(* kill and no failed build takes anything out of it, although every run   *)
(* deletes the programs and tries to initialise a cluster again.           *)
SystemDataSurvives ==
  [][content[DataDir(FALSE)] \subseteq content'[DataDir(FALSE)]]_vars

(* A run in which nothing failed, and which found the port free, or had by *)
(* the server of its own cluster, as the unit starts it with IS_LOCAL=0,   *)
(* ends with database and role, and with IS_LOCAL=0 the role has its       *)
(* password: unless a crash in initdb has left a cluster in /data that     *)
(* initdb will not replace and no server will start from.  A local run     *)
(* replaces what it finds; root cannot make one.  Its server is gone at    *)
(* the end, also the unit's, so that the unit can be started.              *)
RunEndsWithDatabase ==
  (pc = "done" /\ well /\ quiet /\ ~(local /\ admin))
    => /\ server # D
       /\ \/ {"db", "role"} \cup (IF local THEN {} ELSE {"password"}) \subseteq content[D]
          \/ ~local /\ cluster[D] = "half"

(* The server that a reboot starts from the unit of an IS_LOCAL=m run is   *)
(* that of the cluster which postgres_get makes with IS_LOCAL=m.           *)
Restarted(m) ==
  (/\ Reboot /\ m \in unit /\ enabled
   /\ Prefix(m) \in programs /\ cluster[DataDir(m)] = "whole")
     => server' = DataDir(m)

(* With IS_LOCAL=0, whatever server ran before, orphans included.          *)
SystemUnitStartsCluster == [][Restarted(FALSE)]_vars
=============================================================================
