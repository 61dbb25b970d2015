----------------------------- MODULE RootPrepare -----------------------------
(***************************************************************************)
(* root_prepare of src/nginx_builder: users, packages and directories of a *)
(* system-wide installation.  On Debian 10 it will not go on with gcc 8:   *)
(* it installs gcc 7, registers both compilers with update-alternatives,   *)
(* exits, and asks to be run again; or it only says what to type.  With    *)
(* IS_LOCAL=0 it ends by deleting the nginx that is installed.             *)
(*                                                                         *)
(* A run may be killed before any command, a package may not be had, and   *)
(* an upgrade of Debian's package gcc puts /usr/bin/gcc back to gcc-8.     *)
(* The user does what the last message asks, as far as it can be done.     *)
(***************************************************************************)
EXTENDS Integers

CONSTANTS
  Buster,     \* the system is Debian 10
  FirstGcc,   \* the compilers that may be there at first
  Admins,     \* whether the user is root: a set of Booleans
  Modes,      \* the values of IS_LOCAL: TRUE for 1
  MaxTrouble  \* how many kills and upgrades

Compilers == [seven : BOOLEAN, eight : BOOLEAN, use : {0, 7, 8},
              known : SUBSET {7, 8}, auto : BOOLEAN]

(* The compilers that are there.                                           *)
There(g) == {v \in {7, 8} : IF v = 7 THEN g.seven ELSE g.eight}

(* gcc, and what update-alternatives knows, are compilers that are there.  *)
Sound(g) == /\ g.known \subseteq There(g) /\ g.use \in There(g) \cup {0}
            /\ g.eight => g.use # 0

ASSUME RootAssumption ==
  /\ Buster \in BOOLEAN
  /\ FirstGcc \subseteq {g \in Compilers : Sound(g)}
  /\ Admins \subseteq BOOLEAN /\ Modes \subseteq BOOLEAN
  /\ MaxTrouble \in Nat

VARIABLES
  step,    \* the next command, or how the last run ended
  gcc,     \* the compilers, and update-alternatives' view of them
  user,    \* the user nginx exists
  binary,  \* /usr/local/<nginx> is there
  lib,     \* /var/lib/nginx
  runDir,  \* /var/run/nginx
  logDir,  \* /var/log/nginx
  local,   \* IS_LOCAL of the present run
  admin,   \* the run is root's
  found,   \* what of nginx was there when the run began
  trouble  \* kills and upgrades so far

host  == <<binary, lib, runDir, logDir>>
rvars == <<step, gcc, user, host, local, admin>>
vars  == <<rvars, found, trouble>>

Exits   == {"exitRoot", "exitSet", "exitAgain"}
Running == {"root", "user", "packages", "check", "getGcc7", "register7",
            "register8", "choose7", "wipeNginx", "wipeLib", "makeLib",
            "makeRun", "makeLog"}
PastCheck == {"wipeNginx", "wipeLib", "makeLib", "makeRun", "makeLog"}

(* Mutant of Registered: the link's name is not given, and the priority    *)
(* passes for the compiler.                                                *)
RegisteredPriority(g, v) ==
  [g EXCEPT !.known = @ \cup {IF v = 7 THEN 10 ELSE 20}]

(* update-alternatives --install /usr/bin/gcc gcc /usr/bin/gcc-v: in       *)
(* automatic mode the highest priority wins, and that is gcc-8's.          *)
Registered(g, v) ==
  [g EXCEPT !.known = @ \cup {v},
            !.use   = IF ~g.auto THEN @ ELSE IF 8 \in g.known THEN 8 ELSE v]

(* update-alternatives --set gcc /usr/bin/gcc-v: an error, and no change,  *)
(* for a compiler that is not registered.                                  *)
Chosen(g, v) == IF v \in g.known THEN [g EXCEPT !.use = v, !.auto = FALSE] ELSE g
-----------------------------------------------------------------------------
Init ==
  /\ step = "idle"
  /\ gcc \in FirstGcc
  /\ user \in BOOLEAN
  /\ binary \in BOOLEAN /\ lib = binary /\ runDir = binary /\ logDir = binary
  /\ local \in Modes /\ admin \in Admins
  /\ found = host
  /\ trouble = 0

(* The script is run, for the first time or again.  After the message of   *)
(* line 92 the user first does what it says (Obey).                        *)
Begin ==
  /\ step \notin Running \cup {"exitSet"}
  /\ step' = "root"
  /\ local' \in Modes /\ admin' \in Admins
  /\ found' = host
  /\ UNCHANGED <<gcc, user, host, trouble>>

(* Mutant of CheckRoot: the old nginx is deleted first.                    *)
CheckRootWipes ==
  /\ step = "root"
  /\ step' = IF admin THEN "user" ELSE "exitRoot"
  /\ binary' = (binary /\ local)
  /\ UNCHANGED <<gcc, user, lib, runDir, logDir, local, admin>>

(* if ! whoami | grep -q root                                              *)
CheckRoot ==
  /\ step = "root"
  /\ step' = IF admin THEN "user" ELSE "exitRoot"
  /\ UNCHANGED <<gcc, user, host, local, admin>>

(* groupadd, useradd: after a kill between them groupadd fails and useradd *)
(* finds its group.                                                        *)
AddUser ==
  /\ step = "user" /\ step' = "packages"
  /\ user' = TRUE
  /\ UNCHANGED <<gcc, host, local, admin>>

AfterCheck == IF local THEN "return" ELSE "wipeNginx"

(* The packages of the distribution; build-essential brings gcc-8.  What   *)
(* cannot be had is not noticed.                                           *)
Packages ==
  /\ step = "packages"
  /\ step' = IF Buster THEN "check" ELSE AfterCheck
  /\ \/ UNCHANGED gcc
     \/ /\ Buster /\ ~gcc.eight
        /\ gcc' = [gcc EXCEPT !.eight = TRUE, !.use = IF @ = 0 THEN 8 ELSE @]
  /\ UNCHANGED <<user, host, local, admin>>

(* Mutants of Check: gcc-7 itself is refused; gcc-8 is accepted once gcc-7 *)
(* is there.                                                               *)
CheckRefusesSeven ==
  /\ step = "check"
  /\ step' = CASE gcc.eight /\ gcc.seven /\ gcc.use >= 7 -> "exitSet"
               [] gcc.eight /\ ~gcc.seven                -> "getGcc7"
               [] OTHER                                  -> AfterCheck
  /\ UNCHANGED <<gcc, user, host, local, admin>>
CheckPresence ==
  /\ step = "check"
  /\ step' = IF gcc.eight /\ ~gcc.seven THEN "getGcc7" ELSE AfterCheck
  /\ UNCHANGED <<gcc, user, host, local, admin>>

(* The two tests of /usr/bin/gcc-8, /usr/bin/gcc-7 and gcc -dumpversion.   *)
Check ==
  /\ step = "check"
  /\ step' = CASE gcc.eight /\ gcc.seven /\ gcc.use > 7 -> "exitSet"
               [] gcc.eight /\ ~gcc.seven               -> "getGcc7"
               [] OTHER                                 -> AfterCheck
  /\ UNCHANGED <<gcc, user, host, local, admin>>

(* aptitude install -y gcc-7, and the test for what it brought             *)
GotGcc7 ==
  /\ step = "getGcc7" /\ step' = "register7"
  /\ gcc' = [gcc EXCEPT !.seven = TRUE]
  /\ UNCHANGED <<user, host, local, admin>>

NoGcc7 ==
  /\ step = "getGcc7" /\ step' = "exitAgain"
  /\ UNCHANGED <<gcc, user, host, local, admin>>

Register7 ==
  /\ step = "register7" /\ step' = "register8"
  /\ gcc' = Registered(gcc, 7)
  /\ UNCHANGED <<user, host, local, admin>>

Register8 ==
  /\ step = "register8" /\ step' = "choose7"
  /\ gcc' = Registered(gcc, 8)
  /\ UNCHANGED <<user, host, local, admin>>

(* update-alternatives --set gcc /usr/bin/gcc-7, and err                   *)
Choose7 ==
  /\ step = "choose7" /\ step' = "exitAgain"
  /\ gcc' = Chosen(gcc, 7)
  /\ UNCHANGED <<user, host, local, admin>>

(* rm -rf /usr/local/$NGINXV                                               *)
WipeNginx ==
  /\ step = "wipeNginx" /\ step' = "wipeLib"
  /\ binary' = FALSE
  /\ UNCHANGED <<gcc, user, lib, runDir, logDir, local, admin>>

(* rm -rf /var/lib/nginx/                                                  *)
WipeLib ==
  /\ step = "wipeLib" /\ step' = "makeLib"
  /\ lib' = FALSE
  /\ UNCHANGED <<gcc, user, binary, runDir, logDir, local, admin>>

(* Mutant of MakeLib: mkdir without -p, in a directory that is gone.       *)
MakeLibPlain ==
  /\ step = "makeLib" /\ step' = "makeRun"
  /\ UNCHANGED <<gcc, user, host, local, admin>>

MakeLib ==
  /\ step = "makeLib" /\ step' = "makeRun"
  /\ lib' = TRUE
  /\ UNCHANGED <<gcc, user, binary, runDir, logDir, local, admin>>

MakeRun ==
  /\ step = "makeRun" /\ step' = "makeLog"
  /\ runDir' = TRUE
  /\ UNCHANGED <<gcc, user, binary, lib, logDir, local, admin>>

MakeLog ==
  /\ step = "makeLog" /\ step' = "return"
  /\ logDir' = TRUE
  /\ UNCHANGED <<gcc, user, binary, lib, runDir, local, admin>>

Function ==
  \/ CheckRoot \/ AddUser \/ Packages \/ Check
  \/ GotGcc7 \/ NoGcc7 \/ Register7 \/ Register8 \/ Choose7
  \/ WipeNginx \/ WipeLib \/ MakeLib \/ MakeRun \/ MakeLog
-----------------------------------------------------------------------------
Script == Function /\ UNCHANGED <<found, trouble>>

(* The user types update-alternatives --set gcc /usr/bin/gcc-7, as line 92 *)
(* says, and is left with running the builder again.                       *)
Obey ==
  /\ step = "exitSet" /\ step' = "exitAgain"
  /\ gcc' = Chosen(gcc, 7)
  /\ UNCHANGED <<user, host, local, admin, found, trouble>>

Kill ==
  /\ step \in Running /\ trouble < MaxTrouble
  /\ step' = "idle" /\ trouble' = trouble + 1
  /\ UNCHANGED <<gcc, user, host, local, admin, found>>

(* Debian's package gcc is upgraded between two runs.                      *)
Upgrade ==
  /\ step \in {"idle"} \cup Exits /\ trouble < MaxTrouble
  /\ gcc.eight /\ gcc.use # 8
  /\ gcc' = [gcc EXCEPT !.use = 8]
  /\ trouble' = trouble + 1
  /\ UNCHANGED <<step, user, host, local, admin, found>>

(* make install of nginx, in the shell that a later part of the script     *)
(* leaves open.                                                            *)
InstallNginx ==
  /\ step = "return" /\ ~local /\ step' = "idle"
  /\ binary' = TRUE /\ runDir' = TRUE /\ logDir' = TRUE
  /\ UNCHANGED <<gcc, user, lib, local, admin, found, trouble>>

Next == Begin \/ Script \/ Obey \/ Kill \/ Upgrade \/ InstallNginx

(* The commands end; the user follows the messages, being root among them, *)
(* and a package that is asked for again and again is had at some time.    *)
Spec == /\ Init /\ [][Next]_vars
        /\ WF_vars(Script) /\ SF_vars(Begin /\ admin') /\ WF_vars(Obey)
        /\ SF_vars(GotGcc7 /\ UNCHANGED <<found, trouble>>)
-----------------------------------------------------------------------------
TypeOK ==
  /\ step \in {"idle", "return"} \cup Running \cup Exits
  /\ gcc \in Compilers
  /\ <<user, binary, lib, runDir, logDir, local>> \in
       BOOLEAN \X BOOLEAN \X BOOLEAN \X BOOLEAN \X BOOLEAN \X Modes
  /\ admin \in Admins
  /\ found \in BOOLEAN \X BOOLEAN \X BOOLEAN \X BOOLEAN
  /\ trouble \in 0..MaxTrouble

(* What update-alternatives knows, it can be asked for: the script never   *)
(* registers a compiler that is not there, and gcc never names one.  Past  *)
(* the check gcc is 7, or there is no gcc 8 to be rid of: whatever was     *)
(* installed, upgraded or killed before.                                   *)
CompilerIsSeven ==
  /\ Sound(gcc)
  /\ (Buster /\ step \in PastCheck /\ gcc.eight) => gcc.use = 7

(* A run that exits with a message has deleted nothing: the nginx that was *)
(* there when it began is still there, and so are its directories.         *)
ExitKeepsNginx == step \in Exits => host = found

(* Whatever was half done before, a run of root with IS_LOCAL=0 that comes *)
(* back leaves user and directories that nginx needs, and no old binary,   *)
(* so that what is there afterwards is what make install will put there.   *)
LeavesAPlace ==
  (step = "return" /\ ~local) => user /\ lib /\ runDir /\ logDir /\ ~binary

(* gcc-7 is there, but a kill came before it was registered.               *)
Unregistered == gcc.eight /\ gcc.seven /\ 7 \notin gcc.known

(* Who does what the messages ask for and runs the builder again gets past *)
(* root_prepare at last, through kills, upgrades and packages that are not *)
(* to be had: or is stuck between gcc-7's installation and registration,   *)
(* and nowhere else.                                                       *)
ObeyingLeadsThrough ==
  (step \in {"exitSet", "exitAgain"}) ~> (step = "return" \/ Unregistered)

(* src/nginx_builder:92 and 110: doing so leads through, always.           *)
MessagesLeadThrough == (step \in {"exitSet", "exitAgain"}) ~> (step = "return")
=============================================================================
