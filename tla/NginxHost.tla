------------------------------ MODULE NginxHost ------------------------------
(***************************************************************************)
(* A host on which src/nginx_builder installs nginx for good.  Which       *)
(* functions a run calls is decided by what the user takes out of the      *)
(* comments of main, so several runs make up an installation: they prepare *)
(* the host, build LuaJIT and get the Lua libraries that nginx loads when  *)
(* it starts, configure nginx, and write its unit and the tmpfiles.d line. *)
(* Between and during them the script is killed and the host rebooted.     *)
(*                                                                         *)
(* make_configure ends with exec bash: the user types make install in that *)
(* shell, and what stands below make_configure in main is never called.    *)
(* lua_src ends with strings that the user has to put into nginx.conf.     *)
(* root_prepare is the module of that name, over the same variables; the   *)
(* host is not a Debian 10, the sources of nginx and of its modules are    *)
(* there, and the libraries that etc_src puts below /usr/local.            *)
(***************************************************************************)
EXTENDS Integers, Sequences

CONSTANTS
  Modes,   \* the values of IS_LOCAL: TRUE for 1
  Admins   \* whether the user is root: a set of Booleans

ASSUME HostAssumption == Modes \subseteq BOOLEAN /\ Admins \subseteq BOOLEAN

VARIABLES
  pc,        \* "idle", "main", the function that runs, "shell", "install"
  at,        \* the last of Calls that main has come to
  step,      \* the next command of the function
  gcc, user, binary, lib, runDir, logDir,  \* as in RootPrepare
  local, admin,
  jit,       \* the LuaJIT library in /opt/lua_src/luajit2.git/build/lib
  lua,       \* lua-resty-core and lrucache in /opt/lua_src: "none" before
             \* both are there, "half" if a clone was cut short, "whole"
  luaPath,   \* the strings in $PARENTF/lua_package_path name /opt/lua_src
  etc,       \* /etc/<nginx>/nginx.conf: "none", "stock", with the "lua" strings
  unit,      \* nginx.service: "none", "written", "enabled"
  tmpfile,   \* /usr/lib/tmpfiles.d/nginx.conf makes /run/nginx
  nginx,     \* nginx runs
  ended      \* the parts of an installation whose last call did its work

prep   == <<step, gcc, user, binary, lib, runDir, logDir>>
flags  == <<local, admin>>
luas   == <<jit, lua, luaPath>>
svc    == <<unit, tmpfile>>
system == <<luas, etc, svc>>
vars   == <<pc, at, prep, flags, system, nginx, ended>>

R == INSTANCE RootPrepare WITH
       Buster <- FALSE, FirstGcc <- {}, MaxTrouble <- 0,
       found <- <<>>, trouble <- 0

(* The functions, in the order of their lines in main.                     *)
Calls == <<"root_prepare", "luajit2_prepare", "lua_src", "make_configure",
           "make_nginx_service", "make_nginx_tmpfile">>

(* What the user has to bring to its end, make install and the editing of  *)
(* nginx.conf included.                                                    *)
Files    == {"root_prepare", "luajit2_prepare", "lua_src", "install", "edit"}
AllParts == Files \cup {"make_nginx_service", "make_nginx_tmpfile"}

(* The present run is one that changes the host.                           *)
Host == admin /\ ~local

(* Mutant of FirstStep: both services' step for every function.            *)
FirstStepUnit(f) == "unit"

FirstStep(f) == CASE f = "root_prepare"       -> "root"
                  [] f = "luajit2_prepare"    -> "get"
                  [] f = "lua_src"            -> "core"
                  [] f = "make_nginx_service" -> "unit"
                  [] OTHER                    -> "write"
-----------------------------------------------------------------------------
(* What nginx asks of the host, in the order in which it asks.             *)

(* ld.so finds LuaJIT by the rpath that nginx was linked with.             *)
LibraryFound == jit

(* The Lua VM is made while nginx.conf is read, whatever it says, and      *)
(* needs resty.core, which only a lua_package_path leads to.               *)
LuaLoads == etc = "lua" /\ lua = "whole"

(* nginx.conf names no user: --user=nginx is looked up.                    *)
UserKnown == user

(* The pid file is opened in its directory, by nginx -t as well.           *)
PidFileMade(run) == run

(* The temporary directories are made, but not the directory they are in.  *)
PathsMade == lib

LogsOpened == logDir

NginxStarts(run) ==
  /\ binary /\ LibraryFound /\ LuaLoads
  /\ UserKnown /\ PidFileMade(run) /\ PathsMade /\ LogsOpened
-----------------------------------------------------------------------------
Init ==
  /\ pc = "idle" /\ at = 0 /\ step = "idle"
  /\ gcc = [seven |-> FALSE, eight |-> TRUE, use |-> 8, known |-> {}, auto |-> TRUE]
  /\ user = FALSE /\ binary = FALSE /\ lib = FALSE
  /\ runDir = FALSE /\ logDir = FALSE
  /\ local \in Modes /\ admin \in Admins
  /\ jit = FALSE /\ lua = "none" /\ luaPath = FALSE
  /\ etc = "none" /\ unit = "none" /\ tmpfile = FALSE
  /\ nginx = FALSE /\ ended = {}

(* The script's process is gone.                                           *)
Over == pc' = "idle" /\ at' = 0 /\ step' = "idle"

(* The function comes back to main.                                        *)
Back == pc' = "main" /\ step' = "idle" /\ UNCHANGED at

(* The rest of a step that is none of root_prepare's.                      *)
HostKept == UNCHANGED <<gcc, user, binary, lib, runDir, logDir, flags, nginx>>

(* The user makes the code fit and runs it.                                *)
Start ==
  /\ pc = "idle" /\ pc' = "main"
  /\ local' \in Modes /\ admin' \in Admins
  /\ UNCHANGED <<at, prep, system, nginx, ended>>

(* main comes to its end, or calls one of the functions further down that  *)
(* are not commented out.  Root's root_prepare with IS_LOCAL=0 is known to *)
(* take nginx away.                                                        *)
Call ==
  /\ pc = "main"
  /\ \/ Over /\ UNCHANGED ended
     \/ \E i \in DOMAIN Calls :
          /\ at < i /\ at' = i
          /\ pc' = Calls[i] /\ step' = FirstStep(Calls[i])
          /\ ended' = IF Calls[i] = "root_prepare" /\ Host
                      THEN ended \ {"root_prepare", "install"} ELSE ended
  /\ HostKept /\ UNCHANGED system

RootPrepare ==
  /\ pc = "root_prepare"
  /\ R!Function
  /\ pc' = CASE step' = "return" -> "main" [] step' \in R!Exits -> "idle"
             [] OTHER -> pc
  /\ at' = IF step' \in R!Exits THEN 0 ELSE at
  /\ ended' = IF step' = "return" /\ ~local THEN ended \cup {"root_prepare"} ELSE ended
  /\ UNCHANGED <<system, nginx>>

(* luajit2_prepare: get_github may exit.  With IS_GET_ONLY=0 LuaJIT is     *)
(* built, then make install writes its library anew; make may fail.        *)
PrepareLuaJIT ==
  /\ pc = "luajit2_prepare"
  /\ \/ step = "get" /\ Over /\ UNCHANGED <<jit, ended>>
     \/ step = "get" /\ Back /\ UNCHANGED <<jit, ended>>
     \/ /\ step = "get" /\ Host /\ step' = "make"
        /\ ended' = ended \ {"luajit2_prepare"}
        /\ UNCHANGED <<pc, at, jit>>
     \/ /\ step = "make" /\ step' = "write" /\ jit' = FALSE
        /\ UNCHANGED <<pc, at, ended>>
     \/ /\ step = "write" /\ Back /\ jit' = TRUE
        /\ ended' = ended \cup {"luajit2_prepare"}
     \/ step \in {"make", "write"} /\ Back /\ UNCHANGED <<jit, ended>>
  /\ HostKept /\ UNCHANGED <<lua, luaPath, etc, svc>>

(* lua_src: the first two folders, the others, and lua_package_path; each  *)
(* get_github may exit.  Only root gets into /opt/lua_src and clones there *)
(* what is missing; a folder that is there is accepted as it is.           *)
GetLua ==
  /\ pc = "lua_src"
  /\ \/ Over /\ UNCHANGED <<lua, luaPath, ended>>
     \/ /\ step = "core" /\ step' = "rest"
        /\ lua' = IF Host /\ lua = "none" THEN "whole" ELSE lua
        /\ UNCHANGED <<pc, at, luaPath, ended>>
     \/ /\ step = "rest" /\ Back
        /\ luaPath' = ~local
        /\ ended' = IF Host THEN ended \cup {"lua_src"} ELSE ended
        /\ UNCHANGED lua
  /\ HostKept /\ UNCHANGED <<jit, etc, svc>>

(* The script is killed while git clones one of the first two folders.     *)
KillClone ==
  /\ pc = "lua_src" /\ step = "core" /\ Host /\ lua = "none"
  /\ lua' = "half" /\ Over
  /\ HostKept /\ UNCHANGED <<jit, luaPath, etc, svc, ended>>

(* The strings of lua_package_path, put into nginx.conf                    *)
EditConf ==
  /\ pc = "idle" /\ luaPath /\ etc = "stock"
  /\ etc' = "lua" /\ ended' = ended \cup {"edit"}
  /\ HostKept /\ UNCHANGED <<pc, at, step, luas, svc>>

(* nginx_configuration, and exec bash in its directory                     *)
MakeConfigure ==
  /\ pc = "make_configure" /\ pc' = "shell" /\ at' = 0 /\ step' = "idle"
  /\ HostKept /\ UNCHANGED <<system, ended>>

(* ./nginx_configuration, which wants LuaJIT, and make install, with the   *)
(* prefix it was written for: the local one leaves nothing of what this    *)
(* module is about.                                                        *)
BeginInstall ==
  /\ pc = "shell" /\ Host /\ jit
  /\ pc' = "install" /\ step' = "move"
  /\ ended' = ended \ {"install"}
  /\ HostKept /\ UNCHANGED <<at, system>>

(* Mutant of ConfInstalled: nginx.conf is copied over another one.         *)
ConfAnew(conf) == "stock"

(* nginx.conf is copied unless there is one.                               *)
ConfInstalled(conf) == IF conf = "none" THEN "stock" ELSE conf

(* The commands of make install: the old binary is moved away and the new  *)
(* one copied, then nginx.conf, the directory of the pid file and that of  *)
(* the logs are made unless they are there.                                *)
InstallStep ==
  /\ pc = "install"
  /\ \/ /\ step = "move" /\ step' = "copy" /\ binary' = FALSE
        /\ UNCHANGED <<pc, etc, runDir, logDir, ended>>
     \/ /\ step = "copy" /\ step' = "conf" /\ binary' = TRUE
        /\ UNCHANGED <<pc, etc, runDir, logDir, ended>>
     \/ /\ step = "conf" /\ step' = "pid" /\ etc' = ConfInstalled(etc)
        /\ UNCHANGED <<pc, binary, runDir, logDir, ended>>
     \/ /\ step = "pid" /\ step' = "logs" /\ runDir' = TRUE
        /\ UNCHANGED <<pc, binary, etc, logDir, ended>>
     \/ /\ step = "logs" /\ step' = "idle" /\ logDir' = TRUE
        /\ pc' = "shell" /\ ended' = ended \cup {"install"}
        /\ UNCHANGED <<binary, etc, runDir>>
  /\ UNCHANGED <<at, gcc, user, lib, flags, luas, svc, nginx>>

LeaveShell ==
  /\ pc = "shell" /\ Over
  /\ HostKept /\ UNCHANGED <<system, ended>>

(* exit 1 of make_nginx_service and make_nginx_tmpfile                     *)
NotRoot ==
  /\ pc \in {"make_nginx_service", "make_nginx_tmpfile"} /\ ~admin
  /\ Over
  /\ HostKept /\ UNCHANGED <<system, ended>>

(* The unit is written, then enabled; written again it stays enabled.      *)
MakeService ==
  /\ pc = "make_nginx_service" /\ admin
  /\ \/ /\ step = "unit" /\ step' = "enable"
        /\ unit' = IF unit = "none" THEN "written" ELSE unit
        /\ UNCHANGED <<pc, at, ended>>
     \/ /\ step = "enable" /\ Back
        /\ unit' = "enabled"
        /\ ended' = ended \cup {"make_nginx_service"}
  /\ HostKept /\ UNCHANGED <<luas, etc, tmpfile>>

(* Mutant of MakeTmpfile: /run/nginx is made now, but not at every boot.   *)
MakeTmpfileNow ==
  /\ pc = "make_nginx_tmpfile" /\ admin
  /\ Back /\ runDir' = TRUE
  /\ ended' = ended \cup {"make_nginx_tmpfile"}
  /\ UNCHANGED <<gcc, user, binary, lib, logDir, flags, system, nginx>>

MakeTmpfile ==
  /\ pc = "make_nginx_tmpfile" /\ admin
  /\ Back /\ tmpfile' = TRUE
  /\ ended' = ended \cup {"make_nginx_tmpfile"}
  /\ HostKept /\ UNCHANGED <<luas, etc, unit>>

(* systemctl start nginx.service                                           *)
StartNginx ==
  /\ pc = "idle" /\ unit # "none" /\ ~nginx
  /\ nginx' = NginxStarts(runDir)
  /\ UNCHANGED <<pc, at, prep, flags, system, ended>>

Kill ==
  /\ pc # "idle" /\ Over
  /\ HostKept /\ UNCHANGED <<system, ended>>

(* /run is empty but for what tmpfiles.d lists, and the enabled unit is    *)
(* started.                                                                *)
Reboot ==
  /\ Over
  /\ runDir' = tmpfile
  /\ nginx' = (unit = "enabled" /\ NginxStarts(tmpfile))
  /\ UNCHANGED <<gcc, user, binary, lib, logDir, flags, system, ended>>

Script == \/ Call \/ RootPrepare \/ PrepareLuaJIT \/ GetLua \/ MakeConfigure
          \/ NotRoot \/ MakeService \/ MakeTmpfile

Next == \/ Start \/ Script \/ KillClone \/ EditConf \/ BeginInstall
        \/ InstallStep \/ LeaveShell \/ StartNginx \/ Kill \/ Reboot

Spec == Init /\ [][Next]_vars
-----------------------------------------------------------------------------
TypeOK ==
  /\ pc \in {"idle", "main", "shell", "install"} \cup {Calls[i] : i \in DOMAIN Calls}
  /\ at \in 0..Len(Calls)
  /\ pc = "root_prepare" => step \in R!Running
  /\ <<user, binary, lib, runDir, logDir, jit>> \in
       BOOLEAN \X BOOLEAN \X BOOLEAN \X BOOLEAN \X BOOLEAN \X BOOLEAN
  /\ luaPath \in BOOLEAN /\ tmpfile \in BOOLEAN /\ nginx \in BOOLEAN
  /\ local \in Modes /\ admin \in Admins
  /\ lua \in {"none", "half", "whole"}
  /\ etc \in {"none", "stock", "lua"}
  /\ unit \in {"none", "written", "enabled"}
  /\ ended \subseteq AllParts

(* A host on which every part of an installation has done its work when it *)
(* was last begun, in whatever order the runs, kills and reboots between   *)
(* and within them came: nginx.conf was edited as lua_src says, no later   *)
(* root_prepare has taken nginx away without a make install, no make       *)
(* failed or was cut short and was not made again. A reboot brings nginx   *)
(* up, unless a clone that was once cut short was accepted as lua-resty-   *)
(* core: nothing ever repairs it.                                          *)
AfterReboot == [][(Reboot /\ ended = AllParts) => nginx' \/ lua = "half"]_vars

(* The services' parts left out: what nginx needs besides is there, in     *)
(* every state between and within runs, and only /run/nginx, which every   *)
(* boot empties, can be what is missing.  A part whose last call failed or *)
(* was cut short is not among those that did their work, and neither is    *)
(* make install after a later call of root_prepare.                        *)
OnlyRunDirLost ==
  Files \subseteq ended => NginxStarts(TRUE) \/ lua = "half"
=============================================================================
