-------------------------- MODULE NginxHostProofs ---------------------------
(* For either value of IS_LOCAL, for root and for other users: what of an  *)
(* installation stays in place.                                            *)
EXTENDS NginxHost, TLAPS

Making == {"wipeLib", "makeLib", "makeRun", "makeLog"}

(* What was brought to its end is there.                                   *)
EndedIsThere ==
  /\ "root_prepare" \in ended => user = TRUE /\ lib = TRUE /\ logDir = TRUE
  /\ "install" \in ended => binary = TRUE /\ logDir = TRUE
  /\ "luajit2_prepare" \in ended => jit = TRUE
  /\ "lua_src" \in ended => lua # "none"
  /\ "edit" \in ended => etc = "lua"
  /\ "make_nginx_service" \in ended => unit = "enabled"
  /\ "make_nginx_tmpfile" \in ended => tmpfile = TRUE

LuaStates == lua \in {"none", "half", "whole"}

(* How far root_prepare has come: from its call nothing of it and nothing  *)
(* of make install counts until it has made everything anew.               *)
Preparing ==
  pc = "root_prepare" =>
    /\ step \in {"root", "user", "packages", "wipeNginx"} \cup Making
    /\ step # "root" => admin
    /\ step \in {"packages", "wipeNginx"} \cup Making => user = TRUE
    /\ step \in {"wipeNginx"} \cup Making => ~local
    /\ Host => "root_prepare" \notin ended /\ "install" \notin ended
    /\ step \in {"makeRun", "makeLog"} => lib = TRUE

(* How far the making of LuaJIT, and of the Lua libraries, has come.       *)
Building ==
  /\ pc = "luajit2_prepare" /\ step # "get" => "luajit2_prepare" \notin ended
  /\ pc = "lua_src" /\ step = "rest" /\ Host => lua # "none"

(* How far make install has come.                                          *)
Installing ==
  pc = "install" =>
    /\ step \in {"move", "copy", "conf", "pid", "logs"}
    /\ "install" \notin ended
    /\ step \in {"conf", "pid", "logs"} => binary = TRUE

Inv == EndedIsThere /\ LuaStates /\ Preparing /\ Building /\ Installing

LEMMA InvInit == Init => Inv
  BY DEF Init, Inv, EndedIsThere, LuaStates, Preparing, Building, Installing

(* root_prepare on a host that is no Debian 10: one command at a time.     *)
LEMMA PrepareStep == Inv /\ RootPrepare => Inv'
<1> SUFFICES ASSUME Inv, RootPrepare PROVE Inv'  OBVIOUS
<1> USE DEF RootPrepare, R!Exits, R!host, Making
<1>0. /\ step \in {"root", "user", "packages", "wipeNginx"} \cup Making
      /\ pc = "root_prepare" /\ R!Function
      /\ UNCHANGED <<jit, lua, luaPath, etc, unit, tmpfile>>
  BY DEF Inv, Preparing, system, luas, svc
<1> USE DEF Inv, EndedIsThere, LuaStates, Preparing, Building, Installing, Host
<1>1. CASE R!CheckRoot  BY <1>0, <1>1 DEF R!CheckRoot
<1>2. CASE R!AddUser  BY <1>0, <1>2 DEF R!AddUser
<1>3. CASE R!Packages  BY <1>0, <1>3 DEF R!Packages, R!AfterCheck
<1>4. CASE R!WipeNginx  BY <1>0, <1>4 DEF R!WipeNginx
<1>5. CASE R!WipeLib  BY <1>0, <1>5 DEF R!WipeLib
<1>6. CASE R!MakeLib  BY <1>0, <1>6 DEF R!MakeLib
<1>7. CASE R!MakeRun  BY <1>0, <1>7 DEF R!MakeRun
<1>8. CASE R!MakeLog  BY <1>0, <1>8 DEF R!MakeLog
<1> QED
  BY <1>0, <1>1, <1>2, <1>3, <1>4, <1>5, <1>6, <1>7, <1>8
  DEF R!Function, R!Check, R!GotGcc7, R!NoGcc7, R!Register7, R!Register8,
      R!Choose7

LEMMA InvStep == Inv /\ [Next]_vars => Inv'
<1> SUFFICES ASSUME Inv, [Next]_vars PROVE Inv'  OBVIOUS
<1> USE DEF Inv, EndedIsThere, LuaStates, Preparing, Building, Installing,
            Host, HostKept, Over, Back, prep, flags, luas, svc, system
<1>1. CASE Start  BY <1>1 DEF Start
<1>2. CASE Call
  <2>1. CASE Over /\ UNCHANGED ended  BY <1>2, <2>1 DEF Call
  <2>2. ASSUME NEW i \in DOMAIN Calls, pc' = Calls[i],
               step' = FirstStep(Calls[i]),
               ended' = IF Calls[i] = "root_prepare" /\ Host
                        THEN ended \ {"root_prepare", "install"} ELSE ended
        PROVE  Inv'
    <3>1. pc' \in {"root_prepare", "luajit2_prepare", "lua_src",
                   "make_configure", "make_nginx_service", "make_nginx_tmpfile"}
      BY <2>2 DEF Calls
    <3>2. UNCHANGED <<user, binary, lib, logDir, local, admin, jit, lua, etc,
                      unit, tmpfile>>
      BY <1>2 DEF Call
    <3>3. ended' \subseteq ended  BY <2>2
    <3>4. EndedIsThere' /\ LuaStates' /\ Installing'
      BY <3>1, <3>2, <3>3
    <3>5. Preparing'
      BY <2>2, <3>1, <3>2 DEF FirstStep, Making
    <3>6. Building'
      BY <2>2, <3>1, <3>2 DEF FirstStep
    <3> QED BY <3>4, <3>5, <3>6
  <2> QED BY <1>2, <2>1, <2>2 DEF Call
<1>3. CASE RootPrepare  BY <1>3, PrepareStep
<1>4. CASE PrepareLuaJIT  BY <1>4 DEF PrepareLuaJIT
<1>5. CASE GetLua  BY <1>5 DEF GetLua
<1>6. CASE KillClone  BY <1>6 DEF KillClone
<1>7. CASE EditConf  BY <1>7 DEF EditConf
<1>8. CASE MakeConfigure  BY <1>8 DEF MakeConfigure
<1>9. CASE NotRoot  BY <1>9 DEF NotRoot
<1>10. CASE MakeService  BY <1>10 DEF MakeService
<1>11. CASE MakeTmpfile  BY <1>11 DEF MakeTmpfile
<1>12. CASE BeginInstall  BY <1>12 DEF BeginInstall
<1>13. CASE InstallStep  BY <1>13 DEF InstallStep, ConfInstalled
<1>14. CASE LeaveShell  BY <1>14 DEF LeaveShell
<1>15. CASE StartNginx  BY <1>15 DEF StartNginx
<1>16. CASE Kill  BY <1>16 DEF Kill
<1>17. CASE Reboot  BY <1>17 DEF Reboot
<1>18. CASE UNCHANGED vars  BY <1>18 DEF vars
<1> QED
  BY <1>1, <1>2, <1>3, <1>4, <1>5, <1>6, <1>7, <1>8, <1>9, <1>10, <1>11,
     <1>12, <1>13, <1>14, <1>15, <1>16, <1>17, <1>18 DEF Next, Script

LEMMA InvAlways == Spec => []Inv
  BY InvInit, InvStep, PTL DEF Spec

-----------------------------------------------------------------------------
(* The functions that main can call.                                       *)
Functions == {"root_prepare", "luajit2_prepare", "lua_src", "make_configure",
              "make_nginx_service", "make_nginx_tmpfile"}

LEMMA CallNames ==
  /\ DOMAIN Calls = 1..6 /\ Len(Calls) = 6
  /\ {Calls[i] : i \in DOMAIN Calls} = Functions
<1>1. DOMAIN Calls = 1..6 /\ Len(Calls) = 6  BY DEF Calls
<1>2. /\ Calls[1] = "root_prepare" /\ Calls[2] = "luajit2_prepare"
      /\ Calls[3] = "lua_src" /\ Calls[4] = "make_configure"
      /\ Calls[5] = "make_nginx_service" /\ Calls[6] = "make_nginx_tmpfile"
  BY DEF Calls
<1> QED BY <1>1, <1>2 DEF Functions

(* The parts of the type invariant: what runs, what of the host is there,  *)
(* what the run is and what was written and ended.                         *)
TypePc ==
  /\ pc \in {"idle", "main", "shell", "install"} \cup Functions
  /\ at \in 0..6
  /\ pc = "root_prepare" => step \in R!Running
TypeHost ==
  /\ user \in BOOLEAN /\ binary \in BOOLEAN /\ lib \in BOOLEAN
  /\ runDir \in BOOLEAN /\ logDir \in BOOLEAN /\ jit \in BOOLEAN
  /\ luaPath \in BOOLEAN /\ tmpfile \in BOOLEAN /\ nginx \in BOOLEAN
TypeRest ==
  /\ local \in Modes /\ admin \in Admins
  /\ lua \in {"none", "half", "whole"}
  /\ etc \in {"none", "stock", "lua"}
  /\ unit \in {"none", "written", "enabled"}
  /\ ended \subseteq AllParts
Types == TypePc /\ TypeHost /\ TypeRest

LEMMA TypesInit == Init => Types
<1> SUFFICES ASSUME Init PROVE Types  OBVIOUS
<1>1. TypePc  BY DEF Init, TypePc
<1>2. TypeHost  BY DEF Init, TypeHost
<1>3. TypeRest  BY DEF Init, TypeRest
<1> QED BY <1>1, <1>2, <1>3 DEF Types

(* root_prepare, one command at a time.                                    *)
LEMMA TypesPrepare == Types /\ RootPrepare => Types'
<1> SUFFICES ASSUME Types, RootPrepare PROVE Types'  OBVIOUS
<1>0. /\ pc = "root_prepare" /\ R!Function /\ UNCHANGED <<system, nginx>>
      /\ step \in R!Running
  BY DEF RootPrepare, Types, TypePc
<1>1. /\ step' \in R!Running \cup R!Exits \cup {"return"}
      /\ TypeHost' /\ UNCHANGED flags
  <2> USE <1>0 DEF Types, TypeHost, R!Running, R!Exits, R!host, system, luas, svc, flags
  <2>1. CASE R!CheckRoot  BY <2>1 DEF R!CheckRoot
  <2>2. CASE R!AddUser  BY <2>2 DEF R!AddUser
  <2>3. CASE R!Packages  BY <2>3 DEF R!Packages, R!AfterCheck
  <2>4. CASE R!Check  BY <2>4 DEF R!Check, R!AfterCheck
  <2>5. CASE R!GotGcc7  BY <2>5 DEF R!GotGcc7
  <2>6. CASE R!NoGcc7  BY <2>6 DEF R!NoGcc7
  <2>7. CASE R!Register7  BY <2>7 DEF R!Register7
  <2>8. CASE R!Register8  BY <2>8 DEF R!Register8
  <2>9. CASE R!Choose7  BY <2>9 DEF R!Choose7
  <2>10. CASE R!WipeNginx  BY <2>10 DEF R!WipeNginx
  <2>11. CASE R!WipeLib  BY <2>11 DEF R!WipeLib
  <2>12. CASE R!MakeLib  BY <2>12 DEF R!MakeLib
  <2>13. CASE R!MakeRun  BY <2>13 DEF R!MakeRun
  <2>14. CASE R!MakeLog  BY <2>14 DEF R!MakeLog
  <2> QED
    BY <2>1, <2>2, <2>3, <2>4, <2>5, <2>6, <2>7, <2>8, <2>9, <2>10, <2>11,
       <2>12, <2>13, <2>14
    DEF R!Function
<1>2. TypePc'
  <2>1. /\ step' \in R!Running => pc' = pc
        /\ step' \notin R!Running => pc' \in {"main", "idle"}
    BY <1>0, <1>1 DEF RootPrepare, R!Running, R!Exits
  <2>2. at' \in 0..6  BY DEF RootPrepare, Types, TypePc
  <2> QED BY <1>0, <2>1, <2>2 DEF TypePc, Functions
<1>3. TypeRest'
  <2>1. ended' \subseteq AllParts
    BY DEF RootPrepare, Types, TypeRest, AllParts, Files
  <2> QED BY <1>0, <1>1, <2>1 DEF Types, TypeRest, flags, system, luas, svc
<1> QED BY <1>1, <1>2, <1>3 DEF Types

LEMMA TypesStep == Types /\ [Next]_vars => Types'
<1> SUFFICES ASSUME Types, [Next]_vars PROVE Types'  OBVIOUS
<1> USE DEF Types, TypePc, TypeHost, TypeRest, prep, flags, luas, svc, system,
            HostKept, Over, Back
<1>n. ASSUME NEW run \in BOOLEAN PROVE NginxStarts(run) \in BOOLEAN
  BY DEF NginxStarts
<1>1. CASE Start  BY <1>1 DEF Start
<1>2. CASE Call
  <2>1. CASE Over /\ UNCHANGED ended  BY <1>2, <2>1 DEF Call
  <2>2. ASSUME NEW i \in DOMAIN Calls, at' = i, pc' = Calls[i],
               step' = FirstStep(Calls[i]), ended' \subseteq ended
        PROVE  Types'
    <3>1. pc' \in Functions /\ i \in 1..6  BY <2>2, CallNames
    <3>2. pc' = "root_prepare" => step' \in R!Running
      BY <2>2 DEF FirstStep, R!Running
    <3> QED BY <1>2, <2>2, <3>1, <3>2 DEF Call
  <2> QED BY <1>2, <2>1, <2>2 DEF Call
<1>3. CASE RootPrepare  BY <1>3, TypesPrepare
<1>4. CASE PrepareLuaJIT
  <2>1. pc' \in {pc, "idle", "main"} /\ at' \in {0, at} /\ jit' \in BOOLEAN
    BY <1>4 DEF PrepareLuaJIT
  <2>2. ended' \subseteq AllParts  BY <1>4 DEF PrepareLuaJIT, AllParts, Files
  <2>3. pc = "luajit2_prepare"  BY <1>4 DEF PrepareLuaJIT
  <2> QED BY <1>4, <2>1, <2>2, <2>3 DEF PrepareLuaJIT, Functions
<1>5. CASE GetLua
  <2>1. pc' \in {pc, "idle", "main"} /\ at' \in {0, at} /\ luaPath' \in BOOLEAN
    BY <1>5 DEF GetLua
  <2>2. ended' \subseteq AllParts  BY <1>5 DEF GetLua, AllParts, Files
  <2>3. pc = "lua_src" /\ lua' \in {lua, "whole"}  BY <1>5 DEF GetLua
  <2> QED BY <1>5, <2>1, <2>2, <2>3 DEF GetLua, Functions
<1>6. CASE KillClone  BY <1>6 DEF KillClone
<1>7. CASE EditConf  BY <1>7 DEF EditConf, AllParts, Files
<1>8. CASE MakeConfigure  BY <1>8 DEF MakeConfigure
<1>9. CASE NotRoot  BY <1>9 DEF NotRoot
<1>10. CASE MakeService
  <2>1. pc' \in {pc, "main"} /\ UNCHANGED at /\ pc = "make_nginx_service"
    BY <1>10 DEF MakeService
  <2>2. /\ ended' \subseteq AllParts
        /\ unit' \in {"none", "written", "enabled"}
    BY <1>10 DEF MakeService, AllParts
  <2>3. UNCHANGED <<user, binary, lib, runDir, logDir, jit, lua, luaPath,
                    tmpfile, nginx, local, admin, etc>>
    BY <1>10, Zenon DEF MakeService
  <2> QED BY <2>1, <2>2, <2>3
<1>11. CASE MakeTmpfile
  <2>1. ended' \subseteq AllParts  BY <1>11 DEF MakeTmpfile, AllParts
  <2>2. /\ pc' = "main" /\ tmpfile' = TRUE
        /\ UNCHANGED <<at, user, binary, lib, runDir, logDir, jit, lua, luaPath,
                       nginx, local, admin, etc, unit>>
    BY <1>11, Zenon DEF MakeTmpfile
  <2> QED BY <2>1, <2>2
<1>12. CASE BeginInstall  BY <1>12 DEF BeginInstall
<1>13. CASE InstallStep
  <2>1. pc' \in {"install", "shell"} /\ UNCHANGED <<at, lua, local, admin, unit>>
    BY <1>13 DEF InstallStep
  <2>2. /\ binary' \in BOOLEAN /\ runDir' \in BOOLEAN /\ logDir' \in BOOLEAN
        /\ etc' \in {"none", "stock", "lua"}
    BY <1>13 DEF InstallStep, ConfInstalled
  <2>3. ended' \subseteq AllParts  BY <1>13 DEF InstallStep, AllParts, Files
  <2> QED BY <1>13, <2>1, <2>2, <2>3 DEF InstallStep
<1>14. CASE LeaveShell  BY <1>14 DEF LeaveShell
<1>15. CASE StartNginx  BY <1>15, <1>n DEF StartNginx
<1>16. CASE Kill  BY <1>16 DEF Kill
<1>17. CASE Reboot  BY <1>17, <1>n DEF Reboot
<1>18. CASE UNCHANGED vars  BY <1>18 DEF vars
<1> QED
  BY <1>1, <1>2, <1>3, <1>4, <1>5, <1>6, <1>7, <1>8, <1>9, <1>10, <1>11,
     <1>12, <1>13, <1>14, <1>15, <1>16, <1>17, <1>18 DEF Next, Script

(* Every state of the host is one of those that are enumerated, and        *)
(* root_prepare is at one of its commands whenever it runs.                *)
THEOREM HostTypes == Spec => []TypeOK
<1>1. Types => TypeOK
  BY CallNames DEF Types, TypePc, TypeHost, TypeRest, TypeOK
<1> QED BY <1>1, TypesInit, TypesStep, PTL DEF Spec
-----------------------------------------------------------------------------
(* Once everything but the services is brought to its end, nothing but the *)
(* directory of the pid file is ever missing, or a clone cut short is what *)
(* nginx finds as lua-resty-core.                                          *)
THEOREM OnlyRunDirIsLost == Spec => []OnlyRunDirLost
<1>1. Inv => OnlyRunDirLost
  BY DEF Inv, EndedIsThere, LuaStates, Files, OnlyRunDirLost, NginxStarts,
         LibraryFound, LuaLoads, UserKnown, PidFileMade, PathsMade, LogsOpened
<1> QED BY <1>1, InvAlways, PTL

(* After all parts were brought to their end a reboot brings nginx up,     *)
(* unless lua-resty-core is such a clone.                                  *)
THEOREM UpAfterReboot == Spec => AfterReboot
<1>1. Inv => ((Reboot /\ ended = AllParts) => nginx' \/ lua = "half")
  <2> SUFFICES ASSUME Inv, Reboot, ended = AllParts, lua # "half" PROVE nginx'
    OBVIOUS
  <2>1. /\ user = TRUE /\ lib = TRUE /\ logDir = TRUE /\ binary = TRUE
        /\ jit = TRUE /\ lua = "whole" /\ etc = "lua"
        /\ unit = "enabled" /\ tmpfile = TRUE
    BY DEF Inv, EndedIsThere, LuaStates, AllParts, Files
  <2> QED
    BY <2>1, Zenon DEF Reboot, NginxStarts, LibraryFound, LuaLoads, UserKnown,
                       PidFileMade, PathsMade, LogsOpened
<1> QED BY <1>1, InvAlways, PTL DEF Spec, AfterReboot
=============================================================================
