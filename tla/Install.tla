------------------------------- MODULE Install -------------------------------
(***************************************************************************)
(* The script src/install: it builds, from an unpacked release, the        *)
(* libraries that nginx and its modules need, writes ngx_src/<nginx>/      *)
(* nginx_configuration and leaves the user in a shell in that directory.   *)
(*                                                                         *)
(* The script looks at no exit status.  It walks the source tree with      *)
(* pushd and popd, and when a directory is missing or a build fails it     *)
(* goes on: what it deletes and what it hands over then depends on where   *)
(* it stands.  The model keeps the shell (working directory and directory  *)
(* stack), the set fs of the paths that exist, and the part of fs that the *)
(* present run produced.                                                   *)
(***************************************************************************)
EXTENDS ShellDirs, Layout, Integers, SequencesExt

CONSTANTS
  Names,       \* the names of files and directories
  Tree,        \* the paths of an unpacked release
  MayMiss,     \* directories that may go missing between two runs
  Modes,       \* the values of IS_LOCAL a user sets: TRUE for 1
  GetOnly,     \* the values of IS_GET_ONLY a user sets: TRUE for 1
  Processors,  \* the number of processors /proc/cpuinfo lists
  LibDir       \* where autoconf installs libraries on this system

-----------------------------------------------------------------------------
(* Mutant of Product: make install of LuaJIT without its PREFIX.           *)
ProductNoPrefix(c, local) ==
  CASE c = Sregex  -> IF local THEN Sub(Home(c), "build", "lib")
                               ELSE Sub(USRLOCAL, "lib", "sregex")
    [] c = Drizzle -> IF local THEN Sub(Home(c), "build", LibDir)
                               ELSE Sub(USRLOCAL, "lib", "drizzle")
    [] c = ModSec  -> IF local THEN Sub(BUILDF, "modsecurity", LibDir)
                               ELSE Append(USRLOCAL, "modsecurity")
    [] c = LuaJIT  -> Sub(USRLOCAL, "lib", "luajit")
    [] c = CJson   -> Append(Home(c), "cjson.so")
    [] c = Signal  -> Append(Home(c), "librestysignal.so")

(* What a successful build of component c leaves behind.                   *)
Product(c, local) ==
  CASE c = Sregex  -> IF local THEN Sub(Home(c), "build", "lib")
                               ELSE Sub(USRLOCAL, "lib", "sregex")
    [] c = Drizzle -> IF local THEN Sub(Home(c), "build", LibDir)
                               ELSE Sub(USRLOCAL, "lib", "drizzle")
    [] c = ModSec  -> IF local THEN Sub(BUILDF, "modsecurity", LibDir)
                               ELSE Append(USRLOCAL, "modsecurity")
    [] c = LuaJIT  -> Sub(Append(LuaSrc(local), LuaJIT), "build", "lib")
    [] c = CJson   -> Append(Home(c), "cjson.so")
    [] c = Signal  -> Append(Home(c), "librestysignal.so")

(* The headers that make install puts beside the library of a component    *)
(* with a prefix of its own, as far as an exported variable names them:    *)
(* libdrizzle-1.0 is in drizzle's build/include.                           *)
Headers(c, local) ==
  CASE c = Drizzle /\ local -> {Sub(Home(c), "build", "include")}
    [] c = ModSec /\ local  -> {Sub(BUILDF, "modsecurity", "include")}
    [] OTHER                -> {}

Installed(c, local) == {Product(c, local)} \cup Headers(c, local)

(* Mutants of Wipes: rm -rf build in ModSecurity as well, and in Drizzle   *)
(* alone.                                                                  *)
WipesModSec(c) == IF c \in {Sregex, Drizzle, ModSec} THEN {"build"}
                  ELSE IF c = Signal THEN {"librestysignal.so"}
                  ELSE {}
WipesDrizzle(c) == IF c = Drizzle     THEN {"build"}
                   ELSE IF c = Signal THEN {"librestysignal.so"}
                   ELSE {}

(* What a build of c deletes from the directory it runs in: rm -rf build   *)
(* for two of them, the objects that make clean removes for the last.      *)
Wipes(c) == IF c \in {Sregex, Drizzle} THEN {"build"}
            ELSE IF c = Signal         THEN {"librestysignal.so"}
            ELSE {}

(* The builds that run mkdir build.                                        *)
MakesBuildDir == {Sregex, Drizzle, LuaJIT}

(* CPUC, and the builds that pass it to make -j.  make refuses -j0.        *)
CPUC == Processors - 1
JobsOK(c) == c = ModSec => CPUC >= 1

(* The headers a build reads from another component.                       *)
Needs(c, local) == IF c = CJson THEN {LUAJIT2_SRC(local)} ELSE {}

Under(d, paths) == {p \in paths : IsPrefix(d, p)}

(* The names that occur in the script and in what its builds install.      *)
ScriptNames ==
  Components \cup
  {"PARENTF", "/opt/lua_src", "/usr/local", "build", "etc_src", "lua_src",
   "ngx_src", "ngx_module", NGINXV, LuaSSL, OpenSSL, "src", "sbin", "lib", "lib64", "luajit",
   "include", "sregex", "drizzle", "modsecurity", "cjson.so", "librestysignal.so"}

Paths == Seq(Names)

(* A release keeps the components one level down, in their groups.         *)
ASSUME TreeAssumption ==
  /\ ScriptNames \cup {LibDir} \subseteq Names
  /\ Tree \subseteq Paths
  /\ MayMiss \subseteq Tree
  /\ \A comp \in Components : Append(PARENTF, comp) \notin Tree

(* Of what a build deletes, a release ships only the build directory of    *)
(* drizzle (with a library in it) and, where no such build goes, that of   *)
(* ModSecurity.                                                            *)
ASSUME ReleaseAssumption ==
  /\ \A d \in {PARENTF, GroupDir("etc_src"), Home(Sregex)} :
       Under(Append(d, "build"), Tree) = {}
  /\ \A d \in {PARENTF, GroupDir("lua_src"), Home(Signal)} :
       Under(Append(d, "librestysignal.so"), Tree) = {}

ASSUME SettingAssumption ==
  /\ Modes \subseteq BOOLEAN /\ Modes # {}
  /\ GetOnly \subseteq BOOLEAN /\ GetOnly # {}
  /\ Processors \in Nat \ {0}
  /\ LibDir # "librestysignal.so"
-----------------------------------------------------------------------------
(* What the configure line and the exported environment refer to.          *)

(* The --add-module directories that are relative to NginxDir: they are    *)
(* all below ngx_module, which stands for them here.                       *)
AddModules == {Append(PARENTF, "ngx_module")}

(* LUAJIT_LIB, LUAJIT_INC, LUA_SSL_NGINX_MODULE, and with IS_LOCAL=1 also  *)
(* the LIB and INC variables of sregex, drizzle and ModSecurity.           *)
ConfigurationRefs(local) ==
  AddModules
  \cup {Sub(Append(LuaSrc(local), LuaJIT), "build", "lib"),
        LUAJIT2_SRC(local),
        Append(LuaSrc(local), LuaSSL)}
  \cup (IF local THEN {Sub(Home(Sregex), "build", "lib"),
                       Append(Home(Sregex), "src"),
                       Sub(Home(Drizzle), "build", "lib64"),
                       Sub(Home(Drizzle), "build", "include"),
                       Sub(BUILDF, "modsecurity", "lib64"),
                       Sub(BUILDF, "modsecurity", "include")}
                 ELSE {})

(* What make install of nginx itself leaves, below --prefix.               *)
NginxBinary(local) == IF local THEN Append(BUILDF, "sbin")
                               ELSE Sub(USRLOCAL, NGINXV, "sbin")
-----------------------------------------------------------------------------
VARIABLES
  pc,       \* the next command of the script
  g, c,     \* indices: the group and the component being visited
  sh,       \* the shell's working directory and directory stack
  fs,       \* the paths that exist
  fresh,    \* what the present run built and installed
  local,    \* IS_LOCAL of the present run
  getOnly,  \* IS_GET_ONLY of the present run
  luaPath,  \* lua_package_path: what the last write put there
  conf      \* nginx_configuration: what the last write put there

vars == <<pc, g, c, sh, fs, fresh, local, getOnly, luaPath, conf>>

Running == {"pushdGroup", "pushdComponent", "build", "popdComponent",
            "popdGroup", "packagePath", "makeConfigure", "enterNginx"}
Control == Running \cup {"idle", "shell", "ended"}

NoPath == [written |-> FALSE, local |-> FALSE]
NoConf == [written |-> FALSE, local |-> FALSE, openssl |-> FALSE]

Group     == Groups[g]
Component == Group.components[c]
-----------------------------------------------------------------------------
Init ==
  /\ pc = "idle"
  /\ g = 1 /\ c = 1
  /\ sh = Shell(PARENTF, <<>>)
  /\ fs = Tree
  /\ fresh = {}
  /\ local \in Modes
  /\ getOnly \in GetOnly
  /\ luaPath = NoPath
  /\ conf = NoConf

(* The user edits the flags and runs ./install in the unpacked release.    *)
Start ==
  /\ pc = "idle"
  /\ local' \in Modes
  /\ getOnly' \in GetOnly
  /\ pc' = "pushdGroup"
  /\ UNCHANGED <<g, c, sh, fs, fresh, luaPath, conf>>

(* pushd etc_src, pushd lua_src                                            *)
PushdGroup ==
  /\ pc = "pushdGroup"
  /\ sh' = Pushd(sh, Group.dir, fs)
  /\ c' = 1
  /\ pc' = IF getOnly THEN "popdGroup" ELSE "pushdComponent"
  /\ UNCHANGED <<g, fs, fresh, local, getOnly, luaPath, conf>>

(* Mutant of PushdComponent: cd, with nothing for popd to return to.       *)
CdComponent ==
  /\ pc = "pushdComponent"
  /\ sh' = Cd(sh, Component, fs)
  /\ pc' = "build"
  /\ UNCHANGED <<g, c, fs, fresh, local, getOnly, luaPath, conf>>

PushdComponent ==
  /\ pc = "pushdComponent"
  /\ sh' = Pushd(sh, Component, fs)
  /\ pc' = "build"
  /\ UNCHANGED <<g, c, fs, fresh, local, getOnly, luaPath, conf>>

(* What is left once the commands before make have run in directory d.     *)
Prepared(comp, d) ==
  (fs \ UNION {Under(Append(d, w), fs) : w \in Wipes(comp)})
  \cup (IF comp \in MakesBuildDir THEN {Append(d, "build")} ELSE {})

(* make finds a makefile in the component's own directory only, and even   *)
(* there it may fail; the script does not look.                            *)
CanBuild(comp, d, paths) ==
  /\ d = Home(comp)
  /\ Needs(comp, local) \subseteq paths
  /\ JobsOK(comp)

BuildSucceeds ==
  /\ pc = "build"
  /\ CanBuild(Component, sh.cwd, Prepared(Component, sh.cwd))
  /\ fs' = Prepared(Component, sh.cwd) \cup Installed(Component, local)
  /\ fresh' = fresh \cup Installed(Component, local)
  /\ pc' = "popdComponent"
  /\ UNCHANGED <<g, c, sh, local, getOnly, luaPath, conf>>

BuildFails ==
  /\ pc = "build"
  /\ fs' = Prepared(Component, sh.cwd)
  /\ pc' = "popdComponent"
  /\ UNCHANGED <<g, c, sh, fresh, local, getOnly, luaPath, conf>>

(* Mutant of PopdComponent: the same component again.                      *)
PopdComponentStuck ==
  /\ pc = "popdComponent"
  /\ sh' = Popd(sh)
  /\ IF c < Len(Group.components)
     THEN pc' = "pushdComponent"
     ELSE pc' = "popdGroup"
  /\ UNCHANGED <<g, c, fs, fresh, local, getOnly, luaPath, conf>>

PopdComponent ==
  /\ pc = "popdComponent"
  /\ sh' = Popd(sh)
  /\ IF c < Len(Group.components)
     THEN /\ c' = c + 1
          /\ pc' = "pushdComponent"
     ELSE /\ c' = c
          /\ pc' = "popdGroup"
  /\ UNCHANGED <<g, fs, fresh, local, getOnly, luaPath, conf>>

(* Mutant of PopdGroup: one group too many.                                *)
PopdGroupOneMore ==
  /\ pc = "popdGroup"
  /\ sh' = Popd(sh)
  /\ IF g <= Len(Groups)
     THEN /\ g' = g + 1
          /\ pc' = "pushdGroup"
     ELSE /\ g' = g
          /\ pc' = "packagePath"
  /\ UNCHANGED <<c, fs, fresh, local, getOnly, luaPath, conf>>

PopdGroup ==
  /\ pc = "popdGroup"
  /\ sh' = Popd(sh)
  /\ IF g < Len(Groups)
     THEN /\ g' = g + 1
          /\ pc' = "pushdGroup"
     ELSE /\ g' = g
          /\ pc' = "packagePath"
  /\ UNCHANGED <<c, fs, fresh, local, getOnly, luaPath, conf>>

(* The two lines of $PARENTF/lua_package_path: an absolute path, so they   *)
(* are written wherever the shell is.                                      *)
WritePackagePath ==
  /\ pc = "packagePath"
  /\ luaPath' = [written |-> TRUE, local |-> local]
  /\ pc' = "makeConfigure"
  /\ UNCHANGED <<g, c, sh, fs, fresh, local, getOnly, conf>>

(* make_configure: the directories of the local prefix, the test for an    *)
(* OpenSSL source, and the redirection into ngx_src/<nginx>, which fails   *)
(* when that directory cannot be reached from where the shell is.          *)
MakeConfigure ==
  /\ pc = "makeConfigure"
  /\ fs' = fs \cup (IF local THEN {BUILDF} ELSE {})
  /\ conf' = IF Sub(sh.cwd, "ngx_src", NGINXV) \in fs
             THEN [written |-> TRUE,
                   local   |-> local,
                   openssl |-> Append(sh.cwd, OpenSSL) \in fs]
             ELSE conf
  /\ pc' = "enterNginx"
  /\ UNCHANGED <<g, c, sh, fresh, local, getOnly, luaPath>>

(* Mutant of EnterNginx: cd ...; exec bash.                                *)
EnterAnyway ==
  /\ pc = "enterNginx"
  /\ sh' = IF Sub(sh.cwd, "ngx_src", NGINXV) \in fs
           THEN Shell(Sub(sh.cwd, "ngx_src", NGINXV), sh.stack)
           ELSE sh
  /\ pc' = "shell"
  /\ UNCHANGED <<g, c, fs, fresh, local, getOnly, luaPath, conf>>

(* cd ngx_src/$NGINXV && exec bash                                         *)
EnterNginx ==
  /\ pc = "enterNginx"
  /\ IF Sub(sh.cwd, "ngx_src", NGINXV) \in fs
     THEN /\ sh' = Shell(Sub(sh.cwd, "ngx_src", NGINXV), sh.stack)
          /\ pc' = "shell"
     ELSE /\ pc' = "ended"
          /\ UNCHANGED sh
  /\ UNCHANGED <<g, c, fs, fresh, local, getOnly, luaPath, conf>>

(* ./nginx_configuration and make install, typed in the shell that the     *)
(* script left open, as its last two notices ask.                          *)
InstallNginx ==
  /\ pc = "shell"
  /\ conf.written
  /\ ConfigurationRefs(conf.local) \subseteq fs
  /\ fs' = fs \cup {NginxBinary(conf.local)}
  /\ UNCHANGED <<pc, g, c, sh, fresh, local, getOnly, luaPath, conf>>

(* The run is over, and what the script's process knew is gone: the user   *)
(* leaves the shell, or interrupted the script.                            *)
Gone ==
  /\ pc' = "idle"
  /\ g' = 1 /\ c' = 1
  /\ sh' = Shell(PARENTF, <<>>)
  /\ fresh' = {}
  /\ UNCHANGED <<fs, local, getOnly, luaPath, conf>>

Leave     == pc \in {"shell", "ended"} /\ Gone
Interrupt == pc \in Running /\ Gone

(* Between runs a source directory goes missing: it was deleted or moved   *)
(* after the installation that needed it.                                  *)
Lose ==
  /\ pc = "idle"
  /\ \E d \in MayMiss : fs' = fs \ Under(d, fs)
  /\ UNCHANGED <<pc, g, c, sh, fresh, local, getOnly, luaPath, conf>>

(* The release is unpacked again over the tree.                            *)
Restore ==
  /\ pc = "idle"
  /\ fs' = fs \cup Tree
  /\ UNCHANGED <<pc, g, c, sh, fresh, local, getOnly, luaPath, conf>>

Script ==
  \/ PushdGroup \/ PushdComponent
  \/ BuildSucceeds \/ BuildFails
  \/ PopdComponent \/ PopdGroup
  \/ WritePackagePath \/ MakeConfigure \/ EnterNginx

Next == \/ Start \/ Script \/ InstallNginx
        \/ Leave \/ Interrupt \/ Lose \/ Restore

(* A command that was started ends: the script waits for nothing but its   *)
(* own builds (with IS_PAUSED=0, the value it ships with).                 *)
Spec == Init /\ [][Next]_vars /\ WF_vars(Script)
-----------------------------------------------------------------------------
TypeOK ==
  /\ pc \in Control
  /\ g \in 1..Len(Groups)
  /\ c \in 1..Len(Group.components)
  /\ sh \in [cwd : Paths, stack : Seq(Paths)]
  /\ fs \subseteq Paths
  /\ fresh \subseteq Paths
  /\ local \in Modes
  /\ getOnly \in GetOnly
  /\ luaPath \in [written : BOOLEAN, local : BOOLEAN]
  /\ conf \in [written : BOOLEAN, local : BOOLEAN, openssl : BOOLEAN]

(* Where the shell can be: in the parent directory with an empty stack, in *)
(* the group's directory, or in the component's, each with the way back.   *)
AtParent    == sh = Shell(PARENTF, <<>>)
InGroup     == sh = Shell(GroupDir(Group.dir), <<PARENTF>>)
InComponent == sh = Shell(Home(Component), <<GroupDir(Group.dir), PARENTF>>)

(* However many pushd fail, and although the popd that go with them are    *)
(* run all the same, the shell is never anywhere else.                     *)
ShellPosition ==
  /\ pc \in {"idle", "pushdGroup", "packagePath", "makeConfigure", "enterNginx"}
       => AtParent
  /\ pc \in {"pushdComponent", "popdGroup"} => AtParent \/ InGroup
  /\ pc \in {"build", "popdComponent"}
       => AtParent \/ InGroup \/ InComponent

(* The two directories whose absence takes the script out of etc_src while *)
(* a build that runs rm -rf build is still to come.                        *)
KeepsTheWay == {GroupDir("etc_src"), Home(Sregex)}

(* rm -rf build, meant for the directory of a component, deletes           *)
(* $PARENTF/build, and with it the nginx of an earlier installation, only  *)
(* when etc_src or sregex.git is missing: then pushd fails, popd leaves    *)
(* etc_src too early, and the command runs in $PARENTF.                    *)
NginxSurvives ==
  [][(/\ pc \in Running
      /\ NginxBinary(TRUE) \in fs /\ KeepsTheWay \subseteq fs)
       => NginxBinary(TRUE) \in fs']_vars

(* The unpacked sources: everything but drizzle's build directory, which   *)
(* the release ships and the script is to make anew.                       *)
SourceFiles == Tree \ Under(Append(Home(Drizzle), "build"), Tree)

(* While the script runs it deletes no unpacked source, although           *)
(* ModSecurity has a source directory called build and the shell may be in *)
(* the wrong directory when rm -rf build runs.                             *)
SourcesSurvive ==
  [][(pc \in Running) => (SourceFiles \cap fs) \subseteq fs']_vars

(* At the hand-over of a run that built, with the directories of etc_src   *)
(* in place, no library of an earlier run passes for one of this run: what *)
(* sregex and drizzle left locally is fresh or gone.                       *)
StaleNotReused ==
  (/\ pc = "shell" /\ ~getOnly
   /\ KeepsTheWay \cup {Home(Drizzle)} \subseteq fs)
  => \A comp \in {Sregex, Drizzle} :
       Product(comp, TRUE) \in fs => Product(comp, TRUE) \in fresh

(* The two files the user is handed, lua_package_path and                  *)
(* nginx_configuration, are both there and were both written for the       *)
(* IS_LOCAL of this run, whatever earlier or interrupted runs wrote.       *)
HandoverConsistent ==
  pc = "shell" => luaPath = [written |-> TRUE, local |-> local]
                  /\ conf.written /\ conf.local = local

(* The builds whose results the hand-over refers to, and what of a release *)
(* it refers to.                                                           *)
Handed(l)  == {LuaJIT} \cup (IF l THEN {Sregex, Drizzle, ModSec} ELSE {})
Shipped(l) == AddModules
              \cup (IF l THEN {LUAJIT2_SRC(TRUE), Append(LuaSrc(TRUE), LuaSSL),
                               Append(Home(Sregex), "src")}
                         ELSE {})

(* A run that built all of this, over a release that is all there.         *)
CompleteBuild ==
  /\ pc = "shell" /\ ~getOnly
  /\ \A comp \in Handed(local) : Installed(comp, local) \subseteq fresh
  /\ Shipped(local) \subseteq fs

(* What the hand-over names although install puts nothing there: lib64,    *)
(* where autoconf says lib, and with IS_LOCAL=0 the sources that only      *)
(* nginx_builder gets into /opt/lua_src.                                   *)
KnownGaps(l) ==
  (IF l /\ LibDir # "lib64"
   THEN {Sub(Home(Drizzle), "build", "lib64"), Sub(BUILDF, "modsecurity", "lib64")}
   ELSE {})
  \cup (IF l THEN {} ELSE {LUAJIT2_SRC(FALSE), Append(OPTLUA, LuaSSL)})

(* In either mode and wherever autoconf installs libraries, a complete     *)
(* build hands over a configuration in which nothing is missing but these: *)
(* no later build, from whatever directory it runs rm -rf build in,        *)
(* deleted what an earlier one installed.                                  *)
CompleteBuildIsConfigurable ==
  CompleteBuild => ConfigurationRefs(conf.local) \ fs \subseteq KnownGaps(local)

(* What the script tells the user after a complete build, "export these    *)
(* environment" and "run ./nginx_configuration" (install:297-313): every   *)
(* directory that these two name is there.                                 *)
HandoverIsUsable ==
  CompleteBuild => ConfigurationRefs(conf.local) \subseteq fs

(* Every run ends, in the shell of ngx_src, at exit, or interrupted: no    *)
(* missing directory and no failed build keeps the script from going on.   *)
RunEnds == (pc \in Running) ~> (pc \notin Running)

(* What the README says of OpenSSL 1.1.1g (src/README.md:30-31): the nginx *)
(* that is configured uses the OpenSSL that is unpacked.                   *)
OpenSSLUsed ==
  (pc = "shell" /\ Append(GroupDir("etc_src"), OpenSSL) \in fs)
  => conf.openssl
=============================================================================
