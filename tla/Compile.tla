------------------------------- MODULE Compile -------------------------------
(***************************************************************************)
(* src/nginx_builder with IS_GET_ONLY=0 and redis_get and make_configure   *)
(* out of main's comments: the sources are not only got but built, between *)
(* the calls that get them, and the run ends in the shell of ngx_src.      *)
(*                                                                         *)
(* The commands of a build are those of src/install.  What differs is what *)
(* stands around them: a folder that cannot be had ends the run (err), so  *)
(* that no pushd fails; every function begins and ends in $PARENTF; and    *)
(* with IS_LOCAL=0 the Lua sources are got, and built, in /opt/lua_src.    *)
(***************************************************************************)
EXTENDS ShellDirs, Layout, Integers, SequencesExt

CONSTANTS
  Modes,       \* the values of IS_LOCAL: TRUE for 1
  Roots,       \* whether the user is root: a set of Booleans
  MayMiss,     \* directories that may go missing between two runs
  Processors,  \* the number of processors
  LibDir       \* where autoconf installs libraries on this system

ASSUME CompileAssumption ==
  /\ Modes \subseteq BOOLEAN /\ Roots \subseteq BOOLEAN
  /\ Processors \in Nat \ {0}

Redis     == "redis-6.0.3"
NgxModule == "lua-nginx-module.git"

(* The functions of main, and what they get; the modules of nginx are one. *)
Parts ==
  << [dir |-> "etc_src",    gets |-> <<Redis>>],
     [dir |-> "etc_src",    gets |-> <<Sregex, Drizzle, ModSec>>],
     [dir |-> "ngx_module", gets |-> <<NgxModule>>],
     [dir |-> "lua_src",    gets |-> <<LuaJIT>>],
     [dir |-> "lua_src",    gets |-> <<CJson, LuaSSL, Signal>>],
     [dir |-> "etc_src",    gets |-> <<OpenSSL>>],
     [dir |-> "ngx_src",    gets |-> <<NGINXV>>] >>

Built == Components \cup {Redis}

(* No source is named as the directory that autoconf installs libraries in. *)
ASSUME NameAssumption ==
  LibDir \notin Built \cup {NgxModule, LuaSSL, OpenSSL, NGINXV}

IsLua(f)      == Parts[f].dir = "lua_src"
WritesPath(f) == f = 5

(* Mutant of Product: make install of LuaJIT without its PREFIX.           *)
ProductNoPrefix(c, d, local) ==
  CASE c = Sregex  -> {Sub(Home(c), "build", "lib")}
    [] c = Drizzle -> {Sub(Home(c), "build", LibDir), Sub(Home(c), "build", "include")}
    [] c = ModSec  -> {Sub(BUILDF, "modsecurity", LibDir),
                       Sub(BUILDF, "modsecurity", "include")}
    [] c = LuaJIT  -> {Sub(USRLOCAL, "lib", "luajit")}
    [] c = CJson   -> {Append(d, "cjson.so")}
    [] c = Signal  -> {Append(d, "librestysignal.so")}
    [] OTHER       -> {}

(* What a build of c in directory d leaves, as far as the hand-over or     *)
(* lua_package_path names it: not redis, and not what IS_LOCAL=0 puts into *)
(* the system's own directories.  libdrizzle-1.0 is below build/include.   *)
Product(c, d, local) ==
  CASE c = Sregex  /\ local -> {Sub(Home(c), "build", "lib")}
    [] c = Drizzle /\ local -> {Sub(Home(c), "build", LibDir),
                                Sub(Home(c), "build", "include")}
    [] c = ModSec  /\ local -> {Sub(BUILDF, "modsecurity", LibDir),
                                Sub(BUILDF, "modsecurity", "include")}
    [] c = LuaJIT           -> {Sub(Append(LuaSrc(local), LuaJIT), "build", "lib")}
    [] c = CJson            -> {Append(d, "cjson.so")}
    [] c = Signal           -> {Append(d, "librestysignal.so")}
    [] OTHER                -> {}

(* Mutant of Wipes: nothing is deleted before drizzle is built.            *)
WipesSregex(c) == CASE c = Sregex -> {"build"}
                    [] c = Signal -> {"librestysignal.so"}
                    [] OTHER      -> {}

(* What is deleted before a build: rm -rf build, or by make clean.         *)
Wipes(c) == CASE c \in {Sregex, Drizzle} -> {"build"}
              [] c = Signal              -> {"librestysignal.so"}
              [] OTHER                   -> {}

MakesBuildDir == {Sregex, Drizzle, LuaJIT}

(* make -j$CPUC                                                            *)
JobsOK(c) == c \in {ModSec, Redis} => Processors - 1 >= 1

Needs(c, local) == IF c = CJson THEN {LUAJIT2_SRC(local)} ELSE {}

Under(d, paths) == {p \in paths : IsPrefix(d, p)}

(* What the configure line and the exported variables name.                *)
ConfigurationRefs(local) ==
  {Append(PARENTF, "ngx_module"),
   Sub(Append(LuaSrc(local), LuaJIT), "build", "lib"),
   LUAJIT2_SRC(local), Append(LuaSrc(local), LuaSSL)}
  \cup (IF local THEN {Sub(Home(Sregex), "build", "lib"),
                       Append(Home(Sregex), "src"),
                       Sub(Home(Drizzle), "build", "lib64"),
                       Sub(Home(Drizzle), "build", "include"),
                       Sub(BUILDF, "modsecurity", "lib64"),
                       Sub(BUILDF, "modsecurity", "include")}
                 ELSE {})

-----------------------------------------------------------------------------
VARIABLES
  pc,       \* the next command
  f, n,     \* indices: the function, and its call
  sh,       \* the shell
  fs,       \* the paths that exist
  fresh,    \* the products that the present run built
  local,    \* IS_LOCAL
  root,     \* the run is root's
  handed    \* lua_package_path and nginx_configuration: those written

files == <<fs, fresh>>
flags == <<local, root>>
vars  == <<pc, f, n, sh, files, flags, handed>>

Outset == Shell(PARENTF, <<>>)
Part == Parts[f]
Item == Part.gets[n]

(* What the user may write to: not /opt and /usr/local, unless root.       *)
Writable == root \/ ~IsPrefix(OPTLUA, sh.cwd)
-----------------------------------------------------------------------------
Init ==
  /\ pc = "idle" /\ f = 1 /\ n = 1 /\ sh = Outset
  /\ fs = {PARENTF} /\ fresh = {}
  /\ local \in Modes /\ root \in Roots
  /\ handed = {}

(* With the IS_LOCAL of the earlier runs, by root or not.                  *)
Start ==
  /\ pc = "idle" /\ pc' = "enter"
  /\ root' \in Roots
  /\ UNCHANGED <<f, n, sh, files, local, handed>>

(* The script's process is gone, and what it knew with it.                 *)
Over == pc' = "idle" /\ f' = 1 /\ n' = 1 /\ sh' = Outset /\ fresh' = {}

(* mkdir lua_src ; cd lua_src, or mkdir -p /opt/lua_src ; cd /opt/lua_src  *)
EnterLua ==
  IF local
  THEN /\ fs' = fs \cup {Append(sh.cwd, "lua_src")}
       /\ sh' = Cd(sh, "lua_src", fs')
  ELSE /\ fs' = IF root THEN fs \cup {OPTLUA} ELSE fs
       /\ sh' = IF OPTLUA \in fs' THEN Shell(OPTLUA, sh.stack) ELSE sh

EnterPlain ==
  /\ fs' = fs \cup {Append(sh.cwd, Part.dir)}
  /\ sh' = Cd(sh, Part.dir, fs')

Enter ==
  /\ pc = "enter" /\ pc' = "get" /\ n' = 1
  /\ IF IsLua(f) THEN EnterLua ELSE EnterPlain
  /\ UNCHANGED <<f, fresh, flags, handed>>

Folder == Append(sh.cwd, Item)

(* What a clone or an archive brings: of LuaJIT and sregex the directory   *)
(* of their headers matters.                                               *)
Contents == {Folder} \cup (IF Item \in {LuaJIT, Sregex} THEN {Append(Folder, "src")} ELSE {})

(* Mutant of Get: the folder that could not be had is not looked for.      *)
GetUnchecked ==
  /\ pc = "get"
  /\ pc' = IF Item \in Built THEN "pushd" ELSE "popd"
  /\ \/ UNCHANGED fs
     \/ Writable /\ fs' = fs \cup Contents
  /\ UNCHANGED <<f, n, sh, fresh, flags, handed>>

(* get_github or get_arch, and its exit when the folder is not there       *)
Get ==
  /\ pc = "get"
  /\ \/ /\ Folder \in fs \/ Writable
        /\ fs' = fs \cup Contents
        /\ pc' = IF Item \in Built THEN "pushd" ELSE "popd"
        /\ UNCHANGED <<f, n, sh, fresh>>
     \/ Folder \notin fs /\ Over /\ UNCHANGED fs
  /\ UNCHANGED <<flags, handed>>

PushdItem ==
  /\ pc = "pushd" /\ pc' = "build"
  /\ sh' = Pushd(sh, Item, fs)
  /\ UNCHANGED <<f, n, files, flags, handed>>

(* What is left when the commands before make have run in directory d.     *)
Prepared(c, d) ==
  IF ~Writable THEN fs
  ELSE (fs \ UNION {Under(Append(d, w), fs) : w \in Wipes(c)})
       \cup (IF c \in MakesBuildDir THEN {Append(d, "build")} ELSE {})

(* make install of LuaJIT below /opt/lua_src is root's.                    *)
CanBuild(c, paths) ==
  /\ Last(sh.cwd) = c /\ Writable
  /\ (c = LuaJIT /\ ~local) => root
  /\ Needs(c, local) \subseteq paths
  /\ JobsOK(c)

(* lua-cjson has no make clean before make: what is there is not built.    *)
Remakes(c, paths) == c = CJson => Product(c, sh.cwd, local) \cap paths = {}

BuildSucceeds ==
  /\ pc = "build" /\ pc' = "popd"
  /\ CanBuild(Item, Prepared(Item, sh.cwd))
  /\ LET p == Product(Item, sh.cwd, local)
         left == Prepared(Item, sh.cwd)
     IN /\ fs' = left \cup p
        /\ fresh' = IF Remakes(Item, left) THEN fresh \cup p ELSE fresh
  /\ UNCHANGED <<f, n, sh, flags, handed>>

BuildFails ==
  /\ pc = "build" /\ pc' = "popd"
  /\ fs' = Prepared(Item, sh.cwd)
  /\ UNCHANGED <<f, n, sh, fresh, flags, handed>>

(* popd, after a build, and the next call                                  *)
Return ==
  /\ pc = "popd"
  /\ sh' = IF Item \in Built THEN Popd(sh) ELSE sh
  /\ IF n < Len(Part.gets)
     THEN n' = n + 1 /\ pc' = "get"
     ELSE pc' = "back" /\ UNCHANGED n
  /\ UNCHANGED <<f, files, flags, handed>>

(* lua_package_path at the end of lua_src, and cd $PARENTF                 *)
Back ==
  /\ pc = "back"
  /\ handed' = IF WritesPath(f) THEN handed \cup {"lua_package_path"} ELSE handed
  /\ sh' = Shell(PARENTF, sh.stack)
  /\ IF f < Len(Parts)
     THEN f' = f + 1 /\ pc' = "enter"
     ELSE pc' = "configure" /\ UNCHANGED f
  /\ UNCHANGED <<n, files, flags>>

(* make_configure: the local directories, nginx_configuration, exec bash   *)
MakeConfigure ==
  /\ pc = "configure"
  /\ fs' = fs \cup (IF local THEN {BUILDF} ELSE {})
  /\ IF Sub(sh.cwd, "ngx_src", NGINXV) \in fs
     THEN /\ handed' = handed \cup {"nginx_configuration"} /\ pc' = "shell"
          /\ sh' = Shell(Sub(sh.cwd, "ngx_src", NGINXV), sh.stack)
     ELSE pc' = "ended" /\ UNCHANGED <<handed, sh>>
  /\ UNCHANGED <<f, n, fresh, flags>>

(* The user leaves the shell, or the script is killed.                     *)
Gone ==
  /\ pc # "idle" /\ Over
  /\ UNCHANGED <<fs, flags, handed>>

(* A directory is deleted between two runs.                                *)
Lose ==
  /\ pc = "idle"
  /\ \E d \in MayMiss : fs' = fs \ Under(d, fs)
  /\ UNCHANGED <<pc, f, n, sh, fresh, flags, handed>>

Script == \/ Enter \/ Get \/ PushdItem \/ BuildSucceeds \/ BuildFails
          \/ Return \/ Back \/ MakeConfigure

Next == Start \/ Script \/ Gone \/ Lose

Spec == Init /\ [][Next]_vars
-----------------------------------------------------------------------------
(* Every function begins in $PARENTF with an empty stack, and every build  *)
(* runs in the folder it is meant for: unlike in install no pushd fails.   *)
ShellPosition ==
  /\ pc \in {"enter", "configure"} => sh = Outset
  /\ pc = "build" => Last(sh.cwd) = Item /\ sh.cwd \in fs
  /\ pc \in {"get", "back"} => sh.stack = <<>>

(* At the hand-over of a local run what sregex, drizzle and resty-signal   *)
(* left is of this run: whatever was missing, and whatever failed.         *)
StaleNotReused ==
  (pc = "shell" /\ local) =>
    \A c \in {Sregex, Drizzle, Signal} :
      Product(c, Home(c), TRUE) \cap fs \subseteq fresh

(* What the hand-over of a local run names although no build puts it       *)
(* there: lib64, where autoconf says lib.                                  *)
KnownGaps(l) ==
  IF l /\ LibDir # "lib64"
  THEN {Sub(Home(Drizzle), "build", "lib64"), Sub(BUILDF, "modsecurity", "lib64")}
  ELSE {}

(* In either mode the hand-over of a run that built LuaJIT and, locally,   *)
(* the libraries of etc_src names nothing else that is not there: LuaJIT's *)
(* and sregex' headers included, and with IS_LOCAL=0 the sources below     *)
(* /opt/lua_src that install misses.                                       *)
CompleteBuildIsConfigurable ==
  (/\ pc = "shell"
   /\ \A c \in {LuaJIT} \cup (IF local THEN {Sregex, Drizzle, ModSec} ELSE {}) :
        Product(c, Home(c), local) \subseteq fresh)
  => ConfigurationRefs(local) \ fs \subseteq KnownGaps(local)
=============================================================================
