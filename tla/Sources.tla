------------------------------- MODULE Sources -------------------------------
(***************************************************************************)
(* Where src/nginx_builder puts the sources, and whether src/install, and  *)
(* nginx after it, look for them there.  Each of the six functions that    *)
(* main calls makes a directory, changes into it and calls get_github or   *)
(* get_arch for its sources, with names that are relative to where the     *)
(* shell is; a cd that fails is not noticed.  The lists below are the      *)
(* scripts' own; what can happen inside a call is in Builder.              *)
(***************************************************************************)
EXTENDS ShellDirs, Layout, Integers, SequencesExt

CONSTANTS
  Modes,     \* the values of IS_LOCAL a user sets: TRUE for 1
  OptUsable  \* whether /opt/lua_src can be made: TRUE for root

ASSUME SettingAssumption ==
  /\ Modes \subseteq BOOLEAN /\ Modes # {}
  /\ OptUsable \subseteq BOOLEAN /\ OptUsable # {}

-----------------------------------------------------------------------------
(* The functions, and what they get.                                       *)

EtcSources == <<Sregex, Drizzle, ModSec, "wrk2.git">>

ModuleSources ==
  <<"memc-nginx-module.git", "lua-nginx-module.git", "ngx_devel_kit.git",
    "redis2-nginx-module.git", "echo-nginx-module.git",
    "form-input-nginx-module.git", "set-misc-nginx-module.git",
    "nginx-upload-module.git", "ngx_cache_purge.git",
    "headers-more-nginx-module.git", "naxsi.git", "ModSecurity-nginx.git",
    "replace-filter-nginx-module.git", "rds-json-nginx-module.git",
    "rds-csv-nginx-module.git", "drizzle-nginx-module.git",
    "ngx_postgres.git", "njs.git", "stream-lua-nginx-module.git",
    "xss-nginx-module.git", "nginx-rtmp-module.git", "nginx-ts-module.git">>

LuaSources ==
  <<"lua-resty-core.git", "lua-resty-lrucache.git", CJson,
    "lua-resty-redis.git", "lua-resty-cookie.git", "lua-resty-mysql.git",
    LuaSSL, Signal, "lua-tablepool.git", "lua-resty-shell.git",
    "lua-resty-limit-traffic.git", "lua-resty-lock.git",
    "lua-resty-string.git", "lua-resty-upload.git",
    "lua-resty-websocket.git", "lua-resty-upstream-healthcheck.git">>

NginxSources == <<"nginx-1.16.1", NGINXV>>

(* Mutant of Parts: openssl_get is forgotten.                          *)
PartsNoOpenSSL ==
  << [dir |-> "etc_src",    gets |-> EtcSources],
     [dir |-> "ngx_module", gets |-> ModuleSources],
     [dir |-> "lua_src",    gets |-> <<LuaJIT>>],
     [dir |-> "lua_src",    gets |-> LuaSources],
     [dir |-> "ngx_src",    gets |-> NginxSources] >>

Parts ==
  << [dir |-> "etc_src",    gets |-> EtcSources],
     [dir |-> "ngx_module", gets |-> ModuleSources],
     [dir |-> "lua_src",    gets |-> <<LuaJIT>>],
     [dir |-> "lua_src",    gets |-> LuaSources],
     [dir |-> "etc_src",    gets |-> <<OpenSSL>>],
     [dir |-> "ngx_src",    gets |-> NginxSources] >>

(* The function that goes to /opt/lua_src with IS_LOCAL=0, and the one of  *)
(* them that writes lua_package_path at its end.                           *)
IsLua(f)      == Parts[f].dir = "lua_src"
WritesPath(f) == Parts[f].gets = LuaSources

-----------------------------------------------------------------------------
(* What the other side looks for.                                          *)

(* The directories install goes to, and the --with-openssl directory.      *)
Entered == {GroupDir(Groups[n].dir) : n \in DOMAIN Groups}
           \cup {Home(comp) : comp \in Components}
           \cup {NginxDir, Append(GroupDir("etc_src"), OpenSSL)}

(* The folders of the --add-module lines.                                  *)
AddModules(local) ==
  {Sub(PARENTF, "ngx_module", m) : m \in
     {"memc-nginx-module.git", "lua-nginx-module.git", "ngx_devel_kit.git",
      "redis2-nginx-module.git", "echo-nginx-module.git",
      "form-input-nginx-module.git", "set-misc-nginx-module.git",
      "nginx-upload-module.git", "ngx_cache_purge.git",
      "headers-more-nginx-module.git", "naxsi.git", "ModSecurity-nginx.git",
      "replace-filter-nginx-module.git", "rds-json-nginx-module.git",
      "rds-csv-nginx-module.git", "drizzle-nginx-module.git",
      "ngx_postgres.git", "njs.git", "stream-lua-nginx-module.git",
      "xss-nginx-module.git", "nginx-rtmp-module.git", "nginx-ts-module.git"}}
  \cup {Append(LuaSrc(local), LuaSSL)}

(* The folders in lua_package_path and lua_package_cpath.                  *)
LuaPackages(local) ==
  {Append(LuaSrc(local), m) : m \in
     {"lua-resty-core.git", "lua-resty-lrucache.git", "lua-resty-redis.git",
      "lua-resty-mysql.git", LuaSSL, Signal, "lua-tablepool.git",
      "lua-resty-shell.git", CJson}}
-----------------------------------------------------------------------------
VARIABLES
  pc,       \* "idle", "enter", "get", "back", "done"
  f, n,     \* indices: the function, and its call
  sh,       \* the shell
  tree,     \* the directories that exist
  local,    \* IS_LOCAL of the present run
  opt,      \* the user may make /opt/lua_src
  luaPath   \* lua_package_path

vars == <<pc, f, n, sh, tree, local, opt, luaPath>>

Part == Parts[f]
Root     == Shell(PARENTF, <<>>)

Init ==
  /\ pc = "idle" /\ f = 1 /\ n = 1 /\ sh = Root
  /\ tree = {PARENTF}
  /\ local \in Modes
  /\ opt \in OptUsable
  /\ luaPath = [written |-> FALSE, local |-> FALSE]

Start ==
  /\ pc = "idle" /\ pc' = "enter"
  /\ f' = 1 /\ n' = 1 /\ sh' = Root
  /\ local' \in Modes
  /\ UNCHANGED <<tree, opt, luaPath>>

(* Mutant of EnterLua: the local directory in either mode.                 *)
EnterLuaLocal ==
  /\ tree' = tree \cup {Append(sh.cwd, "lua_src")}
  /\ sh' = Cd(sh, "lua_src", tree')

(* mkdir lua_src ; cd lua_src, or mkdir -p /opt/lua_src ; cd /opt/lua_src  *)
EnterLua ==
  IF local
  THEN /\ tree' = tree \cup {Append(sh.cwd, "lua_src")}
       /\ sh' = Cd(sh, "lua_src", tree')
  ELSE IF opt
  THEN /\ tree' = tree \cup {OPTLUA}
       /\ sh' = Shell(OPTLUA, sh.stack)
  ELSE UNCHANGED <<tree, sh>>

(* mkdir dir ; cd dir                                                      *)
EnterPlain ==
  /\ tree' = tree \cup {Append(sh.cwd, Part.dir)}
  /\ sh' = Cd(sh, Part.dir, tree')

Enter ==
  /\ pc = "enter" /\ pc' = "get" /\ n' = 1
  /\ IF IsLua(f) THEN EnterLua ELSE EnterPlain
  /\ UNCHANGED <<f, local, opt, luaPath>>

(* get_github or get_arch returns: its folder is there.                    *)
Get ==
  /\ pc = "get"
  /\ tree' = tree \cup {Append(sh.cwd, Part.gets[n])}
  /\ IF n < Len(Part.gets)
     THEN n' = n + 1 /\ UNCHANGED pc
     ELSE pc' = "back" /\ UNCHANGED n
  /\ UNCHANGED <<f, sh, local, opt, luaPath>>

(* Mutant of Back: without cd $PARENTF.                                    *)
BackStays ==
  /\ pc = "back"
  /\ luaPath' = IF WritesPath(f) THEN [written |-> TRUE, local |-> local] ELSE luaPath
  /\ IF f < Len(Parts)
     THEN f' = f + 1 /\ pc' = "enter"
     ELSE pc' = "done" /\ UNCHANGED f
  /\ UNCHANGED <<n, sh, tree, local, opt>>

(* The end of the function: lua_package_path, and cd $PARENTF.             *)
Back ==
  /\ pc = "back"
  /\ luaPath' = IF WritesPath(f) THEN [written |-> TRUE, local |-> local] ELSE luaPath
  /\ sh' = Shell(PARENTF, sh.stack)
  /\ IF f < Len(Parts)
     THEN f' = f + 1 /\ pc' = "enter"
     ELSE pc' = "done" /\ UNCHANGED f
  /\ UNCHANGED <<n, tree, local, opt>>

(* A call exits, or the script is killed, or it has come to its end.       *)
Gone ==
  /\ pc # "idle" /\ pc' = "idle"
  /\ UNCHANGED <<f, n, sh, tree, local, opt, luaPath>>

Next == Start \/ Enter \/ Get \/ Back \/ Gone

Spec == Init /\ [][Next]_vars
-----------------------------------------------------------------------------
(* A run with IS_LOCAL=1 that came to its end leaves the release that      *)
(* install expects: every directory it goes to and every module that the   *)
(* configure line names, whatever runs, complete or not, went before.      *)
ShippedTree ==
  (pc = "done" /\ local) => Entered \cup AddModules(TRUE) \subseteq tree

(* The packages that lua_package_path promises are where it says, for the  *)
(* mode it was last written in, also when a later run in the other mode    *)
(* was cut short; with IS_LOCAL=0 the user has to be root.                 *)
LuaPathObtained ==
  (luaPath.written /\ (luaPath.local \/ opt))
    => LuaPackages(luaPath.local) \subseteq tree

(* Wherever a run stops and however often the mode changes, nothing is     *)
(* ever put anywhere but in its place, although names are relative and no  *)
(* cd is checked: only without the right to make /opt/lua_src do the Lua   *)
(* sources end up, by themselves, in $PARENTF.                             *)
Places ==
  {PARENTF, OPTLUA}
  \cup {Append(PARENTF, d) : d \in {"etc_src", "ngx_module", "lua_src", "ngx_src"}}
  \cup (UNION {{Sub(PARENTF, Parts[k].dir, s) : s \in Range(Parts[k].gets)}
               : k \in DOMAIN Parts})
  \cup (UNION {{Append(d, s) : s \in {LuaJIT} \cup Range(LuaSources)}
               : d \in {OPTLUA} \cup (IF opt THEN {} ELSE {PARENTF})})

NothingAstray == tree \subseteq Places
=============================================================================
