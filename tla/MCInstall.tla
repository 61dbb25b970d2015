------------------------------ MODULE MCInstall ------------------------------
(* The release that TLC checks src/install on.                             *)
EXTENDS Install

MCNames == ScriptNames

(* The unpacked directories the script goes to or refers to; of the files  *)
(* in them only ModSecurity's directory build and that of drizzle with a   *)
(* library and its headers, which have a name that the script deletes, and *)
(* the src of LuaJIT and sregex, whose headers builds read.                *)
MCTree ==
  {GroupDir("etc_src"), GroupDir("lua_src"), NginxDir}
  \cup {Home(comp) : comp \in Components}
  \cup {Append(Home(ModSec), "build"), LUAJIT2_SRC(TRUE),
        Append(Home(Sregex), "src"), Append(Home(Drizzle), "build"),
        Sub(Home(Drizzle), "build", "lib64"), Sub(Home(Drizzle), "build", "include"),
        Append(GroupDir("etc_src"), OpenSSL),
        Append(LuaSrc(TRUE), LuaSSL)}
  \cup AddModules

(* Any directory that pushd or cd is given.                                *)
MCAnyMissing ==
  {GroupDir("etc_src"), GroupDir("lua_src"), NginxDir}
  \cup {Home(comp) : comp \in {Sregex, Drizzle, ModSec}}

MCSomeMissing == {NginxDir}

MCNoneMissing == {}
=============================================================================
