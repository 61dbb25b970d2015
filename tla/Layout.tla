------------------------------- MODULE Layout -------------------------------
(***************************************************************************)
(* The directories that src/nginx_builder fills and src/install builds     *)
(* from: the two scripts share nothing but these names.                    *)
(***************************************************************************)
EXTENDS Sequences

PARENTF == <<"PARENTF">>
BUILDF  == Append(PARENTF, "build")
OPTLUA  == <<"/opt/lua_src">>
USRLOCAL == <<"/usr/local">>
NGINXV  == "nginx-1.18.0"

Sregex  == "sregex.git"
Drizzle == "drizzle7-2011.07.21"
ModSec  == "modsecurity-v3.0.4"
LuaJIT  == "luajit2.git"
CJson   == "lua-cjson.git"
Signal  == "lua-resty-signal.git"
OpenSSL == "openssl-OpenSSL_1_1_1g"
LuaSSL  == "lua-ssl-nginx-module.git"

(* $dir/a/b                                                                *)
Sub(dir, a, b) == Append(Append(dir, a), b)

(* The directories pushd enters, in order, and the components built in     *)
(* each of them.                                                           *)
Groups == << [dir |-> "etc_src", components |-> <<Sregex, Drizzle, ModSec>>],
             [dir |-> "lua_src", components |-> <<LuaJIT, CJson, Signal>>] >>

Components == {Sregex, Drizzle, ModSec, LuaJIT, CJson, Signal}

GroupOf(c) == IF c \in {Sregex, Drizzle, ModSec} THEN "etc_src" ELSE "lua_src"
GroupDir(d) == Append(PARENTF, d)
Home(c)     == Append(GroupDir(GroupOf(c)), c)
NginxDir    == Sub(PARENTF, "ngx_src", NGINXV)

(* LUAJIT2_SRC, LUAJIT2_BUILD_LIB                                          *)
LuaSrc(local)      == IF local THEN GroupDir("lua_src") ELSE OPTLUA
LUAJIT2_SRC(local) == Sub(LuaSrc(local), LuaJIT, "src")
=============================================================================
