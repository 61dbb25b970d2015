------------------------------ MODULE MCBuilder ------------------------------
(* A short list of calls that TLC checks src/nginx_builder on, in the      *)
(* order they have in the script, with IS_LOCAL=0: a repository below      *)
(* $PARENTF that the script pins, one that is in /opt/lua_src and has no   *)
(* pin, and an archive.                                                    *)
EXTENDS Builder

CONSTANTS nginx, lua_nginx_module, lua_resty_redis

MCArchives == {nginx}
MCRepos    == {lua_nginx_module, lua_resty_redis}
MCCalls    == <<lua_nginx_module, lua_resty_redis, nginx>>
MCStripped == {lua_nginx_module}
MCPins     == [r \in MCRepos |-> IF r = lua_nginx_module THEN 1 ELSE 0]

(* Its tag may be moved, taken out and, after clones without one, added.   *)
MCEdited   == {lua_nginx_module}
=============================================================================
