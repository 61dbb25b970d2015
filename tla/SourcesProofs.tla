---------------------------- MODULE SourcesProofs ----------------------------
(* Where the sources of a release are, for any set of users and modes.     *)
EXTENDS Sources, SequenceTheorems, TLAPS

(* The six functions: what each enters, and what it gets there.            *)
LEMMA PartsFacts ==
  /\ Len(Parts) = 6 /\ DOMAIN Parts = 1..6
  /\ Parts[1].dir = "etc_src"    /\ Parts[1].gets = EtcSources
  /\ Parts[2].dir = "ngx_module" /\ Parts[2].gets = ModuleSources
  /\ Parts[3].dir = "lua_src"    /\ Parts[3].gets = <<LuaJIT>>
  /\ Parts[4].dir = "lua_src"    /\ Parts[4].gets = LuaSources
  /\ Parts[5].dir = "etc_src"    /\ Parts[5].gets = <<OpenSSL>>
  /\ Parts[6].dir = "ngx_src"    /\ Parts[6].gets = NginxSources
  BY DEF Parts

LEMMA ListLengths ==
  /\ Len(EtcSources) = 4 /\ DOMAIN EtcSources = 1..4
  /\ Len(ModuleSources) = 22 /\ DOMAIN ModuleSources = 1..22
  /\ Len(<<LuaJIT>>) = 1 /\ DOMAIN <<LuaJIT>> = 1..1
  /\ Len(LuaSources) = 16 /\ DOMAIN LuaSources = 1..16
  /\ Len(<<OpenSSL>>) = 1 /\ DOMAIN <<OpenSSL>> = 1..1
  /\ Len(NginxSources) = 2 /\ DOMAIN NginxSources = 1..2
<1>1. Len(EtcSources) = 4 /\ DOMAIN EtcSources = 1..4  BY DEF EtcSources
<1>2. Len(ModuleSources) = 22 /\ DOMAIN ModuleSources = 1..22
  BY DEF ModuleSources
<1>3. Len(<<LuaJIT>>) = 1 /\ DOMAIN <<LuaJIT>> = 1..1  OBVIOUS
<1>4. Len(LuaSources) = 16 /\ DOMAIN LuaSources = 1..16  BY DEF LuaSources
<1>5. Len(<<OpenSSL>>) = 1 /\ DOMAIN <<OpenSSL>> = 1..1  OBVIOUS
<1>6. Len(NginxSources) = 2 /\ DOMAIN NginxSources = 1..2  BY DEF NginxSources
<1> QED BY <1>1, <1>2, <1>3, <1>4, <1>5, <1>6

(* Each list is as long as the number of calls that are made for it.       *)
LEMMA GetsFacts ==
  ASSUME NEW k \in 1..6
  PROVE  /\ Len(Parts[k].gets) \in Nat \ {0}
         /\ DOMAIN Parts[k].gets = 1..Len(Parts[k].gets)
         /\ Parts[k].dir \in {"etc_src", "ngx_module", "lua_src", "ngx_src"}
         /\ IsLua(k) <=> k \in {3, 4}
         /\ IsLua(k) => Range(Parts[k].gets) \subseteq {LuaJIT} \cup Range(LuaSources)
<1>1. Range(<<LuaJIT>>) = {LuaJIT}  BY DEF Range
<1>2. IsLua(k) <=> k \in {3, 4}  BY PartsFacts DEF IsLua
<1>3. k \in {1, 2, 3, 4, 5, 6}  OBVIOUS
<1>4. k \in {3, 4} => Range(Parts[k].gets) \subseteq {LuaJIT} \cup Range(LuaSources)
  BY <1>1, PartsFacts
<1>5. Parts[k].dir \in {"etc_src", "ngx_module", "lua_src", "ngx_src"}
  BY <1>3, PartsFacts
<1>6. /\ Len(Parts[k].gets) \in {1, 2, 4, 16, 22}
      /\ DOMAIN Parts[k].gets = 1..Len(Parts[k].gets)
  <2>1. CASE k = 1  BY <2>1, PartsFacts, ListLengths
  <2>2. CASE k = 2  BY <2>2, PartsFacts, ListLengths
  <2>3. CASE k = 3  BY <2>3, PartsFacts, ListLengths
  <2>4. CASE k = 4  BY <2>4, PartsFacts, ListLengths
  <2>5. CASE k = 5  BY <2>5, PartsFacts, ListLengths
  <2>6. CASE k = 6  BY <2>6, PartsFacts, ListLengths
  <2> QED BY <1>3, <2>1, <2>2, <2>3, <2>4, <2>5, <2>6
<1> QED BY <1>2, <1>4, <1>5, <1>6
-----------------------------------------------------------------------------
(* Where function k of a run in mode l finds itself after its cd, o saying *)
(* whether /opt/lua_src can be made, and what it has got once it is        *)
(* through.                                                                *)
Where(k, l, o) ==
  IF ~IsLua(k) THEN Append(PARENTF, Parts[k].dir)
  ELSE IF l    THEN Append(PARENTF, "lua_src")
  ELSE IF o    THEN OPTLUA
  ELSE PARENTF

Obtained(k, l, o, dirs) ==
  /\ Where(k, l, o) \in dirs
  /\ \A j \in 1..Len(Parts[k].gets) :
        Append(Where(k, l, o), Parts[k].gets[j]) \in dirs

(* The inductive invariant.  The shell is where the function's cd was to   *)
(* take it ...                                                             *)
PositionInv ==
  /\ pc \in {"idle", "enter", "get", "back", "done"}
  /\ f \in 1..6 /\ n \in Nat \ {0} /\ local \in BOOLEAN
  /\ PARENTF \in tree
  /\ pc = "get" => n \in 1..Len(Parts[f].gets)
  /\ pc \in {"enter", "done"} => sh = Root
  /\ pc \in {"get", "back"} =>
       sh = Shell(Where(f, local, opt), <<>>) /\ Where(f, local, opt) \in tree

(* ... what was got before is in its place ...                             *)
ProgressInv ==
  /\ pc = "get" =>
       \A j \in 1..n - 1 : Append(Where(f, local, opt), Parts[f].gets[j]) \in tree
  /\ pc \in {"enter", "get", "back"} =>
       \A k \in 1..f - 1 : Obtained(k, local, opt, tree)
  /\ pc = "back" => Obtained(f, local, opt, tree)
  /\ pc = "done" => \A k \in 1..6 : Obtained(k, local, opt, tree)

(* ... and the run that wrote lua_package_path had got every Lua package.  *)
WrittenInv ==
  /\ luaPath \in [written : BOOLEAN, local : BOOLEAN]
  /\ luaPath.written => Obtained(4, luaPath.local, opt, tree)

SourcesInv == PositionInv /\ ProgressInv /\ WrittenInv /\ NothingAstray

LEMMA WherePlaced ==
  ASSUME NEW k \in 1..6, NEW l \in BOOLEAN
  PROVE  /\ Where(k, l, opt) \in Places
         /\ \A j \in 1..Len(Parts[k].gets) :
               Append(Where(k, l, opt), Parts[k].gets[j]) \in Places
<1> DEFINE W == Where(k, l, opt)
<1> DEFINE D == {OPTLUA} \cup (IF opt THEN {} ELSE {PARENTF})
<1>1. /\ Parts[k].dir \in {"etc_src", "ngx_module", "lua_src", "ngx_src"}
      /\ IsLua(k) => Range(Parts[k].gets) \subseteq {LuaJIT} \cup Range(LuaSources)
      /\ DOMAIN Parts[k].gets = 1..Len(Parts[k].gets)
      /\ k \in DOMAIN Parts
  BY GetsFacts, PartsFacts
<1>2. W = Append(PARENTF, Parts[k].dir) \/ (IsLua(k) /\ W \in D)
  BY DEF Where, IsLua
<1>3. W \in Places  BY <1>1, <1>2 DEF Places
<1>4. ASSUME NEW j \in 1..Len(Parts[k].gets)
      PROVE  Append(W, Parts[k].gets[j]) \in Places
  <2> DEFINE s == Parts[k].gets[j]
  <2> HIDE DEF W
  <2>1. s \in Range(Parts[k].gets)  BY <1>1 DEF Range
  <2>2. CASE W = Append(PARENTF, Parts[k].dir)
    <3> DEFINE S(i) == {Sub(PARENTF, Parts[i].dir, t) : t \in Range(Parts[i].gets)}
    <3>1. Append(W, s) = Sub(PARENTF, Parts[k].dir, s)  BY <2>2 DEF Sub
    <3>2. Append(W, s) \in S(k)  BY <2>1, <3>1
    <3> HIDE DEF s, S
    <3>3. Append(W, s) \in UNION {S(i) : i \in DOMAIN Parts}  BY <1>1, <3>2
    <3> QED BY <3>3 DEF Places, S, s
  <2>3. CASE IsLua(k) /\ W \in D
    <3> DEFINE L == {LuaJIT} \cup Range(LuaSources)
    <3>1. s \in L  BY <1>1, <2>1, <2>3
    <3> HIDE DEF s, L
    <3>2. Append(W, s) \in {Append(W, t) : t \in L}  BY <3>1
    <3>3. Append(W, s) \in UNION {{Append(d, t) : t \in L} : d \in D}
      BY <2>3, <3>2
    <3> QED BY <3>3 DEF Places, L, s
  <2> QED BY <1>2, <2>2, <2>3
<1> QED BY <1>3, <1>4

LEMMA EnterStep ==
  ASSUME SourcesInv, Enter
  PROVE  SourcesInv'
<1>1. /\ pc = "enter" /\ pc' = "get" /\ n' = 1 /\ sh = Root
      /\ UNCHANGED <<f, local, opt, luaPath>> /\ f \in 1..6
  BY DEF Enter, SourcesInv, PositionInv
<1>2. /\ sh' = Shell(Where(f, local, opt), <<>>)
      /\ tree' = tree \cup {Where(f, local, opt)}
  <2>1. CASE ~IsLua(f)
    <3>1. EnterPlain  BY <2>1 DEF Enter
    <3> QED BY <1>1, <2>1, <3>1 DEF EnterPlain, Where, Root, Shell, Cd, Part
  <2>2. CASE IsLua(f)
    <3>1. EnterLua  BY <2>2 DEF Enter
    <3>2. CASE local
      BY <1>1, <2>2, <3>1, <3>2 DEF EnterLua, Where, Root, Shell, Cd
    <3>3. CASE ~local /\ opt
      BY <1>1, <2>2, <3>1, <3>3 DEF EnterLua, Where, Root, Shell
    <3>4. CASE ~local /\ ~opt
      <4>1. sh' = sh /\ tree' = tree  BY <2>2, <3>1, <3>4 DEF EnterLua
      <4>2. Where(f, local, opt) = PARENTF  BY <2>2, <3>4 DEF Where
      <4>3. PARENTF \in tree  BY DEF SourcesInv, PositionInv
      <4> QED BY <1>1, <4>1, <4>2, <4>3 DEF Root
    <3> QED BY <3>2, <3>3, <3>4
  <2> QED BY <2>1, <2>2
<1>3. PositionInv'
  <2>1. 1 \in 1..Len(Parts[f].gets)  BY <1>1, GetsFacts
  <2> QED BY <1>1, <1>2, <2>1 DEF SourcesInv, PositionInv
<1>4. \A k, l : Obtained(k, l, opt, tree) => Obtained(k, l, opt, tree')
  BY <1>2 DEF Obtained
<1>5. ProgressInv' /\ WrittenInv'
  BY <1>1, <1>4 DEF SourcesInv, ProgressInv, WrittenInv
<1>6. NothingAstray'
  <2>1. Places' = Places  BY <1>1 DEF Places
  <2>2. Where(f, local, opt) \in Places
    BY <1>1, WherePlaced DEF SourcesInv, PositionInv
  <2> QED BY <1>2, <2>1, <2>2 DEF SourcesInv, NothingAstray
<1> QED BY <1>3, <1>5, <1>6 DEF SourcesInv

LEMMA GetStep ==
  ASSUME SourcesInv, Get
  PROVE  SourcesInv'
<1> DEFINE m == Len(Parts[f].gets)
<1> DEFINE W == Where(f, local, opt)
<1>1. /\ pc = "get" /\ n \in 1..m /\ f \in 1..6 /\ m \in Nat
      /\ UNCHANGED <<f, sh, local, opt, luaPath>> /\ local \in BOOLEAN
      /\ \A j \in 1..n - 1 : Append(W, Parts[f].gets[j]) \in tree
  BY GetsFacts DEF Get, SourcesInv, PositionInv, ProgressInv
<1>2. tree' = tree \cup {Append(W, Parts[f].gets[n])}
  BY <1>1 DEF Get, SourcesInv, PositionInv, Part, Shell
<1>3. \A k, l : Obtained(k, l, opt, tree) => Obtained(k, l, opt, tree')
  BY <1>2 DEF Obtained
<1>4. NothingAstray' /\ WrittenInv'
  <2>1. Places' = Places  BY <1>1 DEF Places
  <2>2. Append(W, Parts[f].gets[n]) \in Places  BY <1>1, WherePlaced
  <2>3. NothingAstray'  BY <1>2, <2>1, <2>2 DEF SourcesInv, NothingAstray
  <2> QED BY <1>1, <1>3, <2>3 DEF SourcesInv, WrittenInv
<1>5. \A j \in 1..n : Append(W, Parts[f].gets[j]) \in tree'
  <2> TAKE j \in 1..n
  <2>1. CASE j = n  BY <1>2, <2>1
  <2>2. CASE j # n
    <3>1. j \in 1..n - 1  BY <1>1, <2>2
    <3> QED BY <1>1, <1>2, <3>1
  <2> QED BY <2>1, <2>2
<1>6. sh' = Shell(W, <<>>) /\ W \in tree' /\ PARENTF \in tree'
      /\ \A k \in 1..f - 1 : Obtained(k, local, opt, tree')
  BY <1>1, <1>2, <1>3 DEF SourcesInv, PositionInv, ProgressInv
<1>7. CASE n < m
  <2>1. n' = n + 1 /\ pc' = "get"  BY <1>7 DEF Get, Part
  <2>2. n' \in 1..m /\ n' - 1 = n  BY <1>1, <1>7, <2>1
  <2>3. PositionInv'  BY <1>1, <1>6, <2>1, <2>2 DEF PositionInv
  <2>4. ProgressInv'  BY <1>1, <1>5, <1>6, <2>1, <2>2 DEF ProgressInv
  <2> QED BY <1>4, <2>3, <2>4 DEF SourcesInv
<1>8. CASE ~(n < m)
  <2>1. n' = n /\ pc' = "back" /\ n = m  BY <1>1, <1>8 DEF Get, Part
  <2>2. Obtained(f, local, opt, tree')  BY <1>5, <1>6, <2>1 DEF Obtained
  <2>3. PositionInv'  BY <1>1, <1>6, <2>1 DEF PositionInv
  <2>4. ProgressInv'  BY <1>1, <1>6, <2>1, <2>2 DEF ProgressInv
  <2> QED BY <1>4, <2>3, <2>4 DEF SourcesInv
<1> QED BY <1>7, <1>8

(* lua_src is the fourth function, and the only one of its list.           *)
LEMMA PathWriter ==
  ASSUME NEW k \in 1..6, WritesPath(k)
  PROVE  k = 4
<1>1. Len(Parts[k].gets) = 16  BY ListLengths DEF WritesPath
<1>2. k \in {1, 2, 3, 4, 5, 6}  OBVIOUS
<1>3. k # 1  BY <1>1, PartsFacts, ListLengths
<1>4. k # 2  BY <1>1, PartsFacts, ListLengths
<1>5. k # 3  BY <1>1, PartsFacts, ListLengths
<1>6. k # 5  BY <1>1, PartsFacts, ListLengths
<1>7. k # 6  BY <1>1, PartsFacts, ListLengths
<1> QED BY <1>2, <1>3, <1>4, <1>5, <1>6, <1>7

LEMMA BackStep ==
  ASSUME SourcesInv, Back
  PROVE  SourcesInv'
<1>1. /\ pc = "back" /\ f \in 1..6 /\ local \in BOOLEAN /\ n \in Nat \ {0}
      /\ PARENTF \in tree
      /\ UNCHANGED <<n, tree, local, opt>>
      /\ \A k \in 1..f : Obtained(k, local, opt, tree)
  BY DEF Back, SourcesInv, PositionInv, ProgressInv
<1>2. sh' = Root
  BY <1>1 DEF Back, SourcesInv, PositionInv, Root, Shell
<1>3. NothingAstray'  BY <1>1 DEF SourcesInv, NothingAstray, Places
<1>4. WrittenInv'
  <2>1. CASE WritesPath(f)
    <3>1. luaPath' = [written |-> TRUE, local |-> local]  BY <2>1 DEF Back
    <3>2. f = 4  BY <1>1, <2>1, PathWriter
    <3> QED BY <1>1, <3>1, <3>2 DEF WrittenInv
  <2>2. CASE ~WritesPath(f)
    <3>1. luaPath' = luaPath  BY <2>2 DEF Back
    <3> QED BY <1>1, <3>1 DEF SourcesInv, WrittenInv
  <2> QED BY <2>1, <2>2
<1>5. PositionInv' /\ ProgressInv'
  <2>1. CASE f < Len(Parts)
    <3>1. f' = f + 1 /\ pc' = "enter"  BY <2>1 DEF Back
    <3>2. f' \in 1..6 /\ f' - 1 = f  BY <1>1, <2>1, <3>1, PartsFacts
    <3>3. PositionInv'  BY <1>1, <1>2, <3>1, <3>2 DEF PositionInv, Root
    <3> QED BY <1>1, <3>1, <3>2, <3>3 DEF ProgressInv
  <2>2. CASE ~(f < Len(Parts))
    <3>1. f' = f /\ pc' = "done" /\ f = 6
      BY <1>1, <2>2, PartsFacts DEF Back
    <3>2. PositionInv'  BY <1>1, <1>2, <3>1 DEF PositionInv, Root
    <3> QED BY <1>1, <3>1, <3>2 DEF ProgressInv
  <2> QED BY <2>1, <2>2
<1> QED BY <1>3, <1>4, <1>5 DEF SourcesInv

LEMMA SourcesNext == SourcesInv /\ [Next]_vars => SourcesInv'
<1> SUFFICES ASSUME SourcesInv, [Next]_vars PROVE SourcesInv'  OBVIOUS
<1>1. CASE Enter  BY <1>1, EnterStep
<1>2. CASE Get    BY <1>2, GetStep
<1>3. CASE Back   BY <1>3, BackStep
<1>4. CASE Start \/ Gone \/ UNCHANGED vars
  <2>1. opt' = opt /\ tree' = tree /\ luaPath' = luaPath
    BY <1>4 DEF Start, Gone, vars
  <2>2. NothingAstray' /\ WrittenInv'
    BY <2>1 DEF NothingAstray, Places, WrittenInv, SourcesInv
  <2>3. CASE Start
    <3>1. local' \in BOOLEAN  BY <2>3, SettingAssumption DEF Start
    <3> QED BY <2>2, <2>3, <3>1
        DEF SourcesInv, PositionInv, ProgressInv, Start, Root
  <2>4. CASE Gone
    BY <2>2, <2>4 DEF SourcesInv, PositionInv, ProgressInv, Gone
  <2>5. CASE UNCHANGED vars
    BY <2>2, <2>5 DEF SourcesInv, PositionInv, ProgressInv, vars, Root
  <2> QED BY <1>4, <2>3, <2>4, <2>5
<1> QED BY <1>1, <1>2, <1>3, <1>4 DEF Next

LEMMA SourcesInit == Init => SourcesInv
  BY SettingAssumption
  DEF Init, SourcesInv, PositionInv, ProgressInv, WrittenInv, NothingAstray,
      Places, Root

(* Nothing is ever put anywhere but in its place, although the names are   *)
(* relative and no cd is checked (nginx_builder:233-605): wherever runs    *)
(* are cut off, and however often the mode changes.                        *)
THEOREM NothingIsAstray == Spec => []NothingAstray
<1>1. SourcesInv => NothingAstray  BY DEF SourcesInv
<1> QED BY SourcesInit, SourcesNext, <1>1, PTL DEF Spec
-----------------------------------------------------------------------------
(* What a list names is got by the function whose list it is.              *)
LEMMA ListMembers ==
  /\ \A s \in {Sregex, Drizzle, ModSec} : \E j \in 1..4 : EtcSources[j] = s
  /\ \A s \in {"lua-resty-core.git", "lua-resty-lrucache.git",
               "lua-resty-redis.git", "lua-resty-mysql.git", LuaSSL, Signal,
               "lua-tablepool.git", "lua-resty-shell.git", CJson} :
        \E j \in 1..16 : LuaSources[j] = s
  /\ \E j \in 1..2 : NginxSources[j] = NGINXV
<1>1. /\ EtcSources[1] = Sregex /\ EtcSources[2] = Drizzle
      /\ EtcSources[3] = ModSec
  BY DEF EtcSources
<1>2. /\ LuaSources[1] = "lua-resty-core.git"
      /\ LuaSources[2] = "lua-resty-lrucache.git"
      /\ LuaSources[3] = CJson
      /\ LuaSources[4] = "lua-resty-redis.git"
      /\ LuaSources[6] = "lua-resty-mysql.git"
      /\ LuaSources[7] = LuaSSL
      /\ LuaSources[8] = Signal
      /\ LuaSources[9] = "lua-tablepool.git"
      /\ LuaSources[10] = "lua-resty-shell.git"
  BY DEF LuaSources
<1>3. NginxSources[2] = NGINXV  BY DEF NginxSources
<1>4. /\ 1 \in 1..4 /\ 2 \in 1..4 /\ 3 \in 1..4
      /\ \A i \in {1, 2, 3, 4, 6, 7, 8, 9, 10} : i \in 1..16
      /\ 2 \in 1..2
  OBVIOUS
<1> QED BY <1>1, <1>2, <1>3, <1>4

(* The modules of the configure line are the ones that ngx_module gets.    *)
LEMMA ModuleMembers ==
  \A p \in AddModules(TRUE) :
    \/ p = Append(LuaSrc(TRUE), LuaSSL)
    \/ \E j \in 1..22 : p = Sub(PARENTF, "ngx_module", ModuleSources[j])
<1> DEFINE M == {ModuleSources[j] : j \in 1..22}
<1>1. AddModules(TRUE)
        \subseteq {Sub(PARENTF, "ngx_module", m) : m \in M}
                 \cup {Append(LuaSrc(TRUE), LuaSSL)}
  <2> DEFINE E(j) == ModuleSources[j] \in M
  <2>1. \A j \in 1..22 : E(j)  OBVIOUS
  <2>2. /\ E(1) /\ E(2) /\ E(3) /\ E(4) /\ E(5) /\ E(6) /\ E(7) /\ E(8)
        /\ E(9) /\ E(10) /\ E(11) /\ E(12) /\ E(13) /\ E(14) /\ E(15)
        /\ E(16) /\ E(17) /\ E(18) /\ E(19) /\ E(20) /\ E(21) /\ E(22)
    <3> HIDE DEF E
    <3> QED BY <2>1
  <2> HIDE DEF M
  <2> QED BY <2>2 DEF AddModules, ModuleSources
<1> QED BY <1>1

(* A run that came to its end in local mode has made what install enters   *)
(* and what the configure line refers to.                                  *)
LEMMA Shipped ==
  ASSUME \A k \in 1..6 : Obtained(k, TRUE, opt, tree)
  PROVE  Entered \cup AddModules(TRUE) \subseteq tree
<1>1. /\ Where(1, TRUE, opt) = GroupDir("etc_src")
      /\ Where(2, TRUE, opt) = Append(PARENTF, "ngx_module")
      /\ Where(3, TRUE, opt) = GroupDir("lua_src")
      /\ Where(4, TRUE, opt) = GroupDir("lua_src")
      /\ Where(5, TRUE, opt) = GroupDir("etc_src")
      /\ Where(6, TRUE, opt) = Append(PARENTF, "ngx_src")
  BY PartsFacts DEF Where, IsLua, GroupDir
<1> DEFINE O(k) == Obtained(k, TRUE, opt, tree)
<1>2. O(1) /\ O(2) /\ O(3) /\ O(4) /\ O(5) /\ O(6)
  <2>1. \A k \in 1..6 : O(k)  OBVIOUS
  <2> HIDE DEF O
  <2> QED BY <2>1
<1>3. GroupDir("etc_src") \in tree
      /\ \A j \in 1..4 : Append(GroupDir("etc_src"), EtcSources[j]) \in tree
  BY <1>1, <1>2, PartsFacts, ListLengths DEF Obtained
<1>4. \A j \in 1..22 : Sub(PARENTF, "ngx_module", ModuleSources[j]) \in tree
  BY <1>1, <1>2, PartsFacts, ListLengths DEF Obtained, Sub
<1>5. GroupDir("lua_src") \in tree /\ Append(GroupDir("lua_src"), LuaJIT) \in tree
  <2>1. 1 \in 1..Len(Parts[3].gets) /\ Parts[3].gets[1] = LuaJIT
    BY PartsFacts, ListLengths
  <2> QED BY <1>1, <1>2, <2>1 DEF Obtained
<1>6. \A j \in 1..16 : Append(GroupDir("lua_src"), LuaSources[j]) \in tree
  BY <1>1, <1>2, PartsFacts, ListLengths DEF Obtained
<1>7. Append(GroupDir("etc_src"), OpenSSL) \in tree
  <2>1. 1 \in 1..Len(Parts[5].gets) /\ Parts[5].gets[1] = OpenSSL
    BY PartsFacts, ListLengths
  <2> QED BY <1>1, <1>2, <2>1 DEF Obtained
<1>8. NginxDir \in tree
  <2>1. \A j \in 1..2 : Sub(PARENTF, "ngx_src", NginxSources[j]) \in tree
    BY <1>1, <1>2, PartsFacts, ListLengths DEF Obtained, Sub
  <2> QED BY <2>1, ListMembers DEF NginxDir
<1>9. \A comp \in Components : Home(comp) \in tree
  <2> TAKE comp \in Components
  <2>1. CASE comp \in {Sregex, Drizzle, ModSec}
    <3>1. Home(comp) = Append(GroupDir("etc_src"), comp)
      BY <2>1 DEF Home, GroupOf
    <3> QED BY <1>3, <2>1, <3>1, ListMembers
  <2>2. CASE comp \in {LuaJIT, CJson, Signal}
    <3>1. Home(comp) = Append(GroupDir("lua_src"), comp)
      BY <2>2 DEF Home, GroupOf, Sregex, Drizzle, ModSec, LuaJIT, CJson, Signal
    <3>2. CASE comp = LuaJIT  BY <1>5, <3>1, <3>2
    <3>3. CASE comp \in {CJson, Signal}  BY <1>6, <3>1, <3>3, ListMembers
    <3> QED BY <2>2, <3>2, <3>3
  <2> QED BY <2>1, <2>2 DEF Components
<1>10. \A i \in DOMAIN Groups : GroupDir(Groups[i].dir) \in tree
  <2>1. \A i \in DOMAIN Groups : Groups[i].dir \in {"etc_src", "lua_src"}
    BY DEF Groups
  <2> QED BY <1>3, <1>5, <2>1
<1>11. AddModules(TRUE) \subseteq tree
  <2>1. Append(LuaSrc(TRUE), LuaSSL) \in tree
    BY <1>6, ListMembers DEF LuaSrc
  <2> QED BY <1>4, <2>1, ModuleMembers
<1> QED BY <1>3, <1>7, <1>8, <1>9, <1>10, <1>11 DEF Entered

(* A local run that came to its end leaves the release that install        *)
(* expects, whatever runs, complete or not, in whatever mode, went before. *)
THEOREM ReleaseIsComplete == Spec => []ShippedTree
<1>1. SourcesInv => ShippedTree
  <2> SUFFICES ASSUME SourcesInv, pc = "done", local
               PROVE  Entered \cup AddModules(TRUE) \subseteq tree
    BY DEF ShippedTree
  <2>1. local = TRUE  BY DEF SourcesInv, PositionInv
  <2>2. \A k \in 1..6 : Obtained(k, TRUE, opt, tree)
    BY <2>1 DEF SourcesInv, ProgressInv
  <2> QED BY <2>2, Shipped
<1> QED BY SourcesInit, SourcesNext, <1>1, PTL DEF Spec

(* lua_package_path never names a package that was not obtained for the    *)
(* mode it was written in (nginx_builder:458-494), also when a later run   *)
(* in the other mode was cut short.                                        *)
THEOREM PackagesAreThere == Spec => []LuaPathObtained
<1>1. SourcesInv => LuaPathObtained
  <2> SUFFICES ASSUME SourcesInv, luaPath.written, luaPath.local \/ opt,
                      NEW p \in LuaPackages(luaPath.local)
               PROVE  p \in tree
    BY DEF LuaPathObtained
  <2> DEFINE l == luaPath.local
  <2>1. l \in BOOLEAN /\ Obtained(4, l, opt, tree)
    BY DEF SourcesInv, WrittenInv
  <2>2. Where(4, l, opt) = LuaSrc(l)
    BY <2>1, PartsFacts DEF Where, IsLua, LuaSrc, GroupDir
  <2>3. \A j \in 1..16 : Append(LuaSrc(l), LuaSources[j]) \in tree
    BY <2>1, <2>2, PartsFacts, ListLengths DEF Obtained
  <2>4. PICK s \in {"lua-resty-core.git", "lua-resty-lrucache.git",
                    "lua-resty-redis.git", "lua-resty-mysql.git", LuaSSL,
                    Signal, "lua-tablepool.git", "lua-resty-shell.git", CJson} :
             p = Append(LuaSrc(l), s)
    BY DEF LuaPackages
  <2>5. PICK j \in 1..16 : LuaSources[j] = s  BY ListMembers
  <2> QED BY <2>3, <2>4, <2>5
<1> QED BY SourcesInit, SourcesNext, <1>1, PTL DEF Spec
-----------------------------------------------------------------------------
LEMMA ShortPaths ==
  ASSUME NEW x, NEW d, NEW s
  PROVE  /\ Len(Append(<<x>>, d)) = 2
         /\ Append(<<x>>, d)[1] = x /\ Append(<<x>>, d)[2] = d
         /\ Len(Append(Append(<<x>>, d), s)) = 3
<1> DEFINE S == {x, d, s}
<1>1. <<x>> \in Seq(S) /\ Len(<<x>>) = 1 /\ <<x>>[1] = x /\ d \in S /\ s \in S
  OBVIOUS
<1> HIDE DEF S
<1> DEFINE q == Append(<<x>>, d)
<1>2. q \in Seq(S) /\ Len(q) = 2 /\ q[1] = x /\ q[2] = d
  BY <1>1, AppendProperties
<1> HIDE DEF q
<1>3. Len(Append(q, s)) = Len(q) + 1  BY <1>1, <1>2, AppendProperties, Zenon
<1>4. Len(Append(q, s)) = 3  BY <1>2, <1>3
<1> QED BY <1>2, <1>4 DEF q

(* The assumption that module Install makes of a release, for the one that *)
(* a run of nginx_builder leaves: no component lies in $PARENTF itself,    *)
(* unless a user without the right to make /opt/lua_src ran it with        *)
(* IS_LOCAL=0.                                                             *)
THEOREM NoComponentAstray ==
  Spec => [](opt => \A comp \in Components : Append(PARENTF, comp) \notin tree)
<1>1. NothingAstray => (opt => \A comp \in Components : Append(PARENTF, comp) \notin tree)
  <2> SUFFICES ASSUME opt, NEW comp \in Components, Append(PARENTF, comp) \in Places
               PROVE  FALSE
    BY DEF NothingAstray
  <2> DEFINE q == Append(PARENTF, comp)
  <2>1. PARENTF = <<"PARENTF">> /\ OPTLUA = <<"/opt/lua_src">>
    BY DEF PARENTF, OPTLUA
  <2>2. /\ Len(q) = 2 /\ q[1] = "PARENTF" /\ q[2] = comp
        /\ \A s : Append(OPTLUA, s)[1] = "/opt/lua_src"
        /\ \A d, s : Len(Sub(PARENTF, d, s)) = 3
        /\ \A d : Append(PARENTF, d)[2] = d
    BY <2>1, ShortPaths DEF Sub
  <2>3. Len(PARENTF) = 1 /\ Len(OPTLUA) = 1  BY <2>1
  <2> HIDE DEF q
  <2>4. comp \notin {"etc_src", "ngx_module", "lua_src", "ngx_src"}
    BY DEF Components, Sregex, Drizzle, ModSec, LuaJIT, CJson, Signal
  <2>5. q \notin {PARENTF, OPTLUA}  BY <2>2, <2>3
  <2>6. q \notin {Append(PARENTF, d) : d \in {"etc_src", "ngx_module", "lua_src", "ngx_src"}}
    BY <2>2, <2>4
  <2>7. q \notin UNION {{Sub(PARENTF, Parts[k].dir, s) : s \in Range(Parts[k].gets)}
                       : k \in DOMAIN Parts}
    <3> SUFFICES ASSUME NEW k \in DOMAIN Parts, NEW s \in Range(Parts[k].gets),
                        q = Sub(PARENTF, Parts[k].dir, s)
                 PROVE  FALSE
      OBVIOUS
    <3>1. Len(Sub(PARENTF, Parts[k].dir, s)) = 3  BY <2>2
    <3>2. 2 # 3  OBVIOUS
    <3> QED BY <2>2, <3>1, <3>2
  <2>8. q \notin UNION {{Append(d, s) : s \in {LuaJIT} \cup Range(LuaSources)}
                       : d \in {OPTLUA} \cup (IF opt THEN {} ELSE {PARENTF})}
    BY <2>2
  <2> QED BY <2>5, <2>6, <2>7, <2>8 DEF Places, q
<1> QED BY NothingIsAstray, <1>1, PTL
=============================================================================
