---------------------------- MODULE InstallProofs ----------------------------
(* Where the shell of install is, what it deletes, what it hands over and   *)
(* that its runs come to an end, in whatever release it is unpacked.       *)
EXTENDS Install, SequenceTheorems, TLAPS

(* What popd and a second pushd do to the one or two directories that the  *)
(* script ever has on its stack.                                           *)
LEMMA StackFacts ==
  ASSUME NEW S, NEW a \in S, NEW b \in S
  PROVE  /\ <<a>> \o <<>> = <<a>>
         /\ <<a>> \o <<b>> = <<a, b>>
         /\ Head(<<a>>) = a /\ Tail(<<a>>) = <<>>
         /\ Head(<<a, b>>) = a /\ Tail(<<a, b>>) = <<b>>
         /\ <<a>> # <<>> /\ <<a, b>> # <<>>
         /\ <<a>> \in Seq(S) /\ <<a, b>> \in Seq(S)
<1>1. <<a>> \o <<>> = <<a>>  OBVIOUS
<1>2. <<a>> \o <<b>> = <<a, b>>
  <2> DEFINE s == <<a>> \o <<b>>
  <2> DEFINE t == <<a, b>>
  <2>1. <<a>> \in Seq(S) /\ <<b>> \in Seq(S)  OBVIOUS
  <2>2. s \in Seq(S) /\ Len(s) = 2 /\ s[1] = a /\ s[2] = b
    BY <2>1, ConcatProperties
  <2>3. t \in Seq(S) /\ Len(t) = 2 /\ t[1] = a /\ t[2] = b  OBVIOUS
  <2> HIDE DEF s, t
  <2>4. s = t  BY <2>2, <2>3, SeqEqual
  <2> QED BY <2>4 DEF s, t
<1>3. Head(<<a>>) = a /\ Head(<<a, b>>) = a  OBVIOUS
<1>4. Tail(<<a>>) = <<>>  OBVIOUS
<1>5. Tail(<<a, b>>) = <<b>>  OBVIOUS
<1>6. <<a>> # <<>> /\ <<a, b>> # <<>>  OBVIOUS
<1>7. <<a>> \in Seq(S)  OBVIOUS
<1>8. <<a, b>> \in Seq(S)  OBVIOUS
<1> QED BY <1>1, <1>2, <1>3, <1>4, <1>5, <1>6, <1>7, <1>8

LEMMA AppendPath ==
  ASSUME NEW s \in Paths, NEW a \in Names
  PROVE  /\ Append(s, a) \in Paths
         /\ Len(Append(s, a)) = Len(s) + 1
         /\ \A i \in 1..Len(s) : Append(s, a)[i] = s[i]
         /\ Append(s, a)[Len(s) + 1] = a
  BY AppendProperties DEF Paths

LEMMA AppendSame ==
  ASSUME NEW s \in Paths, NEW t \in Paths, NEW a \in Names, NEW b \in Names
  PROVE  Append(s, a) = Append(t, b) => s = t /\ a = b
<1>1. s \in Seq(Names) /\ t \in Seq(Names)  BY DEF Paths
<1> QED BY <1>1

LEMMA NamesOfScript ==
  /\ Components \subseteq Names /\ LibDir \in Names
  /\ "build" \in Names /\ "lib" \in Names /\ "sbin" \in Names
  /\ "src" \in Names /\ "sregex" \in Names /\ "drizzle" \in Names
  /\ "include" \in Names
  /\ "modsecurity" \in Names /\ "cjson.so" \in Names
  /\ "librestysignal.so" \in Names /\ "etc_src" \in Names
  /\ "lua_src" \in Names /\ "ngx_src" \in Names /\ NGINXV \in Names
  /\ "PARENTF" \in Names /\ "/opt/lua_src" \in Names
  /\ "/usr/local" \in Names
  BY TreeAssumption DEF ScriptNames

LEMMA RootPaths ==
  /\ PARENTF \in Paths /\ Len(PARENTF) = 1 /\ PARENTF[1] = "PARENTF"
  /\ USRLOCAL \in Paths /\ Len(USRLOCAL) = 1 /\ USRLOCAL[1] = "/usr/local"
  /\ OPTLUA \in Paths /\ Len(OPTLUA) = 1
  BY NamesOfScript DEF PARENTF, USRLOCAL, OPTLUA, Paths

LEMMA SubPath ==
  ASSUME NEW s \in Paths, NEW a \in Names, NEW b \in Names
  PROVE  Sub(s, a, b) \in Paths /\ Len(Sub(s, a, b)) = Len(s) + 2
<1>1. Append(s, a) \in Paths /\ Len(Append(s, a)) = Len(s) + 1
  BY AppendPath
<1>2. Len(s) \in Nat  BY DEF Paths
<1>3. /\ Append(Append(s, a), b) \in Paths
      /\ Len(Append(Append(s, a), b)) = Len(Append(s, a)) + 1
  BY <1>1, AppendPath, Zenon
<1> QED BY <1>1, <1>2, <1>3 DEF Sub

LEMMA SubRoot ==
  ASSUME NEW a \in Names, NEW b \in Names
  PROVE  Sub(USRLOCAL, a, b) \in Paths /\ Sub(USRLOCAL, a, b)[1] = "/usr/local"
<1> DEFINE q == Append(USRLOCAL, a)
<1>1. q \in Paths /\ Len(q) = Len(USRLOCAL) + 1
      /\ \A i \in 1..Len(USRLOCAL) : q[i] = USRLOCAL[i]
  BY RootPaths, AppendPath, Zenon
<1> HIDE DEF q
<1>2. Append(q, b) \in Paths /\ \A i \in 1..Len(q) : Append(q, b)[i] = q[i]
  BY <1>1, AppendPath, Zenon
<1>3. Len(q) = 2 /\ q[1] = "/usr/local"  BY <1>1, RootPaths
<1>4. Append(q, b)[1] = "/usr/local"  BY <1>2, <1>3
<1> QED BY <1>2, <1>4 DEF Sub, q

LEMMA PathsOfScript ==
  /\ BUILDF \in Paths /\ Len(BUILDF) = 2
  /\ \A d \in {"etc_src", "lua_src"} :
        GroupDir(d) \in Paths /\ Len(GroupDir(d)) = 2
  /\ \A comp \in Components : Home(comp) \in Paths /\ Len(Home(comp)) = 3
<1>1. BUILDF \in Paths /\ Len(BUILDF) = Len(PARENTF) + 1
  BY NamesOfScript, RootPaths, AppendPath, Zenon DEF BUILDF
<1>2. ASSUME NEW d \in {"etc_src", "lua_src"}
      PROVE  GroupDir(d) \in Paths /\ Len(GroupDir(d)) = 2
  <2>1. d \in Names  BY NamesOfScript
  <2>2. GroupDir(d) \in Paths /\ Len(GroupDir(d)) = Len(PARENTF) + 1
    BY <2>1, RootPaths, AppendPath, Zenon DEF GroupDir
  <2> QED BY <2>2, RootPaths
<1>3. ASSUME NEW comp \in Components
      PROVE  Home(comp) \in Paths /\ Len(Home(comp)) = 3
  <2> DEFINE d == GroupDir(GroupOf(comp))
  <2>1. GroupOf(comp) \in {"etc_src", "lua_src"}  BY DEF GroupOf
  <2>2. d \in Paths /\ Len(d) = 2  BY <1>2, <2>1
  <2>3. comp \in Names  BY NamesOfScript
  <2>4. Append(d, comp) \in Paths /\ Len(Append(d, comp)) = Len(d) + 1
    BY <2>2, <2>3, AppendPath, Zenon
  <2> QED BY <2>2, <2>4 DEF Home
<1> QED BY <1>1, <1>2, <1>3, RootPaths

(* The paths $PARENTF/component, which no step of the script creates: such *)
(* a directory would let pushd succeed when the shell is in the wrong      *)
(* place.                                                                  *)
LEMMA NotStray ==
  ASSUME NEW p \in Paths, NEW k \in Components,
         Len(p) # 2 \/ p[1] # "PARENTF"
  PROVE  p # Append(PARENTF, k)
<1> DEFINE q == Append(PARENTF, k)
<1>1. k \in Names  BY NamesOfScript
<1>2. Len(q) = Len(PARENTF) + 1 /\ \A i \in 1..Len(PARENTF) : q[i] = PARENTF[i]
  BY <1>1, RootPaths, AppendPath, Zenon
<1> HIDE DEF q
<1>3. Len(q) = 2 /\ q[1] = "PARENTF"  BY <1>2, RootPaths
<1> QED BY <1>3 DEF q

LEMMA BuildDirNotStray ==
  ASSUME NEW d \in Paths, NEW k \in Components
  PROVE  Append(d, "build") \in Paths /\ Append(d, "build") # Append(PARENTF, k)
<1>1. k \in Names /\ "build" \in Names  BY NamesOfScript
<1>2. k # "build"
  BY DEF Components, Sregex, Drizzle, ModSec, LuaJIT, CJson, Signal
<1>3. Append(d, "build") = Append(PARENTF, k) => "build" = k
  BY <1>1, RootPaths, AppendSame, Zenon
<1>4. Append(d, "build") \in Paths  BY <1>1, AppendPath
<1> QED BY <1>2, <1>3, <1>4

(* A path that is neither a directory of $PARENTF nor one of its           *)
(* subdirectories.                                                         *)
Far(p) == Len(p) \notin {2, 3} \/ p[1] # "PARENTF"

(* What a build installs is far in this sense.                             *)
LEMMA ProductFar ==
  ASSUME NEW comp \in Components, NEW l \in BOOLEAN
  PROVE  Product(comp, l) \in Paths /\ Far(Product(comp, l))
<1> USE DEF Far
<1>1. Home(comp) \in Paths /\ Len(Home(comp)) = 3  BY PathsOfScript
<1>2. CASE comp = Sregex
  <2>1. Sub(Home(comp), "build", "lib") \in Paths
        /\ Len(Sub(Home(comp), "build", "lib")) = Len(Home(comp)) + 2
    BY <1>1, NamesOfScript, SubPath, Zenon
  <2>2. Sub(USRLOCAL, "lib", "sregex") \in Paths
        /\ Sub(USRLOCAL, "lib", "sregex")[1] = "/usr/local"
    <3>1. "lib" \in Names /\ "sregex" \in Names  BY NamesOfScript
    <3> QED BY <3>1, SubRoot, Zenon
  <2>3. Product(comp, l) = IF l THEN Sub(Home(comp), "build", "lib")
                                ELSE Sub(USRLOCAL, "lib", "sregex")
    BY <1>2 DEF Product, Sregex, Drizzle, ModSec, LuaJIT, CJson, Signal
  <2>4. CASE l
    <3>1. Product(comp, l) \in Paths /\ Len(Product(comp, l)) = 5
      BY <1>1, <2>1, <2>3, <2>4
    <3> QED BY <3>1
  <2>5. CASE ~l
    <3>1. Product(comp, l) \in Paths /\ Product(comp, l)[1] = "/usr/local"
      BY <2>2, <2>3, <2>5, RootPaths
    <3> QED BY <3>1
  <2> QED BY <2>4, <2>5
<1>3. CASE comp = Drizzle
  <2>1. Sub(Home(comp), "build", LibDir) \in Paths
        /\ Len(Sub(Home(comp), "build", LibDir)) = Len(Home(comp)) + 2
    BY <1>1, NamesOfScript, SubPath, Zenon
  <2>2. Sub(USRLOCAL, "lib", "drizzle") \in Paths
        /\ Sub(USRLOCAL, "lib", "drizzle")[1] = "/usr/local"
    <3>1. "lib" \in Names /\ "drizzle" \in Names  BY NamesOfScript
    <3> QED BY <3>1, SubRoot, Zenon
  <2>3. Product(comp, l) = IF l THEN Sub(Home(comp), "build", LibDir)
                                ELSE Sub(USRLOCAL, "lib", "drizzle")
    BY <1>3 DEF Product, Sregex, Drizzle, ModSec, LuaJIT, CJson, Signal
  <2>4. CASE l
    <3>1. Product(comp, l) \in Paths /\ Len(Product(comp, l)) = 5
      BY <1>1, <2>1, <2>3, <2>4
    <3> QED BY <3>1
  <2>5. CASE ~l
    <3>1. Product(comp, l) \in Paths /\ Product(comp, l)[1] = "/usr/local"
      BY <2>2, <2>3, <2>5, RootPaths
    <3> QED BY <3>1
  <2> QED BY <2>4, <2>5
<1>4. CASE comp = ModSec
  <2>1. Sub(BUILDF, "modsecurity", LibDir) \in Paths
        /\ Len(Sub(BUILDF, "modsecurity", LibDir)) = Len(BUILDF) + 2
    BY PathsOfScript, NamesOfScript, SubPath, Zenon
  <2> DEFINE q == Append(USRLOCAL, "modsecurity")
  <2>a. USRLOCAL \in Paths /\ "modsecurity" \in Names
    BY RootPaths, NamesOfScript
  <2>2. q \in Paths /\ \A i \in 1..Len(USRLOCAL) : q[i] = USRLOCAL[i]
    BY <2>a, AppendPath, Zenon
  <2>3. Product(comp, l) = IF l THEN Sub(BUILDF, "modsecurity", LibDir) ELSE q
    BY <1>4 DEF Product, Sregex, Drizzle, ModSec, LuaJIT, CJson, Signal
  <2> HIDE DEF q
  <2>4. CASE l
    <3>1. Product(comp, l) \in Paths /\ Len(Product(comp, l)) = 4
      BY <2>1, <2>3, <2>4, PathsOfScript
    <3> QED BY <3>1
  <2>5. CASE ~l
    <3>1. Product(comp, l) \in Paths /\ Product(comp, l)[1] = "/usr/local"
      BY <2>2, <2>3, <2>5, RootPaths
    <3> QED BY <3>1
  <2> QED BY <2>4, <2>5
<1>5. CASE comp = LuaJIT
  <2> DEFINE q == Append(LuaSrc(l), LuaJIT)
  <2>1. LuaSrc(l) \in Paths /\ Len(LuaSrc(l)) = IF l THEN 2 ELSE 1
    BY RootPaths, PathsOfScript DEF LuaSrc
  <2>2. LuaJIT \in Names  BY NamesOfScript DEF Components
  <2>3. q \in Paths /\ Len(q) = Len(LuaSrc(l)) + 1
    BY <2>1, <2>2, AppendPath, Zenon
  <2>4. Product(comp, l) = Sub(q, "build", "lib")
    BY <1>5 DEF Product, Sregex, Drizzle, ModSec, LuaJIT, CJson, Signal
  <2>5. Sub(q, "build", "lib") \in Paths
        /\ Len(Sub(q, "build", "lib")) = Len(q) + 2
    BY <2>3, NamesOfScript, SubPath, Zenon
  <2> HIDE DEF q
  <2>6. Len(Sub(q, "build", "lib")) = IF l THEN 5 ELSE 4
    BY <2>1, <2>3, <2>5
  <2>7. Product(comp, l) \in Paths /\ Far(Product(comp, l))
    <3>1. Product(comp, l) \in Paths  BY <2>4, <2>5
    <3>2. Len(Product(comp, l)) = IF l THEN 5 ELSE 4  BY <2>4, <2>6
    <3>3. Len(Product(comp, l)) \notin {2, 3}  BY <3>2
    <3> QED BY <3>1, <3>3
  <2> QED BY <2>7
<1>6. ASSUME comp \in {CJson, Signal}
      PROVE  Product(comp, l) \in Paths /\ Far(Product(comp, l))
  <2>1. PICK x \in {"cjson.so", "librestysignal.so"} :
             Product(comp, l) = Append(Home(comp), x)
    BY <1>6 DEF Product, Sregex, Drizzle, ModSec, LuaJIT, CJson, Signal
  <2>2. x \in Names  BY NamesOfScript
  <2>3. Append(Home(comp), x) \in Paths
        /\ Len(Append(Home(comp), x)) = Len(Home(comp)) + 1
    BY <1>1, <2>2, AppendPath, Zenon
  <2>4. Product(comp, l) \in Paths /\ Far(Product(comp, l))  BY <1>1, <2>1, <2>3
  <2> QED BY <2>4
<1> QED BY <1>2, <1>3, <1>4, <1>5, <1>6 DEF Components

(* And so are the headers beside it.                                       *)
LEMMA InstalledFar ==
  ASSUME NEW comp \in Components, NEW l \in BOOLEAN, NEW q \in Installed(comp, l)
  PROVE  q \in Paths /\ Far(q)
<1>1. CASE q = Product(comp, l)  BY <1>1, ProductFar
<1>2. CASE q \in Headers(comp, l)
  <2>1. PICK s \in {Home(comp), BUILDF}, a \in {"build", "modsecurity"} :
             q = Sub(s, a, "include") /\ (s = BUILDF \/ s = Home(comp))
    BY <1>2 DEF Headers
  <2>2. s \in Paths /\ Len(s) \in {2, 3}  BY <2>1, PathsOfScript
  <2>3. a \in Names /\ "include" \in Names  BY <2>1, NamesOfScript
  <2>4. q \in Paths /\ Len(q) = Len(s) + 2  BY <2>1, <2>2, <2>3, SubPath
  <2> QED BY <2>2, <2>4 DEF Far
<1> QED BY <1>1, <1>2 DEF Installed

(* So no build installs anything in the place of a component next to the   *)
(* groups.                                                                 *)
LEMMA InstalledNotStray ==
  ASSUME NEW comp \in Components, NEW l \in BOOLEAN, NEW k \in Components,
         NEW q \in Installed(comp, l)
  PROVE  q \in Paths /\ q # Append(PARENTF, k)
<1>1. q \in Paths /\ (Len(q) # 2 \/ q[1] # "PARENTF")
  BY InstalledFar DEF Far
<1> QED BY <1>1, NotStray
-----------------------------------------------------------------------------
(* The inductive invariant.  ShellPosition alone is not inductive: if a    *)
(* directory $PARENTF/component appeared, pushd would go there.            *)
NoStray == \A k \in Components : Append(PARENTF, k) \notin fs

InstallInv == TypeOK /\ NoStray /\ ShellPosition

LEMMA GroupFacts ==
  ASSUME g \in 1..Len(Groups), c \in 1..Len(Group.components)
  PROVE  /\ g \in {1, 2} /\ c \in {1, 2, 3}
         /\ Len(Groups) = 2 /\ Len(Group.components) = 3
         /\ Component \in Components
         /\ Group.dir \in {"etc_src", "lua_src"}
         /\ Group.dir = GroupOf(Component)
<1>1. g \in {1, 2} /\ Len(Groups) = 2  BY DEF Groups
<1>2. CASE g = 1
  <2>1. Group = [dir |-> "etc_src", components |-> <<Sregex, Drizzle, ModSec>>]
    BY <1>2 DEF Group, Groups
  <2>2. Len(Group.components) = 3 /\ c \in {1, 2, 3}  BY <2>1
  <2>3. Component \in {Sregex, Drizzle, ModSec}  BY <2>1, <2>2 DEF Component
  <2> QED BY <1>1, <2>1, <2>2, <2>3 DEF Components, GroupOf
<1>3. CASE g = 2
  <2>1. Group = [dir |-> "lua_src", components |-> <<LuaJIT, CJson, Signal>>]
    BY <1>3 DEF Group, Groups
  <2>2. Len(Group.components) = 3 /\ c \in {1, 2, 3}  BY <2>1
  <2>3. Component \in {LuaJIT, CJson, Signal}  BY <2>1, <2>2 DEF Component
  <2>4. GroupOf(Component) = "lua_src"
    BY <2>3 DEF GroupOf, Sregex, Drizzle, ModSec, LuaJIT, CJson, Signal
  <2> QED BY <1>1, <2>1, <2>2, <2>3, <2>4 DEF Components
<1> QED BY <1>1, <1>2, <1>3

(* The three positions of the shell have the type of the invariant.        *)
ShellType == [cwd : Paths, stack : Seq(Paths)]

LEMMA PlaceTypes ==
  ASSUME NEW d \in {"etc_src", "lua_src"}, NEW comp \in Components
  PROVE  /\ Shell(PARENTF, <<>>) \in ShellType
         /\ Shell(GroupDir(d), <<PARENTF>>) \in ShellType
         /\ Shell(Home(comp), <<GroupDir(d), PARENTF>>) \in ShellType
<1>1. GroupDir(d) \in Paths /\ Home(comp) \in Paths  BY PathsOfScript
<1>2. PARENTF \in Paths  BY RootPaths
<1>3. <<PARENTF>> \in Seq(Paths) /\ <<GroupDir(d), PARENTF>> \in Seq(Paths)
  BY <1>1, <1>2, StackFacts, Zenon
<1>4. <<>> \in Seq(Paths)  OBVIOUS
<1> QED BY <1>1, <1>2, <1>3, <1>4 DEF ShellType, Shell

(* The same for the present state, and for a step that keeps the group and *)
(* the component.                                                          *)
LEMMA PositionTypes ==
  ASSUME g \in 1..Len(Groups), c \in 1..Len(Group.components)
  PROVE  /\ AtParent \/ InGroup \/ InComponent => sh \in ShellType
         /\ Group' = Group /\ Component' = Component
              => ((AtParent \/ InGroup \/ InComponent)' => sh' \in ShellType)
         /\ Group' = Group => ((AtParent \/ InGroup)' => sh' \in ShellType)
<1>1. Component \in Components /\ Group.dir \in {"etc_src", "lua_src"}
  BY GroupFacts
<1> QED BY <1>1, PlaceTypes DEF AtParent, InGroup, InComponent

LEMMA InstallInit == Init => InstallInv
<1> SUFFICES ASSUME Init PROVE InstallInv  OBVIOUS
<1> USE DEF Init
<1>1. g \in 1..Len(Groups) /\ c \in 1..Len(Group.components)
  <2>1. Group = [dir |-> "etc_src", components |-> <<Sregex, Drizzle, ModSec>>]
    BY DEF Group, Groups
  <2>2. Len(Group.components) = 3 /\ Len(Groups) = 2  BY <2>1 DEF Groups
  <2> QED BY <2>2
<1>2. AtParent /\ ShellPosition  BY DEF AtParent, ShellPosition
<1>3. NoStray  BY TreeAssumption DEF NoStray
<1>4. fs \subseteq Paths /\ fresh \subseteq Paths  BY TreeAssumption
<1>5. TypeOK
  BY <1>1, <1>2, <1>4, PositionTypes, SettingAssumption
     DEF TypeOK, Control, NoPath, NoConf, ShellType
<1> QED BY <1>2, <1>3, <1>5 DEF InstallInv

(* What the commands before make leave is made of paths, none of them      *)
(* stray, and so is what make install adds.                                *)
LEMMA PreparedFacts ==
  ASSUME TypeOK, NoStray, NEW comp \in Components, NEW l \in BOOLEAN
  PROVE  /\ Prepared(comp, sh.cwd) \subseteq Paths
         /\ Installed(comp, l) \subseteq Paths
         /\ \A k \in Components :
               Append(PARENTF, k) \notin Prepared(comp, sh.cwd) \cup Installed(comp, l)
<1>1. sh.cwd \in Paths /\ fs \subseteq Paths  BY DEF TypeOK
<1>2. Prepared(comp, sh.cwd) \subseteq fs \cup {Append(sh.cwd, "build")}
  BY DEF Prepared
<1>3. Append(sh.cwd, "build") \in Paths
  BY <1>1, NamesOfScript, AppendPath, Zenon
<1>4. ASSUME NEW k \in Components
      PROVE  /\ Append(PARENTF, k) \notin fs
             /\ Append(PARENTF, k) # Append(sh.cwd, "build")
             /\ Append(PARENTF, k) \notin Installed(comp, l)
  BY <1>1, BuildDirNotStray, InstalledNotStray DEF NoStray
<1>5. Installed(comp, l) \subseteq Paths  BY InstalledFar
<1> QED BY <1>1, <1>2, <1>3, <1>4, <1>5

(* What the invariant says of the indices, for the steps that use them.    *)
LEMMA IndexFacts ==
  ASSUME TypeOK
  PROVE  /\ g \in {1, 2} /\ c \in {1, 2, 3}
         /\ Len(Groups) = 2 /\ Len(Group.components) = 3
         /\ Component \in Components
         /\ Group.dir \in {"etc_src", "lua_src"}
         /\ Home(Component) = Append(GroupDir(Group.dir), Component)
<1>1. g \in 1..Len(Groups) /\ c \in 1..Len(Group.components)  BY DEF TypeOK
<1> QED BY <1>1, GroupFacts DEF Home

LEMMA PushdGroupInv ==
  ASSUME InstallInv, PushdGroup
  PROVE  InstallInv'
<1> USE DEF InstallInv, PushdGroup
<1>1. g \in 1..Len(Groups) /\ c' \in 1..Len(Group.components)
      /\ Group' = Group
  BY IndexFacts DEF TypeOK, Group
<1>2. AtParent  BY DEF ShellPosition
<1>3. AtParent' \/ InGroup'
  <2>1. <<PARENTF>> \o <<>> = <<PARENTF>>  BY RootPaths, StackFacts, Zenon
  <2>2. sh' = sh \/ sh' = Shell(GroupDir(Group.dir), <<PARENTF>>)
    BY <1>2, <2>1 DEF AtParent, Pushd, Shell, GroupDir
  <2> QED BY <1>1, <1>2, <2>2 DEF AtParent, InGroup
<1>4. NoStray'  BY DEF NoStray
<1>5. ShellPosition'  BY <1>3 DEF ShellPosition
<1>6. TypeOK'
  <2>1. sh' \in ShellType  BY <1>1, <1>3, PositionTypes DEF TypeOK
  <2> QED BY <1>1, <2>1 DEF TypeOK, Control, Running, ShellType
<1> QED BY <1>4, <1>5, <1>6

LEMMA PushdComponentInv ==
  ASSUME InstallInv, PushdComponent
  PROVE  InstallInv'
<1> USE DEF InstallInv, PushdComponent
<1>1. Group' = Group /\ Component' = Component  BY DEF Group, Component
<1>2. AtParent \/ InGroup  BY DEF ShellPosition
<1>3. AtParent' \/ InGroup' \/ InComponent'
  <2>1. CASE AtParent
    <3>1. Append(sh.cwd, Component) \notin fs
      BY <2>1, IndexFacts DEF AtParent, Shell, NoStray
    <3> QED BY <2>1, <3>1 DEF Pushd, AtParent
  <2>2. CASE InGroup
    <3>1. <<GroupDir(Group.dir)>> \o <<PARENTF>> = <<GroupDir(Group.dir), PARENTF>>
      BY RootPaths, IndexFacts, PathsOfScript, StackFacts
    <3>2. sh' = sh \/ sh' = Shell(Home(Component), <<GroupDir(Group.dir), PARENTF>>)
      BY <2>2, <3>1, IndexFacts DEF InGroup, Pushd, Shell
    <3> QED BY <1>1, <2>2, <3>2 DEF InGroup, InComponent
  <2> QED BY <1>2, <2>1, <2>2
<1>4. NoStray'  BY DEF NoStray
<1>5. ShellPosition'  BY <1>3 DEF ShellPosition
<1>6. TypeOK'
  <2>1. sh' \in ShellType  BY <1>1, <1>3, PositionTypes DEF TypeOK
  <2> QED BY <1>1, <2>1 DEF TypeOK, Control, Running, ShellType
<1> QED BY <1>4, <1>5, <1>6

LEMMA BuildInv ==
  ASSUME InstallInv, BuildSucceeds \/ BuildFails
  PROVE  InstallInv'
<1> USE DEF InstallInv
<1>1. /\ pc = "build" /\ pc' = "popdComponent"
      /\ UNCHANGED <<g, c, sh, local, getOnly, luaPath, conf>>
      /\ fs' \subseteq Prepared(Component, sh.cwd) \cup Installed(Component, local)
      /\ fresh' \subseteq fresh \cup Installed(Component, local)
  BY DEF BuildSucceeds, BuildFails
<1>2. Group' = Group /\ Component' = Component  BY <1>1 DEF Group, Component
<1>3. local \in BOOLEAN /\ Component \in Components
  BY SettingAssumption, IndexFacts DEF TypeOK
<1>4. fs' \subseteq Paths /\ fresh' \subseteq Paths /\ NoStray'
  <2> DEFINE P == Prepared(Component, sh.cwd)
  <2> DEFINE Q == Installed(Component, local)
  <2>1. P \subseteq Paths /\ Q \subseteq Paths
        /\ \A k \in Components : Append(PARENTF, k) \notin P \cup Q
    BY <1>3, PreparedFacts
  <2>2. fs' \subseteq P \cup Q /\ fresh' \subseteq fresh \cup Q  BY <1>1
  <2> HIDE DEF P, Q
  <2> QED BY <2>1, <2>2 DEF NoStray, TypeOK
<1>5. (AtParent \/ InGroup \/ InComponent)'
  BY <1>1, <1>2 DEF ShellPosition, AtParent, InGroup, InComponent
<1>6. ShellPosition'  BY <1>1, <1>5 DEF ShellPosition
<1>7. TypeOK'  BY <1>1, <1>2, <1>4 DEF TypeOK, Control, Running
<1> QED BY <1>4, <1>6, <1>7

LEMMA PopdComponentInv ==
  ASSUME InstallInv, PopdComponent
  PROVE  InstallInv'
<1> USE DEF InstallInv, PopdComponent
<1>1. Group' = Group  BY DEF Group
<1>2. c' \in 1..Len(Group.components) /\ pc' \in {"pushdComponent", "popdGroup"}
  <2>1. c \in {1, 2, 3} /\ Len(Group.components) = 3  BY IndexFacts
  <2> QED BY <2>1
<1>3. AtParent \/ InGroup \/ InComponent  BY DEF ShellPosition
<1>4. AtParent' \/ InGroup'
  <2>1. GroupDir(Group.dir) \in Paths /\ PARENTF \in Paths
    BY IndexFacts, PathsOfScript, RootPaths
  <2>2. CASE AtParent  BY <2>2 DEF AtParent, Popd, Shell
  <2>3. CASE InGroup
    <3>1. <<PARENTF>> # <<>> /\ Head(<<PARENTF>>) = PARENTF /\ Tail(<<PARENTF>>) = <<>>
      BY <2>1, StackFacts
    <3> QED BY <2>3, <3>1 DEF AtParent, InGroup, Popd, Shell
  <2>4. CASE InComponent
    <3> DEFINE s == <<GroupDir(Group.dir), PARENTF>>
    <3>1. s # <<>> /\ Head(s) = GroupDir(Group.dir) /\ Tail(s) = <<PARENTF>>
      BY <2>1, StackFacts
    <3> HIDE DEF s
    <3>2. sh = Shell(Home(Component), s)  BY <2>4 DEF InComponent, s
    <3> QED BY <1>1, <3>1, <3>2 DEF InGroup, Popd, Shell
  <2> QED BY <1>3, <2>2, <2>3, <2>4
<1>5. NoStray'  BY DEF NoStray
<1>6. ShellPosition'  BY <1>2, <1>4 DEF ShellPosition
<1>7. TypeOK'
  <2>1. sh' \in ShellType  BY <1>1, <1>4, PositionTypes DEF TypeOK
  <2> QED BY <1>1, <1>2, <2>1 DEF TypeOK, Control, Running, ShellType
<1> QED BY <1>5, <1>6, <1>7

LEMMA PopdGroupInv ==
  ASSUME InstallInv, PopdGroup
  PROVE  InstallInv'
<1> USE DEF InstallInv, PopdGroup
<1>a. TypeOK  OBVIOUS
<1>b. g \in {1, 2} /\ Len(Groups) = 2  BY <1>a, IndexFacts, Zenon
<1>1. g' \in 1..Len(Groups) /\ pc' \in {"pushdGroup", "packagePath"}
  BY <1>b
<1>2. Group'.dir \in {"etc_src", "lua_src"} /\ Len(Group'.components) = 3
  BY <1>1 DEF Group, Groups
<1>3. AtParent'
  <2>1. CASE AtParent  BY <2>1 DEF AtParent, Popd, Shell
  <2>2. CASE InGroup
    <3>1. <<PARENTF>> # <<>> /\ Head(<<PARENTF>>) = PARENTF /\ Tail(<<PARENTF>>) = <<>>
      BY RootPaths, StackFacts
    <3> QED BY <2>2, <3>1 DEF AtParent, InGroup, Popd, Shell
  <2> QED BY <2>1, <2>2 DEF ShellPosition
<1>4. NoStray'  BY DEF NoStray
<1>5. ShellPosition'  BY <1>1, <1>3 DEF ShellPosition
<1>6. TypeOK'
  <2>1. sh' \in ShellType
    BY <1>3, PlaceTypes, IndexFacts DEF AtParent
  <2>2. c' \in 1..Len(Group'.components)  BY <1>2, IndexFacts
  <2> QED BY <1>1, <2>1, <2>2 DEF TypeOK, Control, Running, ShellType
<1> QED BY <1>4, <1>5, <1>6

LEMMA EnterNginxInv ==
  ASSUME InstallInv, EnterNginx
  PROVE  InstallInv'
<1> USE DEF InstallInv, EnterNginx
<1>1. Group' = Group  BY DEF Group
<1>2. Sub(sh.cwd, "ngx_src", NGINXV) \in Paths
  BY NamesOfScript, SubPath DEF TypeOK
<1>3. sh' \in ShellType  BY <1>2 DEF TypeOK, Shell, ShellType
<1>4. NoStray' /\ ShellPosition'  BY DEF NoStray, ShellPosition
<1> QED BY <1>1, <1>3, <1>4 DEF TypeOK, Control, ShellType

(* Steps that only add paths that are not stray, or remove some.           *)
LEMMA OtherInv ==
  ASSUME InstallInv,
         \/ Start \/ WritePackagePath \/ MakeConfigure \/ InstallNginx
         \/ Leave \/ Interrupt \/ Lose \/ Restore
  PROVE  InstallInv'
<1> USE DEF InstallInv
<1>1. \A l \in BOOLEAN :
         /\ NginxBinary(l) \in Paths
         /\ \A k \in Components : NginxBinary(l) # Append(PARENTF, k)
  <2> TAKE l \in BOOLEAN
  <2>1. Append(BUILDF, "sbin") \in Paths /\ Len(Append(BUILDF, "sbin")) = Len(BUILDF) + 1
    BY PathsOfScript, NamesOfScript, AppendPath, Zenon
  <2>2. Sub(USRLOCAL, NGINXV, "sbin") \in Paths
        /\ Len(Sub(USRLOCAL, NGINXV, "sbin")) = Len(USRLOCAL) + 2
    <3>1. NGINXV \in Names /\ "sbin" \in Names  BY NamesOfScript
    <3> QED BY <3>1, RootPaths, SubPath, Zenon
  <2>3. NginxBinary(l) \in Paths /\ Len(NginxBinary(l)) = 3
    BY <2>1, <2>2, RootPaths, PathsOfScript DEF NginxBinary
  <2>4. NginxBinary(l) \in Paths /\ (Len(NginxBinary(l)) # 2 \/ NginxBinary(l)[1] # "PARENTF")
    BY <2>3
  <2> QED BY <2>4, NotStray
<1>2. BUILDF \in Paths /\ \A k \in Components : BUILDF # Append(PARENTF, k)
  BY PathsOfScript, RootPaths, BuildDirNotStray DEF BUILDF
<1>3. CASE Start
  BY <1>3, SettingAssumption
     DEF Start, TypeOK, Control, Running, NoStray, ShellPosition, AtParent, Group
<1>4. CASE WritePackagePath
  BY <1>4, SettingAssumption
     DEF WritePackagePath, TypeOK, Control, Running, NoStray, ShellPosition,
         AtParent, Group
<1>5. CASE MakeConfigure
  <2>1. fs' \subseteq fs \cup {BUILDF}  BY <1>5 DEF MakeConfigure
  <2>2. fs' \subseteq Paths /\ NoStray'  BY <1>2, <2>1 DEF TypeOK, NoStray
  <2>3. fresh' \subseteq Paths  BY <1>5 DEF MakeConfigure, TypeOK
  <2>4. ShellPosition'  BY <1>5 DEF MakeConfigure, ShellPosition, AtParent
  <2>5. conf' \in [written : BOOLEAN, local : BOOLEAN, openssl : BOOLEAN]
    BY <1>5, SettingAssumption DEF MakeConfigure, TypeOK
  <2>6. TypeOK'
    BY <1>5, <2>2, <2>3, <2>5 DEF MakeConfigure, TypeOK, Control, Running, Group
  <2> QED BY <2>2, <2>4, <2>6
<1>6. CASE InstallNginx
  <2>1. conf.local \in BOOLEAN  BY DEF TypeOK
  <2>2. fs' = fs \cup {NginxBinary(conf.local)}  BY <1>6 DEF InstallNginx
  <2>3. fs' \subseteq Paths /\ fresh' \subseteq Paths /\ NoStray'
    BY <1>1, <1>6, <2>1, <2>2 DEF InstallNginx, TypeOK, NoStray
  <2>4. ShellPosition'  BY <1>6 DEF InstallNginx, ShellPosition
  <2>5. TypeOK'  BY <1>6, <2>3 DEF InstallNginx, TypeOK, Group
  <2> QED BY <2>3, <2>4, <2>5
<1>7. CASE Leave \/ Interrupt
  <2>1. Gone  BY <1>7 DEF Leave, Interrupt
  <2>2. 1 \in 1..Len(Groups) /\ 1 \in 1..Len(Groups[1].components)
    <3>1. Groups[1].components = <<Sregex, Drizzle, ModSec>> /\ Len(Groups) = 2
      BY DEF Groups
    <3> QED BY <3>1
  <2>3. sh' \in ShellType  BY <2>1, PlaceTypes, IndexFacts DEF Gone
  <2>4. NoStray' /\ ShellPosition'
    BY <2>1 DEF Gone, NoStray, ShellPosition, AtParent
  <2>5. TypeOK'  BY <2>1, <2>2, <2>3 DEF Gone, TypeOK, Control, Group, ShellType
  <2> QED BY <2>4, <2>5
<1>8. CASE Lose
  <2>1. fs' \subseteq fs /\ UNCHANGED <<pc, g, c, sh, fresh, local, getOnly, luaPath, conf>>
    BY <1>8 DEF Lose
  <2> QED BY <2>1 DEF TypeOK, NoStray, ShellPosition, AtParent, InGroup,
                      InComponent, Group, Component
<1>9. CASE Restore
  BY <1>9, TreeAssumption
     DEF Restore, TypeOK, NoStray, ShellPosition, AtParent, Group
<1> QED BY <1>3, <1>4, <1>5, <1>6, <1>7, <1>8, <1>9

LEMMA InstallNext == InstallInv /\ [Next]_vars => InstallInv'
<1> SUFFICES ASSUME InstallInv, [Next]_vars PROVE InstallInv'  OBVIOUS
<1>1. CASE UNCHANGED vars
  BY <1>1 DEF vars, InstallInv, TypeOK, NoStray, ShellPosition, AtParent,
              InGroup, InComponent, Group, Component
<1>2. CASE Next
  BY <1>2, PushdGroupInv, PushdComponentInv, BuildInv, PopdComponentInv,
     PopdGroupInv, EnterNginxInv, OtherInv DEF Next, Script
<1> QED BY <1>1, <1>2

(* The script never leaves the three positions that its pushd and popd     *)
(* allow, in whatever release it is unpacked, whichever directories of it  *)
(* are missing and whichever builds fail (install:20-120).                 *)
THEOREM ShellNeverStrays == Spec => []ShellPosition
<1>1. InstallInv => ShellPosition  BY DEF InstallInv
<1> QED BY InstallInit, InstallNext, <1>1, PTL DEF Spec

(* The state stays well typed.                                             *)
THEOREM InstallTypes == Spec => []TypeOK
<1>1. InstallInv => TypeOK  BY DEF InstallInv
<1> QED BY InstallInit, InstallNext, <1>1, PTL DEF Spec
-----------------------------------------------------------------------------
(* A path below $d/w has the name w after those of d.                      *)
LEMMA BelowNames ==
  ASSUME NEW d \in Paths, NEW w \in Names, NEW p \in Paths,
         IsPrefix(Append(d, w), p)
  PROVE  /\ Len(d) + 1 \in 1..Len(p) /\ p[Len(d) + 1] = w
         /\ \A i \in 1..Len(d) : p[i] = d[i]
<1> DEFINE s == Append(d, w)
<1>1. /\ s \in Paths /\ Len(s) = Len(d) + 1 /\ s[Len(d) + 1] = w
      /\ \A i \in 1..Len(d) : s[i] = d[i]
  BY AppendPath
<1>2. IsPrefix(s, p)  OBVIOUS
<1> HIDE DEF s
<1>3. Len(d) \in Nat /\ Len(p) \in Nat  BY DEF Paths
<1>4. Len(s) <= Len(p) /\ SubSeq(s, 1, Len(s)) = SubSeq(p, 1, Len(s))
  BY <1>2 DEF IsPrefix
<1>5. s \in Seq(Names) /\ p \in Seq(Names)  BY <1>1 DEF Paths
<1>6. \A i \in 1..Len(s) : SubSeq(s, 1, Len(s))[i] = s[i]  BY <1>5
<1>7. \A i \in 1..Len(s) : SubSeq(p, 1, Len(s))[i] = p[i]  BY <1>4, <1>5
<1>8. \A i \in 1..Len(s) : p[i] = s[i]  BY <1>4, <1>6, <1>7
<1> QED BY <1>1, <1>3, <1>4, <1>8

LEMMA NamesBelow ==
  \A d \in Paths : \A w \in Names : \A p \in Paths :
    IsPrefix(Append(d, w), p) =>
      p[Len(d) + 1] = w /\ \A i \in 1..Len(d) : p[i] = d[i]
<1> SUFFICES ASSUME NEW d \in Paths, NEW w \in Names, NEW p \in Paths,
                    IsPrefix(Append(d, w), p)
             PROVE  p[Len(d) + 1] = w /\ \A i \in 1..Len(d) : p[i] = d[i]
  OBVIOUS
<1>1. /\ Len(d) + 1 \in 1..Len(p) /\ p[Len(d) + 1] = w
      /\ \A i \in 1..Len(d) : p[i] = d[i]
  BY BelowNames
<1> QED BY <1>1

(* $PARENTF/build/sbin is not below a path that a build deletes: such a    *)
(* path ends in a name that is not one of its three, or goes through       *)
(* etc_src.                                                                *)
LEMMA WipeSpares ==
  ASSUME NEW d \in Paths, NEW w \in Names,
         \/ w = "librestysignal.so"
         \/ w = "build" /\ Len(d) >= 2 /\ d[2] = "etc_src"
  PROVE  ~IsPrefix(Append(d, w), NginxBinary(TRUE))
<1> DEFINE p == NginxBinary(TRUE)
<1> SUFFICES ASSUME IsPrefix(Append(d, w), p) PROVE FALSE  OBVIOUS
<1>1. BUILDF \in Paths /\ Len(BUILDF) = 2
      /\ BUILDF[1] = "PARENTF" /\ BUILDF[2] = "build"
  <2>1. /\ \A i \in 1..Len(PARENTF) : BUILDF[i] = PARENTF[i]
        /\ BUILDF[Len(PARENTF) + 1] = "build"
    BY RootPaths, NamesOfScript, AppendPath, Zenon DEF BUILDF
  <2> QED BY <2>1, PathsOfScript, RootPaths
<1>2. p \in Paths /\ Len(p) = 3 /\ p[1] = "PARENTF" /\ p[2] = "build" /\ p[3] = "sbin"
  <2>1. p = Append(BUILDF, "sbin")  BY DEF NginxBinary
  <2>2. /\ p \in Paths /\ Len(p) = Len(BUILDF) + 1 /\ p[Len(BUILDF) + 1] = "sbin"
        /\ \A i \in 1..Len(BUILDF) : p[i] = BUILDF[i]
    <3>1. BUILDF \in Paths /\ "sbin" \in Names  BY <1>1, NamesOfScript
    <3> DEFINE q == Append(BUILDF, "sbin")
    <3>2. /\ q \in Paths /\ Len(q) = Len(BUILDF) + 1 /\ q[Len(BUILDF) + 1] = "sbin"
          /\ \A i \in 1..Len(BUILDF) : q[i] = BUILDF[i]
      BY <3>1, AppendPath, Zenon
    <3>3. p = q  BY <2>1
    <3> HIDE DEF p, q
    <3> QED BY <3>2, <3>3
  <2> HIDE DEF p
  <2> QED BY <1>1, <2>2
<1> HIDE DEF p
<1>3. /\ Len(d) + 1 \in 1..Len(p) /\ p[Len(d) + 1] = w
      /\ \A i \in 1..Len(d) : p[i] = d[i]
  BY <1>2, BelowNames, Zenon
<1>4. Len(d) \in Nat  BY DEF Paths
<1>5. CASE w = "librestysignal.so"
  <2>1. Len(d) + 1 = 1 \/ Len(d) + 1 = 2 \/ Len(d) + 1 = 3  BY <1>2, <1>3, <1>4
  <2> QED BY <1>2, <1>3, <1>5, <2>1
<1>6. CASE w = "build" /\ Len(d) >= 2 /\ d[2] = "etc_src"
  <2>1. 2 \in 1..Len(d)  BY <1>4, <1>6
  <2> QED BY <1>2, <1>3, <1>6, <2>1
<1> QED BY <1>5, <1>6

(* While etc_src and sregex.git are there, the shell is below etc_src      *)
(* whenever a build that runs rm -rf build is next.                        *)
WayInv ==
  KeepsTheWay \subseteq fs =>
    /\ pc = "pushdComponent" /\ g = 1 /\ c \in {1, 2} => InGroup
    /\ pc \in {"build", "popdComponent"} /\ g = 1 /\ c = 1 => InComponent
    /\ pc = "build" /\ g = 1 /\ c = 2 => InGroup \/ InComponent

LEMMA WayPaths ==
  /\ GroupDir("etc_src") \in Paths /\ Len(GroupDir("etc_src")) = 2
  /\ GroupDir("etc_src")[1] = "PARENTF" /\ GroupDir("etc_src")[2] = "etc_src"
  /\ Len(Home(Sregex)) = 3
  /\ Home(Sregex)[1] = "PARENTF" /\ Home(Sregex)[2] = "etc_src"
  /\ Len(Home(Drizzle)) = 3 /\ Home(Drizzle)[2] = "etc_src"
<1> DEFINE d == GroupDir("etc_src")
<1>1. d \in Paths /\ Len(d) = 2 /\ d[1] = "PARENTF" /\ d[2] = "etc_src"
  <2>1. /\ d \in Paths /\ d[Len(PARENTF) + 1] = "etc_src"
        /\ \A i \in 1..Len(PARENTF) : d[i] = PARENTF[i]
    <3>1. "etc_src" \in Names /\ PARENTF \in Paths  BY NamesOfScript, RootPaths
    <3> DEFINE q == Append(PARENTF, "etc_src")
    <3>2. /\ q \in Paths /\ q[Len(PARENTF) + 1] = "etc_src"
          /\ \A i \in 1..Len(PARENTF) : q[i] = PARENTF[i]
      BY <3>1, AppendPath, Zenon
    <3>3. d = q  BY DEF GroupDir
    <3> HIDE DEF d, q
    <3> QED BY <3>2, <3>3
  <2>2. Len(d) = 2  BY PathsOfScript
  <2> HIDE DEF d
  <2> QED BY <2>1, <2>2, RootPaths
<1>2. ASSUME NEW comp \in {Sregex, Drizzle}
      PROVE  Len(Home(comp)) = 3 /\ Home(comp)[1] = d[1] /\ Home(comp)[2] = d[2]
  <2>1. Home(comp) = Append(d, comp)  BY DEF Home, GroupOf
  <2>2. comp \in Components  BY DEF Components
  <2>3. comp \in Names  BY <2>2, NamesOfScript
  <2> DEFINE h == Append(d, comp)
  <2>4. \A i \in 1..Len(d) : h[i] = d[i]
    BY <1>1, <2>3, AppendPath, Zenon
  <2>5. Len(Home(comp)) = 3  BY <2>2, PathsOfScript
  <2> HIDE DEF d, h
  <2>6. h[1] = d[1] /\ h[2] = d[2]  BY <1>1, <2>4
  <2> QED BY <2>1, <2>5, <2>6 DEF h
<1> QED BY <1>1, <1>2

LEMMA FirstGroup ==
  ASSUME TypeOK, g = 1
  PROVE  Group.dir = "etc_src" /\ (c = 1 => Component = Sregex)
<1>1. Group = [dir |-> "etc_src", components |-> <<Sregex, Drizzle, ModSec>>]
  BY DEF Group, Groups
<1>2. c = 1 => Component = Sregex  BY <1>1 DEF Component
<1> QED BY <1>1, <1>2

(* A build neither creates the two directories ...                         *)
LEMMA WayNotBuilt ==
  ASSUME TypeOK, NEW comp \in Components, NEW l \in BOOLEAN,
         KeepsTheWay \subseteq Prepared(comp, sh.cwd) \cup Installed(comp, l)
  PROVE  KeepsTheWay \subseteq fs
<1>1. ASSUME NEW q \in Paths, NEW n \in Names, n # "build",
             NEW d \in Paths, q = Append(d, n)
      PROVE  q # Append(sh.cwd, "build")
  <2>1. sh.cwd \in Paths /\ "build" \in Names  BY NamesOfScript DEF TypeOK
  <2>2. Append(d, n) = Append(sh.cwd, "build") => n = "build"
    BY <1>1, <2>1, AppendSame, Zenon
  <2> QED BY <1>1, <2>2
<1>2. GroupDir("etc_src") # Append(sh.cwd, "build")
  <2>1. "etc_src" \in Names /\ PARENTF \in Paths /\ GroupDir("etc_src") \in Paths
    BY NamesOfScript, RootPaths, PathsOfScript
  <2> QED BY <1>1, <2>1 DEF GroupDir
<1>3. Home(Sregex) # Append(sh.cwd, "build")
  <2>1. Sregex \in Components /\ GroupOf(Sregex) = "etc_src" /\ Sregex # "build"
    BY DEF Components, GroupOf, Sregex
  <2>2. Sregex \in Names /\ Home(Sregex) \in Paths /\ GroupDir("etc_src") \in Paths
    BY <2>1, NamesOfScript, PathsOfScript
  <2>3. Home(Sregex) = Append(GroupDir("etc_src"), Sregex)  BY <2>1 DEF Home
  <2> QED BY <1>1, <2>1, <2>2, <2>3
<1>4. GroupDir("etc_src") \notin Installed(comp, l) /\ Home(Sregex) \notin Installed(comp, l)
  <2>1. /\ Len(GroupDir("etc_src")) = 2 /\ GroupDir("etc_src")[1] = "PARENTF"
        /\ Len(Home(Sregex)) = 3 /\ Home(Sregex)[1] = "PARENTF"
    BY WayPaths
  <2>2. \A q \in Installed(comp, l) : Far(q)  BY InstalledFar
  <2> QED BY <2>1, <2>2 DEF Far
<1>5. Prepared(comp, sh.cwd) \subseteq fs \cup {Append(sh.cwd, "build")}
  BY DEF Prepared
<1> QED BY <1>2, <1>3, <1>4, <1>5 DEF KeepsTheWay

LEMMA WayStep ==
  ASSUME InstallInv, WayInv, [Next]_vars
  PROVE  WayInv'
<1> USE DEF InstallInv
<1> SUFFICES ASSUME (KeepsTheWay \subseteq fs)'
             PROVE  /\ (pc = "pushdComponent" /\ g = 1 /\ c \in {1, 2} => InGroup)'
                    /\ (pc \in {"build", "popdComponent"} /\ g = 1 /\ c = 1
                         => InComponent)'
                    /\ (pc = "build" /\ g = 1 /\ c = 2 => InGroup \/ InComponent)'
  BY DEF WayInv
<1>1. CASE PushdGroup
  <2> USE DEF PushdGroup
  <2>1. AtParent /\ KeepsTheWay \subseteq fs  BY <1>1 DEF ShellPosition, KeepsTheWay
  <2>2. ASSUME g = 1 PROVE InGroup'
    <3>1. Group.dir = "etc_src" /\ Group' = Group
      BY <1>1, <2>2, FirstGroup DEF Group
    <3>2. <<PARENTF>> \o <<>> = <<PARENTF>>  BY RootPaths, StackFacts, Zenon
    <3>3. Append(PARENTF, Group.dir) \in fs
      BY <2>1, <3>1 DEF KeepsTheWay, GroupDir
    <3>4. sh' = Shell(GroupDir(Group.dir), <<PARENTF>>)
      BY <1>1, <2>1, <3>2, <3>3 DEF AtParent, Pushd, Shell, GroupDir
    <3> QED BY <3>1, <3>4 DEF InGroup
  <2> QED BY <1>1, <2>2
<1>2. CASE PushdComponent
  <2> USE DEF PushdComponent
  <2>1. Group' = Group /\ Component' = Component /\ KeepsTheWay \subseteq fs
    BY <1>2 DEF Group, Component, KeepsTheWay
  <2>2. ASSUME g = 1, c \in {1, 2}
        PROVE  (InGroup' \/ InComponent') /\ (c = 1 => InComponent')
    <3>1. InGroup  BY <1>2, <2>1, <2>2 DEF WayInv
    <3>2. <<GroupDir(Group.dir)>> \o <<PARENTF>> = <<GroupDir(Group.dir), PARENTF>>
      BY RootPaths, IndexFacts, PathsOfScript, StackFacts
    <3>3. sh' = IF Home(Component) \in fs
                THEN Shell(Home(Component), <<GroupDir(Group.dir), PARENTF>>)
                ELSE sh
      BY <1>2, <3>1, <3>2, IndexFacts DEF InGroup, Pushd, Shell
    <3>4. c = 1 => Home(Component) \in fs
      BY <2>1, <2>2, FirstGroup DEF KeepsTheWay
    <3>5. CASE Home(Component) \in fs
      BY <2>1, <3>3, <3>5 DEF InComponent
    <3>6. CASE Home(Component) \notin fs
      BY <2>1, <3>1, <3>3, <3>4, <3>6 DEF InGroup
    <3> QED BY <3>5, <3>6
  <2> QED BY <1>2, <2>2
<1>3. CASE BuildSucceeds \/ BuildFails
  <2>1. /\ pc = "build" /\ pc' = "popdComponent"
        /\ UNCHANGED <<g, c, sh>>
        /\ fs' \subseteq Prepared(Component, sh.cwd) \cup Installed(Component, local)
    BY <1>3 DEF BuildSucceeds, BuildFails
  <2>2. KeepsTheWay \subseteq fs
    <3>1. local \in BOOLEAN /\ Component \in Components
      BY SettingAssumption, IndexFacts DEF TypeOK
    <3>2. KeepsTheWay' = KeepsTheWay  BY DEF KeepsTheWay
    <3>3. KeepsTheWay \subseteq Prepared(Component, sh.cwd) \cup Installed(Component, local)
      BY <2>1, <3>2
    <3> QED BY <3>1, <3>3, WayNotBuilt
  <2>3. Group' = Group /\ Component' = Component  BY <2>1 DEF Group, Component
  <2> QED BY <2>1, <2>2, <2>3 DEF WayInv, InComponent
<1>4. CASE PopdComponent
  <2> USE DEF PopdComponent
  <2>1. Group' = Group /\ KeepsTheWay \subseteq fs
        /\ pc' \in {"pushdComponent", "popdGroup"}
    BY <1>4 DEF Group, KeepsTheWay
  <2>2. ASSUME g' = 1, c' \in {1, 2}, pc' = "pushdComponent"
        PROVE  c = 1
    BY <1>4, <2>2, IndexFacts
  <2>3. ASSUME g = 1, c = 1
        PROVE  InGroup'
    <3> DEFINE s == <<GroupDir(Group.dir), PARENTF>>
    <3>1. InComponent  BY <1>4, <2>1, <2>3 DEF WayInv
    <3>2. s # <<>> /\ Head(s) = GroupDir(Group.dir) /\ Tail(s) = <<PARENTF>>
      BY IndexFacts, PathsOfScript, RootPaths, StackFacts
    <3> HIDE DEF s
    <3>3. sh = Shell(Home(Component), s)  BY <3>1 DEF InComponent, s
    <3> QED BY <1>4, <2>1, <3>2, <3>3 DEF InGroup, Popd, Shell
  <2> QED BY <1>4, <2>1, <2>2, <2>3
<1>5. CASE PopdGroup
  BY <1>5, IndexFacts DEF PopdGroup
<1>6. CASE UNCHANGED vars
  BY <1>6 DEF vars, WayInv, InGroup, InComponent, Group, Component, KeepsTheWay
<1>7. CASE \/ Start \/ WritePackagePath \/ MakeConfigure \/ EnterNginx
           \/ InstallNginx \/ Leave \/ Interrupt \/ Lose \/ Restore
  <2>1. pc' \notin {"pushdComponent", "build", "popdComponent"}
    BY <1>7 DEF Start, WritePackagePath, MakeConfigure, EnterNginx,
                InstallNginx, Leave, Interrupt, Gone, Lose, Restore
  <2> QED BY <2>1
<1> QED BY <1>1, <1>2, <1>3, <1>4, <1>5, <1>6, <1>7 DEF Next, Script

LEMMA Wipers ==
  ASSUME TypeOK, Component \in {Sregex, Drizzle}
  PROVE  g = 1 /\ c \in {1, 2}
<1>1. g \in {1, 2} /\ c \in {1, 2, 3}  BY IndexFacts
<1>2. ASSUME g = 2 PROVE FALSE
  <2>1. Group.components = <<LuaJIT, CJson, Signal>>  BY <1>2 DEF Group, Groups
  <2>2. Component \in {LuaJIT, CJson, Signal}  BY <1>1, <2>1 DEF Component
  <2> QED BY <2>2 DEF Sregex, Drizzle, LuaJIT, CJson, Signal
<1>3. ASSUME g = 1, c = 3 PROVE FALSE
  <2>1. Group.components = <<Sregex, Drizzle, ModSec>>  BY <1>3 DEF Group, Groups
  <2>2. Component = ModSec  BY <1>3, <2>1 DEF Component
  <2> QED BY <2>2 DEF Sregex, Drizzle, ModSec
<1> QED BY <1>1, <1>2, <1>3

(* No build deletes the installed nginx: rm -rf build runs below etc_src.  *)
LEMMA BuildSpares ==
  ASSUME InstallInv, WayInv, BuildSucceeds \/ BuildFails,
         NginxBinary(TRUE) \in fs, KeepsTheWay \subseteq fs
  PROVE  NginxBinary(TRUE) \in fs'
<1> USE DEF InstallInv
<1> DEFINE p == NginxBinary(TRUE)
<1>1. pc = "build" /\ Prepared(Component, sh.cwd) \subseteq fs'
  BY DEF BuildSucceeds, BuildFails
<1>2. ASSUME NEW w \in Wipes(Component)
      PROVE  ~IsPrefix(Append(sh.cwd, w), p)
  <2>1. sh.cwd \in Paths  BY DEF TypeOK
  <2>2. /\ w \in Names
        /\ \/ w = "librestysignal.so"
           \/ w = "build" /\ Component \in {Sregex, Drizzle}
    BY NamesOfScript DEF Wipes
  <2>3. ASSUME w = "build", Component \in {Sregex, Drizzle}
        PROVE  Len(sh.cwd) >= 2 /\ sh.cwd[2] = "etc_src"
    <3>1. g = 1 /\ c \in {1, 2} /\ Group.dir = "etc_src"
      BY <2>3, Wipers, FirstGroup
    <3>2. InGroup \/ InComponent  BY <1>1, <3>1 DEF WayInv
    <3>3. sh.cwd \in {GroupDir("etc_src"), Home(Sregex), Home(Drizzle)}
      BY <2>3, <3>1, <3>2 DEF InGroup, InComponent, Shell
    <3> QED BY <3>3, WayPaths
  <2>4. CASE w = "librestysignal.so"
    BY <2>1, <2>2, <2>4, WipeSpares, Zenon
  <2>5. CASE w = "build" /\ Component \in {Sregex, Drizzle}
    <3>1. Len(sh.cwd) >= 2 /\ sh.cwd[2] = "etc_src"  BY <2>3, <2>5
    <3> QED BY <2>1, <2>2, <2>5, <3>1, WipeSpares, Zenon
  <2> QED BY <2>2, <2>4, <2>5
<1>3. \A w \in Wipes(Component) : p \notin Under(Append(sh.cwd, w), fs)
  BY <1>2 DEF Under
<1> QED BY <1>1, <1>3 DEF Prepared

(* The script deletes the nginx of an earlier installation only when       *)
(* etc_src or sregex.git is missing (install:20-36): for every release     *)
(* tree, every choice of directories that may go missing, and every        *)
(* outcome of the builds.                                                  *)
THEOREM InstalledNginxSurvives == Spec => NginxSurvives
<1>1. Init => WayInv  BY DEF Init, WayInv
<1>2. InstallInv /\ WayInv /\ [Next]_vars => WayInv'  BY WayStep
<1>3. InstallInv /\ WayInv /\ [Next]_vars
      => [(/\ pc \in Running
           /\ NginxBinary(TRUE) \in fs /\ KeepsTheWay \subseteq fs)
          => NginxBinary(TRUE) \in fs']_vars
  <2> SUFFICES ASSUME InstallInv, [Next]_vars, WayInv,
                      pc \in Running, NginxBinary(TRUE) \in fs,
                      KeepsTheWay \subseteq fs, fs' # fs
               PROVE  NginxBinary(TRUE) \in fs'
    BY DEF vars
  <2>1. CASE BuildSucceeds \/ BuildFails  BY <2>1, BuildSpares
  <2>2. CASE MakeConfigure  BY <2>2 DEF MakeConfigure
  <2>3. CASE Lose \/ Restore \/ InstallNginx
    BY <2>3 DEF Lose, Restore, InstallNginx, Running
  <2> QED
    BY <2>1, <2>2, <2>3
       DEF Next, Script, vars, Start, PushdGroup, PushdComponent, PopdComponent,
           PopdGroup, WritePackagePath, EnterNginx, Leave, Interrupt, Gone
<1> QED BY InstallInit, InstallNext, <1>1, <1>2, <1>3, PTL DEF Spec, NginxSurvives
-----------------------------------------------------------------------------
(* What install hands over, for every release tree, every set of           *)
(* directories that may go missing, and every outcome of the builds.       *)

(* The two files as far as the script has come.                            *)
HandInv ==
  /\ pc \in {"makeConfigure", "enterNginx", "shell"}
       => luaPath = [written |-> TRUE, local |-> local]
  /\ pc = "enterNginx" /\ Sub(sh.cwd, "ngx_src", NGINXV) \in fs
       => conf.written /\ conf.local = local
  /\ pc = "shell" => conf.written /\ conf.local = local

LEMMA HandStep == InstallInv /\ HandInv /\ [Next]_vars => HandInv'
<1> SUFFICES ASSUME InstallInv, HandInv, [Next]_vars PROVE HandInv'  OBVIOUS
<1> USE DEF HandInv
<1>1. CASE MakeConfigure
  <2>1. Sub(sh.cwd, "ngx_src", NGINXV) # BUILDF
    <3>1. sh.cwd = PARENTF
      BY <1>1 DEF MakeConfigure, InstallInv, ShellPosition, AtParent, Shell
    <3>2. "ngx_src" \in Names /\ NGINXV \in Names  BY NamesOfScript
    <3>3. Len(Sub(PARENTF, "ngx_src", NGINXV)) = Len(PARENTF) + 2
      BY <3>2, RootPaths, SubPath, Zenon
    <3> QED BY <3>1, <3>3, RootPaths, PathsOfScript
  <2> QED BY <1>1, <2>1 DEF MakeConfigure
<1>2. CASE EnterNginx  BY <1>2 DEF EnterNginx
<1>3. CASE WritePackagePath  BY <1>3 DEF WritePackagePath
<1>4. CASE InstallNginx  BY <1>4 DEF InstallNginx
<1>5. CASE UNCHANGED vars  BY <1>5 DEF vars
<1>6. CASE \/ Start \/ PushdGroup \/ PushdComponent \/ BuildSucceeds
           \/ BuildFails \/ PopdComponent \/ PopdGroup \/ Leave \/ Interrupt
           \/ Lose \/ Restore
  <2>1. pc' \notin {"makeConfigure", "enterNginx", "shell"}
    BY <1>6
    DEF Start, PushdGroup, PushdComponent, BuildSucceeds, BuildFails,
        PopdComponent, PopdGroup, Leave, Interrupt, Gone, Lose, Restore
  <2> QED BY <2>1
<1> QED BY <1>1, <1>2, <1>3, <1>4, <1>5, <1>6 DEF Next, Script

(* lua_package_path and nginx_configuration belong to the same run.        *)
THEOREM FilesAgree == Spec => []HandoverConsistent
<1>1. Init => HandInv  BY DEF Init, HandInv
<1>2. HandInv => HandoverConsistent  BY DEF HandInv, HandoverConsistent
<1> QED BY <1>1, <1>2, HandStep, InstallInit, InstallNext, PTL DEF Spec
-----------------------------------------------------------------------------
(* The two components whose build begins with rm -rf build, and what they  *)
(* leave below it.                                                         *)
Wiper(k) == IF k = 1 THEN Sregex ELSE Drizzle
Lib(k)   == Product(Wiper(k), TRUE)
Way      == KeepsTheWay \cup {Home(Drizzle)}

(* The script is past the build of the k-th of them.                       *)
Passed(k) ==
  \/ pc \in {"popdGroup", "packagePath", "makeConfigure", "enterNginx", "shell"}
  \/ pc = "pushdGroup" /\ g = 2
  \/ pc \in {"pushdComponent", "build"} /\ (g = 2 \/ c > k)
  \/ pc = "popdComponent" /\ (g = 2 \/ c >= k)

OnWay == Way \subseteq fs /\ pc = "build" /\ g = 1 /\ c = 2 => InComponent

StaleInv ==
  /\ pc = "idle" => g = 1
  /\ ~getOnly /\ Way \subseteq fs =>
       \A k \in {1, 2} : Passed(k) /\ Lib(k) \in fs => Lib(k) \in fresh

LEMMA LibFacts ==
  ASSUME NEW k \in {1, 2}
  PROVE  /\ Wiper(k) \in Components
         /\ Lib(k) \in Paths /\ Len(Lib(k)) = 5
         /\ IsPrefix(Append(Home(Wiper(k)), "build"), Lib(k))
<1> DEFINE h == Home(Wiper(k))
<1> DEFINE b == Append(h, "build")
<1>1. Wiper(k) \in Components  BY DEF Wiper, Components
<1>2. h \in Paths /\ Len(h) = 3  BY <1>1, PathsOfScript
<1>3. PICK x \in Names : Lib(k) = Append(b, x)
  <2>1. Lib(k) = Sub(h, "build", IF k = 1 THEN "lib" ELSE LibDir)
    BY DEF Lib, Wiper, Product, Sregex, Drizzle, ModSec, LuaJIT, CJson, Signal
  <2> QED BY <2>1, NamesOfScript DEF Sub
<1>4. b \in Paths /\ Len(b) = 4
  <2>1. b \in Paths /\ Len(b) = Len(h) + 1
    BY <1>2, NamesOfScript, AppendPath, Zenon
  <2> HIDE DEF h, b
  <2> QED BY <1>2, <2>1
<1> HIDE DEF b
<1>5. /\ Append(b, x) \in Paths /\ Len(Append(b, x)) = 5
      /\ \A i \in 1..4 : Append(b, x)[i] = b[i]
  <2> DEFINE p == Append(b, x)
  <2>1. /\ p \in Paths /\ Len(p) = Len(b) + 1
        /\ \A i \in 1..Len(b) : p[i] = b[i]
    BY <1>4, AppendPath, Zenon
  <2> HIDE DEF p
  <2>2. p \in Paths /\ Len(p) = 5 /\ \A i \in 1..4 : p[i] = b[i]
    BY <1>4, <2>1
  <2> QED BY <2>2 DEF p
<1>6. IsPrefix(b, Append(b, x))
  <2> DEFINE p == Append(b, x)
  <2>1. b \in Seq(Names) /\ p \in Seq(Names) /\ Len(p) = 5
        /\ \A i \in 1..4 : p[i] = b[i]
    BY <1>4, <1>5 DEF Paths
  <2> HIDE DEF p
  <2> DEFINE t == SubSeq(b, 1, 4)
  <2> DEFINE u == SubSeq(p, 1, 4)
  <2>2. t \in Seq(Names) /\ Len(t) = 4 /\ \A i \in 1..4 : t[i] = b[i]
    <3>1. \A i \in 1..4 : b[i] \in Names
      BY <1>4, <2>1, ElementOfSeq
    <3> QED BY <3>1, SubSeqProperties
  <2>3. u \in Seq(Names) /\ Len(u) = 4 /\ \A i \in 1..4 : u[i] = p[i]
    <3>1. \A i \in 1..4 : p[i] \in Names
      BY <1>4, <2>1, ElementOfSeq
    <3> QED BY <3>1, SubSeqProperties
  <2> HIDE DEF t, u
  <2>4. t = u
    <3>1. Len(t) = Len(u) /\ \A i \in 1..Len(t) : t[i] = u[i]
      BY <2>1, <2>2, <2>3
    <3> QED BY <2>2, <2>3, <3>1, SeqEqual, Zenon
  <2> QED BY <1>4, <2>1, <2>4 DEF IsPrefix, p, t, u
<1> QED BY <1>1, <1>3, <1>5, <1>6 DEF b

LEMMA WiperFacts ==
  ASSUME TypeOK, g = 1, c \in {1, 2}
  PROVE  Component = Wiper(c) /\ Group.dir = "etc_src"
<1>1. Group = [dir |-> "etc_src", components |-> <<Sregex, Drizzle, ModSec>>]
  BY DEF Group, Groups
<1>2. Component = Wiper(c)  BY <1>1 DEF Component, Wiper
<1> QED BY <1>1, <1>2

(* The paths of the way are not made by a build, nor by what follows.      *)
LEMMA NotOnWay ==
  ASSUME NEW d \in Paths, NEW l \in BOOLEAN, NEW comp \in Components
  PROVE  Way \cap ({Append(d, "build"), BUILDF, NginxBinary(l)} \cup Installed(comp, l)) = {}
<1>1. ASSUME NEW q \in Way
      PROVE  /\ q \in Paths /\ Len(q) \in {2, 3} /\ q[1] = "PARENTF" /\ q[2] = "etc_src"
             /\ \E e \in Paths, n \in Names : n # "build" /\ q = Append(e, n)
  <2>1. CASE q = GroupDir("etc_src")
    <3>1. q = Append(PARENTF, "etc_src")  BY <2>1 DEF GroupDir
    <3>2. PARENTF \in Paths /\ "etc_src" \in Names  BY RootPaths, NamesOfScript
    <3> QED BY <2>1, <3>1, <3>2, WayPaths
  <2>2. ASSUME NEW s \in {Sregex, Drizzle}, q = Home(s)
        PROVE  /\ q \in Paths /\ Len(q) \in {2, 3} /\ q[1] = "PARENTF" /\ q[2] = "etc_src"
               /\ \E e \in Paths, n \in Names : n # "build" /\ q = Append(e, n)
    <3>1. s \in Components /\ s # "build"  BY DEF Components, Sregex, Drizzle
    <3>2. q = Append(GroupDir("etc_src"), s)  BY <2>2 DEF Home, GroupOf
    <3>3. s \in Names /\ GroupDir("etc_src") \in Paths /\ q \in Paths /\ Len(q) = 3
      BY <2>2, <3>1, NamesOfScript, PathsOfScript
    <3> DEFINE e == GroupDir("etc_src")
    <3>4. e \in Paths /\ Len(e) = 2 /\ e[1] = "PARENTF" /\ e[2] = "etc_src"
      BY WayPaths
    <3> DEFINE a == Append(e, s)
    <3>5. \A i \in 1..Len(e) : a[i] = e[i]  BY <3>3, <3>4, AppendPath, Zenon
    <3>6. q = a  BY <3>2
    <3> HIDE DEF e, a
    <3>7. q[1] = "PARENTF" /\ q[2] = "etc_src"  BY <3>4, <3>5, <3>6
    <3> QED BY <3>1, <3>3, <3>4, <3>6, <3>7 DEF a
  <2> QED BY <2>1, <2>2 DEF Way, KeepsTheWay
<1>2. ASSUME NEW q \in Way, NEW e \in Paths PROVE q # Append(e, "build")
  <2>1. PICK f \in Paths, n \in Names : n # "build" /\ q = Append(f, n)
    BY <1>1
  <2>2. "build" \in Names  BY NamesOfScript
  <2>3. Append(f, n) = Append(e, "build") => n = "build"
    BY <2>1, <2>2, AppendSame, Zenon
  <2> QED BY <2>1, <2>3
<1>3. ASSUME NEW q \in Way PROVE q \notin Installed(comp, l)
  <2>1. \A p \in Installed(comp, l) : Far(p)  BY InstalledFar
  <2>2. Len(q) \in {2, 3} /\ q[1] = "PARENTF"  BY <1>1
  <2> QED BY <2>1, <2>2 DEF Far
<1>4. ASSUME NEW q \in Way PROVE q # BUILDF
  BY <1>2, RootPaths DEF BUILDF
<1>5. ASSUME NEW q \in Way PROVE q # NginxBinary(l)
  <2>0. q \in Paths /\ q[1] = "PARENTF" /\ q[2] = "etc_src"  BY <1>1
  <2>1. CASE l
    <3> DEFINE a == Append(BUILDF, "sbin")
    <3>1. BUILDF \in Paths /\ Len(BUILDF) = 2 /\ "sbin" \in Names
      BY PathsOfScript, NamesOfScript
    <3>2. \A i \in 1..Len(BUILDF) : a[i] = BUILDF[i]
      BY <3>1, AppendPath, Zenon
    <3> DEFINE b == Append(PARENTF, "build")
    <3>3. b[Len(PARENTF) + 1] = "build"
      BY RootPaths, NamesOfScript, AppendPath, Zenon
    <3>4. BUILDF = b /\ NginxBinary(l) = a  BY <2>1 DEF BUILDF, NginxBinary
    <3> HIDE DEF a, b
    <3>5. BUILDF[2] = "build"  BY <3>3, <3>4, RootPaths
    <3>6. NginxBinary(l)[2] = "build"  BY <3>1, <3>2, <3>4, <3>5
    <3> QED BY <2>0, <3>6
  <2>2. CASE ~l
    <3>1. NGINXV \in Names /\ "sbin" \in Names  BY NamesOfScript
    <3>2. Sub(USRLOCAL, NGINXV, "sbin")[1] = "/usr/local"
      BY <3>1, SubRoot, Zenon
    <3> QED BY <2>0, <2>2, <3>2 DEF NginxBinary
  <2> QED BY <2>1, <2>2
<1> QED BY <1>2, <1>3, <1>4, <1>5

(* They are out of the way of whatever else the script makes.              *)
LEMMA LibNotMade ==
  ASSUME NEW k \in {1, 2}, NEW d \in Paths, Len(d) <= 3, NEW l \in BOOLEAN
  PROVE  Lib(k) \notin {Append(d, "build"), BUILDF, NginxBinary(l)}
<1>1. Len(Lib(k)) = 5  BY LibFacts
<1>2. Lib(k) # Append(d, "build")
  <2>1. Len(Append(d, "build")) = Len(d) + 1
    BY NamesOfScript, AppendPath, Zenon
  <2>2. Len(d) \in Nat  BY DEF Paths
  <2>3. Len(d) + 1 # 5  BY <2>2
  <2> QED BY <1>1, <2>1, <2>3, Zenon
<1>3. Lib(k) # BUILDF
  <2>1. 2 # 5  OBVIOUS
  <2> QED BY <1>1, <2>1, PathsOfScript, Zenon
<1>4. Lib(k) # NginxBinary(l)
  <2>1. Len(Append(BUILDF, "sbin")) = Len(BUILDF) + 1
    BY PathsOfScript, NamesOfScript, AppendPath, Zenon
  <2>2. Len(Sub(USRLOCAL, NGINXV, "sbin")) = Len(USRLOCAL) + 2
    <3>1. NGINXV \in Names /\ "sbin" \in Names  BY NamesOfScript
    <3> QED BY <3>1, RootPaths, SubPath, Zenon
  <2>3. Len(NginxBinary(l)) = 3
    BY <2>1, <2>2, PathsOfScript, RootPaths DEF NginxBinary
  <2>4. 3 # 5  OBVIOUS
  <2> QED BY <1>1, <2>3, <2>4, Zenon
<1> QED BY <1>2, <1>3, <1>4

(* A run makes no directory of the way: one that is there now was there    *)
(* before the step.                                                        *)
LEMMA WayBack ==
  ASSUME InstallInv, [Next]_vars, pc # "idle", Way \subseteq fs'
  PROVE  Way \subseteq fs
<1> USE DEF InstallInv
<1>1. local \in BOOLEAN /\ conf.local \in BOOLEAN /\ Component \in Components
      /\ sh.cwd \in Paths
  BY SettingAssumption, IndexFacts DEF TypeOK
<1>2. CASE BuildSucceeds \/ BuildFails
  <2>1. fs' \subseteq fs \cup {Append(sh.cwd, "build")} \cup Installed(Component, local)
    BY <1>2 DEF BuildSucceeds, BuildFails, Prepared
  <2>2. Way \cap ({Append(sh.cwd, "build")} \cup Installed(Component, local)) = {}
    BY <1>1, NotOnWay
  <2> QED BY <2>1, <2>2
<1>3. CASE MakeConfigure
  <2>1. fs' \subseteq fs \cup {BUILDF}  BY <1>3 DEF MakeConfigure
  <2> QED BY <1>1, <2>1, NotOnWay
<1>4. CASE InstallNginx
  <2>1. fs' \subseteq fs \cup {NginxBinary(conf.local)}  BY <1>4 DEF InstallNginx
  <2> QED BY <1>1, <2>1, NotOnWay
<1>5. CASE fs' = fs  BY <1>5
<1> QED
  BY <1>2, <1>3, <1>4, <1>5
     DEF Next, Script, vars, Start, PushdGroup, PushdComponent, PopdComponent,
         PopdGroup, WritePackagePath, EnterNginx, Leave, Interrupt, Gone,
         Lose, Restore

LEMMA OnWayStep ==
  ASSUME InstallInv, WayInv, OnWay, [Next]_vars
  PROVE  OnWay'
<1> USE DEF InstallInv
<1> SUFFICES ASSUME (Way \subseteq fs)', pc' = "build", g' = 1, c' = 2
             PROVE  InComponent'
  BY DEF OnWay
<1>0. Way' = Way  BY DEF Way, KeepsTheWay
<1>1. CASE PushdComponent
  <2> USE DEF PushdComponent
  <2>1. Group' = Group /\ Component' = Component /\ Way \subseteq fs
        /\ g = 1 /\ c = 2 /\ pc = "pushdComponent"
    BY <1>0, <1>1 DEF Group, Component
  <2>2. InGroup  BY <2>1 DEF WayInv, Way
  <2>3. Component = Drizzle  BY <2>1, WiperFacts DEF Wiper
  <2>4. <<GroupDir(Group.dir)>> \o <<PARENTF>> = <<GroupDir(Group.dir), PARENTF>>
    BY RootPaths, IndexFacts, PathsOfScript, StackFacts
  <2>5. sh' = IF Home(Component) \in fs
              THEN Shell(Home(Component), <<GroupDir(Group.dir), PARENTF>>)
              ELSE sh
    BY <1>1, <2>2, <2>4, IndexFacts DEF InGroup, Pushd, Shell
  <2>6. Home(Component) \in fs  BY <2>1, <2>3 DEF Way
  <2> QED BY <2>1, <2>5, <2>6 DEF InComponent
<1>2. CASE UNCHANGED vars
  BY <1>0, <1>2 DEF vars, OnWay, InComponent, Group, Component
<1>3. CASE Next /\ ~PushdComponent
  <2>1. pc' # "build"
    BY <1>3
    DEF Next, Script, Start, PushdGroup, BuildSucceeds, BuildFails,
        PopdComponent, PopdGroup, WritePackagePath, MakeConfigure, EnterNginx,
        InstallNginx, Leave, Interrupt, Gone, Lose, Restore
  <2> QED BY <2>1
<1> QED BY <1>1, <1>2, <1>3

(* The build of one of the two in its own directory deletes what an        *)
(* earlier run left there; no other build disturbs what it then installs.  *)
LEMMA StaleBuild ==
  ASSUME InstallInv, WayInv, OnWay, StaleInv, BuildSucceeds \/ BuildFails,
         ~getOnly, Way \subseteq fs, NEW k \in {1, 2},
         Passed(k)', Lib(k) \in fs'
  PROVE  Lib(k) \in fresh'
<1> USE DEF InstallInv
<1> DEFINE P == Prepared(Component, sh.cwd)
<1> DEFINE Q == Installed(Component, local)
<1>1. /\ pc = "build" /\ pc' = "popdComponent" /\ UNCHANGED <<g, c, sh>>
      /\ fresh \subseteq fresh'
      /\ fs' \subseteq P \/ (fs' = P \cup Q /\ Q \subseteq fresh')
  BY DEF BuildSucceeds, BuildFails
<1>2. CASE Lib(k) \notin P
  <2> HIDE DEF P, Q
  <2> QED BY <1>1, <1>2
<1>3. CASE Lib(k) \in P
  <2>1. sh.cwd \in Paths /\ Len(sh.cwd) <= 3
    <3>1. AtParent \/ InGroup \/ InComponent  BY <1>1 DEF ShellPosition
    <3>2. sh.cwd \in {PARENTF, GroupDir(Group.dir), Home(Component)}
      BY <3>1 DEF AtParent, InGroup, InComponent, Shell
    <3>3. Component \in Components /\ Group.dir \in {"etc_src", "lua_src"}
      BY IndexFacts
    <3>4. \A p \in {PARENTF, GroupDir(Group.dir), Home(Component)} :
             p \in Paths /\ Len(p) \in {1, 2, 3}
      BY <3>3, RootPaths, PathsOfScript
    <3>5. sh.cwd \in Paths /\ Len(sh.cwd) \in {1, 2, 3}  BY <3>2, <3>4, Zenon
    <3> DEFINE n == Len(sh.cwd)
    <3>6. n \in {1, 2, 3}  BY <3>5
    <3> HIDE DEF n
    <3>7. n <= 3  BY <3>6
    <3> QED BY <3>5, <3>7 DEF n
  <2>2. Lib(k) # Append(sh.cwd, "build")  BY <2>1, LibNotMade
  <2>3. /\ Lib(k) \in fs
        /\ \A w \in Wipes(Component) : ~IsPrefix(Append(sh.cwd, w), Lib(k))
    BY <1>3, <2>2 DEF Prepared, Under
  <2>4. CASE Passed(k)
    <3>1. Lib(k) \in fresh  BY <2>3, <2>4 DEF StaleInv
    <3> QED BY <1>1, <3>1
  <2>5. CASE ~Passed(k)
    <3>1. g = 1 /\ c = k
      BY <1>1, <2>5, IndexFacts DEF Passed
    <3>2. Component = Wiper(k) /\ "build" \in Wipes(Component)
      BY <3>1, WiperFacts DEF Wipes, Wiper
    <3>3. InComponent
      BY <1>1, <3>1 DEF OnWay, WayInv, Way
    <3>4. sh.cwd = Home(Wiper(k))  BY <3>2, <3>3 DEF InComponent, Shell
    <3>5. IsPrefix(Append(sh.cwd, "build"), Lib(k))  BY <3>4, LibFacts
    <3> QED BY <2>3, <3>2, <3>5
  <2> QED BY <2>4, <2>5
<1> QED BY <1>2, <1>3

LEMMA StaleStep ==
  ASSUME InstallInv, WayInv, OnWay, StaleInv, [Next]_vars
  PROVE  StaleInv'
<1> USE DEF InstallInv
<1>1. pc' = "idle" => g' = 1
  BY IndexFacts
  DEF StaleInv, Next, Script, vars, Start, PushdGroup, PushdComponent,
      BuildSucceeds, BuildFails, PopdComponent, PopdGroup, WritePackagePath,
      MakeConfigure, EnterNginx, InstallNginx, Leave, Interrupt, Gone, Lose,
      Restore
<1>2. ASSUME ~getOnly', (Way \subseteq fs)', NEW k \in {1, 2},
             Passed(k)', (Lib(k) \in fs)'
      PROVE  Lib(k) \in fresh'
  <2>1. Way \subseteq fs' /\ Lib(k) \in fs'
    BY <1>2 DEF Way, KeepsTheWay, Lib, Wiper
  <2>2. CASE pc = "idle"
    <3>1. pc' \in {"idle", "pushdGroup"} /\ g' = 1
      BY <2>2
      DEF StaleInv, Next, Script, vars, Start, PushdGroup, PushdComponent,
          BuildSucceeds, BuildFails, PopdComponent, PopdGroup,
          WritePackagePath, MakeConfigure, EnterNginx, InstallNginx, Leave,
          Interrupt, Gone, Lose, Restore, Running
    <3> QED BY <1>2, <3>1 DEF Passed
  <2>3. CASE pc # "idle" /\ (BuildSucceeds \/ BuildFails)
    <3>1. Way \subseteq fs  BY <2>1, <2>3, WayBack
    <3>2. ~getOnly  BY <1>2, <2>3 DEF BuildSucceeds, BuildFails
    <3> QED BY <1>2, <2>1, <2>3, <3>1, <3>2, StaleBuild
  <2>4. CASE pc # "idle" /\ ~(BuildSucceeds \/ BuildFails)
    <3>1. Way \subseteq fs  BY <2>1, <2>4, WayBack
    <3>2. ~getOnly /\ fresh' = fresh /\ Passed(k)
      <4>1. g \in {1, 2} /\ c \in {1, 2, 3} /\ Len(Groups) = 2
            /\ Len(Group.components) = 3
        BY IndexFacts
      <4>2. ~Leave /\ ~Interrupt
        BY <1>2 DEF Leave, Interrupt, Gone, Passed
      <4>3. CASE PushdGroup  BY <1>2, <4>1, <4>3 DEF PushdGroup, Passed
      <4>4. CASE PushdComponent  BY <1>2, <4>4 DEF PushdComponent, Passed
      <4>5. CASE PopdComponent  BY <1>2, <4>1, <4>5 DEF PopdComponent, Passed
      <4>6. CASE PopdGroup  BY <1>2, <4>1, <4>6 DEF PopdGroup, Passed
      <4>7. CASE \/ WritePackagePath \/ MakeConfigure \/ EnterNginx
                 \/ InstallNginx
        BY <1>2, <4>7
        DEF WritePackagePath, MakeConfigure, EnterNginx, InstallNginx, Passed
      <4>8. CASE UNCHANGED vars  BY <1>2, <4>8 DEF vars, Passed
      <4>9. ~Start /\ ~Lose /\ ~Restore  BY <2>4 DEF Start, Lose, Restore
      <4> QED BY <2>4, <4>2, <4>3, <4>4, <4>5, <4>6, <4>7, <4>8, <4>9
          DEF Next, Script
    <3>3. Lib(k) \in fs
      <4>1. conf.local \in BOOLEAN  BY DEF TypeOK
      <4>2. PARENTF \in Paths /\ Len(PARENTF) <= 3  BY RootPaths
      <4>3. fs' \subseteq fs \cup {BUILDF, NginxBinary(conf.local)}
        BY <2>4
        DEF Next, Script, vars, Start, PushdGroup, PushdComponent,
            PopdComponent, PopdGroup, WritePackagePath, MakeConfigure,
            EnterNginx, InstallNginx, Leave, Interrupt, Gone, Lose, Restore
      <4> QED BY <2>1, <4>1, <4>2, <4>3, LibNotMade
    <3> QED BY <3>1, <3>2, <3>3 DEF StaleInv
  <2> QED BY <2>2, <2>3, <2>4
<1> QED BY <1>1, <1>2 DEF StaleInv

(* When a run that built hands over, what it left of sregex and Drizzle    *)
(* locally is its own (install:23-50): for every release and every outcome *)
(* of the builds, as long as the directories of etc_src are in place.      *)
THEOREM NothingStaleIsReused == Spec => []StaleNotReused
<1>1. Init => WayInv /\ OnWay /\ StaleInv
  BY DEF Init, WayInv, OnWay, StaleInv, Passed
<1>2. StaleInv => StaleNotReused
  <2> SUFFICES ASSUME StaleInv, pc = "shell", ~getOnly, Way \subseteq fs,
                      NEW comp \in {Sregex, Drizzle},
                      Product(comp, TRUE) \in fs
               PROVE  Product(comp, TRUE) \in fresh
    BY DEF StaleNotReused, Way
  <2>1. PICK k \in {1, 2} : comp = Wiper(k)  BY DEF Wiper
  <2>2. Lib(k) = Product(comp, TRUE)  BY <2>1 DEF Lib
  <2> QED BY <2>2 DEF StaleInv, Passed
<1>3. InstallInv /\ WayInv /\ [Next]_vars => WayInv'  BY WayStep
<1>4. InstallInv /\ WayInv /\ OnWay /\ [Next]_vars => OnWay'  BY OnWayStep
<1>5. InstallInv /\ WayInv /\ OnWay /\ StaleInv /\ [Next]_vars => StaleInv'
  BY StaleStep
<1> QED
  BY InstallInit, InstallNext, <1>1, <1>2, <1>3, <1>4, <1>5, PTL DEF Spec
-----------------------------------------------------------------------------
(* The shell, while a build runs.                                           *)
LEMMA Places ==
  ASSUME InstallInv, pc = "build"
  PROVE  sh.cwd \in {PARENTF, GroupDir(Group.dir), Home(Component)}
<1>1. AtParent \/ InGroup \/ InComponent  BY DEF InstallInv, ShellPosition
<1> QED BY <1>1 DEF AtParent, InGroup, InComponent, Shell

LEMMA SignalIndex ==
  ASSUME TypeOK, Component = Signal
  PROVE  Group.dir = "lua_src"
<1>1. g \in {1, 2} /\ c \in {1, 2, 3}  BY IndexFacts
<1>2. ASSUME g = 1 PROVE FALSE
  <2>1. Group.components = <<Sregex, Drizzle, ModSec>>  BY <1>2 DEF Group, Groups
  <2>2. Component \in {Sregex, Drizzle, ModSec}  BY <1>1, <2>1 DEF Component
  <2> QED BY <2>2 DEF Sregex, Drizzle, ModSec, Signal
<1>3. g = 2  BY <1>1, <1>2
<1> QED BY <1>3 DEF Group, Groups

(* No source is below a path that a build deletes, from wherever it runs.  *)
LEMMA SourcesSpared ==
  ASSUME InstallInv, pc = "build", NEW p \in SourceFiles,
         NEW w \in Wipes(Component)
  PROVE  ~IsPrefix(Append(sh.cwd, w), p)
<1> SUFFICES ASSUME IsPrefix(Append(sh.cwd, w), p) PROVE FALSE  OBVIOUS
<1>1. p \in Tree /\ p \notin Under(Append(Home(Drizzle), "build"), Tree)
  BY DEF SourceFiles
<1>2. p \in Under(Append(sh.cwd, w), Tree)  BY <1>1 DEF Under
<1>3. sh.cwd \in {PARENTF, GroupDir(Group.dir), Home(Component)}  BY Places
<1>4. CASE Component \in {Sregex, Drizzle}
  <2>1. w = "build"  BY <1>4 DEF Wipes, Sregex, Drizzle, Signal
  <2>2. Group.dir = "etc_src"
    BY <1>4, Wipers, FirstGroup DEF InstallInv
  <2>3. CASE sh.cwd \in {PARENTF, GroupDir("etc_src"), Home(Sregex)}
    BY <1>2, <2>1, <2>3, ReleaseAssumption
  <2>4. CASE sh.cwd = Home(Drizzle)  BY <1>1, <1>2, <2>1, <2>4
  <2> QED BY <1>3, <1>4, <2>2, <2>3, <2>4
<1>5. CASE Component \notin {Sregex, Drizzle}
  <2>1. Component = Signal /\ w = "librestysignal.so"  BY <1>5 DEF Wipes
  <2>2. Group.dir = "lua_src"  BY <2>1, SignalIndex DEF InstallInv
  <2> QED BY <1>2, <1>3, <2>1, <2>2, ReleaseAssumption
<1> QED BY <1>4, <1>5

(* The script deletes no unpacked source (install:25, 40, 112): not even   *)
(* when pushd has failed and rm -rf build runs in $PARENTF or in etc_src.  *)
THEOREM NoSourceDeleted == Spec => SourcesSurvive
<1>1. InstallInv /\ [Next]_vars
      => [(pc \in Running) => (SourceFiles \cap fs) \subseteq fs']_vars
  <2> SUFFICES ASSUME InstallInv, [Next]_vars, pc \in Running,
                      NEW p \in SourceFiles, p \in fs, fs' # fs
               PROVE  p \in fs'
    BY DEF vars
  <2>1. CASE BuildSucceeds \/ BuildFails
    <3>1. pc = "build" /\ Prepared(Component, sh.cwd) \subseteq fs'
      BY <2>1 DEF BuildSucceeds, BuildFails
    <3>2. \A w \in Wipes(Component) : p \notin Under(Append(sh.cwd, w), fs)
      BY <3>1, SourcesSpared DEF Under
    <3> QED BY <3>1, <3>2 DEF Prepared
  <2>2. CASE MakeConfigure  BY <2>2 DEF MakeConfigure
  <2>3. CASE Lose \/ Restore \/ InstallNginx
    BY <2>3 DEF Lose, Restore, InstallNginx, Running
  <2> QED
    BY <2>1, <2>2, <2>3
       DEF Next, Script, vars, Start, PushdGroup, PushdComponent, PopdComponent,
           PopdGroup, WritePackagePath, EnterNginx, Leave, Interrupt, Gone
<1> QED BY InstallInit, InstallNext, <1>1, PTL DEF Spec, SourcesSurvive
-----------------------------------------------------------------------------
(* The paths that no name of W occurs in.                                  *)
Avoids(p, W) == \A i \in 1..Len(p) : p[i] \notin W

LEMMA AvoidsAppend ==
  ASSUME NEW W, NEW s \in Paths, Avoids(s, W), NEW a \in Names, a \notin W
  PROVE  Append(s, a) \in Paths /\ Avoids(Append(s, a), W)
<1> DEFINE t == Append(s, a)
<1>1. /\ t \in Paths /\ Len(t) = Len(s) + 1 /\ t[Len(s) + 1] = a
      /\ \A i \in 1..Len(s) : t[i] = s[i]
  BY AppendPath
<1>2. Len(s) \in Nat  BY DEF Paths
<1> HIDE DEF t
<1>3. Avoids(t, W)
  <2> SUFFICES ASSUME NEW i \in 1..Len(t)
               PROVE  t[i] \notin W
    BY DEF Avoids
  <2>1. CASE i = Len(s) + 1  BY <1>1, <2>1
  <2>2. CASE i # Len(s) + 1
    <3>1. i \in 1..Len(s)  BY <1>1, <1>2, <2>2
    <3> QED BY <1>1, <3>1 DEF Avoids
  <2> QED BY <2>1, <2>2
<1> QED BY <1>1, <1>3 DEF t

LEMMA AvoidsSub ==
  ASSUME NEW W, NEW s \in Paths, Avoids(s, W),
         NEW a \in Names, a \notin W, NEW b \in Names, b \notin W
  PROVE  Sub(s, a, b) \in Paths /\ Avoids(Sub(s, a, b), W)
<1> DEFINE q == Append(s, a)
<1>1. q \in Paths /\ Avoids(q, W)  BY AvoidsAppend, Zenon
<1> HIDE DEF q
<1>2. Append(q, b) \in Paths /\ Avoids(Append(q, b), W)
  BY <1>1, AvoidsAppend, Zenon
<1> QED BY <1>2 DEF Sub, q

(* The names a build deletes, and the places the script starts from.       *)
Deleted == {"build", "librestysignal.so"}

LEMMA RootsAvoid ==
  /\ PARENTF \in Paths /\ Avoids(PARENTF, Deleted)
  /\ USRLOCAL \in Paths /\ Avoids(USRLOCAL, Deleted)
  /\ \A d \in {"etc_src", "lua_src"} :
        GroupDir(d) \in Paths /\ Avoids(GroupDir(d), Deleted)
  /\ \A l \in BOOLEAN : LuaSrc(l) \in Paths /\ Avoids(LuaSrc(l), Deleted)
  /\ \A comp \in Components :
        Home(comp) \in Paths /\ Avoids(Home(comp), Deleted)
<1>1. /\ PARENTF \in Paths /\ Avoids(PARENTF, Deleted)
      /\ OPTLUA \in Paths /\ Avoids(OPTLUA, Deleted)
      /\ USRLOCAL \in Paths /\ Avoids(USRLOCAL, Deleted)
  BY RootPaths DEF Avoids, Deleted, PARENTF, OPTLUA, USRLOCAL
<1>2. ASSUME NEW d \in {"etc_src", "lua_src"}
      PROVE  GroupDir(d) \in Paths /\ Avoids(GroupDir(d), Deleted)
  <2>1. d \in Names /\ d \notin Deleted  BY NamesOfScript DEF Deleted
  <2> QED BY <1>1, <2>1, AvoidsAppend, Zenon DEF GroupDir
<1>3. ASSUME NEW comp \in Components
      PROVE  Home(comp) \in Paths /\ Avoids(Home(comp), Deleted)
  <2> DEFINE d == GroupDir(GroupOf(comp))
  <2>1. d \in Paths /\ Avoids(d, Deleted)  BY <1>2 DEF GroupOf
  <2>2. comp \in Names /\ comp \notin Deleted
    BY NamesOfScript
    DEF Components, Deleted, Sregex, Drizzle, ModSec, LuaJIT, CJson, Signal
  <2> HIDE DEF d
  <2>3. Append(d, comp) \in Paths /\ Avoids(Append(d, comp), Deleted)
    BY <2>1, <2>2, AvoidsAppend, Zenon
  <2> QED BY <2>3 DEF Home, d
<1>4. \A l \in BOOLEAN : LuaSrc(l) \in Paths /\ Avoids(LuaSrc(l), Deleted)
  BY <1>1, <1>2 DEF LuaSrc
<1> QED BY <1>1, <1>2, <1>3, <1>4

(* A build leaves such a path alone, wherever it runs.                     *)
LEMMA AvoidsSpared ==
  ASSUME NEW d \in Paths, NEW p \in Paths, NEW w \in Names, NEW W, w \in W,
         Avoids(p, W)
  PROVE  ~IsPrefix(Append(d, w), p)
<1> SUFFICES ASSUME IsPrefix(Append(d, w), p) PROVE FALSE  OBVIOUS
<1>1. Len(d) + 1 \in 1..Len(p) /\ p[Len(d) + 1] = w  BY BelowNames, Zenon
<1> QED BY <1>1 DEF Avoids

(* How many of the six builds the script is past, in their order.          *)
Order == <<Sregex, Drizzle, ModSec, LuaJIT, CJson, Signal>>
Done ==
  CASE pc = "idle"                       -> 0
    [] pc = "pushdGroup"                 -> 3 * (g - 1)
    [] pc \in {"pushdComponent", "build"} -> 3 * (g - 1) + c - 1
    [] pc = "popdComponent"              -> 3 * (g - 1) + c
    [] pc = "popdGroup"                  -> 3 * g
    [] OTHER                             -> 6

(* What this run installed is of the builds that went before, and is still *)
(* there.                                                                  *)
FreshInv ==
  /\ fresh \subseteq UNION {Installed(Order[i], local) : i \in 1..Done}
  /\ fresh \subseteq fs

LEMMA DoneFacts ==
  ASSUME TypeOK
  PROVE  /\ Done \in 0..6
         /\ pc = "idle" => Done = 0
         /\ pc = "build" => Component = Order[Done + 1] /\ Done \in 0..5
<1>1. g \in {1, 2} /\ c \in {1, 2, 3}  BY IndexFacts
<1>2. Done \in 0..6 /\ (pc = "idle" => Done = 0)
      /\ (pc = "build" => Done = 3 * (g - 1) + c - 1)
  BY <1>1 DEF Done
<1>3. /\ Groups[1].components = <<Sregex, Drizzle, ModSec>>
      /\ Groups[2].components = <<LuaJIT, CJson, Signal>>
  BY DEF Groups
<1>4. Component = Order[3 * (g - 1) + c]
  BY <1>1, <1>3 DEF Component, Group, Order
<1> QED BY <1>1, <1>2, <1>4

(* No step but the end of a run goes back in that order.                   *)
LEMMA DoneGrows ==
  ASSUME TypeOK, Start \/ Script \/ InstallNginx
  PROVE  Done' \in Nat /\ Done <= Done'
<1>1. g \in {1, 2} /\ c \in {1, 2, 3} /\ Len(Groups) = 2 /\ Len(Group.components) = 3
  BY IndexFacts
<1>2. CASE Start  BY <1>1, <1>2 DEF Start, Done
<1>3. CASE PushdGroup
  <2>1. pc = "pushdGroup" /\ g' = g /\ c' = 1
        /\ pc' \in {"popdGroup", "pushdComponent"}
    BY <1>3 DEF PushdGroup
  <2>2. Done = 3 * (g - 1)  BY <2>1 DEF Done
  <2>3. Done' \in {3 * g, 3 * (g - 1) + 1 - 1}  BY <2>1 DEF Done
  <2> HIDE DEF Done
  <2> QED BY <1>1, <2>2, <2>3
<1>4. CASE PushdComponent  BY <1>1, <1>4 DEF PushdComponent, Done
<1>5. CASE BuildSucceeds \/ BuildFails
  BY <1>1, <1>5 DEF BuildSucceeds, BuildFails, Done
<1>6. CASE PopdComponent  BY <1>1, <1>6 DEF PopdComponent, Done
<1>7. CASE PopdGroup  BY <1>1, <1>7 DEF PopdGroup, Done
<1>8. CASE WritePackagePath \/ MakeConfigure \/ EnterNginx \/ InstallNginx
  BY <1>8 DEF WritePackagePath, MakeConfigure, EnterNginx, InstallNginx, Done
<1> QED BY <1>2, <1>3, <1>4, <1>5, <1>6, <1>7, <1>8 DEF Script

(* Where a build before it is looked for, resty-signal's make clean finds  *)
(* nothing to delete.                                                      *)
LEMMA NoSignalLibrary ==
  ASSUME NEW comp \in Components \ {Signal}, NEW l \in BOOLEAN,
         NEW q \in Installed(comp, l)
  PROVE  q \in Paths /\ Avoids(q, {"librestysignal.so"})
<1> DEFINE W == {"librestysignal.so"}
<1>1. ASSUME NEW p, Avoids(p, Deleted) PROVE Avoids(p, W)
  BY <1>1 DEF Avoids, Deleted
<1>2. /\ {"build", "lib", LibDir, "include", "sregex", "drizzle", "modsecurity",
           "cjson.so"} \subseteq Names \ W
      /\ LuaJIT \in Names \ W
  BY TreeAssumption, SettingAssumption DEF ScriptNames, Components, LuaJIT
<1>3. /\ PARENTF \in Paths /\ Avoids(PARENTF, W)
      /\ USRLOCAL \in Paths /\ Avoids(USRLOCAL, W)
      /\ Home(comp) \in Paths /\ Avoids(Home(comp), W)
      /\ LuaSrc(l) \in Paths /\ Avoids(LuaSrc(l), W)
  BY <1>1, RootsAvoid
<1> HIDE DEF W
<1>4. BUILDF \in Paths /\ Avoids(BUILDF, W)
  BY <1>2, <1>3, AvoidsAppend, Zenon DEF BUILDF
<1>5. \A x \in {"lib", LibDir, "include"} :
         Sub(Home(comp), "build", x) \in Paths /\ Avoids(Sub(Home(comp), "build", x), W)
  BY <1>2, <1>3, AvoidsSub
<1>6. \A x \in {"sregex", "drizzle"} :
         Sub(USRLOCAL, "lib", x) \in Paths /\ Avoids(Sub(USRLOCAL, "lib", x), W)
  BY <1>2, <1>3, AvoidsSub
<1>7. \A x \in {LibDir, "include"} :
         /\ Sub(BUILDF, "modsecurity", x) \in Paths
         /\ Avoids(Sub(BUILDF, "modsecurity", x), W)
  BY <1>2, <1>4, AvoidsSub
<1>8. /\ Append(USRLOCAL, "modsecurity") \in Paths
      /\ Avoids(Append(USRLOCAL, "modsecurity"), W)
      /\ Append(Home(comp), "cjson.so") \in Paths
      /\ Avoids(Append(Home(comp), "cjson.so"), W)
  BY <1>2, <1>3, AvoidsAppend
<1>9. /\ Sub(Append(LuaSrc(l), LuaJIT), "build", "lib") \in Paths
      /\ Avoids(Sub(Append(LuaSrc(l), LuaJIT), "build", "lib"), W)
  <2> DEFINE r == Append(LuaSrc(l), LuaJIT)
  <2>1. r \in Paths /\ Avoids(r, W)  BY <1>2, <1>3, AvoidsAppend, Zenon
  <2> HIDE DEF r
  <2>2. Sub(r, "build", "lib") \in Paths /\ Avoids(Sub(r, "build", "lib"), W)
    BY <1>2, <2>1, AvoidsSub
  <2> QED BY <2>2 DEF r
<1>10. Product(comp, l) \in
         {Sub(Home(comp), "build", "lib"), Sub(Home(comp), "build", LibDir),
          Sub(USRLOCAL, "lib", "sregex"), Sub(USRLOCAL, "lib", "drizzle"),
          Sub(BUILDF, "modsecurity", LibDir), Append(USRLOCAL, "modsecurity"),
          Append(Home(comp), "cjson.so"),
          Sub(Append(LuaSrc(l), LuaJIT), "build", "lib")}
  BY DEF Product, Components, Sregex, Drizzle, ModSec, LuaJIT, CJson, Signal
<1>11. Headers(comp, l) \subseteq {Sub(Home(comp), "build", "include"),
                                  Sub(BUILDF, "modsecurity", "include")}
  BY DEF Headers
<1>12. \A x \in {Product(comp, l)} \cup Headers(comp, l) : x \in Paths /\ Avoids(x, W)
  BY <1>5, <1>6, <1>7, <1>8, <1>9, <1>10, <1>11
<1> QED BY <1>12 DEF W, Installed

LEMMA SubNames ==
  ASSUME NEW s \in Paths, NEW a \in Names, NEW b \in Names
  PROVE  /\ \A i \in 1..Len(s) : Sub(s, a, b)[i] = s[i]
         /\ Sub(s, a, b)[Len(s) + 1] = a
<1> DEFINE q == Append(s, a)
<1>1. /\ q \in Paths /\ Len(q) = Len(s) + 1 /\ q[Len(s) + 1] = a
      /\ \A i \in 1..Len(s) : q[i] = s[i]
  BY AppendPath
<1>2. Len(s) \in Nat  BY DEF Paths
<1> HIDE DEF q
<1>3. \A i \in 1..Len(q) : Append(q, b)[i] = q[i]  BY <1>1, AppendPath, Zenon
<1>4. \A i \in 1..Len(s) + 1 : Append(q, b)[i] = q[i]  BY <1>1, <1>3
<1>5. Len(s) + 1 \in 1..Len(s) + 1 /\ \A i \in 1..Len(s) : i \in 1..Len(s) + 1
  BY <1>2
<1> QED BY <1>1, <1>4, <1>5 DEF Sub, q

LEMMA ThirdName ==
  ASSUME NEW comp \in {Sregex, Drizzle}
  PROVE  Home(comp)[3] = comp
<1> DEFINE d == GroupDir("etc_src")
<1>1. d \in Paths /\ Len(d) = 2 /\ comp \in Names /\ Home(comp) = Append(d, comp)
  BY WayPaths, NamesOfScript DEF Components, Home, GroupOf
<1> HIDE DEF d
<1>2. Append(d, comp)[Len(d) + 1] = comp  BY <1>1, AppendPath, Zenon
<1>3. Len(d) + 1 = 3  BY <1>1
<1> QED BY <1>1, <1>2, <1>3, Zenon

(* Drizzle's rm -rf build does not reach what sregex installed, from any   *)
(* of the three directories it may run in.                                 *)
LEMMA SregexSpared ==
  ASSUME NEW d \in {PARENTF, GroupDir("etc_src"), Home(Drizzle)}, NEW l \in BOOLEAN
  PROVE  ~IsPrefix(Append(d, "build"), Product(Sregex, l))
<1> DEFINE p == Product(Sregex, l)
<1>0. /\ d \in Paths /\ Len(d) \in {1, 2, 3} /\ d[1] = "PARENTF"
      /\ d = Home(Drizzle) => Len(d) = 3
      /\ PARENTF \in Paths /\ Len(PARENTF) = 1 /\ Len(GroupDir("etc_src")) = 2
  <2>1. Home(Drizzle) \in Paths /\ Len(Home(Drizzle)) = 3
    BY PathsOfScript DEF Components
  <2>2. Home(Drizzle)[1] = "PARENTF"
    <3> DEFINE e == GroupDir("etc_src")
    <3>1. e \in Paths /\ Len(e) = 2 /\ e[1] = "PARENTF" /\ Drizzle \in Names
          /\ Home(Drizzle) = Append(e, Drizzle)
      BY WayPaths, NamesOfScript DEF Components, Home, GroupOf
    <3> HIDE DEF e
    <3>2. \A i \in 1..Len(e) : Append(e, Drizzle)[i] = e[i]
      BY <3>1, AppendPath, Zenon
    <3> QED BY <3>1, <3>2
  <2> QED BY <2>1, <2>2, WayPaths, RootPaths
<1> SUFFICES ASSUME IsPrefix(Append(d, "build"), p) PROVE FALSE  OBVIOUS
<1>1. p \in Paths  BY ProductFar DEF Components
<1>2. p[Len(d) + 1] = "build" /\ \A i \in 1..Len(d) : p[i] = d[i]
  <2>1. "build" \in Names  BY NamesOfScript
  <2>2. d \in Paths  BY <1>0
  <2> HIDE DEF p
  <2> QED BY <1>1, <2>1, <2>2, NamesBelow
<1>3. p = IF l THEN Sub(Home(Sregex), "build", "lib")
               ELSE Sub(USRLOCAL, "lib", "sregex")
  BY DEF Product, Sregex, Drizzle, ModSec, LuaJIT, CJson, Signal
<1> HIDE DEF p
<1>4. CASE ~l
  <2>1. p[1] = "/usr/local"  BY <1>3, <1>4, NamesOfScript, SubRoot
  <2> QED BY <1>0, <1>2, <2>1
<1>5. CASE l
  <2> DEFINE h == Home(Sregex)
  <2>1. h \in Paths /\ Len(h) = 3 /\ h[2] = "etc_src" /\ h[3] = Sregex
    BY WayPaths, ThirdName, PathsOfScript DEF Components
  <2> HIDE DEF h
  <2>2. \A i \in 1..Len(h) : Sub(h, "build", "lib")[i] = h[i]
    <3>1. "build" \in Names /\ "lib" \in Names  BY NamesOfScript
    <3> QED BY <2>1, <3>1, SubNames, Zenon
  <2>3. p[2] = "etc_src" /\ p[3] = Sregex  BY <1>3, <1>5, <2>1, <2>2 DEF h
  <2>4. CASE d = PARENTF
    <3>1. Len(d) = 1  BY <1>0, <2>4
    <3>2. p[2] = "build"  BY <1>2, <3>1
    <3> QED BY <2>3, <3>2
  <2>5. CASE d = GroupDir("etc_src")
    <3>1. p[3] = "build"  BY <1>0, <1>2, <2>5
    <3> QED BY <2>3, <3>1 DEF Sregex
  <2>6. CASE d = Home(Drizzle)
    <3>1. d[3] = Drizzle  BY <2>6, ThirdName
    <3>2. p[3] = Drizzle  BY <1>0, <1>2, <2>6, <3>1
    <3> QED BY <2>3, <3>2 DEF Sregex, Drizzle
  <2> QED BY <2>4, <2>5, <2>6
<1> QED BY <1>4, <1>5

(* So no build deletes what a build before it installed.                   *)
LEMMA InstalledSpared ==
  ASSUME InstallInv, pc = "build",
         NEW i \in 1..Done, NEW w \in Wipes(Component),
         NEW p \in Installed(Order[i], local)
  PROVE  ~IsPrefix(Append(sh.cwd, w), p)
<1>1. /\ Done \in 0..5 /\ Component = Order[Done + 1] /\ local \in BOOLEAN
      /\ sh.cwd \in Paths
  BY DoneFacts, SettingAssumption DEF InstallInv, TypeOK
<1>2. /\ Order[1] = Sregex /\ Order[2] = Drizzle /\ Order[3] = ModSec
      /\ Order[4] = LuaJIT /\ Order[5] = CJson /\ Order[6] = Signal
  BY DEF Order
<1>3. Component \in {Sregex, Drizzle, Signal}
  BY DEF Wipes
<1>4. Sregex # Drizzle /\ Sregex # Signal /\ Drizzle # Signal
      /\ {Sregex, Drizzle, Signal} \cap {ModSec, LuaJIT, CJson} = {}
  BY DEF Sregex, Drizzle, ModSec, LuaJIT, CJson, Signal
<1> DEFINE d == Done
<1>5. d \in {0, 1, 2, 3, 4, 5} /\ i \in 1..d /\ Component = Order[d + 1]
  BY <1>1
<1> HIDE DEF d
<1>6. \/ d = 1 /\ i = 1 /\ Component = Drizzle
      \/ d = 5 /\ i \in {1, 2, 3, 4, 5} /\ Component = Signal
  <2>1. d # 0  BY <1>5
  <2>2. d = 2 => Component = ModSec  BY <1>2, <1>5
  <2>3. d = 3 => Component = LuaJIT  BY <1>2, <1>5
  <2>4. d = 4 => Component = CJson   BY <1>2, <1>5
  <2>5. d = 1 => Component = Drizzle /\ i = 1  BY <1>2, <1>5
  <2>6. d = 5 => Component = Signal /\ i \in {1, 2, 3, 4, 5}  BY <1>2, <1>5
  <2> QED BY <1>3, <1>4, <1>5, <2>1, <2>2, <2>3, <2>4, <2>5, <2>6
<1>7. CASE d = 1 /\ i = 1 /\ Component = Drizzle
  <2>1. w = "build"  BY <1>4, <1>7 DEF Wipes
  <2>2. Group.dir = "etc_src"  BY <1>7, Wipers, FirstGroup DEF InstallInv
  <2>3. sh.cwd \in {PARENTF, GroupDir("etc_src"), Home(Drizzle)}
    BY <1>7, <2>2, Places
  <2>4. p = Product(Sregex, local)
    <3>1. Order[i] = Sregex  BY <1>2, <1>7
    <3>2. Headers(Sregex, local) = {}
      BY DEF Headers, Sregex, Drizzle, ModSec
    <3> QED BY <3>1, <3>2 DEF Installed
  <2> QED BY <1>1, <2>1, <2>3, <2>4, SregexSpared
<1>8. CASE d = 5 /\ i \in {1, 2, 3, 4, 5} /\ Component = Signal
  <2>1. w = "librestysignal.so"  BY <1>4, <1>8 DEF Wipes
  <2>2. Order[i] \in Components \ {Signal}
    BY <1>2, <1>8 DEF Components, Sregex, Drizzle, ModSec, LuaJIT, CJson, Signal
  <2>3. p \in Paths /\ Avoids(p, {"librestysignal.so"})
    BY <1>1, <2>2, NoSignalLibrary
  <2>4. w \in Names  BY <2>1, NamesOfScript
  <2> QED BY <1>1, <2>1, <2>3, <2>4, AvoidsSpared
<1> QED BY <1>6, <1>7, <1>8

LEMMA FreshBuild ==
  ASSUME InstallInv, FreshInv, BuildSucceeds \/ BuildFails
  PROVE  FreshInv'
<1> USE DEF InstallInv, FreshInv
<1> DEFINE P == Prepared(Component, sh.cwd)
<1> DEFINE Q == Installed(Component, local)
<1>1. pc = "build" /\ pc' = "popdComponent" /\ UNCHANGED <<g, c, local, sh>>
  BY DEF BuildSucceeds, BuildFails
<1>2. fresh \subseteq P
  <2>1. ASSUME NEW i \in 1..Done, NEW w \in Wipes(Component),
               NEW p \in Installed(Order[i], local)
        PROVE  p \notin Under(Append(sh.cwd, w), fs)
    BY <1>1, <2>1, InstalledSpared DEF Under
  <2>2. \A p \in fresh : \A w \in Wipes(Component) : p \notin Under(Append(sh.cwd, w), fs)
    BY <2>1
  <2> QED BY <2>2 DEF Prepared
<1>3. Q = Installed(Order[Done + 1], local) /\ Done \in 0..5 /\ Done' = Done + 1
  <2>1. g \in {1, 2} /\ c \in {1, 2, 3}  BY IndexFacts
  <2>2. Done' = Done + 1  BY <1>1, <2>1 DEF Done
  <2> QED BY <1>1, <2>2, DoneFacts
<1> HIDE DEF P, Q
<1>4. P \subseteq fs' /\ (fresh' = fresh \/ (fresh' = fresh \cup Q /\ Q \subseteq fs'))
  BY DEF BuildSucceeds, BuildFails, P, Q
<1>5. (fresh \subseteq UNION {Installed(Order[i], local) : i \in 1..Done})'
  <2> DEFINE d == Done
  <2> DEFINE e == Done'
  <2> DEFINE R(i) == Installed(Order[i], local)
  <2>1. fresh \subseteq UNION {R(i) : i \in 1..d} /\ Q = R(d + 1) /\ d \in 0..5 /\ e = d + 1
    BY <1>3
  <2> HIDE DEF d, e, R
  <2>2. 1..e = 1..d \cup {d + 1}  BY <2>1
  <2>3. fresh' \subseteq UNION {R(i) : i \in 1..e}  BY <1>4, <2>1, <2>2
  <2> QED BY <1>1, <2>3 DEF e, R
<1>6. fresh' \subseteq fs'  BY <1>2, <1>4
<1> QED BY <1>5, <1>6

LEMMA FreshStep ==
  ASSUME InstallInv, FreshInv, [Next]_vars
  PROVE  FreshInv'
<1>1. CASE BuildSucceeds \/ BuildFails  BY <1>1, FreshBuild
<1>2. CASE UNCHANGED vars  BY <1>2 DEF vars, FreshInv, Done
<1>3. CASE Start \/ Lose \/ Restore
  <2>1. Done = 0 /\ fresh' = fresh  BY <1>3, DoneFacts DEF InstallInv, Start, Lose, Restore
  <2>2. fresh = {}  BY <2>1 DEF FreshInv
  <2> QED BY <2>1, <2>2 DEF FreshInv
<1>4. CASE Leave \/ Interrupt
  BY <1>4 DEF Leave, Interrupt, Gone, FreshInv
<1>5. CASE \/ PushdGroup \/ PushdComponent \/ PopdComponent \/ PopdGroup
           \/ WritePackagePath \/ MakeConfigure \/ EnterNginx \/ InstallNginx
  <2>1. fs \subseteq fs' /\ UNCHANGED <<fresh, local>>
    BY <1>5
    DEF PushdGroup, PushdComponent, PopdComponent, PopdGroup,
        WritePackagePath, MakeConfigure, EnterNginx, InstallNginx
  <2>2. Done \in 0..6 /\ Done' \in Nat /\ Done <= Done'
    BY <1>5, DoneFacts, DoneGrows DEF InstallInv, Script
  <2>3. 1..Done \subseteq 1..Done'
    <3> DEFINE d == Done
    <3> DEFINE e == Done'
    <3>1. d \in 0..6 /\ e \in Nat /\ d <= e  BY <2>2
    <3> HIDE DEF d, e
    <3>2. 1..d \subseteq 1..e  BY <3>1
    <3> QED BY <3>2 DEF d, e
  <2> QED BY <2>1, <2>3 DEF FreshInv
<1> QED BY <1>1, <1>2, <1>3, <1>4, <1>5 DEF Next, Script

(* In either mode, wherever autoconf installs libraries, and whatever went *)
(* missing before, a run that built what its hand-over names and finds the *)
(* release in place hands over a configuration of which nothing else is    *)
(* missing than the lib64 that the script spells out (install:307-309) and *)
(* what only nginx_builder puts below /opt/lua_src: none of the builds     *)
(* deleted what one before it had installed (install:20-120, 222-310).     *)
THEOREM BuiltIsConfigurable == Spec => []CompleteBuildIsConfigurable
<1>1. Init => HandInv /\ FreshInv
  BY DEF Init, HandInv, FreshInv
<1>2. HandInv /\ FreshInv => CompleteBuildIsConfigurable
  <2> SUFFICES ASSUME HandInv, FreshInv, CompleteBuild,
                      NEW p \in ConfigurationRefs(conf.local), p \notin fs
               PROVE  p \in KnownGaps(local)
    BY DEF CompleteBuildIsConfigurable
  <2>1. conf.local = local  BY DEF HandInv, CompleteBuild
  <2>2. \A comp \in Handed(local) : Installed(comp, local) \subseteq fs
    BY DEF CompleteBuild, FreshInv
  <2>3. Shipped(local) \subseteq fs  BY DEF CompleteBuild
  <2>4. Sub(Append(LuaSrc(local), LuaJIT), "build", "lib") \in fs
    <3>1. Product(LuaJIT, local) \in fs  BY <2>2 DEF Handed, Installed
    <3> QED BY <3>1 DEF Product, Sregex, Drizzle, ModSec, LuaJIT, CJson, Signal
  <2>5. CASE ~local
    <3>1. p \in AddModules \cup {LUAJIT2_SRC(FALSE), Append(OPTLUA, LuaSSL)}
      BY <2>1, <2>4, <2>5 DEF ConfigurationRefs, LuaSrc, LUAJIT2_SRC
    <3> QED BY <2>3, <2>5, <3>1 DEF Shipped, KnownGaps
  <2>6. CASE local
    <3>1. {Sregex, Drizzle, ModSec} \subseteq Handed(local)  BY <2>6 DEF Handed
    <3>2. /\ Product(Sregex, local) \in fs /\ Product(Drizzle, local) \in fs
          /\ Product(ModSec, local) \in fs
          /\ Headers(Drizzle, local) \subseteq fs /\ Headers(ModSec, local) \subseteq fs
      BY <2>2, <3>1 DEF Installed
    <3>3. /\ Sub(Home(Sregex), "build", "lib") \in fs
          /\ Sub(Home(Drizzle), "build", LibDir) \in fs
          /\ Sub(BUILDF, "modsecurity", LibDir) \in fs
      BY <2>6, <3>2
      DEF Product, Sregex, Drizzle, ModSec, LuaJIT, CJson, Signal
    <3>4. /\ Sub(Home(Drizzle), "build", "include") \in fs
          /\ Sub(BUILDF, "modsecurity", "include") \in fs
      BY <2>6, <3>2 DEF Headers, Sregex, Drizzle, ModSec
    <3>5. AddModules \cup {LUAJIT2_SRC(local), Append(LuaSrc(local), LuaSSL),
                           Append(Home(Sregex), "src")} \subseteq fs
      BY <2>3, <2>6 DEF Shipped, LuaSrc, LUAJIT2_SRC
    <3>6. p \in {Sub(Home(Drizzle), "build", "lib64"),
                 Sub(BUILDF, "modsecurity", "lib64")}
      BY <2>1, <2>4, <3>3, <3>4, <3>5 DEF ConfigurationRefs
    <3>7. LibDir # "lib64"  BY <3>3, <3>6
    <3> QED BY <2>6, <3>6, <3>7 DEF KnownGaps
  <2> QED BY <2>5, <2>6
<1>3. InstallInv /\ FreshInv /\ [Next]_vars => FreshInv'  BY FreshStep
<1> QED BY <1>1, <1>2, <1>3, HandStep, InstallInit, InstallNext, PTL DEF Spec
-----------------------------------------------------------------------------
(* The commands that the present run has yet to make, at most: a group is  *)
(* its pushd, three commands for each of its three components, and its     *)
(* popd; then the two files are written and the shell enters ngx_src.      *)
CommandsFrom(p, i, j) ==
  CASE p = "pushdGroup"     -> 11 * (2 - i) + 14
    [] p = "pushdComponent" -> 11 * (2 - i) + 3 * (3 - j) + 7
    [] p = "build"          -> 11 * (2 - i) + 3 * (3 - j) + 6
    [] p = "popdComponent"  -> 11 * (2 - i) + 3 * (3 - j) + 5
    [] p = "popdGroup"      -> 11 * (2 - i) + 4
    [] p = "packagePath"    -> 3
    [] p = "makeConfigure"  -> 2
    [] p = "enterNginx"     -> 1
    [] OTHER                -> 0
CommandsLeft == CommandsFrom(pc, g, c)

LEMMA FromIs ==
  \A i, j :
    /\ CommandsFrom("pushdGroup", i, j) = 11 * (2 - i) + 14
    /\ CommandsFrom("pushdComponent", i, j) = 11 * (2 - i) + 3 * (3 - j) + 7
    /\ CommandsFrom("build", i, j) = 11 * (2 - i) + 3 * (3 - j) + 6
    /\ CommandsFrom("popdComponent", i, j) = 11 * (2 - i) + 3 * (3 - j) + 5
    /\ CommandsFrom("popdGroup", i, j) = 11 * (2 - i) + 4
    /\ CommandsFrom("packagePath", i, j) = 3
    /\ CommandsFrom("makeConfigure", i, j) = 2
    /\ CommandsFrom("enterNginx", i, j) = 1
    /\ \A p : p \notin Running => CommandsFrom(p, i, j) = 0
  BY DEF CommandsFrom, Running

(* Each command of the script leaves fewer to come.                        *)
LEMMA CommandsCount ==
  InstallInv => /\ CommandsLeft \in 0..25
                /\ pc \in Running => CommandsLeft > 0
<1> SUFFICES ASSUME InstallInv
             PROVE  /\ CommandsLeft \in 0..25
                    /\ pc \in Running => CommandsLeft > 0
  OBVIOUS
<1>1. g \in 1..2 /\ c \in 1..3 /\ Len(Groups) = 2 /\ Len(Group.components) = 3
  BY GroupFacts DEF InstallInv, TypeOK
<1>2. pc \in Running \/ pc \notin Running  OBVIOUS
<1> QED BY <1>1, <1>2, FromIs DEF CommandsLeft, Running

LEMMA FewerCommands ==
  InstallInv /\ [Next]_vars => [(pc \in Running) => (CommandsLeft' < CommandsLeft)]_vars
<1> SUFFICES ASSUME InstallInv, Next, pc \in Running
             PROVE  CommandsLeft' < CommandsLeft
  OBVIOUS
<1>1. /\ g \in 1..2 /\ c \in 1..3 /\ Len(Groups) = 2
      /\ Len(Group.components) = 3
  BY GroupFacts DEF InstallInv, TypeOK
<1>2. CASE PushdGroup
  <2>1. /\ pc = "pushdGroup" /\ g' = g /\ c' = 1
        /\ pc' \in {"popdGroup", "pushdComponent"}
    BY <1>2 DEF PushdGroup
  <2> QED BY <1>1, <2>1, FromIs DEF CommandsLeft
<1>3. CASE PushdComponent
  <2>1. pc = "pushdComponent" /\ g' = g /\ c' = c /\ pc' = "build"
    BY <1>3 DEF PushdComponent
  <2> QED BY <1>1, <2>1, FromIs DEF CommandsLeft
<1>4. CASE BuildSucceeds \/ BuildFails
  <2>1. pc = "build" /\ g' = g /\ c' = c /\ pc' = "popdComponent"
    BY <1>4 DEF BuildSucceeds, BuildFails
  <2> QED BY <1>1, <2>1, FromIs DEF CommandsLeft
<1>5. CASE PopdComponent
  <2>1. /\ pc = "popdComponent" /\ g' = g
        /\ \/ c < 3 /\ c' = c + 1 /\ pc' = "pushdComponent"
           \/ c = 3 /\ c' = 3 /\ pc' = "popdGroup"
    BY <1>1, <1>5 DEF PopdComponent
  <2> QED BY <1>1, <2>1, FromIs DEF CommandsLeft
<1>6. CASE PopdGroup
  <2>1. /\ pc = "popdGroup" /\ c' = c
        /\ \/ g = 1 /\ g' = 2 /\ pc' = "pushdGroup"
           \/ pc' = "packagePath"
    BY <1>1, <1>6 DEF PopdGroup
  <2> QED BY <1>1, <2>1, FromIs DEF CommandsLeft
<1>7. CASE WritePackagePath \/ MakeConfigure \/ EnterNginx
  <2>1. \/ pc = "packagePath" /\ pc' = "makeConfigure"
        \/ pc = "makeConfigure" /\ pc' = "enterNginx"
        \/ pc = "enterNginx" /\ pc' \in {"shell", "ended"}
    BY <1>7 DEF WritePackagePath, MakeConfigure, EnterNginx
  <2> QED BY <2>1, FromIs DEF CommandsLeft, Running
<1>8. CASE Interrupt
  <2>1. pc' = "idle"  BY <1>8 DEF Interrupt, Gone
  <2>2. CommandsLeft' = 0  BY <2>1, FromIs DEF CommandsLeft, Running
  <2>3. CommandsLeft > 0  BY CommandsCount
  <2> QED BY <2>2, <2>3
<1>9. CASE Start \/ InstallNginx \/ Leave \/ Lose \/ Restore
  BY <1>9 DEF Start, InstallNginx, Leave, Lose, Restore, Running
<1> QED
  BY <1>2, <1>3, <1>4, <1>5, <1>6, <1>7, <1>8, <1>9 DEF Next, Script

(* A run is over after at most 25 commands, whichever directories are      *)
(* missing and whichever builds fail (install:16-120, 174-316): no command *)
(* leads back to an earlier one.                                           *)
THEOREM RunsAreShort ==
  Spec => /\ [](CommandsLeft \in 0..25 /\ (pc \in Running => CommandsLeft > 0))
          /\ [][(pc \in Running) => (CommandsLeft' < CommandsLeft)]_vars
BY InstallInit, InstallNext, CommandsCount, FewerCommands, PTL DEF Spec
=============================================================================
