---------------------------- MODULE CompileProofs ----------------------------
(* Where the builds of nginx_builder run, what they delete and what they   *)
(* leave, in either mode, for every set of directories that may go         *)
(* missing, and whoever runs it.                                           *)
EXTENDS Compile, SequenceTheorems, TLAPS

(* The names that the script puts together, those of the sources, in the   *)
(* order in which it gets them, and the others.                            *)
Order == <<Redis, Sregex, Drizzle, ModSec, NgxModule, LuaJIT, CJson, LuaSSL,
           Signal, OpenSSL, NGINXV>>
Sources == Built \cup {NgxModule, LuaSSL, OpenSSL, NGINXV}
Plain == {"PARENTF", "/opt/lua_src", "etc_src", "ngx_module", "lua_src",
          "ngx_src", "build", "lib", "src", "include", "modsecurity",
          "cjson.so", "librestysignal.so", LibDir}
Names == Plain \cup Sources

(* How many sources the script is past, and which.                         *)
Before == <<0, 1, 4, 5, 6, 9, 10>>
Done ==
  CASE pc = "idle"                      -> 0
    [] pc = "enter"                     -> Before[f]
    [] pc \in {"get", "pushd", "build"} -> Before[f] + n - 1
    [] pc = "popd"                      -> Before[f] + n
    [] pc = "back"                      -> Before[f] + Len(Part.gets)
    [] OTHER                            -> 11
Past == {Order[i] : i \in 1..Done}

(* The directories that a function may work in: where the Lua sources of a *)
(* run with IS_LOCAL=0 that is not root's go, is not the function's own.   *)
Bases == {PARENTF, OPTLUA, GroupDir(Part.dir)}
Where == IF IsLua(f) THEN LuaSrc(local) ELSE GroupDir(Part.dir)
IsBase(d) == d \in Bases /\ (local \/ root \/ ~IsLua(f) => d = Where)

(* What stands on the directory stack: what the pushd of a build put       *)
(* there, and only between it and its popd.                                *)
Within  == \E d \in Bases : IsBase(d) /\ sh = Shell(Append(d, Item), <<d>>)
Outside == IsBase(sh.cwd) /\ sh.stack = <<>>

(* The place in the script: a function, and one of its calls.              *)
IndexInv ==
  /\ local \in BOOLEAN
  /\ f \in 1..7
  /\ pc \in {"get", "pushd", "build", "popd"} => n \in 1..Len(Part.gets)
  /\ pc = "idle" => f = 1

StackInv ==
  /\ pc \in {"idle", "enter", "configure"} => sh = Outset
  /\ pc \in {"get", "back"} => Outside
  /\ pc = "pushd" => Outside /\ Item \in Built /\ Folder \in fs
  /\ pc = "build" => Within /\ Item \in Built /\ sh.cwd \in fs
  /\ pc = "popd" => IF Item \in Built THEN Within ELSE Outside

PositionInv == IndexInv /\ StackInv

(* What the run built names no source that is still to come, and is there. *)
FreshInv ==
  /\ pc = "idle" => fresh = {}
  /\ fresh \subseteq Seq(Plain \cup Past)
  /\ fresh \subseteq fs
  /\ local \/ root \/ fresh \subseteq Seq(Names \ {LuaJIT})

(* Once its build is behind, what a component left is of this run or gone. *)
Cleaned == {Sregex, Drizzle, Signal}
StaleInv ==
  local => \A c \in Cleaned \cap Past :
             Product(c, Home(c), TRUE) \cap fs \subseteq fresh

(* What the configure line names and no build makes is there, once got.    *)
GotModules == Done >= 5 \/ (pc = "get" /\ f = 3)
GotLuaJIT  == Done >= 6 \/ (Done = 5 /\ pc \in {"pushd", "build"})
HaveInv ==
  /\ GotModules => GroupDir("ngx_module") \in fs
  /\ (local \/ root) /\ GotLuaJIT => LUAJIT2_SRC(local) \in fs
  /\ (local \/ root) /\ Done >= 8 => Append(LuaSrc(local), LuaSSL) \in fs

FilesInv == FreshInv /\ StaleInv /\ HaveInv

-----------------------------------------------------------------------------
(* Names and paths.                                                        *)

LEMMA NameFacts ==
  /\ Plain \cap Sources = {}
  /\ Components \subseteq Sources /\ Redis \in Sources
<1>1. LibDir \notin Sources  BY NameAssumption DEF Sources
<1>2. (Plain \ {LibDir}) \cap Sources = {}
  BY DEF Plain, Sources, Built, Components, Redis, NgxModule, LuaSSL, OpenSSL,
         NGINXV, Sregex, Drizzle, ModSec, LuaJIT, CJson, Signal
<1> QED BY <1>1, <1>2 DEF Sources, Built

LEMMA AppendIn ==
  ASSUME NEW N, NEW s \in Seq(N), NEW a \in N
  PROVE  /\ Append(s, a) \in Seq(N) /\ Len(Append(s, a)) = Len(s) + 1
         /\ Append(s, a)[Len(s) + 1] = a
         /\ \A i \in 1..Len(s) : Append(s, a)[i] = s[i]
  BY AppendProperties

LEMMA SubIn ==
  ASSUME NEW N, NEW s \in Seq(N), NEW a \in N, NEW b \in N
  PROVE  /\ Sub(s, a, b) \in Seq(N) /\ Len(Sub(s, a, b)) = Len(s) + 2
         /\ \A i \in 1..Len(s) : Sub(s, a, b)[i] = s[i]
<1> DEFINE q == Append(s, a)
<1>1. /\ q \in Seq(N) /\ Len(q) = Len(s) + 1
      /\ \A i \in 1..Len(s) : q[i] = s[i]
  BY AppendIn
<1>2. Len(s) \in Nat  OBVIOUS
<1> HIDE DEF q
<1>3. /\ Append(q, b) \in Seq(N) /\ Len(Append(q, b)) = Len(q) + 1
      /\ \A i \in 1..Len(q) : Append(q, b)[i] = q[i]
  BY <1>1, AppendIn
<1>4. \A i \in 1..Len(s) : i \in 1..Len(q)  BY <1>1, <1>2
<1> QED BY <1>1, <1>2, <1>3, <1>4 DEF Sub, q

(* A path has the names of the directories above it.                       *)
LEMMA PrefixNames ==
  ASSUME NEW M, NEW N, NEW s \in Seq(M), NEW t \in Seq(N), IsPrefix(s, t),
         NEW i \in 1..Len(s)
  PROVE  s[i] \in N
<1>1. Len(s) <= Len(t) /\ SubSeq(s, 1, Len(s)) = SubSeq(t, 1, Len(s))
  BY DEF IsPrefix
<1>2. SubSeq(s, 1, Len(s))[i] = s[i]  OBVIOUS
<1>3. SubSeq(t, 1, Len(s))[i] = t[i]  BY <1>1
<1>4. i \in 1..Len(t)  BY <1>1
<1> QED BY <1>1, <1>2, <1>3, <1>4, ElementOfSeq

LEMMA PrefixAppend ==
  ASSUME NEW N, NEW s \in Seq(N), NEW a \in N
  PROVE  IsPrefix(s, s) /\ IsPrefix(s, Append(s, a))
<1> DEFINE t == Append(s, a)
<1>1. /\ t \in Seq(N) /\ Len(t) = Len(s) + 1
      /\ \A i \in 1..Len(s) : t[i] = s[i]
  BY AppendIn
<1>2. Len(s) \in Nat  OBVIOUS
<1> HIDE DEF t
<1> DEFINE u == SubSeq(s, 1, Len(s))
<1> DEFINE v == SubSeq(t, 1, Len(s))
<1>3. /\ u \in Seq(N) /\ Len(u) = Len(s)
      /\ \A i \in 1..Len(s) : u[i] = s[i]
  BY <1>2
<1>4. /\ v \in Seq(N) /\ Len(v) = Len(s)
      /\ \A i \in 1..Len(s) : v[i] = t[i]
  BY <1>1, <1>2
<1> HIDE DEF u, v
<1>5. u = v
  <2>1. \A i \in 1..Len(u) : u[i] = v[i]  BY <1>1, <1>3, <1>4
  <2> QED BY <1>3, <1>4, <2>1, SeqEqual, Zenon
<1> QED BY <1>1, <1>2, <1>5 DEF IsPrefix, t, u, v

LEMMA RootFacts ==
  /\ PARENTF \in Seq({"PARENTF"}) /\ Len(PARENTF) = 1 /\ PARENTF[1] = "PARENTF"
  /\ OPTLUA \in Seq({"/opt/lua_src"}) /\ Len(OPTLUA) = 1
  /\ OPTLUA[1] = "/opt/lua_src"
  BY DEF PARENTF, OPTLUA

LEMMA GroupFacts ==
  ASSUME NEW d
  PROVE  /\ GroupDir(d) \in Seq({"PARENTF", d}) /\ Len(GroupDir(d)) = 2
         /\ GroupDir(d)[1] = "PARENTF" /\ GroupDir(d)[2] = d
<1> DEFINE N == {"PARENTF", d}
<1>1. PARENTF \in Seq(N) /\ d \in N  BY RootFacts, SeqMonotonic
<1> HIDE DEF N
<1>2. /\ Append(PARENTF, d) \in Seq(N)
      /\ Len(Append(PARENTF, d)) = Len(PARENTF) + 1
      /\ Append(PARENTF, d)[Len(PARENTF) + 1] = d
      /\ \A i \in 1..Len(PARENTF) : Append(PARENTF, d)[i] = PARENTF[i]
  BY <1>1, AppendIn
<1> QED BY <1>2, RootFacts DEF GroupDir, N

LEMMA LuaFacts ==
  ASSUME NEW l, NEW N, Plain \subseteq N
  PROVE  LuaSrc(l) \in Seq(N)
<1>1. {"PARENTF", "lua_src", "/opt/lua_src"} \subseteq N  BY DEF Plain
<1>2. GroupDir("lua_src") \in Seq({"PARENTF", "lua_src"})  BY GroupFacts
<1>3. GroupDir("lua_src") \in Seq(N)  BY <1>1, <1>2, SeqMonotonic
<1>4. OPTLUA \in Seq(N)  BY <1>1, RootFacts, SeqMonotonic
<1> QED BY <1>3, <1>4 DEF LuaSrc

LEMMA HomeFacts ==
  ASSUME NEW c \in Components
  PROVE  /\ GroupOf(c) \in {"etc_src", "lua_src"}
         /\ Home(c) \in Seq({"PARENTF", GroupOf(c), c}) /\ Len(Home(c)) = 3
         /\ Home(c)[3] = c
         /\ Home(c) \in Seq(Plain \cup {c})
<1> DEFINE d == GroupOf(c)
<1> DEFINE s == GroupDir(d)
<1>1. d \in {"etc_src", "lua_src"}  BY DEF GroupOf
<1> HIDE DEF d
<1>2. s \in Seq({"PARENTF", d}) /\ Len(s) = 2  BY GroupFacts
<1> HIDE DEF s
<1>3. s \in Seq({"PARENTF", d, c})  BY <1>2, SeqMonotonic
<1>4. c \in {"PARENTF", d, c}  OBVIOUS
<1>5. /\ Append(s, c) \in Seq({"PARENTF", d, c})
      /\ Len(Append(s, c)) = Len(s) + 1 /\ Append(s, c)[Len(s) + 1] = c
  BY <1>3, <1>4, AppendIn, Zenon
<1>6. {"PARENTF", d, c} \subseteq Plain \cup {c}  BY <1>1 DEF Plain
<1>7. Append(s, c) \in Seq(Plain \cup {c})
  BY <1>5, <1>6, SeqMonotonic, Zenon
<1> QED BY <1>1, <1>2, <1>5, <1>7 DEF Home, d, s

(* What a build installs is named for it, and for nothing else got.        *)
LEMMA ProductNames ==
  ASSUME NEW c \in Built, NEW l \in BOOLEAN, NEW d \in Seq(Plain \cup {c})
  PROVE  Product(c, d, l) \subseteq Seq(Plain \cup {c})
<1> DEFINE N == Plain \cup {c}
<1>1. {"PARENTF", "/opt/lua_src", "lua_src", "build", "lib", LibDir,
       "include", "modsecurity", "cjson.so", "librestysignal.so", c} \subseteq N
  BY DEF Plain
<1> HIDE DEF N
<1>2. d \in Seq(N)  BY DEF N
<1>3. Append(d, "cjson.so") \in Seq(N) /\ Append(d, "librestysignal.so") \in Seq(N)
  BY <1>1, <1>2, AppendIn
<1>4. ASSUME c \in Components
      PROVE  \A x \in {"lib", LibDir, "include"} : Sub(Home(c), "build", x) \in Seq(N)
  <2>1. Home(c) \in Seq(N)  BY <1>4, HomeFacts DEF N
  <2> QED BY <1>1, <2>1, SubIn
<1>5. \A x \in {LibDir, "include"} : Sub(BUILDF, "modsecurity", x) \in Seq(N)
  <2>1. BUILDF \in Seq({"PARENTF", "build"})  BY GroupFacts DEF BUILDF, GroupDir
  <2>2. BUILDF \in Seq(N)  BY <1>1, <2>1, SeqMonotonic
  <2> QED BY <1>1, <2>2, SubIn
<1>6. ASSUME c = LuaJIT
      PROVE  Sub(Append(LuaSrc(l), LuaJIT), "build", "lib") \in Seq(N)
  <2>1. Plain \subseteq N  BY DEF N
  <2>2. LuaSrc(l) \in Seq(N)  BY <2>1, LuaFacts
  <2>3. Append(LuaSrc(l), LuaJIT) \in Seq(N)  BY <1>1, <1>6, <2>2, AppendIn
  <2> QED BY <1>1, <2>3, SubIn
<1>7. CASE c = Redis
  <2>1. Product(c, d, l) = {}
    BY <1>7 DEF Product, Redis, Sregex, Drizzle, ModSec, LuaJIT, CJson, Signal
  <2> QED BY <2>1
<1>8. CASE c \in Components
  <2>1. Product(c, d, l) \subseteq
          {Sub(Home(c), "build", "lib"), Sub(Home(c), "build", LibDir),
           Sub(Home(c), "build", "include"),
           Sub(BUILDF, "modsecurity", LibDir), Sub(BUILDF, "modsecurity", "include"),
           Append(d, "cjson.so"), Append(d, "librestysignal.so")}
          \cup {p \in {Sub(Append(LuaSrc(l), LuaJIT), "build", "lib")} : c = LuaJIT}
    BY <1>8 DEF Product, Components
  <2>2. {p \in {Sub(Append(LuaSrc(l), LuaJIT), "build", "lib")} : c = LuaJIT}
          \subseteq Seq(N)
    BY <1>6
  <2> QED BY <1>3, <1>4, <1>5, <1>8, <2>1, <2>2 DEF N
<1> QED BY <1>7, <1>8 DEF Built

(* What IS_LOCAL=1 leaves of a component names it.                         *)
LEMMA OwnProduct ==
  ASSUME NEW c \in Cleaned, NEW N, c \notin N
  PROVE  Product(c, Home(c), TRUE) \cap Seq(N) = {}
<1>1. c \in Components  BY DEF Cleaned, Components
<1> DEFINE h == Home(c)
<1> DEFINE M == Names
<1>2. Len(h) = 3 /\ h[3] = c /\ h \in Seq(M)
  <2>1. Plain \cup {c} \subseteq M  BY <1>1, NameFacts DEF Names
  <2> QED BY <1>1, <2>1, HomeFacts, SeqMonotonic
<1>3. {"build", "lib", LibDir, "include", "librestysignal.so"} \subseteq M
  BY DEF Names, Plain
<1>4. Product(c, h, TRUE) \subseteq
        {Sub(h, "build", "lib"), Sub(h, "build", LibDir), Sub(h, "build", "include"),
         Append(h, "librestysignal.so")}
  BY DEF Cleaned, Product, Sregex, Drizzle, ModSec, LuaJIT, CJson, Signal
<1> HIDE DEF h, M
<1>5. ASSUME NEW q \in {Sub(h, "build", "lib"), Sub(h, "build", LibDir),
                        Sub(h, "build", "include"), Append(h, "librestysignal.so")}
      PROVE  Len(q) >= 3 /\ q[3] = c
  <2>1. 3 \in 1..Len(h)  BY <1>2
  <2>2. CASE q = Append(h, "librestysignal.so")
    <3>1. h \in Seq(M) /\ "librestysignal.so" \in M  BY <1>2, <1>3
    <3> DEFINE r == Append(h, "librestysignal.so")
    <3>2. Len(r) = Len(h) + 1 /\ \A i \in 1..Len(h) : r[i] = h[i]
      BY <3>1, AppendIn
    <3>3. Len(q) = Len(h) + 1 /\ \A i \in 1..Len(h) : q[i] = h[i]
      BY <2>2, <3>2, Zenon
    <3> HIDE DEF r
    <3> QED BY <1>2, <2>1, <3>3
  <2>3. CASE \E x \in {"lib", LibDir, "include"} : q = Sub(h, "build", x)
    <3>1. PICK x \in M : q = Sub(h, "build", x)  BY <1>3, <2>3
    <3>2. h \in Seq(M) /\ "build" \in M  BY <1>2, <1>3
    <3>3. /\ Len(Sub(h, "build", x)) = Len(h) + 2
          /\ \A i \in 1..Len(h) : Sub(h, "build", x)[i] = h[i]
      BY <3>2, SubIn
    <3>4. Len(q) = Len(h) + 2 /\ \A i \in 1..Len(h) : q[i] = h[i]
      BY <3>1, <3>3, Zenon
    <3> QED BY <1>2, <2>1, <3>4
  <2> QED BY <2>2, <2>3
<1>6. ASSUME NEW q \in Seq(N), Len(q) >= 3  PROVE q[3] \in N
  <2>1. 3 \in 1..Len(q)  BY <1>6
  <2> QED BY <2>1, ElementOfSeq
<1> QED BY <1>4, <1>5, <1>6 DEF h
-----------------------------------------------------------------------------
(* Where the script stands.                                                *)

LEMMA PlaceFacts ==
  ASSUME NEW i \in 1..7
  PROVE  /\ Len(Parts) = 7 /\ Len(Parts[i].gets) \in 1..3
         /\ Parts[i].dir \in {"etc_src", "ngx_module", "lua_src", "ngx_src"}
         /\ Before[i] \in 0..10 /\ Before[i] + Len(Parts[i].gets) \in 1..11
         /\ i < 7 => Before[i + 1] = Before[i] + Len(Parts[i].gets)
         /\ i = 7 => Before[i] + Len(Parts[i].gets) = 11
         /\ \A j \in 1..Len(Parts[i].gets) :
              /\ Order[Before[i] + j] = Parts[i].gets[j]
              /\ Parts[i].gets[j] \in Components =>
                   Parts[i].dir = GroupOf(Parts[i].gets[j])
<1>1. Len(Parts) = 7  BY DEF Parts
<1> USE <1>1 DEF Before, Order, Components, GroupOf, Redis, NgxModule, LuaSSL,
                 OpenSSL, NGINXV, Sregex, Drizzle, ModSec, LuaJIT, CJson, Signal
<1>2. i \in {1, 2, 3, 4, 5, 6, 7}  OBVIOUS
<1>3. CASE i = 1
  <2>1. Parts[1] = [dir |-> "etc_src", gets |-> <<Redis>>]  BY DEF Parts
  <2> QED BY <1>3, <2>1
<1>4. CASE i = 2
  <2>1. Parts[2] = [dir |-> "etc_src", gets |-> <<Sregex, Drizzle, ModSec>>]
    BY DEF Parts
  <2> QED BY <1>4, <2>1
<1>5. CASE i = 3
  <2>1. Parts[3] = [dir |-> "ngx_module", gets |-> <<NgxModule>>]  BY DEF Parts
  <2> QED BY <1>5, <2>1
<1>6. CASE i = 4
  <2>1. Parts[4] = [dir |-> "lua_src", gets |-> <<LuaJIT>>]  BY DEF Parts
  <2> QED BY <1>6, <2>1
<1>7. CASE i = 5
  <2>1. Parts[5] = [dir |-> "lua_src", gets |-> <<CJson, LuaSSL, Signal>>]
    BY DEF Parts
  <2> QED BY <1>7, <2>1
<1>8. CASE i = 6
  <2>1. Parts[6] = [dir |-> "etc_src", gets |-> <<OpenSSL>>]  BY DEF Parts
  <2> QED BY <1>8, <2>1
<1>9. CASE i = 7
  <2>1. Parts[7] = [dir |-> "ngx_src", gets |-> <<NGINXV>>]  BY DEF Parts
  <2> QED BY <1>9, <2>1
<1> QED BY <1>2, <1>3, <1>4, <1>5, <1>6, <1>7, <1>8, <1>9

LEMMA OrderFacts ==
  /\ \A i \in 1..11 : Order[i] \in Sources
  /\ \A i, j \in 1..11 : Order[i] = Order[j] => i = j
<1> USE DEF Order, Redis, NgxModule, LuaSSL, OpenSSL, NGINXV, Sregex, Drizzle,
            ModSec, LuaJIT, CJson, Signal
<1>1. \A i \in 1..11 : Order[i] \in Sources  BY DEF Sources, Built, Components
<1>2. \A i, j \in 1..11 : Order[i] = Order[j] => i = j  OBVIOUS
<1> QED BY <1>1, <1>2

(* The source that is got or built is the first that is not past.          *)
LEMMA DoneFacts ==
  ASSUME IndexInv
  PROVE  /\ Done \in 0..11
         /\ pc = "idle" => Done = 0
         /\ pc \in {"get", "pushd", "build"} =>
              /\ Done \in 0..10 /\ Item = Order[Done + 1]
              /\ Done = 4 => f = 3
              /\ Done \in {5, 7} => IsLua(f)
<1>1. /\ Len(Parts[f].gets) \in 1..3 /\ Before[f] \in 0..10
      /\ Before[f] + Len(Parts[f].gets) \in 1..11
      /\ \A j \in 1..Len(Parts[f].gets) : Order[Before[f] + j] = Parts[f].gets[j]
  BY PlaceFacts DEF IndexInv
<1>2. Part = Parts[f] /\ Item = Part.gets[n]  BY DEF Part, Item
<1>3. CASE pc \in {"get", "pushd", "build", "popd"}
  <2> DEFINE L == Len(Parts[f].gets)
  <2> DEFINE b == Before[f]
  <2>1. n \in 1..L /\ L \in 1..3 /\ b \in 0..10 /\ b + L \in 1..11
        /\ Order[b + n] = Item
    BY <1>1, <1>2, <1>3 DEF IndexInv
  <2>2. Done = IF pc = "popd" THEN b + n ELSE b + n - 1  BY <1>3 DEF Done
  <2>3. (b + n - 1 = 4 => f = 3) /\ (b + n - 1 \in {5, 7} => f \in {4, 5})
    <3>1. f \in {1, 2, 3, 4, 5, 6, 7}  BY DEF IndexInv
    <3>2. \A i \in 1..7 : i < 7 => Before[i + 1] = Before[i] + Len(Parts[i].gets)
      BY PlaceFacts
    <3>3. b = Before[f] /\ (f < 7 => b + L = Before[f + 1])
      BY <3>1, <3>2
    <3>4. /\ Before[1] = 0 /\ Before[2] = 1 /\ Before[3] = 4 /\ Before[4] = 5
          /\ Before[5] = 6 /\ Before[6] = 9 /\ Before[7] = 10
      BY DEF Before
    <3> HIDE DEF L, b
    <3> QED BY <2>1, <3>1, <3>3, <3>4
  <2>4. f \in {4, 5} => IsLua(f)
    BY DEF IsLua, Parts
  <2> HIDE DEF L, b, Done
  <2>5. b + n - 1 \in 0..10 /\ b + n \in 0..11 /\ (b + n - 1) + 1 = b + n
    BY <2>1
  <2> QED BY <1>3, <2>1, <2>2, <2>3, <2>4, <2>5
<1>4. CASE pc \notin {"get", "pushd", "build", "popd"}
  BY <1>1, <1>2, <1>4 DEF Done
<1> QED BY <1>3, <1>4

LEMMA ItemToCome ==
  ASSUME IndexInv, pc \in {"get", "pushd", "build"}
  PROVE  /\ Item \in Sources /\ Item \notin Plain \cup Past
         /\ Past \subseteq Sources
<1> DEFINE d == Done
<1>1. d \in 0..10 /\ Item = Order[d + 1]  BY DoneFacts
<1> HIDE DEF d
<1>2. Item \in Sources  BY <1>1, OrderFacts
<1>3. \A i \in 1..d : i \in 1..11 /\ i # d + 1 /\ d + 1 \in 1..11  BY <1>1
<1>4. \A i \in 1..d : Order[i] # Item /\ Order[i] \in Sources
  BY <1>1, <1>3, OrderFacts
<1> QED BY <1>2, <1>4, NameFacts DEF Past, d

LEMMA BaseFacts ==
  ASSUME IndexInv, NEW d, IsBase(d)
  PROVE  /\ d \in Seq(Plain)
         /\ local => d = GroupDir(Part.dir) /\ d \in Seq(Plain \ {"/opt/lua_src"})
<1> DEFINE P == Plain \ {"/opt/lua_src"}
<1> DEFINE e == GroupDir(Part.dir)
<1>1. Part.dir \in {"etc_src", "ngx_module", "lua_src", "ngx_src"}
  BY PlaceFacts DEF IndexInv, Part
<1>2. {"PARENTF", Part.dir} \subseteq P  BY <1>1 DEF Plain
<1>3. e \in Seq({"PARENTF", Part.dir})  BY GroupFacts
<1>4. e \in Seq(P) /\ P \subseteq Plain  BY <1>2, <1>3, SeqMonotonic
<1>5. "PARENTF" \in Plain /\ "/opt/lua_src" \in Plain  BY DEF Plain
<1>6. PARENTF \in Seq(Plain) /\ OPTLUA \in Seq(Plain)
  BY <1>5, RootFacts, SeqMonotonic
<1>7. e \in Seq(Plain)  BY <1>4, SeqMonotonic
<1>8. local => d = e
  BY DEF IsBase, Where, IsLua, LuaSrc, Part
<1> QED BY <1>4, <1>6, <1>7, <1>8 DEF IsBase, Bases

(* mkdir and cd, in the three forms they have, keep the stack empty.       *)
LEMMA EnterPosition == PositionInv /\ Enter => PositionInv'
<1> SUFFICES ASSUME PositionInv, Enter PROVE PositionInv'  OBVIOUS
<1> USE DEF PositionInv, IndexInv, Enter
<1>1. f \in 1..7 /\ f' = f /\ n' = 1 /\ pc' = "get" /\ sh = Outset
      /\ UNCHANGED <<local, root>>
  BY DEF StackInv, flags
<1>2. n' \in 1..Len(Part'.gets)
  <2> DEFINE L == Len(Parts[f].gets)
  <2>1. L \in 1..3  BY <1>1, PlaceFacts
  <2> HIDE DEF L
  <2>2. 1 \in 1..L  BY <2>1
  <2> QED BY <1>1, <2>2 DEF Part, L
<1>3. \E d \in Bases : IsBase(d) /\ sh' = Shell(d, <<>>)
  <2>1. sh.cwd = PARENTF /\ sh.stack = <<>> /\ sh = Shell(PARENTF, <<>>)
    BY <1>1 DEF Outset, Shell
  <2>2. CASE IsLua(f) /\ local
    <3>1. Append(PARENTF, "lua_src") \in fs'  BY <2>1, <2>2 DEF EnterLua
    <3>2. sh' = Shell(GroupDir("lua_src"), <<>>)
      BY <2>1, <2>2, <3>1 DEF EnterLua, Cd, GroupDir
    <3>3. Part.dir = "lua_src"  BY <2>2 DEF IsLua, Part
    <3> QED BY <2>2, <3>2, <3>3 DEF IsBase, Bases, Where, LuaSrc
  <2>3. CASE IsLua(f) /\ ~local /\ root
    <3>1. sh' = Shell(OPTLUA, <<>>)  BY <2>1, <2>3 DEF EnterLua
    <3> QED BY <2>3, <3>1 DEF IsBase, Bases, Where, LuaSrc
  <2>4. CASE IsLua(f) /\ ~local /\ ~root
    <3>1. sh' \in {Shell(OPTLUA, <<>>), Shell(PARENTF, <<>>)}
      BY <2>1, <2>4 DEF EnterLua
    <3> QED BY <2>4, <3>1 DEF IsBase, Bases
  <2>5. CASE ~IsLua(f)
    <3>1. Append(PARENTF, Part.dir) \in fs'  BY <2>1, <2>5 DEF EnterPlain
    <3>2. sh' = Shell(GroupDir(Part.dir), <<>>)
      BY <2>1, <2>5, <3>1 DEF EnterPlain, Cd, GroupDir
    <3> QED BY <2>5, <3>2 DEF IsBase, Bases, Where
  <2> QED BY <2>2, <2>3, <2>4, <2>5
<1>4. Outside'
  <2>1. PICK d \in Bases : IsBase(d) /\ sh' = Shell(d, <<>>)  BY <1>3
  <2>2. sh'.cwd = d /\ sh'.stack = <<>>  BY <2>1 DEF Shell
  <2> QED BY <1>1, <2>1, <2>2 DEF Outside, IsBase, Bases, Where, Part
<1> QED BY <1>1, <1>2, <1>4 DEF StackInv

LEMMA GetPosition == PositionInv /\ Get => PositionInv'
<1> SUFFICES ASSUME PositionInv, Get PROVE PositionInv'  OBVIOUS
<1> USE DEF PositionInv, IndexInv, Get
<1>1. CASE Over  BY <1>1 DEF Over, flags, StackInv
<1>2. CASE ~Over
  <2>1. /\ UNCHANGED <<f, n, sh, local, root>> /\ Folder \in fs'
        /\ pc' = IF Item \in Built THEN "pushd" ELSE "popd"
    BY <1>2 DEF Contents, flags
  <2>2. Part' = Part /\ Item' = Item /\ Folder' = Folder
    BY <2>1 DEF Part, Item, Folder
  <2>3. Outside'
    BY <2>1, <2>2 DEF StackInv, Outside, IsBase, Bases, Where
  <2> QED BY <2>1, <2>2, <2>3 DEF StackInv
<1> QED BY <1>1, <1>2

(* The folder is there, so the pushd goes to it.                           *)
LEMMA PushdPosition == PositionInv /\ PushdItem => PositionInv'
<1> SUFFICES ASSUME PositionInv, PushdItem PROVE PositionInv'  OBVIOUS
<1> USE DEF PositionInv, IndexInv, PushdItem
<1>1. Outside /\ Item \in Built /\ Folder \in fs  BY DEF StackInv
<1>2. Part' = Part /\ Item' = Item /\ UNCHANGED <<f, local, root, fs>>
  BY DEF Part, Item, flags, files
<1>3. <<sh.cwd>> \o <<>> = <<sh.cwd>>  OBVIOUS
<1>4. sh' = Shell(Folder, <<sh.cwd>>)
  BY <1>1, <1>3 DEF Pushd, Folder, Outside
<1>5. Within'
  <2>1. sh.cwd \in Bases' /\ IsBase(sh.cwd)
    BY <1>1, <1>2 DEF Outside, IsBase, Bases
  <2> DEFINE d == sh.cwd
  <2>2. d \in Bases' /\ (local' \/ root' \/ ~IsLua(f') => d = Where')
        /\ sh' = Shell(Append(d, Item'), <<d>>)
    BY <1>2, <1>4, <2>1 DEF Folder, IsBase, Where
  <2> HIDE DEF d
  <2> QED BY <2>2 DEF Within, IsBase
<1>6. sh'.cwd = Folder  BY <1>4 DEF Shell
<1> QED BY <1>1, <1>2, <1>5, <1>6 DEF StackInv

LEMMA BuildPosition ==
  PositionInv /\ (BuildSucceeds \/ BuildFails) => PositionInv'
<1> SUFFICES ASSUME PositionInv, BuildSucceeds \/ BuildFails PROVE PositionInv'
  OBVIOUS
<1>1. pc = "build" /\ pc' = "popd" /\ UNCHANGED <<f, n, sh, local, root>>
  BY DEF BuildSucceeds, BuildFails, flags
<1>2. Part' = Part /\ Item' = Item  BY <1>1 DEF Part, Item
<1>3. Within => Within'
  BY <1>1, <1>2 DEF Within, Bases, IsBase, Where
<1> QED BY <1>1, <1>2, <1>3 DEF PositionInv, IndexInv, StackInv

LEMMA ReturnPosition == PositionInv /\ Return => PositionInv'
<1> SUFFICES ASSUME PositionInv, Return PROVE PositionInv'  OBVIOUS
<1> USE DEF PositionInv, IndexInv, Return
<1>1. Part' = Part /\ UNCHANGED <<f, local, root>>  BY DEF Part, flags
<1>2. IsBase(sh'.cwd) /\ sh'.stack = <<>>
  <2>1. CASE Item \in Built
    <3>1. PICK d \in Bases : IsBase(d) /\ sh = Shell(Append(d, Item), <<d>>)
      BY <2>1 DEF StackInv, Within
    <3>2. <<d>> # <<>> /\ Head(<<d>>) = d /\ Tail(<<d>>) = <<>>  OBVIOUS
    <3>3. sh' = Shell(d, <<>>)  BY <2>1, <3>1, <3>2 DEF Popd, Shell
    <3> QED BY <3>1, <3>3 DEF Shell
  <2>2. CASE Item \notin Built  BY <2>2 DEF StackInv, Outside
  <2> QED BY <2>1, <2>2
<1>3. Outside'  BY <1>1, <1>2 DEF Outside, IsBase, Bases, Where
<1>4. pc' = "get" => n' \in 1..Len(Part.gets)
  <2>1. n \in 1..Len(Part.gets) /\ Len(Part.gets) \in 1..3
    BY PlaceFacts DEF Part
  <2> QED BY <2>1
<1>5. pc' \in {"get", "back"} /\ f' = f  OBVIOUS
<1> QED BY <1>1, <1>3, <1>4, <1>5 DEF StackInv

LEMMA BackPosition == PositionInv /\ Back => PositionInv'
<1> SUFFICES ASSUME PositionInv, Back PROVE PositionInv'  OBVIOUS
<1> USE DEF PositionInv, IndexInv, Back
<1>1. sh' = Outset  BY DEF StackInv, Outside, Outset
<1>2. f' \in 1..7 /\ pc' \in {"enter", "configure"}
  <2>1. Len(Parts) = 7  BY PlaceFacts
  <2> QED BY <2>1
<1> QED BY <1>1, <1>2 DEF StackInv, Outset, flags

LEMMA PositionNext == PositionInv /\ [Next]_vars => PositionInv'
<1> SUFFICES ASSUME PositionInv, [Next]_vars PROVE PositionInv'  OBVIOUS
<1>1. CASE Start
  BY <1>1 DEF Start, files, PositionInv, IndexInv, StackInv, Outset
<1>2. CASE MakeConfigure
  BY <1>2 DEF flags, MakeConfigure, PositionInv, IndexInv, StackInv
<1>3. CASE Gone  BY <1>3 DEF flags, Gone, Over, PositionInv, IndexInv, StackInv
<1>4. CASE Lose  BY <1>4 DEF flags, Lose, PositionInv, IndexInv, StackInv
<1>5. CASE UNCHANGED vars
  BY <1>5 DEF vars, files, flags, PositionInv, IndexInv, StackInv, Within,
              Outside, Bases, IsBase, Where, Part, Item, Folder
<1> QED
  BY <1>1, <1>2, <1>3, <1>4, <1>5, EnterPosition, GetPosition, PushdPosition,
     BuildPosition, ReturnPosition, BackPosition DEF Next, Script

(* Every build of nginx_builder, and the rm -rf build before it, runs in   *)
(* the folder it is meant for, and every function begins in $PARENTF with  *)
(* an empty stack: whatever was missing, failed or was killed              *)
(* (nginx_builder:240-325, 362-455).                                       *)
THEOREM BuildsAtHome == Spec => []ShellPosition
<1>1. Init => PositionInv
  BY CompileAssumption DEF Init, PositionInv, IndexInv, StackInv
<1>2. PositionInv => ShellPosition
  <2> SUFFICES ASSUME PositionInv PROVE ShellPosition  OBVIOUS
  <2>1. pc = "build" => Last(sh.cwd) = Item
    <3> SUFFICES ASSUME pc = "build" PROVE Last(sh.cwd) = Item  OBVIOUS
    <3>1. PICK d \in Bases : IsBase(d) /\ sh = Shell(Append(d, Item), <<d>>)
      BY DEF PositionInv, StackInv, Within
    <3>2. d \in Seq(Names) /\ Item \in Names
      BY <3>1, BaseFacts, ItemToCome, SeqMonotonic DEF PositionInv, Names
    <3>3. sh.cwd = Append(d, Item)  BY <3>1 DEF Shell
    <3> QED BY <3>2, <3>3, AppendIn DEF Last
  <2> QED BY <2>1 DEF PositionInv, StackInv, ShellPosition, Outside
<1> QED BY <1>1, <1>2, PositionNext, PTL DEF Spec
-----------------------------------------------------------------------------
(* What the builds delete and leave.                                       *)

(* A build deletes below its own folder only: nothing that does not name   *)
(* the component being built.                                              *)
LEMMA BuildKeeps ==
  ASSUME PositionInv, BuildSucceeds \/ BuildFails, NEW N,
         Item \notin N \/ Wipes(Item) = {}, NEW q \in fs, q \in Seq(N)
  PROVE  q \in Prepared(Item, sh.cwd)
<1>1. pc = "build"  BY DEF BuildSucceeds, BuildFails
<1>2. PICK d \in Bases : IsBase(d) /\ sh = Shell(Append(d, Item), <<d>>)
  BY <1>1 DEF PositionInv, StackInv, Within
<1>3. d \in Seq(Names) /\ Item \in Names
  BY <1>1, <1>2, BaseFacts, ItemToCome, SeqMonotonic DEF PositionInv, Names
<1> DEFINE e == Append(d, Item)
<1>4. sh.cwd = e  BY <1>2 DEF Shell
<1>5. ASSUME NEW w \in Wipes(Item), IsPrefix(Append(e, w), q)  PROVE FALSE
  <2>1. w \in Names  BY DEF Wipes, Names, Plain
  <2>2. e \in Seq(Names) /\ Len(e) = Len(d) + 1 /\ e[Len(d) + 1] = Item
    BY <1>3, AppendIn
  <2>3. Len(d) \in Nat  BY <1>3
  <2> HIDE DEF e
  <2> DEFINE r == Append(e, w)
  <2>4. r \in Seq(Names) /\ Len(r) = Len(e) + 1 /\ \A i \in 1..Len(e) : r[i] = e[i]
    BY <2>1, <2>2, AppendIn
  <2>5. IsPrefix(r, q)  BY <1>5
  <2> HIDE DEF r
  <2>6. Len(d) + 1 \in 1..Len(r) /\ r[Len(d) + 1] = Item  BY <2>2, <2>3, <2>4
  <2>7. r[Len(d) + 1] \in N  BY <2>4, <2>5, <2>6, PrefixNames
  <2> QED BY <1>5, <2>6, <2>7
<1> HIDE DEF e
<1>6. \A w \in Wipes(Item) : q \notin Under(Append(e, w), fs)
  BY <1>5 DEF Under
<1> QED BY <1>4, <1>6 DEF Prepared

(* What a step adds to what exists names no source but the one it is at.   *)
LEMMA BuildAdds ==
  ASSUME PositionInv, BuildSucceeds \/ BuildFails
  PROVE  /\ fs' \subseteq fs \cup Seq(Plain \cup {Item})
         /\ fresh \subseteq fresh'
         /\ fresh' = fresh \/ (/\ BuildSucceeds
                              /\ fresh' = fresh \cup Product(Item, sh.cwd, local)
                              /\ Product(Item, sh.cwd, local) \subseteq fs')
         /\ Product(Item, sh.cwd, local) \subseteq Seq(Plain \cup {Item})
<1>1. pc = "build" /\ Item \in Built
  BY DEF BuildSucceeds, BuildFails, PositionInv, StackInv
<1>2. PICK d \in Bases : IsBase(d) /\ sh = Shell(Append(d, Item), <<d>>)
  BY <1>1 DEF PositionInv, StackInv, Within
<1> DEFINE N == Plain \cup {Item}
<1>3. d \in Seq(N) /\ Item \in N /\ "build" \in N
  BY <1>2, BaseFacts, SeqMonotonic DEF PositionInv, Plain
<1>4. sh.cwd = Append(d, Item)  BY <1>2 DEF Shell
<1>5. sh.cwd \in Seq(N)  BY <1>3, <1>4, AppendIn
<1>6. Append(sh.cwd, "build") \in Seq(N)  BY <1>3, <1>5, AppendIn
<1>7. local \in BOOLEAN  BY DEF PositionInv, IndexInv
<1>8. Product(Item, sh.cwd, local) \subseteq Seq(N)
  BY <1>1, <1>5, <1>7, ProductNames
<1> HIDE DEF N
<1>9. Prepared(Item, sh.cwd) \subseteq fs \cup Seq(N)  BY <1>6 DEF Prepared
<1> QED BY <1>8, <1>9 DEF BuildSucceeds, BuildFails, N

(* With IS_LOCAL=1 what a run before left of sregex, drizzle or            *)
(* resty-signal is deleted before make.                                    *)
LEMMA OwnDeleted ==
  ASSUME PositionInv, pc = "build", local, Item \in Cleaned
  PROVE  /\ sh.cwd = Home(Item)
         /\ Product(Item, Home(Item), TRUE) \cap Prepared(Item, Home(Item)) = {}
<1>1. PICK d \in Bases : IsBase(d) /\ sh = Shell(Append(d, Item), <<d>>)
  BY DEF PositionInv, StackInv, Within
<1>2. Item \in Components  BY DEF Cleaned, Components
<1>3. sh.cwd = Home(Item)
  <2>1. Part.dir = GroupOf(Item)
    BY <1>2, PlaceFacts DEF PositionInv, IndexInv, Part, Item
  <2>2. d = GroupDir(Part.dir)  BY <1>1, BaseFacts DEF PositionInv
  <2> QED BY <1>1, <2>1, <2>2 DEF Home, Shell
<1> DEFINE h == Home(Item)
<1>4. h \in Seq(Names) /\ h \in Seq(Names \ {"/opt/lua_src"}) /\ Len(h) = 3
  <2>1. /\ h \in Seq({"PARENTF", GroupOf(Item), Item}) /\ Len(h) = 3
        /\ GroupOf(Item) \in {"etc_src", "lua_src"}
    BY <1>2, HomeFacts
  <2>2. Item \in Names /\ Item # "/opt/lua_src"
    BY <1>2, NameFacts DEF Names, Plain
  <2>3. {"PARENTF", GroupOf(Item), Item} \subseteq Names \ {"/opt/lua_src"}
    BY <2>1, <2>2 DEF Names, Plain
  <2>4. Names \ {"/opt/lua_src"} \subseteq Names  OBVIOUS
  <2> HIDE DEF h
  <2>5. h \in Seq(Names \ {"/opt/lua_src"})  BY <2>1, <2>3, SeqMonotonic
  <2> QED BY <2>1, <2>4, <2>5, SeqMonotonic
<1>5. {"build", "lib", LibDir, "include", "librestysignal.so"} \subseteq Names
  BY DEF Names, Plain
<1>6. Writable
  <2> SUFFICES ASSUME IsPrefix(OPTLUA, h) PROVE FALSE  BY <1>3 DEF Writable
  <2> HIDE DEF h
  <2>1. 1 \in 1..Len(OPTLUA)  BY RootFacts
  <2>2. OPTLUA[1] \in Names \ {"/opt/lua_src"}
    BY <1>4, <2>1, RootFacts, PrefixNames
  <2> QED BY <2>2, RootFacts
<1> HIDE DEF h
<1>7. ASSUME NEW q \in Product(Item, h, TRUE), q \in Prepared(Item, h)
      PROVE  FALSE
  <2> DEFINE b == Append(h, "build")
  <2> DEFINE r == Append(h, "librestysignal.so")
  <2>1. b \in Seq(Names) /\ Len(b) = 4 /\ r \in Seq(Names)
    <3>1. ASSUME NEW a \in Names
          PROVE  Append(h, a) \in Seq(Names) /\ Len(Append(h, a)) = Len(h) + 1
      <4>1. h \in Seq(Names)  BY <1>4
      <4> QED BY <4>1, AppendIn
    <3>2. "build" \in Names /\ "librestysignal.so" \in Names  BY <1>5
    <3> QED BY <1>4, <3>1, <3>2
  <2>2. CASE Item \in {Sregex, Drizzle}
    <3>1. PICK x \in {"lib", LibDir, "include"} : q = Sub(h, "build", x)
      BY <1>7, <2>2
      DEF h, Product, Sregex, Drizzle, ModSec, LuaJIT, CJson, Signal
    <3>2. q = Append(b, x)  BY <3>1 DEF Sub
    <3>3. x \in Names  BY <1>5, <3>1
    <3> HIDE DEF b
    <3>4. IsPrefix(b, q) /\ Len(q) = 5
      <4>1. IsPrefix(b, Append(b, x))  BY <2>1, <3>3, PrefixAppend
      <4>2. b \in Seq(Names)  BY <2>1
      <4>3. Len(Append(b, x)) = Len(b) + 1  BY <3>3, <4>2, AppendIn, Zenon
      <4> QED BY <2>1, <3>2, <4>1, <4>3
    <3>5. q # b
      <4>1. Len(b) = 4 /\ Len(q) = 5  BY <2>1, <3>4
      <4>2. q = b => Len(q) = Len(b)  OBVIOUS
      <4> QED BY <4>1, <4>2
    <3>6. Wipes(Item) = {"build"}  BY <2>2 DEF Wipes, Sregex, Drizzle, Signal
    <3>7. q \in fs \ Under(b, fs)
      BY <1>3, <1>6, <1>7, <3>5, <3>6 DEF Prepared, b
    <3> QED BY <3>4, <3>7 DEF Under
  <2>3. CASE Item = Signal
    <3>1. q = r
      BY <1>7, <2>3
      DEF h, Product, Sregex, Drizzle, ModSec, LuaJIT, CJson, Signal
    <3>2. Wipes(Item) = {"librestysignal.so"} /\ Item \notin MakesBuildDir
      BY <2>3 DEF Wipes, MakesBuildDir, Sregex, Drizzle, LuaJIT, Signal
    <3>3. q \in fs \ Under(r, fs)
      BY <1>3, <1>6, <1>7, <3>2 DEF Prepared
    <3> HIDE DEF r
    <3>4. IsPrefix(r, r)
      <4>1. "build" \in Names  BY <1>5
      <4> QED BY <2>1, <4>1, PrefixAppend
    <3> QED BY <3>1, <3>3, <3>4 DEF Under
  <2> QED BY <2>2, <2>3 DEF Cleaned
<1> QED BY <1>3, <1>7 DEF h

-----------------------------------------------------------------------------
(* How what was built, what is stale and what was got change.              *)

LEMMA FreshKept ==
  ASSUME FreshInv, UNCHANGED <<fresh, local, root>>, pc' # "idle",
         fs \subseteq fs', Past \subseteq Past'
  PROVE  FreshInv'
<1>1. Plain \cup Past \subseteq Plain \cup Past'  OBVIOUS
<1>2. \A q \in fresh : q \in Seq(Plain \cup Past')
  BY <1>1, SeqMonotonic DEF FreshInv
<1> QED BY <1>2 DEF FreshInv

LEMMA StaleKept ==
  ASSUME StaleInv, UNCHANGED local, fresh \subseteq fresh',
         NEW N, Cleaned \cap Past \cap N = {}, fs' \subseteq fs \cup Seq(N),
         Cleaned \cap Past' \subseteq Past
  PROVE  StaleInv'
<1> SUFFICES ASSUME local, NEW c \in Cleaned, c \in Past',
                    NEW q \in Product(c, Home(c), TRUE), q \in fs'
             PROVE  q \in fresh'
  BY DEF StaleInv
<1>1. c \in Past /\ c \notin N  OBVIOUS
<1>2. q \notin Seq(N)  BY <1>1, OwnProduct
<1> QED BY <1>1, <1>2 DEF StaleInv

LEMMA HaveKept ==
  ASSUME HaveInv, UNCHANGED <<local, root>>, fs \subseteq fs', Done' = Done,
         GotModules' => GotModules, GotLuaJIT' => GotLuaJIT
  PROVE  HaveInv'
  BY DEF HaveInv

(* Only a source got and a build done move the script on in its order.     *)
LEMMA SameDone ==
  ASSUME PositionInv,
         Enter \/ PushdItem \/ Return \/ Back \/ MakeConfigure
  PROVE  /\ Done' = Done /\ Past' = Past /\ pc' # "idle"
         /\ UNCHANGED <<fresh, local, root>> /\ fs \subseteq fs'
<1> USE DEF PositionInv, IndexInv
<1> DEFINE L == Len(Parts[f].gets)
<1> DEFINE b == Before[f]
<1>1. /\ Len(Parts) = 7 /\ L \in 1..3 /\ b \in 0..10 /\ f \in 1..7
      /\ f < 7 => Before[f + 1] = b + L
      /\ f = 7 => b + L = 11
  BY PlaceFacts
<1>2. Done' = Done
  <2>1. CASE Enter
    <3>1. Done = b /\ Done' = b + 1 - 1  BY <2>1 DEF Enter, Done
    <3> HIDE DEF b
    <3> QED BY <1>1, <3>1
  <2>2. CASE PushdItem  BY <2>2 DEF PushdItem, Done
  <2>3. CASE Return
    <3>1. Done = b + n /\ n \in 1..L  BY <2>3 DEF Return, Done, Part
    <3>2. CASE n < L
      <4>1. Done' = b + (n + 1) - 1
        BY <2>3, <3>2 DEF Return, Done, Part
      <4> HIDE DEF b, L
      <4> QED BY <1>1, <3>1, <4>1
    <3>3. CASE ~(n < L)
      <4>1. Done' = b + L  BY <2>3, <3>3 DEF Return, Done, Part
      <4> HIDE DEF b, L
      <4> QED BY <1>1, <3>1, <3>3, <4>1
    <3> QED BY <3>2, <3>3
  <2>4. CASE Back
    <3>1. Done = b + L  BY <2>4 DEF Back, Done, Part
    <3>2. CASE f < 7
      <4>1. Done' = Before[f + 1]  BY <1>1, <2>4, <3>2 DEF Back, Done
      <4> QED BY <1>1, <3>1, <3>2, <4>1
    <3>3. CASE f = 7
      <4>1. Done' = 11  BY <1>1, <2>4, <3>3 DEF Back, Done
      <4> QED BY <1>1, <3>1, <3>3, <4>1
    <3> QED BY <1>1, <3>2, <3>3
  <2>5. CASE MakeConfigure  BY <2>5 DEF MakeConfigure, Done
  <2> QED BY <2>1, <2>2, <2>3, <2>4, <2>5
<1>3. Past' = Past  BY <1>2 DEF Past
<1>4. pc' # "idle" /\ UNCHANGED <<fresh, local, root>> /\ fs \subseteq fs'
  BY DEF Enter, EnterLua, EnterPlain, PushdItem, Return, Back, MakeConfigure,
         flags, files
<1> QED BY <1>2, <1>3, <1>4

LEMMA QuietStep ==
  ASSUME PositionInv, FilesInv, PushdItem \/ Return \/ Back \/ MakeConfigure
  PROVE  FilesInv'
<1> USE DEF FilesInv
<1>1. /\ Done' = Done /\ Past' = Past /\ pc' # "idle"
      /\ UNCHANGED <<fresh, local, root>> /\ fs \subseteq fs'
  BY SameDone
<1>2. FreshInv'  BY <1>1, FreshKept
<1>3. StaleInv'
  <2> DEFINE N == Plain
  <2>1. fs' \subseteq fs \cup Seq(N)
    <3>1. BUILDF \in Seq({"PARENTF", "build"})  BY GroupFacts DEF BUILDF, GroupDir
    <3>2. BUILDF \in Seq(N)
      <4>1. {"PARENTF", "build"} \subseteq N  BY DEF Plain
      <4> QED BY <3>1, <4>1, SeqMonotonic
    <3> QED BY <3>2 DEF PushdItem, Return, Back, MakeConfigure, files
  <2>2. Cleaned \cap Past \cap N = {}
    BY NameFacts DEF Cleaned, Components
  <2> HIDE DEF N
  <2> QED BY <1>1, <2>1, <2>2, StaleKept
<1>4. GotModules' => GotModules
  <2>1. CASE Return
    <3>1. pc = "popd" /\ f' = f  BY <2>1 DEF Return
    <3>2. f = 3 => Done = 4 + n  BY <3>1 DEF Done, Before
    <3>3. n \in Nat /\ n >= 1
      <4>1. Len(Part.gets) \in 1..3  BY PlaceFacts DEF PositionInv, IndexInv, Part
      <4> QED BY <3>1, <4>1 DEF PositionInv, IndexInv
    <3>4. f = 3 => Done >= 5  BY <3>2, <3>3 DEF PositionInv, IndexInv
    <3> QED BY <1>1, <3>1, <3>4 DEF GotModules
  <2> QED BY <1>1, <2>1 DEF GotModules, PushdItem, Back, MakeConfigure
<1>5. GotLuaJIT' => GotLuaJIT
  BY <1>1 DEF GotLuaJIT, PushdItem, Return, Back, MakeConfigure
<1>6. HaveInv'  BY <1>1, <1>4, <1>5, HaveKept
<1> QED BY <1>2, <1>3, <1>6

LEMMA EnterStep ==
  ASSUME PositionInv, FilesInv, Enter
  PROVE  FilesInv'
<1> USE DEF FilesInv
<1>1. /\ Done' = Done /\ Past' = Past /\ pc' # "idle"
      /\ UNCHANGED <<fresh, local, root>> /\ fs \subseteq fs'
  BY SameDone
<1>2. FreshInv'  BY <1>1, FreshKept
<1>3. Part.dir \in {"etc_src", "ngx_module", "lua_src", "ngx_src"}
  BY PlaceFacts DEF PositionInv, IndexInv, Part
<1>4. sh.cwd = PARENTF  BY DEF PositionInv, StackInv, Enter, Outset, Shell
<1>5. StaleInv'
  <2> DEFINE N == Plain
  <2>1. {"PARENTF", "/opt/lua_src", "lua_src", Part.dir} \subseteq N
    BY <1>3 DEF Plain
  <2>2. ASSUME NEW d \in {"lua_src", Part.dir} PROVE GroupDir(d) \in Seq(N)
    <3>1. {"PARENTF", d} \subseteq N  BY <2>1
    <3> HIDE DEF N
    <3>2. GroupDir(d) \in Seq({"PARENTF", d})  BY GroupFacts
    <3> QED BY <3>1, <3>2, SeqMonotonic
  <2>3. OPTLUA \in Seq(N)  BY <2>1, RootFacts, SeqMonotonic
  <2>4. fs' \subseteq fs \cup {GroupDir("lua_src"), GroupDir(Part.dir), OPTLUA}
    BY <1>4 DEF Enter, EnterLua, EnterPlain, GroupDir
  <2>5. fs' \subseteq fs \cup Seq(N)  BY <2>2, <2>3, <2>4
  <2>6. Cleaned \cap Past \cap N = {}
    BY NameFacts DEF Cleaned, Components
  <2> HIDE DEF N
  <2> QED BY <1>1, <2>5, <2>6, StaleKept
<1>6. HaveInv'
  <2>1. CASE f = 3
    <3>1. Part.dir = "ngx_module" /\ ~IsLua(f)  BY <2>1 DEF Part, Parts, IsLua
    <3>2. GroupDir("ngx_module") \in fs'
      BY <1>4, <3>1 DEF Enter, EnterPlain, GroupDir
    <3>3. GotLuaJIT' => GotLuaJIT  BY <1>1 DEF GotLuaJIT, Enter
    <3> QED BY <1>1, <3>2, <3>3 DEF HaveInv
  <2>2. CASE f # 3
    <3>1. GotModules' => GotModules  BY <1>1, <2>2 DEF GotModules, Enter
    <3>2. GotLuaJIT' => GotLuaJIT  BY <1>1 DEF GotLuaJIT, Enter
    <3> QED BY <1>1, <3>1, <3>2, HaveKept
  <2> QED BY <2>1, <2>2
<1> QED BY <1>2, <1>5, <1>6

(* The run is over: what it built is not of the next one.                  *)
LEMMA OverStep ==
  ASSUME FilesInv, Over, UNCHANGED <<local, root>>
  PROVE  FilesInv'
<1>1. pc' = "idle" /\ fresh' = {} /\ Done' = 0  BY DEF Over, Done
<1>2. Past' = {}  BY <1>1 DEF Past
<1>3. \A S : {} \subseteq Seq(S)  OBVIOUS
<1> QED
  BY <1>1, <1>2 DEF FilesInv, FreshInv, StaleInv, HaveInv, GotModules, GotLuaJIT

LEMMA GetStep ==
  ASSUME PositionInv, FilesInv, Get, ~Over
  PROVE  FilesInv'
<1> USE DEF FilesInv
<1>1. /\ pc = "get" /\ fs' = fs \cup Contents
      /\ pc' = IF Item \in Built THEN "pushd" ELSE "popd"
      /\ UNCHANGED <<f, n, sh, fresh, local, root>>
  BY DEF Get, flags
<1> DEFINE d == Done
<1>2. /\ d \in 0..10 /\ Item = Order[d + 1] /\ (d = 4 => f = 3)
      /\ (d \in {5, 7} => IsLua(f))
  BY <1>1, DoneFacts DEF PositionInv
<1>3. Done' = IF Item \in Built THEN d ELSE d + 1
  <2>1. d = Before[f] + n - 1  BY <1>1 DEF Done
  <2>2. Done' = IF Item \in Built THEN Before[f] + n - 1 ELSE Before[f] + n
    BY <1>1 DEF Done
  <2>3. Before[f] \in Nat /\ n \in Nat
    <3>1. Before[f] \in 0..10 /\ Len(Part.gets) \in 1..3
      BY PlaceFacts DEF PositionInv, IndexInv, Part
    <3> QED BY <1>1, <3>1 DEF PositionInv, IndexInv
  <2> HIDE DEF d
  <2> QED BY <2>1, <2>2, <2>3
<1>4. Past' \subseteq Past \cup ({Item} \ Built) /\ Past \subseteq Past'
  <2> DEFINE e == Done'
  <2>1. e \in {d, d + 1} /\ (e = d + 1 => Item \notin Built) /\ e = Done'
    <3> HIDE DEF d
    <3> QED BY <1>2, <1>3
  <2>2. Past = {Order[i] : i \in 1..d} /\ Past' = {Order[i] : i \in 1..e}
    BY DEF Past
  <2> HIDE DEF d, e
  <2>3. 1..d \subseteq 1..e /\ 1..e \subseteq 1..d \cup {d + 1} /\ (e = d => 1..e = 1..d)
    BY <1>2, <2>1
  <2> QED BY <1>2, <2>1, <2>2, <2>3
<1>5. pc' # "idle" /\ fs \subseteq fs'  BY <1>1
<1>6. FreshInv'  BY <1>1, <1>4, <1>5, FreshKept
<1>7. IsBase(sh.cwd) /\ sh.cwd \in Seq(Plain)
  BY <1>1, BaseFacts DEF PositionInv, StackInv, Outside
<1>8. StaleInv'
  <2> DEFINE N == Plain \cup {Item}
  <2>1. Cleaned \cap Past \cap N = {}
    BY <1>1, ItemToCome, NameFacts DEF PositionInv, Cleaned, Components
  <2>2. Plain \subseteq N /\ Item \in N /\ "src" \in N  BY DEF Plain
  <2>3. Cleaned \cap Past' \subseteq Past
    BY <1>4 DEF Cleaned, Built, Components
  <2> HIDE DEF N
  <2>4. Folder \in Seq(N)
    <3>1. sh.cwd \in Seq(N)  BY <1>7, <2>2, SeqMonotonic
    <3> QED BY <2>2, <3>1, AppendIn DEF Folder
  <2>5. Append(Folder, "src") \in Seq(N)  BY <2>2, <2>4, AppendIn
  <2>6. fs' \subseteq fs \cup Seq(N)  BY <1>1, <2>4, <2>5 DEF Contents
  <2> QED BY <1>1, <2>1, <2>3, <2>6, StaleKept
<1>9. HaveInv'
  <2>1. GotModules' => GroupDir("ngx_module") \in fs'
    <3>1. GotModules' => d >= 4
      <4> HIDE DEF d
      <4>1. pc' # "get" /\ (Done' = d \/ Done' = d + 1)  BY <1>1, <1>3
      <4> QED BY <1>2, <4>1 DEF GotModules
    <3>2. d >= 4 => GotModules
      <4> HIDE DEF d
      <4>1. d = Done  BY DEF d
      <4> QED BY <1>1, <1>2, <4>1 DEF GotModules
    <3> QED BY <1>5, <3>1, <3>2 DEF HaveInv
  <2>2. ASSUME local \/ root, d \in {5, 7} PROVE sh.cwd = LuaSrc(local)
    BY <1>2, <1>7, <2>2 DEF IsBase, Where
  <2>3. local \/ root => (GotLuaJIT' => LUAJIT2_SRC(local) \in fs')
    <3> SUFFICES ASSUME local \/ root, GotLuaJIT' PROVE LUAJIT2_SRC(local) \in fs'
      OBVIOUS
    <3>1. d >= 5
      <4> HIDE DEF d
      <4> QED BY <1>1, <1>2, <1>3 DEF GotLuaJIT
    <3>2. CASE d = 5
      <4>1. Item = LuaJIT  BY <1>2, <3>2 DEF Order
      <4>2. Append(Folder, "src") \in fs'  BY <1>1, <4>1 DEF Contents
      <4> QED BY <2>2, <3>2, <4>1, <4>2 DEF Folder, LUAJIT2_SRC, Sub
    <3>3. CASE d >= 6  BY <1>5, <3>3 DEF HaveInv, GotLuaJIT
    <3> HIDE DEF d
    <3> QED BY <1>2, <3>1, <3>2, <3>3
  <2>4. local \/ root => (Done' >= 8 => Append(LuaSrc(local), LuaSSL) \in fs')
    <3> SUFFICES ASSUME local \/ root, Done' >= 8
                 PROVE  Append(LuaSrc(local), LuaSSL) \in fs'
      OBVIOUS
    <3>1. d >= 7
      <4> HIDE DEF d
      <4> QED BY <1>2, <1>3
    <3>2. CASE d = 7
      <4>1. Item = LuaSSL  BY <1>2, <3>2 DEF Order
      <4>2. Folder \in fs'  BY <1>1 DEF Contents
      <4> QED BY <2>2, <3>2, <4>1, <4>2 DEF Folder
    <3>3. CASE d >= 8  BY <1>5, <3>3 DEF HaveInv
    <3> HIDE DEF d
    <3> QED BY <1>2, <3>1, <3>2, <3>3
  <2> QED BY <1>1, <2>1, <2>3, <2>4 DEF HaveInv
<1> QED BY <1>6, <1>8, <1>9

LEMMA BuildStep ==
  ASSUME PositionInv, FilesInv, BuildSucceeds \/ BuildFails
  PROVE  FilesInv'
<1> USE DEF FilesInv
<1>1. /\ pc = "build" /\ pc' = "popd" /\ UNCHANGED <<f, n, sh, local, root>>
      /\ Prepared(Item, sh.cwd) \subseteq fs'
  BY DEF BuildSucceeds, BuildFails, flags
<1> DEFINE d == Done
<1>2. /\ d \in 0..10 /\ Item = Order[d + 1] /\ Done' = d + 1
      /\ d + 1 \in 1..11
  <2>1. d \in 0..10 /\ Item = Order[d + 1]
    BY <1>1, DoneFacts DEF PositionInv
  <2>2. d = Before[f] + n - 1 /\ Done' = Before[f] + n  BY <1>1 DEF Done
  <2>3. Before[f] \in Nat /\ n \in Nat
    <3>1. Before[f] \in 0..10 /\ Len(Part.gets) \in 1..3
      BY PlaceFacts DEF PositionInv, IndexInv, Part
    <3> QED BY <1>1, <3>1 DEF PositionInv, IndexInv
  <2> HIDE DEF d
  <2> QED BY <2>1, <2>2, <2>3
<1>3. Past' = Past \cup {Item}
  <2>1. Past = {Order[i] : i \in 1..d} /\ Past' = {Order[i] : i \in 1..d + 1}
    BY <1>2 DEF Past
  <2> HIDE DEF d
  <2>2. 1..d + 1 = 1..d \cup {d + 1}  BY <1>2
  <2> QED BY <1>2, <2>1, <2>2
<1>4. Item \in Sources /\ Item \notin Plain \cup Past /\ Past \subseteq Sources
  BY <1>1, ItemToCome DEF PositionInv
<1> DEFINE P == Product(Item, sh.cwd, local)
<1>5. /\ fs' \subseteq fs \cup Seq(Plain \cup {Item})
      /\ fresh \subseteq fresh'
      /\ fresh' = fresh \/ (BuildSucceeds /\ fresh' = fresh \cup P /\ P \subseteq fs')
      /\ P \subseteq Seq(Plain \cup {Item})
  BY BuildAdds
<1>6. ASSUME NEW q \in fs, NEW N, q \in Seq(N), Item \notin N \/ Wipes(Item) = {}
      PROVE  q \in fs'
  BY <1>1, <1>6, BuildKeeps
<1>7. FreshInv'
  <2> HIDE DEF P
  <2>1. (fresh \subseteq Seq(Plain \cup Past))'
    <3>1. /\ Plain \cup Past \subseteq Plain \cup Past'
          /\ Plain \cup {Item} \subseteq Plain \cup Past'
      BY <1>3
    <3>2. \A q \in Seq(Plain \cup Past) : q \in Seq(Plain \cup Past')
      BY <3>1, SeqMonotonic
    <3>3. \A q \in Seq(Plain \cup {Item}) : q \in Seq(Plain \cup Past')
      BY <3>1, SeqMonotonic
    <3>4. fresh' \subseteq fresh \cup P  BY <1>5
    <3> QED BY <1>5, <3>2, <3>3, <3>4 DEF FreshInv
  <2>2. fresh' \subseteq fs'
    <3>1. \A q \in fresh : q \in fs /\ q \in Seq(Plain \cup Past)  BY DEF FreshInv
    <3>2. fresh \subseteq fs'  BY <1>4, <1>6, <3>1
    <3> QED BY <1>5, <3>2
  <2>3. local \/ root \/ fresh' \subseteq Seq(Names \ {LuaJIT})
    <3> SUFFICES ASSUME ~local, ~root PROVE fresh' \subseteq Seq(Names \ {LuaJIT})
      OBVIOUS
    <3>1. BuildSucceeds => Item # LuaJIT  BY DEF BuildSucceeds, CanBuild
    <3>2. ASSUME Item # LuaJIT PROVE P \subseteq Seq(Names \ {LuaJIT})
      <4>1. Plain \cup {Item} \subseteq Names \ {LuaJIT}
        BY <1>4, <3>2, NameFacts DEF Names, Components
      <4> QED BY <1>5, <4>1, SeqMonotonic
    <3> QED BY <1>5, <3>1, <3>2 DEF FreshInv
  <2> QED BY <1>1, <2>1, <2>2, <2>3 DEF FreshInv
<1>8. StaleInv'
  <2> SUFFICES ASSUME local, NEW c \in Cleaned, c \in Past',
                      NEW q \in Product(c, Home(c), TRUE), q \in fs'
               PROVE  q \in fresh'
    BY <1>1 DEF StaleInv
  <2>1. CASE c = Item
    <3>1. sh.cwd = Home(c) /\ q \notin Prepared(Item, sh.cwd)
      BY <1>1, <2>1, OwnDeleted
    <3>2. Product(Item, sh.cwd, local) = Product(c, Home(c), TRUE)
      BY <2>1, <3>1
    <3>3. BuildSucceeds
      BY <3>1 DEF BuildFails
    <3>4. Item # CJson  BY <2>1 DEF Cleaned, Sregex, Drizzle, Signal, CJson
    <3>5. fresh' = fresh \cup P
      BY <3>3, <3>4 DEF BuildSucceeds, Remakes
    <3> QED BY <3>2, <3>5
  <2>2. CASE c # Item
    <3>1. c \in Past  BY <1>3, <2>2
    <3>2. c \notin Plain \cup {Item}
      BY <2>2, NameFacts DEF Cleaned, Components
    <3>3. q \notin Seq(Plain \cup {Item})  BY <3>2, OwnProduct
    <3>4. q \in fs  BY <1>5, <3>3
    <3>5. q \in fresh  BY <3>1, <3>4 DEF StaleInv
    <3> QED BY <1>5, <3>5
  <2> QED BY <2>1, <2>2
<1>9. HaveInv'
  <2>1. GotModules' => GroupDir("ngx_module") \in fs'
    <3> SUFFICES ASSUME GotModules' PROVE GroupDir("ngx_module") \in fs'
      OBVIOUS
    <3>1. d >= 5
      <4>1. d # 4
        <5> HIDE DEF d
        <5> SUFFICES ASSUME d = 4 PROVE FALSE  OBVIOUS
        <5>1. Item = NgxModule  BY <1>2 DEF Order
        <5>2. Item \in Built  BY <1>1 DEF PositionInv, StackInv
        <5> QED BY <5>1, <5>2
            DEF Built, Components, Redis, NgxModule, Sregex, Drizzle, ModSec,
                LuaJIT, CJson, Signal
      <4>2. Done' >= 5  BY <1>1 DEF GotModules
      <4> HIDE DEF d
      <4> QED BY <1>2, <4>1, <4>2
    <3>2. GroupDir("ngx_module") \in fs  BY <3>1 DEF HaveInv, GotModules
    <3>3. GroupDir("ngx_module") \in Seq(Plain)
      <4>1. {"PARENTF", "ngx_module"} \subseteq Plain  BY DEF Plain
      <4>2. GroupDir("ngx_module") \in Seq({"PARENTF", "ngx_module"})
        BY GroupFacts
      <4> QED BY <4>1, <4>2, SeqMonotonic
    <3> QED BY <1>4, <1>6, <3>2, <3>3
  <2>2. local \/ root => (GotLuaJIT' => LUAJIT2_SRC(local) \in fs')
    <3> SUFFICES ASSUME local \/ root, GotLuaJIT' PROVE LUAJIT2_SRC(local) \in fs'
      OBVIOUS
    <3>1. d >= 5
      <4> HIDE DEF d
      <4> QED BY <1>1, <1>2 DEF GotLuaJIT
    <3>2. LUAJIT2_SRC(local) \in fs
      BY <1>1, <1>2, <3>1 DEF HaveInv, GotLuaJIT
    <3> DEFINE N == Plain \cup {LuaJIT}
    <3>3. LUAJIT2_SRC(local) \in Seq(N)
      <4>1. Plain \subseteq N /\ LuaJIT \in N /\ "src" \in N  BY DEF Plain
      <4> HIDE DEF N
      <4>2. LuaSrc(local) \in Seq(N)  BY <4>1, LuaFacts
      <4> QED BY <4>1, <4>2, SubIn DEF LUAJIT2_SRC
    <3>4. Item \notin N \/ Wipes(Item) = {}
      BY <1>4
      DEF Wipes, LuaJIT, Sregex, Drizzle, Signal
    <3> HIDE DEF N
    <3> QED BY <1>6, <3>2, <3>3, <3>4
  <2>3. local \/ root => (Done' >= 8 => Append(LuaSrc(local), LuaSSL) \in fs')
    <3> SUFFICES ASSUME local \/ root, Done' >= 8
                 PROVE  Append(LuaSrc(local), LuaSSL) \in fs'
      OBVIOUS
    <3> DEFINE N == Plain \cup {LuaSSL}
    <3>1. Item # LuaSSL
      <4>1. Item \in Built  BY <1>1 DEF PositionInv, StackInv
      <4> QED BY <4>1
          DEF Built, Components, Redis, LuaSSL, Sregex, Drizzle, ModSec,
              LuaJIT, CJson, Signal
    <3>2. d >= 8
      <4>1. d # 7  BY <1>2, <3>1 DEF Order
      <4> HIDE DEF d
      <4> QED BY <1>2, <4>1
    <3>3. Append(LuaSrc(local), LuaSSL) \in fs  BY <3>2 DEF HaveInv
    <3>4. Append(LuaSrc(local), LuaSSL) \in Seq(N)
      <4>1. Plain \subseteq N /\ LuaSSL \in N  OBVIOUS
      <4> HIDE DEF N
      <4>2. LuaSrc(local) \in Seq(N)  BY <4>1, LuaFacts
      <4> QED BY <4>1, <4>2, AppendIn
    <3>5. Item \notin N  BY <1>4, <3>1
    <3> HIDE DEF N
    <3> QED BY <1>6, <3>3, <3>4, <3>5
  <2> QED BY <1>1, <2>1, <2>2, <2>3 DEF HaveInv
<1> QED BY <1>7, <1>8, <1>9

(* Where no source is past, nothing is built, stale or got.                *)
LEMMA NothingPast ==
  ASSUME Done = 0, fresh = {}, pc \in {"idle", "enter"}
  PROVE  FilesInv
<1>1. Past = {}  BY DEF Past
<1> QED BY <1>1 DEF FilesInv, FreshInv, StaleInv, HaveInv, GotModules, GotLuaJIT

LEMMA IdleStep ==
  ASSUME PositionInv, FilesInv, Start \/ Lose
  PROVE  FilesInv'
<1>1. pc = "idle" /\ fresh' = {} /\ pc' \in {"idle", "enter"}
  BY DEF Start, Lose, files, FilesInv, FreshInv
<1>2. Done' = 0
  <2>1. f' = 1  BY <1>1 DEF PositionInv, IndexInv, Start, Lose
  <2>2. Before[1] = 0  BY DEF Before
  <2> QED BY <1>1, <2>1, <2>2 DEF Done
<1>3. Past' = {}  BY <1>2 DEF Past
<1>4. ~GotModules' /\ ~GotLuaJIT'  BY <1>1, <1>2 DEF GotModules, GotLuaJIT
<1> QED BY <1>1, <1>2, <1>3, <1>4 DEF FilesInv, FreshInv, StaleInv, HaveInv

LEMMA FilesNext ==
  ASSUME PositionInv, FilesInv, [Next]_vars
  PROVE  FilesInv'
<1>1. CASE Get
  <2>1. CASE Over
    <3>1. UNCHANGED <<local, root>>  BY <1>1 DEF Get, flags
    <3> QED BY <2>1, <3>1, OverStep
  <2>2. CASE ~Over  BY <1>1, <2>2, GetStep
  <2> QED BY <2>1, <2>2
<1>2. CASE Gone
  <2>1. Over /\ UNCHANGED <<local, root>>  BY <1>2 DEF Gone, flags
  <2> QED BY <2>1, OverStep
<1>3. CASE UNCHANGED vars
  <2>1. Done' = Done
    BY <1>3 DEF vars, Done, Part
  <2>2. Past' = Past  BY <2>1 DEF Past
  <2> QED BY <1>3, <2>1, <2>2
      DEF vars, files, flags, FilesInv, FreshInv, StaleInv, HaveInv,
          GotModules, GotLuaJIT
<1> QED
  BY <1>1, <1>2, <1>3, EnterStep, QuietStep, BuildStep, IdleStep
  DEF Next, Script

LEMMA CompileInit == Init => PositionInv /\ FilesInv
<1> SUFFICES ASSUME Init PROVE PositionInv /\ FilesInv  OBVIOUS
<1>1. PositionInv
  BY CompileAssumption DEF Init, PositionInv, IndexInv, StackInv
<1>2. Done = 0 /\ fresh = {} /\ pc = "idle"  BY DEF Init, Done
<1> QED BY <1>1, <1>2, NothingPast

(* What a local run hands over of sregex, drizzle and resty-signal is of   *)
(* that run, whatever was missing, failed or was killed before: each of    *)
(* the three is deleted before it is built (nginx_builder:271, 288, 442).  *)
THEOREM NothingStale == Spec => []StaleNotReused
<1>1. PositionInv /\ FilesInv => StaleNotReused
  <2> SUFFICES ASSUME FilesInv, pc = "shell", local, NEW c \in Cleaned
               PROVE  Product(c, Home(c), TRUE) \cap fs \subseteq fresh
    BY DEF StaleNotReused, Cleaned
  <2>1. Done = 11  BY DEF Done
  <2>2. c \in Past
    <3>1. 2 \in 1..Done /\ 3 \in 1..Done /\ 9 \in 1..Done  BY <2>1
    <3>2. Order[2] = Sregex /\ Order[3] = Drizzle /\ Order[9] = Signal
      BY DEF Order
    <3> QED BY <3>1, <3>2 DEF Past, Cleaned
  <2> QED BY <2>2 DEF FilesInv, StaleInv
<1> QED BY <1>1, CompileInit, PositionNext, FilesNext, PTL DEF Spec

(* sregex' headers are there from the time they are got: its own rm -rf    *)
(* build spares them, and no other build reaches them.                     *)
SregexSrc == Append(Home(Sregex), "src")
GotSregex == Done >= 2 \/ (Done = 1 /\ pc \in {"pushd", "build"})
SregexInv == local /\ GotSregex => SregexSrc \in fs

LEMMA SregexFacts ==
  /\ SregexSrc \in Seq(Plain \cup {Sregex})
  /\ Home(Sregex) \in Seq(Plain \cup {Sregex})
  /\ ~IsPrefix(Append(Home(Sregex), "build"), SregexSrc)
<1> DEFINE N == Plain \cup {Sregex}
<1> DEFINE h == Home(Sregex)
<1>1. Sregex \in Components /\ GroupOf(Sregex) = "etc_src"
  BY DEF Components, GroupOf
<1>2. h \in Seq({"PARENTF", "etc_src", Sregex})  BY <1>1, HomeFacts
<1>3. {"PARENTF", "etc_src", Sregex} \subseteq N /\ "src" \in N /\ "build" \in N
  BY DEF Plain
<1> HIDE DEF h, N
<1>4. h \in Seq(N)  BY <1>2, <1>3, SeqMonotonic
<1> DEFINE a == Append(h, "src")
<1> DEFINE b == Append(h, "build")
<1>5. /\ a \in Seq(N) /\ Len(a) = Len(h) + 1 /\ a[Len(h) + 1] = "src"
      /\ b \in Seq(N) /\ Len(b) = Len(h) + 1 /\ b[Len(h) + 1] = "build"
  BY <1>3, <1>4, AppendIn
<1>6. Len(h) \in Nat  BY <1>4
<1> HIDE DEF a, b
<1>7. ~IsPrefix(b, a)
  <2> SUFFICES ASSUME IsPrefix(b, a) PROVE FALSE  OBVIOUS
  <2> DEFINE l == Len(h) + 1
  <2>1. l \in 1..Len(b) /\ l \in 1..Len(a) /\ Len(b) = l /\ Len(a) = l
    BY <1>5, <1>6
  <2>2. SubSeq(b, 1, Len(b)) = SubSeq(a, 1, Len(b))
    BY DEF IsPrefix
  <2>3. SubSeq(b, 1, Len(b))[l] = b[l]  BY <1>5, <2>1
  <2>4. SubSeq(a, 1, Len(b))[l] = a[l]  BY <1>5, <2>1
  <2> QED BY <1>5, <2>2, <2>3, <2>4
<1> QED BY <1>4, <1>5, <1>7 DEF a, b, h, N, SregexSrc

LEMMA SregexBuild ==
  ASSUME PositionInv, SregexInv, BuildSucceeds \/ BuildFails
  PROVE  SregexInv'
<1>1. /\ pc = "build" /\ pc' = "popd" /\ UNCHANGED <<f, n, sh, local, root>>
      /\ Prepared(Item, sh.cwd) \subseteq fs'
  BY DEF BuildSucceeds, BuildFails, flags
<1> DEFINE d == Done
<1>2. d \in 0..10 /\ Item = Order[d + 1] /\ Done' = d + 1
  <2>1. d \in 0..10 /\ Item = Order[d + 1]
    BY <1>1, DoneFacts DEF PositionInv
  <2>2. d = Before[f] + n - 1 /\ Done' = Before[f] + n  BY <1>1 DEF Done
  <2>3. Before[f] \in Nat /\ n \in Nat
    <3>1. Before[f] \in 0..10 /\ Len(Part.gets) \in 1..3
      BY PlaceFacts DEF PositionInv, IndexInv, Part
    <3> QED BY <1>1, <3>1 DEF PositionInv, IndexInv
  <2> HIDE DEF d
  <2> QED BY <2>1, <2>2, <2>3
<1> SUFFICES ASSUME local, GotSregex' PROVE SregexSrc \in fs'
  BY <1>1 DEF SregexInv, SregexSrc
<1>3. d >= 1
  <2>1. Done' >= 2  BY <1>1 DEF GotSregex
  <2> HIDE DEF d
  <2> QED BY <1>2, <2>1
<1>4. SregexSrc \in fs
  <2>1. GotSregex
    <3>1. d = 1 \/ d >= 2
      <4> HIDE DEF d
      <4> QED BY <1>2, <1>3
    <3> QED BY <1>1, <3>1 DEF GotSregex
  <2> QED BY <2>1 DEF SregexInv
<1>5. CASE d = 1
  <2>1. Item = Sregex  BY <1>2, <1>5 DEF Order
  <2>2. sh.cwd = Home(Sregex)  BY <1>1, <2>1, OwnDeleted DEF Cleaned
  <2>3. Wipes(Item) = {"build"}  BY <2>1 DEF Wipes, Sregex, Drizzle, Signal
  <2>4. SregexSrc \notin Under(Append(sh.cwd, "build"), fs)
    BY <2>2, SregexFacts DEF Under
  <2> QED BY <1>1, <1>4, <2>3, <2>4 DEF Prepared
<1>6. CASE d >= 2
  <2>1. Sregex \in Past
    <3>1. 2 \in 1..d
      <4> HIDE DEF d
      <4> QED BY <1>2, <1>6
    <3> QED BY <3>1 DEF Past, Order
  <2>2. Item \notin Plain \cup {Sregex}  BY <1>1, <2>1, ItemToCome DEF PositionInv
  <2>3. SregexSrc \in Seq(Plain \cup {Sregex})  BY SregexFacts
  <2> QED BY <1>1, <1>4, <2>2, <2>3, BuildKeeps
<1>7. d = 1 \/ d >= 2
  <2> HIDE DEF d
  <2> QED BY <1>2, <1>3
<1> QED BY <1>5, <1>6, <1>7

LEMMA SregexGet ==
  ASSUME PositionInv, SregexInv, Get, ~Over
  PROVE  SregexInv'
<1>1. /\ pc = "get" /\ fs' = fs \cup Contents
      /\ pc' = IF Item \in Built THEN "pushd" ELSE "popd"
      /\ UNCHANGED <<f, n, sh, local>>
  BY DEF Get, flags
<1> DEFINE d == Done
<1>2. d \in 0..10 /\ Item = Order[d + 1]  BY <1>1, DoneFacts DEF PositionInv
<1>3. Done' = IF Item \in Built THEN d ELSE d + 1
  <2>1. d = Before[f] + n - 1  BY <1>1 DEF Done
  <2>2. Done' = IF Item \in Built THEN Before[f] + n - 1 ELSE Before[f] + n
    BY <1>1 DEF Done
  <2>3. Before[f] \in Nat /\ n \in Nat
    <3>1. Before[f] \in 0..10 /\ Len(Part.gets) \in 1..3
      BY PlaceFacts DEF PositionInv, IndexInv, Part
    <3> QED BY <1>1, <3>1 DEF PositionInv, IndexInv
  <2> HIDE DEF d
  <2> QED BY <2>1, <2>2, <2>3
<1> SUFFICES ASSUME local, GotSregex' PROVE SregexSrc \in fs'
  BY <1>1 DEF SregexInv, SregexSrc
<1>4. d # 0
  <2> SUFFICES ASSUME d = 0 PROVE FALSE  OBVIOUS
  <2>1. Item = Redis  BY <1>2 DEF Order
  <2>2. Done' = 0  BY <1>3, <2>1 DEF Built
  <2> QED BY <2>2 DEF GotSregex
<1>5. CASE d = 1
  <2>1. Item = Sregex  BY <1>2, <1>5 DEF Order
  <2>2. Append(Folder, "src") \in fs'  BY <1>1, <2>1 DEF Contents
  <2>3. Part.dir = GroupOf(Sregex)
    <3>1. n \in 1..Len(Parts[f].gets) /\ f \in 1..7 /\ Part = Parts[f]
      BY <1>1 DEF PositionInv, IndexInv, Part
    <3>2. Parts[f].gets[n] = Sregex  BY <2>1, <3>1 DEF Item
    <3> QED BY <3>1, <3>2, PlaceFacts DEF Components
  <2>4. sh.cwd = GroupDir(Part.dir)
    BY <1>1, BaseFacts DEF PositionInv, StackInv, Outside
  <2> QED BY <2>1, <2>2, <2>3, <2>4 DEF Folder, SregexSrc, Home
<1>6. CASE d >= 2
  <2>1. GotSregex  BY <1>6 DEF GotSregex
  <2> QED BY <1>1, <2>1 DEF SregexInv
<1>7. d = 1 \/ d >= 2
  <2> HIDE DEF d
  <2> QED BY <1>2, <1>4
<1> QED BY <1>5, <1>6, <1>7

LEMMA SregexNext ==
  ASSUME PositionInv, SregexInv, [Next]_vars
  PROVE  SregexInv'
<1>1. CASE Enter \/ PushdItem \/ Return \/ Back \/ MakeConfigure
  <2>1. Done' = Done /\ UNCHANGED local /\ fs \subseteq fs'  BY <1>1, SameDone
  <2>2. pc' \in {"pushd", "build"} => pc = "pushd"
    BY <1>1 DEF Enter, PushdItem, Return, Back, MakeConfigure
  <2>3. GotSregex' => GotSregex  BY <2>1, <2>2 DEF GotSregex
  <2> QED BY <2>1, <2>3 DEF SregexInv, SregexSrc
<1>2. CASE Get /\ ~Over  BY <1>2, SregexGet
<1>3. CASE BuildSucceeds \/ BuildFails  BY <1>3, SregexBuild
<1>4. CASE Over
  <2>1. Done' = 0  BY <1>4 DEF Over, Done
  <2> QED BY <2>1 DEF SregexInv, GotSregex
<1>5. CASE Start \/ Lose
  <2>1. Done' = 0
    <3>1. pc' \in {"idle", "enter"} /\ f' = 1
      BY <1>5 DEF Start, Lose, PositionInv, IndexInv
    <3>2. Before[1] = 0  BY DEF Before
    <3> QED BY <3>1, <3>2 DEF Done
  <2> QED BY <2>1 DEF SregexInv, GotSregex
<1>6. CASE UNCHANGED vars
  <2>1. Done' = Done  BY <1>6 DEF vars, Done, Part
  <2> QED BY <1>6, <2>1 DEF vars, files, flags, SregexInv, GotSregex, SregexSrc
<1> QED BY <1>1, <1>2, <1>3, <1>4, <1>5, <1>6 DEF Next, Script, Gone

(* In either mode, whoever runs it and wherever autoconf installs          *)
(* libraries, a run that built LuaJIT, and with IS_LOCAL=1 the three of    *)
(* etc_src, hands over a configuration of which nothing is missing but the *)
(* lib64 that the script spells out (nginx_builder:552-697, 683-687).      *)
THEOREM RunIsConfigurable == Spec => []CompleteBuildIsConfigurable
<1>1. PositionInv /\ FilesInv /\ SregexInv => CompleteBuildIsConfigurable
  <2> SUFFICES ASSUME PositionInv, FilesInv, SregexInv, pc = "shell",
                      \A c \in {LuaJIT} \cup (IF local THEN {Sregex, Drizzle, ModSec} ELSE {}) :
                        Product(c, Home(c), local) \subseteq fresh,
                      NEW p \in ConfigurationRefs(local), p \notin fs
               PROVE  p \in KnownGaps(local)
    BY DEF CompleteBuildIsConfigurable
  <2>1. Done = 11  BY DEF Done
  <2> DEFINE q == Sub(Append(LuaSrc(local), LuaJIT), "build", "lib")
  <2>2. Product(LuaJIT, Home(LuaJIT), local) = {q}
    BY DEF Product, Sregex, Drizzle, ModSec, LuaJIT, CJson, Signal
  <2>3. q \in fresh  BY <2>2
  <2>4. local \/ root
    <3> SUFFICES ASSUME ~local, ~root PROVE FALSE  OBVIOUS
    <3>1. q \in Seq(Names \ {LuaJIT})  BY <2>3 DEF FilesInv, FreshInv
    <3> DEFINE s == LuaSrc(local)
    <3> DEFINE r == Append(s, LuaJIT)
    <3>2. s \in Seq(Names)
      <4>1. Plain \subseteq Names  BY DEF Names
      <4> QED BY <4>1, LuaFacts
    <3>3. LuaJIT \in Names /\ "build" \in Names /\ "lib" \in Names
      BY NameFacts DEF Names, Plain, Components
    <3> HIDE DEF s
    <3>4. r \in Seq(Names) /\ Len(r) = Len(s) + 1 /\ r[Len(s) + 1] = LuaJIT
      BY <3>2, <3>3, AppendIn
    <3>5. Len(s) \in Nat  BY <3>2
    <3> HIDE DEF r
    <3>6. /\ Len(Sub(r, "build", "lib")) = Len(r) + 2
          /\ \A i \in 1..Len(r) : Sub(r, "build", "lib")[i] = r[i]
      <4>1. r \in Seq(Names)  BY <3>4
      <4>2. "build" \in Names /\ "lib" \in Names  BY <3>3
      <4> QED BY <4>1, <4>2, SubIn, Zenon
    <3>7. q = Sub(r, "build", "lib")  BY DEF r, s
    <3> HIDE DEF q
    <3>8. Len(s) + 1 \in 1..Len(q) /\ q[Len(s) + 1] = LuaJIT
      BY <3>4, <3>5, <3>6, <3>7
    <3>9. q[Len(s) + 1] \in Names \ {LuaJIT}  BY <3>1, <3>8, ElementOfSeq
    <3> QED BY <3>8, <3>9
  <2>5. /\ Append(PARENTF, "ngx_module") \in fs
        /\ LUAJIT2_SRC(local) \in fs /\ Append(LuaSrc(local), LuaSSL) \in fs
    BY <2>1, <2>4 DEF FilesInv, HaveInv, GotModules, GotLuaJIT, GroupDir
  <2>6. fresh \subseteq fs  BY DEF FilesInv, FreshInv
  <2>7. local
    <3> SUFFICES ASSUME ~local PROVE FALSE  OBVIOUS
    <3> HIDE DEF q
    <3> QED BY <2>3, <2>5, <2>6 DEF ConfigurationRefs, q
  <2>8. /\ Sub(Home(Sregex), "build", "lib") \in fs
        /\ Sub(Home(Drizzle), "build", LibDir) \in fs
        /\ Sub(Home(Drizzle), "build", "include") \in fs
        /\ Sub(BUILDF, "modsecurity", LibDir) \in fs
        /\ Sub(BUILDF, "modsecurity", "include") \in fs
    <3>1. \A c \in {Sregex, Drizzle, ModSec} : Product(c, Home(c), local) \subseteq fs
      BY <2>6, <2>7
    <3>2. /\ Product(Sregex, Home(Sregex), local) = {Sub(Home(Sregex), "build", "lib")}
          /\ Product(Drizzle, Home(Drizzle), local) =
               {Sub(Home(Drizzle), "build", LibDir), Sub(Home(Drizzle), "build", "include")}
          /\ Product(ModSec, Home(ModSec), local) =
               {Sub(BUILDF, "modsecurity", LibDir), Sub(BUILDF, "modsecurity", "include")}
      BY <2>7 DEF Product, Sregex, Drizzle, ModSec, LuaJIT, CJson, Signal
    <3> QED BY <3>1, <3>2
  <2>9. Append(Home(Sregex), "src") \in fs
    BY <2>1, <2>7 DEF SregexInv, GotSregex, SregexSrc
  <2>10. p \in {Sub(Home(Drizzle), "build", "lib64"), Sub(BUILDF, "modsecurity", "lib64")}
    <3> HIDE DEF q
    <3> QED BY <2>3, <2>5, <2>6, <2>8, <2>9 DEF ConfigurationRefs, q
  <2>11. LibDir # "lib64"  BY <2>8, <2>10
  <2> QED BY <2>7, <2>10, <2>11 DEF KnownGaps
<1>2. Init => SregexInv
  <2>1. Init => Done = 0  BY DEF Init, Done
  <2> QED BY <2>1 DEF SregexInv, GotSregex
<1> QED
  BY <1>1, <1>2, CompileInit, PositionNext, FilesNext, SregexNext, PTL DEF Spec
=============================================================================
