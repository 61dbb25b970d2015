-------------------------- MODULE RootPrepareProofs --------------------------
(* For every system, every state of its compilers in which they are sound, *)
(* and any number of kills and upgrades.                                   *)
EXTENDS RootPrepare, TLAPS

(* What the script knows of the compilers at each of its commands.         *)
AtStep ==
  /\ step \in {"getGcc7", "register7", "register8", "choose7"} => gcc.eight
  /\ step \in {"register7", "register8", "choose7"} => gcc.seven
  /\ (Buster /\ step \in PastCheck /\ gcc.eight) => gcc.use = 7

(* Nothing of nginx is deleted before the checks are passed.               *)
Keeping == Exits \cup {"root", "user", "packages", "check", "getGcc7",
                       "register7", "register8", "choose7", "wipeNginx"}
Kept == step \in Keeping => host = found

(* What root_prepare has made so far.                                      *)
Made ==
  /\ step \in {"packages", "check", "getGcc7", "register7", "register8",
               "choose7", "return"} \cup PastCheck => user
  /\ step \in PastCheck => ~local
  /\ step \in PastCheck \ {"wipeNginx"} => ~binary
  /\ step \in {"makeRun", "makeLog"} => lib
  /\ step = "makeLog" => runDir
  /\ (step = "return" /\ ~local) => lib /\ runDir /\ logDir /\ ~binary

Inv == TypeOK /\ Sound(gcc) /\ AtStep /\ Kept /\ Made

LEMMA InvInit == Init => Inv
<1> SUFFICES ASSUME Init PROVE Inv  OBVIOUS
<1>1. TypeOK  BY RootAssumption DEF Init, TypeOK, host
<1>2. Sound(gcc)  BY RootAssumption DEF Init
<1>3. AtStep /\ Kept /\ Made
  BY DEF Init, AtStep, Kept, Made, PastCheck, Keeping, Exits
<1> QED BY <1>1, <1>2, <1>3 DEF Inv

LEMMA TypeStep == TypeOK /\ [Next]_vars => TypeOK'
<1> SUFFICES ASSUME TypeOK, [Next]_vars PROVE TypeOK'  OBVIOUS
<1> USE RootAssumption DEF TypeOK, Running, Exits, host
<1>1. CASE Begin  BY <1>1 DEF Begin
<1>2. CASE Script
  <2> USE <1>2 DEF Script
  <2>1. CASE CheckRoot  BY <2>1 DEF CheckRoot
  <2>2. CASE AddUser  BY <2>2 DEF AddUser
  <2>3. CASE Packages
    <3>1. gcc' \in Compilers  BY <2>3 DEF Packages, Compilers
    <3> QED BY <3>1, <2>3 DEF Packages, AfterCheck
  <2>4. CASE Check  BY <2>4 DEF Check, AfterCheck
  <2>5. CASE GotGcc7
    <3>1. gcc' \in Compilers  BY <2>5 DEF GotGcc7, Compilers
    <3> QED BY <3>1, <2>5 DEF GotGcc7
  <2>6. CASE NoGcc7  BY <2>6 DEF NoGcc7
  <2>7. CASE Register7
    <3>1. gcc' \in Compilers  BY <2>7 DEF Register7, Registered, Compilers
    <3> QED BY <3>1, <2>7 DEF Register7
  <2>8. CASE Register8
    <3>1. gcc' \in Compilers  BY <2>8 DEF Register8, Registered, Compilers
    <3> QED BY <3>1, <2>8 DEF Register8
  <2>9. CASE Choose7
    <3>1. gcc' \in Compilers  BY <2>9 DEF Choose7, Chosen, Compilers
    <3> QED BY <3>1, <2>9 DEF Choose7
  <2>10. CASE WipeNginx  BY <2>10 DEF WipeNginx
  <2>11. CASE WipeLib  BY <2>11 DEF WipeLib
  <2>12. CASE MakeLib  BY <2>12 DEF MakeLib
  <2>13. CASE MakeRun  BY <2>13 DEF MakeRun
  <2>14. CASE MakeLog  BY <2>14 DEF MakeLog
  <2> QED BY <2>1, <2>2, <2>3, <2>4, <2>5, <2>6, <2>7, <2>8, <2>9, <2>10,
             <2>11, <2>12, <2>13, <2>14 DEF Function
<1>3. CASE Obey
  <2>1. gcc' \in Compilers  BY <1>3 DEF Obey, Chosen, Compilers
  <2> QED BY <2>1, <1>3 DEF Obey
<1>4. CASE Kill  BY <1>4 DEF Kill
<1>5. CASE Upgrade
  <2>1. gcc' \in Compilers  BY <1>5 DEF Upgrade, Compilers
  <2> QED BY <2>1, <1>5 DEF Upgrade
<1>6. CASE InstallNginx  BY <1>6 DEF InstallNginx
<1>7. CASE UNCHANGED vars  BY <1>7 DEF vars, rvars
<1> QED BY <1>1, <1>2, <1>3, <1>4, <1>5, <1>6, <1>7 DEF Next

(* gcc and update-alternatives stay sound: what is registered, or chosen,  *)
(* is there when it is.                                                    *)
LEMMA SoundStep == Inv /\ [Next]_vars => Sound(gcc)'
<1> SUFFICES ASSUME Inv, [Next]_vars PROVE Sound(gcc')
  BY DEF Sound, There
<1>0. gcc \in Compilers /\ Sound(gcc) /\ AtStep  BY DEF Inv, TypeOK
<1> USE DEF Sound, There, Compilers
<1>1. CASE UNCHANGED gcc  BY <1>0, <1>1
<1>2. CASE Packages
  <2>1. CASE gcc' = [gcc EXCEPT !.eight = TRUE, !.use = IF @ = 0 THEN 8 ELSE @]
    <3>1. /\ gcc'.eight /\ gcc'.known = gcc.known
          /\ gcc'.seven = gcc.seven
          /\ gcc'.use = IF gcc.use = 0 THEN 8 ELSE gcc.use
      BY <1>0, <2>1
    <3>2. There(gcc) \subseteq There(gcc') /\ 8 \in There(gcc')
      BY <1>0, <3>1
    <3> QED BY <1>0, <3>1, <3>2
  <2> QED BY <1>1, <1>2, <2>1 DEF Packages
<1>3. CASE GotGcc7  BY <1>0, <1>3 DEF GotGcc7
<1>4. CASE Register7  BY <1>0, <1>4 DEF Register7, Registered, AtStep
<1>5. CASE Register8  BY <1>0, <1>5 DEF Register8, Registered, AtStep
<1>6. CASE Choose7  BY <1>0, <1>6 DEF Choose7, Chosen
<1>7. CASE Obey  BY <1>0, <1>7 DEF Obey, Chosen
<1>8. CASE Upgrade  BY <1>0, <1>8 DEF Upgrade
<1>9. QED
  BY <1>1, <1>2, <1>3, <1>4, <1>5, <1>6, <1>7, <1>8
  DEF Next, Begin, Script, Function, CheckRoot, AddUser, Check, NoGcc7,
      WipeNginx, WipeLib, MakeLib, MakeRun, MakeLog, Kill, InstallNginx,
      vars, rvars

LEMMA AtStepStep == Inv /\ [Next]_vars => AtStep'
<1> SUFFICES ASSUME Inv, [Next]_vars PROVE AtStep'  OBVIOUS
<1>0. gcc \in Compilers /\ Sound(gcc) /\ AtStep  BY DEF Inv, TypeOK
<1> USE <1>0 DEF AtStep, PastCheck
<1>1. CASE Begin  BY <1>1 DEF Begin
<1>2. CASE Script
  <2> USE <1>2 DEF Script
  <2>1. CASE CheckRoot  BY <2>1 DEF CheckRoot
  <2>2. CASE AddUser  BY <2>2 DEF AddUser
  <2>3. CASE Packages  BY <2>3 DEF Packages, AfterCheck
  <2>4. CASE Check
    <3>1. gcc.eight /\ gcc.seven /\ ~(gcc.use > 7) => gcc.use = 7
      BY DEF Sound, There, Compilers
    <3> QED BY <3>1, <2>4 DEF Check, AfterCheck
  <2>5. CASE GotGcc7  BY <2>5 DEF GotGcc7, Compilers
  <2>6. CASE NoGcc7  BY <2>6 DEF NoGcc7
  <2>7. CASE Register7  BY <2>7 DEF Register7, Registered, Compilers
  <2>8. CASE Register8  BY <2>8 DEF Register8, Registered, Compilers
  <2>9. CASE Choose7  BY <2>9 DEF Choose7
  <2>10. CASE WipeNginx \/ WipeLib \/ MakeLib \/ MakeRun \/ MakeLog
    BY <2>10 DEF WipeNginx, WipeLib, MakeLib, MakeRun, MakeLog
  <2> QED BY <2>1, <2>2, <2>3, <2>4, <2>5, <2>6, <2>7, <2>8, <2>9, <2>10
          DEF Function
<1>3. CASE Obey  BY <1>3 DEF Obey
<1>4. CASE Kill  BY <1>4 DEF Kill
<1>5. CASE Upgrade  BY <1>5 DEF Upgrade, Exits
<1>6. CASE InstallNginx  BY <1>6 DEF InstallNginx
<1>7. CASE UNCHANGED vars  BY <1>7 DEF vars, rvars
<1> QED BY <1>1, <1>2, <1>3, <1>4, <1>5, <1>6, <1>7 DEF Next

LEMMA KeptStep == Inv /\ [Next]_vars => Kept'
<1> SUFFICES ASSUME Inv, [Next]_vars PROVE Kept'  OBVIOUS
<1> USE DEF Inv, Kept, Keeping, Exits, host
<1>1. CASE Begin  BY <1>1 DEF Begin
<1>2. CASE Script
  <2>1. CASE CheckRoot \/ AddUser \/ Packages
    BY <1>2, <2>1 DEF Script, CheckRoot, AddUser, Packages, AfterCheck
  <2>2. CASE Check  BY <1>2, <2>2 DEF Script, Check, AfterCheck
  <2>3. CASE GotGcc7 \/ NoGcc7 \/ Register7 \/ Register8 \/ Choose7
    BY <1>2, <2>3 DEF Script, GotGcc7, NoGcc7, Register7, Register8, Choose7
  <2>4. CASE WipeNginx \/ WipeLib \/ MakeLib \/ MakeRun \/ MakeLog
    BY <2>4 DEF WipeNginx, WipeLib, MakeLib, MakeRun, MakeLog
  <2> QED BY <1>2, <2>1, <2>2, <2>3, <2>4 DEF Script, Function
<1>3. CASE Obey  BY <1>3 DEF Obey
<1>4. CASE Kill  BY <1>4 DEF Kill
<1>5. CASE Upgrade  BY <1>5 DEF Upgrade
<1>6. CASE InstallNginx  BY <1>6 DEF InstallNginx
<1>7. CASE UNCHANGED vars  BY <1>7 DEF vars, rvars
<1> QED BY <1>1, <1>2, <1>3, <1>4, <1>5, <1>6, <1>7 DEF Next

LEMMA MadeStep == Inv /\ [Next]_vars => Made'
<1> SUFFICES ASSUME Inv, [Next]_vars PROVE Made'  OBVIOUS
<1> USE DEF Inv, Made, PastCheck, host
<1>1. CASE Begin  BY <1>1 DEF Begin
<1>2. CASE Script
  <2>1. CASE CheckRoot \/ AddUser  BY <2>1 DEF CheckRoot, AddUser
  <2>2. CASE Packages \/ Check  BY <2>2 DEF Packages, Check, AfterCheck
  <2>3. CASE GotGcc7 \/ NoGcc7 \/ Register7 \/ Register8 \/ Choose7
    BY <2>3 DEF GotGcc7, NoGcc7, Register7, Register8, Choose7
  <2>4. CASE WipeNginx \/ WipeLib  BY <2>4 DEF WipeNginx, WipeLib
  <2>5. CASE MakeLib \/ MakeRun \/ MakeLog
    BY <2>5 DEF MakeLib, MakeRun, MakeLog
  <2> QED BY <1>2, <2>1, <2>2, <2>3, <2>4, <2>5 DEF Script, Function
<1>3. CASE Obey  BY <1>3 DEF Obey
<1>4. CASE Kill  BY <1>4 DEF Kill
<1>5. CASE Upgrade  BY <1>5 DEF Upgrade, Exits
<1>6. CASE InstallNginx  BY <1>6 DEF InstallNginx
<1>7. CASE UNCHANGED vars  BY <1>7 DEF vars, rvars
<1> QED BY <1>1, <1>2, <1>3, <1>4, <1>5, <1>6, <1>7 DEF Next

LEMMA InvAlways == Spec => []Inv
<1>1. Init => Inv  BY InvInit
<1>2. Inv /\ [Next]_vars => Inv'
  BY TypeStep, SoundStep, AtStepStep, KeptStep, MadeStep DEF Inv
<1> QED BY <1>1, <1>2, PTL DEF Spec

(* Type correctness of root_prepare.                                       *)
THEOREM PrepareTypes == Spec => []TypeOK
<1>1. Inv => TypeOK  BY DEF Inv
<1> QED BY <1>1, InvAlways, PTL

(* Whatever was installed, upgraded or killed before, root_prepare goes on *)
(* to delete and to make directories only with gcc 7, or without a gcc 8.  *)
THEOREM GoesOnWithSeven == Spec => []CompilerIsSeven
<1>1. Inv => CompilerIsSeven  BY DEF Inv, AtStep, CompilerIsSeven
<1> QED BY <1>1, InvAlways, PTL

(* A run that exits with a message has deleted nothing of the installed    *)
(* nginx and of its directories.                                           *)
THEOREM ExitsKeepNginx == Spec => []ExitKeepsNginx
<1>1. Inv => ExitKeepsNginx  BY DEF Inv, Kept, Keeping, ExitKeepsNginx
<1> QED BY <1>1, InvAlways, PTL

(* A run with IS_LOCAL=0 that comes back leaves the user and every         *)
(* directory that nginx needs, and nothing of an earlier nginx's programs. *)
THEOREM PlaceIsLeft == Spec => []LeavesAPlace
<1>1. Inv => LeavesAPlace  BY DEF Inv, Made, LeavesAPlace
<1> QED BY <1>1, InvAlways, PTL
=============================================================================
