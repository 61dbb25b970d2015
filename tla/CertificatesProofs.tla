------------------------- MODULE CertificatesProofs -------------------------
(* For every user, any number of keys, and any interruptions.              *)
EXTENDS Certificates, SequenceTheorems, TLAPS

(* The values that the argument needs to tell apart.                       *)
Values ==
  /\ keys \in Nat
  /\ ETCSSL \in Places
  /\ key[ETCSSL] \in Nat
  /\ crt[ETCSSL] \in Int

(* A new key is only written, and a certificate's file only opened, while  *)
(* there is no certificate.                                                *)
OnlyWithout ==
  /\ pc \in {"pushd", "mkdir", "key", "open"} => crt[ETCSSL] = None
  /\ pc = "sign" => crt[ETCSSL] \in {None, Empty}

(* The key that a run is going to certify is a key.                        *)
KeyWritten == (pc \in {"open", "sign"} /\ Writes(ETCSSL)) => key[ETCSSL] > 0

(* While no run was ever cut short, a certificate's file in /etc is that   *)
(* of a run that is still at it, or it is complete and so are the          *)
(* parameters.                                                             *)
Complete == crt[ETCSSL] > 0 /\ dh[ETCSSL] = 1
Uncut ==
  (~cut /\ crt[ETCSSL] # None) =>
    CASE pc = "sign"                  -> Writes(ETCSSL)
      [] pc \in {"dhparam", "prime"}  -> Writes(ETCSSL) /\ crt[ETCSSL] > 0
      [] OTHER                        -> Complete

Inv == Values /\ KeyMatchesCert /\ OnlyWithout /\ KeyWritten /\ Uncut

LEMMA InvInit == Init => Inv
  BY DEF Init, Inv, Values, KeyMatchesCert, OnlyWithout, KeyWritten, Uncut,
         Places, ETCSSL, Homes, None, Empty

LEMMA InvStep == Inv /\ [Next]_vars => Inv'
<1> SUFFICES ASSUME Inv, [Next]_vars PROVE Inv'  OBVIOUS
<1> USE DEF Inv, Values, KeyMatchesCert, OnlyWithout, KeyWritten, Uncut,
            Complete, None, Empty, files
<1>w. ASSUME UNCHANGED <<sh, admin>> PROVE Writes(ETCSSL)' = Writes(ETCSSL)
  BY <1>w, Zenon DEF Writes
<1>1. CASE Begin  BY <1>1 DEF Begin
<1>2. CASE Test  BY <1>2 DEF Test
<1>3. CASE PushdEtc  BY <1>3 DEF PushdEtc
<1>4. CASE EnterSsl  BY <1>4 DEF EnterSsl
<1>5. CASE WriteKey  BY <1>5, <1>w DEF WriteKey
<1>6. CASE OpensslFails  BY <1>6, <1>w DEF OpensslFails
<1>7. CASE OpenCert  BY <1>7, <1>w DEF OpenCert
<1>8. CASE WriteCert  BY <1>8, <1>w DEF WriteCert
<1>9. CASE OpenDh  BY <1>9, <1>w DEF OpenDh
<1>10. CASE WriteDh  BY <1>10, <1>w DEF WriteDh
<1>11. CASE Up  BY <1>11 DEF Up
<1>12. CASE PopdEtc  BY <1>12 DEF PopdEtc
<1>13. CASE Interrupt  BY <1>13 DEF Interrupt
<1>14. CASE InstallNginx  BY <1>14, <1>w DEF InstallNginx
<1>15. CASE UNCHANGED vars  BY <1>15, <1>w DEF vars
<1> QED
  BY <1>1, <1>2, <1>3, <1>4, <1>5, <1>6, <1>7, <1>8, <1>9, <1>10, <1>11,
     <1>12, <1>13, <1>14, <1>15 DEF Next

LEMMA InvAlways == Spec => []Inv
  BY InvInit, InvStep, PTL DEF Spec
-----------------------------------------------------------------------------
(* Where the shell is: in $PARENTF, or with $PARENTF on its stack in       *)
(* /etc/<nginx> or what is above and below, or, as pushd failed, one down; *)
(* or nothing was there and nothing could be made, and cd .. goes above.   *)
Outset  == Shell(PARENTF, <<>>)
Down    == Shell(SSL(PARENTF), <<>>)
Out     == Shell(Above, <<>>)
Pushed  == sh.stack = <<PARENTF>>
Nowhere == ETC \notin dirs /\ SSL(PARENTF) \notin dirs

Position ==
  /\ pc \in {"idle", "test", "pushd"} => sh = Outset
  /\ pc = "mkdir" => (sh = Outset /\ ETC \notin dirs) \/ (Pushed /\ sh.cwd = ETC)
  /\ pc \in {"key", "open", "sign", "dhparam", "prime", "up"}
       => \/ sh = Down
          \/ sh = Outset /\ Nowhere
          \/ Pushed /\ sh.cwd \in {ETC, SSL(ETC)}
  /\ pc = "popd" => \/ sh = Outset
                    \/ sh = Out /\ Nowhere
                    \/ Pushed /\ sh.cwd \in {<<"/etc">>, ETC}
  /\ pc = "return" => sh = Outset \/ (sh = Out /\ Nowhere)

(* The directories it is in and comes back to exist.                       *)
Existing ==
  /\ {PARENTF, <<"/etc">>} \subseteq dirs /\ sh.cwd \in dirs \cup {Above}
  /\ pc \in {"mkdir", "key", "open", "sign", "dhparam", "prime", "up"} /\ Pushed
       => ETC \in dirs
  /\ dirs \subseteq {<<"/etc">>} \cup Homes \cup {SSL(d) : d \in Homes}

(* What Shell, pushd and popd, mkdir and cd, and cd .. do there.           *)
LEMMA ShellFields ==
  ASSUME NEW d, NEW s
  PROVE  Shell(d, s).cwd = d /\ Shell(d, s).stack = s
  BY DEF Shell

LEMMA OneOnStack ==
  /\ <<PARENTF>> \o <<>> = <<PARENTF>>
  /\ <<PARENTF>> # <<>>
  /\ Head(<<PARENTF>>) = PARENTF
  /\ Tail(<<PARENTF>>) = <<>>
<1>1. <<PARENTF>> \o <<>> = <<PARENTF>>  OBVIOUS
<1>2. <<PARENTF>> # <<>>  OBVIOUS
<1>3. Head(<<PARENTF>>) = PARENTF  OBVIOUS
<1>4. Tail(<<PARENTF>>) = <<>>  OBVIOUS
<1> QED BY <1>1, <1>2, <1>3, <1>4

LEMMA ParentOfChild ==
  ASSUME NEW S, NEW s \in Seq(S), NEW e \in S
  PROVE  SubSeq(Append(s, e), 1, Len(Append(s, e)) - 1) = s
<1>1. SubSeq(Append(s, e), 1, Len(s)) = s  OBVIOUS
<1>2. Len(Append(s, e)) = Len(s) + 1 /\ Len(s) \in Nat  OBVIOUS
<1>3. Len(Append(s, e)) - 1 = Len(s)  BY <1>2
<1> QED BY <1>1, <1>3, Zenon

(* cd .. from the directories the function can be in.                      *)
Parent(d) == SubSeq(d, 1, Len(d) - 1)

LEMMA Parents ==
  /\ Parent(SSL(PARENTF)) = PARENTF
  /\ Parent(SSL(ETC)) = ETC
  /\ Parent(ETC) = <<"/etc">>
  /\ Parent(PARENTF) = Above
<1> DEFINE Names == {"PARENTF", "ssl", "/etc", NGINXV}
<1>1. PARENTF \in Seq(Names) /\ ETC \in Seq(Names)  BY DEF PARENTF, ETC
<1>2. Parent(SSL(PARENTF)) = PARENTF
  BY <1>1, ParentOfChild DEF SSL, Parent
<1>3. Parent(SSL(ETC)) = ETC
  BY <1>1, ParentOfChild DEF SSL, Parent
<1>4. Parent(ETC) = <<"/etc">>
  <2>1. Len(ETC) = 2 /\ ETC[1] = "/etc"  BY DEF ETC
  <2>2. /\ SubSeq(ETC, 1, 1) \in Seq(Names) /\ Len(SubSeq(ETC, 1, 1)) = 1
        /\ SubSeq(ETC, 1, 1)[1] = ETC[1]
    BY <1>1, <2>1
  <2>3. /\ <<"/etc">> \in Seq(Names) /\ Len(<<"/etc">>) = 1
        /\ <<"/etc">>[1] = "/etc"
    OBVIOUS
  <2> HIDE DEF Names
  <2>4. SubSeq(ETC, 1, 1) = <<"/etc">>
    <3>1. \A i \in 1..Len(SubSeq(ETC, 1, 1)) : SubSeq(ETC, 1, 1)[i] = <<"/etc">>[i]
      BY <2>1, <2>2, <2>3
    <3>2. Len(SubSeq(ETC, 1, 1)) = Len(<<"/etc">>)  BY <2>2, <2>3
    <3> QED BY <2>2, <2>3, <3>1, <3>2, SeqEqual, Zenon
  <2>5. Len(ETC) - 1 = 1  BY <2>1
  <2> QED BY <2>4, <2>5, Zenon DEF Parent
<1>5. Parent(PARENTF) = Above  BY DEF Parent, Above
<1> QED BY <1>2, <1>3, <1>4, <1>5

LEMMA PositionStep ==
  Position /\ Existing /\ [Next]_vars => Position' /\ Existing'
<1> SUFFICES ASSUME Position, Existing, [Next]_vars
             PROVE  Position' /\ Existing'
  OBVIOUS
<1>o. Outset.cwd = PARENTF /\ Outset.stack = <<>>
  BY ShellFields, Zenon DEF Outset
<1>d. Down.cwd = SSL(PARENTF) /\ Down.stack = <<>>
  BY ShellFields, Zenon DEF Down
<1>n. Out.cwd = Above /\ Out.stack = <<>>
  BY ShellFields, Zenon DEF Out
<1>h. PARENTF \in Homes /\ ETC \in Homes  BY DEF Homes
<1>s. ASSUME sh' = Outset, dirs' = dirs, pc' \in {"idle", "test", "pushd", "popd", "return"}
      PROVE  Position' /\ Existing'
  BY <1>s, <1>o DEF Position, Existing
<1>u. ASSUME UNCHANGED <<sh, dirs>>,
             pc \in {"key", "open", "sign", "dhparam", "prime"},
             pc' \in {"open", "sign", "dhparam", "prime", "up"}
      PROVE  Position' /\ Existing'
  BY <1>u DEF Position, Existing, Pushed, Nowhere
<1>1. CASE Begin  BY <1>1, <1>s DEF Begin, Outset
<1>2. CASE Test
  <2>1. sh = Outset /\ pc' \in {"return", "pushd"} /\ UNCHANGED <<sh, dirs>>
    BY <1>2 DEF Test, Position
  <2> QED BY <1>s, <2>1
<1>3. CASE PushdEtc
  <2>0. pc = "pushd" /\ pc' = "mkdir" /\ dirs' = dirs /\ sh = Outset
    BY <1>3 DEF PushdEtc, Position
  <2>1. CASE sh' = sh /\ ETC \notin dirs
    <3>1. ~(Pushed')  BY <1>o, <2>0, <2>1, OneOnStack, Zenon DEF Pushed
    <3> QED BY <1>o, <2>0, <2>1, <3>1 DEF Position, Existing
  <2>2. CASE ETC \in dirs /\ sh' = Shell(ETC, <<sh.cwd>> \o sh.stack)
    <3>1. sh.cwd = PARENTF /\ sh.stack = <<>>  BY <1>o, <2>0, Zenon
    <3>2. sh'.stack = <<sh.cwd>> \o sh.stack /\ sh'.cwd = ETC
      BY <2>2, ShellFields, Zenon
    <3>3. sh'.stack = <<PARENTF>> \o <<>>  BY <3>1, <3>2, Zenon
    <3>4. Pushed'  BY <3>3, OneOnStack, Zenon DEF Pushed
    <3> QED BY <2>0, <2>2, <3>2, <3>4 DEF Position, Existing
  <2> QED BY <1>3, <2>1, <2>2 DEF PushdEtc
<1>4. CASE EnterSsl
  <2>0. /\ pc = "mkdir" /\ pc' = "key" /\ sh' = Cd(sh, "ssl", dirs')
        /\ dirs' \in {dirs, dirs \cup {SSL(sh.cwd)}}
    BY <1>4, Zenon DEF EnterSsl
  <2>1. CASE sh = Outset /\ ETC \notin dirs
    <3>1. dirs' \in {dirs, dirs \cup {SSL(PARENTF)}}
      BY <1>o, <2>0, <2>1, Zenon
    <3>2. SSL(PARENTF) \in {SSL(d) : d \in Homes}  BY <1>h
    <3>3. CASE SSL(PARENTF) \in dirs'
      <4>1. sh' = Down
        BY <1>o, <2>0, <2>1, <3>3, Zenon DEF Cd, SSL, Down
      <4>2. ~(Pushed')  BY <1>d, <4>1, OneOnStack, Zenon DEF Pushed
      <4> QED BY <1>d, <2>0, <3>1, <3>2, <3>3, <4>1, <4>2 DEF Position, Existing
    <3>4. CASE SSL(PARENTF) \notin dirs'
      <4>1. sh' = Outset
        BY <1>o, <2>0, <2>1, <3>4, Zenon DEF Cd, SSL
      <4>2. dirs' = dirs  BY <3>1, <3>4
      <4>3. ~(Pushed')  BY <1>o, <4>1, OneOnStack, Zenon DEF Pushed
      <4> QED BY <1>o, <2>0, <2>1, <3>4, <4>1, <4>2, <4>3
              DEF Position, Existing, Nowhere
    <3> QED BY <3>3, <3>4
  <2>2. CASE Pushed /\ sh.cwd = ETC
    <3>1. sh'.stack = sh.stack
      BY <2>0, ShellFields, Zenon DEF Cd
    <3>2. \/ sh'.cwd = SSL(ETC) /\ SSL(ETC) \in dirs'
          \/ sh'.cwd = ETC
      BY <2>0, <2>2, ShellFields, Zenon DEF Cd, SSL
    <3>3. SSL(ETC) \in {SSL(d) : d \in Homes}  BY <1>h
    <3>4. dirs \subseteq dirs' /\ dirs' \subseteq dirs \cup {SSL(ETC)}
      BY <2>0, <2>2, Zenon
    <3>5. ETC \in dirs  BY <2>0, <2>2 DEF Existing
    <3>6. Pushed' /\ sh'.cwd \in dirs' /\ sh'.cwd \in {ETC, SSL(ETC)}
      BY <2>2, <3>1, <3>2, <3>4, <3>5, Zenon DEF Pushed
    <3> QED BY <2>0, <3>3, <3>4, <3>5, <3>6 DEF Position, Existing
  <2> QED BY <2>0, <2>1, <2>2 DEF Position
<1>5. CASE WriteKey  BY <1>5, <1>u DEF WriteKey
<1>6. CASE OpensslFails \/ OpenCert \/ WriteCert \/ OpenDh \/ WriteDh
  BY <1>6, <1>u DEF OpensslFails, OpenCert, WriteCert, OpenDh, WriteDh
<1>7. CASE Up
  <2>0. /\ pc = "up" /\ pc' = "popd" /\ dirs' = dirs
        /\ sh' = Shell(Parent(sh.cwd), sh.stack)
    BY <1>7, Zenon DEF Up, Parent
  <2>1. CASE sh = Down
    <3>1. sh' = Outset
      BY <1>d, <2>0, <2>1, Parents, Zenon DEF Outset
    <3> QED BY <1>s, <2>0, <3>1
  <2>3. CASE sh = Outset /\ Nowhere
    <3>1. sh' = Out
      BY <1>o, <2>0, <2>3, Parents, Zenon DEF Out
    <3> QED BY <1>n, <2>0, <2>3, <3>1 DEF Position, Existing, Nowhere
  <2>2. CASE Pushed /\ sh.cwd \in {ETC, SSL(ETC)}
    <3>1. sh'.stack = sh.stack /\ sh'.cwd = Parent(sh.cwd)
      BY <2>0, ShellFields, Zenon
    <3>2. sh'.cwd \in {<<"/etc">>, ETC}  BY <2>2, <3>1, Parents, Zenon
    <3>3. Pushed'  BY <2>2, <3>1, Zenon DEF Pushed
    <3>4. ETC \in dirs /\ <<"/etc">> \in dirs  BY <2>0, <2>2 DEF Existing
    <3> QED BY <2>0, <3>2, <3>3, <3>4 DEF Position, Existing
  <2> QED BY <2>0, <2>1, <2>2, <2>3 DEF Position
<1>8. CASE PopdEtc
  <2>0. pc = "popd" /\ pc' = "return" /\ dirs' = dirs /\ sh' = Popd(sh)
    BY <1>8 DEF PopdEtc
  <2>1. CASE sh = Outset
    <3>1. sh' = Outset  BY <1>o, <2>0, <2>1, Zenon DEF Popd
    <3> QED BY <1>s, <2>0, <3>1
  <2>3. CASE sh = Out /\ Nowhere
    <3>1. sh' = Out  BY <1>n, <2>0, <2>3, Zenon DEF Popd
    <3> QED BY <1>n, <2>0, <2>3, <3>1 DEF Position, Existing, Nowhere
  <2>2. CASE Pushed
    <3>1. sh' = Outset
      BY <2>0, <2>2, OneOnStack, Zenon DEF Popd, Outset, Pushed
    <3> QED BY <1>s, <2>0, <3>1
  <2> QED BY <2>0, <2>1, <2>2, <2>3 DEF Position
<1>9. CASE Interrupt  BY <1>9, <1>s DEF Interrupt, Outset
<1>10. CASE InstallNginx
  <2>1. /\ sh' = Outset /\ dirs' = dirs \cup {ETC} /\ pc' = "idle"
    BY <1>10 DEF InstallNginx, Outset
  <2> QED BY <1>h, <1>o, <2>1 DEF Position, Existing
<1>11. CASE UNCHANGED vars
  BY <1>11 DEF vars, Position, Existing, Pushed, Nowhere
<1> QED
  BY <1>1, <1>2, <1>3, <1>4, <1>5, <1>6, <1>7, <1>8, <1>9, <1>10, <1>11
  DEF Next

LEMMA PositionInit == Init => Position /\ Existing
<1> SUFFICES ASSUME Init PROVE Position /\ Existing  OBVIOUS
<1>1. sh = Outset /\ pc = "idle"  BY DEF Init, Outset
<1>2. Outset.cwd = PARENTF  BY ShellFields, Zenon DEF Outset
<1>3. /\ {PARENTF, <<"/etc">>} \subseteq dirs
      /\ dirs \subseteq {<<"/etc">>} \cup Homes
  BY DEF Init, Homes
<1> QED BY <1>1, <1>2, <1>3 DEF Position, Existing

LEMMA PositionAlways == Spec => [](Position /\ Existing)
  BY PositionInit, PositionStep, PTL DEF Spec
-----------------------------------------------------------------------------
(* The files are those of keys that were generated.  Whoever signs has     *)
(* written a key: so no certificate is of no key.                          *)
Steps == {"idle", "test", "pushd", "mkdir", "key", "open", "sign",
          "dhparam", "prime", "up", "popd", "return"}
Files(d) ==
  /\ key[d] \in 0..keys
  /\ crt[d] \in {None, Empty} \cup 1..keys
  /\ dh[d] \in {None, Empty, 1}
  /\ (pc \in {"open", "sign"} /\ Writes(d)) => key[d] > 0

FilesInv ==
  /\ pc \in Steps /\ admin \in Admins /\ cut \in BOOLEAN
  /\ keys \in 0..MaxKeys
  /\ \A d \in Places : Files(d)

LEMMA FilesInit == Init => FilesInv
<1> SUFFICES ASSUME Init PROVE FilesInv  OBVIOUS
<1>1. ASSUME NEW d \in Places PROVE Files(d)
  BY DEF Init, Files
<1>2. pc \in Steps /\ admin \in Admins  BY DEF Init, Steps
<1>3. cut \in BOOLEAN  BY DEF Init
<1>4. keys = 0  BY DEF Init
<1>5. keys \in 0..MaxKeys  BY <1>4, CertAssumption
<1> QED BY <1>1, <1>2, <1>3, <1>5 DEF FilesInv

LEMMA FilesStep == FilesInv /\ [Next]_vars => FilesInv'
<1> SUFFICES ASSUME FilesInv, [Next]_vars PROVE FilesInv'  OBVIOUS
<1>a. /\ keys \in Nat /\ MaxKeys \in Nat /\ keys <= MaxKeys
      /\ \A d \in Places : Files(d)
  BY CertAssumption DEF FilesInv
<1>w. ASSUME UNCHANGED <<sh, admin>>, NEW d \in Places
      PROVE  Writes(d)' = Writes(d)
  BY <1>w, Zenon DEF Writes
<1> USE DEF files, Steps
<1>u. ASSUME UNCHANGED files, pc' \in Steps \ {"open", "sign"}, admin' \in Admins
      PROVE  FilesInv'
  BY <1>a, <1>u DEF FilesInv, Files
<1>1. CASE Begin  BY <1>1, <1>u DEF Begin
<1>2. CASE Test  BY <1>2, <1>u DEF Test, FilesInv
<1>3. CASE PushdEtc  BY <1>3, <1>u DEF PushdEtc, FilesInv
<1>4. CASE EnterSsl  BY <1>4, <1>u DEF EnterSsl, FilesInv
<1>5. CASE WriteKey
  <2>0. keys < MaxKeys /\ UNCHANGED <<sh, admin, crt, dh, cut>>
    BY <1>5 DEF WriteKey
  <2>1. CASE /\ pc' = "open" /\ keys' = keys + 1
             /\ key' = [d \in Places |-> IF Writes(d) THEN keys' ELSE key[d]]
    <3>1. ASSUME NEW d \in Places PROVE Files(d)'
      <4>1. key'[d] = IF Writes(d) THEN keys + 1 ELSE key[d]  BY <2>1
      <4> QED BY <1>a, <1>w, <2>0, <2>1, <4>1 DEF Files
    <3>2. keys' \in 0..MaxKeys  BY <1>a, <2>0, <2>1
    <3> QED BY <2>0, <2>1, <3>1, <3>2 DEF FilesInv
  <2>2. CASE pc' = "dhparam" /\ UNCHANGED <<key, keys>>
    BY <1>u, <2>0, <2>2 DEF FilesInv
  <2> QED BY <1>5, <2>1, <2>2 DEF WriteKey
<1>6. CASE OpensslFails
  BY <1>6, <1>a DEF OpensslFails, FilesInv, Files
<1>7. CASE OpenCert
  <2>0. /\ pc = "open" /\ pc' = "sign" /\ UNCHANGED <<sh, admin, key, dh, keys, cut>>
        /\ crt' = [d \in Places |-> IF Writes(d) THEN Empty ELSE crt[d]]
    BY <1>7 DEF OpenCert
  <2>1. ASSUME NEW d \in Places PROVE Files(d)'
    <3>1. crt'[d] \in {Empty, crt[d]}  BY <2>0
    <3> QED BY <1>a, <1>w, <2>0, <3>1 DEF Files
  <2> QED BY <2>0, <2>1 DEF FilesInv
<1>8. CASE WriteCert
  <2>0. /\ pc = "sign" /\ pc' = "dhparam" /\ UNCHANGED <<sh, admin, key, dh, keys, cut>>
        /\ crt' = [d \in Places |-> IF Writes(d) THEN key[d] ELSE crt[d]]
    BY <1>8 DEF WriteCert
  <2>1. ASSUME NEW d \in Places PROVE Files(d)'
    <3>1. crt'[d] = IF Writes(d) THEN key[d] ELSE crt[d]  BY <2>0
    <3> QED BY <1>a, <2>0, <3>1 DEF Files
  <2> QED BY <2>0, <2>1 DEF FilesInv
<1>9. CASE OpenDh \/ WriteDh
  <2>0. /\ pc' \in {"prime", "up"} /\ UNCHANGED <<sh, admin, key, crt, keys, cut>>
        /\ \A d \in Places : dh'[d] \in {dh[d], Empty, 1}
    BY <1>9 DEF OpenDh, WriteDh
  <2>1. ASSUME NEW d \in Places PROVE Files(d)'
    BY <1>a, <2>0 DEF Files
  <2> QED BY <2>0, <2>1 DEF FilesInv
<1>10. CASE Up  BY <1>10, <1>u DEF Up, FilesInv
<1>11. CASE PopdEtc  BY <1>11, <1>u DEF PopdEtc, FilesInv
<1>12. CASE Interrupt
  BY <1>12, <1>a DEF Interrupt, FilesInv, Files
<1>13. CASE InstallNginx  BY <1>13, <1>u DEF InstallNginx, FilesInv
<1>14. CASE UNCHANGED vars
  BY <1>14, <1>a, <1>w DEF vars, FilesInv, Files
<1> QED
  BY <1>1, <1>2, <1>3, <1>4, <1>5, <1>6, <1>7, <1>8, <1>9, <1>10, <1>11,
     <1>12, <1>13, <1>14 DEF Next

-----------------------------------------------------------------------------
(* The shell is in a directory that exists, every certificate is of a key  *)
(* that was generated.                                                     *)
THEOREM CertTypes == Spec => []TypeOK
<1>1. Position /\ Existing /\ FilesInv => TypeOK
  BY DEF Existing, FilesInv, Files, Steps, TypeOK
<1>2. Spec => []FilesInv  BY FilesInit, FilesStep, PTL DEF Spec
<1> QED BY <1>1, <1>2, PositionAlways, PTL

(* The key beside a certificate in /etc/<nginx>/ssl is the certificate's.  *)
THEOREM KeyIsTheCerts == Spec => []KeyMatchesCert
<1>1. Inv => KeyMatchesCert  BY DEF Inv
<1> QED BY <1>1, InvAlways, PTL

(* Unless a run was cut short at some time, a certificate that is there    *)
(* after a run is signed, and the parameters beside it are generated.      *)
THEOREM CertsAreComplete == Spec => []CertsComplete
<1>1. Inv => CertsComplete  BY DEF Inv, Uncut, Complete, CertsComplete
<1> QED BY <1>1, InvAlways, PTL

(* openssl_generate_localhost comes back with the shell where it was, or,  *)
(* where neither /etc/<nginx> nor $PARENTF/ssl is there, one above.        *)
THEOREM BackInParent == Spec => []BackWhereItBegan
<1>1. Position => BackWhereItBegan
  BY DEF Position, BackWhereItBegan, Outset, Out, Nowhere
<1> QED BY <1>1, PositionAlways, PTL
=============================================================================
