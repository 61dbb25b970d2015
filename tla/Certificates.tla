---------------------------- MODULE Certificates ----------------------------
(***************************************************************************)
(* openssl_generate_localhost of src/nginx_builder, for a user who calls   *)
(* it: a key, a certificate and Diffie-Hellman parameters in               *)
(* /etc/<nginx>/ssl.  Whether there is anything to do is decided by one of *)
(* the three files.  openssl req writes the key, then asks its questions,  *)
(* then opens the certificate's file and writes it; openssl dhparam opens  *)
(* its file, and writes it minutes later: the user may well interrupt.     *)
(* The directory exists once nginx has been installed with IS_LOCAL=0;     *)
(* before that pushd fails, and everything is made in $PARENTF/ssl, or, as *)
(* mkdir may fail as well, in $PARENTF itself: no command is checked.      *)
(***************************************************************************)
EXTENDS ShellDirs, Layout, Integers

CONSTANTS
  Admins,   \* whether the user is root: a set of Booleans
  MaxKeys   \* how many keys are generated

ASSUME CertAssumption == Admins \subseteq BOOLEAN /\ MaxKeys \in Nat

ETC    == <<"/etc", NGINXV>>
SSL(d) == Append(d, "ssl")
Homes  == {ETC, PARENTF}
Places == Homes \cup {SSL(d) : d \in Homes}   \* where openssl may be run
ETCSSL == SSL(ETC)
Above  == SubSeq(PARENTF, 1, Len(PARENTF) - 1)   \* the directory $PARENTF is in

VARIABLES
  pc,     \* the next command
  sh,     \* the shell
  dirs,   \* the directories that exist
  admin,  \* the run is root's
  key,    \* the key in each of the places: 0, or its number
  crt,    \* the certificate: None, Empty, or the number of its key
  dh,     \* dhparam.pem: None, Empty, or 1
  keys,   \* how many keys were generated
  cut     \* some run was interrupted, or one of its openssls failed

files == <<key, crt, dh, keys, cut>>
vars  == <<pc, sh, dirs, admin, files>>

None  == -2
Empty == -1

(* The place the shell is in, and may write to.                            *)
Writes(d) == sh.cwd = d /\ (admin \/ d \in {PARENTF, SSL(PARENTF)})
-----------------------------------------------------------------------------
Init ==
  /\ pc = "idle" /\ sh = Shell(PARENTF, <<>>)
  /\ dirs \in {{PARENTF, <<"/etc">>}, {PARENTF, <<"/etc">>, ETC}}
  /\ admin \in Admins
  /\ key = [d \in Places |-> 0]
  /\ crt = [d \in Places |-> None]
  /\ dh  = [d \in Places |-> None]
  /\ keys = 0 /\ cut = FALSE

Begin ==
  /\ pc \in {"idle", "return"} /\ pc' = "test"
  /\ sh' = Shell(PARENTF, <<>>)
  /\ admin' \in Admins
  /\ UNCHANGED <<dirs, files>>

(* Mutant of Test: the file that is made last decides.                     *)
TestLast ==
  /\ pc = "test"
  /\ pc' = IF dh[ETCSSL] # None THEN "return" ELSE "pushd"
  /\ UNCHANGED <<sh, dirs, admin, files>>

(* if [ ! -f "/etc/$NGINXV/ssl/localhost.crt" ]                            *)
Test ==
  /\ pc = "test"
  /\ pc' = IF crt[ETCSSL] # None THEN "return" ELSE "pushd"
  /\ UNCHANGED <<sh, dirs, admin, files>>

(* pushd "/etc/$NGINXV/"                                                   *)
PushdEtc ==
  /\ pc = "pushd" /\ pc' = "mkdir"
  /\ sh' = IF ETC \in dirs THEN Shell(ETC, <<sh.cwd>> \o sh.stack) ELSE sh
  /\ UNCHANGED <<dirs, admin, files>>

(* mkdir ssl ; cd ssl: a user cannot in root's directory, and nobody can   *)
(* on a full disk, beside a file called ssl, in a read-only checkout.      *)
EnterSsl ==
  /\ pc = "mkdir" /\ pc' = "key"
  /\ \/ (admin \/ sh.cwd = PARENTF) /\ dirs' = dirs \cup {SSL(sh.cwd)}
     \/ dirs' = dirs
  /\ sh' = Cd(sh, "ssl", dirs')
  /\ UNCHANGED <<admin, files>>

(* openssl req: the new private key                                        *)
WriteKey ==
  /\ pc = "key" /\ keys < MaxKeys
  /\ IF \E d \in Places : Writes(d)
     THEN /\ pc' = "open" /\ keys' = keys + 1
          /\ key' = [d \in Places |-> IF Writes(d) THEN keys' ELSE key[d]]
     ELSE pc' = "dhparam" /\ UNCHANGED <<key, keys>>
  /\ UNCHANGED <<sh, dirs, admin, crt, dh, cut>>

(* An openssl that cannot write, or that gets no answer to its questions,  *)
(* ends there, and the function goes on.                                   *)
OpensslFails ==
  /\ \/ pc \in {"key", "open", "sign"} /\ pc' = "dhparam"
     \/ pc \in {"dhparam", "prime"} /\ pc' = "up"
  /\ cut' = TRUE
  /\ UNCHANGED <<sh, dirs, admin, key, crt, dh, keys>>

(* openssl req: after the questions the certificate's file is opened       *)
OpenCert ==
  /\ pc = "open" /\ pc' = "sign"
  /\ crt' = [d \in Places |-> IF Writes(d) THEN Empty ELSE crt[d]]
  /\ UNCHANGED <<sh, dirs, admin, key, dh, keys, cut>>

(* Mutant of WriteCert: the script ends with it.                           *)
WriteCertOnly ==
  /\ pc = "sign" /\ pc' = "up"
  /\ crt' = [d \in Places |-> IF Writes(d) THEN key[d] ELSE crt[d]]
  /\ UNCHANGED <<sh, dirs, admin, key, dh, keys, cut>>

(* Mutant of WriteCert: without -keyout, it is of a key that nobody kept.  *)
WriteCertUnkept ==
  /\ pc = "sign" /\ pc' = "dhparam"
  /\ crt' = [d \in Places |-> IF Writes(d) THEN keys + 1 ELSE crt[d]]
  /\ UNCHANGED <<sh, dirs, admin, key, dh, keys, cut>>

WriteCert ==
  /\ pc = "sign" /\ pc' = "dhparam"
  /\ crt' = [d \in Places |-> IF Writes(d) THEN key[d] ELSE crt[d]]
  /\ UNCHANGED <<sh, dirs, admin, key, dh, keys, cut>>

(* openssl dhparam: the file is opened, then the prime is looked for       *)
OpenDh ==
  /\ pc = "dhparam" /\ pc' = "prime"
  /\ dh' = [d \in Places |-> IF Writes(d) THEN Empty ELSE dh[d]]
  /\ UNCHANGED <<sh, dirs, admin, key, crt, keys, cut>>

WriteDh ==
  /\ pc = "prime" /\ pc' = "up"
  /\ dh' = [d \in Places |-> IF Writes(d) THEN 1 ELSE dh[d]]
  /\ UNCHANGED <<sh, dirs, admin, key, crt, keys, cut>>

(* cd ..                                                                   *)
Up ==
  /\ pc = "up" /\ pc' = "popd"
  /\ sh' = Shell(SubSeq(sh.cwd, 1, Len(sh.cwd) - 1), sh.stack)
  /\ UNCHANGED <<dirs, admin, files>>

(* Mutant of PopdEtc: cd .. takes its place.                               *)
UpAgain ==
  /\ pc = "popd" /\ pc' = "return"
  /\ sh' = Shell(SubSeq(sh.cwd, 1, Len(sh.cwd) - 1), sh.stack)
  /\ UNCHANGED <<dirs, admin, files>>

PopdEtc ==
  /\ pc = "popd" /\ pc' = "return"
  /\ sh' = Popd(sh)
  /\ UNCHANGED <<dirs, admin, files>>

(* The user interrupts the script, at openssl's questions or later.        *)
Interrupt ==
  /\ pc \notin {"idle", "return"} /\ pc' = "idle"
  /\ sh' = Shell(PARENTF, <<>>)
  /\ cut' = TRUE
  /\ UNCHANGED <<dirs, admin, key, crt, dh, keys>>

(* make install of nginx makes the directory of nginx.conf.                *)
InstallNginx ==
  /\ pc \in {"idle", "return"} /\ pc' = "idle"
  /\ sh' = Shell(PARENTF, <<>>)
  /\ dirs' = dirs \cup {ETC}
  /\ UNCHANGED <<admin, files>>

Next == \/ Begin \/ Test \/ PushdEtc \/ EnterSsl \/ WriteKey \/ OpensslFails
        \/ OpenCert \/ WriteCert \/ OpenDh \/ WriteDh \/ Up \/ PopdEtc
        \/ Interrupt \/ InstallNginx

Spec == Init /\ [][Next]_vars
-----------------------------------------------------------------------------
TypeOK ==
  /\ pc \in {"idle", "test", "pushd", "mkdir", "key", "open", "sign",
             "dhparam", "prime", "up", "popd", "return"}
  /\ sh.cwd \in dirs \cup {Above} /\ PARENTF \in dirs
  /\ dirs \subseteq {<<"/etc">>} \cup Homes \cup {SSL(d) : d \in Homes}
  /\ admin \in Admins
  /\ \A d \in Places : /\ key[d] \in 0..keys
                       /\ crt[d] \in {None, Empty} \cup 1..keys
                       /\ dh[d] \in {None, Empty, 1}
  /\ keys \in 0..MaxKeys /\ cut \in BOOLEAN

(* A certificate in /etc/<nginx>/ssl, which nginx may already use, is that *)
(* of the key beside it, after any number of interrupted runs: a new key   *)
(* is only written while there is no certificate yet.                      *)
KeyMatchesCert == crt[ETCSSL] > 0 => key[ETCSSL] = crt[ETCSSL]

(* The function returns with the shell where it was, although pushd may    *)
(* fail, mkdir ssl may, or both: cd .. goes up from wherever cd ssl has    *)
(* left the shell, and popd takes it back.  Only where both failed, there  *)
(* is neither /etc/<nginx> nor $PARENTF/ssl, nothing is on the stack, and  *)
(* cd .. has taken the caller out of $PARENTF.                             *)
BackWhereItBegan ==
  pc = "return" =>
    \/ sh = Shell(PARENTF, <<>>)
    \/ sh = Shell(Above, <<>>) /\ {ETC, SSL(PARENTF)} \cap dirs = {}

(* The certificate is the only file that is looked for.  It stands for all *)
(* three as long as no run was interrupted and no openssl failed:          *)
(* then whoever finds a certificate finds it signed, and the parameters    *)
(* generated, whatever runs of other users came in between.                *)
CertsComplete ==
  (pc = "return" /\ admin /\ crt[ETCSSL] # None /\ ~cut)
    => crt[ETCSSL] > 0 /\ dh[ETCSSL] = 1
=============================================================================
