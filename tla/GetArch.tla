------------------------------- MODULE GetArch -------------------------------
(***************************************************************************)
(* get_arch of src/nginx_builder: fetch an archive unless the file is      *)
(* there, unpack it unless the folder is there, exit when one of the two   *)
(* is still missing.                                                       *)
(*                                                                         *)
(* Both tests look at existence only (-f and -d), and no exit status is    *)
(* looked at, so what matters of a file and of a folder is how it can be   *)
(* there and yet be wrong.  wget -O creates its output file first: a       *)
(* download that fails leaves it empty (or so short that tar finds no      *)
(* folder in it) or cut.  A cut archive, or a tar that is killed, leaves a *)
(* partial folder.                                                         *)
(*                                                                         *)
(* The actions belong to one shell that executes one call at a time: step  *)
(* is its place in the function, item the call's argument.  healthy says   *)
(* that network and disk work during the present run.                      *)
(***************************************************************************)
CONSTANT Archives

VARIABLES
  step,     \* the next command of the function
  item,     \* the archive of the present call
  arch,     \* arch[a]: the state of the file and of the folder of a
  healthy   \* network and disk work

ArchSteps == {"download", "unpack", "verify"}

Files   == {"absent", "empty", "cut", "whole"}
Folders == {"absent", "partial", "whole"}

ArchTypeOK == arch \in [Archives -> [file : Files, folder : Folders]]

File   == arch[item].file
Folder == arch[item].folder
-----------------------------------------------------------------------------
(* What wget -O leaves.                                                    *)
DownloadResults == IF healthy THEN {"whole"} ELSE {"whole", "cut", "empty"}

(* What tar xf leaves of a file.                                           *)
UnpackResults(file) ==
  CASE file = "whole" -> IF healthy THEN {"whole"} ELSE Folders
    [] file = "cut"   -> IF healthy THEN {"partial"} ELSE {"partial", "absent"}
    [] OTHER          -> {"absent"}

Download ==
  /\ step = "download"
  /\ IF File = "absent"
     THEN \E f \in DownloadResults : arch' = [arch EXCEPT ![item].file = f]
     ELSE UNCHANGED arch
  /\ step' = "unpack"
  /\ UNCHANGED <<item, healthy>>

(* Mutant of Unpack: with the rm -rf of the folder, which the code has in a *)
(* comment, and the tar that then follows.                                 *)
UnpackAnew ==
  /\ step = "unpack"
  /\ \E f \in UnpackResults(File) : arch' = [arch EXCEPT ![item].folder = f]
  /\ step' = "verify"
  /\ UNCHANGED <<item, healthy>>

Unpack ==
  /\ step = "unpack"
  /\ IF Folder = "absent"
     THEN \E f \in UnpackResults(File) : arch' = [arch EXCEPT ![item].folder = f]
     ELSE UNCHANGED arch
  /\ step' = "verify"
  /\ UNCHANGED <<item, healthy>>

(* Mutant of Verify: a missing folder is not an error.                     *)
VerifyFileOnly ==
  /\ step = "verify"
  /\ step' = IF File = "absent" THEN "exit" ELSE "return"
  /\ UNCHANGED <<item, arch, healthy>>

Verify ==
  /\ step = "verify"
  /\ step' = IF File = "absent" \/ Folder = "absent" THEN "exit" ELSE "return"
  /\ UNCHANGED <<item, arch, healthy>>

GetArch == Download \/ Unpack \/ Verify

(* What a kill of the script in the middle of wget or tar leaves; a kill   *)
(* between two commands leaves everything as it is.                        *)
CutShort ==
  \/ UNCHANGED arch
  \/ /\ step = "download" /\ File = "absent"
     /\ \E f \in {"empty", "cut"} : arch' = [arch EXCEPT ![item].file = f]
  \/ /\ step = "unpack" /\ Folder = "absent" /\ File \in {"cut", "whole"}
     /\ arch' = [arch EXCEPT ![item].folder = "partial"]

(* An archive that no later call obtains: the file is there, so it is not  *)
(* fetched again, and there is nothing in it.                              *)
Poisoned(a) == arch[a].file = "empty" /\ arch[a].folder = "absent"
=============================================================================
