------------------------------ MODULE ShellDirs ------------------------------
(***************************************************************************)
(* The directory builtins of bash, as the scripts install and              *)
(* nginx_builder use them.  Neither script runs under "set -e", so a cd or *)
(* a pushd to a directory that is not there prints a message, leaves the   *)
(* shell where it was, and the next command runs all the same.             *)
(*                                                                         *)
(* A path is the sequence of its components.  A shell is a record of the   *)
(* working directory and of the directories that popd will return to, the  *)
(* nearest one first.  dirs is the set of the directories that exist.      *)
(***************************************************************************)
EXTENDS Sequences

Shell(cwd, stack) == [cwd |-> cwd, stack |-> stack]

(* cd name                                                                 *)
Cd(sh, name, dirs) ==
  IF Append(sh.cwd, name) \in dirs
  THEN Shell(Append(sh.cwd, name), sh.stack)
  ELSE sh

(* pushd name                                                              *)
Pushd(sh, name, dirs) ==
  IF Append(sh.cwd, name) \in dirs
  THEN Shell(Append(sh.cwd, name), <<sh.cwd>> \o sh.stack)
  ELSE sh

(* popd: "directory stack empty" is one more message nobody reads          *)
Popd(sh) ==
  IF sh.stack = <<>>
  THEN sh
  ELSE Shell(Head(sh.stack), Tail(sh.stack))
=============================================================================
