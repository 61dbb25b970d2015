----------------------------- MODULE SourceTree -----------------------------
(***************************************************************************)
(* What nginx_builder promises with IS_GET_ONLY=1, whatever happens to it  *)
(* on the way: a run obtains its sources one after the other, never loses  *)
(* one it has, and comes to its end only when it has them all.  How it     *)
(* obtains them, and what it leaves when it stops early, is not said here. *)
(***************************************************************************)
CONSTANT Items    \* the archives and the repositories

VARIABLES
  run,   \* "idle", "running", "done"
  have   \* the sources whose folder is there

vars == <<run, have>>

Init == run = "idle" /\ have \in SUBSET Items

Begin == run = "idle" /\ run' = "running" /\ UNCHANGED have

Obtain(i) == run = "running" /\ have' = have \cup {i} /\ UNCHANGED run

Finish == run = "running" /\ have = Items /\ run' = "done" /\ UNCHANGED have

(* The script exits or is killed, perhaps halfway through a source.        *)
Abort ==
  /\ run = "running" /\ run' = "idle"
  /\ \E i \in Items : have' \in {have, have \cup {i}}

Leave == run = "done" /\ run' = "idle" /\ UNCHANGED have

Next == Begin \/ (\E i \in Items : Obtain(i)) \/ Finish \/ Abort \/ Leave

Spec == Init /\ [][Next]_vars /\ WF_vars(Finish \/ Abort)
=============================================================================
