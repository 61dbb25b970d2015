---------------------------- MODULE MCRootPrepare ----------------------------
(* The compilers a Debian 10 may have when root_prepare is first run.      *)
EXTENDS RootPrepare

None  == [seven |-> FALSE, eight |-> FALSE, use |-> 0, known |-> {}, auto |-> TRUE]
Eight == [None EXCEPT !.eight = TRUE, !.use = 8]
Both  == [Eight EXCEPT !.seven = TRUE]

(* As Debian installs it, and as an earlier use of the builder left it.    *)
MCFirstGcc ==
  {None, Eight,
   [Both EXCEPT !.known = {7, 8}],
   [Both EXCEPT !.known = {7, 8}, !.use = 7, !.auto = FALSE]}
=============================================================================
