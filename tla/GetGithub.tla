------------------------------ MODULE GetGithub ------------------------------
(***************************************************************************)
(* get_github of src/nginx_builder: git pull in the folder of a repository *)
(* when it is there, git clone (of a branch or tag, if one is given) when  *)
(* it is not, and two lines for it in the file versions.                   *)
(*                                                                         *)
(* A repository has versions 1, 2, ...: upstream is the newest one, a pin  *)
(* is the tag the script asks for (0: none).  A folder has content, its    *)
(* own .git or not, and a version.  git looks for the enclosing repository *)
(* when a folder has no .git of its own, which is what prepare_for_archive *)
(* makes of every folder: pull and describe then work on the repository    *)
(* that the script itself was checked out from, if it was; a pull moves    *)
(* the sources that this repository tracks to versions of its own.         *)
(***************************************************************************)
EXTENDS Integers, Sequences

CONSTANTS
  Repos,       \* the repositories that the script names
  Untagged,    \* those of them that have no tags
  Around,      \* the folders that are inside the checkout of another one
  MaxVersion   \* a bound on the versions of a repository

VARIABLES
  step,     \* the next command of the function
  item,     \* the repository of the present call
  clone,    \* clone[r]: the state of the folder of r
  upstream, \* upstream[r]: the newest version at GitHub
  pin,      \* pin[r]: the third argument of the call for r
  versions, \* the lines of the file versions, two by two
  tracked,  \* the sources that the enclosing repository tracks
  arch,     \* the archives, see GetArch: some of them are tracked
  pulledAround, \* git pull was run on the enclosing repository
  healthy

gitFolders == <<clone, upstream, pin, tracked, arch, pulledAround>>

GitSteps == {"pull", "check", "url", "tag"}

Versions == 1..MaxVersion

NoTag     == 0    \* git describe says nothing
AroundTag == -1   \* it names a tag of the enclosing repository
Unwritten == -2   \* the line is not there yet
Tags      == Versions \cup {NoTag, AroundTag, Unwritten}

Absent  == [content |-> "absent", git |-> "none", at |-> 0]
Clones  == [content : {"absent", "partial", "whole"},
            git : {"none", "broken", "branch", "detached"},
            at : 0..MaxVersion]

GitTypeOK ==
  /\ clone \in [Repos -> Clones]
  /\ upstream \in [Repos -> Versions]
  /\ pin \in [Repos -> 0..MaxVersion]
  /\ versions \in Seq([repo : Repos, tag : Tags])
  /\ tracked \subseteq Repos \cup DOMAIN arch
  /\ pulledAround \in BOOLEAN

OwnGit(r)  == clone[r].git \in {"branch", "detached"}
-----------------------------------------------------------------------------
(* Mutant of FreshClone: the third argument is forgotten.                  *)
FreshCloneUnpinned(r) ==
  [content |-> "whole", git |-> "branch", at |-> upstream[r]]

(* Mutant of FreshClone: an export, without the .git of the repository.    *)
FreshExport(r) ==
  [content |-> "whole", git |-> "none", at |-> upstream[r]]

(* git clone [-b pin].  A clone that fails removes what it made, unless    *)
(* only its checkout failed.                                               *)
FreshClone(r) ==
  IF pin[r] = 0
  THEN [content |-> "whole", git |-> "branch",   at |-> upstream[r]]
  ELSE [content |-> "whole", git |-> "detached", at |-> pin[r]]

PartialClone(r) == [FreshClone(r) EXCEPT !.content = "partial"]

CloneResults(r) ==
  {FreshClone(r)} \cup (IF healthy THEN {} ELSE {Absent, PartialClone(r)})

(* A pull that ends in the middle of its checkout: the files are of two    *)
(* versions, and later pulls are refused or leave it so.                   *)
HalfPulled(r) == [clone[r] EXCEPT !.content = "partial"]

(* git pull in the folder of r.  On a detached HEAD it is refused, and in  *)
(* a clone that was killed it may be.                                      *)
PullResults(r) ==
  LET pulled == [clone[r] EXCEPT !.at = upstream[r]]
  IN IF clone[r].git # "branch" THEN {clone[r]}
     ELSE {pulled}
          \cup (IF healthy /\ clone[r].content = "whole" THEN {} ELSE {clone[r]})
          \cup (IF healthy \/ clone[r].at = upstream[r] THEN {} ELSE {HalfPulled(r)})

(* git pull on the enclosing repository: the sources that it tracks are    *)
(* moved to released versions, those in hurt not wholly.  A newer commit   *)
(* of it has the same folders.                                             *)
AroundPulled(hurt) ==
  /\ \E to \in [Repos -> Versions] :
       /\ \A r \in Repos : to[r] <= upstream[r]
       /\ clone' = [r \in Repos |->
            IF r \in tracked
            THEN [clone[r] EXCEPT !.at = to[r],
                    !.content = IF r \in hurt THEN "partial" ELSE clone[r].content]
            ELSE clone[r]]
  /\ arch' = [a \in DOMAIN arch |->
       IF a \in hurt THEN [arch[a] EXCEPT !.folder = "partial"] ELSE arch[a]]
  /\ pulledAround' = TRUE

Clone ==
  /\ clone[item].content = "absent"
  /\ \E res \in CloneResults(item) : clone' = [clone EXCEPT ![item] = res]
  /\ UNCHANGED <<arch, pulledAround>>

(* In the folder's own repository, or in none; a .git that was cut short   *)
(* or half removed may be taken for a repository, or not.                  *)
Pull ==
  /\ clone[item].content # "absent"
  /\ OwnGit(item) \/ item \notin Around \/ clone[item].git = "broken"
  /\ \E res \in PullResults(item) : clone' = [clone EXCEPT ![item] = res]
  /\ UNCHANGED <<arch, pulledAround>>

InAround == /\ clone[item].content # "absent"
            /\ item \in Around /\ ~OwnGit(item)

PullAround ==
  /\ InAround
  /\ \E hurt \in IF healthy THEN {{}} ELSE SUBSET tracked : AroundPulled(hurt)

PullOrClone ==
  /\ step = "pull" /\ step' = "check"
  /\ Clone \/ Pull \/ PullAround
  /\ UNCHANGED <<item, upstream, pin, versions, tracked, healthy>>

(* Mutant of Check: it looks for the .git of the folder.                   *)
CheckGit ==
  /\ step = "check"
  /\ step' = IF OwnGit(item) THEN "url" ELSE "exit"
  /\ UNCHANGED <<item, gitFolders, versions, healthy>>

Check ==
  /\ step = "check"
  /\ step' = IF clone[item].content = "absent" THEN "exit" ELSE "url"
  /\ UNCHANGED <<item, gitFolders, versions, healthy>>

RecordUrl ==
  /\ step = "url"
  /\ versions' = Append(versions, [repo |-> item, tag |-> Unwritten])
  /\ step' = "tag"
  /\ UNCHANGED <<item, gitFolders, healthy>>

(* Mutant of Describe: the tag that was asked for, not the one that is     *)
(* there.                                                                  *)
DescribePin(r) == {IF pin[r] # 0 THEN pin[r] ELSE clone[r].at}

(* git describe --tags --abbrev=0 in the folder of r.  A .git that was cut *)
(* short or half removed may be taken for a repository, or not.            *)
Describe(r) ==
  LET own    == {IF r \in Untagged THEN NoTag ELSE clone[r].at}
      around == {IF r \in Around THEN AroundTag ELSE NoTag}
  IN CASE clone[r].git = "none"   -> around
       [] clone[r].git = "broken" -> around \cup {NoTag}
       [] OTHER -> own \cup (IF clone[r].content = "whole" THEN {} ELSE {NoTag})

RecordTag ==
  /\ step = "tag"
  /\ \E t \in Describe(item) :
       versions' = [versions EXCEPT ![Len(versions)].tag = t]
  /\ step' = "return"
  /\ UNCHANGED <<item, gitFolders, healthy>>

GetGithub == PullOrClone \/ Check \/ RecordUrl \/ RecordTag

(* What a kill in the middle of git clone can leave: a folder whose .git   *)
(* is not complete, or one whose files are not; and in that of git pull.   *)
CloneCutShort ==
  \/ UNCHANGED <<clone, arch, pulledAround>>
  \/ /\ step = "pull" /\ clone[item].content = "absent"
     /\ \E left \in {PartialClone(item),
                     [PartialClone(item) EXCEPT !.git = "broken"]} :
          clone' = [clone EXCEPT ![item] = left]
     /\ UNCHANGED <<arch, pulledAround>>
  \/ /\ step = "pull" /\ clone[item].content # "absent"
     /\ clone[item].git = "branch" /\ clone[item].at < upstream[item]
     /\ clone' = [clone EXCEPT ![item] = HalfPulled(item)]
     /\ UNCHANGED <<arch, pulledAround>>
  \/ /\ step = "pull" /\ InAround
     /\ \E hurt \in SUBSET tracked : AroundPulled(hurt)
=============================================================================
