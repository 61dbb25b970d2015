------------------------------- MODULE Builder -------------------------------
(***************************************************************************)
(* The script src/nginx_builder as it ships (IS_GET_ONLY=1): main makes    *)
(* one call of get_github or get_arch after the other, then                *)
(* prepare_for_archive deletes the .git of every folder below $PARENTF.    *)
(* The order of the calls is the order of the lines of etc_src,            *)
(* ngx_module, luajit2_prepare, lua_src, openssl_get and ngx_src; the      *)
(* directory each of these makes and enters is part of an item's identity. *)
(*                                                                         *)
(* What a run finds is what earlier runs left: they may have lost the      *)
(* network, exited at a failed call, or been killed at any command,        *)
(* deleting included; GitHub goes on releasing; the maintainer edits the   *)
(* tags in the script.                                                     *)
(***************************************************************************)
EXTENDS Integers, Sequences, SequencesExt

CONSTANTS
  Archives,     \* the files that get_arch is called for
  Repos,        \* the repositories that get_github is called for
  Calls,        \* the calls, in order: a sequence of archives and repositories
  Stripped,     \* the repositories whose folder is below $PARENTF
  Untagged,     \* the repositories that have no tags
  FirstPins,    \* FirstPins[r]: the tag the script asks for, 0 if none
  Checkout,     \* whether $PARENTF is in a checkout of a repository
  MayEdit,      \* the repositories whose tag the maintainer may edit
  MaxVersion,   \* a bound on the versions of a repository
  MaxTrouble    \* a bound on the kills, and the runs without network or disk

ASSUME CallsAssumption ==
  /\ Archives \cap Repos = {}
  /\ Calls \in Seq(Archives \cup Repos)
  /\ Range(Calls) = Archives \cup Repos
  /\ IsInjective(Calls)
  /\ Calls # <<>>

ASSUME SettingAssumption ==
  /\ Stripped \subseteq Repos
  /\ Untagged \subseteq Repos
  /\ MaxVersion \in Nat \ {0}
  /\ FirstPins \in [Repos -> 0..MaxVersion]
  /\ Checkout \in BOOLEAN /\ MayEdit \subseteq Repos
  /\ MaxTrouble \in Nat

(* The folders in which git, finding no .git, goes on to the checkout.     *)
Around == IF Checkout THEN Stripped ELSE {}

VARIABLES
  pc,        \* "idle", "calling", "stripping", "done"
  index,     \* the place of the present call in Calls
  step,      \* the next command of the function that is called
  item,      \* its argument
  arch,      \* the archives, see GetArch
  clone,     \* the repositories, see GetGithub
  upstream,
  pin,
  versions,
  tracked,
  pulledAround,
  healthy,   \* network and disk work during the present run
  disowned,  \* some .git was removed, or left incomplete by a kill
  trouble    \* how often something went wrong

A == INSTANCE GetArch
G == INSTANCE GetGithub

gitVars == <<clone, upstream, pin, versions, tracked, pulledAround>>
history == <<disowned, trouble>>
vars == <<pc, index, step, item, arch, gitVars, healthy, history>>

-----------------------------------------------------------------------------
FirstStep(i) == IF i \in Archives THEN "download" ELSE "pull"

(* The sources of an archive that prepare_for_archive made, in a checkout  *)
(* of that archive: every folder is there, no .git, no tar file.           *)
ArchiveFolder == [file |-> "absent", folder |-> "whole"]
ArchivedClone(r) ==
  [content |-> "whole", git |-> "none",
   at |-> IF FirstPins[r] = 0 THEN 1 ELSE FirstPins[r]]

(* The script stands alone in a directory, or in a checkout without the    *)
(* sources, or in a checkout that has them.                                *)
Init ==
  /\ pc = "idle" /\ step = "return"
  /\ index = 1 /\ item = Calls[1]
  /\ upstream = [r \in Repos |-> IF FirstPins[r] = 0 THEN 1 ELSE FirstPins[r]]
  /\ pin = FirstPins
  /\ versions = <<>>
  /\ pulledAround = FALSE
  /\ healthy = TRUE
  /\ trouble = 0
  /\ \/ /\ arch = [a \in Archives |-> [file |-> "absent", folder |-> "absent"]]
        /\ clone = [r \in Repos |-> G!Absent]
        /\ tracked = {} /\ disowned = FALSE
     \/ /\ Checkout
        /\ arch = [a \in Archives |-> ArchiveFolder]
        /\ clone = [r \in Repos |-> IF r \in Stripped THEN ArchivedClone(r) ELSE G!Absent]
        /\ tracked = Archives \cup Stripped /\ disowned = TRUE

(* Mutant of Start: without rm versions.                                   *)
StartKeepsVersions ==
  /\ pc = "idle"
  /\ pc' = "calling"
  /\ index' = 1 /\ item' = Calls[1] /\ step' = FirstStep(Calls[1])
  /\ \/ healthy' = TRUE /\ UNCHANGED trouble
     \/ trouble < MaxTrouble /\ healthy' = FALSE /\ trouble' = trouble + 1
  /\ UNCHANGED <<arch, gitVars, disowned>>

(* ./nginx_builder, up to the first call.                                  *)
Start ==
  /\ pc = "idle"
  /\ pc' = "calling"
  /\ index' = 1 /\ item' = Calls[1] /\ step' = FirstStep(Calls[1])
  /\ versions' = <<>>
  /\ \/ healthy' = TRUE /\ UNCHANGED trouble
     \/ trouble < MaxTrouble /\ healthy' = FALSE /\ trouble' = trouble + 1
  /\ UNCHANGED <<arch, clone, upstream, pin, tracked, pulledAround, disowned>>

ArchStep ==
  /\ pc = "calling" /\ A!GetArch
  /\ UNCHANGED <<pc, index, gitVars, history>>

GitStep ==
  /\ pc = "calling" /\ G!GetGithub
  /\ UNCHANGED <<pc, index, history>>

(* Mutant of NextCall: the argument of the call before.                    *)
NextCallSameItem ==
  /\ pc = "calling" /\ step = "return"
  /\ IF index < Len(Calls)
     THEN /\ index' = index + 1
          /\ step' = FirstStep(item)
          /\ UNCHANGED <<pc, disowned>>
     ELSE /\ pc' = "stripping" /\ disowned' = TRUE
          /\ UNCHANGED <<index, step>>
  /\ UNCHANGED <<item, arch, gitVars, healthy, trouble>>

(* The call returned: the next one, or else prepare_for_archive.           *)
NextCall ==
  /\ pc = "calling" /\ step = "return"
  /\ IF index < Len(Calls)
     THEN /\ index' = index + 1
          /\ item' = Calls[index + 1]
          /\ step' = FirstStep(Calls[index + 1])
          /\ UNCHANGED <<pc, disowned>>
     ELSE /\ pc' = "stripping" /\ disowned' = TRUE
          /\ UNCHANGED <<index, item, step>>
  /\ UNCHANGED <<arch, gitVars, healthy, trouble>>

(* err: exit 1                                                             *)
Exit ==
  /\ pc = "calling" /\ step = "exit"
  /\ pc' = "idle"
  /\ UNCHANGED <<index, step, item, arch, gitVars, healthy, history>>

(* What find . -type d -name .git lists.                                   *)
HasGit == {r \in Stripped : clone[r].git # "none"}

(* rm -rf, one .git after the other.                                       *)
StripOne ==
  /\ pc = "stripping"
  /\ \E r \in HasGit : clone' = [clone EXCEPT ![r].git = "none"]
  /\ UNCHANGED <<pc, index, step, item, arch, upstream, pin, versions,
                 tracked, pulledAround, healthy, history>>

(* Nobody looks at what rm says of a .git that it could not remove.        *)
StripDone ==
  /\ pc = "stripping" /\ (HasGit = {} \/ ~healthy)
  /\ pc' = "done"
  /\ UNCHANGED <<index, step, item, arch, gitVars, healthy, history>>

(* The process is gone.                                                    *)
Leave ==
  /\ pc = "done"
  /\ pc' = "idle"
  /\ UNCHANGED <<index, step, item, arch, gitVars, healthy, history>>

Killed ==
  /\ trouble < MaxTrouble /\ trouble' = trouble + 1
  /\ pc' = "idle"
  /\ disowned' = (disowned \/ \E r \in Repos : clone'[r].git = "broken")
  /\ UNCHANGED <<index, step, item, upstream, pin, versions, tracked, healthy>>

(* The script is killed in a call, and with it the command it is running.  *)
KillArch == /\ pc = "calling" /\ item \in Archives /\ A!CutShort
            /\ UNCHANGED <<clone, pulledAround>>
            /\ Killed
KillGit  == pc = "calling" /\ item \in Repos /\ G!CloneCutShort /\ Killed

(* ... and in rm -rf of a .git.                                            *)
KillStrip ==
  /\ pc = "stripping"
  /\ \/ UNCHANGED clone
     \/ \E r \in HasGit : clone' = [clone EXCEPT ![r].git = "broken"]
  /\ UNCHANGED <<arch, pulledAround>>
  /\ Killed

(* A new version at GitHub, at any time.                                   *)
Release ==
  /\ \E r \in Repos :
       /\ upstream[r] < MaxVersion
       /\ upstream' = [upstream EXCEPT ![r] = upstream[r] + 1]
  /\ UNCHANGED <<pc, index, step, item, arch, clone, pin, versions, tracked,
                 pulledAround, healthy, history>>

(* The maintainer moves a tag in the script to another released version,   *)
(* adds one or takes it out.                                               *)
EditPin ==
  /\ pc = "idle"
  /\ \E r \in MayEdit : \E v \in 0..upstream[r] :
       pin' = [pin EXCEPT ![r] = v]
  /\ UNCHANGED <<pc, index, step, item, arch, clone, upstream, versions,
                 tracked, pulledAround, healthy, history>>

Script == ArchStep \/ GitStep \/ NextCall \/ Exit \/ StripOne \/ StripDone

Next == \/ Start \/ Script \/ Leave
        \/ KillArch \/ KillGit \/ KillStrip
        \/ Release \/ EditPin

(* Every command the script runs ends: wget, tar, git and rm give up at    *)
(* some time.                                                              *)
Spec == Init /\ [][Next]_vars /\ WF_vars(Script)
-----------------------------------------------------------------------------
TypeOK ==
  /\ pc \in {"idle", "calling", "stripping", "done"}
  /\ index \in 1..Len(Calls)
  /\ item = Calls[index]
  /\ step \in {"return", "exit"}
              \cup (IF item \in Archives THEN A!ArchSteps ELSE G!GitSteps)
  /\ A!ArchTypeOK
  /\ G!GitTypeOK
  /\ healthy \in BOOLEAN
  /\ disowned \in BOOLEAN
  /\ trouble \in 0..MaxTrouble

(* The file versions of a run that came to its end names every repository, *)
(* in the order of the calls (so each of them once), and each with its     *)
(* second line: whatever killed runs wrote before.                         *)
ManifestComplete ==
  pc \in {"stripping", "done"} =>
    /\ \A r \in Repos : \E n \in DOMAIN versions : versions[n].repo = r
    /\ \A m, n \in DOMAIN versions : m < n =>
         \A i, j \in DOMAIN Calls :
           Calls[i] = versions[m].repo /\ Calls[j] = versions[n].repo => i < j
    /\ \A n \in DOMAIN versions : versions[n].tag # G!Unwritten

(* A tag in versions is the tag of what is in the folder, or is one of the *)
(* enclosing checkout; the latter only in a folder that is not, or was not *)
(* when the run came by, a repository.                                     *)
ManifestTruthful ==
  \A n \in DOMAIN versions :
    LET r == versions[n].repo
        t == versions[n].tag
    IN /\ t \in G!Versions => clone[r].at = t
       /\ t = G!AroundTag => r \in Around /\ ~G!OwnGit(r)

(* When network and disk work, the script exits early for one reason only: *)
(* an earlier download left a file without a folder in it, which the test  *)
(* for existence takes for the archive.                                    *)
HealthyRunFailsOnlyOnPoison ==
  (pc = "calling" /\ step = "exit" /\ healthy)
    => item \in Archives /\ A!Poisoned(item)

(* A git pull over a folder that is there does not come to its end: the    *)
(* run has no network or disk, or is killed in it.                         *)
PullCut ==
  /\ pc = "calling" /\ item \in Repos /\ step = "pull"
  /\ clone[item].content # "absent"
  /\ ~healthy \/ pc' = "idle"

(* A source that is complete stays complete, through later runs without    *)
(* network, kills and releases, but for one thing: a git pull that is cut  *)
(* short, in the folder if that is a clone on a branch, or in any folder   *)
(* without a .git when the enclosing checkout tracks the source.  Archives *)
(* and clones of a tag are safe where the checkout does not track them.    *)
WholeStaysWhole ==
  [][/\ \A a \in Archives :
          arch[a].folder = "whole" /\ arch'[a].folder # "whole"
            => PullCut /\ a \in tracked /\ ~G!OwnGit(item)
     /\ \A r \in Repos :
          clone[r].content = "whole" /\ clone'[r].content # "whole"
            => /\ PullCut
               /\ IF r \in tracked THEN ~G!OwnGit(item)
                  ELSE r = item /\ clone[r].git = "branch"]_vars

(* git pull works on the checkout that the script is in only once there    *)
(* was a prepare_for_archive, in this directory or of the archive it comes *)
(* from, or a git clone that was killed: neither lost network nor runs     *)
(* that exit bring it about.                                               *)
EnclosingNotPulled == pulledAround => disowned

(* The folder of a pinned repository gets the tag that the script names    *)
(* when it clones (src/README.md:35, src/nginx_builder:335,356), and       *)
(* whatever comes after, releases, failures, kills, and tags that are      *)
(* moved, added or taken out in the script, one thing only moves it: git   *)
(* pull, of the enclosing checkout that tracks the folder, or else of the  *)
(* folder itself, which was then cloned without a tag.                     *)
PinsHold ==
  [][\A r \in Repos :
       /\ pin[r] # 0 /\ clone[r].content = "absent" /\ clone'[r].content # "absent"
            => clone'[r].at = pin[r] /\ clone'[r].git # "branch"
       /\ clone[r].content # "absent" /\ clone'[r].at # clone[r].at
            => /\ pc = "calling" /\ step = "pull"
               /\ IF r \in tracked THEN ~G!OwnGit(item)
                  ELSE r = item /\ clone[r].git = "branch"]_vars

-----------------------------------------------------------------------------
(* The sources the script has are the folders that are there.              *)
Have == {a \in Archives : arch[a].folder # "absent"}
        \cup {r \in Repos : clone[r].content # "absent"}

Tree == INSTANCE SourceTree WITH
          Items <- Archives \cup Repos,
          run   <- CASE pc = "idle" -> "idle"
                     [] pc = "done" -> "done"
                     [] OTHER       -> "running",
          have  <- Have

(* The script keeps the promise of SourceTree: whatever state its files    *)
(* are in, and however often it exits or is killed, it never loses a       *)
(* source, comes to its end only with all of them, and every run ends.     *)
ObtainsTheTree == Tree!Spec
=============================================================================
