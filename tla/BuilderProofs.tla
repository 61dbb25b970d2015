---------------------------- MODULE BuilderProofs ----------------------------
(* For every list of calls, every set of pins and untagged repositories,   *)
(* any number of versions, kills and failures.                             *)
EXTENDS Builder, SequenceTheorems, FiniteSetTheorems, TLAPS

(* The calls are archives and repositories, one or the other.              *)
LEMMA CallsAreCalls ==
  /\ Len(Calls) \in Nat /\ 1 \in 1..Len(Calls)
  /\ \A i \in 1..Len(Calls) : Calls[i] \in Archives \cup Repos
<1>1. Calls \in Seq(Archives \cup Repos) /\ Calls # <<>>  BY CallsAssumption
<1>2. Len(Calls) \in Nat /\ Len(Calls) # 0
  BY <1>1, EmptySeq, LenProperties
<1>3. \A i \in 1..Len(Calls) : Calls[i] \in Archives \cup Repos
  BY <1>1, ElementOfSeq
<1> QED BY <1>2, <1>3

(* What git clone and git pull can leave is a state of a folder.           *)
LEMMA GitResults ==
  ASSUME TypeOK, NEW r \in Repos
  PROVE  /\ G!FreshClone(r) \in G!Clones
         /\ G!PartialClone(r) \in G!Clones
         /\ [G!PartialClone(r) EXCEPT !.git = "broken"] \in G!Clones
         /\ G!CloneResults(r) \subseteq G!Clones
         /\ G!PullResults(r) \subseteq G!Clones
         /\ G!HalfPulled(r) \in G!Clones
<1> USE DEF TypeOK, G!GitTypeOK, G!Clones, G!Versions
<1>0. /\ clone[r] \in G!Clones /\ pin[r] \in 0..MaxVersion
      /\ upstream[r] \in 0..MaxVersion
  BY SettingAssumption
<1>1. G!FreshClone(r) \in G!Clones  BY <1>0 DEF G!FreshClone
<1>2. G!PartialClone(r) \in G!Clones  BY <1>1 DEF G!PartialClone
<1>3. [G!PartialClone(r) EXCEPT !.git = "broken"] \in G!Clones  BY <1>2
<1>4. G!Absent \in G!Clones  BY SettingAssumption DEF G!Absent
<1>5. G!CloneResults(r) \subseteq G!Clones
  BY <1>1, <1>2, <1>4 DEF G!CloneResults
<1>6. [clone[r] EXCEPT !.at = upstream[r]] \in G!Clones  BY <1>0
<1>7. G!HalfPulled(r) \in G!Clones  BY <1>0 DEF G!HalfPulled
<1>8. G!PullResults(r) \subseteq G!Clones
  BY <1>0, <1>6, <1>7, Zenon DEF G!PullResults
<1> QED BY <1>1, <1>2, <1>3, <1>5, <1>7, <1>8

(* What a pull of the enclosing repository does to each folder.            *)
LEMMA AroundResults ==
  ASSUME TypeOK, NEW hurt, G!AroundPulled(hurt)
  PROVE  /\ clone' \in [Repos -> G!Clones]
         /\ arch' \in [Archives -> [file : A!Files, folder : A!Folders]]
         /\ pulledAround' = TRUE
         /\ \A r \in Repos :
              /\ clone'[r].git = clone[r].git
              /\ clone'[r].content \in {clone[r].content, "partial"}
              /\ r \notin tracked => clone'[r] = clone[r]
              /\ r \notin hurt => clone'[r].content = clone[r].content
         /\ \A a \in Archives :
              /\ arch'[a].file = arch[a].file
              /\ arch'[a].folder \in {arch[a].folder, "partial"}
              /\ a \notin hurt => arch'[a] = arch[a]
<1>a. /\ clone \in [Repos -> G!Clones]
      /\ arch \in [Archives -> [file : A!Files, folder : A!Folders]]
      /\ DOMAIN arch = Archives
  BY DEF TypeOK, A!ArchTypeOK, G!GitTypeOK
<1>1. PICK to \in [Repos -> G!Versions] :
        clone' = [r \in Repos |->
          IF r \in tracked
          THEN [clone[r] EXCEPT !.at = to[r],
                  !.content = IF r \in hurt THEN "partial" ELSE clone[r].content]
          ELSE clone[r]]
  BY DEF G!AroundPulled
<1>2. ASSUME NEW r \in Repos
      PROVE  /\ clone'[r] \in G!Clones
             /\ clone'[r].git = clone[r].git
             /\ clone'[r].content \in {clone[r].content, "partial"}
             /\ r \notin tracked => clone'[r] = clone[r]
             /\ r \notin hurt => clone'[r].content = clone[r].content
  <2>1. to[r] \in 0..MaxVersion /\ clone[r] \in G!Clones
    BY <1>a, SettingAssumption DEF G!Versions
  <2> DEFINE c == IF r \in hurt THEN "partial" ELSE clone[r].content
             d == [clone[r] EXCEPT !.at = to[r], !.content = c]
  <2>2. c \in {"absent", "partial", "whole"}  BY <2>1 DEF G!Clones
  <2> HIDE DEF c
  <2>3. d \in G!Clones /\ d.git = clone[r].git /\ d.content = c
    BY <2>1, <2>2 DEF G!Clones
  <2>4. clone'[r] = IF r \in tracked THEN d ELSE clone[r]  BY <1>1 DEF c
  <2> HIDE DEF d
  <2> QED BY <2>1, <2>3, <2>4 DEF c
<1>3. arch' = [a \in Archives |->
        IF a \in hurt THEN [arch[a] EXCEPT !.folder = "partial"] ELSE arch[a]]
  BY <1>a DEF G!AroundPulled
<1>4. ASSUME NEW a \in Archives
      PROVE  /\ arch'[a] \in [file : A!Files, folder : A!Folders]
             /\ arch'[a].file = arch[a].file
             /\ arch'[a].folder \in {arch[a].folder, "partial"}
             /\ a \notin hurt => arch'[a] = arch[a]
  BY <1>a, <1>3 DEF A!Folders
<1>5. pulledAround' = TRUE  BY DEF G!AroundPulled
<1>6. clone' \in [Repos -> G!Clones]  BY <1>1, <1>2
<1>7. arch' \in [Archives -> [file : A!Files, folder : A!Folders]]
  BY <1>3, <1>4
<1> QED BY <1>2, <1>4, <1>5, <1>6, <1>7

(* A line of the manifest is a line of the manifest with another tag.      *)
LEMMA Retagged ==
  ASSUME TypeOK, NEW t \in G!Tags
  PROVE  [versions EXCEPT ![Len(versions)].tag = t]
           \in Seq([repo : Repos, tag : G!Tags])
<1> DEFINE Lines == [repo : Repos, tag : G!Tags]
<1>1. versions \in Seq(Lines)  BY DEF TypeOK, G!GitTypeOK
<1>2. CASE versions = <<>>
  <2>1. [versions EXCEPT ![Len(versions)].tag = t] = versions
    BY <1>2, EmptySeq
  <2> QED BY <1>1, <2>1
<1>3. CASE versions # <<>>
  <2>0. Len(versions) \in Nat /\ Len(versions) # 0
    BY <1>1, <1>3, EmptySeq, LenProperties
  <2>1. Len(versions) \in 1..Len(versions)  BY <2>0
  <2> HIDE DEF Lines
  <2>a. versions[Len(versions)] \in Lines  BY <1>1, <2>1, ElementOfSeq
  <2> USE DEF Lines
  <2>2. [versions[Len(versions)] EXCEPT !.tag = t] \in Lines  BY <2>a
  <2>3. [versions EXCEPT ![Len(versions)] = [versions[Len(versions)] EXCEPT !.tag = t]]
          \in Seq(Lines)
    BY <1>1, <2>1, <2>2, ExceptSeq
  <2> QED BY <2>3
<1> QED BY <1>2, <1>3

(* What git describe can say.                                              *)
LEMMA Described ==
  ASSUME TypeOK, NEW r \in Repos
  PROVE  G!Describe(r) \subseteq G!Tags \ {G!Unwritten}
<1>1. clone[r].at \in {0} \cup G!Versions
  BY SettingAssumption DEF TypeOK, G!GitTypeOK, G!Clones, G!Versions
<1>2. /\ G!NoTag \in G!Tags /\ G!AroundTag \in G!Tags /\ 0 \in G!Tags
      /\ G!Versions \subseteq G!Tags
      /\ G!Unwritten \notin {0, G!NoTag, G!AroundTag} \cup G!Versions
  BY SettingAssumption
  DEF G!Tags, G!NoTag, G!AroundTag, G!Unwritten, G!Versions
<1> QED BY <1>1, <1>2 DEF G!Describe

LEMMA TypeInit == Init => TypeOK
<1> SUFFICES ASSUME Init PROVE TypeOK  OBVIOUS
<1>1. arch \in [Archives -> [file : A!Files, folder : A!Folders]]
  BY DEF Init, A!Files, A!Folders, ArchiveFolder
<1>2. clone \in [Repos -> G!Clones]
  <2>1. G!Absent \in G!Clones  BY SettingAssumption DEF G!Absent, G!Clones
  <2>2. \A r \in Repos : ArchivedClone(r) \in G!Clones
    BY SettingAssumption DEF ArchivedClone, G!Clones
  <2> QED BY <2>1, <2>2 DEF Init
<1>3. upstream \in [Repos -> G!Versions] /\ pin \in [Repos -> 0..MaxVersion]
  BY SettingAssumption DEF Init, G!Versions
<1>4. versions \in Seq([repo : Repos, tag : G!Tags])
  BY EmptySeq DEF Init
<1>5. G!GitTypeOK
  <2>1. tracked \subseteq Repos \cup DOMAIN arch
    BY <1>1, SettingAssumption DEF Init
  <2>2. pulledAround \in BOOLEAN  BY DEF Init
  <2> QED BY <1>2, <1>3, <1>4, <2>1, <2>2 DEF G!GitTypeOK
<1>6. index \in 1..Len(Calls) /\ trouble \in 0..MaxTrouble
  BY CallsAreCalls, SettingAssumption DEF Init
<1> QED BY <1>1, <1>5, <1>6, Zenon DEF Init, TypeOK, A!ArchTypeOK

(* The present call is one of an archive or of a repository, and its steps *)
(* tell which.                                                             *)
LEMMA CallKind ==
  ASSUME TypeOK
  PROVE  /\ item \in Archives \cup Repos
         /\ step \in A!ArchSteps => item \in Archives
         /\ step \in G!GitSteps => item \in Repos
<1>1. item \in Archives \cup Repos  BY CallsAreCalls DEF TypeOK
<1>2. A!ArchSteps \cap G!GitSteps = {}
  BY DEF A!ArchSteps, G!GitSteps
<1>3. /\ "return" \notin A!ArchSteps \cup G!GitSteps
      /\ "exit" \notin A!ArchSteps \cup G!GitSteps
  BY DEF A!ArchSteps, G!GitSteps
<1> QED BY <1>1, <1>2, <1>3 DEF TypeOK

LEMMA TypeStep == TypeOK /\ [Next]_vars => TypeOK'
<1> SUFFICES ASSUME TypeOK, [Next]_vars PROVE TypeOK'  OBVIOUS
<1>a. /\ pc \in {"idle", "calling", "stripping", "done"}
      /\ index \in 1..Len(Calls) /\ item = Calls[index]
      /\ step \in {"return", "exit"}
              \cup (IF item \in Archives THEN A!ArchSteps ELSE G!GitSteps)
      /\ arch \in [Archives -> [file : A!Files, folder : A!Folders]]
      /\ clone \in [Repos -> G!Clones]
      /\ upstream \in [Repos -> G!Versions] /\ pin \in [Repos -> 0..MaxVersion]
      /\ versions \in Seq([repo : Repos, tag : G!Tags])
      /\ tracked \subseteq Repos \cup Archives
      /\ pulledAround \in BOOLEAN /\ healthy \in BOOLEAN
      /\ disowned \in BOOLEAN /\ trouble \in 0..MaxTrouble
  BY DEF TypeOK, A!ArchTypeOK, G!GitTypeOK
<1> DEFINE
      Script1 == /\ pc' \in {"idle", "calling", "stripping", "done"}
                 /\ index' \in 1..Len(Calls) /\ item' = Calls[index']
                 /\ step' \in {"return", "exit"}
                      \cup (IF item' \in Archives THEN A!ArchSteps ELSE G!GitSteps)
      Files1  == arch' \in [Archives -> [file : A!Files, folder : A!Folders]]
      Git1    == /\ clone' \in [Repos -> G!Clones]
                 /\ upstream' \in [Repos -> G!Versions]
                 /\ pin' \in [Repos -> 0..MaxVersion]
                 /\ versions' \in Seq([repo : Repos, tag : G!Tags])
                 /\ tracked' \subseteq Repos \cup Archives
                 /\ pulledAround' \in BOOLEAN
      Run1    == /\ healthy' \in BOOLEAN /\ disowned' \in BOOLEAN
                 /\ trouble' \in 0..MaxTrouble
<1> SUFFICES Script1 /\ Files1 /\ Git1 /\ Run1
  BY DEF TypeOK, A!ArchTypeOK, G!GitTypeOK
<1> USE DEF gitVars, history
<1>1. CASE Start
  <2>1. FirstStep(Calls[1]) \in IF Calls[1] \in Archives THEN A!ArchSteps ELSE G!GitSteps
    BY DEF FirstStep, A!ArchSteps, G!GitSteps
  <2>2. Script1  BY <1>1, <2>1, CallsAreCalls DEF Start
  <2>3. Git1  BY <1>a, <1>1, EmptySeq DEF Start
  <2>4. trouble' \in 0..MaxTrouble  BY <1>a, <1>1, SettingAssumption DEF Start
  <2>5. healthy' \in BOOLEAN /\ disowned' \in BOOLEAN  BY <1>a, <1>1, Zenon DEF Start
  <2> QED BY <1>a, <1>1, <2>2, <2>3, <2>4, <2>5 DEF Start
<1>2. CASE ArchStep
  <2>0. /\ step \in A!ArchSteps /\ item \in Archives
        /\ step' \in {"return", "exit"} \cup A!ArchSteps
        /\ UNCHANGED <<pc, index, item, gitVars, healthy, history>>
    BY <1>2, CallKind
    DEF ArchStep, A!GetArch, A!Download, A!Unpack, A!Verify, A!ArchSteps
  <2>1. Files1
    <3>1. CASE A!Download
      <4>1. A!DownloadResults \subseteq A!Files
        BY DEF A!DownloadResults, A!Files
      <4>2. CASE UNCHANGED arch  BY <1>a, <4>2
      <4>3. ASSUME NEW f \in A!Files, arch' = [arch EXCEPT ![item].file = f]
            PROVE  Files1
        BY <1>a, <2>0, <4>3
      <4> QED BY <3>1, <4>1, <4>2, <4>3 DEF A!Download
    <3>2. CASE A!Unpack
      <4>1. A!UnpackResults(A!File) \subseteq A!Folders
        BY DEF A!UnpackResults, A!Folders
      <4>2. CASE UNCHANGED arch  BY <1>a, <4>2
      <4>3. ASSUME NEW f \in A!Folders, arch' = [arch EXCEPT ![item].folder = f]
            PROVE  Files1
        BY <1>a, <2>0, <4>3
      <4> QED BY <3>2, <4>1, <4>2, <4>3 DEF A!Unpack
    <3>3. CASE A!Verify  BY <1>a, <3>3 DEF A!Verify
    <3> QED BY <1>2, <3>1, <3>2, <3>3 DEF ArchStep, A!GetArch
  <2> QED BY <1>a, <2>0, <2>1
<1>3. CASE GitStep
  <2>0. /\ step \in G!GitSteps /\ item \in Repos
        /\ step' \in {"return", "exit"} \cup G!GitSteps
        /\ UNCHANGED <<pc, index, item, upstream, pin, tracked, healthy, history>>
    BY <1>3, CallKind
    DEF GitStep, G!GetGithub, G!PullOrClone, G!Check, G!RecordUrl,
        G!RecordTag, G!GitSteps, G!gitFolders
  <2>1. Script1
    <3>1. item \notin Archives  BY <2>0, CallsAssumption
    <3> QED BY <1>a, <2>0, <3>1
  <2>2. CASE G!PullOrClone
    <3>1. UNCHANGED versions  BY <2>2 DEF G!PullOrClone
    <3>2. CASE G!Clone \/ G!Pull
      <4>1. PICK res \in G!Clones : clone' = [clone EXCEPT ![item] = res]
        BY <2>0, <3>2, GitResults DEF G!Clone, G!Pull
      <4>2. UNCHANGED <<arch, pulledAround>>  BY <3>2 DEF G!Clone, G!Pull
      <4> QED BY <1>a, <2>0, <2>1, <3>1, <4>1, <4>2
    <3>3. CASE G!PullAround
      <4>1. PICK hurt \in SUBSET tracked : G!AroundPulled(hurt)
        BY <3>3 DEF G!PullAround
      <4> QED BY <1>a, <2>0, <2>1, <3>1, <4>1, AroundResults
    <3> QED BY <2>2, <3>2, <3>3 DEF G!PullOrClone
  <2>3. CASE G!Check  BY <1>a, <2>0, <2>1, <2>3 DEF G!Check, G!gitFolders
  <2>4. CASE G!RecordUrl
    <3>1. [repo |-> item, tag |-> G!Unwritten] \in [repo : Repos, tag : G!Tags]
      BY <2>0 DEF G!Tags
    <3>2. versions' \in Seq([repo : Repos, tag : G!Tags])
      BY <1>a, <2>4, <3>1, AppendProperties DEF G!RecordUrl
    <3> QED BY <1>a, <2>0, <2>1, <2>4, <3>2 DEF G!RecordUrl, G!gitFolders
  <2>5. CASE G!RecordTag
    <3>1. versions' \in Seq([repo : Repos, tag : G!Tags])
      BY <2>0, <2>5, Described, Retagged DEF G!RecordTag
    <3> QED BY <1>a, <2>0, <2>1, <2>5, <3>1 DEF G!RecordTag, G!gitFolders
  <2> QED BY <1>3, <2>2, <2>3, <2>4, <2>5 DEF GitStep, G!GetGithub
<1>4. CASE NextCall
  <2>1. CASE index < Len(Calls)
    <3>1. index + 1 \in 1..Len(Calls)  BY <1>a, <2>1, CallsAreCalls
    <3>2. FirstStep(Calls[index + 1]) \in
            IF Calls[index + 1] \in Archives THEN A!ArchSteps ELSE G!GitSteps
      BY DEF FirstStep, A!ArchSteps, G!GitSteps
    <3> QED BY <1>a, <1>4, <2>1, <3>1, <3>2 DEF NextCall
  <2>2. CASE ~(index < Len(Calls))  BY <1>a, <1>4, <2>2 DEF NextCall
  <2> QED BY <2>1, <2>2
<1>5. CASE Exit  BY <1>a, <1>5 DEF Exit
<1>6. CASE StripOne
  <2>1. PICK r \in HasGit : clone' = [clone EXCEPT ![r].git = "none"]
    BY <1>6 DEF StripOne
  <2>2. r \in Repos  BY SettingAssumption DEF HasGit
  <2>3. clone' \in [Repos -> G!Clones]  BY <1>a, <2>1, <2>2 DEF G!Clones
  <2> QED BY <1>a, <1>6, <2>3 DEF StripOne
<1>7. CASE StripDone  BY <1>a, <1>7 DEF StripDone
<1>8. CASE Leave  BY <1>a, <1>8 DEF Leave
<1>9. CASE Killed /\ (KillArch \/ KillGit \/ KillStrip)
  <2>1. Script1 /\ Run1  BY <1>a, <1>9, SettingAssumption DEF Killed
  <2>0. ASSUME KillGit, ~ UNCHANGED arch \/ ~ UNCHANGED pulledAround
        PROVE  \E hurt : G!AroundPulled(hurt)
    BY <2>0 DEF KillGit, G!CloneCutShort
  <2>2. Files1
    <3>1. CASE KillArch
      <4>1. {"empty", "cut"} \subseteq A!Files /\ "partial" \in A!Folders
        BY DEF A!Files, A!Folders
      <4>2. CASE UNCHANGED arch  BY <1>a, <4>2
      <4>3. ASSUME NEW f \in {"empty", "cut"}, arch' = [arch EXCEPT ![item].file = f]
            PROVE  Files1
        BY <1>a, <3>1, <4>1, <4>3 DEF KillArch
      <4>4. CASE arch' = [arch EXCEPT ![item].folder = "partial"]
        BY <1>a, <3>1, <4>1, <4>4 DEF KillArch
      <4> QED BY <3>1, <4>2, <4>3, <4>4 DEF KillArch, A!CutShort
    <3>2. CASE KillGit  BY <1>a, <2>0, <3>2, AroundResults
    <3> QED BY <1>a, <1>9, <3>1, <3>2 DEF KillStrip
  <2>3. clone' \in [Repos -> G!Clones]
    <3>1. CASE KillGit
      <4>1. CASE UNCHANGED clone  BY <1>a, <4>1
      <4>2. ASSUME NEW left \in {G!PartialClone(item),
                                 [G!PartialClone(item) EXCEPT !.git = "broken"]},
                   clone' = [clone EXCEPT ![item] = left]
            PROVE  clone' \in [Repos -> G!Clones]
        <5>1. item \in Repos  BY <3>1 DEF KillGit
        <5>2. left \in G!Clones  BY <4>2, <5>1, GitResults
        <5> QED BY <1>a, <4>2, <5>1, <5>2
      <4>3. CASE clone' = [clone EXCEPT ![item] = G!HalfPulled(item)]
        <5>1. item \in Repos  BY <3>1 DEF KillGit
        <5> QED BY <1>a, <4>3, <5>1, GitResults
      <4>4. ASSUME NEW hurt, G!AroundPulled(hurt)
            PROVE  clone' \in [Repos -> G!Clones]
        BY <4>4, AroundResults
      <4> QED BY <3>1, <4>1, <4>2, <4>3, <4>4, Zenon DEF KillGit, G!CloneCutShort
    <3>2. CASE KillStrip
      <4>1. CASE UNCHANGED clone  BY <1>a, <4>1
      <4>2. ASSUME NEW r \in HasGit, clone' = [clone EXCEPT ![r].git = "broken"]
            PROVE  clone' \in [Repos -> G!Clones]
        <5>1. r \in Repos  BY SettingAssumption DEF HasGit
        <5> QED BY <1>a, <4>2, <5>1 DEF G!Clones
      <4> QED BY <3>2, <4>1, <4>2 DEF KillStrip
    <3> QED BY <1>a, <1>9, <3>1, <3>2 DEF KillArch
  <2>4. pulledAround' \in BOOLEAN
    BY <1>a, <1>9, <2>0, AroundResults DEF KillArch, KillStrip
  <2> QED BY <1>a, <1>9, <2>1, <2>2, <2>3, <2>4 DEF Killed
<1>10. CASE Release
  <2>1. PICK r \in Repos : /\ upstream[r] < MaxVersion
                           /\ upstream' = [upstream EXCEPT ![r] = upstream[r] + 1]
    BY <1>10 DEF Release
  <2>2. upstream' \in [Repos -> G!Versions]
    BY <1>a, <2>1, SettingAssumption DEF G!Versions
  <2> QED BY <1>a, <1>10, <2>2 DEF Release
<1>11. CASE EditPin
  <2>0. PICK r \in MayEdit : \E v \in 0..upstream[r] : pin' = [pin EXCEPT ![r] = v]
    BY <1>11 DEF EditPin
  <2>1. PICK v \in 0..upstream[r] : pin' = [pin EXCEPT ![r] = v]
    BY <2>0
  <2>2. r \in Repos /\ v \in 0..MaxVersion
    BY <1>a, <2>1, SettingAssumption DEF G!Versions
  <2>3. pin' \in [Repos -> 0..MaxVersion]  BY <1>a, <2>1, <2>2
  <2> QED BY <1>a, <1>11, <2>3 DEF EditPin
<1>12. CASE UNCHANGED vars  BY <1>a, <1>12 DEF vars
<1> QED
  BY <1>1, <1>2, <1>3, <1>4, <1>5, <1>6, <1>7, <1>8, <1>9, <1>10, <1>11, <1>12
  DEF Next, Script, KillArch, KillGit, KillStrip

(* The state of the script, of the folders and of the manifest is of its   *)
(* type.                                                                   *)
THEOREM BuilderTypes == Spec => []TypeOK
  BY TypeInit, TypeStep, PTL DEF Spec
-----------------------------------------------------------------------------
(* A clone has a .git of its own, and is on a branch only without a tag.   *)
LEMMA FreshIsOwn ==
  ASSUME NEW r \in Repos
  PROVE  \A c \in {G!FreshClone(r), G!PartialClone(r)} :
           /\ c.git \in {"branch", "detached"}
           /\ pin[r] # 0 => c.git = "detached" /\ c.at = pin[r]
<1>1. /\ G!FreshClone(r).git \in {"branch", "detached"}
      /\ pin[r] # 0 => G!FreshClone(r).git = "detached" /\ G!FreshClone(r).at = pin[r]
      /\ G!PartialClone(r).git = G!FreshClone(r).git
      /\ G!PartialClone(r).at = G!FreshClone(r).at
  BY DEF G!FreshClone, G!PartialClone
<1> QED BY <1>1

(* git pull in a folder's own repository changes nothing but its version,  *)
(* and that on a branch only, or ends halfway.                             *)
LEMMA PullMovesBranches ==
  ASSUME TypeOK, NEW r \in Repos, NEW c \in G!PullResults(r)
  PROVE  /\ c.git = clone[r].git
         /\ c.content # clone[r].content => c.content = "partial" /\ ~healthy
         /\ clone[r].git # "branch" => c = clone[r]
<1>1. clone[r] \in G!Clones  BY DEF TypeOK, G!GitTypeOK
<1>2. CASE c = clone[r]  BY <1>2
<1>3. CASE c = [clone[r] EXCEPT !.at = upstream[r]] /\ clone[r].git = "branch"
  BY <1>1, <1>3 DEF G!Clones
<1>4. CASE c = G!HalfPulled(r) /\ clone[r].git = "branch" /\ ~healthy
  BY <1>1, <1>4 DEF G!Clones, G!HalfPulled
<1>5. clone[r].git # "branch" => c = clone[r]  BY DEF G!PullResults
<1>6. clone[r].git = "branch" =>
        \/ c = clone[r] \/ c = [clone[r] EXCEPT !.at = upstream[r]]
        \/ c = G!HalfPulled(r) /\ ~healthy
  BY DEF G!PullResults
<1> QED BY <1>2, <1>3, <1>4, <1>5, <1>6

-----------------------------------------------------------------------------
(* How the folder of one repository changes: by a clone or a pull, either  *)
(* may be cut short, by a pull of the enclosing repository or the removal  *)
(* of its .git, and by nothing else.                                       *)
CallOf(i) == pc = "calling" /\ item = i
Cut == ~healthy \/ pc' = "idle"
Cloned(r)   == /\ CallOf(r) /\ step = "pull" /\ clone[r].content = "absent"
               /\ \/ clone'[r] \in G!CloneResults(r)
                  \/ clone'[r] = G!PartialClone(r)
                  \/ /\ clone'[r] = [G!PartialClone(r) EXCEPT !.git = "broken"]
                     /\ disowned'
               /\ UNCHANGED arch
Pulled(r)   == /\ CallOf(r) /\ step = "pull" /\ clone[r].content # "absent"
               /\ clone'[r].git = clone[r].git
               /\ clone'[r].content # clone[r].content =>
                    clone'[r].content = "partial" /\ Cut
               /\ clone[r].git # "branch" => clone'[r] = clone[r]
               /\ UNCHANGED arch
(* A pull of the enclosing repository                                      *)
AllPulled(hurt) == /\ pc = "calling" /\ item \in Repos /\ step = "pull"
                   /\ G!InAround /\ G!AroundPulled(hurt)
                   /\ hurt \subseteq tracked /\ (hurt = {} \/ Cut)
Disowned(r) == /\ pc = "stripping" /\ r \in Stripped /\ clone[r].git # "none"
               /\ clone'[r].content = clone[r].content
               /\ clone'[r].at = clone[r].at
               /\ clone'[r].git \in {"none", "broken"}
               /\ UNCHANGED arch

LEMMA FolderMoves ==
  ASSUME TypeOK, [Next]_vars, NEW r \in Repos
  PROVE  \/ clone'[r] = clone[r] \/ Cloned(r) \/ Pulled(r) \/ Disowned(r)
         \/ \E hurt : AllPulled(hurt)
<1> USE DEF gitVars
<1>a. clone \in [Repos -> G!Clones]  BY DEF TypeOK, G!GitTypeOK
<1>1. CASE UNCHANGED clone  BY <1>1
<1>2. CASE GitStep /\ G!PullOrClone
  <2>1. item \in Repos /\ pc = "calling" /\ step = "pull"
    BY <1>2, CallKind DEF GitStep, G!PullOrClone, G!GitSteps
  <2>2. CASE G!Clone
    <3>1. PICK c \in G!CloneResults(item) : clone' = [clone EXCEPT ![item] = c]
      BY <2>2 DEF G!Clone
    <3> QED BY <1>a, <2>1, <2>2, <3>1 DEF G!Clone, Cloned, CallOf
  <2>3. CASE G!Pull
    <3>1. PICK c \in G!PullResults(item) : clone' = [clone EXCEPT ![item] = c]
      BY <2>3 DEF G!Pull
    <3>2. CASE item = r
      <4>1. clone'[r] = c /\ c \in G!PullResults(r)  BY <1>a, <2>1, <3>1, <3>2
      <4> QED
        BY <2>1, <2>3, <3>2, <4>1, PullMovesBranches DEF G!Pull, Pulled, CallOf, Cut
    <3>3. CASE item # r  BY <1>a, <3>1, <3>3
    <3> QED BY <3>2, <3>3
  <2>4. CASE G!PullAround
    <3>1. PICK hurt \in SUBSET tracked :
            G!AroundPulled(hurt) /\ (healthy => hurt = {})
      BY <2>4 DEF G!PullAround
    <3> QED BY <2>1, <2>4, <3>1 DEF G!PullAround, AllPulled, Cut
  <2> QED BY <1>2, <2>2, <2>3, <2>4 DEF G!PullOrClone
<1>3. ASSUME NEW q \in HasGit, NEW g \in {"none", "broken"}, pc = "stripping",
             clone' = [clone EXCEPT ![q].git = g], UNCHANGED arch
      PROVE  clone'[r] = clone[r] \/ Disowned(r)
  <2>1. q \in Repos /\ q \in Stripped /\ clone[q].git # "none"
    BY SettingAssumption DEF HasGit
  <2>2. CASE q = r  BY <1>a, <1>3, <2>1, <2>2 DEF Disowned, G!Clones
  <2>3. CASE q # r  BY <1>a, <1>3, <2>3
  <2> QED BY <2>2, <2>3
<1>4. CASE StripOne  BY <1>3, <1>4 DEF StripOne
<1>5. CASE KillStrip  BY <1>1, <1>3, <1>5 DEF KillStrip
<1>6. CASE KillGit /\ clone' # clone
  <2>1. /\ item \in Repos /\ pc = "calling" /\ step = "pull" /\ pc' = "idle"
    BY <1>6 DEF KillGit, G!CloneCutShort, Killed
  <2>2. ASSUME clone[item].content = "absent", UNCHANGED arch,
               NEW left \in {G!PartialClone(item),
                             [G!PartialClone(item) EXCEPT !.git = "broken"]},
               clone' = [clone EXCEPT ![item] = left]
        PROVE  clone'[r] = clone[r] \/ Cloned(r)
    <3>1. CASE item = r
      <4>1. clone'[r] = left  BY <1>a, <2>1, <2>2, <3>1
      <4>2. G!PartialClone(r) \in G!Clones  BY GitResults
      <4>3. left # G!PartialClone(r) => left.git = "broken"
        BY <2>2, <3>1, <4>2 DEF G!Clones
      <4>4. left # G!PartialClone(r) => disowned'
        BY <1>6, <4>1, <4>3 DEF KillGit, Killed
      <4> QED BY <2>1, <2>2, <3>1, <4>1, <4>4 DEF Cloned, CallOf
    <3>2. CASE item # r  BY <1>a, <2>2, <3>2
    <3> QED BY <3>1, <3>2
  <2>3. ASSUME clone[item].git = "branch", UNCHANGED arch,
               clone[item].content # "absent",
               clone' = [clone EXCEPT ![item] = G!HalfPulled(item)]
        PROVE  clone'[r] = clone[r] \/ Pulled(r)
    <3>1. CASE item = r
      <4>1. clone'[r] = G!HalfPulled(r)  BY <1>a, <2>1, <2>3, <3>1
      <4>2. clone[r] \in G!Clones  BY <1>a
      <4>3. /\ clone'[r].content = "partial" /\ clone'[r].git = clone[r].git
        BY <4>1, <4>2 DEF G!HalfPulled, G!Clones
      <4> QED BY <2>1, <2>3, <3>1, <4>3 DEF Pulled, CallOf, Cut
    <3>2. CASE item # r  BY <1>a, <2>3, <3>2
    <3> QED BY <3>1, <3>2
  <2>4. ASSUME NEW hurt \in SUBSET tracked, G!InAround, G!AroundPulled(hurt)
        PROVE  AllPulled(hurt)
    BY <2>1, <2>4 DEF AllPulled, Cut
  <2> QED BY <1>6, <2>2, <2>3, <2>4, Zenon DEF KillGit, G!CloneCutShort
<1> QED
  BY <1>1, <1>2, <1>4, <1>5, <1>6
  DEF Next, Script, Start, ArchStep, GitStep, NextCall, Exit, StripDone, Leave,
      KillArch, Release, EditPin, vars, G!GetGithub, G!Check, G!RecordUrl,
      G!RecordTag, G!gitFolders

(* Archives change in get_arch or with the enclosing repository, and only  *)
(* a pull of that repository is remembered as one.                         *)
LEMMA AroundMoves ==
  ASSUME TypeOK, [Next]_vars
  PROVE  /\ UNCHANGED tracked
         /\ arch' = arch \/ ArchStep \/ KillArch \/ \E hurt : AllPulled(hurt)
         /\ pulledAround' = pulledAround \/ \E hurt : AllPulled(hurt)
<1> USE DEF gitVars
<1>1. CASE GitStep
  <2>1. CASE G!PullOrClone
    <3>0. /\ item \in Repos /\ pc = "calling" /\ step = "pull" /\ UNCHANGED tracked
      BY <1>1, <2>1, CallKind DEF GitStep, G!PullOrClone, G!GitSteps
    <3>1. CASE G!PullAround
      <4>1. PICK hurt \in SUBSET tracked :
              G!AroundPulled(hurt) /\ (healthy => hurt = {})
        BY <3>1 DEF G!PullAround
      <4>2. AllPulled(hurt)  BY <3>0, <3>1, <4>1 DEF G!PullAround, AllPulled, Cut
      <4> QED BY <3>0, <4>2
    <3> QED BY <2>1, <3>0, <3>1 DEF G!PullOrClone, G!Clone, G!Pull
  <2> QED
    BY <1>1, <2>1 DEF GitStep, G!GetGithub, G!Check, G!RecordUrl, G!RecordTag,
                      G!gitFolders
<1>2. CASE KillGit
  <2>0. pc = "calling" /\ item \in Repos /\ pc' = "idle" /\ UNCHANGED tracked
    BY <1>2 DEF KillGit, Killed
  <2>1. ASSUME step = "pull", G!InAround, NEW hurt \in SUBSET tracked,
               G!AroundPulled(hurt)
        PROVE  AllPulled(hurt)
    BY <2>0, <2>1 DEF AllPulled, Cut
  <2> QED BY <1>2, <2>0, <2>1, Zenon DEF KillGit, G!CloneCutShort
<1> QED
  BY <1>1, <1>2
  DEF Next, Script, Start, ArchStep, NextCall, Exit, StripOne, StripDone, Leave,
      KillArch, KillStrip, Killed, Release, EditPin, vars

(* The folder of an archive changes while it is not there, or by a pull of *)
(* the enclosing repository that is cut short.                             *)
LEMMA ArchiveMoves ==
  ASSUME TypeOK, [Next]_vars, NEW a \in Archives
  PROVE  \/ arch'[a].folder = arch[a].folder
         \/ (CallOf(a) /\ arch[a].folder = "absent")
         \/ \E hurt : AllPulled(hurt) /\ a \in hurt
<1>a. arch \in [Archives -> [file : A!Files, folder : A!Folders]]
  BY DEF TypeOK, A!ArchTypeOK
<1>1. CASE UNCHANGED arch  BY <1>1
<1>2. ASSUME NEW x, arch' = [arch EXCEPT ![item].file = x], item \in Archives
      PROVE  arch'[a].folder = arch[a].folder
  BY <1>a, <1>2
<1>3. ASSUME NEW x, arch' = [arch EXCEPT ![item].folder = x], item \in Archives,
             pc = "calling", arch[item].folder = "absent"
      PROVE  arch'[a].folder = arch[a].folder
             \/ (CallOf(a) /\ arch[a].folder = "absent")
  <2>1. CASE item = a  BY <1>3, <2>1 DEF CallOf
  <2>2. CASE item # a  BY <1>a, <1>3, <2>2
  <2> QED BY <2>1, <2>2
<1>4. CASE ArchStep
  <2>1. item \in Archives /\ pc = "calling"
    BY <1>4, CallKind
    DEF ArchStep, A!GetArch, A!Download, A!Unpack, A!Verify, A!ArchSteps
  <2>2. CASE A!Download  BY <1>1, <1>2, <2>1, <2>2 DEF A!Download
  <2>3. CASE A!Unpack  BY <1>1, <1>3, <2>1, <2>3 DEF A!Unpack, A!Folder
  <2>4. CASE A!Verify  BY <1>1, <2>4 DEF A!Verify
  <2> QED BY <1>4, <2>2, <2>3, <2>4 DEF ArchStep, A!GetArch
<1>5. CASE KillArch
  BY <1>1, <1>2, <1>3, <1>5 DEF KillArch, A!CutShort, A!Folder
<1>6. ASSUME NEW hurt, AllPulled(hurt)
      PROVE  arch'[a].folder = arch[a].folder \/ a \in hurt
  BY <1>6, AroundResults DEF AllPulled
<1>7. arch' = arch \/ ArchStep \/ KillArch \/ \E hurt : AllPulled(hurt)
  BY AroundMoves
<1> QED BY <1>1, <1>4, <1>5, <1>6, <1>7

-----------------------------------------------------------------------------
(* What the enclosing repository tracks is there, without a .git.          *)
Carried == \A x \in tracked :
             IF x \in Repos
             THEN clone[x].content # "absent" /\ clone[x].git = "none"
             ELSE arch[x].folder # "absent"

LEMMA CarriedInit == Init => Carried
  BY CallsAssumption, SettingAssumption
  DEF Init, Carried, ArchivedClone, ArchiveFolder

LEMMA CarriedStep == TypeOK /\ Carried /\ [Next]_vars => Carried'
<1> SUFFICES ASSUME TypeOK, Carried, [Next]_vars, NEW x \in tracked
             PROVE  IF x \in Repos
                    THEN clone'[x].content # "absent" /\ clone'[x].git = "none"
                    ELSE arch'[x].folder # "absent"
  BY AroundMoves DEF Carried
<1>1. CASE x \in Repos
  <2>1. clone[x].content # "absent" /\ clone[x].git = "none"  BY <1>1 DEF Carried
  <2>2. ~Cloned(x) /\ ~Disowned(x)  BY <2>1 DEF Cloned, Disowned
  <2>3. CASE Pulled(x)  BY <1>1, <2>1, <2>3 DEF Pulled
  <2>4. ASSUME NEW hurt, AllPulled(hurt)
        PROVE  clone'[x].content # "absent" /\ clone'[x].git = "none"
    BY <1>1, <2>1, <2>4, AroundResults DEF AllPulled
  <2> QED BY <1>1, <2>1, <2>2, <2>3, <2>4, FolderMoves
<1>2. CASE x \notin Repos
  <2>1. x \in Archives
    BY <1>2 DEF TypeOK, A!ArchTypeOK, G!GitTypeOK
  <2>2. arch[x].folder # "absent"  BY <1>2 DEF Carried
  <2>3. ASSUME NEW hurt, AllPulled(hurt)  PROVE arch'[x].folder # "absent"
    BY <2>1, <2>2, <2>3, AroundResults DEF AllPulled
  <2> QED BY <1>2, <2>1, <2>2, <2>3, ArchiveMoves
<1> QED BY <1>1, <1>2

(* What the folder of a repository is, at any time.                        *)
FolderOK(r) == clone[r].content = "absent" \/ G!OwnGit(r) \/ disowned

FolderInv == /\ \A r \in Repos : FolderOK(r)
             /\ pc \in {"stripping", "done"} => disowned
             /\ pulledAround => disowned

LEMMA FolderInit == Init => FolderInv
<1> SUFFICES ASSUME Init PROVE FolderInv  OBVIOUS
<1>1. \A r \in Repos : FolderOK(r)
  BY DEF Init, FolderOK, G!Absent, G!OwnGit, ArchivedClone
<1> QED BY <1>1 DEF Init, FolderInv

LEMMA FolderStep == TypeOK /\ FolderInv /\ [Next]_vars => FolderInv'
<1> SUFFICES ASSUME TypeOK, FolderInv, [Next]_vars PROVE FolderInv'  OBVIOUS
<1>1. /\ disowned => disowned'
      /\ pc' \in {"stripping", "done"} => disowned'
  <2> USE DEF FolderInv, gitVars, history
  <2>1. CASE ArchStep \/ GitStep  BY <2>1 DEF ArchStep, GitStep
  <2>2. CASE NextCall  BY <2>2 DEF NextCall
  <2>3. CASE Start \/ Exit \/ StripOne \/ StripDone \/ Leave
    BY <2>3 DEF Start, Exit, StripOne, StripDone, Leave
  <2>4. CASE KillArch \/ KillGit \/ KillStrip
    BY <2>4 DEF KillArch, KillGit, KillStrip, Killed
  <2>5. CASE Release \/ EditPin \/ UNCHANGED vars
    BY <2>5 DEF Release, EditPin, vars
  <2> QED BY <2>1, <2>2, <2>3, <2>4, <2>5 DEF Next, Script
<1>2. ASSUME NEW hurt, AllPulled(hurt) PROVE disowned
  BY <1>2 DEF AllPulled, G!InAround, FolderInv, FolderOK
<1>3. ASSUME NEW r \in Repos PROVE FolderOK(r)'
  <2>1. CASE clone'[r] = clone[r]
    BY <1>1, <2>1 DEF FolderInv, FolderOK, G!OwnGit
  <2>2. CASE Cloned(r)
    <3>1. \/ clone'[r] \in {G!FreshClone(r), G!Absent, G!PartialClone(r)}
          \/ disowned'
      BY <2>2 DEF Cloned, G!CloneResults
    <3> QED BY <3>1, FreshIsOwn DEF FolderOK, G!OwnGit, G!Absent
  <2>3. CASE Pulled(r)
    BY <1>1, <2>3 DEF Pulled, FolderInv, FolderOK, G!OwnGit
  <2>4. CASE Disowned(r)  BY <1>1, <2>4 DEF Disowned, FolderInv, FolderOK
  <2>5. ASSUME NEW hurt, AllPulled(hurt) PROVE FolderOK(r)'
    BY <1>1, <1>2, <2>5 DEF FolderOK
  <2> QED BY <2>1, <2>2, <2>3, <2>4, <2>5, FolderMoves
<1>4. pulledAround' => disowned'
  BY <1>1, <1>2, AroundMoves DEF FolderInv
<1> QED BY <1>1, <1>3, <1>4 DEF FolderInv

LEMMA FolderAlways == Spec => [](TypeOK /\ Carried /\ FolderInv)
  BY TypeInit, TypeStep, CarriedInit, CarriedStep, FolderInit, FolderStep, PTL
  DEF Spec

(* The checkout around the script is pulled only after some .git was       *)
(* removed or cut short.                                                   *)
THEOREM CheckoutIsLeftAlone == Spec => []EnclosingNotPulled
<1>1. TypeOK /\ FolderInv => EnclosingNotPulled
  BY DEF FolderInv, EnclosingNotPulled
<1> QED BY <1>1, FolderAlways, PTL

(* A source that is complete stays complete, but for a git pull that is    *)
(* cut short, and then only where that pull works.                         *)
THEOREM NothingWholeIsLost == Spec => WholeStaysWhole
<1> DEFINE Kept ==
      /\ \A a \in Archives :
           arch[a].folder = "whole" /\ arch'[a].folder # "whole"
             => PullCut /\ a \in tracked /\ ~G!OwnGit(item)
      /\ \A r \in Repos :
           clone[r].content = "whole" /\ clone'[r].content # "whole"
             => /\ PullCut
                /\ IF r \in tracked THEN ~G!OwnGit(item)
                   ELSE r = item /\ clone[r].git = "branch"
<1>1. TypeOK /\ Carried /\ [Next]_vars => [Kept]_vars
  <2> SUFFICES ASSUME TypeOK, Carried, [Next]_vars PROVE Kept
    OBVIOUS
  <2>0. ASSUME NEW hurt, AllPulled(hurt), hurt # {}
        PROVE  PullCut /\ ~G!OwnGit(item) /\ hurt \subseteq tracked
    BY <2>0 DEF AllPulled, Cut, PullCut, G!InAround
  <2>1. ASSUME NEW a \in Archives, arch[a].folder = "whole", arch'[a].folder # "whole"
        PROVE  PullCut /\ a \in tracked /\ ~G!OwnGit(item)
    BY <2>0, <2>1, ArchiveMoves
  <2>2. ASSUME NEW r \in Repos, clone[r].content = "whole", clone'[r].content # "whole"
        PROVE  /\ PullCut
               /\ IF r \in tracked THEN ~G!OwnGit(item)
                  ELSE r = item /\ clone[r].git = "branch"
    <3>1. ~Cloned(r) /\ ~Disowned(r) /\ clone'[r] # clone[r]
      BY <2>2 DEF Cloned, Disowned
    <3>2. CASE Pulled(r)
      <4>1. PullCut /\ r = item /\ clone[r].git = "branch"
        BY <2>2, <3>1, <3>2 DEF Pulled, PullCut, Cut, CallOf
      <4> QED BY <4>1 DEF Carried
    <3>3. ASSUME NEW hurt, AllPulled(hurt)
          PROVE  PullCut /\ r \in tracked /\ ~G!OwnGit(item)
      <4>1. r \in hurt  BY <2>2, <3>3, AroundResults DEF AllPulled
      <4> QED BY <2>0, <3>3, <4>1
    <3> QED BY <3>1, <3>2, <3>3, FolderMoves
  <2> QED BY <2>1, <2>2
<1> QED BY <1>1, FolderAlways, PTL DEF Spec, WholeStaysWhole

(* A pinned folder is cloned at its tag, and no folder's version moves but *)
(* by a pull: in a clone on a branch, or around a tracked folder.          *)
THEOREM PinnedStayPinned == Spec => PinsHold
<1> DEFINE Pinned ==
      \A r \in Repos :
        /\ pin[r] # 0 /\ clone[r].content = "absent" /\ clone'[r].content # "absent"
             => clone'[r].at = pin[r] /\ clone'[r].git # "branch"
        /\ clone[r].content # "absent" /\ clone'[r].at # clone[r].at
             => /\ pc = "calling" /\ step = "pull"
                /\ IF r \in tracked THEN ~G!OwnGit(item)
                   ELSE r = item /\ clone[r].git = "branch"
<1>1. TypeOK /\ Carried /\ [Next]_vars => [Pinned]_vars
  <2> SUFFICES ASSUME TypeOK, Carried, [Next]_vars PROVE Pinned
    OBVIOUS
  <2>1. ASSUME NEW r \in Repos, pin[r] # 0, clone[r].content = "absent",
               clone'[r].content # "absent"
        PROVE  clone'[r].at = pin[r] /\ clone'[r].git # "branch"
    <3>1. ~Pulled(r) /\ ~Disowned(r) /\ clone'[r] # clone[r] /\ r \notin tracked
      BY <2>1 DEF Pulled, Disowned, Carried
    <3>2. CASE Cloned(r)
      <4>1. G!PartialClone(r) \in G!Clones  BY GitResults
      <4>2. \/ clone'[r] \in {G!FreshClone(r), G!PartialClone(r)}
            \/ clone'[r] = [G!PartialClone(r) EXCEPT !.git = "broken"]
        BY <2>1, <3>2 DEF Cloned, G!CloneResults, G!Absent
      <4>3. [G!PartialClone(r) EXCEPT !.git = "broken"].at = G!PartialClone(r).at
        BY <4>1 DEF G!Clones
      <4>4. [G!PartialClone(r) EXCEPT !.git = "broken"].git = "broken"
        BY <4>1 DEF G!Clones
      <4> QED BY <2>1, <4>2, <4>3, <4>4, FreshIsOwn
    <3>3. ASSUME NEW hurt, AllPulled(hurt) PROVE clone'[r] = clone[r]
      BY <3>1, <3>3, AroundResults DEF AllPulled
    <3> QED BY <3>1, <3>2, <3>3, FolderMoves
  <2>2. ASSUME NEW r \in Repos, clone[r].content # "absent",
               clone'[r].at # clone[r].at
        PROVE  /\ pc = "calling" /\ step = "pull"
               /\ IF r \in tracked THEN ~G!OwnGit(item)
                  ELSE r = item /\ clone[r].git = "branch"
    <3>1. ~Cloned(r) /\ ~Disowned(r) /\ clone'[r] # clone[r]
      BY <2>2 DEF Cloned, Disowned
    <3>2. CASE Pulled(r)
      <4>1. clone[r].git = "branch" /\ r = item /\ pc = "calling" /\ step = "pull"
        BY <3>1, <3>2 DEF Pulled, CallOf
      <4> QED BY <4>1 DEF Carried
    <3>3. ASSUME NEW hurt, AllPulled(hurt)
          PROVE  pc = "calling" /\ step = "pull" /\ r \in tracked /\ ~G!OwnGit(item)
      BY <3>1, <3>3, AroundResults DEF AllPulled, G!InAround
    <3> QED BY <3>1, <3>2, <3>3, FolderMoves
  <2> QED BY <2>1, <2>2
<1> QED BY <1>1, FolderAlways, PTL DEF Spec, PinsHold
-----------------------------------------------------------------------------
(* What a run has behind it is there, and what it has ahead of it, when    *)
(* network and disk work, is what the next command needs.                  *)
Behind ==
  /\ pc = "calling" => \A j \in 1..Len(Calls) : j < index => Calls[j] \in Have
  /\ pc = "calling" /\ step \in {"return", "url", "tag"} => item \in Have
  /\ pc \in {"stripping", "done"} => \A j \in 1..Len(Calls) : Calls[j] \in Have

Ahead ==
  pc = "calling" /\ healthy =>
    /\ step = "unpack" => arch[item].file # "absent"
    /\ step = "verify" => /\ arch[item].file # "absent"
                          /\ arch[item].folder = "absent" => arch[item].file = "empty"
    /\ step = "check" => clone[item].content # "absent"
    /\ step = "exit" => item \in Archives /\ A!Poisoned(item)

(* A source is there when its folder is.                                   *)
LEMMA HaveIs ==
  /\ \A a \in Archives : a \in Have <=> arch[a].folder # "absent"
  /\ \A r \in Repos : r \in Have <=> clone[r].content # "absent"
  /\ Have \subseteq Archives \cup Repos
  BY CallsAssumption DEF Have

LEMMA HaveGrows ==
  ASSUME TypeOK, Carried, [Next]_vars
  PROVE  /\ Have \subseteq Have'
         /\ Have' \subseteq Have \cup {item}
         /\ pc # "calling" => Have' = Have
<1>1. ASSUME NEW a \in Archives
      PROVE  /\ a \in Have => a \in Have'
             /\ a \in Have' => a \in Have \/ CallOf(a)
  <2>1. ASSUME NEW hurt, AllPulled(hurt)
        PROVE  arch'[a].folder # "absent" <=> arch[a].folder # "absent"
    <3>1. a \in hurt => a \in tracked /\ a \notin Repos
      BY <2>1, CallsAssumption DEF AllPulled
    <3> QED BY <2>1, <3>1, AroundResults DEF AllPulled, Carried
  <2>2. \/ (arch'[a].folder # "absent" <=> arch[a].folder # "absent")
        \/ CallOf(a) /\ arch[a].folder = "absent"
    BY <2>1, ArchiveMoves
  <2> QED BY <2>2, CallsAssumption DEF Have
<1>2. ASSUME NEW r \in Repos
      PROVE  /\ r \in Have => r \in Have'
             /\ r \in Have' => r \in Have \/ CallOf(r)
  <2>1. ASSUME NEW hurt, AllPulled(hurt)
        PROVE  clone'[r].content # "absent" <=> clone[r].content # "absent"
    BY <2>1, AroundResults DEF AllPulled, Carried
  <2>2. /\ clone[r].content # "absent" => clone'[r].content # "absent"
        /\ clone'[r].content # "absent" => clone[r].content # "absent" \/ CallOf(r)
    BY <2>1, FolderMoves DEF Cloned, Pulled, Disowned
  <2> QED BY <2>2, CallsAssumption DEF Have
<1> QED BY <1>1, <1>2 DEF Have, CallOf

LEMMA BehindInit == Init => Behind /\ Ahead
  BY DEF Init, Behind, Ahead

LEMMA BehindStep == TypeOK /\ Carried /\ Behind /\ [Next]_vars => Behind'
<1> SUFFICES ASSUME TypeOK, Carried, Behind, [Next]_vars PROVE Behind'  OBVIOUS
<1> USE DEF gitVars, history
<1>a. Have \subseteq Have'  BY HaveGrows
<1>b. ASSUME pc' = "idle" PROVE Behind'  BY <1>b DEF Behind
<1>c. ASSUME UNCHANGED <<pc, index, item, step>> PROVE Behind'
  BY <1>a, <1>c DEF Behind
<1>1. CASE Start
  <2>1. FirstStep(Calls[1]) \notin {"return", "url", "tag"}  BY DEF FirstStep
  <2> QED BY <1>1, <2>1 DEF Start, Behind
<1>2. CASE ArchStep
  <2>0. /\ item \in Archives /\ UNCHANGED <<pc, index, item>> /\ pc = "calling"
    BY <1>2, CallKind
    DEF ArchStep, A!GetArch, A!Download, A!Unpack, A!Verify, A!ArchSteps
  <2>1. step' \in {"return", "url", "tag"} => item \in Have'
    <3>1. CASE A!Verify /\ step' = "return"
      BY <1>a, <2>0, <3>1, HaveIs DEF A!Verify, A!Folder
    <3> QED BY <1>2, <3>1 DEF ArchStep, A!GetArch, A!Download, A!Unpack, A!Verify
  <2> QED BY <1>a, <2>0, <2>1 DEF Behind
<1>3. CASE GitStep
  <2>0. /\ item \in Repos /\ UNCHANGED <<pc, index, item>> /\ pc = "calling"
    BY <1>3, CallKind
    DEF GitStep, G!GetGithub, G!PullOrClone, G!Check, G!RecordUrl,
        G!RecordTag, G!GitSteps
  <2>1. step' \in {"return", "url", "tag"} => item \in Have'
    <3>1. CASE G!Check /\ step' = "url"
      BY <1>a, <2>0, <3>1, HaveIs DEF G!Check
    <3>2. CASE G!RecordUrl \/ G!RecordTag
      BY <1>a, <2>0, <3>2 DEF G!RecordUrl, G!RecordTag, Behind
    <3> QED
      BY <1>3, <3>1, <3>2 DEF GitStep, G!GetGithub, G!PullOrClone, G!Check
  <2> QED BY <1>a, <2>0, <2>1 DEF Behind
<1>4. CASE NextCall
  <2>0. /\ index \in 1..Len(Calls) /\ item = Calls[index] /\ item \in Have
        /\ pc = "calling" /\ Len(Calls) \in Nat
        /\ \A j \in 1..Len(Calls) : j < index => Calls[j] \in Have
    BY <1>4, CallsAreCalls DEF NextCall, TypeOK, Behind
  <2>1. CASE index < Len(Calls)
    <3>1. FirstStep(Calls[index + 1]) \notin {"return", "url", "tag"}
      BY DEF FirstStep
    <3>2. \A j \in 1..Len(Calls) : j < index + 1 => Calls[j] \in Have
      <4> SUFFICES ASSUME NEW j \in 1..Len(Calls), j < index + 1
                   PROVE  Calls[j] \in Have
        OBVIOUS
      <4>1. j < index \/ j = index  BY <2>0
      <4> QED BY <2>0, <4>1
    <3>3. /\ pc' = "calling" /\ index' = index + 1
          /\ step' = FirstStep(Calls[index + 1])
      BY <1>4, <2>1 DEF NextCall
    <3> QED BY <1>a, <3>1, <3>2, <3>3 DEF Behind
  <2>2. CASE ~(index < Len(Calls))
    <3>1. \A j \in 1..Len(Calls) : Calls[j] \in Have
      <4> SUFFICES ASSUME NEW j \in 1..Len(Calls) PROVE Calls[j] \in Have
        OBVIOUS
      <4>1. j < index \/ j = index  BY <2>0, <2>2
      <4> QED BY <2>0, <4>1
    <3> QED BY <1>a, <1>4, <2>2, <3>1 DEF NextCall, Behind
  <2> QED BY <2>1, <2>2
<1>5. CASE Exit  BY <1>b, <1>5 DEF Exit
<1>6. CASE StripOne  BY <1>c, <1>6 DEF StripOne
<1>7. CASE StripDone  BY <1>a, <1>7 DEF StripDone, Behind
<1>8. CASE Leave  BY <1>b, <1>8 DEF Leave
<1>9. CASE KillArch \/ KillGit \/ KillStrip
  BY <1>b, <1>9 DEF KillArch, KillGit, KillStrip, Killed
<1>10. CASE Release  BY <1>c, <1>10 DEF Release
<1>11. CASE EditPin  BY <1>c, <1>11 DEF EditPin
<1>12. CASE UNCHANGED vars  BY <1>c, <1>12 DEF vars
<1> QED
  BY <1>1, <1>2, <1>3, <1>4, <1>5, <1>6, <1>7, <1>8, <1>9, <1>10, <1>11, <1>12
  DEF Next, Script

LEMMA AheadStep == TypeOK /\ Ahead /\ [Next]_vars => Ahead'
<1> SUFFICES ASSUME TypeOK, Ahead, [Next]_vars PROVE Ahead'  OBVIOUS
<1> USE DEF gitVars, history
<1>a. /\ arch \in [Archives -> [file : A!Files, folder : A!Folders]]
      /\ clone \in [Repos -> G!Clones]
  BY DEF TypeOK, A!ArchTypeOK, G!GitTypeOK
<1>b. ASSUME pc' # "calling" PROVE Ahead'  BY <1>b DEF Ahead
<1>c. ASSUME UNCHANGED <<pc, item, step, arch, clone, healthy>> PROVE Ahead'
  BY <1>c DEF Ahead, A!Poisoned
<1>1. CASE Start
  <2>1. FirstStep(Calls[1]) \in {"download", "pull"}  BY DEF FirstStep
  <2> QED BY <1>1, <2>1 DEF Start, Ahead
<1>2. CASE ArchStep
  <2>0. /\ item \in Archives /\ UNCHANGED <<pc, item, healthy>> /\ pc = "calling"
    BY <1>2, CallKind
    DEF ArchStep, A!GetArch, A!Download, A!Unpack, A!Verify, A!ArchSteps
  <2>1. CASE A!Download
    <3>1. arch'[item].file # "absent"
      BY <1>a, <2>0, <2>1 DEF A!Download, A!File, A!DownloadResults
    <3> QED BY <2>0, <2>1, <3>1 DEF A!Download, Ahead
  <2>2. CASE A!Unpack
    <3> SUFFICES ASSUME healthy
                 PROVE  /\ arch'[item].file # "absent"
                        /\ arch'[item].folder = "absent" => arch'[item].file = "empty"
      BY <2>0, <2>2 DEF A!Unpack, Ahead
    <3>1. arch[item].file \in {"empty", "cut", "whole"}
      BY <1>a, <2>0, <2>2 DEF A!Unpack, A!Files, Ahead
    <3>2. CASE UNCHANGED arch /\ arch[item].folder # "absent"
      BY <3>1, <3>2, <2>0
    <3>3. ASSUME NEW f \in A!UnpackResults(A!File), arch' = [arch EXCEPT ![item].folder = f]
          PROVE  /\ arch'[item].file # "absent"
                 /\ arch'[item].folder = "absent" => arch'[item].file = "empty"
      <4>1. arch'[item].file = arch[item].file /\ arch'[item].folder = f
        BY <1>a, <2>0, <3>3
      <4>2. f = "absent" => arch[item].file = "empty"
        BY <3>1 DEF A!UnpackResults, A!File
      <4> QED BY <3>1, <4>1, <4>2
    <3> QED BY <2>2, <3>2, <3>3 DEF A!Unpack, A!Folder
  <2>3. CASE A!Verify
    BY <2>0, <2>3 DEF A!Verify, A!File, A!Folder, Ahead, A!Poisoned
  <2> QED BY <1>2, <2>1, <2>2, <2>3 DEF ArchStep, A!GetArch
<1>3. CASE GitStep
  <2>0. /\ item \in Repos /\ UNCHANGED <<pc, item, healthy>> /\ pc = "calling"
    BY <1>3, CallKind
    DEF GitStep, G!GetGithub, G!PullOrClone, G!Check, G!RecordUrl,
        G!RecordTag, G!GitSteps
  <2>1. CASE G!PullOrClone
    <3> SUFFICES ASSUME healthy PROVE clone'[item].content # "absent"
      BY <2>0, <2>1 DEF G!PullOrClone, Ahead
    <3>1. CASE G!Clone
      <4>1. clone'[item] = G!FreshClone(item)
        BY <1>a, <2>0, <3>1 DEF G!Clone, G!CloneResults
      <4> QED BY <4>1 DEF G!FreshClone
    <3>2. CASE G!Pull
      <4>1. clone'[item] \in G!PullResults(item) /\ clone[item].content # "absent"
        BY <1>a, <2>0, <3>2 DEF G!Pull
      <4> QED BY <2>0, <4>1, PullMovesBranches
    <3>3. CASE G!PullAround
      <4>1. PICK hurt : G!AroundPulled(hurt)  BY <3>3 DEF G!PullAround
      <4> QED BY <2>0, <3>3, <4>1, AroundResults DEF G!PullAround, G!InAround
    <3> QED BY <2>1, <3>1, <3>2, <3>3 DEF G!PullOrClone
  <2>2. CASE G!Check  BY <2>0, <2>2 DEF G!Check, Ahead
  <2>3. CASE G!RecordUrl  BY <2>0, <2>3 DEF G!RecordUrl, Ahead
  <2>4. CASE G!RecordTag  BY <2>0, <2>4 DEF G!RecordTag, Ahead
  <2> QED BY <1>3, <2>1, <2>2, <2>3, <2>4 DEF GitStep, G!GetGithub
<1>4. CASE NextCall
  <2>1. step' \in {"download", "pull"} \/ pc' = "stripping"
    BY <1>4 DEF NextCall, FirstStep
  <2> QED BY <1>b, <2>1 DEF Ahead
<1>5. CASE Exit  BY <1>b, <1>5 DEF Exit
<1>6. CASE StripOne  BY <1>b, <1>6 DEF StripOne
<1>7. CASE StripDone  BY <1>b, <1>7 DEF StripDone
<1>8. CASE Leave  BY <1>b, <1>8 DEF Leave
<1>9. CASE KillArch \/ KillGit \/ KillStrip
  BY <1>b, <1>9 DEF KillArch, KillGit, KillStrip, Killed
<1>10. CASE Release  BY <1>c, <1>10 DEF Release
<1>11. CASE EditPin  BY <1>c, <1>11 DEF EditPin
<1>12. CASE UNCHANGED vars  BY <1>c, <1>12 DEF vars
<1> QED
  BY <1>1, <1>2, <1>3, <1>4, <1>5, <1>6, <1>7, <1>8, <1>9, <1>10, <1>11, <1>12
  DEF Next, Script

(* With network and disk, an early exit has one cause: a file that an      *)
(* earlier download left empty.                                            *)
THEOREM OnlyPoisonStops == Spec => []HealthyRunFailsOnlyOnPoison
<1>1. Ahead => HealthyRunFailsOnlyOnPoison
  BY DEF Ahead, HealthyRunFailsOnlyOnPoison
<1> QED BY <1>1, TypeInit, TypeStep, BehindInit, AheadStep, PTL DEF Spec
-----------------------------------------------------------------------------
(* The script's first state is one of SourceTree, and each of its steps is *)
(* a step of SourceTree or changes nothing of it.                          *)
LEMMA TreeInit == Init => Tree!Init
  BY HaveIs DEF Init, Tree!Init

LEMMA TreeStep == TypeOK /\ Carried /\ Behind /\ [Next]_vars => [Tree!Next]_Tree!vars
<1> SUFFICES ASSUME TypeOK, Carried, Behind, [Next]_vars PROVE [Tree!Next]_Tree!vars
  OBVIOUS
<1> USE DEF gitVars, history
<1> DEFINE run(p) == CASE p = "idle" -> "idle" [] p = "done" -> "done"
                       [] OTHER -> "running"
<1>a. /\ item \in Archives \cup Repos
      /\ pc # "calling" => Have' = Have
      /\ Have' = Have \/ Have' = Have \cup {item}
  BY CallKind, HaveGrows
<1>b. ASSUME run(pc') = run(pc), Have' = Have PROVE [Tree!Next]_Tree!vars
  BY <1>b DEF Tree!vars
<1>1. CASE Start
  <2>1. Have' = Have  BY <1>a, <1>1 DEF Start
  <2> QED BY <1>1, <2>1 DEF Start, Tree!Next, Tree!Begin
<1>2. CASE ArchStep \/ GitStep
  <2>1. pc = "calling" /\ UNCHANGED pc  BY <1>2 DEF ArchStep, GitStep
  <2>2. CASE Have' = Have  BY <1>b, <2>1, <2>2
  <2>3. CASE Have' = Have \cup {item}
    <3>1. Tree!Obtain(item)  BY <2>1, <2>3 DEF Tree!Obtain
    <3> QED BY <1>a, <3>1 DEF Tree!Next
  <2> QED BY <1>a, <2>2, <2>3
<1>3. CASE NextCall
  <2>1. Have' = Have  BY <1>3 DEF NextCall, Have
  <2> QED BY <1>b, <1>3, <2>1 DEF NextCall
<1>4. CASE Exit
  <2>1. Have' = Have  BY <1>4 DEF Exit, Have
  <2>2. Tree!Abort  BY <1>a, <1>4, <2>1 DEF Exit, Tree!Abort
  <2> QED BY <2>2 DEF Tree!Next
<1>5. CASE StripOne  BY <1>a, <1>b, <1>5 DEF StripOne
<1>6. CASE StripDone
  <2>1. Have = Archives \cup Repos
    <3>1. \A i \in Archives \cup Repos : \E j \in 1..Len(Calls) : Calls[j] = i
      BY CallsAssumption DEF Range
    <3>2. Archives \cup Repos \subseteq Have
      BY <1>6, <3>1 DEF StripDone, Behind
    <3> QED BY <3>2, HaveIs
  <2>2. Have' = Have  BY <1>a, <1>6 DEF StripDone
  <2>3. Tree!Finish  BY <1>6, <2>1, <2>2 DEF StripDone, Tree!Finish
  <2> QED BY <2>3 DEF Tree!Next
<1>7. CASE Leave
  <2>1. Have' = Have  BY <1>a, <1>7 DEF Leave
  <2> QED BY <1>7, <2>1 DEF Leave, Tree!Next, Tree!Leave
<1>8. CASE KillArch \/ KillGit \/ KillStrip
  <2>1. pc \in {"calling", "stripping"} /\ pc' = "idle"
    BY <1>8 DEF KillArch, KillGit, KillStrip, Killed
  <2>2. Tree!Abort  BY <1>a, <2>1 DEF Tree!Abort
  <2> QED BY <2>2 DEF Tree!Next
<1>9. CASE Release
  <2>1. Have' = Have  BY <1>9 DEF Release, Have
  <2> QED BY <1>b, <1>9, <2>1 DEF Release
<1>10. CASE EditPin  BY <1>a, <1>b, <1>10 DEF EditPin
<1>11. CASE UNCHANGED vars
  <2>1. Have' = Have  BY <1>11 DEF vars, Have
  <2> QED BY <1>b, <1>11, <2>1 DEF vars
<1> QED
  BY <1>1, <1>2, <1>3, <1>4, <1>5, <1>6, <1>7, <1>8, <1>9, <1>10, <1>11
  DEF Next, Script

(* The script never does what SourceTree does not allow: it loses no       *)
(* source, and comes to its end only with all of them.                     *)
THEOREM KeepsTheTree == Spec => Tree!Init /\ [][Tree!Next]_Tree!vars
<1>1. Spec => [](TypeOK /\ Carried /\ Behind)
  BY TypeInit, TypeStep, CarriedInit, CarriedStep, BehindInit, BehindStep, PTL
  DEF Spec
<1> QED BY <1>1, TreeInit, TreeStep, PTL DEF Spec
-----------------------------------------------------------------------------
(* The entries of the manifest belong to calls that were made, and to the  *)
(* present one only between its two lines and its return.                  *)
Writing == step \in {"tag", "return"}
Made(r) == \E j \in 1..Len(Calls) :
             /\ Calls[j] = r
             /\ pc = "calling" => j < index \/ (j = index /\ Writing)

Truth(e) ==
  /\ e.tag \in G!Versions => clone[e.repo].at = e.tag
  /\ e.tag = G!AroundTag => e.repo \in Around /\ ~G!OwnGit(e.repo)
  /\ e.repo \in tracked => e.tag \notin G!Versions

ManifestInv ==
  /\ \A n \in 1..Len(versions) : Made(versions[n].repo) /\ Truth(versions[n])
  /\ pc = "calling" /\ step = "tag" =>
       versions # <<>> /\ versions[Len(versions)].repo = item

(* An entry stays true as long as the folder has its version, and does not *)
(* become a repository.                                                    *)
LEMMA TruthStays ==
  ASSUME TypeOK, [Next]_vars, NEW e \in [repo : Repos, tag : G!Tags], Truth(e),
         ~(CallOf(e.repo) /\ step = "pull")
  PROVE  Truth(e)'
<1> DEFINE r == e.repo
<1>1. r \in Repos  OBVIOUS
<1>2. /\ r \in tracked \/ clone'[r].at = clone[r].at
      /\ ~G!OwnGit(r) => ~(G!OwnGit(r)')
  <2>1. CASE clone'[r] = clone[r]  BY <2>1 DEF G!OwnGit
  <2>2. CASE Disowned(r)  BY <2>2 DEF Disowned, G!OwnGit
  <2>3. ASSUME NEW hurt, AllPulled(hurt)
        PROVE  /\ clone'[r].git = clone[r].git
               /\ r \in tracked \/ clone'[r] = clone[r]
    BY <1>1, <2>3, AroundResults DEF AllPulled
  <2> QED BY <1>1, <2>1, <2>2, <2>3, FolderMoves DEF Cloned, Pulled, G!OwnGit
<1>3. UNCHANGED tracked  BY AroundMoves
<1> QED BY <1>2, <1>3 DEF Truth

LEMMA ManifestInit == Init => ManifestInv
<1> SUFFICES ASSUME Init PROVE ManifestInv  OBVIOUS
<1>1. Len(versions) = 0  BY EmptySeq DEF Init
<1> QED BY <1>1 DEF Init, ManifestInv

(* While the folder of a repository is cloned or pulled, the manifest has  *)
(* no entry for it.                                                        *)
LEMMA NoEntryYet ==
  ASSUME TypeOK, ManifestInv, NEW n \in 1..Len(versions)
  PROVE  ~(CallOf(versions[n].repo) /\ step = "pull")
<1> SUFFICES ASSUME CallOf(versions[n].repo), step = "pull" PROVE FALSE
  OBVIOUS
<1>1. PICK j \in 1..Len(Calls) :
        Calls[j] = versions[n].repo /\ (j < index \/ (j = index /\ Writing))
  BY DEF ManifestInv, Made, CallOf
<1>2. j < index  BY <1>1 DEF Writing
<1>3. index \in 1..Len(Calls) /\ Calls[index] = Calls[j]
  BY <1>1 DEF TypeOK, CallOf
<1>4. index = j  BY <1>3, CallsAssumption DEF IsInjective
<1> QED BY <1>2, <1>3, <1>4

(* What git describe says is so.                                           *)
LEMMA DescribesTruth ==
  ASSUME TypeOK, Carried, NEW r \in Repos, NEW t \in G!Describe(r)
  PROVE  /\ t \in G!Versions => clone[r].at = t
         /\ t = G!AroundTag => r \in Around /\ ~G!OwnGit(r)
         /\ r \in tracked => t \notin G!Versions
<1>0. /\ clone[r] \in G!Clones
      /\ G!NoTag \notin G!Versions /\ G!AroundTag \notin G!Versions
      /\ G!NoTag # G!AroundTag /\ clone[r].at # G!AroundTag
  BY SettingAssumption
  DEF TypeOK, G!GitTypeOK, G!Clones, G!Versions, G!NoTag, G!AroundTag
<1>1. CASE t \in {IF r \in Around THEN G!AroundTag ELSE G!NoTag, G!NoTag}
           /\ ~G!OwnGit(r)
  BY <1>0, <1>1
<1>2. CASE /\ t \in {IF r \in Untagged THEN G!NoTag ELSE clone[r].at, G!NoTag}
           /\ G!OwnGit(r)
  BY <1>0, <1>2 DEF Carried, G!OwnGit
<1> QED BY <1>0, <1>1, <1>2 DEF G!Describe, G!OwnGit, G!Clones

LEMMA ManifestStep == TypeOK /\ Carried /\ ManifestInv /\ [Next]_vars => ManifestInv'
<1> SUFFICES ASSUME TypeOK, Carried, ManifestInv, [Next]_vars PROVE ManifestInv'
  OBVIOUS
<1> USE DEF gitVars, history
<1> DEFINE Lines == [repo : Repos, tag : G!Tags]
<1>a. /\ versions \in Seq(Lines) /\ Len(versions) \in Nat
      /\ \A n \in 1..Len(versions) : versions[n] \in Lines
      /\ index \in 1..Len(Calls) /\ item = Calls[index]
  <2>1. versions \in Seq(Lines)  BY DEF TypeOK, G!GitTypeOK
  <2> HIDE DEF Lines
  <2>2. \A n \in 1..Len(versions) : versions[n] \in Lines
    BY <2>1, ElementOfSeq
  <2>3. Len(versions) \in Nat  BY <2>1, LenProperties
  <2> QED BY <2>1, <2>2, <2>3 DEF TypeOK
<1>b. ASSUME NEW n \in 1..Len(versions) PROVE versions'[n] = versions[n] => Truth(versions[n])'
  <2>1. Truth(versions[n]) /\ ~(CallOf(versions[n].repo) /\ step = "pull")
    BY NoEntryYet DEF ManifestInv
  <2>2. PICK e \in Lines : e = versions[n]  BY <1>a
  <2>3. Truth(e)'  BY <2>1, <2>2, TruthStays
  <2> QED BY <2>2, <2>3 DEF Truth
<1>c. ASSUME UNCHANGED versions, pc' = "calling" => step' # "tag",
             \A r \in Repos : Made(r) => Made(r)'
      PROVE  ManifestInv'
  BY <1>a, <1>b, <1>c DEF ManifestInv
<1>d. ASSUME pc' # "calling" PROVE \A r \in Repos : Made(r) => Made(r)'
  BY <1>d DEF Made
<1>e. ASSUME UNCHANGED <<pc, index>>, Writing => Writing'
      PROVE  \A r \in Repos : Made(r) => Made(r)'
  BY <1>e DEF Made
<1>1. CASE Start
  <2>1. versions' = <<>> /\ step' # "tag"  BY <1>1 DEF Start, FirstStep
  <2>2. Len(versions') = 0  BY <2>1, EmptySeq
  <2> QED BY <2>1, <2>2 DEF ManifestInv
<1>2. CASE ArchStep
  BY <1>2, <1>c, <1>e
  DEF ArchStep, A!GetArch, A!Download, A!Unpack, A!Verify, Writing
<1>3. CASE GitStep /\ (G!PullOrClone \/ G!Check)
  BY <1>3, <1>c, <1>e DEF GitStep, G!PullOrClone, G!Check, Writing
<1>4. CASE GitStep /\ G!RecordUrl
  <2>0. /\ item \in Repos /\ pc = "calling" /\ step = "url" /\ step' = "tag"
        /\ UNCHANGED <<pc, index, item, clone, tracked>>
        /\ versions' = Append(versions, [repo |-> item, tag |-> G!Unwritten])
    BY <1>4, CallKind DEF GitStep, G!RecordUrl, G!GitSteps, G!gitFolders
  <2>1. [repo |-> item, tag |-> G!Unwritten] \in Lines
    BY <2>0 DEF G!Tags
  <2>2. /\ Len(versions') = Len(versions) + 1
        /\ \A n \in 1..Len(versions) : versions'[n] = versions[n]
        /\ versions'[Len(versions) + 1] = [repo |-> item, tag |-> G!Unwritten]
    BY <1>a, <2>0, <2>1, AppendProperties
  <2>3. Made(item)'  BY <1>a, <2>0 DEF Made, Writing
  <2>4. Truth([repo |-> item, tag |-> G!Unwritten])'
    <3>1. G!Unwritten \notin G!Versions /\ G!Unwritten # G!AroundTag
      BY SettingAssumption DEF G!Unwritten, G!AroundTag, G!Versions
    <3> QED BY <3>1 DEF Truth
  <2>5. \A r \in Repos : Made(r) => Made(r)'
    BY <1>e, <2>0 DEF Writing
  <2>6. ASSUME NEW n \in 1..Len(versions')
        PROVE  (Made(versions[n].repo) /\ Truth(versions[n]))'
    <3>1. n \in 1..Len(versions) \/ n = Len(versions) + 1  BY <1>a, <2>2
    <3>2. CASE n \in 1..Len(versions)
      BY <1>a, <1>b, <2>2, <2>5, <3>2 DEF ManifestInv
    <3>3. CASE n = Len(versions) + 1  BY <2>2, <2>3, <2>4, <3>3, <2>0
    <3> QED BY <3>1, <3>2, <3>3
  <2>7. versions' # <<>> /\ versions'[Len(versions')].repo = item'
    <3>1. Len(versions') # 0  BY <1>a, <2>2
    <3> QED BY <2>0, <2>2, <3>1, EmptySeq
  <2> QED BY <2>6, <2>7 DEF ManifestInv
<1>5. CASE GitStep /\ G!RecordTag
  <2>0. /\ item \in Repos /\ pc = "calling" /\ step = "tag" /\ step' = "return"
        /\ UNCHANGED <<pc, index, item, clone, tracked>>
    BY <1>5, CallKind DEF GitStep, G!RecordTag, G!GitSteps, G!gitFolders
  <2>1. PICK t \in G!Describe(item) :
          versions' = [versions EXCEPT ![Len(versions)].tag = t]
    BY <1>5 DEF G!RecordTag
  <2> DEFINE last == Len(versions)
  <2>2. last \in 1..last /\ versions[last].repo = item
    <3>1. versions # <<>> /\ versions[last].repo = item
      BY <2>0 DEF ManifestInv
    <3>2. last \in Nat \ {0}  BY <1>a, <3>1, EmptySeq
    <3> QED BY <3>1, <3>2
  <2>3. /\ Len(versions') = last
        /\ \A n \in 1..last : n # last => versions'[n] = versions[n]
        /\ versions'[last].repo = item /\ versions'[last].tag = t
    <3>1. versions[last] \in Lines /\ DOMAIN versions = 1..last
      BY <1>a, <2>2, LenProperties
    <3>2. t \in G!Tags  BY <2>0, Described
    <3>3. /\ [versions[last] EXCEPT !.tag = t] \in Lines
          /\ [versions[last] EXCEPT !.tag = t].repo = item
          /\ [versions[last] EXCEPT !.tag = t].tag = t
      BY <2>2, <3>1, <3>2
    <3>4. versions' = [versions EXCEPT ![last] = [versions[last] EXCEPT !.tag = t]]
      BY <2>1
    <3> HIDE DEF Lines, last
    <3>5. /\ Len([versions EXCEPT ![last] = [versions[last] EXCEPT !.tag = t]]) = Len(versions)
          /\ \A n \in 1..Len(versions) :
               [versions EXCEPT ![last] = [versions[last] EXCEPT !.tag = t]][n]
                 = IF n = last THEN [versions[last] EXCEPT !.tag = t] ELSE versions[n]
      BY <1>a, <2>2, <3>3, ExceptSeq DEF last
    <3> QED BY <2>2, <3>3, <3>4, <3>5 DEF last
  <2>4. /\ t \in G!Versions => clone[item].at = t
        /\ t = G!AroundTag => item \in Around /\ ~G!OwnGit(item)
        /\ item \in tracked => t \notin G!Versions
    BY <2>0, DescribesTruth
  <2>5. \A r \in Repos : Made(r) => Made(r)'
    BY <1>e, <2>0 DEF Writing
  <2>6. ASSUME NEW n \in 1..Len(versions')
        PROVE  (Made(versions[n].repo) /\ Truth(versions[n]))'
    <3>1. CASE n = last
      <4>1. Made(versions[last].repo)  BY <2>2 DEF ManifestInv
      <4>2. Made(item)'  BY <2>0, <2>2, <2>5, <4>1
      <4>3. Truth(versions[n])'
        BY <2>0, <2>3, <2>4, <3>1 DEF Truth, G!OwnGit
      <4> QED BY <2>0, <2>3, <3>1, <4>2, <4>3
    <3>2. CASE n # last
      BY <1>a, <1>b, <2>3, <2>5, <3>2 DEF ManifestInv
    <3> QED BY <3>1, <3>2
  <2> QED BY <2>0, <2>6 DEF ManifestInv
<1>6. CASE NextCall
  <2>1. /\ pc = "calling" /\ step = "return" /\ UNCHANGED versions
        /\ pc' = "calling" => step' # "tag"
    BY <1>6 DEF NextCall, FirstStep
  <2>2. CASE index < Len(Calls)
    <3>1. pc' = pc /\ index' = index + 1  BY <1>6, <2>2 DEF NextCall
    <3>2. \A r \in Repos : Made(r) => Made(r)'
      <4>1. index \in Nat  BY <1>a, CallsAreCalls
      <4>2. \A j \in 1..Len(Calls) : j < index \/ j = index => j < index + 1
        BY <4>1, CallsAreCalls
      <4> QED BY <2>1, <3>1, <4>2 DEF Made
    <3> QED BY <1>c, <2>1, <3>2
  <2>3. CASE ~(index < Len(Calls))
    BY <1>6, <1>c, <1>d, <2>1, <2>3 DEF NextCall
  <2> QED BY <2>2, <2>3
<1>7. CASE Exit  BY <1>7, <1>c, <1>d DEF Exit
<1>8. CASE StripOne  BY <1>8, <1>c, <1>d DEF StripOne
<1>9. CASE StripDone  BY <1>9, <1>c, <1>d DEF StripDone
<1>10. CASE Leave  BY <1>10, <1>c, <1>d DEF Leave
<1>11. CASE KillArch \/ KillGit \/ KillStrip
  BY <1>11, <1>c, <1>d DEF KillArch, KillGit, KillStrip, Killed
<1>f. ASSUME UNCHANGED <<pc, index, item, step, versions>> PROVE ManifestInv'
  BY <1>a, <1>b, <1>e, <1>f DEF ManifestInv, Writing
<1>12. CASE Release  BY <1>f, <1>12 DEF Release
<1>13. CASE EditPin  BY <1>f, <1>13 DEF EditPin
<1>14. CASE UNCHANGED vars  BY <1>f, <1>14 DEF vars
<1> QED
  BY <1>1, <1>2, <1>3, <1>4, <1>5, <1>6, <1>7, <1>8, <1>9, <1>10, <1>11, <1>12,
     <1>13, <1>14
  DEF Next, Script, GitStep, G!GetGithub

(* What the manifest says of a folder is so, at any time.                  *)
THEOREM ManifestIsTrue == Spec => []ManifestTruthful
<1>1. TypeOK /\ ManifestInv => ManifestTruthful
  <2> SUFFICES ASSUME TypeOK, ManifestInv, NEW n \in DOMAIN versions
               PROVE  Truth(versions[n])
    BY DEF ManifestTruthful, Truth
  <2>1. DOMAIN versions = 1..Len(versions)
    BY LenProperties DEF TypeOK, G!GitTypeOK
  <2> QED BY <2>1 DEF ManifestInv
<1> QED
  BY <1>1, TypeInit, TypeStep, CarriedInit, CarriedStep, ManifestInit,
     ManifestStep, PTL DEF Spec
-----------------------------------------------------------------------------
(* The manifest so far: each call of a repository that got as far as its   *)
(* first line has one, in the order of the calls, and only the last line   *)
(* may lack the tag, between the two commands that write them.  What       *)
(* earlier runs left is gone with the first command.                       *)
Begun(j) == j < index \/ (j = index /\ Writing)

Named ==
  pc # "idle" =>
    \A j \in 1..Len(Calls) : Calls[j] \in Repos /\ Begun(j) =>
      \E n \in 1..Len(versions) : versions[n].repo = Calls[j]

Ordered ==
  \A m, n \in 1..Len(versions) : m < n =>
    \A i, j \in 1..Len(Calls) :
      Calls[i] = versions[m].repo /\ Calls[j] = versions[n].repo => i < j

Tagged ==
  pc # "idle" =>
    \A n \in 1..Len(versions) : versions[n].tag = G!Unwritten =>
      n = Len(versions) /\ pc = "calling" /\ step = "tag"

Ended == pc \in {"stripping", "done"} => index = Len(Calls) /\ step = "return"

ListInv == Named /\ Ordered /\ Tagged /\ Ended

LEMMA ListInit == Init => ListInv
<1> SUFFICES ASSUME Init PROVE ListInv  OBVIOUS
<1>1. Len(versions) = 0 /\ pc = "idle"  BY EmptySeq DEF Init
<1> QED BY <1>1 DEF ListInv, Named, Ordered, Tagged, Ended

LEMMA ListStep == TypeOK /\ ManifestInv /\ ListInv /\ [Next]_vars => ListInv'
<1> SUFFICES ASSUME TypeOK, ManifestInv, ListInv, [Next]_vars PROVE ListInv'
  OBVIOUS
<1> USE DEF gitVars, history
<1> DEFINE Lines == [repo : Repos, tag : G!Tags]
<1>a. /\ versions \in Seq(Lines) /\ Len(versions) \in Nat
      /\ \A n \in 1..Len(versions) : versions[n] \in Lines
      /\ index \in 1..Len(Calls) /\ item = Calls[index] /\ Len(Calls) \in Nat
  <2>1. versions \in Seq(Lines)  BY DEF TypeOK, G!GitTypeOK
  <2> HIDE DEF Lines
  <2>2. \A n \in 1..Len(versions) : versions[n] \in Lines
    BY <2>1, ElementOfSeq
  <2>3. Len(versions) \in Nat  BY <2>1, LenProperties
  <2> QED BY <2>1, <2>2, <2>3, CallsAreCalls DEF TypeOK
<1>b. ASSUME UNCHANGED versions, pc' = "idle" PROVE ListInv'
  BY <1>b DEF ListInv, Named, Ordered, Tagged, Ended
<1>c. ASSUME UNCHANGED <<pc, index, versions>>, Writing' => Writing,
             step = "tag" => step' = "tag",
             step = "return" => step' = "return"
      PROVE  ListInv'
  BY <1>c DEF ListInv, Named, Ordered, Tagged, Ended, Begun
<1>1. CASE Start
  <2>1. /\ versions' = <<>> /\ pc' = "calling" /\ index' = 1
        /\ step' \notin {"tag", "return"}
    BY <1>1 DEF Start, FirstStep
  <2>2. Len(versions') = 0  BY <2>1, EmptySeq
  <2>3. \A j \in 1..Len(Calls) : ~Begun(j)'
    BY <1>a, <2>1 DEF Begun, Writing
  <2> QED BY <2>1, <2>2, <2>3 DEF ListInv, Named, Ordered, Tagged, Ended
<1>2. CASE ArchStep
  <2>0. /\ item \in Archives /\ UNCHANGED <<pc, index, item, versions>>
        /\ step \notin {"tag", "return"} /\ pc = "calling"
    BY <1>2, CallKind
    DEF ArchStep, A!GetArch, A!Download, A!Unpack, A!Verify, A!ArchSteps
  <2>1. item \notin Repos  BY <2>0, CallsAssumption
  <2>2. \A j \in 1..Len(Calls) : Calls[j] \in Repos /\ Begun(j)' => Begun(j)
    BY <1>a, <2>0, <2>1 DEF Begun
  <2>3. Named'  BY <2>0, <2>2 DEF ListInv, Named
  <2>4. Ordered' /\ Tagged' /\ Ended'
    BY <2>0 DEF ListInv, Ordered, Tagged, Ended
  <2> QED BY <2>3, <2>4 DEF ListInv
<1>3. CASE GitStep /\ (G!PullOrClone \/ G!Check)
  <2>1. /\ UNCHANGED <<pc, index, versions>> /\ step \in {"pull", "check"}
        /\ step' \in {"check", "exit", "url"}
    BY <1>3 DEF GitStep, G!PullOrClone, G!Check
  <2> QED BY <1>c, <2>1 DEF Writing
<1>4. CASE GitStep /\ G!RecordUrl
  <2>0. /\ item \in Repos /\ pc = "calling" /\ step = "url" /\ step' = "tag"
        /\ UNCHANGED <<pc, index, item>>
        /\ versions' = Append(versions, [repo |-> item, tag |-> G!Unwritten])
    BY <1>4, CallKind DEF GitStep, G!RecordUrl, G!GitSteps
  <2>1. [repo |-> item, tag |-> G!Unwritten] \in Lines
    BY <2>0 DEF G!Tags
  <2> DEFINE last == Len(versions) + 1
  <2>2. /\ Len(versions') = last
        /\ \A n \in 1..Len(versions) : versions'[n] = versions[n]
        /\ versions'[last] = [repo |-> item, tag |-> G!Unwritten]
    BY <1>a, <2>0, <2>1, AppendProperties
  <2>3. /\ versions'[last].repo = item /\ last \in 1..Len(versions')
        /\ \A n \in 1..Len(versions') : n \in 1..Len(versions) \/ n = last
        /\ 1..Len(versions) \subseteq 1..Len(versions')
    BY <1>a, <2>2
  <2>4. Named'
    <3> SUFFICES ASSUME NEW j \in 1..Len(Calls), Calls[j] \in Repos, Begun(j)'
                 PROVE  \E n \in 1..Len(versions') : versions'[n].repo = Calls[j]
      BY DEF Named
    <3>1. CASE j = index  BY <1>a, <2>3, <3>1
    <3>2. CASE j # index
      <4>1. Begun(j)  BY <2>0, <3>2 DEF Begun
      <4>2. PICK n \in 1..Len(versions) : versions[n].repo = Calls[j]
        BY <2>0, <4>1 DEF ListInv, Named
      <4> QED BY <2>2, <2>3, <4>2
    <3> QED BY <3>1, <3>2
  <2>5. Ordered'
    <3> SUFFICES ASSUME NEW m \in 1..Len(versions'), NEW n \in 1..Len(versions'),
                        m < n, NEW i \in 1..Len(Calls), NEW j \in 1..Len(Calls),
                        Calls[i] = versions'[m].repo, Calls[j] = versions'[n].repo
                 PROVE  i < j
      BY DEF Ordered
    <3>1. m \in 1..Len(versions)  BY <1>a, <2>2
    <3>2. CASE n \in 1..Len(versions)
      BY <2>2, <3>1, <3>2 DEF ListInv, Ordered
    <3>3. CASE n = last
      <4>1. j = index
        BY <1>a, <2>3, <3>3, CallsAssumption DEF IsInjective
      <4>2. PICK k \in 1..Len(Calls) : Calls[k] = versions[m].repo /\ k < index
        BY <2>0, <3>1 DEF ManifestInv, Made, Writing
      <4>3. Calls[i] = Calls[k]  BY <2>2, <3>1, <4>2
      <4>4. i = k  BY <1>a, <4>3, CallsAssumption DEF IsInjective
      <4> QED BY <4>1, <4>2, <4>4
    <3> QED BY <2>3, <3>2, <3>3
  <2>6. Tagged'
    <3>1. \A n \in 1..Len(versions) : versions[n].tag # G!Unwritten
      BY <2>0 DEF ListInv, Tagged
    <3> QED BY <2>0, <2>2, <2>3, <3>1 DEF Tagged
  <2> QED BY <2>0, <2>4, <2>5, <2>6 DEF ListInv, Ended
<1>5. CASE GitStep /\ G!RecordTag
  <2>0. /\ item \in Repos /\ pc = "calling" /\ step = "tag" /\ step' = "return"
        /\ UNCHANGED <<pc, index, item>>
    BY <1>5, CallKind DEF GitStep, G!RecordTag, G!GitSteps
  <2>1. PICK t \in G!Describe(item) :
          versions' = [versions EXCEPT ![Len(versions)].tag = t]
    BY <1>5 DEF G!RecordTag
  <2> DEFINE last == Len(versions)
  <2>2. last \in 1..last
    <3>1. versions # <<>>  BY <2>0 DEF ManifestInv
    <3>2. last \in Nat \ {0}  BY <1>a, <3>1, EmptySeq
    <3> QED BY <3>2
  <2>3. /\ Len(versions') = last /\ t # G!Unwritten
        /\ \A n \in 1..last : versions'[n].repo = versions[n].repo
        /\ \A n \in 1..last : n # last => versions'[n] = versions[n]
        /\ versions'[last].tag = t
    <3>1. versions[last] \in Lines /\ DOMAIN versions = 1..last
      BY <1>a, <2>2, LenProperties
    <3>2. t \in G!Tags /\ t # G!Unwritten  BY <2>0, Described
    <3>3. /\ [versions[last] EXCEPT !.tag = t] \in Lines
          /\ [versions[last] EXCEPT !.tag = t].repo = versions[last].repo
          /\ [versions[last] EXCEPT !.tag = t].tag = t
      BY <2>2, <3>1, <3>2
    <3>4. versions' = [versions EXCEPT ![last] = [versions[last] EXCEPT !.tag = t]]
      BY <2>1
    <3> HIDE DEF Lines, last
    <3>5. /\ Len([versions EXCEPT ![last] = [versions[last] EXCEPT !.tag = t]]) = Len(versions)
          /\ \A n \in 1..Len(versions) :
               [versions EXCEPT ![last] = [versions[last] EXCEPT !.tag = t]][n]
                 = IF n = last THEN [versions[last] EXCEPT !.tag = t] ELSE versions[n]
      BY <1>a, <2>2, <3>3, ExceptSeq DEF last
    <3> QED BY <2>2, <3>2, <3>3, <3>4, <3>5 DEF last
  <2>4. \A j \in 1..Len(Calls) : Begun(j)' => Begun(j)
    BY <2>0 DEF Begun, Writing
  <2>5. Named'  BY <2>0, <2>3, <2>4 DEF ListInv, Named
  <2>6. Ordered'  BY <2>3 DEF ListInv, Ordered
  <2>7. Tagged'
    <3>1. \A n \in 1..last : n # last => versions[n].tag # G!Unwritten
      BY <2>0 DEF ListInv, Tagged
    <3> QED BY <2>3, <3>1 DEF Tagged
  <2> QED BY <2>0, <2>5, <2>6, <2>7 DEF ListInv, Ended
<1>6. CASE NextCall
  <2>1. /\ pc = "calling" /\ step = "return" /\ UNCHANGED versions
        /\ \A n \in 1..Len(versions) : versions[n].tag # G!Unwritten
    BY <1>6 DEF NextCall, ListInv, Tagged
  <2>2. Ordered' /\ Tagged'
    BY <2>1 DEF ListInv, Ordered, Tagged
  <2>3. CASE index < Len(Calls)
    <3>1. /\ pc' = "calling" /\ index' = index + 1
          /\ step' \notin {"tag", "return"}
      BY <1>6, <2>1, <2>3 DEF NextCall, FirstStep
    <3>2. \A j \in 1..Len(Calls) : Begun(j)' => Begun(j)
      BY <1>a, <2>1, <3>1 DEF Begun, Writing
    <3>3. Named'  BY <2>1, <3>2 DEF ListInv, Named
    <3> QED BY <2>2, <3>1, <3>3 DEF ListInv, Ended
  <2>4. CASE ~(index < Len(Calls))
    <3>1. /\ pc' = "stripping" /\ UNCHANGED <<index, step>>
          /\ index = Len(Calls)
      BY <1>6, <1>a, <2>4 DEF NextCall
    <3>2. Named'
      BY <2>1, <3>1 DEF ListInv, Named, Begun, Writing
    <3> QED BY <2>1, <2>2, <3>1, <3>2 DEF ListInv, Ended
  <2> QED BY <2>3, <2>4
<1>7. CASE Exit  BY <1>7, <1>b DEF Exit
<1>8. CASE StripOne
  BY <1>8, <1>c DEF StripOne, Writing
<1>9. CASE StripDone
  <2>1. /\ pc = "stripping" /\ pc' = "done" /\ UNCHANGED <<index, step, versions>>
    BY <1>9 DEF StripDone
  <2> QED
    BY <2>1 DEF ListInv, Named, Ordered, Tagged, Ended, Begun, Writing
<1>10. CASE Leave  BY <1>10, <1>b DEF Leave
<1>11. CASE KillArch \/ KillGit \/ KillStrip
  BY <1>11, <1>b DEF KillArch, KillGit, KillStrip, Killed
<1>12. CASE Release  BY <1>c, <1>12 DEF Release, Writing
<1>13. CASE EditPin  BY <1>c, <1>13 DEF EditPin, Writing
<1>14. CASE UNCHANGED vars  BY <1>c, <1>14 DEF vars, Writing
<1> QED
  BY <1>1, <1>2, <1>3, <1>4, <1>5, <1>6, <1>7, <1>8, <1>9, <1>10, <1>11, <1>12,
     <1>13, <1>14
  DEF Next, Script, GitStep, G!GetGithub

(* A run that comes to its end leaves the manifest of all repositories, in *)
(* the order of the calls, with both lines of each.                        *)
THEOREM ManifestIsComplete == Spec => []ManifestComplete
<1>1. TypeOK /\ ListInv => ManifestComplete
  <2> SUFFICES ASSUME TypeOK, ListInv, pc \in {"stripping", "done"}
               PROVE  ManifestComplete
    BY DEF ManifestComplete
  <2>1. /\ DOMAIN versions = 1..Len(versions) /\ DOMAIN Calls = 1..Len(Calls)
        /\ Len(Calls) \in Nat
    BY CallsAssumption, LenProperties DEF TypeOK, G!GitTypeOK
  <2>2. \A j \in 1..Len(Calls) : Begun(j)
    BY <2>1 DEF ListInv, Ended, Begun, Writing
  <2>3. \A r \in Repos : \E n \in DOMAIN versions : versions[n].repo = r
    <3> SUFFICES ASSUME NEW r \in Repos
                 PROVE  \E n \in DOMAIN versions : versions[n].repo = r
      OBVIOUS
    <3>1. PICK j \in 1..Len(Calls) : Calls[j] = r
      BY <2>1, CallsAssumption DEF Range
    <3> QED BY <2>1, <2>2, <3>1 DEF ListInv, Named
  <2>4. \A n \in DOMAIN versions : versions[n].tag # G!Unwritten
    BY <2>1 DEF ListInv, Tagged
  <2> QED BY <2>1, <2>3, <2>4 DEF ListInv, Ordered, ManifestComplete
<1> QED
  BY <1>1, TypeInit, TypeStep, CarriedInit, CarriedStep, ManifestInit,
     ManifestStep, ListInit, ListStep, PTL DEF Spec
-----------------------------------------------------------------------------
(* The commands that the present run has yet to make, at most: those of    *)
(* the present call, five for each call to come, and an rm -rf for each    *)
(* folder that is stripped.                                                *)
InCall(s) == CASE s = "pull"                  -> 5
               [] s \in {"download", "check"} -> 4
               [] s \in {"unpack", "url"}     -> 3
               [] s \in {"verify", "tag"}     -> 2
               [] OTHER                       -> 1

ToCome == 5 * (Len(Calls) - index) + InCall(step)

CommandsLeft ==
  CASE pc = "calling"   -> ToCome + Cardinality(Stripped) + 1
    [] pc = "stripping" -> Cardinality(HasGit) + 1
    [] OTHER            -> 0

LEMMA InCallIs ==
  /\ InCall("pull") = 5 /\ InCall("download") = 4 /\ InCall("check") = 4
  /\ InCall("unpack") = 3 /\ InCall("url") = 3
  /\ InCall("verify") = 2 /\ InCall("tag") = 2
  /\ InCall("return") = 1 /\ InCall("exit") = 1
  /\ \A s : InCall(s) \in 1..5
  BY DEF InCall

(* The folders that are stripped are finitely many, as the calls are.      *)
LEMMA FiniteStripped ==
  /\ Cardinality(Stripped) \in Nat
  /\ \A S \in SUBSET Stripped :
       IsFiniteSet(S) /\ Cardinality(S) \in 0..Cardinality(Stripped)
<1> DEFINE T == Archives \cup Repos
<1>1. Calls \in [1..Len(Calls) -> T]
  BY CallsAssumption, LenProperties
<1>2. \A t \in T : \E i \in 1..Len(Calls) : Calls[i] = t
  BY CallsAssumption, LenProperties DEF Range
<1>3. Calls \in Surjection(1..Len(Calls), T)
  BY <1>1, <1>2 DEF Surjection
<1>4. IsFiniteSet(1..Len(Calls))
  <2>1. Len(Calls) \in Int /\ 1 \in Int  BY CallsAreCalls
  <2> QED BY <2>1, FS_Interval
<1>5. IsFiniteSet(T)  BY <1>3, <1>4, FS_Surjection
<1>6. IsFiniteSet(Stripped)
  <2>1. Stripped \in SUBSET T  BY SettingAssumption
  <2> QED BY <1>5, <2>1, FS_Subset
<1>7. Cardinality(Stripped) \in Nat  BY <1>6, FS_CardinalityType
<1>8. ASSUME NEW S \in SUBSET Stripped
      PROVE  IsFiniteSet(S) /\ Cardinality(S) \in 0..Cardinality(Stripped)
  <2>1. IsFiniteSet(S) /\ Cardinality(S) <= Cardinality(Stripped)
    BY <1>6, FS_Subset
  <2>2. Cardinality(S) \in Nat  BY <2>1, FS_CardinalityType
  <2> QED BY <1>7, <2>1, <2>2
<1> QED BY <1>7, <1>8

LEMMA FiveLess ==
  ASSUME NEW n \in Int, NEW i \in Int, NEW k \in 1..5, NEW s \in Int
  PROVE  5 * (n - (i + 1)) + k + s + 1 < 5 * (n - i) + 1 + s + 1
  OBVIOUS

(* Each command of the script leaves fewer to come.                        *)
Nearer ==
  /\ Script => CommandsLeft' < CommandsLeft
  /\ (pc # "idle" /\ pc' # "idle") => CommandsLeft' <= CommandsLeft

LEMMA CommandsCount ==
  ASSUME TypeOK
  PROVE  CommandsLeft \in 0..(5 * Len(Calls) + Cardinality(Stripped) + 1)
<1>1. index \in 1..Len(Calls) /\ Len(Calls) \in Nat /\ InCall(step) \in 1..5
  BY CallsAreCalls, InCallIs DEF TypeOK
<1>2. ToCome \in 1..(5 * Len(Calls))  BY <1>1 DEF ToCome
<1>3. Cardinality(HasGit) \in 0..Cardinality(Stripped)
  BY FiniteStripped DEF HasGit
<1> QED BY <1>1, <1>2, <1>3, FiniteStripped DEF CommandsLeft

LEMMA NearerStep == TypeOK /\ [Next]_vars => [Nearer]_vars
<1> SUFFICES ASSUME TypeOK, Next PROVE Nearer
  OBVIOUS
<1> USE DEF gitVars, history
<1>a. /\ pc \in {"idle", "calling", "stripping", "done"}
      /\ index \in 1..Len(Calls) /\ Len(Calls) \in Nat
      /\ clone \in [Repos -> G!Clones]
  BY CallsAreCalls DEF TypeOK, G!GitTypeOK
<1>b. /\ Cardinality(Stripped) \in Nat /\ Cardinality(HasGit) \in Nat
      /\ IsFiniteSet(HasGit) /\ Cardinality(HasGit) <= Cardinality(Stripped)
  <2>1. HasGit \in SUBSET Stripped  BY DEF HasGit
  <2> QED BY <2>1, FiniteStripped
<1>c. ASSUME UNCHANGED <<pc, index>>, pc = "calling", InCall(step') < InCall(step)
      PROVE  CommandsLeft' < CommandsLeft
  <2>1. InCall(step) \in Int /\ InCall(step') \in Int  BY InCallIs
  <2>2. ToCome \in Int /\ ToCome' \in Int /\ ToCome' < ToCome
    BY <1>a, <1>c, <2>1 DEF ToCome
  <2>3. CommandsLeft' = ToCome' + Cardinality(Stripped) + 1
    BY <1>c DEF CommandsLeft
  <2>4. CommandsLeft = ToCome + Cardinality(Stripped) + 1
    BY <1>c DEF CommandsLeft
  <2> QED BY <1>b, <2>2, <2>3, <2>4
<1>d. ASSUME pc \in {"calling", "stripping"}, pc' \in {"idle", "done"}
      PROVE  CommandsLeft' < CommandsLeft
  <2>1. CommandsLeft' = 0  BY <1>d DEF CommandsLeft
  <2>2. CommandsLeft > 0
    <3>1. ToCome > 0 /\ ToCome \in Int  BY <1>a, InCallIs DEF ToCome
    <3>2. CASE pc = "calling"  BY <1>b, <3>1, <3>2 DEF CommandsLeft
    <3>3. CASE pc = "stripping"  BY <1>b, <3>3 DEF CommandsLeft
    <3> QED BY <1>d, <3>2, <3>3
  <2> QED BY <2>1, <2>2
<1>i. CommandsLeft \in Int
  BY <1>a, <1>b, CommandsCount
<1>j. CommandsLeft' \in Int
  <2>1. index' \in Int
    <3>1. TypeOK'  BY TypeStep
    <3> QED BY <3>1, CallsAreCalls DEF TypeOK
  <2>2. ToCome' \in Int  BY <1>a, <2>1, InCallIs DEF ToCome
  <2>3. HasGit' \in SUBSET Stripped  BY DEF HasGit
  <2>4. Cardinality(HasGit)' \in Int  BY <2>3, FiniteStripped
  <2> QED BY <1>b, <2>2, <2>4 DEF CommandsLeft
<1>e. ASSUME CommandsLeft' < CommandsLeft PROVE Nearer
  BY <1>e, <1>i, <1>j DEF Nearer
<1>f. ASSUME ~Script, pc = "idle" \/ pc' = "idle" \/ UNCHANGED <<pc, index, step, clone>>
      PROVE  Nearer
  <2>1. CASE pc = "idle" \/ pc' = "idle"  BY <1>f, <2>1 DEF Nearer
  <2>2. CASE UNCHANGED <<pc, index, step, clone>>
    <3>1. HasGit' = HasGit /\ ToCome' = ToCome  BY <2>2 DEF HasGit, ToCome
    <3>2. CommandsLeft' = CommandsLeft  BY <2>2, <3>1 DEF CommandsLeft
    <3> QED BY <1>f, <1>i, <3>2 DEF Nearer
  <2> QED BY <1>f, <2>1, <2>2
<1>1. CASE ArchStep
  <2>1. UNCHANGED <<pc, index>> /\ pc = "calling" /\ InCall(step') < InCall(step)
    BY <1>1, InCallIs DEF ArchStep, A!GetArch, A!Download, A!Unpack, A!Verify
  <2> QED BY <1>c, <1>e, <2>1
<1>2. CASE GitStep
  <2>1. UNCHANGED <<pc, index>> /\ pc = "calling"  BY <1>2 DEF GitStep
  <2>2. \/ step = "pull" /\ step' = "check"
        \/ step = "check" /\ step' \in {"exit", "url"}
        \/ step = "url" /\ step' = "tag"
        \/ step = "tag" /\ step' = "return"
    <3>1. CASE G!PullOrClone  BY <3>1 DEF G!PullOrClone
    <3>2. CASE G!Check  BY <3>2 DEF G!Check
    <3>3. CASE G!RecordUrl  BY <3>3 DEF G!RecordUrl
    <3>4. CASE G!RecordTag  BY <3>4 DEF G!RecordTag
    <3> QED BY <1>2, <3>1, <3>2, <3>3, <3>4 DEF GitStep, G!GetGithub
  <2>3. InCall(step') < InCall(step)  BY <2>2, InCallIs
  <2> QED BY <1>c, <1>e, <2>1, <2>3
<1>3. CASE NextCall
  <2>1. pc = "calling" /\ step = "return" /\ InCall(step) = 1
    BY <1>3, InCallIs DEF NextCall
  <2>2. CommandsLeft = 5 * (Len(Calls) - index) + 1 + Cardinality(Stripped) + 1
    BY <2>1 DEF CommandsLeft, ToCome
  <2>3. CASE index < Len(Calls)
    <3>1. pc' = "calling" /\ index' = index + 1
      BY <1>3, <2>1, <2>3 DEF NextCall
    <3>2. CommandsLeft'
            = 5 * (Len(Calls) - (index + 1)) + InCall(step') + Cardinality(Stripped) + 1
      BY <3>1 DEF CommandsLeft, ToCome
    <3>3. InCall(step') \in 1..5  BY InCallIs
    <3>4. Len(Calls) \in Int /\ index \in Int /\ Cardinality(Stripped) \in Int
      BY <1>a, <1>b
    <3>5. CommandsLeft' < CommandsLeft  BY <2>2, <3>2, <3>3, <3>4, FiveLess
    <3> QED BY <1>e, <3>5
  <2>4. CASE ~(index < Len(Calls))
    <3>1. pc' = "stripping" /\ clone' = clone /\ index = Len(Calls)
      BY <1>3, <1>a, <2>4 DEF NextCall
    <3>2. CommandsLeft' = Cardinality(HasGit) + 1
      BY <3>1 DEF CommandsLeft, HasGit
    <3>3. CommandsLeft' < CommandsLeft  BY <1>a, <1>b, <2>2, <3>1, <3>2
    <3> QED BY <1>e, <3>3
  <2> QED BY <2>3, <2>4
<1>4. CASE Exit
  <2>1. pc = "calling" /\ pc' = "idle"  BY <1>4 DEF Exit
  <2> QED BY <1>d, <1>e, <2>1
<1>5. CASE StripOne
  <2>1. PICK r \in HasGit : clone' = [clone EXCEPT ![r].git = "none"]
    BY <1>5 DEF StripOne
  <2>2. HasGit' = HasGit \ {r}
    <3>1. r \in Repos /\ Stripped \subseteq Repos
      BY <2>1, SettingAssumption DEF HasGit
    <3>2. /\ clone'[r].git = "none"
          /\ \A q \in Repos : q # r => clone'[q] = clone[q]
      BY <1>a, <2>1, <3>1 DEF G!Clones
    <3> QED BY <3>1, <3>2 DEF HasGit
  <2>3. Cardinality(HasGit') = Cardinality(HasGit) - 1
    BY <1>b, <2>1, <2>2, FS_RemoveElement
  <2>4. CommandsLeft = Cardinality(HasGit) + 1 /\ CommandsLeft' = Cardinality(HasGit') + 1
    BY <1>5 DEF StripOne, CommandsLeft
  <2>5. CommandsLeft' < CommandsLeft  BY <1>b, <2>3, <2>4
  <2> QED BY <1>e, <2>5
<1>6. CASE StripDone
  <2>1. pc = "stripping" /\ pc' = "done"  BY <1>6 DEF StripDone
  <2> QED BY <1>d, <1>e, <2>1
<1>7. ASSUME ~Script, Start \/ Leave \/ KillArch \/ KillGit \/ KillStrip PROVE Nearer
  BY <1>7, <1>f DEF Start, Leave, KillArch, KillGit, KillStrip, Killed
<1>8. ASSUME ~Script, Release \/ EditPin PROVE Nearer
  BY <1>8, <1>f DEF Release, EditPin
<1> QED
  BY <1>1, <1>2, <1>3, <1>4, <1>5, <1>6, <1>7, <1>8 DEF Next, Script

(* A run is over after five commands for each call and one rm -rf for each *)
(* folder, whatever it finds, fails at or is overtaken by: no command      *)
(* leads back to an earlier one.                                           *)
THEOREM RunsAreShort ==
  Spec => /\ [](CommandsLeft \in 0..(5 * Len(Calls) + Cardinality(Stripped) + 1))
          /\ [][Nearer]_vars
<1> DEFINE Count == CommandsLeft \in 0..(5 * Len(Calls) + Cardinality(Stripped) + 1)
<1>1. Spec => []TypeOK  BY TypeInit, TypeStep, PTL DEF Spec
<1>2. TypeOK => Count  BY CommandsCount
<1>3. Spec => []Count  BY <1>1, <1>2, PTL
<1>4. Spec => [][Nearer]_vars  BY <1>1, NearerStep, PTL DEF Spec
<1> QED BY <1>3, <1>4
=============================================================================
