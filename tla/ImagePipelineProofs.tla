------------------------ MODULE ImagePipelineProofs -------------------------
(***************************************************************************)
(* Proofs about ImagePipeline for any languages, versions and revisions,   *)
(* and any number of commands, stopped anywhere.                           *)
(***************************************************************************)
EXTENDS ImagePipeline, TLAPS

\* The language of an image is a language, and its revisions are naturals.
LEMMA ImageLang == \A i \in Images : i[1] \in Langs
  BY DEF Images

\* A revision is positive.
LEMMA RevsPositive == \A n \in Revs : n \in Nat \ {0}
  BY BoundAssumption DEF Revs

\* What a file says of a revision is a natural number.
LEMMA RevsOrNone == \A n \in Revs \cup {0} : n \in Nat
  BY RevsPositive

\* Without --lang all images are selected.
LEMMA SelectionAll ==
    ASSUME NEW s \in Selections
    PROVE  s.all \in BOOLEAN /\ (s.all => s.only = Images)
  <1>1. CASE s = [only |-> Images, all |-> TRUE]
    BY <1>1
  <1>2. CASE \E o \in SUBSET Images \ {{}} : s = [only |-> o, all |-> FALSE]
    BY <1>2
  <1> QED
    BY <1>1, <1>2 DEF Selections

USE DEF files, process

\* The initial states are well typed.
LEMMA TypeInit == Init => TypeOK
  <1> SUFFICES ASSUME Init PROVE TypeOK
    OBVIOUS
  <1>1. ASSUME NEW l \in Langs PROVE 1 \in 1..MaxRev[l]
    BY BoundAssumption
  <1>2. ASSUME NEW l \in Langs PROVE 1 \in Revs
    BY <1>1 DEF Revs
  <1>3. rev \in [Langs -> Revs]
    BY <1>2 DEF Init
  <1>4. NoContext \in Contexts
    BY DEF NoContext, Contexts
  <1> QED
    BY <1>3, <1>4 DEF Init, TypeOK, Idle, Jobs

\* Every step keeps the types.
LEMMA TypeStep == TypeOK /\ [Next]_vars => TypeOK'
  <1> SUFFICES ASSUME TypeOK, [Next]_vars PROVE TypeOK'
    OBVIOUS
  <1>0. NoContext \in Contexts /\ \A i \in Images : contextHash(i) \in Contexts
    BY DEF NoContext, contextHash, Contexts, TypeOK
  <1>1. ASSUME NEW name \in Commands, NEW only, NEW all \in BOOLEAN, NEW flag \in BOOLEAN,
               StartCmd(name, only, all, flag),
               UNCHANGED <<rev, files, image, newLock>>, newReg' \in SUBSET Images
        PROVE  TypeOK'
    <2>1. cmd' \in [name : Commands \cup {"idle"}, all : BOOLEAN, flag : BOOLEAN]
      BY <1>1 DEF StartCmd
    <2>2. cmd' # Idle
      BY <1>1 DEF StartCmd, Idle, Commands
    <2>3. job' \in [Images -> Jobs] /\ built' \in BOOLEAN
      BY <1>1 DEF StartCmd, Jobs
    <2> QED
      BY <1>1, <2>1, <2>2, <2>3 DEF TypeOK
  <1>2. CASE StartLock \/ StartGen \/ StartBuild \/ StartExport
    <2>1. \A s \in Selections : s.all \in BOOLEAN
      BY SelectionAll
    <2>2. CASE StartLock
      <3>1. PICK s \in Selections, dropStale \in BOOLEAN, loaded \in BOOLEAN :
               StartCmd("gen-lock", s.only, s.all, dropStale \/ ~loaded)
        BY <2>2 DEF StartLock
      <3>2. UNCHANGED <<rev, files, image, newLock>> /\ newReg' \in SUBSET Images
        BY <2>2 DEF StartLock, TypeOK
      <3> QED
        BY <1>1, <2>1, <3>1, <3>2 DEF Commands
    <2>3. CASE StartGen
      <3>1. PICK s \in Selections :
               /\ StartCmd("gen-images", s.only, s.all, FALSE)
               /\ newReg' = IF s.all THEN {} ELSE registry
        BY <2>3 DEF StartGen
      <3>2. UNCHANGED <<rev, files, image, newLock>> /\ newReg' \in SUBSET Images
        BY <2>3, <3>1 DEF StartGen, TypeOK
      <3> QED
        BY <1>1, <2>1, <3>1, <3>2 DEF Commands
    <2>4. CASE StartBuild
      BY <1>1, <2>4 DEF StartBuild, Commands, TypeOK
    <2>5. CASE StartExport
      <3>1. PICK only \in Requested, force \in {FALSE, Forces} :
               StartCmd("export-rootfs", only, built, force)
        BY <2>5 DEF StartExport
      <3>2. built \in BOOLEAN /\ force \in BOOLEAN
        BY <3>1, OptionAssumption DEF TypeOK
      <3>3. UNCHANGED <<rev, files, image, newLock>> /\ newReg' \in SUBSET Images
        BY <2>5 DEF StartExport, TypeOK
      <3> QED
        BY <1>1, <3>1, <3>2, <3>3 DEF Commands
    <2> QED
      BY <1>2, <2>2, <2>3, <2>4, <2>5
  <1>3. ASSUME EndCmd
        PROVE  /\ cmd' \in [name : Commands \cup {"idle"}, all : BOOLEAN, flag : BOOLEAN]
               /\ job' = [i \in Images |-> "none"] /\ job' \in [Images -> Jobs]
               /\ newLock' \in SUBSET Images /\ newReg' \in SUBSET Images
    BY <1>3 DEF EndCmd, Idle, Jobs
  <1>4. CASE WriteLock \/ WriteRegistry \/ Stop \/ Finish
    BY <1>3, <1>4 DEF WriteLock, WriteRegistry, Stop, Finish, TypeOK
  <1>5. ASSUME NEW l \in Langs, Edit(l) PROVE TypeOK'
    <2>1. PICK n \in 1..MaxRev[l] : rev' = [rev EXCEPT ![l] = n]
      BY <1>5 DEF Edit
    <2>2. n \in Revs
      BY <2>1 DEF Revs
    <2> QED
      BY <1>5, <2>1, <2>2 DEF Edit, TypeOK
  <1>6. ASSUME NEW l \in Langs, SkipLang(l) PROVE TypeOK'
    BY <1>6 DEF SkipLang, TypeOK, Jobs, Idle
  <1>7. ASSUME NEW i \in Images, Prune(i) PROVE TypeOK'
    BY <1>0, <1>7 DEF Prune, TypeOK
  <1>8. ASSUME NEW i \in Images, FailJob(i) PROVE TypeOK'
    <2>1. cmd' \in [name : Commands \cup {"idle"}, all : BOOLEAN, flag : BOOLEAN]
      BY <1>8 DEF FailJob, TypeOK
    <2>2. cmd' # Idle
      BY <1>8 DEF FailJob, TypeOK, Idle
    <2> QED
      BY <1>8, <2>1, <2>2 DEF FailJob, TypeOK, Jobs
  <1>9. ASSUME NEW i \in Images, NEW t \in Jobs, Goto(i, t), cmd # Idle
        PROVE  /\ job' \in [Images -> Jobs] /\ cmd' = cmd /\ cmd' # Idle /\ built' = built
    BY <1>9 DEF Goto, TypeOK
  <1>10. ASSUME NEW i \in Images, NEW name, NEW s, At(name, i, s), s # "none"
         PROVE  cmd # Idle
    BY <1>10 DEF At, TypeOK
  <1>11. ASSUME NEW i \in Images, Inspect(i) PROVE TypeOK'
    <2>1. cmd # Idle /\ (Goto(i, "none") \/ Goto(i, "skipped"))
      BY <1>10, <1>11 DEF Inspect
    <2>2. newLock' \in SUBSET Images
      BY <1>11 DEF Inspect, TypeOK
    <2> QED
      BY <1>9, <1>11, <2>1, <2>2 DEF Inspect, TypeOK, Jobs
  <1>12. ASSUME NEW i \in Images, WriteDockerfile(i) \/ WriteWrapper(i) PROVE TypeOK'
    <2>1. cmd # Idle
      BY <1>10, <1>12 DEF WriteDockerfile, WriteWrapper
    <2>2. rev[i[1]] \in Revs
      BY ImageLang DEF TypeOK
    <2> QED
      BY <1>9, <1>12, <2>1, <2>2 DEF WriteDockerfile, WriteWrapper, TypeOK, Jobs
  <1>13. ASSUME NEW i \in Images, CheckBuild(i) \/ Build(i) \/ WriteHash(i) PROVE TypeOK'
    <2>1. cmd # Idle
      BY <1>10, <1>13 DEF CheckBuild, Build, WriteHash
    <2> QED
      BY <1>0, <1>9, <1>13, <2>1 DEF CheckBuild, Build, WriteHash, TypeOK, Jobs
  <1>14. ASSUME NEW i \in Images,
                \/ CheckExport(i) \/ Clear(i) \/ Extract(i) \/ Unpacked(i) \/ WriteDigest(i)
         PROVE  TypeOK'
    <2>1. cmd # Idle
      BY <1>10, <1>14 DEF CheckExport, Clear, Extract, Unpacked, WriteDigest
    <2> QED
      BY <1>0, <1>9, <1>14, <2>1
         DEF CheckExport, Clear, Extract, Unpacked, WriteDigest, TypeOK, Jobs
  <1>15. CASE UNCHANGED vars
    BY <1>15 DEF vars, TypeOK
  <1> QED
    BY <1>2, <1>4, <1>5, <1>6, <1>7, <1>8, <1>11, <1>12, <1>13, <1>14, <1>15 DEF Next

\* Type correctness of the pipeline; no step of a command outlives it.
THEOREM TypeCorrect == Spec => []TypeOK
  BY TypeInit, TypeStep, PTL DEF Spec
-----------------------------------------------------------------------------
(* The registry lists only what can be built.                              *)

\* What gen-images has registered, on disk or in memory, has its two files, and
\* the wrapper comes after the Dockerfile.
BuildableInv ==
    /\ \A i \in registry \cup newReg : Hashable(i)
    /\ \A i \in Images : At("gen-images", i, "wrapper") => dockerfile[i] # 0

\* Initially nothing is registered.
LEMMA BuildableInit == Init => BuildableInv
  BY DEF Init, BuildableInv, At

\* Every step keeps it.
LEMMA BuildableStep == TypeOK /\ BuildableInv /\ [Next]_vars => BuildableInv'
  <1> SUFFICES ASSUME TypeOK, BuildableInv, [Next]_vars PROVE BuildableInv'
    OBVIOUS
  <1> USE DEF BuildableInv, Hashable, At
  <1>1. ASSUME UNCHANGED <<dockerfile, wrapper, registry>>, newReg' \subseteq registry \cup newReg,
               \A i \in Images : job'[i] # "wrapper" \/ (job'[i] = job[i] /\ cmd' = cmd)
        PROVE  BuildableInv'
    BY <1>1
  <1>2. ASSUME NEW name, NEW only, NEW all, NEW flag, StartCmd(name, only, all, flag)
        PROVE  \A i \in Images : job'[i] # "wrapper"
    BY <1>2 DEF StartCmd
  <1>3. CASE StartLock \/ StartGen \/ StartBuild \/ StartExport
    BY <1>1, <1>2, <1>3 DEF StartLock, StartGen, StartBuild, StartExport
  <1>4. CASE WriteLock \/ Stop \/ Finish
    BY <1>1, <1>4 DEF WriteLock, Stop, Finish, EndCmd
  <1>5. CASE WriteRegistry
    BY <1>5 DEF WriteRegistry, EndCmd
  <1>6. ASSUME NEW l \in Langs, Edit(l) \/ SkipLang(l) PROVE BuildableInv'
    BY <1>1, <1>6 DEF Edit, SkipLang
  <1>7. ASSUME NEW i \in Images, Prune(i) PROVE BuildableInv'
    BY <1>1, <1>7 DEF Prune
  <1>8. ASSUME NEW i \in Images, FailJob(i) PROVE BuildableInv'
    BY <1>8 DEF FailJob, TypeOK
  <1>9. ASSUME NEW i \in Images, WriteDockerfile(i) PROVE BuildableInv'
    <2>1. rev[i[1]] # 0
      BY ImageLang, RevsPositive DEF TypeOK
    <2> QED
      BY <1>9, <2>1 DEF WriteDockerfile, Goto, TypeOK
  <1>10. ASSUME NEW i \in Images, WriteWrapper(i) PROVE BuildableInv'
    <2>1. rev[i[1]] # 0
      BY ImageLang, RevsPositive DEF TypeOK
    <2> QED
      BY <1>10, <2>1 DEF WriteWrapper, Goto, TypeOK
  <1>11. ASSUME NEW i \in Images, NEW t \in Jobs \ {"wrapper"}, Goto(i, t)
         PROVE  \A k \in Images : job'[k] # "wrapper" \/ (job'[k] = job[k] /\ cmd' = cmd)
    BY <1>11 DEF Goto, TypeOK
  <1>12. ASSUME NEW i \in Images,
                \/ Inspect(i) \/ CheckBuild(i) \/ Build(i) \/ WriteHash(i)
                \/ CheckExport(i) \/ Clear(i) \/ Extract(i) \/ Unpacked(i) \/ WriteDigest(i)
         PROVE  BuildableInv'
    <2>1. \E t \in Jobs \ {"wrapper"} : Goto(i, t)
      BY <1>12 DEF Inspect, CheckBuild, Build, WriteHash, CheckExport, Clear, Extract,
                   Unpacked, WriteDigest, Jobs
    <2>2. UNCHANGED <<dockerfile, wrapper, registry, newReg>>
      BY <1>12 DEF Inspect, CheckBuild, Build, WriteHash, CheckExport, Clear, Extract,
                   Unpacked, WriteDigest
    <2> QED
      BY <1>1, <1>11, <2>1, <2>2
  <1>13. CASE UNCHANGED vars
    BY <1>1, <1>13 DEF vars
  <1> QED
    BY <1>3, <1>4, <1>5, <1>6, <1>7, <1>8, <1>9, <1>10, <1>12, <1>13 DEF Next

\* What the registry lists can be built, wherever commands were stopped.
THEOREM RegistryIsBuildable == Spec => []RegistryBuildable
  <1>1. BuildableInv => RegistryBuildable
    BY DEF BuildableInv, RegistryBuildable
  <1> QED
    BY <1>1, BuildableInit, BuildableStep, TypeCorrect, PTL DEF Spec

-----------------------------------------------------------------------------
(* Nothing is dropped.                                                     *)

\* While gen-images works on a part, its registry has what was there; while
\* gen-lock works on everything, every pin it has looked at is in its lockfile.
KeptInv ==
    /\ cmd.name = "gen-images" /\ ~cmd.all => registry \subseteq newReg
    /\ cmd.name = "gen-lock" =>
          /\ \A i \in Images : job[i] \in {"none", "todo", "skipped"}
          /\ cmd.all /\ ~cmd.flag => \A i \in lock : job[i] = "none" => i \in newLock

\* Initially no command runs.
LEMMA KeptInit == Init => KeptInv
  BY DEF Init, KeptInv, Idle

\* Every step keeps it.
LEMMA KeptStep == TypeOK /\ KeptInv /\ [Next]_vars => KeptInv'
  <1> SUFFICES ASSUME TypeOK, KeptInv, [Next]_vars PROVE KeptInv'
    OBVIOUS
  <1> USE DEF KeptInv
  <1>1. ASSUME cmd'.name \notin {"gen-images", "gen-lock"} PROVE KeptInv'
    BY <1>1
  <1>2. CASE StartLock
    <2>1. PICK s \in Selections, dropStale \in BOOLEAN, loaded \in BOOLEAN :
             StartCmd("gen-lock", s.only, s.all, dropStale \/ ~loaded)
      BY <1>2 DEF StartLock
    <2>2. cmd'.name = "gen-lock" /\ cmd'.all = s.all
      BY <2>1 DEF StartCmd
    <2>3. \A i \in Images : job'[i] \in {"none", "todo"}
      BY <2>1 DEF StartCmd
    <2>4. cmd'.all => \A i \in Images : job'[i] = "todo"
      BY <2>1, <2>2, SelectionAll DEF StartCmd
    <2> QED
      BY <1>2, <2>2, <2>3, <2>4 DEF StartLock, TypeOK
  <1>3. CASE StartGen
    <2>1. PICK s \in Selections :
             /\ StartCmd("gen-images", s.only, s.all, FALSE)
             /\ newReg' = IF s.all THEN {} ELSE registry
      BY <1>3 DEF StartGen
    <2>2. cmd'.name = "gen-images" /\ cmd'.all = s.all
      BY <2>1 DEF StartCmd
    <2> QED
      BY <1>3, <2>1, <2>2 DEF StartGen
  <1>4. CASE StartBuild \/ StartExport
    BY <1>1, <1>4 DEF StartBuild, StartExport, StartCmd
  <1>5. CASE WriteLock \/ WriteRegistry \/ Stop \/ Finish
    BY <1>1, <1>5 DEF WriteLock, WriteRegistry, Stop, Finish, EndCmd, Idle
  <1>6. ASSUME NEW l \in Langs, Edit(l) PROVE KeptInv'
    BY <1>6 DEF Edit
  <1>7. ASSUME NEW l \in Langs, SkipLang(l) PROVE KeptInv'
    BY <1>7 DEF SkipLang
  <1>8. ASSUME NEW i \in Images, Prune(i) PROVE KeptInv'
    BY <1>8 DEF Prune
  <1>9. ASSUME NEW i \in Images, FailJob(i) PROVE KeptInv'
    BY <1>1, <1>9 DEF FailJob, TypeOK
  <1>10. ASSUME NEW i \in Images, Inspect(i) PROVE KeptInv'
    <2>1. cmd' = cmd /\ cmd.name = "gen-lock" /\ lock' = lock /\ newLock \subseteq newLock'
      BY <1>10 DEF Inspect, Goto, At
    <2>2. /\ \A k \in Images \ {i} : job'[k] = job[k]
          /\ job'[i] \in {"none", "skipped"}
      BY <1>10 DEF Inspect, Goto, TypeOK
    <2>3. ~cmd.flag /\ i \in lock /\ job'[i] = "none" => i \in newLock'
      BY <1>10 DEF Inspect, Goto, TypeOK
    <2> QED
      BY <2>1, <2>2, <2>3 DEF TypeOK
  <1>11. ASSUME NEW i \in Images, WriteDockerfile(i) \/ WriteWrapper(i) PROVE KeptInv'
    BY <1>11 DEF WriteDockerfile, WriteWrapper, Goto, At
  <1>12. ASSUME NEW i \in Images,
                \/ CheckBuild(i) \/ Build(i) \/ WriteHash(i)
                \/ CheckExport(i) \/ Clear(i) \/ Extract(i) \/ Unpacked(i) \/ WriteDigest(i)
         PROVE  KeptInv'
    BY <1>1, <1>12 DEF CheckBuild, Build, WriteHash, CheckExport, Clear, Extract,
                       Unpacked, WriteDigest, Goto, At
  <1>13. CASE UNCHANGED vars
    BY <1>13 DEF vars
  <1> QED
    BY <1>2, <1>3, <1>4, <1>5, <1>6, <1>7, <1>8, <1>9, <1>10, <1>11, <1>12, <1>13 DEF Next

\* A command drops nothing it did not look at: a partial gen-images keeps the
\* rest of the registry, and a gen-lock that loaded the lockfile keeps, without
\* --drop-stale, every pin but those of the images it skips.
THEOREM NothingIsDropped == Spec => NothingDropped
  <1>1. TypeOK /\ KeptInv /\ [Next]_vars =>
          [/\ cmd.name = "gen-images" /\ ~cmd.all => registry \subseteq registry'
           /\ cmd.name = "gen-lock" /\ cmd.all /\ ~cmd.flag =>
                 {i \in lock : job[i] # "skipped"} \subseteq lock']_vars
    <2> SUFFICES ASSUME TypeOK, KeptInv, Next
                 PROVE  /\ cmd.name = "gen-images" /\ ~cmd.all => registry \subseteq registry'
                        /\ cmd.name = "gen-lock" /\ cmd.all /\ ~cmd.flag =>
                              {i \in lock : job[i] # "skipped"} \subseteq lock'
      OBVIOUS
    <2>1. CASE WriteRegistry
      BY <2>1 DEF WriteRegistry, KeptInv
    <2>2. CASE WriteLock
      BY <2>2 DEF WriteLock, AllDone, KeptInv, TypeOK
    <2>3. CASE registry' = registry /\ lock' = lock
      BY <2>3
    <2> QED
      BY <2>1, <2>2, <2>3
         DEF Next, StartLock, StartGen, StartBuild, StartExport, Stop, Finish, Edit,
             SkipLang, Prune, FailJob, Inspect, WriteDockerfile, WriteWrapper, CheckBuild,
             Build, WriteHash, CheckExport, Clear, Extract, Unpacked, WriteDigest
  <1> QED
    BY <1>1, KeptInit, KeptStep, TypeCorrect, PTL DEF Spec, NothingDropped
-----------------------------------------------------------------------------
(* Skipping a build is sound.  The code compares hashes, so what is written *)
(* in .image_cache may be older than the image; the proof orders the        *)
(* contexts of an image by revision: recorded, built, generated, source.    *)

Below(c, d) == c.docker <= d.docker /\ c.wrapper <= d.wrapper

\* The image that docker has is the one the build directory describes.
Current(i) == image[i] \in {contextHash(i), NoContext}

\* The order of the contexts of one image.
Grows(i) ==
    /\ dockerfile[i] <= rev[i[1]] /\ wrapper[i] <= rev[i[1]]
    /\ Below(cache[i], contextHash(i))
    /\ Below(image[i], contextHash(i))
    /\ Below(digest[i], contextHash(i))
    /\ image[i] # NoContext => Below(cache[i], image[i])
    /\ At("build-images", i, "hash") => Current(i)

GrowInv == \A i \in Images : Grows(i)

\* Contexts are pairs of naturals, and the order is one.
LEMMA ContextOrder ==
    /\ \A c \in Contexts : c.docker \in Nat /\ c.wrapper \in Nat /\ Below(c, c)
                           /\ Below(NoContext, c)
    /\ \A c, d \in Contexts : Below(c, d) /\ Below(d, c) => c = d
  <1>1. \A c \in Contexts : c.docker \in Nat /\ c.wrapper \in Nat
    <2> SUFFICES ASSUME NEW c \in Contexts PROVE c.docker \in Nat /\ c.wrapper \in Nat
      OBVIOUS
    <2>1. c.docker \in Revs \cup {0} /\ c.wrapper \in Revs \cup {0}
      BY DEF Contexts
    <2> QED
      BY <2>1, RevsOrNone
  <1>2. \A c \in Contexts : Below(c, c) /\ Below(NoContext, c)
    BY <1>1 DEF Below, NoContext
  <1>3. ASSUME NEW c \in Contexts, NEW d \in Contexts, Below(c, d), Below(d, c)
        PROVE  c = d
    <2>1. c.docker = d.docker /\ c.wrapper = d.wrapper
      BY <1>1, <1>3 DEF Below
    <2> QED
      BY <2>1 DEF Contexts
  <1> QED
    BY <1>1, <1>2, <1>3

\* What a well-typed state says of image i.
LEMMA ImageTypes ==
    ASSUME TypeOK, NEW i \in Images
    PROVE  /\ i[1] \in Langs /\ rev[i[1]] \in Nat \ {0}
           /\ dockerfile[i] \in Nat /\ wrapper[i] \in Nat
           /\ contextHash(i) \in Contexts
           /\ contextHash(i).docker = dockerfile[i] /\ contextHash(i).wrapper = wrapper[i]
           /\ image[i] \in Contexts /\ cache[i] \in Contexts /\ digest[i] \in Contexts
  <1>1. i[1] \in Langs /\ rev[i[1]] \in Revs
    BY ImageLang DEF TypeOK
  <1>2. dockerfile[i] \in Revs \cup {0} /\ wrapper[i] \in Revs \cup {0}
    BY DEF TypeOK
  <1>3. /\ contextHash(i) \in Contexts
        /\ contextHash(i).docker = dockerfile[i] /\ contextHash(i).wrapper = wrapper[i]
    BY <1>2 DEF Contexts, contextHash
  <1>4. image[i] \in Contexts /\ cache[i] \in Contexts /\ digest[i] \in Contexts
    BY DEF TypeOK
  <1> QED
    BY <1>1, <1>2, <1>3, <1>4, RevsPositive, RevsOrNone

\* Initially nothing is generated.
LEMMA GrowInit == Init => GrowInv
  BY ImageLang DEF Init, GrowInv, Grows, Below, contextHash, NoContext, At

\* Every step keeps the order, unless sources return to an earlier revision.
LEMMA GrowStep ==
    ASSUME ~Reverts
    PROVE  TypeOK /\ GrowInv /\ [Next]_vars => GrowInv'
  <1> SUFFICES ASSUME TypeOK, GrowInv, [Next]_vars PROVE GrowInv'
    OBVIOUS
  <1>0. \A i \in Images : Grows(i)
    BY DEF GrowInv
  <1>1. ASSUME NEW i \in Images, UNCHANGED <<rev, dockerfile, wrapper, digest>>,
               cache'[i] = cache[i], image'[i] = image[i],
               job'[i] # "hash" \/ (job'[i] = job[i] /\ cmd' = cmd)
        PROVE  Grows(i)'
    BY <1>0, <1>1 DEF Grows, Below, contextHash, Current, At
  <1>2. ASSUME NEW name, NEW only, NEW all, NEW flag, StartCmd(name, only, all, flag)
        PROVE  \A i \in Images : job'[i] # "hash"
    BY <1>2 DEF StartCmd
  <1>3. CASE StartLock \/ StartGen \/ StartBuild \/ StartExport
    <2>1. \A i \in Images : job'[i] # "hash"
      BY <1>2, <1>3 DEF StartLock, StartGen, StartBuild, StartExport
    <2> QED
      BY <1>1, <1>3, <2>1 DEF StartLock, StartGen, StartBuild, StartExport, GrowInv
  <1>4. CASE WriteLock \/ WriteRegistry \/ Stop \/ Finish
    BY <1>1, <1>4 DEF WriteLock, WriteRegistry, Stop, Finish, EndCmd, GrowInv
  <1>5. ASSUME NEW l \in Langs, Edit(l) PROVE GrowInv'
    <2>1. rev' = [rev EXCEPT ![l] = rev[l] + 1]
      BY <1>5 DEF Edit
    <2>2. ASSUME NEW i \in Images PROVE Grows(i)'
      <3>1. rev'[i[1]] >= rev[i[1]] /\ rev'[i[1]] \in Nat
        BY <2>1, ImageTypes, RevsPositive DEF TypeOK
      <3>2. rev[i[1]] \in Nat /\ dockerfile[i] \in Nat /\ wrapper[i] \in Nat
        BY ImageTypes
      <3>3. contextHash(i)' = contextHash(i)
        BY <1>5 DEF Edit, contextHash
      <3> QED
        BY <1>0, <1>5, <3>1, <3>2, <3>3 DEF Edit, Grows, Current, At
    <2> QED
      BY <2>2 DEF GrowInv
  <1>6. ASSUME NEW l \in Langs, SkipLang(l) PROVE GrowInv'
    BY <1>1, <1>6 DEF SkipLang, GrowInv
  <1>7. ASSUME NEW i \in Images, Prune(i) PROVE GrowInv'
    <2>1. image'[i] = NoContext /\ contextHash(i)' = contextHash(i)
      BY <1>7 DEF Prune, contextHash, TypeOK
    <2>2. Below(NoContext, contextHash(i))
      BY ContextOrder, ImageTypes
    <2>3. Grows(i)'
      BY <1>0, <1>7, <2>1, <2>2 DEF Prune, Grows, Current, At
    <2> QED
      BY <1>1, <1>7, <2>3 DEF Prune, GrowInv, TypeOK
  <1>8. ASSUME NEW i \in Images, FailJob(i) PROVE GrowInv'
    BY <1>0, <1>8 DEF FailJob, GrowInv, Grows, Below, contextHash, Current, At, TypeOK
  <1>9. ASSUME NEW i \in Images, WriteDockerfile(i) \/ WriteWrapper(i) PROVE GrowInv'
    <2>1. \/ dockerfile' = [dockerfile EXCEPT ![i] = rev[i[1]]] /\ wrapper' = wrapper
          \/ wrapper' = [wrapper EXCEPT ![i] = rev[i[1]]] /\ dockerfile' = dockerfile
      BY <1>9 DEF WriteDockerfile, WriteWrapper
    <2>2. UNCHANGED <<rev, cache, image, digest, cmd>> /\ cmd.name = "gen-images"
      BY <1>9 DEF WriteDockerfile, WriteWrapper, Goto, At
    <2>3. ASSUME NEW k \in Images PROVE Grows(k)'
      <3>1. /\ dockerfile[k] <= dockerfile'[k] /\ dockerfile'[k] <= rev[k[1]]
            /\ wrapper[k] <= wrapper'[k] /\ wrapper'[k] <= rev[k[1]]
            /\ dockerfile'[k] \in Nat /\ wrapper'[k] \in Nat
        BY <1>0, <2>1, ImageTypes DEF Grows, TypeOK
      <3>2. cache[k] \in Contexts /\ image[k] \in Contexts /\ digest[k] \in Contexts
        BY ImageTypes
      <3>3. ASSUME NEW c \in Contexts, Below(c, contextHash(k))
            PROVE  Below(c, contextHash(k)')
        <4>1. c.docker \in Nat /\ c.wrapper \in Nat
          BY ContextOrder
        <4>2. dockerfile[k] \in Nat /\ wrapper[k] \in Nat
          BY ImageTypes
        <4>3. c.docker <= dockerfile[k] /\ c.wrapper <= wrapper[k]
          BY <3>3 DEF Below, contextHash
        <4>4. c.docker <= dockerfile'[k] /\ c.wrapper <= wrapper'[k]
          BY <3>1, <4>1, <4>2, <4>3
        <4> QED
          BY <4>4 DEF Below, contextHash
      <3> QED
        BY <1>0, <2>2, <3>1, <3>2, <3>3 DEF Grows, At
    <2> QED
      BY <2>3 DEF GrowInv
  <1>10. ASSUME NEW i \in Images, Build(i) PROVE GrowInv'
    <2>1. Grows(i)'
      BY <1>0, <1>10, ContextOrder, ImageTypes
         DEF Build, Goto, Grows, Below, contextHash, Current, At, TypeOK
    <2> QED
      BY <1>1, <1>10, <2>1 DEF Build, Goto, GrowInv, TypeOK
  <1>11. ASSUME NEW i \in Images, WriteHash(i) PROVE GrowInv'
    <2>1. Current(i)
      BY <1>0, <1>11 DEF WriteHash, Grows
    <2>2. Grows(i)'
      BY <1>0, <1>11, <2>1, ContextOrder, ImageTypes
         DEF WriteHash, Goto, Grows, Below, contextHash, Current, At, TypeOK
    <2> QED
      BY <1>1, <1>11, <2>2 DEF WriteHash, Goto, GrowInv, TypeOK
  <1>12. ASSUME NEW i \in Images, WriteDigest(i) PROVE GrowInv'
    <2>1. ASSUME NEW k \in Images PROVE Grows(k)'
      BY <1>0, <1>12, ContextOrder, ImageTypes
         DEF WriteDigest, Goto, Grows, Below, contextHash, Current, At, TypeOK
    <2> QED
      BY <2>1 DEF GrowInv
  <1>13. ASSUME NEW i \in Images,
                \/ Inspect(i) \/ CheckBuild(i)
                \/ CheckExport(i) \/ Clear(i) \/ Extract(i) \/ Unpacked(i)
         PROVE  GrowInv'
    <2>1. \E t \in Jobs \ {"hash"} : Goto(i, t)
      BY <1>13 DEF Inspect, CheckBuild, CheckExport, Clear, Extract, Unpacked, Jobs
    <2>2. UNCHANGED <<rev, dockerfile, wrapper, digest, cache, image>>
      BY <1>13 DEF Inspect, CheckBuild, CheckExport, Clear, Extract, Unpacked
    <2>3. \A k \in Images : job'[k] # "hash" \/ (job'[k] = job[k] /\ cmd' = cmd)
      BY <2>1 DEF Goto, TypeOK
    <2> QED
      BY <1>1, <2>2, <2>3 DEF GrowInv
  <1>14. CASE UNCHANGED vars
    BY <1>1, <1>14 DEF vars, GrowInv
  <1> QED
    BY <1>3, <1>4, <1>5, <1>6, <1>7, <1>8, <1>9, <1>10, <1>11, <1>12, <1>13, <1>14 DEF Next

\* The order decides the comparison: what equals the top is the top.
LEMMA GrowSkips == TypeOK /\ GrowInv => BuildSkipSound
  BY ContextOrder, ImageTypes DEF GrowInv, Grows, BuildSkipSound

\* The order holds in every reachable state.
LEMMA GrowKept ==
    ASSUME ~Reverts
    PROVE  Spec => []GrowInv
  BY GrowInit, GrowStep, TypeCorrect, PTL DEF Spec

\* build-images skips an image only when it is the one the build directory
\* describes, if sources only go forward.
THEOREM BuildSkipIsSound ==
    ASSUME ~Reverts
    PROVE  Spec => []BuildSkipSound
  BY GrowKept, GrowSkips, TypeCorrect, PTL
-----------------------------------------------------------------------------
(* make rootfs.  That nothing stale is exported is decided by the command   *)
(* before: a build-images without an error leaves every registered image    *)
(* current, and nothing but a pruning touches images until the export.      *)

\* The steps of build-images, and what it and export-rootfs work on.
BuildSteps ==
    /\ cmd.name \in {"build-images", "export-rootfs"} =>
          \A i \in Images : job[i] # "none" => i \in registry
    /\ cmd.name = "build-images" =>
          \A i \in Images : job[i] \in {"none", "todo", "build", "hash"}
    /\ built => cmd.name = "idle"

\* Where all registered images are current, or will be.
FreshInv ==
    /\ BuildSteps
    /\ cmd.name = "build-images" /\ cmd.all =>
          \A i \in registry : job[i] = "none" => Current(i)
    /\ built \/ (cmd.name = "export-rootfs" /\ cmd.all) =>
          \A i \in registry : Current(i)

\* Initially nothing was built.
LEMMA FreshInit == Init => FreshInv
  BY DEF Init, FreshInv, BuildSteps, Idle

\* Every step keeps it.
LEMMA FreshStep == TypeOK /\ GrowInv /\ FreshInv /\ [Next]_vars => FreshInv'
  <1> SUFFICES ASSUME TypeOK, GrowInv, FreshInv, [Next]_vars PROVE FreshInv'
    OBVIOUS
  <1> USE DEF FreshInv, BuildSteps
  <1>1. registry \subseteq Images
    BY DEF TypeOK
  <1>2. CASE StartLock \/ StartGen
    BY <1>2 DEF StartLock, StartGen, StartCmd
  <1>3. CASE StartBuild
    <2>1. PICK only \in Requested : StartCmd("build-images", only, only = registry, FALSE)
      BY <1>3 DEF StartBuild
    <2>2. /\ cmd'.name = "build-images" /\ (cmd'.all <=> only = registry) /\ built' = FALSE
          /\ \A i \in Images : job'[i] = IF i \in only THEN "todo" ELSE "none"
      BY <2>1 DEF StartCmd
    <2> QED
      BY <1>1, <1>3, <2>1, <2>2 DEF StartBuild, Requested
  <1>4. CASE StartExport
    <2>1. PICK only \in Requested, force \in {FALSE, Forces} :
             StartCmd("export-rootfs", only, built, force)
      BY <1>4 DEF StartExport
    <2>2. /\ cmd'.name = "export-rootfs" /\ (cmd'.all <=> built) /\ built' = FALSE
          /\ \A i \in Images : job'[i] = IF i \in only THEN "todo" ELSE "none"
      BY <2>1 DEF StartCmd
    <2>3. \A i \in registry : Current(i)' <=> Current(i)
      BY <1>4 DEF StartExport, Current, contextHash
    <2> QED
      BY <1>1, <1>4, <2>1, <2>2, <2>3 DEF StartExport, Requested
  <1>5. CASE Stop \/ WriteLock \/ WriteRegistry
    <2>1. cmd' = Idle /\ built' = built
      BY <1>5 DEF Stop, WriteLock, WriteRegistry, EndCmd
    <2>2. WriteRegistry => ~built
      BY DEF WriteRegistry, TypeOK
    <2>3. ~WriteRegistry => registry' = registry
      BY <1>5 DEF Stop, WriteLock
    <2>4. \A i \in Images : Current(i)' <=> Current(i)
      BY <1>5 DEF Stop, WriteLock, WriteRegistry, Current, contextHash
    <2> QED
      BY <1>1, <2>1, <2>2, <2>3, <2>4 DEF Idle
  <1>6. CASE Finish
    <2>1. cmd' = Idle /\ (built' => cmd.name = "build-images" /\ cmd.all)
      BY <1>6 DEF Finish, EndCmd
    <2>2. built' => \A i \in registry : Current(i)
      BY <1>1, <1>6, <2>1 DEF Finish, AllDone
    <2>3. registry' = registry /\ \A i \in registry : Current(i)' <=> Current(i)
      BY <1>6 DEF Finish, Current, contextHash
    <2> QED
      BY <2>1, <2>2, <2>3 DEF Idle
  <1>7. ASSUME NEW l \in Langs, Edit(l) PROVE FreshInv'
    BY <1>7 DEF Edit, Current, contextHash
  <1>8. ASSUME NEW l \in Langs, SkipLang(l) PROVE FreshInv'
    BY <1>8 DEF SkipLang, TypeOK
  <1>9. ASSUME NEW i \in Images, Prune(i) PROVE FreshInv'
    <2>1. \A k \in Images : Current(k) => Current(k)'
      BY <1>9 DEF Prune, Current, contextHash, TypeOK
    <2> QED
      BY <1>1, <1>9, <2>1 DEF Prune
  <1>10. ASSUME NEW i \in Images, FailJob(i) PROVE FreshInv'
    <2>1. cmd'.name = cmd.name /\ cmd'.all = FALSE /\ built' = built
      BY <1>10 DEF FailJob, TypeOK
    <2>2. \A k \in Images : job'[k] \in {job[k], "none"}
      BY <1>10 DEF FailJob, TypeOK
    <2>3. cmd.name # "idle" /\ registry' = registry
      BY <1>10 DEF FailJob
    <2> QED
      BY <2>1, <2>2, <2>3 DEF TypeOK
  <1>11. ASSUME NEW i \in Images, Inspect(i) \/ WriteDockerfile(i) \/ WriteWrapper(i)
         PROVE  FreshInv'
    BY <1>11 DEF Inspect, WriteDockerfile, WriteWrapper, Goto, At
  <1>12. ASSUME NEW i \in Images, NEW t \in {"none", "build", "hash"},
                cmd.name = "build-images", job[i] # "none", Goto(i, t),
                t = "none" => Current(i)', UNCHANGED <<dockerfile, wrapper, registry>>,
                \A k \in Images \ {i} : image'[k] = image[k]
         PROVE  FreshInv'
    <2>1. cmd' = cmd /\ ~built'
      BY <1>12 DEF Goto, TypeOK
    <2>2. \A k \in Images : job'[k] = IF k = i THEN t ELSE job[k]
      BY <1>12 DEF Goto, TypeOK
    <2>3. \A k \in Images \ {i} : Current(k)' <=> Current(k)
      BY <1>12 DEF Current, contextHash
    <2> QED
      BY <1>1, <1>12, <2>1, <2>2, <2>3
  <1>13. ASSUME NEW i \in Images, CheckBuild(i) PROVE FreshInv'
    <2>1. cache[i] = contextHash(i) /\ image[i] # NoContext => Current(i)
      BY GrowSkips DEF BuildSkipSound, Current
    <2>2. Current(i)' <=> Current(i)
      BY <1>13 DEF CheckBuild, Current, contextHash
    <2> QED
      BY <1>12, <1>13, <2>1, <2>2 DEF CheckBuild, At
  <1>14. ASSUME NEW i \in Images, Build(i) PROVE FreshInv'
    BY <1>12, <1>14 DEF Build, At, TypeOK
  <1>15. ASSUME NEW i \in Images, WriteHash(i) PROVE FreshInv'
    <2>1. Current(i)
      BY <1>15 DEF WriteHash, GrowInv, Grows
    <2>2. Current(i)'
      BY <1>15, <2>1 DEF WriteHash, Current, contextHash
    <2> QED
      BY <1>12, <1>15, <2>2 DEF WriteHash, At
  <1>16. ASSUME NEW i \in Images,
                CheckExport(i) \/ Clear(i) \/ Extract(i) \/ Unpacked(i) \/ WriteDigest(i)
         PROVE  FreshInv'
    <2>1. /\ cmd.name = "export-rootfs" /\ job[i] # "none" /\ UNCHANGED <<cmd, built>>
          /\ UNCHANGED <<dockerfile, wrapper, registry, image>>
      BY <1>16 DEF CheckExport, Clear, Extract, Unpacked, WriteDigest, At, Goto
    <2>2. \A k \in Images \ {i} : job'[k] = job[k]
      BY <1>16 DEF CheckExport, Clear, Extract, Unpacked, WriteDigest, Goto, TypeOK
    <2>3. \A k \in Images : Current(k)' <=> Current(k)
      BY <2>1 DEF Current, contextHash
    <2> QED
      BY <1>1, <2>1, <2>2, <2>3
  <1>17. CASE UNCHANGED vars
    BY <1>17 DEF vars, Current, contextHash
  <1> QED
    BY <1>2, <1>3, <1>4, <1>5, <1>6, <1>7, <1>8, <1>9, <1>10, <1>11, <1>13, <1>14, <1>15,
       <1>16, <1>17 DEF Next

\* What make rootfs unpacks comes from the image that the build directory
\* describes, if sources only go forward.
THEOREM MakeExportsAreCurrent ==
    ASSUME ~Reverts
    PROVE  Spec => []MakeExportsCurrent
  <1>1. TypeOK /\ FreshInv => MakeExportsCurrent
    BY DEF FreshInv, BuildSteps, Current, MakeExportsCurrent
  <1> QED
    BY <1>1, FreshInit, FreshStep, GrowKept, TypeCorrect, PTL DEF Spec

-----------------------------------------------------------------------------
(* A rootfs that export-rootfs skips is a whole one.                        *)

\* A recorded digest that still describes the build directory describes a whole
\* rootfs; while a rootfs is being replaced, the recorded digest is another.
Whole(i) ==
    /\ rootfs[i] # "none" => Hashable(i)
    /\ Hashable(i) /\ digest[i] = contextHash(i) => rootfs[i] = "whole"
    /\ \A t \in {"clear", "extract", "tar"} :
          At("export-rootfs", i, t) => Hashable(i) /\ digest[i] # contextHash(i)
    /\ At("export-rootfs", i, "digest") => Hashable(i) /\ rootfs[i] = "whole"

WholeInv ==
    /\ cmd.name = "export-rootfs" => ~cmd.flag
    /\ \A i \in Images : Whole(i)

\* Initially there is no rootfs.
LEMMA WholeInit == Init => WholeInv
  BY DEF Init, WholeInv, Whole, Hashable, At, Idle

\* Every step keeps it, unless --force empties a rootfs that is recorded.
LEMMA WholeStep ==
    ASSUME ~Forces
    PROVE  TypeOK /\ GrowInv /\ WholeInv /\ [Next]_vars => WholeInv'
  <1> SUFFICES ASSUME TypeOK, GrowInv, WholeInv, [Next]_vars PROVE WholeInv'
    OBVIOUS
  <1>0. \A i \in Images : Whole(i) /\ Grows(i)
    BY DEF WholeInv, GrowInv
  <1>1. ASSUME NEW i \in Images, UNCHANGED <<dockerfile, wrapper>>,
               digest'[i] = digest[i], rootfs'[i] = rootfs[i],
               job'[i] \in {"none", "todo"} \/ (job'[i] = job[i] /\ cmd' = cmd)
        PROVE  Whole(i)'
    BY <1>0, <1>1 DEF Whole, Hashable, contextHash, At
  <1>2. ASSUME NEW name, NEW only, NEW all, NEW flag, StartCmd(name, only, all, flag),
               name = "export-rootfs" => ~flag,
               UNCHANGED <<dockerfile, wrapper, digest, rootfs>>
        PROVE  WholeInv'
    <2>1. \A i \in Images : job'[i] \in {"none", "todo"}
      BY <1>2 DEF StartCmd
    <2>2. cmd'.name = name /\ cmd'.flag = flag
      BY <1>2 DEF StartCmd
    <2> QED
      BY <1>1, <1>2, <2>1, <2>2 DEF WholeInv
  <1>3. CASE StartLock \/ StartGen \/ StartBuild \/ StartExport
    BY <1>2, <1>3 DEF StartLock, StartGen, StartBuild, StartExport
  <1>4. CASE WriteLock \/ WriteRegistry \/ Stop \/ Finish
    BY <1>1, <1>4 DEF WriteLock, WriteRegistry, Stop, Finish, EndCmd, Idle, WholeInv
  <1>5. ASSUME NEW l \in Langs, Edit(l) PROVE WholeInv'
    BY <1>1, <1>5 DEF Edit, WholeInv
  <1>6. ASSUME NEW l \in Langs, SkipLang(l) PROVE WholeInv'
    BY <1>1, <1>6 DEF SkipLang, WholeInv
  <1>7. ASSUME NEW i \in Images, Prune(i) PROVE WholeInv'
    BY <1>1, <1>7 DEF Prune, WholeInv
  <1>8. ASSUME NEW i \in Images, FailJob(i) PROVE WholeInv'
    <2>1. cmd'.name = cmd.name /\ cmd'.flag = cmd.flag
      BY <1>8 DEF FailJob, TypeOK
    <2>2. \A k \in Images : job'[k] = IF k = i THEN "none" ELSE job[k]
      BY <1>8 DEF FailJob, TypeOK
    <2> QED
      BY <1>0, <1>8, <2>1, <2>2 DEF FailJob, WholeInv, Whole, Hashable, contextHash, At
  <1>9. ASSUME NEW i \in Images, WriteDockerfile(i) \/ WriteWrapper(i) PROVE WholeInv'
    <2>1. \/ dockerfile' = [dockerfile EXCEPT ![i] = rev[i[1]]] /\ wrapper' = wrapper
          \/ wrapper' = [wrapper EXCEPT ![i] = rev[i[1]]] /\ dockerfile' = dockerfile
      BY <1>9 DEF WriteDockerfile, WriteWrapper
    <2>2. UNCHANGED <<rootfs, digest, cmd>> /\ cmd.name = "gen-images"
      BY <1>9 DEF WriteDockerfile, WriteWrapper, Goto, At
    <2>3. ASSUME NEW k \in Images PROVE Whole(k)'
      <3>1. /\ dockerfile[k] <= dockerfile'[k] /\ wrapper[k] <= wrapper'[k]
            /\ dockerfile'[k] \in Nat /\ wrapper'[k] \in Nat
            /\ dockerfile[k] \in Nat /\ wrapper[k] \in Nat
        <4>1. /\ dockerfile[k] \in Nat /\ wrapper[k] \in Nat /\ rev[i[1]] \in Nat
              /\ dockerfile[i] <= rev[i[1]] /\ wrapper[i] <= rev[i[1]]
          BY <1>0, ImageTypes DEF Grows
        <4>2. /\ dockerfile'[k] = dockerfile[k] \/ (k = i /\ dockerfile'[k] = rev[i[1]])
              /\ wrapper'[k] = wrapper[k] \/ (k = i /\ wrapper'[k] = rev[i[1]])
          BY <2>1 DEF TypeOK
        <4> QED
          BY <4>1, <4>2
      <3>2. Hashable(k) => Hashable(k)'
        BY <3>1 DEF Hashable
      <3>3. digest[k].docker <= dockerfile[k] /\ digest[k].wrapper <= wrapper[k]
        BY <1>0, ImageTypes DEF Grows, Below
      <3>4. digest[k].docker \in Nat /\ digest[k].wrapper \in Nat
        BY ContextOrder, ImageTypes
      <3>5. digest[k] = contextHash(k)' =>
               dockerfile'[k] = dockerfile[k] /\ wrapper'[k] = wrapper[k]
        <4>1. contextHash(k)'.docker = dockerfile'[k] /\ contextHash(k)'.wrapper = wrapper'[k]
          BY DEF contextHash
        <4> QED
          BY <3>1, <3>3, <3>4, <4>1
      <3>6. digest[k] = contextHash(k)' =>
               contextHash(k)' = contextHash(k) /\ (Hashable(k)' <=> Hashable(k))
        BY <3>5 DEF contextHash, Hashable
      <3> QED
        BY <1>0, <2>2, <3>2, <3>6 DEF Whole, At
    <2> QED
      BY <2>2, <2>3 DEF WholeInv
  <1>10. ASSUME NEW i \in Images, Inspect(i) \/ CheckBuild(i) \/ Build(i) \/ WriteHash(i)
         PROVE  WholeInv'
    <2>1. UNCHANGED <<dockerfile, wrapper, digest, rootfs, cmd>> /\ cmd.name # "export-rootfs"
      BY <1>10 DEF Inspect, CheckBuild, Build, WriteHash, Goto, At
    <2> QED
      BY <1>0, <2>1 DEF WholeInv, Whole, Hashable, contextHash, At
  <1>11. ASSUME NEW i \in Images, NEW t, Goto(i, t), cmd.name = "export-rootfs",
                UNCHANGED <<dockerfile, wrapper>>, Whole(i)',
                \A k \in Images \ {i} : rootfs'[k] = rootfs[k] /\ digest'[k] = digest[k]
         PROVE  WholeInv'
    <2>1. cmd' = cmd /\ \A k \in Images \ {i} : job'[k] = job[k]
      BY <1>11 DEF Goto, TypeOK
    <2> QED
      BY <1>1, <1>11, <2>1 DEF WholeInv
  <1>12. ASSUME NEW i \in Images, CheckExport(i) PROVE WholeInv'
    <2>1. ~cmd.flag
      BY <1>12 DEF CheckExport, At, WholeInv
    <2>2. UNCHANGED <<dockerfile, wrapper, digest, rootfs, cmd>> /\ Hashable(i)
      BY <1>12 DEF CheckExport, Goto
    <2>3. job'[i] = "none" \/ (job'[i] = "clear" /\ ~UpToDate(i))
      BY <1>12, <2>1 DEF CheckExport, Goto, TypeOK
    <2>4. job'[i] = "clear" => digest[i] # contextHash(i)
      BY <1>0, <2>2, <2>3 DEF UpToDate, Whole
    <2>5. Whole(i)'
      BY <1>0, <2>2, <2>3, <2>4 DEF Whole, Hashable, contextHash, At
    <2> QED
      BY <1>11, <1>12, <2>2, <2>5 DEF CheckExport, At
  <1>13. ASSUME NEW i \in Images, Clear(i) \/ Extract(i) \/ Unpacked(i) PROVE WholeInv'
    <2>1. Hashable(i) /\ digest[i] # contextHash(i)
      BY <1>0, <1>13 DEF Clear, Extract, Unpacked, Whole, At
    <2>2. UNCHANGED <<dockerfile, wrapper, digest, cmd>> /\ cmd.name = "export-rootfs"
      BY <1>13 DEF Clear, Extract, Unpacked, Goto, At
    <2>3. job'[i] = "digest" => rootfs'[i] = "whole"
      BY <1>13 DEF Clear, Extract, Unpacked, Goto, TypeOK
    <2>4. Whole(i)'
      BY <2>1, <2>2, <2>3 DEF Whole, Hashable, contextHash, At
    <2>5. \A k \in Images \ {i} : rootfs'[k] = rootfs[k]
      BY <1>13 DEF Clear, Extract, Unpacked, TypeOK
    <2>6. \E t : Goto(i, t)
      BY <1>13 DEF Clear, Extract, Unpacked
    <2> QED
      BY <1>11, <2>2, <2>4, <2>5, <2>6
  <1>14. ASSUME NEW i \in Images, WriteDigest(i) PROVE WholeInv'
    <2>1. Hashable(i) /\ rootfs[i] = "whole"
      BY <1>0, <1>14 DEF WriteDigest, Whole
    <2>2. /\ UNCHANGED <<dockerfile, wrapper, rootfs, cmd>> /\ job'[i] = "none"
          /\ cmd.name = "export-rootfs" /\ \A k \in Images \ {i} : digest'[k] = digest[k]
      BY <1>14 DEF WriteDigest, Goto, At, TypeOK
    <2>3. Whole(i)'
      BY <2>1, <2>2 DEF Whole, Hashable, At
    <2> QED
      BY <1>11, <1>14, <2>2, <2>3 DEF WriteDigest
  <1>15. CASE UNCHANGED vars
    BY <1>1, <1>15 DEF vars, WholeInv
  <1> QED
    BY <1>3, <1>4, <1>5, <1>6, <1>7, <1>8, <1>9, <1>10, <1>12, <1>13, <1>14, <1>15 DEF Next

\* A rootfs that export-rootfs skips as up to date is whole, wherever earlier
\* exports were stopped, if sources only go forward and --force is not used.
\* (With --force it may not be: exportrootfs.go empties a rootfs whose digest
\* file stays.)
THEOREM SkippedRootfsIsWhole ==
    ASSUME ~Reverts, ~Forces
    PROVE  Spec => []SkippedRootfsWhole
  <1>1. WholeInv => SkippedRootfsWhole
    BY DEF WholeInv, Whole, UpToDate, SkippedRootfsWhole
  <1> QED
    BY <1>1, WholeInit, WholeStep, GrowKept, TypeCorrect, PTL DEF Spec
=============================================================================
