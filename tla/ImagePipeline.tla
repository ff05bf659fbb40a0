--------------------------- MODULE ImagePipeline ----------------------------
(***************************************************************************)
(* runboxctl images: from image.yml to what the daemon runs.  gen-lock     *)
(* pins the base images, gen-images writes a Dockerfile and a wrapper per  *)
(* image and the registry, build-images builds what changed, export-rootfs *)
(* unpacks images for nsjail.  The commands share nothing but files, each  *)
(* of them decides from hashes what it need not do again, and each may be  *)
(* stopped between any two of its effects.                                 *)
(*                                                                         *)
(* An image is a pair <<language, version>>.  What a file says is reduced  *)
(* to the revision of the sources it was made from, and a hash is the      *)
(* content that was hashed; of a pin only its presence counts, since a new *)
(* digest changes a Dockerfile just as a new revision does.  One command   *)
(* runs at a time, gen-images with the lockfile as the Makefile has it;    *)
(* gen-lock, build-images and export-rootfs treat their images             *)
(* concurrently, in the goroutines of an errgroup.  Writing a small file   *)
(* is one step.                                                            *)
(***************************************************************************)
EXTENDS Naturals, FiniteSets

CONSTANTS
    Langs, Vers,    \* every language has these versions
    MaxRev,         \* MaxRev[l]: how many revisions l's sources have
    Reverts,        \* sources may return to an earlier revision
    Forces          \* export-rootfs may be given --force

Images == Langs \X Vers

ASSUME BoundAssumption  == MaxRev \in [Langs -> Nat \ {0}]
ASSUME OptionAssumption == {Reverts, Forces} \subseteq BOOLEAN

VARIABLES
    rev,        \* rev[l]: revision of image.yml and wrapper.sh of language l
    lock,       \* the images with a digest in the lockfile
    dockerfile, \* dockerfile[i]: revision of the generated Dockerfile, 0 if absent
    wrapper,    \* wrapper[i]: revision of the copied wrapper.sh, 0 if absent
    registry,   \* the images in the registry file
    image,      \* image[i]: the context that Docker's image was built from
    cache,      \* cache[i]: the hash in .image_cache
    rootfs,     \* rootfs[i]: "none" (or empty), "partial" or "whole"
    digest,     \* digest[i]: the hash in the .digest file
    built,      \* build-images has just ended without an error, on all there is
    cmd,        \* the command that runs, its flag, and `all`: it is not given a part
                \* only, and for build-images and export-rootfs, nothing failed yet
    job,        \* job[i]: the command's next step for image i, "none" if it has none
    newLock,    \* newLockFile of gen-lock
    newReg      \* languageRegistry of gen-images

files   == <<lock, dockerfile, wrapper, registry, cache, rootfs, digest>>
process == <<built, cmd, job, newLock, newReg>>
vars    == <<rev, files, image, process>>

NoContext == [docker |-> 0, wrapper |-> 0]

\* contextHash of the build directory; it fails if one of the files is missing.
Hashable(i) == dockerfile[i] # 0 /\ wrapper[i] # 0
contextHash(i) == [docker |-> dockerfile[i], wrapper |-> wrapper[i]]

Idle == [name |-> "idle", all |-> FALSE, flag |-> FALSE]
Commands == {"gen-lock", "gen-images", "build-images", "export-rootfs"}
Jobs == {"none", "todo", "skipped", "wrapper", "done", "build", "hash", "clear",
         "extract", "tar", "digest"}

\* A clone of the repository: it has a lockfile and nothing that is generated.
Init ==
    /\ rev = [l \in Langs |-> 1]
    /\ lock = Images
    /\ dockerfile = [i \in Images |-> 0]
    /\ wrapper = [i \in Images |-> 0]
    /\ registry = {}
    /\ image = [i \in Images |-> NoContext]
    /\ cache = [i \in Images |-> NoContext]
    /\ rootfs = [i \in Images |-> "none"]
    /\ digest = [i \in Images |-> NoContext]
    /\ built = FALSE
    /\ cmd = Idle
    /\ job = [i \in Images |-> "none"]
    /\ newLock = {}
    /\ newReg = {}

\* A command begins on the images `only`; `all` if no --lang was given.
StartCmd(name, only, all, flag) ==
    /\ cmd = Idle
    /\ built' = FALSE
    /\ cmd' = [name |-> name, all |-> all, flag |-> flag]
    /\ job' = [i \in Images |-> IF i \in only THEN "todo" ELSE "none"]

EndCmd ==
    /\ cmd' = Idle
    /\ job' = [i \in Images |-> "none"]
    /\ newLock' = {}
    /\ newReg' = {}

\* Image i is at step s of command name, and goes on to step t.
At(name, i, s) == cmd.name = name /\ job[i] = s
Goto(i, t) == job' = [job EXCEPT ![i] = t] /\ UNCHANGED <<cmd, built>>

AllDone == \A i \in Images : job[i] \in {"none", "skipped", "done"}

\* ParseLangFilter and imagespec.LoadFiltered: all images there are, or those
\* that --lang names; a name that is not there ends the command.
Selections ==
    {[only |-> Images, all |-> TRUE]}
        \cup {[only |-> s, all |-> FALSE] : s \in SUBSET Images \ {{}}}

\* registry.LoadFiltered, which selects from the registry file.
Requested == SUBSET registry
-----------------------------------------------------------------------------
(* Mistakes this code could have; the properties are checked to reject     *)
(* them.                                                                   *)

\* The registry always starts empty.
StartGenFromEmpty ==
    /\ \E s \in Selections : StartCmd("gen-images", s.only, s.all, FALSE)
    /\ newReg' = {}
    /\ UNCHANGED <<rev, files, image, newLock>>

\* Images are registered before their Dockerfiles exist.
StartGenRegistersAll ==
    /\ \E s \in Selections :
          /\ StartCmd("gen-images", s.only, s.all, FALSE)
          /\ newReg' = IF s.all THEN s.only ELSE registry \cup s.only
    /\ UNCHANGED <<rev, files, image, newLock>>

\* The hash is written before the build.
CheckBuildWritesHash(i) ==
    /\ At("build-images", i, "todo")
    /\ \/ Goto(i, "build")
       \/ cache[i] = contextHash(i) /\ image[i] # NoContext /\ Goto(i, "none")
    /\ cache' = [cache EXCEPT ![i] = contextHash(i)]
    /\ UNCHANGED <<rev, lock, dockerfile, wrapper, registry, rootfs,
                   digest, image, newLock, newReg>>

\* The digest file is written before the rootfs is complete.
ClearWritesDigest(i) ==
    /\ At("export-rootfs", i, "clear")
    /\ rootfs' = [rootfs EXCEPT ![i] = "none"]
    /\ digest' = [digest EXCEPT ![i] = contextHash(i)]
    /\ Goto(i, "extract")
    /\ UNCHANGED <<rev, lock, dockerfile, wrapper, registry, cache,
                   image, newLock, newReg>>

\* The command ends without g.Wait.
FinishNoWait ==
    /\ cmd.name \in {"build-images", "export-rootfs"}
    /\ cmd' = Idle
    /\ UNCHANGED <<rev, files, image, built, job, newLock, newReg>>
-----------------------------------------------------------------------------
(* Around the commands.  Sources are read when a command starts: an edit   *)
(* during a command counts as made after it.                               *)

Edit(l) ==
    /\ cmd = Idle
    /\ \E n \in 1..MaxRev[l] :
          /\ n = rev[l] + 1 \/ (Reverts /\ n # rev[l])
          /\ rev' = [rev EXCEPT ![l] = n]
    /\ UNCHANGED <<files, image, process>>

\* docker rmi, docker image prune
Prune(i) ==
    /\ image[i] # NoContext
    /\ image' = [image EXCEPT ![i] = NoContext]
    /\ UNCHANGED <<rev, files, process>>

\* A kill, or an error that the command returns at once: nothing is undone.
Stop ==
    /\ cmd # Idle
    /\ EndCmd
    /\ UNCHANGED <<rev, files, image, built>>

\* An error of one goroutine; the others may still go on, and the command
\* will not have succeeded.
FailJob(i) ==
    /\ cmd.name \in {"build-images", "export-rootfs"}
    /\ job[i] # "none"
    /\ job' = [job EXCEPT ![i] = "none"]
    /\ cmd' = [cmd EXCEPT !.all = FALSE]
    /\ UNCHANGED <<rev, files, image, built, newLock, newReg>>

\* g.Wait returns.
Finish ==
    /\ cmd.name \in {"build-images", "export-rootfs"}
    /\ AllDone
    /\ built' = (cmd.name = "build-images" /\ cmd.all)
    /\ EndCmd
    /\ UNCHANGED <<rev, files, image>>
-----------------------------------------------------------------------------
(* gen-lock                                                                *)

\* Its flag: it keeps no pin that it cannot refresh, since it was told so or
\* since the lockfile there was cannot be loaded, which is only logged.
StartLock ==
    /\ \E s \in Selections, dropStale, loaded \in BOOLEAN :
          StartCmd("gen-lock", s.only, s.all, dropStale \/ ~loaded)
    /\ UNCHANGED <<rev, files, image, newLock, newReg>>

\* The tag's digest, or the one there was if it cannot be had.  A base image
\* without a tag ("@" and a digest only) is skipped, and its pin not kept.
Inspect(i) ==
    /\ At("gen-lock", i, "todo")
    /\ \/ /\ \/ newLock' = newLock \cup {i}
             \/ newLock' = newLock \cup (IF cmd.flag THEN {} ELSE lock \cap {i})
          /\ Goto(i, "none")
       \/ Goto(i, "skipped") /\ UNCHANGED newLock
    /\ UNCHANGED <<rev, files, image, newReg>>

WriteLock ==
    /\ cmd.name = "gen-lock" /\ AllDone
    /\ lock' = newLock
    /\ EndCmd
    /\ UNCHANGED <<rev, dockerfile, wrapper, registry, cache, rootfs, digest, image, built>>
-----------------------------------------------------------------------------
(* gen-images                                                              *)

\* With --lang the registry on disk is what the new one starts from.
StartGen ==
    /\ \E s \in Selections :
          /\ StartCmd("gen-images", s.only, s.all, FALSE)
          /\ newReg' = IF s.all THEN {} ELSE registry
    /\ UNCHANGED <<rev, files, image, newLock>>

\* createDockerfile, one image after the other: the Dockerfile ...  An image
\* without a pin stops the command.
WriteDockerfile(i) ==
    /\ At("gen-images", i, "todo")
    /\ \A k \in Images : job[k] # "wrapper"
    /\ i \in lock
    /\ dockerfile' = [dockerfile EXCEPT ![i] = rev[i[1]]]
    /\ Goto(i, "wrapper")
    /\ UNCHANGED <<rev, lock, wrapper, registry, cache, rootfs, digest,
                   image, newLock, newReg>>

\* ... then the wrapper, then the entry.
WriteWrapper(i) ==
    /\ At("gen-images", i, "wrapper")
    /\ wrapper' = [wrapper EXCEPT ![i] = rev[i[1]]]
    /\ newReg' = newReg \cup {i}
    /\ Goto(i, "done")
    /\ UNCHANGED <<rev, lock, dockerfile, registry, cache, rootfs,
                   digest, image, newLock>>

\* The language's wrapper.sh cannot be read: the language is left out.
SkipLang(l) ==
    LET its == {i \in Images : i[1] = l /\ job[i] # "none"}
    IN  /\ cmd.name = "gen-images"
        /\ its # {} /\ \A i \in its : job[i] = "todo"
        /\ job' = [i \in Images |-> IF i \in its THEN "none" ELSE job[i]]
        /\ UNCHANGED <<rev, files, image, built, cmd, newLock, newReg>>

WriteRegistry ==
    /\ cmd.name = "gen-images" /\ AllDone
    /\ registry' = newReg
    /\ EndCmd
    /\ UNCHANGED <<rev, lock, dockerfile, wrapper, cache, rootfs, digest, image, built>>
-----------------------------------------------------------------------------
(* build-images                                                            *)

StartBuild ==
    /\ \E only \in Requested :
          StartCmd("build-images", only, only = registry, FALSE)
    /\ UNCHANGED <<rev, files, image, newLock, newReg>>

\* shouldBuildImage: nothing to do if the hash is the same and the image is
\* there.  With --no-cache, or if docker inspect fails, it is built all the same.
CheckBuild(i) ==
    /\ At("build-images", i, "todo")
    /\ Hashable(i)
    /\ \/ Goto(i, "build")
       \/ cache[i] = contextHash(i) /\ image[i] # NoContext /\ Goto(i, "none")
    /\ UNCHANGED <<rev, files, image, newLock, newReg>>

Build(i) ==
    /\ At("build-images", i, "build")
    /\ image' = [image EXCEPT ![i] = contextHash(i)]
    /\ Goto(i, "hash")
    /\ UNCHANGED <<rev, files, newLock, newReg>>

WriteHash(i) ==
    /\ At("build-images", i, "hash")
    /\ cache' = [cache EXCEPT ![i] = contextHash(i)]
    /\ Goto(i, "none")
    /\ UNCHANGED <<rev, lock, dockerfile, wrapper, registry, rootfs,
                   digest, image, newLock, newReg>>
-----------------------------------------------------------------------------
(* export-rootfs.  It is `all` when it follows a build as in the Makefile, *)
(* where rootfs depends on images.                                         *)

StartExport ==
    /\ \E only \in Requested, force \in {FALSE, Forces} :
          StartCmd("export-rootfs", only, built, force)
    /\ UNCHANGED <<rev, files, image, newLock, newReg>>

\* The rootfs that is skipped as up to date.
UpToDate(i) == digest[i] = contextHash(i) /\ rootfs[i] # "none"

CheckExport(i) ==
    /\ At("export-rootfs", i, "todo")
    /\ Hashable(i)
    /\ Goto(i, IF ~cmd.flag /\ UpToDate(i) THEN "none" ELSE "clear")
    /\ UNCHANGED <<rev, files, image, newLock, newReg>>

\* RemoveAll and MkdirAll; an error leaves what was not yet removed.
Clear(i) ==
    /\ At("export-rootfs", i, "clear")
    /\ \/ /\ rootfs' = [rootfs EXCEPT ![i] = "none"]
          /\ Goto(i, "extract")
       \/ /\ rootfs' = [rootfs EXCEPT ![i] = IF @ = "none" THEN "none" ELSE "partial"]
          /\ Goto(i, "none")
    /\ UNCHANGED <<rev, lock, dockerfile, wrapper, registry, cache,
                   digest, image, newLock, newReg>>

\* docker create, and tar begins to unpack.
Extract(i) ==
    /\ At("export-rootfs", i, "extract")
    /\ image[i] # NoContext
    /\ rootfs' = [rootfs EXCEPT ![i] = "partial"]
    /\ Goto(i, "tar")
    /\ UNCHANGED <<rev, lock, dockerfile, wrapper, registry, cache,
                   digest, image, newLock, newReg>>

\* tar ends and the mount points are made.
Unpacked(i) ==
    /\ At("export-rootfs", i, "tar")
    /\ rootfs' = [rootfs EXCEPT ![i] = "whole"]
    /\ Goto(i, "digest")
    /\ UNCHANGED <<rev, lock, dockerfile, wrapper, registry, cache,
                   digest, image, newLock, newReg>>

WriteDigest(i) ==
    /\ At("export-rootfs", i, "digest")
    /\ digest' = [digest EXCEPT ![i] = contextHash(i)]
    /\ Goto(i, "none")
    /\ UNCHANGED <<rev, lock, dockerfile, wrapper, registry, cache,
                   rootfs, image, newLock, newReg>>
-----------------------------------------------------------------------------
Next ==
    \/ StartLock \/ WriteLock \/ StartGen \/ WriteRegistry \/ StartBuild \/ StartExport
    \/ Stop \/ Finish
    \/ \E l \in Langs : Edit(l) \/ SkipLang(l)
    \/ \E i \in Images :
          \/ Prune(i) \/ FailJob(i)
          \/ Inspect(i) \/ WriteDockerfile(i) \/ WriteWrapper(i)
          \/ CheckBuild(i) \/ Build(i) \/ WriteHash(i)
          \/ CheckExport(i) \/ Clear(i) \/ Extract(i) \/ Unpacked(i) \/ WriteDigest(i)

Spec == Init /\ [][Next]_vars
-----------------------------------------------------------------------------
(* Properties.                                                             *)

Revs     == UNION {1..MaxRev[l] : l \in Langs}
Contexts == [docker : Revs \cup {0}, wrapper : Revs \cup {0}]

\* The type of the state; when a command has ended none of its
\* steps is pending.
TypeOK ==
    /\ rev \in [Langs -> Revs]
    /\ lock \in SUBSET Images /\ newLock \in SUBSET Images
    /\ dockerfile \in [Images -> Revs \cup {0}]
    /\ wrapper \in [Images -> Revs \cup {0}]
    /\ registry \in SUBSET Images /\ newReg \in SUBSET Images
    /\ image \in [Images -> Contexts]
    /\ cache \in [Images -> Contexts]
    /\ digest \in [Images -> Contexts]
    /\ rootfs \in [Images -> {"none", "partial", "whole"}]
    /\ built \in BOOLEAN
    /\ cmd \in [name : Commands \cup {"idle"}, all : BOOLEAN, flag : BOOLEAN]
    /\ job \in [Images -> Jobs]
    /\ cmd = Idle => job = [i \in Images |-> "none"]

\* What the registry lists can be built: its Dockerfile and its wrapper exist,
\* wherever earlier commands were stopped (contextHash fails without them, and
\* with it the whole of build-images and export-rootfs).
RegistryBuildable ==
    \A i \in registry : Hashable(i)

\* A command drops nothing it did not look at.  genimages.go:86-89: a --lang
\* run must not "silently drop every language/version it didn't touch from the
\* shared registry file"; genlock.go:25: without --drop-stale a digest that
\* cannot be refreshed is kept, so gen-lock on all languages loses no pin, but
\* for an image it skips, and unless it could not load the lockfile.
NothingDropped ==
    [][/\ cmd.name = "gen-images" /\ ~cmd.all => registry \subseteq registry'
       /\ cmd.name = "gen-lock" /\ cmd.all /\ ~cmd.flag =>
             {i \in lock : job[i] # "skipped"} \subseteq lock']_vars

\* When build-images would skip an image, the image is the one the build
\* directory describes, whatever failed or was stopped before.  (If sources
\* return to a revision whose successor was built by a command that was then
\* stopped, this does not hold: see Reverts.)
BuildSkipSound ==
    \A i \in Images :
        cache[i] = contextHash(i) /\ image[i] # NoContext => image[i] = contextHash(i)

\* What `make rootfs` unpacks comes from the image that the build directory
\* describes, and that directory's hash is recorded for it (exportrootfs.go:117):
\* a build-images that ends without an error has left no image of another
\* revision, whatever it skipped and whatever was stopped before.
MakeExportsCurrent ==
    \A i \in Images :
        cmd.name = "export-rootfs" /\ cmd.all /\ job[i] \in {"tar", "digest"}
            => image[i] \in {contextHash(i), NoContext}

\* When export-rootfs would skip a rootfs as "up to date" (exportrootfs.go:65),
\* it is a whole one.
SkippedRootfsWhole == \A i \in Images : UpToDate(i) => rootfs[i] = "whole"
=============================================================================
