----------------------------- MODULE Autoupdater ------------------------------
(***************************************************************************)
(* The autoupdater of a Gluon node: src/autoupdater/src/autoupdater.c with *)
(* the settings it loads (settings.c) and the hook directories it runs     *)
(* (util.c).  Several instances may be started on one node (cron, a user,  *)
(* a fallback job); they share the lock file, the image file in /tmp, the  *)
(* state the hooks change, and the flash.                                  *)
(*                                                                         *)
(* An image is a sequence of ImageSize[img] chunks, as recv_image_cb       *)
(* writes them.  A chunk is represented by the image it belongs to, so a   *)
(* file holds an image when its first ImageSize[img] chunks are img, and   *)
(* the SHA-256 of a stream equals img's when as many chunks were hashed    *)
(* and all of them are img.                                                *)
(***************************************************************************)
EXTENDS Integers, Sequences

CONSTANTS
  Proc,             \* instances of the program
  NMirrors,         \* mirrors in the configuration or on the command line
  Images,           \* firmware images for this model
  ImageSize,        \* chunks of each image (the manifest's imagesize)
  MaxSize,          \* BOUND: the longest file kept track of
  Version,          \* the version of each image (the manifest's version)
  Manifests,        \* the manifests a server may send, see Manifest
  GoodSignatures,   \* option good_signatures of the branch
  Options,          \* command lines that are used, see Option
  NeighbourLists,   \* releases the mesh neighbours may announce
  InitVersion,      \* version of the firmware the node starts with
  MayLoseVersion,   \* can reading version_file fail?
  Null,             \* a NULL pointer, nobody, nothing
  Empty,            \* position behind the end of the image file
  Torn              \* a chunk that is no whole chunk of any image

\* parse_args: -f, -n, --force-version, and mirrors on the command line.
Option == [force : BOOLEAN, no_action : BOOLEAN,
           force_version : BOOLEAN, external : BOOLEAN]

\* What autoupdate() reads off a manifest: how many signatures verify against
\* the configured keys, and whether DATE and PRIORITY, the branch and this
\* model's line are there; the line gives version, hash, size and file name.
Manifest == [signatures : Nat, complete : BOOLEAN, branch_ok : BOOLEAN,
             model_ok : BOOLEAN, image : Images]

ASSUME ConstantsAssumption ==
  /\ NMirrors \in Nat
  /\ MaxSize \in Nat
  /\ ImageSize \in [Images -> 1..MaxSize]
  /\ Version \in [Images -> Nat]
  /\ Manifests \subseteq Manifest
  /\ GoodSignatures \in Nat \ {0}
  /\ Options \subseteq Option
  /\ NeighbourLists \subseteq Seq(Nat \cup {Null})
  /\ InitVersion \in Nat
  /\ MayLoseVersion \in BOOLEAN
  /\ Null \notin Proc /\ Null \notin Images /\ Null \notin Manifests
  /\ Null \notin Nat /\ Null \notin BOOLEAN
  /\ Empty \notin Images /\ Torn \notin Images

VARIABLES
  \* of each process
  pc,          \* what it does next
  s,           \* struct settings: options, old_version and the mirrors left
  neighbours,  \* releases of the neighbours not yet tried
  source,      \* the mirror in use, or Proxy for a neighbour
  manifest,    \* autoupdate()'s manifest, Null before it is received (kept here
               \* until the process ends, as the properties speak about it)
  image,       \* autoupdate()'s recv_image_ctx and the transfer's counters
  cloexec,     \* FD_CLOEXEC of its lock file descriptor
  \* of the node
  lock,        \* holder of the flock on /var/lock/autoupdater.lock, or Null
  mtime,       \* mtime of the lock file: a bit each futimens flips, or Null
               \* when there is no lock file (/var/lock is in RAM)
  firmware,    \* the file /tmp/firmware.bin
  prepared,    \* the effects of download.d are in place
  orphaned,    \* history: the process that should undo them is gone
  installed    \* version of the running firmware

vars == <<pc, s, neighbours, source, manifest, image, cloexec,
          lock, mtime, firmware, prepared, orphaned, installed>>

local == <<s, neighbours, source, manifest, image, cloexec>>
node  == <<lock, mtime, firmware, prepared, orphaned, installed>>

-------------------------------------------------------------------------------
Position == 1..MaxSize
Mirror   == 1..NMirrors
Proxy    == 0

NoFile     == [i \in Position |-> Empty]
NoSettings == [force |-> FALSE, no_action |-> FALSE, force_version |-> FALSE,
               external |-> FALSE, old_version |-> Null, mirrors |-> {}]
NewTransfer == [downloaded |-> 0, pos |-> 0, hashed |-> {}, nhashed |-> 0]

\* Mutant: an equal version counts as newer.
NewerOrEqual(a, b) == a # Null /\ (b # Null => a >= b)

\* newer_than() of version.c, for versions in their order; see there for NULL.
NewerThan(a, b) == a # Null /\ (b # Null => a > b)

\* The tests autoupdate() makes on a manifest before looking at its version.
Trusted(m) == /\ m.signatures >= GoodSignatures
              /\ m.complete
              /\ m.branch_ok
              /\ m.model_ok

\* Mutant: --force also skips the version check.
WantedIfForced(p) ==
  \/ NewerThan(Version[manifest[p].image], s[p].old_version)
  \/ s[p].force_version
  \/ s[p].force

Wanted(p) == \/ NewerThan(Version[manifest[p].image], s[p].old_version)
             \/ s[p].force_version

\* ecdsa_sha256_final() equals the manifest's hash: exactly the image's chunks
\* went through the hash.
ChecksumOk(p) == LET img == manifest[p].image
                 IN  /\ image[p].nhashed = ImageSize[img]
                     /\ image[p].hashed = {img}

\* The processes that ran download.d and have to run abort.d if they fail.
InSection(p) == pc[p] \in {"image", "verify", "upgrade", "exec", "abort",
                           "sysupgrade"}

\* The image sysupgrade runs with is the one in the process's manifest.
Flashing(p) == pc[p] = "sysupgrade"

-------------------------------------------------------------------------------
Init ==
  /\ pc = [p \in Proc |-> "idle"]
  /\ s = [p \in Proc |-> NoSettings]
  /\ neighbours = [p \in Proc |-> <<>>]
  /\ source = [p \in Proc |-> Proxy]
  /\ manifest = [p \in Proc |-> Null]
  /\ image = [p \in Proc |-> NewTransfer]
  /\ cloexec = [p \in Proc |-> TRUE]
  /\ lock = Null
  /\ mtime = Null
  /\ firmware = NoFile
  /\ prepared = FALSE
  /\ orphaned = FALSE
  /\ installed = InitVersion

Goto(p, from, to) == pc[p] = from /\ pc' = [pc EXCEPT ![p] = to]

\* The processes in P end, in whatever way: their memory is gone and the
\* kernel closes their file descriptors, which releases the lock.
End(P) ==
  /\ pc' = [p \in Proc |-> IF p \in P THEN "idle" ELSE pc[p]]
  /\ s' = [p \in Proc |-> IF p \in P THEN NoSettings ELSE s[p]]
  /\ neighbours' = [p \in Proc |-> IF p \in P THEN <<>> ELSE neighbours[p]]
  /\ source' = [p \in Proc |-> IF p \in P THEN Proxy ELSE source[p]]
  /\ manifest' = [p \in Proc |-> IF p \in P THEN Null ELSE manifest[p]]
  /\ image' = [p \in Proc |-> IF p \in P THEN NewTransfer ELSE image[p]]
  /\ cloexec' = [p \in Proc |-> IF p \in P THEN TRUE ELSE cloexec[p]]
  /\ lock' = IF lock \in P THEN Null ELSE lock

\* autoupdate() returns true: main touches the lock file and exits.
ReturnTrue(p) == End({p}) /\ mtime' = ~mtime

\* Mutant: the mirror that failed stays in the list.
ReturnFalseKeepsMirror(p) ==
  /\ pc' = [pc EXCEPT ![p] = IF source[p] = Proxy THEN "neighbours" ELSE "mirrors"]
  /\ manifest' = [manifest EXCEPT ![p] = Null]
  /\ image' = [image EXCEPT ![p] = NewTransfer]
  /\ UNCHANGED <<s, neighbours, source, cloexec>>

\* autoupdate() returns false: the main loop strikes the mirror off its list,
\* or goes on with the next neighbour.
ReturnFalse(p) ==
  /\ pc' = [pc EXCEPT ![p] = IF source[p] = Proxy THEN "neighbours" ELSE "mirrors"]
  /\ s' = [s EXCEPT ![p].mirrors = @ \ {source[p]}]
  /\ manifest' = [manifest EXCEPT ![p] = Null]
  /\ image' = [image EXCEPT ![p] = NewTransfer]
  /\ UNCHANGED <<neighbours, source, cloexec>>

-------------------------------------------------------------------------------
(* main: settings, lock, and the walk over mirrors and neighbours          *)

\* parse_args and load_settings, before the lock is taken.
Start(p) ==
  /\ Goto(p, "idle", "lock")
  /\ \E o \in Options, old \in {installed} \cup (IF MayLoseVersion THEN {Null} ELSE {}) :
       s' = [s EXCEPT ![p] = [force |-> o.force, no_action |-> o.no_action,
                              force_version |-> o.force_version,
                              external |-> o.external,
                              old_version |-> old, mirrors |-> Mirror]]
  /\ UNCHANGED <<neighbours, source, manifest, image, cloexec>>
  /\ UNCHANGED node

\* The time of the lock file after open(O_CREAT): a file that was not there
\* gets the present time, one that was there keeps its own.
Opened == IF mtime = Null THEN FALSE ELSE mtime

\* lock_autoupdater: open with O_CREAT and O_CLOEXEC, then
\* flock(LOCK_EX | LOCK_NB).
LockOk(p) ==
  /\ Goto(p, "lock", "mirrors")
  /\ lock = Null
  /\ lock' = p
  /\ mtime' = Opened
  /\ UNCHANGED local
  /\ UNCHANGED <<firmware, prepared, orphaned, installed>>

\* Mutant: every error ends with the clean-up of a failed download.
LockFailsUnlinks(p) ==
  /\ pc[p] = "lock"
  /\ End({p})
  /\ mtime' \in {mtime, Opened}
  /\ firmware' = NoFile
  /\ UNCHANGED <<prepared, orphaned, installed>>

\* The lock file cannot be opened; or it can, and is there from now on, but
\* another instance holds the lock.
LockFails(p) ==
  /\ pc[p] = "lock"
  /\ End({p})
  /\ mtime' \in {mtime, Opened}
  /\ UNCHANGED <<firmware, prepared, orphaned, installed>>

\* The next mirror: in order when given on the command line, else any.
PickMirror(p) ==
  /\ Goto(p, "mirrors", "manifest")
  /\ \E i \in s[p].mirrors :
       /\ s[p].external => \A j \in s[p].mirrors : i <= j
       /\ source' = [source EXCEPT ![p] = i]
  /\ UNCHANGED <<s, neighbours, manifest, image, cloexec>>
  /\ UNCHANGED node

\* No mirror is left: ask the mesh neighbours for their releases.
Discover(p) ==
  /\ Goto(p, "mirrors", "neighbours")
  /\ s[p].mirrors = {}
  /\ \E l \in NeighbourLists : neighbours' = [neighbours EXCEPT ![p] = l]
  /\ source' = [source EXCEPT ![p] = Proxy]
  /\ UNCHANGED <<s, manifest, image, cloexec>>
  /\ UNCHANGED node

\* Asking fails.  The cleanup that follows may read an uninitialised list head
\* (when there is no ubus): the process ends either way.
DiscoverFails(p) ==
  /\ pc[p] = "mirrors"
  /\ s[p].mirrors = {}
  /\ End({p})
  /\ UNCHANGED <<mtime, firmware, prepared, orphaned, installed>>

\* A neighbour is passed over: no release known, or none newer than ours.
Skippable(p, release) ==
  \/ release = Null
  \/ ~NewerThan(release, s[p].old_version) /\ ~s[p].force

SkipNeighbour(p) ==
  /\ pc[p] = "neighbours"
  /\ neighbours[p] # <<>>
  /\ Skippable(p, Head(neighbours[p]))
  /\ neighbours' = [neighbours EXCEPT ![p] = Tail(@)]
  /\ UNCHANGED <<pc, s, source, manifest, image, cloexec>>
  /\ UNCHANGED node

TryNeighbour(p) ==
  /\ Goto(p, "neighbours", "manifest")
  /\ neighbours[p] # <<>>
  /\ ~Skippable(p, Head(neighbours[p]))
  /\ neighbours' = [neighbours EXCEPT ![p] = Tail(@)]
  /\ source' = [source EXCEPT ![p] = Proxy]
  /\ UNCHANGED <<s, manifest, image, cloexec>>
  /\ UNCHANGED node

\* "no usable mirror found"
NoSourceLeft(p) ==
  /\ pc[p] = "neighbours"
  /\ neighbours[p] = <<>>
  /\ End({p})
  /\ UNCHANGED <<mtime, firmware, prepared, orphaned, installed>>

-------------------------------------------------------------------------------
(* autoupdate(): manifest                                                  *)

FetchManifest(p) ==
  /\ Goto(p, "manifest", "check")
  /\ \E m \in Manifests : manifest' = [manifest EXCEPT ![p] = m]
  /\ UNCHANGED <<s, neighbours, source, image, cloexec>>
  /\ UNCHANGED node

\* Mutant: a failed manifest download is only warned about.
ManifestErrorIgnored(p) ==
  /\ Goto(p, "manifest", "check")
  /\ UNCHANGED local
  /\ UNCHANGED node

\* The URL is too long, or get_url reports an error.
ManifestError(p) ==
  /\ pc[p] = "manifest"
  /\ ReturnFalse(p)
  /\ UNCHANGED node

\* Mutant: a manifest that is not trusted ends the run as a success.
RejectManifestAsSuccess(p) ==
  /\ pc[p] = "check"
  /\ ~Trusted(manifest[p])
  /\ ReturnTrue(p)
  /\ UNCHANGED <<firmware, prepared, orphaned, installed>>

RejectManifest(p) ==
  /\ pc[p] = "check"
  /\ ~Trusted(manifest[p])
  /\ ReturnFalse(p)
  /\ UNCHANGED node

NoNewFirmware(p) ==
  /\ pc[p] = "check"
  /\ Trusted(manifest[p])
  /\ ~Wanted(p)
  /\ ReturnTrue(p)
  /\ UNCHANGED <<firmware, prepared, orphaned, installed>>

\* The random number exceeds get_probability(): not this time.
NotDue(p) ==
  /\ pc[p] = "check"
  /\ Trusted(manifest[p])
  /\ Wanted(p)
  /\ ~s[p].force
  /\ ReturnTrue(p)
  /\ UNCHANGED <<firmware, prepared, orphaned, installed>>

\* get_probability() needs the uptime and exits when it cannot be read.
UptimeUnknown(p) ==
  /\ pc[p] = "check"
  /\ Trusted(manifest[p])
  /\ Wanted(p)
  /\ ~s[p].force
  /\ End({p})
  /\ UNCHANGED <<mtime, firmware, prepared, orphaned, installed>>

Proceed(p) ==
  /\ Goto(p, "check", "download")
  /\ Trusted(manifest[p])
  /\ Wanted(p)
  /\ UNCHANGED local
  /\ UNCHANGED node

-------------------------------------------------------------------------------
(* autoupdate(): image                                                     *)

\* run_dir(download.d), then open(O_WRONLY | O_CREAT): a file that is already
\* there keeps its content.
BeginDownload(p) ==
  /\ Goto(p, "download", "image")
  /\ prepared' = TRUE
  /\ image' = [image EXCEPT ![p] = NewTransfer]
  /\ UNCHANGED <<s, neighbours, source, manifest, cloexec>>
  /\ UNCHANGED <<lock, mtime, firmware, orphaned, installed>>

\* The hooks run, but the file cannot be opened or the URL is too long.
OpenFails(p) ==
  /\ Goto(p, "download", "abort")
  /\ prepared' = TRUE
  /\ UNCHANGED local
  /\ UNCHANGED <<lock, mtime, firmware, orphaned, installed>>

Receiving(p) ==
  /\ pc[p] = "image"
  /\ image[p].downloaded < ImageSize[manifest[p].image]

\* recv_image_cb: a chunk arrives, is written and hashed.  Behind a gap a
\* failed write left, what lands in the file is at the wrong place.
RecvChunk(p) ==
  /\ Receiving(p)
  /\ \E c \in Images :
       /\ image' = [image EXCEPT ![p] =
                      [downloaded |-> @.downloaded + 1, pos |-> @.pos + 1,
                       hashed |-> @.hashed \cup {c}, nhashed |-> @.nhashed + 1]]
       /\ firmware' = [firmware EXCEPT ![image[p].pos + 1] =
                         IF image[p].nhashed = image[p].downloaded THEN c ELSE Torn]
  /\ UNCHANGED <<pc, s, neighbours, source, manifest, cloexec>>
  /\ UNCHANGED <<lock, mtime, prepared, orphaned, installed>>

\* Mutant: the chunk is hashed before it is written.
WriteFailsHashed(p) ==
  /\ Receiving(p)
  /\ \E c \in Images :
       image' = [image EXCEPT ![p] =
                   [downloaded |-> @.downloaded + 1, pos |-> @.pos + 1,
                    hashed |-> @.hashed \cup {c}, nhashed |-> @.nhashed + 1]]
  /\ firmware' = [firmware EXCEPT ![image[p].pos + 1] = Torn]
  /\ UNCHANGED <<pc, s, neighbours, source, manifest, cloexec>>
  /\ UNCHANGED <<lock, mtime, prepared, orphaned, installed>>

\* recv_image_cb: the chunk was counted, but write() writes a part of it or
\* nothing.  The chunk is not hashed and the transfer goes on.
WriteFails(p) ==
  /\ Receiving(p)
  /\ \/ /\ image' = [image EXCEPT ![p].downloaded = @ + 1]
        /\ UNCHANGED firmware
     \/ /\ image' = [image EXCEPT ![p].downloaded = @ + 1, ![p].pos = @ + 1]
        /\ firmware' = [firmware EXCEPT ![image[p].pos + 1] = Torn]
  /\ UNCHANGED <<pc, s, neighbours, source, manifest, cloexec>>
  /\ UNCHANGED <<lock, mtime, prepared, orphaned, installed>>

\* get_url reports an error: network, status, size.
ImageError(p) ==
  /\ Goto(p, "image", "abort")
  /\ UNCHANGED local
  /\ UNCHANGED node

\* get_url reports success, which it does for imagesize bytes only.
ImageDone(p) ==
  /\ Goto(p, "image", "verify")
  /\ image[p].downloaded = ImageSize[manifest[p].image]
  /\ UNCHANGED local
  /\ UNCHANGED node

ChecksumBad(p) ==
  /\ Goto(p, "verify", "abort")
  /\ ~ChecksumOk(p)
  /\ UNCHANGED local
  /\ UNCHANGED node

\* Mutant: the simulated upgrade does not run abort.d.
NoActionWithoutAbort(p) ==
  /\ pc[p] = "verify"
  /\ ChecksumOk(p)
  /\ s[p].no_action
  /\ ReturnTrue(p)
  /\ UNCHANGED <<firmware, prepared, orphaned, installed>>

\* -n: run abort.d and report success; the file stays in /tmp.
NoAction(p) ==
  /\ pc[p] = "verify"
  /\ ChecksumOk(p)
  /\ s[p].no_action
  /\ prepared' = FALSE
  /\ orphaned' = FALSE
  /\ ReturnTrue(p)
  /\ UNCHANGED <<firmware, installed>>

ChecksumGood(p) ==
  /\ Goto(p, "verify", "upgrade")
  /\ ChecksumOk(p)
  /\ ~s[p].no_action
  /\ UNCHANGED local
  /\ UNCHANGED node

\* label fail_after_download: unlink the file, run abort.d, return false.
FailAfterDownload(p) ==
  /\ pc[p] = "abort"
  /\ firmware' = NoFile
  /\ prepared' = FALSE
  /\ orphaned' = FALSE
  /\ ReturnFalse(p)
  /\ UNCHANGED <<lock, mtime, installed>>

-------------------------------------------------------------------------------
(* autoupdate(): the upgrade                                               *)

\* Mutant: FD_CLOEXEC is not cleared.
BeginUpgradeKeepsCloexec(p) ==
  /\ Goto(p, "upgrade", "exec")
  /\ UNCHANGED local
  /\ UNCHANGED node

\* run_dir(upgrade.d), then clear FD_CLOEXEC of the lock file descriptor.
BeginUpgrade(p) ==
  /\ Goto(p, "upgrade", "exec")
  /\ cloexec' = [cloexec EXCEPT ![p] = FALSE]
  /\ UNCHANGED <<s, neighbours, source, manifest, image>>
  /\ UNCHANGED node

\* execl(sysupgrade) closes the descriptors that are marked close-on-exec.
Exec(p) ==
  /\ Goto(p, "exec", "sysupgrade")
  /\ lock' = IF cloexec[p] /\ lock = p THEN Null ELSE lock
  /\ UNCHANGED local
  /\ UNCHANGED <<mtime, firmware, prepared, orphaned, installed>>

\* execl() returned: mark the descriptor again and fail.
ExecFails(p) ==
  /\ Goto(p, "exec", "abort")
  /\ cloexec' = [cloexec EXCEPT ![p] = TRUE]
  /\ UNCHANGED <<s, neighbours, source, manifest, image>>
  /\ UNCHANGED node

\* External: sysupgrade writes the file to the flash and the node boots it.
\* /tmp, the lock file and every process are gone.
SysupgradeDone(p) ==
  /\ pc[p] = "sysupgrade"
  /\ firmware[1] \in Images
  /\ installed' = Version[firmware[1]]
  /\ End(Proc)
  /\ mtime' = Null
  /\ firmware' = NoFile
  /\ prepared' = FALSE
  /\ orphaned' = FALSE

\* External: sysupgrade gives up and ends.
SysupgradeFails(p) ==
  /\ pc[p] = "sysupgrade"
  /\ orphaned' = TRUE
  /\ End({p})
  /\ UNCHANGED <<mtime, firmware, prepared, installed>>

-------------------------------------------------------------------------------
(* The environment                                                         *)

\* A running autoupdater is killed.
Kill(p) ==
  /\ pc[p] \notin {"idle", "sysupgrade"}
  /\ orphaned' = (orphaned \/ InSection(p))
  /\ End({p})
  /\ UNCHANGED <<mtime, firmware, prepared, installed>>

\* The node restarts while nothing is being flashed; what was in RAM is gone.
Restart ==
  /\ \A p \in Proc : ~Flashing(p)
  /\ End(Proc)
  /\ mtime' = Null
  /\ firmware' = NoFile
  /\ prepared' = FALSE
  /\ orphaned' = FALSE
  /\ UNCHANGED installed

MainStep(p) ==
  \/ LockOk(p) \/ LockFails(p) \/ PickMirror(p)
  \/ Discover(p) \/ DiscoverFails(p)
  \/ SkipNeighbour(p) \/ TryNeighbour(p) \/ NoSourceLeft(p)

AutoupdateStep(p) ==
  \/ FetchManifest(p) \/ ManifestError(p) \/ RejectManifest(p)
  \/ NoNewFirmware(p) \/ NotDue(p) \/ UptimeUnknown(p) \/ Proceed(p)
  \/ BeginDownload(p) \/ OpenFails(p)
  \/ RecvChunk(p) \/ WriteFails(p) \/ ImageError(p) \/ ImageDone(p)
  \/ ChecksumBad(p) \/ NoAction(p) \/ ChecksumGood(p) \/ FailAfterDownload(p)
  \/ BeginUpgrade(p) \/ Exec(p) \/ ExecFails(p)

Sysupgrade(p) == SysupgradeDone(p) \/ SysupgradeFails(p)

Step(p) == MainStep(p) \/ AutoupdateStep(p) \/ Sysupgrade(p)

Next == \/ \E p \in Proc : Start(p) \/ Step(p) \/ Kill(p)
        \/ Restart

Spec == Init /\ [][Next]_vars

\* The process is in a call that need not return: get_url, whose transfer stalls
\* when recv_manifest_cb stops reading, or the neighbour search, where librespondd
\* may set a receive timeout of zero (see RespondRequest).
Waits(p) == \/ pc[p] \in {"manifest", "image"}
            \/ pc[p] = "mirrors" /\ s[p].mirrors = {}

\* A started process that waits for nobody keeps running: the kernel schedules
\* it, hooks and sysupgrade end.  Nothing is assumed of a process that Waits.
FairSpec == Spec /\ \A p \in Proc : WF_vars(~Waits(p) /\ Step(p))

-------------------------------------------------------------------------------
(* Properties                                                              *)

ProcState == {"idle", "lock", "mirrors", "neighbours", "manifest", "check",
              "download", "image", "verify", "upgrade", "exec", "abort",
              "sysupgrade"}

\* The states in which the process has received a manifest.
HasManifest == {"check", "download", "image", "verify", "upgrade", "exec",
                "abort", "sysupgrade"}

Settings == [force : BOOLEAN, no_action : BOOLEAN, force_version : BOOLEAN,
             external : BOOLEAN, old_version : Nat \cup {Null},
             mirrors : SUBSET Mirror]

Transfer == [downloaded : Nat, pos : Nat, hashed : SUBSET Images, nhashed : Nat]

\* Every variable has its type, and a manifest is there when the process has
\* received one (autoupdate() never looks at a manifest before get_url succeeds).
TypeOK ==
  /\ pc \in [Proc -> ProcState]
  /\ s \in [Proc -> Settings]
  /\ neighbours \in [Proc -> Seq(Nat \cup {Null})]
  /\ source \in [Proc -> Mirror \cup {Proxy}]
  /\ manifest \in [Proc -> Manifests \cup {Null}]
  /\ image \in [Proc -> Transfer]
  /\ cloexec \in [Proc -> BOOLEAN]
  /\ lock \in Proc \cup {Null}
  /\ mtime \in BOOLEAN \cup {Null}
  /\ lock # Null => mtime # Null
  /\ firmware \in [Position -> Images \cup {Empty, Torn}]
  /\ prepared \in BOOLEAN
  /\ orphaned \in BOOLEAN
  /\ installed \in Nat
  /\ \A p \in Proc : pc[p] \in HasManifest => manifest[p] \in Manifests

\* At most one instance is past lock_autoupdater(), counting one that has
\* become sysupgrade: the lock file stays locked over the exec.
MutualExclusion ==
  \A p, q \in Proc : /\ pc[p] \notin {"idle", "lock"}
                     /\ pc[q] \notin {"idle", "lock"}
                     => p = q

\* The first imagesize bytes of the file sysupgrade is called with are the
\* image whose hash was signed, although the hash is taken over the stream
\* and write errors do not end the transfer.
FlashedPrefixVerified ==
  \A p \in Proc : pc[p] \in {"upgrade", "exec", "sysupgrade"} =>
    \A i \in 1..ImageSize[manifest[p].image] : firmware[i] = manifest[p].image

\* sysupgrade runs only for a manifest with enough good signatures, for this
\* branch and model, never under --no-action, and for a newer version than the
\* one now installed unless --force-version was given or it could not be read.
OnlyAuthorisedFlashed ==
  \A p \in Proc : Flashing(p) =>
    /\ Trusted(manifest[p])
    /\ ~s[p].no_action
    /\ \/ Version[manifest[p].image] > installed
       \/ s[p].force_version
       \/ s[p].old_version = Null

\* What download.d did is in place exactly while some process is between
\* run_dir(download.d) and run_dir(abort.d) or the reboot, or after such a
\* process died without a chance to run abort.d.
HooksBalanced == prepared <=> orphaned \/ \E p \in Proc : InSection(p)

\* While sysupgrade reads the image file nobody writes, truncates or unlinks it.
FileStableDuringSysupgrade ==
  [][\A p \in Proc : Flashing(p) /\ Flashing(p)' => firmware' = firmware]_vars

\* A process may report success: it holds the lock and has a trusted manifest,
\* and there was nothing newer, the draw said not now, or -n was given.
MayReportSuccess(p) == /\ lock = p
                       /\ manifest[p] # Null
                       /\ Trusted(manifest[p])
                       /\ Wanted(p) /\ s[p].force => s[p].no_action

\* The time of a lock file that is there ("update the mtime of the lockfile to
\* indicate a successful run") is changed by nobody else: a run that found only
\* bad manifests or broke off a download leaves it alone.  The first time of a
\* file that was not there, as after a boot, says nothing: open(O_CREAT) sets it,
\* whatever becomes of the run.
TouchedOnlyAfterTrustedManifest ==
  [][mtime # Null /\ mtime' \notin {mtime, Null}
     => \E p \in Proc : MayReportSuccess(p)]_vars

\* Every run comes to an end, unless it stays for ever in one get_url or in the
\* neighbour search: no mirror is tried twice, no neighbour over and over, and
\* the steps between two of these calls are finitely many.
EndsOrWaits == \A p \in Proc : []<>(pc[p] = "idle") \/ <>[]Waits(p)

\* The image being written is the one named by the manifest of the process
\* that became sysupgrade.
FlashedImages == {manifest[p].image : p \in {q \in Proc : Flashing(q)}}

Flashed == IF FlashedImages = {} THEN Null
                                 ELSE CHOOSE img \in FlashedImages : TRUE

\* The autoupdater implements UpdatePolicy.
Policy == INSTANCE UpdatePolicy WITH
  flashing <- Flashed,
  TrustedImages <- {m.image : m \in {n \in Manifests : Trusted(n)}},
  AllowDowngrade <- MayLoseVersion \/ \E o \in Options : o.force_version

\* Every behaviour of the program is one UpdatePolicy allows.
ImplementsPolicy == Policy!Spec

\* upgrade.d/README: "Downloading the upgrade image was successful and the
\* checksum was correct": the file that is flashed is the verified image, and
\* ends where the image ends.
UpgradeFileIsImage ==
  \A p \in Proc : pc[p] \in {"upgrade", "exec", "sysupgrade"} =>
    \A i \in Position : i > ImageSize[manifest[p].image] => firmware[i] = Empty
===============================================================================
