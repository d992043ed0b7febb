-------------------------- MODULE AutoupdaterProofs ---------------------------
(***************************************************************************)
(* Theorems about Autoupdater, for any number of instances, mirrors and    *)
(* images, any sizes, versions, manifests and command lines.               *)
(***************************************************************************)
EXTENDS Autoupdater, TLAPS

\* The constants as the proofs use them.
USE DEF Position, Mirror, Proxy

-------------------------------------------------------------------------------
(* Type correctness                                                        *)

\* The initial values of a process's memory have their types.
LEMMA InitialTypes ==
  /\ NoSettings \in Settings
  /\ NewTransfer \in Transfer
  /\ NoFile \in [Position -> Images \cup {Empty, Torn}]
BY DEF NoSettings, Settings, NewTransfer, Transfer, NoFile

\* Ending processes, in whatever way, keeps the types of what they had.
LEMMA EndType ==
  ASSUME TypeOK, NEW P \in SUBSET Proc, End(P)
  PROVE  /\ pc' \in [Proc -> ProcState]
         /\ s' \in [Proc -> Settings]
         /\ neighbours' \in [Proc -> Seq(Nat \cup {Null})]
         /\ source' \in [Proc -> Mirror \cup {Proxy}]
         /\ manifest' \in [Proc -> Manifests \cup {Null}]
         /\ image' \in [Proc -> Transfer]
         /\ cloexec' \in [Proc -> BOOLEAN]
         /\ lock' \in Proc \cup {Null}
         /\ lock' # Null => mtime # Null
         /\ P = Proc => lock' = Null
         /\ \A p \in Proc : pc'[p] \in HasManifest => manifest'[p] \in Manifests
<1> USE InitialTypes
<1>1. pc' \in [Proc -> ProcState] /\ s' \in [Proc -> Settings]
  BY DEF TypeOK, End, ProcState
<1>2. neighbours' \in [Proc -> Seq(Nat \cup {Null})]
  <2>1. <<>> \in Seq(Nat \cup {Null})
    OBVIOUS
  <2> QED BY <2>1 DEF TypeOK, End
<1>3. source' \in [Proc -> Mirror \cup {Proxy}] /\ image' \in [Proc -> Transfer]
  BY DEF TypeOK, End
<1>4. /\ manifest' \in [Proc -> Manifests \cup {Null}]
      /\ cloexec' \in [Proc -> BOOLEAN]
      /\ lock' \in Proc \cup {Null}
      /\ lock' # Null => mtime # Null
      /\ P = Proc => lock' = Null
  BY DEF TypeOK, End
<1>5. \A p \in Proc : pc'[p] \in HasManifest => manifest'[p] \in Manifests
  BY DEF TypeOK, End, HasManifest
<1> QED BY <1>1, <1>2, <1>3, <1>4, <1>5

\* Returning false from autoupdate() keeps the types.
LEMMA ReturnFalseType ==
  ASSUME TypeOK, NEW p \in Proc, ReturnFalse(p)
  PROVE  /\ pc' \in [Proc -> ProcState]
         /\ s' \in [Proc -> Settings]
         /\ neighbours' \in [Proc -> Seq(Nat \cup {Null})]
         /\ source' \in [Proc -> Mirror \cup {Proxy}]
         /\ manifest' \in [Proc -> Manifests \cup {Null}]
         /\ image' \in [Proc -> Transfer]
         /\ cloexec' \in [Proc -> BOOLEAN]
         /\ \A q \in Proc : pc'[q] \in HasManifest => manifest'[q] \in Manifests
BY InitialTypes DEF TypeOK, ReturnFalse, ProcState, HasManifest, Settings

\* A lock file that was opened is there.
LEMMA OpenedType ==
  ASSUME TypeOK
  PROVE  Opened \in BOOLEAN /\ Opened # Null
BY ConstantsAssumption DEF TypeOK, Opened

\* The steps of main() keep the types.
LEMMA MainStepType ==
  ASSUME TypeOK, NEW p \in Proc, MainStep(p)
  PROVE  TypeOK'
<1>1. CASE LockOk(p)
  BY <1>1, OpenedType DEF LockOk, Goto, local, TypeOK, ProcState, HasManifest
<1>2. CASE LockFails(p) \/ DiscoverFails(p) \/ NoSourceLeft(p)
  <2>1. /\ End({p})
        /\ mtime' \in {mtime, Opened}
        /\ UNCHANGED <<firmware, prepared, orphaned, installed>>
    BY <1>2 DEF LockFails, DiscoverFails, NoSourceLeft
  <2>2. mtime' \in BOOLEAN \cup {Null} /\ (lock' # Null => mtime' # Null)
    BY <2>1, EndType, OpenedType DEF TypeOK
  <2> QED BY <2>1, <2>2, EndType DEF TypeOK
<1>3. CASE PickMirror(p)
  <2>1. PICK i \in s[p].mirrors : source' = [source EXCEPT ![p] = i]
    BY <1>3 DEF PickMirror
  <2>2. i \in Mirror
    BY DEF TypeOK, Settings
  <2> QED BY <1>3, <2>1, <2>2 DEF PickMirror, Goto, node, TypeOK, ProcState, HasManifest
<1>4. CASE Discover(p)
  BY <1>4, ConstantsAssumption DEF Discover, Goto, node, TypeOK, ProcState, HasManifest
<1>5. CASE SkipNeighbour(p)
  BY <1>5 DEF SkipNeighbour, node, TypeOK
<1>6. CASE TryNeighbour(p)
  BY <1>6 DEF TryNeighbour, Goto, node, TypeOK, ProcState, HasManifest
<1> QED BY <1>1, <1>2, <1>3, <1>4, <1>5, <1>6 DEF MainStep

\* So do those of autoupdate().
LEMMA AutoupdateStepType ==
  ASSUME TypeOK, NEW p \in Proc, AutoupdateStep(p)
  PROVE  TypeOK'
<1>1. CASE FetchManifest(p)
  BY <1>1 DEF FetchManifest, Goto, node, TypeOK, ProcState, HasManifest
<1>2. CASE ManifestError(p) \/ RejectManifest(p)
  <2>1. ReturnFalse(p) /\ UNCHANGED node
    BY <1>2 DEF ManifestError, RejectManifest
  <2> QED BY <2>1, ReturnFalseType DEF node, TypeOK
<1>3. CASE NoNewFirmware(p) \/ NotDue(p) \/ UptimeUnknown(p)
  <2>1. /\ End({p})
        /\ mtime' \in BOOLEAN \cup {Null} /\ (mtime # Null => mtime' # Null)
        /\ UNCHANGED <<firmware, prepared, orphaned, installed>>
    BY <1>3, ConstantsAssumption DEF NoNewFirmware, NotDue, UptimeUnknown, ReturnTrue, TypeOK
  <2> QED BY <2>1, EndType DEF TypeOK
<1>4. CASE \/ Proceed(p) \/ ImageError(p) \/ ImageDone(p)
           \/ ChecksumBad(p) \/ ChecksumGood(p)
  BY <1>4 DEF Proceed, ImageError, ImageDone, ChecksumBad, ChecksumGood,
              Goto, local, node, TypeOK, ProcState, HasManifest
<1>5. CASE BeginDownload(p) \/ OpenFails(p)
  <2>1. /\ image' \in [Proc -> Transfer] /\ prepared' \in BOOLEAN
        /\ UNCHANGED <<s, neighbours, source, manifest, cloexec>>
        /\ UNCHANGED <<lock, mtime, firmware, orphaned, installed>>
    BY <1>5, InitialTypes DEF BeginDownload, OpenFails, local, TypeOK
  <2>2. pc' \in [Proc -> ProcState] /\ \A q \in Proc : pc'[q] \in HasManifest => pc[q] \in HasManifest
    BY <1>5 DEF BeginDownload, OpenFails, Goto, TypeOK, ProcState, HasManifest
  <2> QED BY <2>1, <2>2 DEF TypeOK
<1>6. CASE RecvChunk(p)
  <2>1. PICK c \in Images :
          /\ image' = [image EXCEPT ![p] =
                         [downloaded |-> @.downloaded + 1, pos |-> @.pos + 1,
                          hashed |-> @.hashed \cup {c}, nhashed |-> @.nhashed + 1]]
          /\ firmware' = [firmware EXCEPT ![image[p].pos + 1] =
                            IF image[p].nhashed = image[p].downloaded THEN c ELSE Torn]
    BY <1>6 DEF RecvChunk
  <2>2. image' \in [Proc -> Transfer]
    BY <2>1, SMTT(30) DEF TypeOK, Transfer
  <2>3. firmware' \in [Position -> Images \cup {Empty, Torn}]
    BY <2>1 DEF TypeOK
  <2> QED BY <1>6, <2>2, <2>3 DEF RecvChunk, TypeOK
<1>7. CASE WriteFails(p)
  <2>1. image' \in [Proc -> Transfer]
    <3>1. \/ image' = [image EXCEPT ![p].downloaded = @ + 1]
          \/ image' = [image EXCEPT ![p].downloaded = @ + 1, ![p].pos = @ + 1]
      BY <1>7 DEF WriteFails
    <3>2. image \in [Proc -> Transfer]
      BY DEF TypeOK
    <3>3. CASE image' = [image EXCEPT ![p].downloaded = @ + 1]
      BY <3>2, <3>3 DEF Transfer
    <3>4. CASE image' = [image EXCEPT ![p].downloaded = @ + 1, ![p].pos = @ + 1]
      BY <3>2, <3>4 DEF Transfer
    <3> QED BY <3>1, <3>3, <3>4
  <2>2. firmware' \in [Position -> Images \cup {Empty, Torn}]
    BY <1>7 DEF WriteFails, TypeOK
  <2> QED BY <1>7, <2>1, <2>2 DEF WriteFails, TypeOK
<1>8. CASE NoAction(p)
  <2>1. /\ End({p})
        /\ mtime' \in BOOLEAN /\ mtime' # Null
        /\ UNCHANGED <<firmware, installed>>
        /\ prepared' = FALSE /\ orphaned' = FALSE
    BY <1>8, ConstantsAssumption DEF NoAction, ReturnTrue, TypeOK
  <2> QED BY <2>1, EndType DEF TypeOK
<1>9. CASE FailAfterDownload(p)
  BY <1>9, ReturnFalseType, InitialTypes DEF FailAfterDownload, TypeOK
<1>10. CASE BeginUpgrade(p) \/ ExecFails(p)
  BY <1>10 DEF BeginUpgrade, ExecFails, Goto, node, TypeOK, ProcState, HasManifest
<1>11. CASE Exec(p)
  BY <1>11 DEF Exec, Goto, local, TypeOK, ProcState, HasManifest
<1> QED BY <1>1, <1>2, <1>3, <1>4, <1>5, <1>6, <1>7, <1>8, <1>9, <1>10, <1>11
           DEF AutoupdateStep

\* Starting, being killed, the end of sysupgrade and a restart keep the types.
LEMMA NodeStepType ==
  ASSUME TypeOK,
         \/ Restart
         \/ \E p \in Proc : Start(p) \/ Kill(p) \/ Sysupgrade(p)
  PROVE  TypeOK'
<1>1. CASE Restart
  BY <1>1, EndType, InitialTypes DEF Restart, TypeOK
<1>2. ASSUME NEW p \in Proc, Start(p) PROVE TypeOK'
  <2>1. PICK o \in Options, old \in {installed, Null} :
          s' = [s EXCEPT ![p] = [force |-> o.force, no_action |-> o.no_action,
                                 force_version |-> o.force_version,
                                 external |-> o.external,
                                 old_version |-> old, mirrors |-> Mirror]]
    BY <1>2 DEF Start
  <2>2. s' \in [Proc -> Settings]
    BY <2>1, ConstantsAssumption DEF TypeOK, Settings, Option
  <2> QED BY <1>2, <2>2 DEF Start, Goto, node, TypeOK, ProcState, HasManifest
<1>3. ASSUME NEW p \in Proc, Kill(p) PROVE TypeOK'
  <2>1. End({p}) /\ orphaned' \in BOOLEAN
        /\ UNCHANGED <<mtime, firmware, prepared, installed>>
    BY <1>3 DEF Kill, TypeOK
  <2> QED BY <2>1, EndType DEF TypeOK
<1>4. ASSUME NEW p \in Proc, SysupgradeFails(p) PROVE TypeOK'
  BY <1>4, EndType DEF SysupgradeFails, TypeOK
<1>5. ASSUME NEW p \in Proc, SysupgradeDone(p) PROVE TypeOK'
  <2>1. installed' \in Nat
    BY <1>5, ConstantsAssumption DEF SysupgradeDone
  <2> QED BY <1>5, <2>1, EndType, InitialTypes DEF SysupgradeDone, TypeOK
<1> QED BY <1>1, <1>2, <1>3, <1>4, <1>5 DEF Sysupgrade

\* One step of the specification keeps the types.
LEMMA NextType == ASSUME TypeOK, [Next]_vars PROVE TypeOK'
<1>1. CASE UNCHANGED vars
  BY <1>1 DEF vars, TypeOK
<1>2. CASE Next
  BY <1>2, MainStepType, AutoupdateStepType, NodeStepType DEF Next, Step
<1> QED BY <1>1, <1>2

\* The initial state has its types.
LEMMA InitType == Init => TypeOK
<1> SUFFICES ASSUME Init PROVE TypeOK
  OBVIOUS
<1>1. neighbours \in [Proc -> Seq(Nat \cup {Null})]
  <2>1. <<>> \in Seq(Nat \cup {Null})
    OBVIOUS
  <2> QED BY <2>1 DEF Init
<1>2. installed \in Nat
  BY ConstantsAssumption DEF Init
<1> QED BY <1>1, <1>2, InitialTypes DEF Init, TypeOK, ProcState, HasManifest

\* Every variable keeps its type, and autoupdate() always has the manifest it
\* looks at: whatever the number of instances and the inputs.
THEOREM TypeCorrect == Spec => []TypeOK
BY InitType, NextType, PTL DEF Spec

-------------------------------------------------------------------------------
(* The inductive invariant                                                 *)

\* States in which the manifest was found trusted and the version wanted.
Approved == {"download", "image", "verify", "upgrade", "exec", "sysupgrade"}

\* States in which the image was found good.
Verified == {"upgrade", "exec", "sysupgrade"}

\* The holder of the lock is the one process past lock_autoupdater().
LockInv(p) == lock = p <=> pc[p] \notin {"idle", "lock"}

\* The lock survives the exec.
CloexecInv(p) == pc[p] = "exec" => ~cloexec[p]

\* Whoever passed the tests of autoupdate() has a manifest that meets them.
ApprovedInv(p) == pc[p] \in Approved => Trusted(manifest[p]) /\ Wanted(p)

\* The version read before locking is still the installed one.
VersionInv(p) == pc[p] # "idle" => s[p].old_version \in {installed, Null}

\* As long as no write failed, the file starts with what was hashed; a failed
\* write leaves the number of hashed chunks behind for good.
FileInv(p) ==
  pc[p] \in {"image", "verify"} \cup Verified =>
    /\ image[p].nhashed <= image[p].downloaded
    /\ image[p].pos <= image[p].downloaded
    /\ image[p].downloaded <= ImageSize[manifest[p].image]
    /\ image[p].nhashed = image[p].downloaded =>
         /\ image[p].pos = image[p].downloaded
         /\ \A i \in 1..image[p].pos : firmware[i] \in image[p].hashed

\* What is handed to sysupgrade passed the checksum, and -n was not given.
VerifiedInv(p) ==
  /\ pc[p] \in {"verify"} \cup Verified =>
       image[p].downloaded = ImageSize[manifest[p].image]
  /\ pc[p] \in Verified => ChecksumOk(p) /\ ~s[p].no_action

ProcInv(p) == /\ LockInv(p)
              /\ CloexecInv(p)
              /\ ApprovedInv(p)
              /\ VersionInv(p)
              /\ FileInv(p)
              /\ VerifiedInv(p)

IInv == /\ TypeOK
        /\ \A p \in Proc : ProcInv(p)
        /\ HooksBalanced

\* Only LockInv and VersionInv say something of a process before the lock.
LEMMA BeforeLock ==
  ASSUME NEW p \in Proc, pc[p] \in {"idle", "lock"}, lock # p, VersionInv(p)
  PROVE  ProcInv(p)
BY DEF ProcInv, LockInv, CloexecInv, ApprovedInv, FileInv, VerifiedInv,
       Approved, Verified

\* A step of the process that holds the lock leaves the others where they
\* were: before the lock.
LEMMA OthersKeep ==
  ASSUME IInv, NEW p \in Proc, pc[p] \notin {"idle", "lock"},
         \A q \in Proc \ {p} : pc'[q] = pc[q] /\ s'[q] = s[q],
         installed' = installed,
         lock' \in {lock, Null}
  PROVE  \A q \in Proc \ {p} : ProcInv(q)' /\ ~InSection(q) /\ ~InSection(q)'
<1> SUFFICES ASSUME NEW q \in Proc \ {p}
             PROVE  ProcInv(q)' /\ ~InSection(q) /\ ~InSection(q)'
  OBVIOUS
<1>1. lock = p /\ lock # q
  BY DEF IInv, ProcInv, LockInv
<1>2. pc[q] \in {"idle", "lock"} /\ pc'[q] \in {"idle", "lock"}
  BY <1>1 DEF IInv, ProcInv, LockInv
<1>3. lock' # q
  BY <1>1, ConstantsAssumption
<1>4. VersionInv(q)'
  BY DEF IInv, ProcInv, VersionInv
<1>5. ProcInv(q)'
  BY <1>2, <1>3, <1>4 DEF ProcInv, LockInv, CloexecInv, ApprovedInv, FileInv,
     VerifiedInv, Approved, Verified
<1> QED BY <1>2, <1>5 DEF InSection

\* The end of the process that holds the lock.
LEMMA EndKeeps ==
  ASSUME IInv, NEW p \in Proc, pc[p] \notin {"idle", "lock"}, End({p}),
         installed' = installed,
         prepared' <=> orphaned'
  PROVE  (\A q \in Proc : ProcInv(q)') /\ HooksBalanced'
<1>1. \A q \in Proc \ {p} : ProcInv(q)' /\ ~InSection(q)'
  <2>1. /\ \A q \in Proc \ {p} : pc'[q] = pc[q] /\ s'[q] = s[q]
        /\ lock' \in {lock, Null}
    BY DEF End
  <2> QED BY <2>1, OthersKeep
<1>2. pc'[p] = "idle" /\ lock' # p
  BY ConstantsAssumption DEF End
<1>3. ProcInv(p)' /\ ~InSection(p)'
  BY <1>2 DEF ProcInv, LockInv, CloexecInv, ApprovedInv, VersionInv, FileInv,
     VerifiedInv, Approved, Verified, InSection
<1> QED BY <1>1, <1>3 DEF HooksBalanced

\* autoupdate() returns false to the process that holds the lock.
LEMMA ReturnFalseKeeps ==
  ASSUME IInv, NEW p \in Proc, pc[p] \notin {"idle", "lock"}, ReturnFalse(p),
         installed' = installed, lock' = lock,
         prepared' <=> orphaned'
  PROVE  (\A q \in Proc : ProcInv(q)') /\ HooksBalanced'
<1>1. \A q \in Proc \ {p} : ProcInv(q)' /\ ~InSection(q)'
  <2>1. \A q \in Proc \ {p} : pc'[q] = pc[q] /\ s'[q] = s[q]
    BY DEF ReturnFalse, IInv, TypeOK
  <2> QED BY <2>1, OthersKeep
<1>2. pc'[p] \in {"mirrors", "neighbours"}
  BY DEF ReturnFalse, IInv, TypeOK
<1>3. VersionInv(p)'
  BY DEF ReturnFalse, IInv, TypeOK, Settings, ProcInv, VersionInv
<1>4. ProcInv(p)' /\ ~InSection(p)'
  BY <1>2, <1>3 DEF IInv, ProcInv, LockInv, CloexecInv, ApprovedInv, FileInv,
     VerifiedInv, Approved, Verified, InSection
<1> QED BY <1>1, <1>4 DEF HooksBalanced

\* A process whose memory stays as it is, on a node that does not change.
LEMMA Frame ==
  ASSUME IInv, NEW q \in Proc,
         pc'[q] = pc[q], s'[q] = s[q], manifest'[q] = manifest[q],
         image'[q] = image[q], cloexec'[q] = cloexec[q],
         lock' = q <=> lock = q,
         installed' = installed, firmware' = firmware
  PROVE  ProcInv(q)' /\ (InSection(q)' <=> InSection(q))
BY DEF IInv, ProcInv, LockInv, CloexecInv, ApprovedInv, VersionInv, FileInv,
       VerifiedInv, Approved, Verified, InSection, Wanted, ChecksumOk

\* A process that waits for the lock ends: nobody else notices.
LEMMA EndBeforeLock ==
  ASSUME IInv, NEW p \in Proc, pc[p] = "lock", End({p}),
         UNCHANGED <<firmware, prepared, orphaned, installed>>
  PROVE  (\A q \in Proc : ProcInv(q)') /\ HooksBalanced'
<1>1. lock # p
  BY DEF IInv, ProcInv, LockInv
<1>2. \A q \in Proc \ {p} : ProcInv(q)' /\ (InSection(q)' <=> InSection(q))
  <2> TAKE q \in Proc \ {p}
  <2>1. /\ pc'[q] = pc[q] /\ s'[q] = s[q] /\ manifest'[q] = manifest[q]
        /\ image'[q] = image[q] /\ cloexec'[q] = cloexec[q]
        /\ lock' = q <=> lock = q
    BY <1>1 DEF End, IInv, TypeOK
  <2> QED BY <2>1, Frame
<1>3. pc'[p] = "idle" /\ lock' # p
  BY <1>1 DEF End
<1>4. ProcInv(p)' /\ ~InSection(p)' /\ ~InSection(p)
  BY <1>3 DEF ProcInv, LockInv, CloexecInv, ApprovedInv, VersionInv, FileInv,
     VerifiedInv, Approved, Verified, InSection
<1> QED BY <1>2, <1>4 DEF IInv, HooksBalanced

\* The steps of main keep the invariant.
LEMMA MainStepInv ==
  ASSUME IInv, NEW p \in Proc, MainStep(p)
  PROVE  (\A q \in Proc : ProcInv(q)') /\ HooksBalanced'
<1>1. CASE LockOk(p)
  <2>1. \A q \in Proc : pc[q] \in {"idle", "lock"}
    BY <1>1, ConstantsAssumption DEF LockOk, IInv, ProcInv, LockInv
  <2>2. /\ pc'[p] = "mirrors" /\ lock' = p
        /\ \A q \in Proc \ {p} : pc'[q] = pc[q]
        /\ s' = s /\ installed' = installed
        /\ UNCHANGED <<prepared, orphaned>>
    BY <1>1 DEF LockOk, Goto, local, IInv, TypeOK
  <2>3. \A q \in Proc : VersionInv(q)'
    BY <1>1, <2>2 DEF LockOk, Goto, IInv, ProcInv, VersionInv
  <2>4. \A q \in Proc : ProcInv(q)' /\ ~InSection(q)' /\ ~InSection(q)
    BY <2>1, <2>2, <2>3 DEF ProcInv, LockInv, CloexecInv, ApprovedInv, FileInv,
       VerifiedInv, Approved, Verified, InSection
  <2> QED BY <2>2, <2>4 DEF IInv, HooksBalanced
<1>2. CASE LockFails(p)
  BY <1>2, EndBeforeLock DEF LockFails
<1>3. CASE DiscoverFails(p) \/ NoSourceLeft(p)
  <2>1. /\ pc[p] \in {"mirrors", "neighbours"}
        /\ End({p}) /\ UNCHANGED <<prepared, orphaned, installed>>
    BY <1>3 DEF DiscoverFails, NoSourceLeft
  <2>2. ~InSection(p)
    BY <2>1 DEF InSection
  <2>3. prepared <=> orphaned
    BY <2>1, <2>2 DEF IInv, HooksBalanced, InSection, ProcInv, LockInv
  <2> QED BY <2>1, <2>3, EndKeeps
<1>4. CASE PickMirror(p) \/ Discover(p) \/ SkipNeighbour(p) \/ TryNeighbour(p)
  <2>1. /\ pc[p] \in {"mirrors", "neighbours"}
        /\ pc'[p] \in {"manifest", "neighbours"}
        /\ \A q \in Proc \ {p} : pc'[q] = pc[q]
        /\ UNCHANGED <<s, manifest, image, cloexec>>
        /\ UNCHANGED node
    BY <1>4 DEF PickMirror, Discover, SkipNeighbour, TryNeighbour, Goto, IInv, TypeOK
  <2>2. \A q \in Proc \ {p} : ProcInv(q)' /\ ~InSection(q) /\ ~InSection(q)'
    BY <2>1, OthersKeep DEF node
  <2>3. VersionInv(p)'
    BY <2>1 DEF node, IInv, ProcInv, VersionInv
  <2>4. ProcInv(p)' /\ ~InSection(p) /\ ~InSection(p)'
    BY <2>1, <2>3 DEF node, IInv, ProcInv, LockInv, CloexecInv, ApprovedInv, FileInv,
       VerifiedInv, Approved, Verified, InSection
  <2> QED BY <2>1, <2>2, <2>4 DEF IInv, HooksBalanced, node
<1> QED BY <1>1, <1>2, <1>3, <1>4 DEF MainStep

\* Starting, being killed, sysupgrade and restarts keep the invariant.
LEMMA NodeStepInv ==
  ASSUME IInv,
         \/ Restart
         \/ \E p \in Proc : Start(p) \/ Kill(p) \/ Sysupgrade(p)
  PROVE  (\A q \in Proc : ProcInv(q)') /\ HooksBalanced'
<1>1. ASSUME End(Proc), ~prepared', ~orphaned'
      PROVE  (\A q \in Proc : ProcInv(q)') /\ HooksBalanced'
  <2>1. \A q \in Proc : pc'[q] = "idle" /\ lock' # q
    BY <1>1, ConstantsAssumption DEF End, IInv, TypeOK
  <2>2. \A q \in Proc : ProcInv(q)' /\ ~InSection(q)'
    BY <2>1 DEF ProcInv, LockInv, CloexecInv, ApprovedInv, VersionInv, FileInv,
       VerifiedInv, Approved, Verified, InSection
  <2> QED BY <1>1, <2>2 DEF HooksBalanced
<1>2. CASE Restart
  BY <1>1, <1>2 DEF Restart
<1>3. ASSUME NEW p \in Proc, SysupgradeDone(p)
      PROVE  (\A q \in Proc : ProcInv(q)') /\ HooksBalanced'
  BY <1>1, <1>3 DEF SysupgradeDone
<1>4. ASSUME NEW p \in Proc, SysupgradeFails(p)
      PROVE  (\A q \in Proc : ProcInv(q)') /\ HooksBalanced'
  <2>1. prepared
    BY <1>4 DEF SysupgradeFails, IInv, HooksBalanced, InSection
  <2> QED BY <1>4, <2>1, EndKeeps DEF SysupgradeFails
<1>5. ASSUME NEW p \in Proc, Kill(p)
      PROVE  (\A q \in Proc : ProcInv(q)') /\ HooksBalanced'
  <2>1. CASE pc[p] = "lock"
    <3>1. orphaned' = orphaned
      BY <1>5, <2>1 DEF Kill, InSection, IInv, TypeOK
    <3> QED BY <1>5, <2>1, <3>1, EndBeforeLock DEF Kill
  <2>2. CASE pc[p] # "lock"
    <3>1. \A q \in Proc \ {p} : ~InSection(q)
      BY <1>5, <2>2 DEF Kill, IInv, ProcInv, LockInv, InSection
    <3>2. prepared' <=> orphaned'
      BY <1>5, <3>1 DEF Kill, IInv, HooksBalanced
    <3> QED BY <1>5, <2>2, <3>2, EndKeeps DEF Kill
  <2> QED BY <2>1, <2>2
<1>6. ASSUME NEW p \in Proc, Start(p)
      PROVE  (\A q \in Proc : ProcInv(q)') /\ HooksBalanced'
  <2>1. /\ pc[p] = "idle" /\ pc'[p] = "lock"
        /\ s'[p].old_version \in {installed, Null}
        /\ \A q \in Proc \ {p} : pc'[q] = pc[q] /\ s'[q] = s[q]
        /\ UNCHANGED <<manifest, image, cloexec>> /\ UNCHANGED node
    BY <1>6 DEF Start, Goto, IInv, TypeOK
  <2>2. \A q \in Proc \ {p} : ProcInv(q)' /\ (InSection(q)' <=> InSection(q))
    BY <2>1, Frame DEF node
  <2>3. ProcInv(p)' /\ ~InSection(p) /\ ~InSection(p)'
    BY <2>1 DEF node, IInv, ProcInv, LockInv, CloexecInv, ApprovedInv, VersionInv,
       FileInv, VerifiedInv, Approved, Verified, InSection
  <2> QED BY <2>1, <2>2, <2>3 DEF IInv, HooksBalanced, node
<1> QED BY <1>2, <1>3, <1>4, <1>5, <1>6 DEF Sysupgrade

\* autoupdate() runs between taking the lock and sysupgrade.
LEMMA AutoupdateStepSection ==
  ASSUME NEW p \in Proc, AutoupdateStep(p)
  PROVE  pc[p] \notin {"idle", "lock", "sysupgrade"}
BY DEF AutoupdateStep, FetchManifest, ManifestError, RejectManifest,
   NoNewFirmware, NotDue, UptimeUnknown, Proceed, BeginDownload, OpenFails,
   RecvChunk, WriteFails, Receiving, ImageError, ImageDone, ChecksumBad,
   NoAction, ChecksumGood, FailAfterDownload, BeginUpgrade, Exec, ExecFails, Goto

\* The process is past the lock in every step of autoupdate(), so the others
\* are not, and such a step leaves them alone.
LEMMA AutoupdateStepOthers ==
  ASSUME IInv, NEW p \in Proc, AutoupdateStep(p)
  PROVE  /\ pc[p] \notin {"idle", "lock"}
         /\ lock = p
         /\ installed' = installed
         /\ \A q \in Proc \ {p} : pc'[q] = pc[q] /\ s'[q] = s[q] /\ ~InSection(q)
<1>1. pc[p] \notin {"idle", "lock"}
  BY AutoupdateStepSection
<1>2. lock = p /\ \A q \in Proc \ {p} : ~InSection(q)
  BY <1>1 DEF IInv, ProcInv, LockInv, InSection
<1>3. installed' = installed
  BY DEF AutoupdateStep, FetchManifest, ManifestError, RejectManifest,
     NoNewFirmware, NotDue, UptimeUnknown, Proceed, BeginDownload, OpenFails,
     RecvChunk, WriteFails, ImageError, ImageDone, ChecksumBad,
     NoAction, ChecksumGood, FailAfterDownload, BeginUpgrade, Exec, ExecFails, node
<1>4. CASE ReturnFalse(p) \/ End({p})
  <2>1. pc \in [Proc -> ProcState] /\ s \in [Proc -> Settings]
    BY DEF IInv, TypeOK
  <2> QED BY <1>1, <1>2, <1>3, <1>4, <2>1 DEF ReturnFalse, End
<1>5. CASE \/ FetchManifest(p) \/ Proceed(p) \/ BeginDownload(p) \/ OpenFails(p)
           \/ RecvChunk(p) \/ WriteFails(p) \/ ImageError(p) \/ ImageDone(p)
           \/ ChecksumBad(p) \/ ChecksumGood(p)
           \/ BeginUpgrade(p) \/ Exec(p) \/ ExecFails(p)
  <2>1. s' = s /\ \A q \in Proc \ {p} : pc'[q] = pc[q]
    BY <1>5 DEF FetchManifest, Proceed, BeginDownload, OpenFails, RecvChunk,
       WriteFails, ImageError, ImageDone, ChecksumBad, ChecksumGood,
       BeginUpgrade, Exec, ExecFails, Goto, local, IInv, TypeOK
  <2> QED BY <1>1, <1>2, <1>3, <2>1
<1> QED BY <1>4, <1>5 DEF AutoupdateStep, ManifestError, RejectManifest,
           NoNewFirmware, NotDue, UptimeUnknown, NoAction, FailAfterDownload,
           ReturnTrue

\* The steps of autoupdate() in which it returns or exits.
LEMMA ReturnInv ==
  ASSUME IInv, NEW p \in Proc,
         \/ ManifestError(p) \/ RejectManifest(p)
         \/ NoNewFirmware(p) \/ NotDue(p) \/ UptimeUnknown(p)
         \/ NoAction(p) \/ FailAfterDownload(p)
  PROVE  (\A q \in Proc : ProcInv(q)') /\ HooksBalanced'
<1>1. /\ pc[p] \notin {"idle", "lock"} /\ lock = p
      /\ installed' = installed
      /\ \A q \in Proc \ {p} : ~InSection(q)
  BY AutoupdateStepOthers DEF AutoupdateStep
<1>2. pc[p] \in {"manifest", "check"} => (prepared <=> orphaned)
  BY <1>1 DEF IInv, HooksBalanced, InSection
<1>3. CASE ManifestError(p) \/ RejectManifest(p)
  BY <1>1, <1>2, <1>3, ReturnFalseKeeps DEF ManifestError, RejectManifest, node
<1>4. CASE NoNewFirmware(p) \/ NotDue(p) \/ UptimeUnknown(p)
  BY <1>1, <1>2, <1>4, EndKeeps DEF NoNewFirmware, NotDue, UptimeUnknown, ReturnTrue
<1>5. CASE NoAction(p)
  BY <1>1, <1>5, EndKeeps DEF NoAction, ReturnTrue
<1>6. CASE FailAfterDownload(p)
  BY <1>1, <1>6, ReturnFalseKeeps DEF FailAfterDownload
<1> QED BY <1>3, <1>4, <1>5, <1>6

\* A chunk that is written, hashed, both or neither keeps FileInv.
LEMMA TransferFileInv ==
  ASSUME IInv, NEW p \in Proc, RecvChunk(p) \/ WriteFails(p)
  PROVE  FileInv(p)'
<1> DEFINE img == manifest[p].image
           t   == image[p]
<1>1. /\ pc[p] = "image" /\ pc' = pc /\ manifest' = manifest
      /\ t.downloaded < ImageSize[img]
  BY DEF RecvChunk, WriteFails, Receiving
<1>2. /\ t \in Transfer
      /\ img \in Images /\ ImageSize[img] \in 1..MaxSize
  BY <1>1, ConstantsAssumption DEF IInv, TypeOK, HasManifest, Manifest
<1>3. /\ t.downloaded \in Nat /\ t.pos \in Nat /\ t.nhashed \in Nat
      /\ t.hashed \in SUBSET Images
  BY <1>2 DEF Transfer
<1>4. /\ t.nhashed <= t.downloaded /\ t.pos <= t.downloaded
      /\ t.nhashed = t.downloaded =>
           t.pos = t.downloaded /\ \A i \in 1..t.pos : firmware[i] \in t.hashed
  BY <1>1 DEF IInv, ProcInv, FileInv
<1>5. CASE RecvChunk(p)
  <2>1. PICK c \in Images :
          /\ image' = [image EXCEPT ![p] =
                         [downloaded |-> @.downloaded + 1, pos |-> @.pos + 1,
                          hashed |-> @.hashed \cup {c}, nhashed |-> @.nhashed + 1]]
          /\ firmware' = [firmware EXCEPT ![t.pos + 1] =
                            IF t.nhashed = t.downloaded THEN c ELSE Torn]
    BY <1>5 DEF RecvChunk
  <2>2. /\ image'[p].downloaded = t.downloaded + 1
        /\ image'[p].pos = t.pos + 1
        /\ image'[p].hashed = t.hashed \cup {c}
        /\ image'[p].nhashed = t.nhashed + 1
    BY <2>1 DEF IInv, TypeOK
  <2>3. ASSUME t.nhashed = t.downloaded
        PROVE  \A i \in 1..(t.pos + 1) : firmware'[i] \in t.hashed \cup {c}
    <3>1. firmware \in [Position -> Images \cup {Empty, Torn}]
      BY DEF IInv, TypeOK
    <3>2. t.pos + 1 \in Position /\ MaxSize \in Nat
      BY <1>1, <1>2, <1>3, <1>4, ConstantsAssumption, SMTT(30)
    <3>3. firmware' = [firmware EXCEPT ![t.pos + 1] = c]
      BY <2>1, <2>3
    <3> HIDE DEF t
    <3>4. TAKE i \in 1..(t.pos + 1)
    <3>5. CASE i = t.pos + 1
      BY <3>1, <3>2, <3>3, <3>5
    <3>6. CASE i # t.pos + 1
      <4>1. i \in 1..t.pos
        BY <3>6, <1>3
      <4>2. firmware'[i] = firmware[i]
        BY <3>1, <3>2, <3>3, <3>6, <4>1, <1>3
      <4> QED BY <4>1, <4>2, <1>4, <2>3
    <3> QED BY <3>5, <3>6
  <2> HIDE DEF t, img
  <2>4. /\ image'[p].nhashed <= image'[p].downloaded
        /\ image'[p].pos <= image'[p].downloaded
        /\ image'[p].downloaded <= ImageSize[img]
        /\ image'[p].nhashed = image'[p].downloaded =>
             /\ image'[p].pos = image'[p].downloaded
             /\ \A i \in 1..image'[p].pos : firmware'[i] \in image'[p].hashed
    BY <1>1, <1>2, <1>3, <1>4, <2>2, <2>3
  <2> QED BY <1>1, <2>4 DEF FileInv, img
<1>6. CASE WriteFails(p)
  <2>1. /\ image'[p].downloaded = t.downloaded + 1
        /\ image'[p].pos \in {t.pos, t.pos + 1}
        /\ image'[p].nhashed = t.nhashed
    BY <1>6 DEF WriteFails, IInv, TypeOK, Transfer
  <2> HIDE DEF t, img
  <2>2. /\ image'[p].nhashed < image'[p].downloaded
        /\ image'[p].pos <= image'[p].downloaded
        /\ image'[p].downloaded <= ImageSize[img]
    BY <1>1, <1>2, <1>3, <1>4, <2>1
  <2>3. image'[p].nhashed # image'[p].downloaded
    BY <2>2, <2>1, <1>3
  <2>4. image'[p].nhashed <= image'[p].downloaded
    BY <2>2, <2>1, <1>3
  <2> QED BY <1>1, <2>2, <2>3, <2>4 DEF FileInv, img
<1> QED BY <1>5, <1>6

\* The other steps of autoupdate().
LEMMA ProgressInv ==
  ASSUME IInv, NEW p \in Proc,
         \/ FetchManifest(p) \/ Proceed(p) \/ BeginDownload(p) \/ OpenFails(p)
         \/ RecvChunk(p) \/ WriteFails(p) \/ ImageError(p) \/ ImageDone(p)
         \/ ChecksumBad(p) \/ ChecksumGood(p)
         \/ BeginUpgrade(p) \/ Exec(p) \/ ExecFails(p)
  PROVE  (\A q \in Proc : ProcInv(q)') /\ HooksBalanced'
<1>1. /\ pc[p] \notin {"idle", "lock"} /\ lock = p /\ installed' = installed
      /\ \A q \in Proc \ {p} : pc'[q] = pc[q] /\ s'[q] = s[q] /\ ~InSection(q)
  BY AutoupdateStepOthers DEF AutoupdateStep
<1>2. /\ s' = s /\ lock' = lock /\ orphaned' = orphaned
      /\ pc'[p] \notin {"idle", "lock"}
  <2>1. CASE Exec(p)
    BY <1>1, <2>1 DEF Exec, Goto, local, IInv, ProcInv, CloexecInv, TypeOK
  <2>2. CASE ~Exec(p)
    BY <1>1, <2>2 DEF FetchManifest, Proceed, BeginDownload, OpenFails, RecvChunk,
       WriteFails, ImageError, ImageDone, ChecksumBad, ChecksumGood, BeginUpgrade,
       ExecFails, Goto, local, node, IInv, TypeOK
  <2> QED BY <2>1, <2>2
<1>3. \A q \in Proc \ {p} : ProcInv(q)' /\ ~InSection(q)'
  BY <1>1, <1>2, OthersKeep
<1>4. LockInv(p)' /\ VersionInv(p)'
  BY <1>1, <1>2 DEF LockInv, VersionInv, IInv, ProcInv
<1>5. HooksBalanced'
  <2>1. CASE FetchManifest(p) \/ Proceed(p)
    <3>1. prepared' = prepared /\ ~InSection(p) /\ ~InSection(p)'
      BY <2>1 DEF FetchManifest, Proceed, Goto, node, InSection, IInv, TypeOK
    <3> QED BY <1>1, <1>2, <1>3, <3>1 DEF IInv, HooksBalanced
  <2>2. CASE BeginDownload(p) \/ OpenFails(p)
    <3>1. prepared' /\ InSection(p)'
      BY <2>2 DEF BeginDownload, OpenFails, Goto, InSection, IInv, TypeOK
    <3> QED BY <3>1 DEF HooksBalanced
  <2>3. CASE \/ RecvChunk(p) \/ WriteFails(p) \/ ImageError(p) \/ ImageDone(p)
             \/ ChecksumBad(p) \/ ChecksumGood(p)
             \/ BeginUpgrade(p) \/ Exec(p) \/ ExecFails(p)
    <3>1. prepared' = prepared /\ InSection(p) /\ InSection(p)'
      BY <2>3 DEF RecvChunk, WriteFails, Receiving, ImageError, ImageDone, ChecksumBad,
         ChecksumGood, BeginUpgrade, Exec, ExecFails, Goto, node, InSection, IInv, TypeOK
    <3> QED BY <3>1 DEF IInv, HooksBalanced
  <2> QED BY <2>1, <2>2, <2>3
<1>6. CloexecInv(p)' /\ ApprovedInv(p)' /\ FileInv(p)' /\ VerifiedInv(p)'
  <2>0. /\ pc \in [Proc -> ProcState] /\ ProcInv(p)
        /\ cloexec \in [Proc -> BOOLEAN]
    BY DEF IInv, TypeOK
  <2>1. CASE FetchManifest(p) \/ OpenFails(p) \/ ImageError(p) \/ ChecksumBad(p) \/ ExecFails(p)
    <3>1. pc'[p] \in {"check", "abort"}
      BY <2>0, <2>1 DEF FetchManifest, OpenFails, ImageError, ChecksumBad, ExecFails, Goto
    <3> QED BY <3>1 DEF CloexecInv, ApprovedInv, FileInv, VerifiedInv, Approved, Verified
  <2>2. CASE Proceed(p)
    <3>1. /\ pc'[p] = "download" /\ manifest' = manifest
          /\ Trusted(manifest[p]) /\ Wanted(p)
      BY <2>0, <2>2 DEF Proceed, Goto, local
    <3> QED BY <1>2, <3>1 DEF CloexecInv, ApprovedInv, FileInv, VerifiedInv,
               Approved, Verified, Wanted
  <2>3. CASE BeginDownload(p)
    <3>1. /\ pc[p] = "download" /\ pc'[p] = "image" /\ manifest' = manifest
          /\ image'[p] = NewTransfer
      BY <2>0, <2>3 DEF BeginDownload, Goto, IInv, TypeOK
    <3>2. ApprovedInv(p)'
      BY <1>2, <2>0, <3>1 DEF ProcInv, ApprovedInv, Approved, Wanted
    <3>3. ImageSize[manifest[p].image] \in 1..MaxSize
      BY <3>1, ConstantsAssumption DEF IInv, TypeOK, HasManifest, Manifest
    <3>4. FileInv(p)'
      BY <3>1, <3>3, ConstantsAssumption DEF FileInv, NewTransfer
    <3> QED BY <3>1, <3>2, <3>4 DEF CloexecInv, VerifiedInv, Verified
  <2>4. CASE RecvChunk(p) \/ WriteFails(p)
    <3>1. /\ pc[p] = "image" /\ pc'[p] = "image" /\ manifest' = manifest
      BY <2>4 DEF RecvChunk, WriteFails, Receiving
    <3>2. FileInv(p)'
      BY <2>4, TransferFileInv
    <3> QED BY <1>2, <2>0, <3>1, <3>2 DEF ProcInv, CloexecInv, ApprovedInv,
               VerifiedInv, Approved, Verified, Wanted
  <2>5. CASE ImageDone(p) \/ ChecksumGood(p)
    <3>1. /\ UNCHANGED <<manifest, image, firmware>>
          /\ \/ /\ pc[p] = "image" /\ pc'[p] = "verify"
                /\ image[p].downloaded = ImageSize[manifest[p].image]
             \/ /\ pc[p] = "verify" /\ pc'[p] = "upgrade"
                /\ ChecksumOk(p) /\ ~s[p].no_action
      BY <2>0, <2>5 DEF ImageDone, ChecksumGood, Goto, local, node
    <3> QED BY <1>2, <2>0, <3>1 DEF ProcInv, CloexecInv, ApprovedInv, FileInv,
               VerifiedInv, Approved, Verified, Wanted, ChecksumOk
  <2>6. CASE BeginUpgrade(p) \/ Exec(p)
    <3>1. /\ UNCHANGED <<manifest, image, firmware>>
          /\ pc[p] \in {"upgrade", "exec"} /\ pc'[p] \in {"exec", "sysupgrade"}
          /\ pc'[p] = "exec" => ~cloexec'[p]
      BY <2>0, <2>6 DEF BeginUpgrade, Exec, Goto, local, node
    <3> QED BY <1>2, <2>0, <3>1 DEF ProcInv, CloexecInv, ApprovedInv, FileInv,
               VerifiedInv, Approved, Verified, Wanted, ChecksumOk
  <2> QED BY <2>1, <2>2, <2>3, <2>4, <2>5, <2>6
<1>7. ProcInv(p)'
  BY <1>4, <1>6 DEF ProcInv
<1> QED BY <1>3, <1>5, <1>7

\* IInv is inductive.
LEMMA IInvInductive == ASSUME IInv, [Next]_vars PROVE IInv'
<1>1. TypeOK'
  BY NextType DEF IInv
<1>2. (\A q \in Proc : ProcInv(q)') /\ HooksBalanced'
  <2>1. CASE UNCHANGED vars
    BY <2>1, Frame DEF vars, IInv, HooksBalanced
  <2>2. ASSUME NEW p \in Proc, AutoupdateStep(p)
        PROVE  (\A q \in Proc : ProcInv(q)') /\ HooksBalanced'
    BY <2>2, ReturnInv, ProgressInv DEF AutoupdateStep
  <2>3. CASE Next
    BY <2>2, <2>3, MainStepInv, NodeStepInv DEF Next, Step
  <2> QED BY <2>1, <2>3
<1> QED BY <1>1, <1>2 DEF IInv

\* The inductive invariant holds in every state of every behaviour.
LEMMA InvariantHolds == Spec => []IInv
<1>1. Init => IInv
  <2> SUFFICES ASSUME Init PROVE IInv
    OBVIOUS
  <2>1. TypeOK
    BY InitType
  <2>2. \A p \in Proc : ProcInv(p) /\ ~InSection(p)
    BY ConstantsAssumption DEF Init, ProcInv, LockInv, CloexecInv, ApprovedInv,
       VersionInv, FileInv, VerifiedInv, Approved, Verified, InSection
  <2> QED BY <2>1, <2>2 DEF Init, IInv, HooksBalanced
<1> QED BY <1>1, IInvInductive, PTL DEF Spec

-------------------------------------------------------------------------------
(* Safety                                                                  *)

\* Two instances are never past lock_autoupdater() at once, sysupgrade included.
THEOREM MutualExclusionHolds == Spec => []MutualExclusion
<1>1. IInv => MutualExclusion
  BY DEF IInv, ProcInv, LockInv, MutualExclusion
<1> QED BY <1>1, InvariantHolds, PTL

\* What the checksum says of the stream holds of the file sysupgrade is given.
LEMMA FileVerified == IInv => FlashedPrefixVerified
<1> SUFFICES ASSUME IInv, NEW p \in Proc, pc[p] \in Verified,
                    NEW i \in 1..ImageSize[manifest[p].image]
             PROVE  firmware[i] = manifest[p].image
  BY DEF FlashedPrefixVerified, Verified
<1>1. /\ image[p].downloaded = ImageSize[manifest[p].image]
      /\ image[p].nhashed = ImageSize[manifest[p].image]
      /\ image[p].hashed = {manifest[p].image}
  BY DEF IInv, ProcInv, VerifiedInv, ChecksumOk
<1>2. firmware[i] \in image[p].hashed
  BY <1>1 DEF IInv, ProcInv, FileInv
<1> QED BY <1>1, <1>2

\* The first imagesize bytes of the file sysupgrade is called with are the image
\* whose hash was signed.
THEOREM FlashedPrefixVerifiedHolds == Spec => []FlashedPrefixVerified
BY FileVerified, InvariantHolds, PTL

\* sysupgrade runs only for what a trusted manifest names, never under -n, and
\* never for an older version unless that was asked for.
THEOREM OnlyAuthorisedFlashedHolds == Spec => []OnlyAuthorisedFlashed
<1>1. IInv => OnlyAuthorisedFlashed
  <2> SUFFICES ASSUME IInv, NEW p \in Proc, Flashing(p)
               PROVE  /\ Trusted(manifest[p])
                      /\ ~s[p].no_action
                      /\ \/ Version[manifest[p].image] > installed
                         \/ s[p].force_version
                         \/ s[p].old_version = Null
    BY DEF OnlyAuthorisedFlashed
  <2>1. Trusted(manifest[p]) /\ Wanted(p) /\ ~s[p].no_action
    BY DEF Flashing, IInv, ProcInv, ApprovedInv, VerifiedInv, Approved, Verified
  <2>2. s[p].old_version \in {installed, Null}
    BY DEF Flashing, IInv, ProcInv, VersionInv
  <2> QED BY <2>1, <2>2 DEF Wanted, NewerThan
<1> QED BY <1>1, InvariantHolds, PTL

\* The effects of download.d are in place exactly while somebody is there to
\* undo them, or somebody died who should have.
THEOREM HooksBalancedHolds == Spec => []HooksBalanced
<1>1. IInv => HooksBalanced
  BY DEF IInv
<1> QED BY <1>1, InvariantHolds, PTL

\* Nobody touches the image file while sysupgrade reads it.
THEOREM FileStableHolds == Spec => FileStableDuringSysupgrade
<1>1. ASSUME IInv, [Next]_vars, NEW p \in Proc, Flashing(p), Flashing(p)'
      PROVE  firmware' = firmware
  <2>1. \A q \in Proc : pc[q] \notin {"idle", "lock", "sysupgrade"} => FALSE
    BY <1>1 DEF Flashing, IInv, ProcInv, LockInv
  <2>2. CASE UNCHANGED vars
    BY <2>2 DEF vars
  <2>3. CASE Restart
    BY <1>1, <2>3 DEF Restart
  <2>4. ASSUME NEW q \in Proc, AutoupdateStep(q) PROVE FALSE
    BY <1>1, <2>1, <2>4, AutoupdateStepSection
  <2>5. ASSUME NEW q \in Proc, Start(q) \/ MainStep(q) \/ Kill(q) \/ SysupgradeFails(q)
        PROVE  firmware' = firmware
    BY <2>5 DEF Start, MainStep, Kill, SysupgradeFails, LockOk, LockFails, PickMirror,
       Discover, DiscoverFails, SkipNeighbour, TryNeighbour, NoSourceLeft, node
  <2>6. ASSUME NEW q \in Proc, SysupgradeDone(q) PROVE FALSE
    BY <1>1, <2>6 DEF SysupgradeDone, End, Flashing
  <2> QED BY <1>1, <2>2, <2>3, <2>4, <2>5, <2>6 DEF Next, Step, Sysupgrade
<1>2. IInv /\ [Next]_vars =>
        [\A p \in Proc : Flashing(p) /\ Flashing(p)' => firmware' = firmware]_vars
  BY <1>1
<1> QED BY <1>2, InvariantHolds, PTL DEF Spec, FileStableDuringSysupgrade

\* The time of a lock file that is there changes only with a trusted manifest in hand.
THEOREM TouchedOnlyAfterTrustedManifestHolds == Spec => TouchedOnlyAfterTrustedManifest
<1>1. ASSUME IInv, [Next]_vars, mtime # Null, mtime' \notin {mtime, Null}
      PROVE  \E p \in Proc : MayReportSuccess(p)
  <2>1. PICK p \in Proc : NoNewFirmware(p) \/ NotDue(p) \/ NoAction(p)
    BY <1>1 DEF vars, Next, Step, MainStep, AutoupdateStep, Sysupgrade,
       Start, Kill, Restart, SysupgradeDone, SysupgradeFails, LockOk, LockFails,
       Opened, PickMirror, Discover, DiscoverFails, SkipNeighbour, TryNeighbour, NoSourceLeft,
       FetchManifest, ManifestError, RejectManifest, UptimeUnknown, Proceed,
       BeginDownload, OpenFails, RecvChunk, WriteFails, ImageError, ImageDone,
       ChecksumBad, ChecksumGood, FailAfterDownload, BeginUpgrade, Exec, ExecFails, node
  <2>2. lock = p
    BY <1>1, <2>1, AutoupdateStepOthers DEF AutoupdateStep
  <2>3. pc[p] \in {"check", "verify"}
    BY <2>1 DEF NoNewFirmware, NotDue, NoAction
  <2>4. manifest[p] # Null
    BY <1>1, <2>3, ConstantsAssumption DEF IInv, TypeOK, HasManifest
  <2>5. Trusted(manifest[p])
    BY <1>1, <2>1 DEF NoNewFirmware, NotDue, NoAction, IInv, ProcInv, ApprovedInv, Approved
  <2>6. Wanted(p) /\ s[p].force => s[p].no_action
    BY <2>1 DEF NoNewFirmware, NotDue, NoAction
  <2> QED BY <2>2, <2>4, <2>5, <2>6 DEF MayReportSuccess
<1>2. IInv /\ [Next]_vars =>
        [mtime # Null /\ mtime' \notin {mtime, Null}
         => \E p \in Proc : MayReportSuccess(p)]_vars
  BY <1>1
<1> QED BY <1>2, InvariantHolds, PTL DEF Spec, TouchedOnlyAfterTrustedManifest

-------------------------------------------------------------------------------
(* The abstract specification                                              *)

\* A process has the settings its command line and the version file gave it.
SettingsInv ==
  \A p \in Proc : pc[p] # "idle" =>
    /\ s[p].force_version => \E o \in Options : o.force_version
    /\ s[p].old_version = Null => MayLoseVersion

\* Every step keeps what the settings say.
LEMMA SettingsKept == ASSUME TypeOK, SettingsInv, [Next]_vars PROVE SettingsInv'
<1> SUFFICES ASSUME NEW q \in Proc, pc'[q] # "idle"
             PROVE  /\ s'[q].force_version => \E o \in Options : o.force_version
                    /\ s'[q].old_version = Null => MayLoseVersion
  BY DEF SettingsInv
<1>1. ASSUME pc[q] # "idle",
             /\ s'[q].force_version = s[q].force_version
             /\ s'[q].old_version = s[q].old_version
      PROVE  /\ s'[q].force_version => \E o \in Options : o.force_version
             /\ s'[q].old_version = Null => MayLoseVersion
  BY <1>1 DEF SettingsInv
<1>2. ASSUME NEW P \in SUBSET Proc, End(P)
      PROVE  pc[q] # "idle" /\ s'[q] = s[q]
  BY <1>2 DEF End
<1>3. ASSUME NEW p \in Proc, Start(p)
      PROVE  /\ s'[q].force_version => \E o \in Options : o.force_version
             /\ s'[q].old_version = Null => MayLoseVersion
  <2>1. CASE p = q
    <3>1. PICK o \in Options,
               old \in {installed} \cup (IF MayLoseVersion THEN {Null} ELSE {}) :
            s' = [s EXCEPT ![p] = [force |-> o.force, no_action |-> o.no_action,
                                   force_version |-> o.force_version,
                                   external |-> o.external,
                                   old_version |-> old, mirrors |-> Mirror]]
      BY <1>3 DEF Start
    <3>2. s'[q].force_version = o.force_version /\ s'[q].old_version = old
      BY <2>1, <3>1 DEF TypeOK
    <3>3. old = Null => MayLoseVersion
      BY <3>1, ConstantsAssumption DEF TypeOK
    <3> QED BY <3>2, <3>3
  <2>2. CASE p # q
    BY <1>1, <1>3, <2>2 DEF Start, Goto, TypeOK
  <2> QED BY <2>1, <2>2
<1>4. ASSUME NEW p \in Proc, ReturnFalse(p), pc[p] # "idle"
      PROVE  /\ pc[q] # "idle"
             /\ s'[q].force_version = s[q].force_version
             /\ s'[q].old_version = s[q].old_version
  <2>1. s' = [s EXCEPT ![p].mirrors = @ \ {source[p]}]
    BY <1>4 DEF ReturnFalse
  <2>2. s \in [Proc -> Settings]
    BY DEF TypeOK
  <2>3. /\ s'[q].force_version = s[q].force_version
        /\ s'[q].old_version = s[q].old_version
    BY <2>1, <2>2 DEF Settings
  <2> QED BY <1>4, <2>3 DEF ReturnFalse, TypeOK
<1>5. ASSUME NEW p \in Proc, MainStep(p)
      PROVE  pc[q] # "idle" /\ s'[q] = s[q]
  BY <1>2, <1>5 DEF MainStep, LockOk, LockFails, PickMirror, Discover,
     DiscoverFails, SkipNeighbour, TryNeighbour, NoSourceLeft, Goto, local, TypeOK
<1>6. ASSUME NEW p \in Proc, AutoupdateStep(p)
      PROVE  /\ pc[q] # "idle"
             /\ s'[q].force_version = s[q].force_version
             /\ s'[q].old_version = s[q].old_version
  <2>1. pc[p] # "idle"
    BY <1>6, AutoupdateStepSection
  <2>2. CASE ReturnFalse(p)
    BY <1>4, <2>1, <2>2
  <2>3. CASE End({p})
    BY <1>2, <2>3
  <2>4. CASE \/ FetchManifest(p) \/ Proceed(p) \/ BeginDownload(p) \/ OpenFails(p)
             \/ RecvChunk(p) \/ WriteFails(p) \/ ImageError(p) \/ ImageDone(p)
             \/ ChecksumBad(p) \/ ChecksumGood(p)
             \/ BeginUpgrade(p) \/ Exec(p) \/ ExecFails(p)
    BY <2>1, <2>4 DEF FetchManifest, Proceed, BeginDownload, OpenFails, RecvChunk,
       WriteFails, ImageError, ImageDone, ChecksumBad, ChecksumGood,
       BeginUpgrade, Exec, ExecFails, Goto, local, TypeOK
  <2> QED BY <1>6, <2>2, <2>3, <2>4 DEF AutoupdateStep, ManifestError, RejectManifest,
             NoNewFirmware, NotDue, UptimeUnknown, NoAction, FailAfterDownload,
             ReturnTrue
<1>7. ASSUME NEW p \in Proc, Kill(p) \/ Sysupgrade(p)
      PROVE  pc[q] # "idle" /\ s'[q] = s[q]
  BY <1>2, <1>7 DEF Kill, Sysupgrade, SysupgradeDone, SysupgradeFails
<1>8. CASE Restart
  BY <1>1, <1>2, <1>8 DEF Restart
<1>9. CASE UNCHANGED vars
  BY <1>1, <1>9 DEF vars
<1> QED BY <1>1, <1>3, <1>5, <1>6, <1>7, <1>8, <1>9 DEF Next, Step

\* The settings of a process are those of a command line that may be given.
LEMMA SettingsHold == Spec => []SettingsInv
<1>1. Init => SettingsInv
  BY DEF Init, SettingsInv
<1> QED BY <1>1, SettingsKept, TypeCorrect, PTL DEF Spec

\* The abstract variable, with one process flashing and with none.
LEMMA FlashedOne ==
  ASSUME NEW p \in Proc, Flashing(p), \A q \in Proc : Flashing(q) => q = p
  PROVE  Flashed = manifest[p].image
<1>1. FlashedImages = {manifest[p].image}
  BY DEF FlashedImages
<1> QED BY <1>1 DEF Flashed

\* Without such a process nothing is being flashed.
LEMMA FlashedNone ==
  ASSUME \A q \in Proc : ~Flashing(q)
  PROVE  Flashed = Null
BY DEF Flashed, FlashedImages

\* The same two facts for the state after a step.
LEMMA FlashedOneNext ==
  ASSUME NEW p \in Proc, Flashing(p)', \A q \in Proc : Flashing(q)' => q = p
  PROVE  Flashed' = manifest'[p].image
<1>1. FlashedImages' = {manifest'[p].image}
  BY DEF FlashedImages
<1> QED BY <1>1 DEF Flashed

\* The same after a step.
LEMMA FlashedNoneNext ==
  ASSUME \A q \in Proc : ~Flashing(q)'
  PROVE  Flashed' = Null
BY DEF Flashed, FlashedImages

\* Only the exec starts flashing and only sysupgrade ends it; all other steps
\* leave the abstract state alone.
LEMMA StutterStep ==
  ASSUME IInv, IInv',
         \A p \in Proc : Flashing(p)' <=> Flashing(p),
         \A p \in Proc : Flashing(p) => manifest'[p] = manifest[p],
         installed' = installed
  PROVE  UNCHANGED <<Flashed, installed>>
<1>1. CASE \E p \in Proc : Flashing(p)
  <2>1. PICK p \in Proc : Flashing(p)
    BY <1>1
  <2>2. \A q \in Proc : Flashing(q) => q = p
    BY <2>1 DEF Flashing, IInv, ProcInv, LockInv
  <2>3. Flashed = manifest[p].image
    BY <2>1, <2>2, FlashedOne
  <2>4. Flashed' = manifest'[p].image
    BY <2>1, <2>2, FlashedOneNext
  <2> QED BY <2>1, <2>3, <2>4
<1>2. CASE \A p \in Proc : ~Flashing(p)
  BY <1>2, FlashedNone, FlashedNoneNext
<1> QED BY <1>1, <1>2

\* The exec is the abstract specification's Begin.
LEMMA ExecBegins ==
  ASSUME IInv, SettingsInv, NEW p \in Proc, Exec(p)
  PROVE  \E img \in Images : Policy!Begin(img)
<1> DEFINE img == manifest[p].image
<1>1. /\ pc[p] = "exec" /\ pc'[p] = "sysupgrade"
      /\ \A q \in Proc \ {p} : pc'[q] = pc[q]
      /\ manifest' = manifest /\ installed' = installed
  BY DEF Exec, Goto, local, IInv, TypeOK
<1>2. \A q \in Proc : ~Flashing(q) /\ (Flashing(q)' <=> q = p)
  BY <1>1 DEF Flashing, IInv, ProcInv, LockInv
<1>3. Flashed = Null /\ Flashed' = img
  BY <1>1, <1>2, FlashedNone, FlashedOneNext
<1>4. manifest[p] \in Manifests /\ img \in Images
  BY <1>1, ConstantsAssumption DEF IInv, TypeOK, HasManifest, Manifest
<1>5. Trusted(manifest[p]) /\ Wanted(p)
  BY <1>1 DEF IInv, ProcInv, ApprovedInv, Approved
<1>6. \/ MayLoseVersion
      \/ \E o \in Options : o.force_version
      \/ Version[img] > installed
  <2>1. s[p].old_version \in {installed, Null}
    BY <1>1 DEF IInv, ProcInv, VersionInv
  <2> QED BY <1>1, <1>5, <2>1 DEF SettingsInv, Wanted, NewerThan
<1>7. img \in {m.image : m \in {n \in Manifests : Trusted(n)}}
  BY <1>4, <1>5
<1> HIDE DEF img
<1> QED BY <1>1, <1>3, <1>4, <1>6, <1>7 DEF Policy!Begin

\* The end of sysupgrade is Boot or GiveUp.
LEMMA SysupgradeEnds ==
  ASSUME IInv, NEW p \in Proc, Sysupgrade(p)
  PROVE  Policy!Boot \/ Policy!GiveUp
<1>1. pc[p] = "sysupgrade"
  BY DEF Sysupgrade, SysupgradeDone, SysupgradeFails
<1>2. \A q \in Proc : Flashing(q) <=> q = p
  BY <1>1 DEF Flashing, IInv, ProcInv, LockInv
<1>3. Flashed = manifest[p].image
  BY <1>2, FlashedOne
<1>4. /\ manifest[p].image \in Images
      /\ ImageSize[manifest[p].image] \in 1..MaxSize
      /\ MaxSize \in Nat
  BY <1>1, ConstantsAssumption DEF IInv, TypeOK, HasManifest, Manifest
<1>5. Flashed # Null
  BY <1>3, <1>4, ConstantsAssumption
<1>6. \A q \in Proc : ~Flashing(q)'
  <2>1. CASE End(Proc)
    BY <2>1 DEF End, Flashing
  <2>2. CASE End({p})
    BY <1>2, <2>2 DEF End, Flashing
  <2> QED BY <2>1, <2>2 DEF Sysupgrade, SysupgradeDone, SysupgradeFails
<1>7. Flashed' = Null
  BY <1>6, FlashedNoneNext
<1>8. CASE SysupgradeDone(p)
  <2>1. firmware[1] = manifest[p].image
    BY <1>1, <1>4, FileVerified DEF FlashedPrefixVerified
  <2>2. installed' = Version[Flashed]
    BY <1>3, <1>8, <2>1 DEF SysupgradeDone
  <2> QED BY <1>5, <1>7, <2>2 DEF Policy!Boot
<1>9. CASE SysupgradeFails(p)
  BY <1>5, <1>7, <1>9 DEF SysupgradeFails, Policy!GiveUp
<1> QED BY <1>8, <1>9 DEF Sysupgrade

\* A step of autoupdate() other than the exec neither begins nor ends flashing.
LEMMA AutoupdateStutters ==
  ASSUME IInv, NEW p \in Proc, AutoupdateStep(p), ~Exec(p)
  PROVE  /\ \A q \in Proc : ~Flashing(q) /\ ~Flashing(q)'
         /\ installed' = installed
<1>1. /\ installed' = installed
      /\ \A q \in Proc \ {p} : ~Flashing(q) /\ ~Flashing(q)'
  BY AutoupdateStepOthers DEF Flashing, InSection
<1>2. ~Flashing(p)
  BY AutoupdateStepSection DEF Flashing
<1>3. ~Flashing(p)'
  <2>1. CASE ReturnFalse(p) \/ End({p})
    BY <2>1 DEF ReturnFalse, End, Flashing, IInv, TypeOK
  <2>2. CASE \/ FetchManifest(p) \/ Proceed(p) \/ BeginDownload(p) \/ OpenFails(p)
             \/ RecvChunk(p) \/ WriteFails(p) \/ ImageError(p) \/ ImageDone(p)
             \/ ChecksumBad(p) \/ ChecksumGood(p)
             \/ BeginUpgrade(p) \/ ExecFails(p)
    BY <2>2 DEF FetchManifest, Proceed, BeginDownload, OpenFails, RecvChunk,
       WriteFails, Receiving, ImageError, ImageDone, ChecksumBad, ChecksumGood,
       BeginUpgrade, ExecFails, Goto, Flashing, IInv, TypeOK
  <2> QED BY <2>1, <2>2 DEF AutoupdateStep, ManifestError, RejectManifest,
             NoNewFirmware, NotDue, UptimeUnknown, NoAction, FailAfterDownload,
             ReturnTrue
<1> QED BY <1>1, <1>2, <1>3

\* Every step of the program is a step of UpdatePolicy, or leaves its state alone.
LEMMA StepImplements ==
  ASSUME IInv, IInv', SettingsInv, [Next]_vars
  PROVE  [Policy!Next]_<<Flashed, installed>>
<1>1. CASE UNCHANGED vars
  BY <1>1, StutterStep DEF vars, Flashing
<1>2. CASE Restart
  <2>1. /\ \A q \in Proc : ~Flashing(q) /\ ~Flashing(q)'
        /\ installed' = installed
    BY <1>2 DEF Restart, End, Flashing
  <2> QED BY <2>1, StutterStep
<1>3. ASSUME NEW p \in Proc, Start(p) \/ MainStep(p) \/ Kill(p)
      PROVE  UNCHANGED <<Flashed, installed>>
  <2>1. CASE \/ Start(p) \/ LockOk(p) \/ PickMirror(p) \/ Discover(p)
             \/ SkipNeighbour(p) \/ TryNeighbour(p)
    <3>1. /\ manifest' = manifest /\ installed' = installed
          /\ pc[p] # "sysupgrade" /\ pc'[p] # "sysupgrade"
          /\ \A q \in Proc \ {p} : pc'[q] = pc[q]
      BY <2>1 DEF Start, LockOk, PickMirror, Discover, SkipNeighbour, TryNeighbour,
         Goto, local, node, IInv, TypeOK
    <3>2. \A q \in Proc : Flashing(q)' <=> Flashing(q)
      BY <3>1 DEF Flashing
    <3> QED BY <3>1, <3>2, StutterStep
  <2>2. CASE LockFails(p) \/ DiscoverFails(p) \/ NoSourceLeft(p) \/ Kill(p)
    <3>1. End({p}) /\ installed' = installed /\ pc[p] # "sysupgrade"
      BY <2>2 DEF LockFails, DiscoverFails, NoSourceLeft, Kill
    <3>2. /\ \A q \in Proc : Flashing(q)' <=> Flashing(q)
          /\ \A q \in Proc : Flashing(q) => manifest'[q] = manifest[q]
      BY <3>1 DEF End, Flashing, IInv, TypeOK
    <3> QED BY <3>1, <3>2, StutterStep
  <2> QED BY <1>3, <2>1, <2>2 DEF MainStep
<1>4. ASSUME NEW p \in Proc, AutoupdateStep(p)
      PROVE  [Policy!Next]_<<Flashed, installed>>
  <2>1. CASE Exec(p)
    BY <2>1, ExecBegins DEF Policy!Next
  <2>2. CASE ~Exec(p)
    BY <1>4, <2>2, AutoupdateStutters, StutterStep
  <2> QED BY <2>1, <2>2
<1>5. ASSUME NEW p \in Proc, Sysupgrade(p)
      PROVE  [Policy!Next]_<<Flashed, installed>>
  BY <1>5, SysupgradeEnds DEF Policy!Next
<1> QED BY <1>1, <1>2, <1>3, <1>4, <1>5 DEF Next, Step

\* The autoupdater implements UpdatePolicy.
THEOREM Implements == Spec => ImplementsPolicy
<1>1. Init => Policy!Init
  <2> SUFFICES ASSUME Init PROVE Policy!Init
    OBVIOUS
  <2>1. \A q \in Proc : ~Flashing(q)
    BY DEF Init, Flashing
  <2> QED BY <2>1, FlashedNone DEF Init, Policy!Init
<1>2. IInv /\ IInv' /\ SettingsInv /\ [Next]_vars => [Policy!Next]_(Policy!policyVars)
  BY StepImplements DEF Policy!policyVars
<1> QED BY <1>1, <1>2, InvariantHolds, SettingsHold, PTL
        DEF Spec, ImplementsPolicy, Policy!Spec
===============================================================================
