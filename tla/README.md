# A TLA+ model of the Gluon autoupdater

The repository holds the programs with which a Gluon node (a mesh router) keeps
its firmware up to date, and the libraries they use. This directory models them
in TLA+: modules translated from the C sources, configurations that TLC checks
on small instances, and theorems that TLAPS proves for every value of the
constants.

`PROJECT.json` lists the components, the runs, a mutant for each property (a
plausible bug that makes the property fail), the lines of code each definition
stands for, the hazards of the code and the theorems.

## 1. The system

| Component | Sources (under `src/`) | State it keeps | Operations | Module |
|---|---|---|---|---|
| Update run | `autoupdater/src/autoupdater.c`, `util.c` | options, mirrors left, manifest, transfer counters and hash; on the node: lock file and its time, `/tmp/firmware.bin`, what the hooks changed, the flash | load settings, lock, walk over mirrors, then over neighbours, fetch and check a manifest, draw, `download.d`, fetch and hash the image, `abort.d`, `upgrade.d`, exec of sysupgrade | `Autoupdater`, abstract: `UpdatePolicy` |
| HTTP transfer | `autoupdater/src/uclient.c` | `struct uclient_data`: expected and received length, redirects, error | redirects, status and content-length, reading, end of file, errors, signals | `HttpTransfer`, abstract: `Transfer` |
| librespondd | `librespondd/src/librespondd.c` | socket, clock, rest of the timeout | multicast a query, hand replies to a callback until the timeout has passed | `RespondRequest` |
| libmeshutil | `libmeshutil/src/libmeshutil.c` | list of interfaces | ask netifd, one interface per device, keep mesh protocols | `MeshNeighbours` |
| libmeshneighbour | `libmeshneighbour/src/libmeshneighbour.c` | list of neighbours, which point to interfaces | query each interface, drop repeated answers, free everything | `MeshNeighbours` |
| Manifest reader | `autoupdater/src/manifest.c`, `recv_manifest_cb` and the tests in `autoupdater.c` | a line buffer, the fields found so far, the lines hashed | cut lines, parse them, collect signatures, judge | `ManifestCheck` on `Manifest`, abstract: `ManifestText` |
| Settings | `settings.c`, `hexutil.c` | options and UCI settings | load, drop invalid keys | in part: `Start` of `Autoupdater`, `PublicKeys` of `Lists` |
| Versions | `version.c` | none | compare two versions | `Version` |
| Update probability | `get_probability` in `autoupdater.c`, `parse_rfc3339` in `manifest.c` | none | probability from date, priority, uptime | `Schedule` |
| autoupdater-proxy | `autoupdater-proxy/src/*` | lock; in each process the mirrors, the count of redirects, the buffer of stdio | a CGI program: fetches a file from the mirrors for a neighbour | `Proxy` with `QueryString` and `Lists`, abstract: `Delivery` |
| hooks, packaging | | | two-line scripts, build files | not modelled |

How they interact. `main()` loads the settings, takes a non-blocking `flock` and
then calls `autoupdate()` for one mirror after the other. When all have failed it
asks the mesh (libmeshneighbour, which calls libmeshutil for the interfaces and
librespondd once for each) and calls `autoupdate()` once for each neighbour with
a newer release, through that neighbour's autoupdater-proxy. `autoupdate()` calls
`get_url` twice, with callbacks that consume the data. The hooks are child
processes; sysupgrade *replaces* the process, which is why the lock's descriptor
loses its close-on-exec flag. Other instances (cron, a user, the fallback job)
meet this one only in the node's state: lock, `/tmp`, hooks' effects, flash.
The proxy is another program, run by the web server for each request of a
neighbour; its processes share a lock file of their own, and the configuration
of the mirrors with the autoupdater.

What is hard:

- *Several processes on one node*, and a lock that has to survive an exec.
- *Steps that fail half-way*: write errors that do not end the transfer, an exec
  that fails after `upgrade.d`, a kill between `download.d` and `abort.d`, an
  interface whose request fails while others succeed.
- *State left behind*: the image file from an earlier run, the version read before
  the lock, neighbours that point to interfaces.
- *Time*: a timeout shared by many replies and their callbacks, and its edge at zero.
- *A network that does anything*: wrong sizes, endless redirects, broken
  connections, signals in the middle of a download, a manifest cut at any place.
- *Output that cannot be taken back*: the proxy has sent part of a file when its
  mirror fails.
- *Edges of functions*: versions with leading zeroes, dates in other zones, a date in
  the future, the last value of a random draw, an escape at the end of a query.

`PROJECT.json` has these as hazards, each at its line with its properties.

What makes each component correct:

- Update run: one instance at a time; nothing is flashed but what a trusted
  manifest named, a newer version, the very bytes whose hash was signed; hooks are
  undone; success is reported only after a trusted manifest; a run ends, or it is the
  network it waits for.
- HTTP transfer: success means that everything arrived; it returns.
- librespondd: a wait with a limit ends with the timeout, no request before it; it
  returns, but for a wait without limit (section 3).
- libmeshutil, libmeshneighbour: all mesh interfaces, only those, each device
  once; no neighbour twice; nothing used after it was freed; no failure forgotten.
- Manifest reader: the buffer never overflows; the same lines are parsed however the
  stream is cut; the first value of a field counts; an upgrade follows what was signed.
- Versions and probability: a strict order; a chance that is one when the update is
  overdue and zero before its time.
- Lists: each mirror that is left can be drawn, in any order; the valid keys are kept.
- Proxy: one download at a time; nothing behind a whole answer; every process ends.

## 2. The modules and the code

### Autoupdater

`Proc` is the set of instances on one node. `pc[p]` is the place in the code:

| `pc` | code |
|---|---|
| `idle`, `lock` | not running; settings are loaded (`Start`), `lock_autoupdater` is next |
| `mirrors`, `neighbours` | the two loops in `main` |
| `manifest`, `check` | `autoupdate` up to the end of the download; its tests |
| `download`, `image`, `verify` | hooks and `open`; `get_url` with `recv_image_cb`; hash |
| `upgrade`, `exec`, `sysupgrade` | `upgrade.d` and `fcntl`; `execl`; the process *is* sysupgrade now |
| `abort` | the label `fail_after_download` |

Every action is one handler or one exit of it, with everything it does: a return
of `autoupdate()` with `true` includes `futimens` and the exit (`ReturnTrue`), one
with `false` includes the removal of the mirror (`ReturnFalse`), and the end of a
process includes what the kernel does with its descriptors (`End`).

Data. An image is a sequence of chunks, and a chunk is represented by the image it
belongs to. That is enough to tell apart the image, another one, a mixture, a file
that is too long, and a chunk at the wrong place behind a failed write (`Torn`).
The SHA-256 of a stream equals the manifest's hash when exactly the image's chunks
were hashed. A manifest is the record of what `autoupdate()` tests. Versions are
numbers in the order of `newer_than`, `Null` is an unknown one.

The lock file is in `/tmp`, so it is not there when the node has started (`mtime` is
`Null`), and the first process that opens it creates it with a fresh time (`Opened`),
even when that process does not get the lock.

The environment: `Kill` at any time but while sysupgrade runs, `Restart` of the
node while nothing is being flashed, sysupgrade that succeeds (the node boots the
new image) or fails. `DiscoverFails` ends the process: the code may read an
uninitialised list there (libmeshneighbour.c:212), and whatever that does, the
process ends, either by a crash or by the `return 1` that follows.

### HttpTransfer

One call of `get_url`. libuclient and uloop are external, modelled from how
`uclient.c` uses them: a header callback for each response, a read callback while
there is data, then one end: end of file, an error, or a signal that makes
`uloop_run` return. `Autoupdater` uses the promise of this module, stated in
`Transfer`: `ImageDone` needs exactly `ImageSize` chunks, because `get_url` was
called with that size.

### RespondRequest

One call of `respondd_request` against the clock, the socket's queue and the
callback. Time is in the unit of a `struct timeval`. The code charges the time
between two readings of the clock; what passes between the reading after a reply and
the one before the next `recvmsg` is charged to nobody, which `lost` records. With a
`SO_RCVTIMEO` of zero the wait has no limit (`Unlimited`).

### MeshNeighbours

One search for neighbours: netifd's answer entry by entry, with every error path of
`gluonutil_get_mesh_interfaces`; then one request for each interface that is up; then
the use and the release of the lists by `main`. Objects are named by their origin, so
that "freed" means "no longer in the set".

### Manifest, ManifestCheck, ManifestText

`ManifestCheck` is `autoupdate()` up to its decision. A text is a sequence of
characters and `buf` the C string in `ctx->buf`. `Read` is `uclient_read_account`
for any number of characters that fit, with the NUL written behind them (`CString`:
a NUL in the text hides what was read behind it); `ParseLine` takes one line out of
the buffer and hands it to `parse_line`; when there is none, the code moves the rest to
the front and reads again. With a full buffer `Read` is not enabled: nothing is read
any more, and nothing ends the request but the library (`Error`, `Interrupt`).

`Manifest` has `parse_line`. What a line says to this node is given by the constant
`Field`: the prefixes, the numbers and the node's own names; `IsSignature` is the
test of `parsehex`. The order of the tests, what a bad field leaves behind (the hash of
a line is stored before its size is known to be good) and which value counts are
in `ReadField`. The hash is the sequence of lines that went into it, and
`Verifies` says whether a signature is one of these lines by a key.

`ManifestText` is the abstract specification: a text is read line by line, each
line once, a last line without newline never.

`Autoupdater` takes the decision from here: "failed" is `ManifestError`, "rejected"
`RejectManifest`, "nothing new" `NoNewFirmware`, "not now" `NotDue`, "upgrade" `Proceed`.

### Version, Schedule, Lists, QueryString, PureFunctions

The functions that keep no state, as recursive functions, each with a reference
definition written from what the function is for:

| Function | Source | Reference |
|---|---|---|
| `newer_than` | version.c | the lexicographic order of the `Key`s: character orders and values of numbers |
| `parse_rfc3339` | manifest.c | a calendar (`Tomorrow`) and a clock (`Later`) |
| `get_probability` | autoupdater.c | what a chance is: grows from zero to one, symmetric |
| `Walk` | `main` | the mirrors that are left, counted |
| `parsehex`, `PublicKeys` | hexutil.c, settings.c | the valid keys, each at the place that the count of those before it gives |
| `ARRAY_SHUFFLE` | proxy's util.h | all orders of the list |
| `get_value` | proxy.c | for the queries of the autoupdater, into which the names go as they are: the names, with each `+` as a space; for a client that encodes: the inverse of `Encode` |

A probability is a fraction, so the reference is exact where the code rounds to
`float`. A priority is a `Span`: whole seconds of either sign, which is how far the
comparisons with a time look at the fractions that `strtof` accepts, or `NaN`, or
`Infinite`. `PureFunctions` makes each call a state, and the references invariants; the
runs check them for small arguments and `PureFunctionsProofs` proves them for all.

### Proxy

`Proc` is the set of processes the web server starts; `run[p].pc` is the place in
the code: `start` and `query` in `main`, `list` in `get_mirrorlist`, `next` at the
head of the loop in `download_file`, `spider`, `get` and `body` in a request, `free`,
and the labels `out_lock` and `out`. The mirrors are numbered in the order in which
the shuffle put them. `pending` is the buffer of stdio: a header is only printed
(`Answered`), the data is flushed (`Data`), and `exit` empties it. The count of
redirects is static and belongs to the process (`redirects`). `Dies` is any death of
a process: a signal (`Killed`), `memmove` with a negative length (`BrokenQuery`), or
`free_mirrorlist`, which frees the list and then addresses inside it, which is undefined
(`Free`, `FreeCrashes`). The kernel then unlocks and the buffer is lost.

`Delivery` is what the client of one process sees: headers and data of mirrors in their
order, nothing behind a whole answer, and an end that is either whole, or has no mirror
left, or is a death.

## 3. The runs

| Run | Question | Instance | Distinct states |
|---|---|---|---|
| `autoupdater_safety` | Are locking, what is flashed, the hooks and the lock's time right? | 2 instances (symmetric), 2 mirrors, 2 images (1 and 2 chunks, versions 2 and 3, the node starts with 1), 6 manifests, 3 command lines, unreadable versions | 831 292 |
| `autoupdater_live` | Does every run end or wait for the network, and is `UpdatePolicy` implemented? | the same, no downgrades, no symmetry | 142 809 |
| `autoupdater_stale_tail` | Is the file handed to sysupgrade the image? (no) | 1 instance | |
| `http_transfer` | Does success mean complete, and does `get_url` return? | sizes any, 0 and 2; bodies up to 3 bytes; 10 redirects | 7 139 |
| `respond_request` | Is the timeout kept? | timeouts 1 and 3, up to 3 datagrams | 5 992 |
| `respond_blocks` | Does the request always return? (no) | timeout 3, one datagram | |
| `mesh_neighbours` | Are the right interfaces asked, and the lists right? | up to 3 entries on 3 devices, 2 nodes, 2 replies for each interface | 72 016 |
| `manifest_check` | Is the manifest read line by line, and does an upgrade follow what was signed, in time? | 103 texts that differ from a good one in one line (seven priorities among them), a buffer of 3 characters, 12 nodes | 96 900 |
| `manifest_fallback` | Does `--fallback` upgrade only a day late? (no) | the same | |
| `pure_functions` | Do the functions equal their references? | versions up to 3 characters, 13 years day by day, spans from -2 to 3 days, 5 mirrors, 3 keys, 4 places to shuffle, texts up to 2 characters | 127 003 |
| `proxy` | One download at a time, an end, and what does the client get? | 2 processes, 2 mirrors, 1 redirect, 1 chunk | 614 583 |
| `mesh_shared_device` | Are all mesh interfaces found? (no) | 3 entries | |

What the passing runs show:

- `MutualExclusion`: at most one instance is past the lock, and one that has become
  sysupgrade counts. Its mutant leaves FD_CLOEXEC set.
- `FlashedPrefixVerified`: the first `imagesize` bytes of the file are the signed
  image. The hash is taken over the stream, and a failed write does not end the
  transfer; it holds because a chunk that was not written is not hashed, and one that
  is missing in the hash cannot be made up for within `imagesize` bytes.
- `OnlyAuthorisedFlashed`: compared with the *installed* version, although the code
  compares with one it read before it had the lock.
- `HooksBalanced`: the effects of `download.d` are in place exactly between
  `download.d` and `abort.d` or a reboot, unless the process died, as
  `abort.d/README` says.
- `FileStableDuringSysupgrade`, `TouchedOnlyAfterTrustedManifest`: what no step may
  do: change the file while it is flashed, change the time of an existing lock file in
  a run that failed. The property says nothing of the time with which the first open
  after a boot creates the file: a failed run leaves a fresh time then.
- `EndsOrWaits`: a mirror that failed is not tried again, so a run ends unless it stays
  in one call that waits for the network. That this can happen is what `respond_blocks`
  and `DecidesOrStalls` show; the lock stays taken then, and no later run gets it.
- `ImplementsPolicy`: flashing one image at a time, each named by a trusted manifest
  and newer than the installed one, is all the owner of the node sees. It is checked
  without downgrades; with them the abstract guard is no guard, and
  `OnlyAuthorisedFlashed` says more.
- `SuccessIsComplete`, `WrongSizeNotRead`, `Returns`, `ImplementsTransfer`: `get_url`
  returns 0 only when the consumer got what was asked for and announced. A signal
  hides an incomplete body when no size is known: the caller then sees a short
  manifest, whose signatures do not verify.
- `WaitsInTime`: a wait with a limit is over when the timeout has passed, but for `lost`
  and the kernel's delay (`MaxLate`). A wait without limit, which may go on for any
  time, begins only at the moment the timeout has passed to the tick.
- `WaitsLongEnough`: no request that went well ends before its timeout, unless a reply or
  an empty datagram ended it. `ReturnsOrBlocks`: it returns, or stays in a wait without
  limit, as `respond_blocks` shows.
- `NoDanglingInterface`, `OnlyMeshNeighbours`, `NoNeighbourTwice`,
  `WalkMeansNoFailure`, `FirstOnDevice`: as their names say. `FirstOnDevice` describes
  exactly which interfaces are kept.

- `UpgradeIsSigned`: every field an upgrade is based on is that of the first line among
  the *hashed* ones that gives it, version, file and hash of the image are from one
  line, and enough different keys signed exactly these lines.
- `NotBeforeItsTime`: not before the manifest's date unless the node is up long enough
  to have set its clock; at the date itself only when there is no span (a priority of
  zero or less, or NaN); with `--fallback` and the date past, only a day late; never when
  the priority is infinite.
- `DecidesOrStalls`: every transfer ends in a decision, with one exception: a line that
  fills the buffer. Then `recv_manifest_cb` returns without reading and does not end
  the request.
- `ImplementsText`: cutting the stream changes nothing, with one exception: what is
  behind a NUL may be lost. A transfer that was interrupted is judged by the code with
  what it has; `ManifestText` leaves it incomplete, and `UpgradeIsSigned` covers it.
- `NewerIsLexicographic`, `DateIsUtc`, `ChanceGrowsToCertainty`,
  `WalkReachesEachMirror`, `KeepsValidKeys`, `ShuffleGivesEachOrder`,
  `ParametersArrive`: the functions equal the references of section 2. The last has the
  queries the autoupdater writes, too: a `+` in a branch or an image name comes out as a
  space, so the proxy asks its mirrors for another file.
- `OneAtATime`: two processes of the proxy work at once only when one of them could not
  open the lock file; no death leaves the lock taken.
- `EveryRunEnds`: the static count of redirects is what ends a process whose mirrors
  redirect to each other. The price is that a mirror late in the list is not followed
  when earlier ones have used the count up.
- `ImplementsDelivery`: a reply may hold parts of several mirrors, each behind its own
  header, since what was sent stays; nothing follows a whole answer, and data
  never comes without its header. A connection that breaks counts as whole
  (`data_eof_cb`), and the program returns 0 whatever the download did: both are
  in the model and allowed by `Delivery`.

Why the bounds are enough. Two instances suffice to meet at every shared variable,
as every rule of the lock concerns two of them; the proofs below cover any
number. Two images of different size, both newer than the first version, give
mixtures, tails, an update after an update and a downgrade. Two mirrors give a list
that shrinks and is walked in either order. Ten redirects is the code's number. In
`RespondRequest` the timeout, the replies and the steps of time are chosen so that
some replies come early, some late and some exactly at the end; `MaxBlocked` lets
sending, a callback and a wait without limit go on past the timeout. Three entries are
enough for a pair on one device with another before, between or behind. The buffer of
three characters holds a usual line of one character with its newline and
another character, so lines are cut at each place, two lines share a buffer, and a
line of three characters fills it. The texts insert each kind of line at each place of a
good manifest or leave one out. In the proxy, two processes meet at the lock, two
mirrors give a failure before a success, one redirect is used up by the first mirror,
and one chunk tells a part from none. Short versions have every combination of letters,
digits, zeroes, `~` and `.` in three places.
`MaxSize`, `MaxBody`, `MaxReplies`, `MaxBlocked`, `MaxLost`, `MaxEntries`, `MaxMirrors`,
`MaxChunks` and `RandMax` are bounds, as are the sets of arguments of `PureFunctions`;
`MaxLate` is the kernel's delay;
`MaxRedirects`, `MAX_REDIRECTS`, `MAX_LINE_LENGTH`, `KeyLength` and `GoodSignatures` are
the program's, smaller in the runs. `Day` is 8 in the runs: dates are compared in
days and seconds of such a day.

`CHECK_DEADLOCK FALSE` stands where the module is one call that returns, or processes
that all end.

### What the violated runs show

1. *The image file keeps an old tail* (`autoupdater_stale_tail`). It is opened
   without `O_TRUNC` (autoupdater.c:379). After `-n` (which leaves the file), a kill
   or a failed sysupgrade, a shorter image is followed by the rest of the longer one.
   `upgrade.d/README:2-3` says that the checksum was correct; it is that of the
   stream. `FlashedPrefixVerified` says what does hold.
2. *A request that never ends* (`respond_blocks`). When exactly zero is left of the
   timeout, `timeout_elapsed` is false (librespondd.c:95) and `SO_RCVTIMEO` is
   set to zero, which means no timeout at all. If no more packets come, the call, and
   the autoupdater with its lock, waits for ever.
3. *A mesh interface that is missed* (`mesh_shared_device`). Interfaces on a known
   device are dropped (libmeshutil.c:157) before the list is filtered by protocol. If
   the interface that netifd names first is no mesh interface, the second is lost.
4. *`--fallback` and a date in the future* (`manifest_fallback`). The usage text (lines
   105-106) says that it upgrades if and only if the timespan has passed for at least 24
   hours. `get_probability` looks first at whether the date lies in the future (line
   185), and after ten minutes of uptime takes the chance of that case (line 206).

One more disagreement is in the model without a run of its own. The usage text (line
107) says of `--force-version` that the version check is skipped; the check of a
neighbour's release (line 609, `Skippable`) looks at `--force` only.

### Fairness

- `Autoupdater`: weak fairness of `Step(p)` for each process while it does not wait for
  the network (`Waits`: in a transfer, and in the neighbour search). Of a process that
  waits nothing is assumed: `recv_manifest_cb` may stop reading, and librespondd may wait
  without limit. `Start`, `Kill` and `Restart` are not fair. That hooks and sysupgrade end
  is an assumption: `run_dir` waits for the hooks without a limit.
- `HttpTransfer`: weak fairness of `Step`: something happens to an open connection
  before its timeout. `Interrupt` is not fair, and a server may redirect at every
  request: `Returns` rests on the count of redirects.
- `RespondRequest`: weak fairness of `Step`, without the faults (no system call has
  to fail), and of `Tick`. No reply has to arrive.
- `ManifestCheck`: weak fairness of `Step`: a server sends its text and ends it. Neither
  `Error` nor `Interrupt` is fair, as no code of the repository brings them about.
- `Proxy`: weak fairness of `Step(p)`, for each process. The lock is not waited for
  (`LOCK_NB`), and an open connection has a timeout (`CONNECTION_TIMEOUT`, fetch.c:17
  and 103). `Killed` is not fair. A file is finite (`MaxChunks`), redirects are not:
  `EveryRunEnds` rests on their count.
- `MeshNeighbours` has safety properties only. Its lists are finite, and the end of a
  request is the subject of `RespondRequest`.

## 4. The proofs

Each `...Proofs` module extends its module and proves its safety properties for all
values of the constants, from the assumption in that module (`ConstantsAssumption`,
`TransferAssumption`, `RequestAssumption`, `NeighboursAssumption`, `CheckAssumption`,
`ScheduleAssumption`, `ListsAssumption`, `ArgumentsAssumption`, `ProxyAssumption`), which
TLC evaluates in the runs. Every invariant that a run checks is stated by a theorem.

**AutoupdaterProofs.** `TypeCorrect`, then `IInv`: the types, `HooksBalanced`, and for
each process

- `LockInv`: the holder of the lock is the process past `lock_autoupdater`. Mutual
  exclusion follows as there is one holder;
- `CloexecInv`: at the exec the flag is cleared, otherwise `LockInv` would break;
- `ApprovedInv`: whoever downloads has a manifest that passed the tests;
- `VersionInv`: the version read before the lock is still installed. It holds because a
  successful sysupgrade ends every process;
- `FileInv`: while as many chunks were hashed as were counted, the file starts with
  what was hashed; a failed write leaves the count behind for good;
- `VerifiedInv`: what is flashed passed the checksum.

None of the properties is inductive alone: `FlashedPrefixVerified` needs `FileInv` for
its content, and mutual exclusion for the absence of another writer.
The two action properties and the refinement of `UpdatePolicy` (`Implements`) follow
from `IInv`; the latter also needs that only the command lines in `Options` are in
use (`SettingsInv`). In the refinement `Exec` is `Begin`, the two ends of sysupgrade are
`Boot` and `GiveUp`, all else stutters.

**HttpTransferProofs.** `IInv` relates the account of bytes (read, handed on,
buffered, received), the expected length (asked for, announced) and the ways a
transfer can end without error. `SuccessIsComplete`, `WrongSizeNotRead` and the
refinement of `Transfer` follow.

**RespondRequestProofs.** `TimeInv` is the account of the timeout: in the loop, what is
left is what was given less the time since the call, plus `lost`; in a wait, the same at
the reading of the clock before it, and a wait with a limit is not much older than that.

**MeshNeighboursProofs.** `FirstInv`: the list holds the first interface of each device
read so far; `TodoInv`: neighbours come from interfaces already asked, so a new request
cannot find an old neighbour; `ErrInv`: a failure is remembered to the end.

**ManifestCheckProofs.** `IInv` has the bound of the buffer, and `HeaderInv`: each field
is Null or given by the first line of `hashed` that has it, and image hash and entry
come from one line; this is what makes `UpgradeIsSigned` inductive, since a hash that was
stored by a bad line is replaced by the next line before the entry is. `LineOfConcat`, on
which the refinement of `ManifestText` rests, says that the first line of the buffer is
the first line of all that is still to come. `InTime` (`NotBeforeItsTime`) is proved for
texts whose dates are integers and priorities any of `Span` (`NumbersInHeader`): what
`parse_rfc3339` and `strtof` return.

**VersionProofs.** First the induction that all proofs about functions rest on, without
a theorem that takes an operator: a set of natural numbers that is not empty has a least
one (`Least`), so a set that has zero and with each number the next has all (`Induction`,
and `Climb` between bounds). What is to be shown for all n is put as such a set. A
recursive function is reached by `RecursiveFunction`: when its step at a place looks only
at places of a smaller measure, a function that satisfies the equation exists, so that
the one TLA+ chooses does too. Functions of two places, such as the walk of `newer_than`
through two strings, are functions of a pair; their measure is what is left of both.

`NewerIsGreater` says that this walk decides by `Greater`, the order of the `Key`s, for
strings of any length. Its steps: digits give a number (`NumberCounts`), zeroes in front
do not change it (`Zeroes`), the first digit that differs decides between numbers of the
same length (`LargerStays`) and the length otherwise (`NumberOrder`); so character by
character (`CharacterStep`) and number by number (`NumberStep`) the code and the key
agree. `Greater` is asymmetric and transitive, hence so is `newer_than`
(`NewerAsymmetric`, `NewerTransitive`).

**PureFunctionsProofs.** One theorem for each of the other functions, and for the call of
`newer_than`; no length is bounded.

- `ChanceTheorem`: the curve is rational, so its bounds and its growth are products of
  natural numbers (`RiseIs`). It is about spans that are integers; `InTime` has the others.
- `DateTheorem`: `TomorrowIs` compares the formula of `DaysOf` with the calendar case by
  case: within a month, at its end, in February and at the end of the year; `YearLength`
  has the leap years.
- `WalkTheorem`: by the measure of what is behind the walk and the count still to go;
  `BetweenIs` counts the mirrors left between two places.
- `KeysTheorem`: after i keys the slots hold the valid ones among them at the places their
  count gives, and a later key writes behind them (`SlotsHoldNext`). It rests on
  `ParsehexIs`, by which a text is loaded exactly when it is a key text.
- `ShuffleTheorem`: each draw is within the rest of the array (`DrawnIs`), each swap keeps
  it an order (`SwappedIs`), and for a wanted order the draws are built from the front
  (`NextReaches`). `n * (n - 1) <= RAND_MAX` is assumed: beyond it the formula of the draw
  may miss entries. The C standard's least RAND_MAX allows 181 mirrors.
- `QueryTheorem`: `RoundTrip` says that decoding undoes encoding from every place of a
  text to its end, `FirstParameter` and `SecondParameter` that `find_value` finds the two
  keys and nothing between them: a value holds neither `=` nor `&`, and where the other key
  begins to match there is no `=` behind it. `NamesArrive` uses the same for the queries
  of the autoupdater; of names without an escape `decode_value` changes only the `+`
  (`PlainDecoded`).

The SMT translation of tlapm 1.4.5 has an axiom for `Len` that also gives a domain 1..n
to what is no sequence, and with a function on 0..n in scope the facts contradict each
other. Proofs that mix the two could pass for that reason. All modules with proofs were
therefore proved a second time with this axiom weakened to what holds of sequences.

**ProxyProofs.** `RunOK` says for one process what its place in the code means for the
reply: what it holds comes from mirrors up to the one in use, before an answer only from
earlier ones, in `body` the header of this one is there, and only a process past the loop
has had a success. `LockOK` says that a process holds the lock exactly while it works
with it. `OneAtATime` follows from the latter, and from both that each process implements
`Delivery`, whatever the others do. This is stated as an initial predicate and one action
over all processes (`ImplementsDelivery`), which is the conjunction of
`TheDelivery(p)!Spec` over `p`.

Model-checked only: the liveness properties (`EndsOrWaits`, `Returns`, `ReturnsOrBlocks`,
`DecidesOrStalls`, `EveryRunEnds`), as liveness under fairness is beyond this prover, and
what the four violated runs show, since a counterexample is a behaviour and no theorem.

## 5. Not modelled

- Reading UCI in the autoupdater: a failure ends the program before it has any effect.
- In `Schedule`: the rounding of `float` (with the real RAND_MAX, a probability near one is
  rounded up), the fraction of a second in a span and of a day in the exponent of
  `powf`, fields of a date beyond their range.
- Names with `%`, `&` or `=` in the queries of the autoupdater: what the proxy makes of
  these is in `BrokenQuery` and `GoodQuery`.
- The same public key twice in the configuration: `Keys` is a set.
- What is behind a truncated escape in a query: `BrokenQuery` is a death or, as a
  `GoodQuery` would be, any query; the memory that `memmove` touches is not modelled.
- Which headers of a mirror the proxy passes on, and that it reads its configuration anew
  for every request.
- Output, wording and the building of URLs but for the query of the proxy's; a URL that is too long is one of
  the outcomes of `ManifestError` and `OpenFails`.
- Signatures as mathematics: a manifest has a number of good signatures.
- The crash when a neighbour's release is JSON null (autoupdater.c:487): for the node
  it is a process that ends, as in `DiscoverFails`.
- Packets that `mesh_respondd_cb` cannot parse: they are dropped.
- libuclient, libubox, libuci, libubus, json-c and libecdsautil are external.
- The hook scripts and the packaging.

## 6. Plan

Done: all components of the table but the hooks and the packaging. What could follow:

1. Compositions: `Autoupdater` with `MeshNeighbours` in place of `Discover`, and
   `MeshNeighbours` with `RespondRequest`, to carry the request that never ends to the
   lock; `Autoupdater` with `ManifestCheck`, in place of the correspondence of section 2.
2. A neighbour's release that is JSON null, as a death of its own in `Discover`.
3. Proofs: an action property of each component that says what no step may undo, such as
   that a reply already sent by the proxy is never changed; theorems about the
   compositions of item 1.
