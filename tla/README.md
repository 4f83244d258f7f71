# A formal model of composefs-rs

TLA+ modules, TLC configurations and TLAPS proofs for composefs-rs: the repository
with its named references and its garbage collector, the object store below it
with fs-verity, the atomic replacement of a symbolic link; the way of a container
into the repository (tar layers that background tasks split, pulls from a registry,
downloads by HTTP); the way from its layers to an image (merging, scanning, dumpfiles,
the erofs writer and reader); and what is done with an image (FUSE, boot entries,
labels, the state of a deployment, the initramfs).

Paths below are relative to `src/crates/`.  "The repository" is the composefs
repository on disk, `Repository` the Rust type, *Repository* the TLA+ module.

## 1. The system

| component | state | operations | interacts with |
|---|---|---|---|
| Repository (`composefs/src/repository.rs`) | on disk: `objects/`, `streams/`, `images/`, `streams/refs/`, `images/refs/`; a flock on the directory; in memory an `insecure` flag, a semaphore | `open_path`, drop, `has_stream`, `ensure_stream`, `write_stream`, `register_stream`, `name_stream`, `has_named_stream`, `write_image`, `open_stream`, `open_image`, `sync`, `gc`, `gc_dry_run` | other processes through the files and the flock |
| Object store (same file, `fsverity/`) | the files of `objects/`, sealed with fs-verity or not; O_TMPFILEs that are not linked yet | `ensure_object`, `finalize_object_tmpfile`, `enable_verity_maybe_copy`, `measure_verity` | threads of the process; children it forks, which inherit descriptors; the kernel |
| Link replacement (`util.rs`) | one link and temporary links beside it | `replace_symlinkat` | every caller that makes the same link |
| Splitstream (`splitstream.rs`) | a writer's inline buffer and reference tables, a reader's position | `write_inline`, `write_external`, `done`, `read_exact`, `cat`; the builder with pending handles | object store |
| Tar splitting, image assembly (`composefs-oci/src/tar.rs`, `image.rs`, `generic_tree.rs`) | a pipeline of background tasks; a directory tree | `split`, `split_async`, `get_entry`, `process_entry` | splitstream, object store |
| OCI pull (`composefs-oci/src/skopeo.rs`, `lib.rs`) | tasks for the layers, a semaphore | `pull`, `ensure_config`, `ensure_layer`, `seal`, `mount` | skopeo proxy, Repository |
| HTTP download (`composefs-http/src/lib.rs`) | a worklist of streams, a set of tasks for objects | `download` | a server, Repository |
| FUSE (`composefs-fuse/src/lib.rs`) | inode numbers, open directories | `lookup`, `readdir`, `read` ... | the kernel, Repository |
| Image format (`composefs/src/erofs/`) | layout tables of the writer | `mkfs_erofs`, readers | file system tree |
| Trees and text formats (`fs.rs`, `tree.rs`, `filesystem_ops.rs`, `dumpfile*.rs`) | a tree | scanning, printing, parsing | object store |
| Boot (`composefs-boot/`), root setup (`composefs-setup-root/`), mounting (`mount.rs`) | none of their own | writing boot files; mounting | Repository, the kernel |
| `cfsctl`, `erofs-debug` | none | commands | all of the above |

### What is hard, and what makes it right

* **Repository.**  Processes share it with nothing but a flock between them, and
  flock's conversion from shared to exclusive is not atomic.  A write is a
  sequence of files that another process may see half done; a gc is a marking, a
  sweep and a clean-up that can stop anywhere.  Right means: what a name leads to
  is readable in full in every state; what is visible is complete and flushed;
  an answer given to a session stays true as long as the session lasts; gc keeps
  what is reached and nothing else; it ends.
* **Object store.**  The same object may be stored by several tasks at once; a
  forked child makes the kernel refuse to seal a file; after a power failure files
  may be there without their data.  Right means: what is said to be stored is
  there, complete and sealed; nobody fails for what another one does.
* **Link replacement.**  Two callers may pick the same temporary name; callers
  die.  Right means: a reader sees the old target or the new one.
* **Tar splitting and OCI pull.**  Files and layers are stored by background tasks
  that end in any order and may fail.  Right means: the stream comes out as the
  sequential code would have written it, or not at all.
* **HTTP download.**  The worklist must reach every stream and object once; a
  server may send anything; what a failed attempt leaves must not be in the way of
  the next.
* **Images.**  Whiteouts, replacements and hard links of several layers meet in one
  tree, which four kinds of code turn into something else and back.  Right means: the
  tree is the stack of the layers; the image holds it, whole, within the limits of
  its blocks, and gc finds in it all that it needs; where a container was looked at
  does not change its image.
* **FUSE.**  The kernel's requests come in any order, about inodes and handles it was
  given long before.  Right means: a number keeps its meaning, a listing in pieces is
  complete.
* **Boot.**  A deployment is many files and directories in several places, made one
  after the other; another one, or an older one, may use the same names.  Right
  means: an entry that is there can be booted, gets its own image and state, and
  nothing that was changed in a deployment's `/etc` is lost.

`PROJECT.json` lists every place where this can go wrong ("hazards"), with the
properties that watch it.

## 2. The modules

| module | what it is | source |
|---|---|---|
| `Repository` | sessions, streams, images, refs, gc; one action per file system call | `repository.rs` |
| `RepositorySafety` | its guarantees, the inductive invariant, the mapping to the catalog | |
| `StreamCatalog` | abstract: streams published, named, collected in one step each | |
| `MCRepository` | instance for TLC | |
| `RepositoryProofs` | proofs, the refinement of `StreamCatalog` among them | |
| `ObjectStore` | storing one object: lookup, seal, link; forks; failing operations; power failure | `repository.rs`, `fsverity/` |
| `AtomicLink` | abstract: a link that is set in one step | |
| `ReplaceSymlink` | `replace_symlinkat`, one action per system call | `util.rs` |
| `StorageProofs` | proofs about both | |
| `SplitStream` | writer, builder and reader of splitstreams as operators on records | `splitstream.rs` |
| `TarSplit` | `split_async` with its channel, tasks and semaphore; `split`; `get_entry` | `composefs-oci/src/tar.rs` |
| `TarSplitSafety`, `MCTarSplit` | what an import promises; instances | |
| `TarSplitProofs` | proofs | |
| `OciPull`, `OciPullSafety`, `MCOciPull` | pulls by several processes, naming, sealing; what they promise; instance | `composefs-oci/src/skopeo.rs`, `lib.rs` |
| `OciPullProofs` | proofs, about *Layers*, *FsScan* and *Dumpfile* too | |
| `HttpDownload`, `HttpDownloadSafety`, `MCHttpDownload` | one downloader and its tasks | `composefs-http/src/lib.rs` |
| `HttpDownloadProofs` | proofs | |
| `Tree` | file system trees and the operations on them; no state | `generic_tree.rs`, `tree.rs` |
| `Layers`, `LayersSafety` | `create_filesystem`, `process_entry`; the stack of layers as a definition of its own | `composefs-oci/src/image.rs` |
| `ErofsWriter`, `ErofsReader` | `mkfs_erofs`; reading an image, `collect_objects` | `erofs/writer.rs`, `reader.rs` |
| `Dumpfile` | writing, parsing and reading back a dumpfile | `dumpfile.rs`, `dumpfile_parse.rs` |
| `FsScan` | trees from a directory and back | `fs.rs` |
| `ImageBuild`, `MCImage` | composes the last seven: every tree that `Layers` makes is written, dumped, unpacked; what is promised of that; instance | `filesystem_ops.rs` |
| `FuseServer`, `FuseServerSafety`, `MCFuseServer` | the server and the kernel's view of it | `composefs-fuse/src/lib.rs` |
| `FuseServerProofs` | proofs | |
| `BootEntry` | entries of the three kinds: finding, changing, relocating | `bootloader.rs`, `cmdline.rs` |
| `SeLabel` | labels by the policy in the tree | `selabel.rs` |
| `Deploy`, `DeploySafety`, `MCDeploy` | `prepare-boot` by several processes, and what a boot comes to | `cfsctl/src/main.rs`, `write_boot.rs`, `composefs-setup-root/src/main.rs` |
| `DeployProofs` | proofs | |
| `DataLemmas` | lemmas on numbers, sequences and recursive functions that the proofs share | |

`Repository` and `RepositorySafety` treat the two lower layers as single steps
(`AddObject`, a changed link): *ObjectStore* and *ReplaceSymlink* show what these
steps are worth.  *ReplaceSymlink* implements *AtomicLink*, so that one assignment
to `streamRefs` in *Repository* stands for one call of `replace_symlinkat`.

### Repository

`objects`, `streams`, `images`, `streamRefs` and `imageRefs` are the directories.
A link in `streams/` has one possible target, `ObjectOf[s]`, because every caller
derives the content identifier from the content; what an object refers to is given
by the constants `DataRefs`, `NamedRefs` and `ImageObjects`, because an object's
name is the hash of its content.  `unsynced` are the objects that `syncfs` has not
flushed.  For each process `lock` is the flock mode of its `Repository` and `pc`
the file system call that it makes next; `item`, `ref`, `todo`, `ensuring` are the
locals of a write, `extra`, `live`, `walk`, `walked` those of gc.  `known` are the
content identifiers whose objects the session has been told: a caller refers to
and names only these, which is what `ensure_config` in `skopeo.rs` and
`import_layer` do.  "unchecked_name" in `Faults` lifts this for `name_stream`,
which checks nothing.

| code | actions |
|---|---|
| `open_path`, `Drop` | `open_path`, `drop` |
| `write_stream`, `register_stream`, `write_stream_async` | `write_stream`, `ensure_object`, `WriterDone`, `sync`, `LinkStream`, `LinkRef` |
| `ensure_stream` | the same, or `EnsureFound`; then `EnsureRef` |
| `write_image` | `write_image`, `ensure_object`, `StoreImage`, `LinkImage`, `LinkImageRef` |
| `gc`, `gc_impl` | `gc`, `GcLocked`, `GcImages`, `GcStreams`, `walk_streams`, `GcMarked`, `GcRemove`, `GcSwept`, `GcPruneImages`, `GcPruneStreams`, `GcUnlock`, `GcRelock`, `GcMarkError`, `GcIoError` |
| `gc_dry_run` | `gc_dry_run`, `GcRelock`: it deletes nothing; what it marks and prints is left out |
| death of a process, I/O errors | `Kill`, `WriteError`, `GcIoError` |

The order of the write barrier (objects, `syncfs`, link, ref), the order of the
sweep (objects, links, refs) and the place of every `?` are those of the code.

### ObjectStore

`entry[o]` is the file of object `o` in `objects/`: absent, or with its data good,
short or wrong, sealed or not.  A task (`pc`) follows `store_object_with_id` or
`finalize_object_tmpfile`; `writers` are the children that have inherited its
writable descriptor, `attempt` counts `enable_verity_with_retry`.  The repository
may start out with files that an earlier use with `insecure` left without
fs-verity (`Inherited`).  `PowerFailure` makes anything of what `sync` has not
flushed (`Survivors`); this is more than most file systems do, and so on the safe
side.

`device` says whether operations fail (no space, I/O errors) or may not, and may change
at any time, for ever too.  An error ends the call (`IoFails`), with two exceptions that
are those of the code: if `statat` fails there is no entry yet, and if a copy of the file
cannot be sealed, for whatever reason, there is another copy (`EnableFails`;
`enable_verity_on_copy` asks only whether it was `is_ok`).

### ReplaceSymlink

`temps` are the temporary links, `temp[p]` the name that call `p` has drawn.  Names
come from a small set so that they collide, which twelve random characters rarely
do.  `Die` leaves the temporary link behind, as nothing in the repository
collects it.

### SplitStream and TarSplit

*SplitStream* has one operator for each method: it takes the record of a writer or
reader and gives the next one.  The body of a file is the sequence of its chunks,
each with the integer that the code writes in front of it; an object is known by
its content.

*TarSplit* uses these operators.  `split` and `Entries` (calls of `get_entry` up to
the end) are folds over one archive; `split_async` is a state machine, one for each
layer that is being imported.

| code | actions |
|---|---|
| `read_header_async` and the inline branch | `ReadEnd`, `ReadPartialHeader`, `ReadZeros`, `ReadGarbage`, `ReadInline`, `ReadLarge` |
| the branch for large files | `Acquire`, `Send`, `UnexpectedEof`, `SendEnds` |
| an error of the stream | `StreamFails` |
| `receive_and_finalize_object` | `Receive`, `Finalize`, `TaskFails` |
| `SplitStreamBuilder::finish` | `AwaitFailed`, `StoreFailed`, `finish` |

`tasks[l][i]` is a blocking task with the channel to it; `Send` takes any part of
what is unread, as `fill_buf` does.  When a task has failed, `SendEnds` leaves the
loop with part of the file unread, as the code does, and the import goes on in the
middle of the file: what it reads there as a header is any entry (`Headers`).

Blocks have two bytes instead of 512.  Bytes are tuples that say where they come
from, so that two places of an archive differ unless two files have the same
content.  `Finalize` stores an object in one step, which *ObjectStore* takes apart.

### OciPull

`pull[p]` is where a process is, `task[p][i]` where its i-th layer's task.  The
repository is a function `stream` from content identifiers to objects: that what is
registered has been stored and synced is what *Repository* shows, and that a split
layer is the right one what *TarSplit* shows.  An object is a record of what it was
made from, so that a layer made from wrong data, or a config with its references in
another order, is another object.  The layers of a manifest and the `diff_ids` of its
config need not be as many: `Pairs` is the `zip` of the two.

| code | actions |
|---|---|
| `ImageOp::new`, `pull` | `ProxyFails`, `Retry` (whoever called pull calls it again) |
| `ensure_config` | `EnsureConfig`, `AcquireSpawn`, `JoinAll`, `JoinFailed` |
| `ensure_layer` | `EnsureLayer`, `SplitAsync` or `SplitWrongData`, `AwaitDriver`, `RegisterLayer`, `LayerFails` |
| `pull` (the function) | `NameStream` |
| `seal`, `write_config` | `Seal` |

### HttpDownload

`objects` is the repository, `Objects[id]` what the server sends for `id`: the right
object, a wrong one, or none.  `splitstreams` is the map of checksums by stream,
`tasks` the `JoinSet`.  One action stands for an iteration of a loop; that of
`FetchStream` is the whole body, with the early errors as its other outcome.

### Trees and images

A tree is a function from paths to nodes; two paths whose leaves have the same `rc`
are hard links (`Rc::strong_count` is their number).  *Layers* chooses any entries
in any order, in any number of layers.  *ErofsWriter* numbers and places inodes as
the two passes of the writer do: places in bytes, with the sizes the code gives, but
smaller blocks; the result is what can be read at which place.  *ErofsReader* reads it
with the operations of `reader.rs`.  *Dumpfile* has lines as records, *FsScan* disks as
functions from paths to inodes.  `ImageBuild` adds the one action `commit_image`.

A scan reads each file with one `read()`, and `write_to_path` each object: either may give
less than there is (`Read`, `Cut`; the argument `short` are the files to which it happens).  What
`write_to_path` makes belongs to whoever runs it, with the mode that the umask leaves
(`WrittenStat`, `Umasked`), without times and attributes.  `filter_xattrs` is applied by
`read_container_root` and by nothing else.

### FuseServer

The server's `inodes`, `attrs`, `handles` and `next_fh` are those of `TreeFuse`.
`known`, `listing` and `reading` belong to the kernel, which asks for what it was given
and goes on with a listing at the offset of the last entry that fitted.  An inode
number is the address of the directory or leaf, which is why hard links have the same.

### Deploy

A process does `prepare-boot` for one container: `PrepareBoot` (the tree is
transformed, the image committed, the entry found), then `OpenFile` and `FillFile` for
each file in any order and for the entry at last, then `MakeState` for the three
directories.  `Kill` may come between any two.  `Boot` takes any complete entry of the
boot partition and does what `setup_root` does with its arguments; `ChangeEtc` and
`Shutdown` are the running system.  The file system has fs-verity or has not (`fsverity`).  If it
has not, an image is neither stored nor mounted without "insecure" (`Allowed`), which a boot
gets from the "?" in its command line: `write_boot_simple` puts it there for loader entries, and
leaves a UKI as it is.  *BootEntry* and *SeLabel* are pure: a command line is a
sequence of arguments and a file's data is what the code reads out of it.

## 3. The runs

| run | asks | instance | states |
|---|---|---|---|
| `MCRepository` | guarantees without faults, refinement of `StreamCatalog`, gc ends | 2 processes; a layer with a file, a config that names the layer, an image backed by the same file; 1 stream ref, 1 image ref | 352,276 |
| `RepositoryFaults` | no collector, however badly used, deletes what a name leads to; no step takes a name away | the same, with every fault | 1,941,241 |
| `ObjectStore` | answers hold; what appears is complete; no false errors; every store ends | 2 tasks, 1 object, 2 children, 1 power failure, all modes, a device that fails and recovers | 562,447 |
| `ReplaceSymlink` | atomicity, ownership of temporary names | 3 processes, 2 targets, 2 names, 2 tries | 319,250 |
| `TarSplit` | the stream is the one `split` writes and reads back; nothing is lost on the way; every import ends with its permits given back | 2 layers, 2 permits, 1 chunk in a channel; 3 whole archives and 3 that end early beside an empty one, or two at a time | 132,032 |
| `ImageBuild` | the tree is the stack; the image and the dumpfile give it back, and so do scans, but for attributes they drop and data they do not read; gc gets its objects | 16 entries, up to 4 of them in up to 2 layers, blocks of 128 bytes | 190,906 |
| `OciPull` | configs complete, layers verified, streams stable, pulls succeed | 2 processes, 2 images that share layers, one with a layer twice and a manifest that lists one more, of the other a second manifest that lists one less; 2 threads, 1 fault | 61,561 |
| `HttpDownload` | success is complete; the limit; another attempt succeeds | 6 names, 11 objects, 16 states of the repository, 2 tasks, 1 failing request | 2,340 |
| `FuseServer` | numbers keep their meaning; listings and reads complete; listings end | 3 trees, 1 lister, 2 readers, 3 opens, reads of 2 bytes | 110,236 |
| `Deploy` | entries lead to files; what is prepared boots; images are their containers; state is kept | 2 processes, 9 containers, 14 jobs, 4 configurations of setup-root, with and without fs-verity | 803,906 |
| `ClaimTag`, `ClaimDigests` | two statements of comments that the code does not keep | 1 process that pulls; the instance of `ImageBuild` | |

Why the bounds are enough.  Two processes give every pair of overlapping sessions;
a third adds nothing to a flock with two modes but more waiting.  A chain of two
streams is the shortest graph in which the walk of gc has to go beyond the roots;
the shared file is the shortest in which an object has two reasons to live.  The
proofs hold for any number.  In *ObjectStore* objects are independent of each
other, so one is enough; two tasks race for it; one child outlives the three
attempts and a second one delays the copy as well.  The device may fail and recover any
number of times.  One power failure leaves any
combination of broken files behind.  In *ReplaceSymlink* three callers and two names make
every draw collide, and two tries stand for the sixteen of the code.  In *TarSplit* an
import shares only `objects` and `permits` with others.  Files have zero to three bytes:
empty, small, large with and without padding, sent in one chunk or in more than the
channel holds; the same content occurs twice; a stream ends in a header, in a file and
in padding; two imports need three permits where there are two.  In *ImageBuild* four
entries are enough for a hard link to a file that is then replaced or hidden by a second
layer; the names are so long that a directory of two needs blocks of its own, and
the target of a link so long that it must be moved to the next block.  In *OciPull* the
images share both layers, so every order of two tasks and two processes on one layer
occurs.  One fault is enough to break an attempt at any point; what follows is another
attempt from what is there.  In *HttpDownload* a stream is reached twice, as a stream and as an
object, and there are more objects than tasks.  In *FuseServer* a leaf has two names in
different directories, and one reply has room for one or two entries of four.  In *Deploy*
the containers have every kind of entry and two of them the same kernel version; two
processes are enough for every pair of deployments, and the second may be that of
the same image.

### What the violations show

* `ClaimTag`: the tag that `pull` adds is a link to the digest of the config
  (`skopeo.rs:303`), but the stream is called `oci-config-` and the digest.  The tag
  leads to nothing, and a later gc fails on it, which is the fault
  "unchecked_name" of *Repository*.
* `ClaimDigests`: `create_filesystem` keeps the attributes that layers bring (`image.rs:134`) and
  `read_container_root` drops all but `security.capability`, so the two give
  images of different digests, although `generic_tree.rs:577` and `fs.rs:417` say that they
  are made the same.  `ScansAgree` says when they are.

### Other disagreements met while modelling

* gc returns an error past the flock call that gives up the exclusive lock
  (`repository.rs:1166`), although "An exclusive lock is held for the duration of this
  operation" (1163).  `GcIoError` and `GcMarkError` keep the lock.
* A gc that is killed between the objects and the links (1263) leaves a stream without its
  data, which the comment of `write_stream` (555-561) excludes for a crash.
* `ensure_stream` replaces a reference (712) that its comment calls an error (687).
* `finalize_object_tmpfile` takes any file of the right size for the object (350), also
  one without fs-verity where the documentation asks for it (32-33).
* A large file of the tar type `Continuous` is stored inline (`tar.rs:162`), and
  `get_entry` refuses it.
* If an archive without end-of-archive blocks ends after an entry without data, the
  import succeeds and `get_entry` fails at that entry (`tar.rs:323`).
* `has_named_stream` never answers yes (`repository.rs:655`): it follows the link and asks
  whether the result is one.
* `ensure_config` takes the layers of the manifest and the `diff_ids` of the config with
  `zip` (`skopeo.rs:212`).  If the manifest has fewer, the config is registered with references
  to some of its layers, although "we need to ... make sure we have all of the layers
  first" (193); the next pull finds it, and `create_filesystem` fails.  `ConfigComplete` says
  what is true instead.
* A UKI that is prepared with `--insecure` on a file system without fs-verity does not boot
  unless it was built with the "?" (`write_boot.rs:157`), although "insecure" is
  described as indicated on the command line (108).  `DeploymentBoots` leaves it out (`MayBoot`).
* Two tasks with `insecure` that find the same object without fs-verity both enable it, and
  the second fails with `AlreadyEnabled` (`repository.rs:418`).
* `write_config` takes the references out of a `HashMap` (`lib.rs:151`): sealing a container
  twice gives config streams of different digests under one identifier.
* `enable_verity_on_copy` goes on making copies while sealing one fails, whatever the error
  (`fsverity/mod.rs:225`): a store may never end and tell nobody (`StoreEnds`).
* Files are scanned and objects unpacked with one `read()` (`fs.rs:221`, 110); a short one
  is not noticed.
* `relocate` leaves a file alone that is named without any "/" (`bootloader.rs:187`), and
  `write_t1_simple` fails at one whose name does not start with it (`write_boot.rs:56`).
* A whiteout takes away what its own layer has put there before it (`image.rs:75-77`).
* A dumpfile with hard links is refused by the parser of the same crate (`dumpfile.rs:223`).
* `into_type1` panics for a kernel without an initramfs, and `fileattr` for a time before
  1970.

The properties that these cases would break say which cases they leave out: `Readable`,
`WellOrdered`, `Dumpable`, `Mistaken`, `MayBoot`, `Paired`, the premise of `StoreEnds`.

### Fairness

`Repository!FairSpec`: an operation that has begun goes on (`Write`, `Collect`),
because nothing in it waits.  Waiting for a lock is not fair: the kernel does not
promise that a process that asks for an exclusive lock ever gets it while others
come and go, and the code does not retry.  `ObjectStore!FairSpec`: tasks go on, and
a forked child gets to its `exec`.  The device is not assumed to recover; `StoreEnds` says what
holds if its errors do not last, as its premise.
`TarSplit!FairSpec`: an import goes on when it can, and so do its blocking tasks,
of which nothing is assumed but that one of those that can run does; tokio polls
what is ready and has threads for more blocking tasks than there are permits.  The
semaphore's queue is not assumed to be fair, which tokio's is.  `OciPull!FairSpec`: a
process goes on and so do its tasks, and who has failed tries again; no failure is ever
required.  `HttpDownload!FairSpec`: the same.  `FuseServer!FairSpec`: a client that
lists a directory asks for the rest; nobody else has to do anything.  *ReplaceSymlink*,
*ImageBuild* and *Deploy* are checked for safety only.

### Deliberate errors

Each module has operators that are one action or function with a slip in it (a
guard that is missing, a wrong order).  They are part of no specification.  Put in
the place of what they are named after, each makes one property fail;
`PROJECT.json` lists the pairs ("mutants").

## 4. The proofs

Checked by TLAPS for every value of the constants.  "Runs" says whether TLC checks the
property on an instance too; an `Invariance` is the strengthening that the others rest
on, and TLC would only repeat what is proved.

| module | theorem | says | runs |
|---|---|---|---|
| `RepositoryProofs` | `TypeCorrect` | `TypeOK` | |
| | `GcIsAlone` | `GcRunsAlone`: a collector holds the exclusive lock and is alone | yes |
| | `InvarianceWithFaults` | `SpareInv` | |
| | `RootsSpared` | `SweepSparesRoots`: no gc, however it ends, deletes what a name leads to | yes |
| | `NamesKept` | `NamesNeverLost`: no step takes a name away | yes |
| | `Invariance`, without faults | `IInv` | |
| | `RefsProtected`, " | `RootsIntact`: what a name leads to can be read in full | yes |
| | `LinksTrusted`, " | `EntriesComplete`: outside a sweep every link is complete | yes |
| | `Barrier`, " | `PublishedSynced`: what is visible is flushed | yes |
| | `SessionsStable`, " | `SessionStable`: what a session knows stays readable | yes |
| | `CollectionExact`, " | `GcExact`: gc keeps what is reached, and only that | yes |
| | `IsCatalog`, " | `ImplementsCatalog`: the repository implements `StreamCatalog` | yes |
| `StorageProofs` | `TempsOwned` | `LinkIInv`: no two calls share a temporary link | yes |
| | `IsAtomic` | `replace_symlinkat` implements `AtomicLink` | yes |
| | `Invariance` | `IInv` of *ObjectStore* | |
| | `WordKept` | `StoreKeepsWord`: what is said to be stored is there | yes |
| | `ErrorsAreReal` | `NoFalseErrors`: nobody fails for what another one does, while the disk is good | yes |
| | `AppearsCompleteAlways` | `AppearsComplete`: what appears is complete and sealed | yes |
| `TarSplitProofs` | `Invariance` | `IInv` | |
| | `SplitResult` | `ResultIsSplit`: what is stored is what `split` writes | yes |
| | `NothingLost` | `NothingLostInFlight`: what was read is somewhere, in order | yes |
| | `SplitMerges` | `split`, then `cat`, is the identity on bytes that `split` accepts | |
| | `StoredStreamsMerge` | `StoredMerge`: every stored layer merges back into its archive | in `ReadsBack` |
| | `StoredStreamsRead` | `ReadsBack`: and `get_entry` returns its entries again, and then the end | yes |
| `OciPullProofs` | `Invariance` | `IInv` | |
| | `ConfigsComplete` | `ConfigComplete`: a registered config has all its layers that a manifest pairs with it | yes |
| | `LayersAreVerified` | `LayersVerified`: a registered layer had the right digest | yes |
| | `StreamsAreStable` | `StreamsStable`: no pull changes what an identifier stands for | yes |
| | `LayersInvariance`, of `LayersSpec` | `LayersIInv` | |
| | `TreesAreStacks`, " | `TreeIsStack`: the tree is the stack of the layers, transformed | yes |
| | `ImageInvariance`, of `Image_Spec` | `ImageIInv` | |
| | `ScansStayTrue`, " | `ScansAgree`: what a scan of the unpacked or mounted tree finds, and when it is that tree again | yes |
| | `DumpsReadBack`, " | `DumpReadsBack`: a dumpfile reads back as its tree, or is refused | yes |
| `HttpDownloadProofs` | `Invariance` | `IInv` | |
| | `TasksAreBounded` | `TasksBounded`: the limit of requests; none twice | yes |
| | `DownloadsComplete` | `DoneIsComplete`: success means every object, verified | yes |
| `FuseServerProofs` | `Invariance` | `IInv` | |
| | `InodesStayKept` | `InodesKept`: a number keeps its meaning | yes |
| | `ListingsStayComplete` | `ListingsComplete`: a listing in pieces is whole | yes |
| | `ReadsStayWhole` | `ReadsWholeFile`: so is a file read in pieces | yes |
| `DeployProofs` | `Invariance` | `IInv` | |
| | `EntriesAlwaysLead` | `EntriesLead`: an entry that is there leads to its files | yes |
| | `StatesAreKept` | `StateKept`: nobody takes or mixes up the state of an image | yes |
| | `Deployments` | `DInv`: plans are as made, what nobody writes over is as written | |
| | `DeploymentsBoot` | `DeploymentBoots`: who has prepared a container can boot it, with fs-verity or with the "?" | yes |
| | `ImagesAreTrue` | `ImagesAreContainers`: the image is the container, with its own labels | yes |

`DataLemmas` has no theorem of the system: what a sorted sequence of a set is, how
sequences grow, what a recursive function on numbers gives at each of them, what
`FlattenSeq` makes of a sequence that grows, that the paths of a walk are in a total order
and `InOrder` numbers them.  What is proved of `LayersSpec` is true of the
trees that *ImageBuild* writes: `Image_Next` takes the steps of `LayersNext` and one that
leaves its variables as they are.

### What is assumed

Every assumption is a named `ASSUME` that TLC evaluates on the instances.

* `RepositoryConstants`, `ReplaceSymlinkConstants`, `ObjectStoreConstants`,
  `OciConstants`: the constants are of the right kind.
* `NoAliasing`, for what holds without faults: an object is not at the same time a
  splitstream and plain data of a stream or image.  The code does not enforce this: gc
  tells them apart only by how it came to them, and a splitstream that is also the content of
  some file would keep its link without its references.
* `Faults = {}`, where the table says "without faults": no gc is killed or fails in its
  sweep and only known streams are named.  With faults these guarantees are false (a
  killed gc leaves half a stream).  What is left of them, `RootsSpared` and `NamesKept`,
  is proved for any faults.
* `DigestsTell` (*OciPull*): one digest, one layer.  Nothing is assumed about manifests: two of
  one config may list other layers, or fewer or more than the config has.
* `TarConstants`, `ArchivesAreEntries` (*TarSplit*): an archive is a sequence of entries
  of some type, name and size, and at most all of it is cut off.  Nothing is assumed about
  sizes, about what follows what, or about what a block of file data says when it
  is read as a header.
* `HttpConstants`: there are finitely many data, references carry checksums, and
  "no checksum" is none.
* `FuseConstants`: trees are file systems (parents are directories, a leaf has an
  address and a content), and an external file is as long as its object.
* `LayersConstants` (*Layers*): the paths and link targets of entries are sequences of
  names.
* `ImageConstants` (*ImageBuild*): entries have the stats and contents that `get_entry`
  makes, with the data in the tree up to the size from which a scan stores an object too, which
  is not more than a line of a dumpfile may have;
  an object's identifier is that of one data, and neither empty nor "-"; names have an order, and `run` and `a`,
  the directory that a host mounts there, are among them; the host's label is not one of the
  attributes that a container keeps; and what is cut short is shorter.
* `Lengths` (*ImageBuild*): how long "", "-" and the host's label are; the prover knows
  nothing of the characters of a string.
* `DeployConstants`, `EntriesAreEntries`, `DigestsAreDigests` (*Deploy*): the nodes of a
  container have the fields of nodes and its arguments are sequences; the files that a
  `.conf` file names are no loader entries, so that writing them cannot replace one; the
  data of a UKI are no error; the mounts that setup-root is configured with are those that its
  parser accepts; every image has an identifier, which is neither "?" nor an error.
* `ContainersAreTrees` (*DeploySafety*): a container's paths are sequences of names that
  a directory can order, what is above a path is a directory, all links of a leaf are the
  one leaf, and the files of a policy are sequences of rules and of aliases.

### How the proofs go

None of the properties is inductive by itself.  What each needs beside it:

* *Repository*.  The guarantees speak of all that a reader comes to (`Content`, the
  closure of the named references); the invariant speaks of one link at a time, and a
  lemma on least fixed points carries the one to the other.  `LocksHeld` gives that a
  collector is alone.  `KnownLinked`, `NamedLinked` and `WritesPrepared` give that a
  stream is linked only when everything it names is.  `RootsMarked`, `MarkingSound` and
  `SweepSound` say that the marked objects are closed under what a reader follows from
  the moment the walk has ended, so that the sweep leaves every marked stream whole;
  `EntriesPresent` excepts what the sweep is taking away.  For `CollectionExact` the
  converse is needed too (`LiveReached`: what is marked is reached).
* *Repository* with faults.  A stream may be linked without its objects, so all that
  speaks of completeness is gone.  `SpareInv` is what is left: a link is there for
  whatever a session knows or a stream names (`LinksSound`), and what a gc has marked
  when it sweeps contains its roots and is closed, because a gc that does not find a stream it
  walks to fails before the sweep (`Marks`).
* `IsCatalog`.  A stream is published by `LinkStream` and named by `LinkRef`, `EnsureRef` or
  `name_stream`; a whole collection is one step, `GcMarked`, with which the marking ends: from
  then on a stream counts as available only if it is marked (`Available`), so the sweep
  takes away nothing that is.  That the marked streams are closed under what they name, and that
  those whose links are cleaned up at last are just the others, is what `IInv` gives.
* *ReplaceSymlink*.  The link that a call renames is the one it made (`TempsApart`).
* *ObjectStore*.  Each task's place in the code agrees with the object's file (`Holds`,
  `Prepared`, `Recent`, `Route`): what was found, linked or sealed by whom, and which
  of it a power failure can still take away (`Unharmed`).
* *TarSplit*.  `split` is a fold; an import is compared with it not at the end only but
  wherever it stands.  `ComesTo` says that `split` gets from the bytes of the archive to a
  rest and a writer in some number of entries.  Between two entries (`Between`) the rest
  is what the import has not read, and the writer what its builder's entries give when
  they are replayed with what each task holds for its file; in a large file (`InFile`) the
  same holds before its header, and header and file so far are on top.  Both hold only
  while no task has failed: an import one of whose tasks has failed can read
  anything, and it stores nothing because `finish` awaits that task (`Going`, `WellStored`).  `AllHeld` is that no byte is lost,
  `Counted` that each missing permit is with a task.  That the rest always begins at an
  entry (`Aligned`) is why a block that is read as a header is one.
* `SplitMerges` is about `split` and `cat` alone.  What a writer's chunks spell, with the
  inline buffer behind them (`Spelled`), grows by exactly what each of its methods is given
  (`KeepsAll`); an entry passes on all that it takes from the input; and `cat`, which
  has only the integers in the file, reads for each chunk what was written there, because
  those that are not negative are indices of `object_refs` (`Refers`).
* `StoredStreamsRead` follows two programs at once.  `split` writes an entry in one to three
  pieces, header, file and padding, inline or as an object; a reader between two entries
  has read what the writer had written between the same two (`WrittenInto`, `Reads`), so that a
  call of `get_entry` finds what it asks for.  A long name is an entry of the
  archive and none of the caller's: `DescribedAfter` carries the pending name, and the result of `get_entry`
  is compared with it turn by turn.  It speaks of archives that are not cut off and `Readable`:
  the cases that `get_entry` refuses although `split` takes them are listed in section 3.
* *Layers*.  In a tree every node is in a directory (`IsTree`), which all operations of
  *Tree* keep.  The stack is defined from the list of entries, and the proof shows how it
  changes when the list grows by one: what the new entry hides, what it replaces, and
  that `process_entry` does just that to the tree (`StackGrows`).  The origin of a hard link
  is a recursion on entries; it ends because a link that is accepted has an entry
  before it (`Resolved`).  `WellOrdered` is about all entries, and if it holds for a list it did
  for each beginning of it (`OrderedBefore`).
* `ScansStayTrue` compares two ways to a tree node by node.  `ImageIInv` says what a
  tree of entries consists of (`Fits`).  From that, a file that is read whole is read as the content that was written
  (`FileReads`), the filter undoes the host's label (`InodeReads`), and
  `transform_for_oci` and the filter may be swapped: the one changes the times and stats of
  directories, the other their attributes, and what the host has below `/run` is what the transformation
  clears (`MountAgrees`).  A file that is not read whole differs in its own content alone
  (`CutShortAgrees`), and an object is then shorter than its size says (`CutShortIs`).  That unpacked hard links are apart is that a walk gives each path
  one number (`InOrderIs`).
* `DumpsReadBack` goes by lines.  `LineSays` is what a line has of its node and when it can be
  parsed: a leaf whose link is not the first becomes a line without numbers, so all lines
  are parsed exactly if the tree is `Dumpable` (`AllParsed`).  The lines are written in a walk, in which a
  directory comes before what is in it, so that each line that can be parsed can also be added, and
  the first lines make a part of the tree (`LineAdded`, `ReadsPart`).  At the end the part is the
  whole, and a node of it has the stat and content of the tree's, because escaping loses nothing
  but what `Mistaken` names (`AttrsKept`, `LeafLine`).
* *OciPull*.  Two processes meet in one repository, so a task's knowledge is about
  streams that others may register too: they come to the same object because an
  object is what it was made from (`LayersVerified`, `Canonical`; `Complete` for configs, sealed or not).  `DoneLayers` and `DoneConfigs` say that
  what a process has in hand is registered; `Permits` counts tasks.
* *HttpDownload*.  `Traversal` is that of a worklist: whatever a stream that was read
  refers to has been read, is on the list or has a task; `Verification` and `Fetching`
  say which of it has been checked against which checksum.
* *FuseServer*.  `Noting` says that `inodes` and `attrs` map a number to the leaf whose
  address it is, `Knowing` that the kernel's numbers are noted; `Listing` and
  `Handling` tie an offset to the part of a sorted listing that was given, `Reading` a handle to
  its file.
* *Deploy*.  What a process still has to write is a part of the plan of its
  container (`ProcessesAgree`), and each file of the partition was written by somebody whose
  plan has it (`WritersAgree`, `FilesWritten`, `EntriesWritten`).  That the files come
  before the entry that leads to them follows from the order of writing; that they are
  in the plan, from what `relocate` does to the lines of an entry, a fold whose
  steps `RelocationSteps` and `AddingSteps` unroll.
* `DeploymentsBoot`.  `DInv` says of each process that its plan is the one its job and
  container give and, as long as nobody else has it in a plan, that what it wrote is
  there.  The rest is about one plan: whatever was on the command line, the first argument that
  setup-root looks at is the one that `adjust_cmdline` has put in (`ImageLeads`), no later one is put in its
  place (`ImageStays`), and a relocated entry names the same contents (`RelocateKeepsContent`).
* `ImagesAreTrue` is about `transform_for_boot` alone.  A label changes nothing else in a
  node (`LabelIs`) and emptying a directory nothing outside (`EmptiedIs`).  The code looks for the last match in all
  rules, one file after the other, the property for the last file that has one
  (`LastOfBoth`).  The code replaces aliases while it puts a path together, the property in the
  whole path; they come to the same because what was replaced ends where the lookup stands
  (`KnownSteps`, `LookupIs`).  Of several names the last that a walk visits gives the label, and there is one
  because `VisitedBefore` is a total order (`LastVisited`).

Induction over data is done in the form of sets: a recursive function, or a fold
after its definition by `CHOOSE` has been taken apart, is unrolled to a function on
`0 .. n`, and a property of its values holds at every index because the set of indices
at which it holds contains 0 and successors (`IndexInduction`, `Iteration`).

### What is only model-checked

* Liveness: that gc, stores, imports, pulls, downloads and listings end.  These need
  `ENABLED` and fairness, which the prover does not reason about.
* *TarSplit*: its inductive invariant speaks of functions on the entries (`ComesTo`), too
  many for TLC to try; TLC checks what follows from it.
* `ImageIInv` quantifies over all stats and contents, which TLC cannot enumerate; TLC checks
  `ScansAgree` and `DumpReadsBack`, which follow from it.
* `CollectsObjects`, `ImageHoldsTree`: what `mkfs_erofs` lays out in its two passes and what a reader
  finds there is computed by several recursive functions over inodes, attributes and blocks; no
  proof of them has been tried.
* `ClaimTag` and `ClaimDigests`, which are violated.

## 5. What is not modelled

* A write and a gc through the same `Repository` from two threads: the flock does
  not keep them apart, and no caller does it.
* A content identifier that is bound to another object later on.
* Power failure for links: `unsynced` is about data, and `write_image`, which does
  not sync, has no property about it.  Nothing in `write_boot` syncs either; *Deploy* has
  kills and no power failure.
* What `gc_dry_run` and `gc` report; `has_named_stream`.
* The kernel's fs-verity, `flock`, `syncfs`, overlayfs and mounts, the boot loader and
  skopeo's proxy are modelled from how the code uses them, or not at all.
* Named references and the file header of splitstreams; of tar entries, links,
  devices and PAX headers (*Layers* takes them as `get_entry` would give them).
* Erofs: narrowing of lengths to 8 and 16 bits; more than one chunk format; the name
  filter.  `debug.rs` and `erofs-debug` print.
* Dumpfiles: escaping of characters, the syntax of numbers.
* FUSE: `readlink`, extended attributes.
* Boot: `boot_subdir` (no caller in the repository gives one), what two files of one entry
  with the same base name contain (`EntriesLead` covers that they are there), the PE format, os-release, regular expressions.  An image in
  *Deploy* is not written by *ErofsWriter*; its tree has an identifier.
* Root setup: the single mount calls; `mount.rs`, `mountcompat.rs`.
* Digests: model values.

## 6. What could come next

* Proofs: the image (`CollectsObjects`, `ImageHoldsTree`), which needs lemmas on the two passes
  of the writer.
* Models: power failure for links and images; the counts of a dry run; named references
  of splitstreams.

No module that is proved about uses a RECURSIVE operator: what would be recursive is
a least fixed point (`Follows`) or a function.
