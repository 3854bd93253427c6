# EFS-Tools for Android in TLA+

EFS-Tools encrypts directories of an Android device with ecryptfs: `libefs`
(`src/src/lib/efs`) creates, unlocks, locks, restores and removes one encrypted
storage; `lib/user_data_encryption` does so for the two storages of an Android user;
`efs-server`, `efs-tools` and vold call both. This directory models the library, its
files and paths, the server and its clients, checks them with TLC and proves parts of
them with TLAPS.

## 1. The system

| component | state it keeps | operations | interacts with |
|---|---|---|---|
| EFS storage API (`efs.c`) | none of its own: storage directory, private directory `.name`, key file, recovery directory | `EFS_create`, `EFS_unlock`, `EFS_lock`, `EFS_change_password`, `EFS_remove`, `EFS_recover_data_and_remove`, `EFS_get_status`, `EFS_get_progress` | everything below |
| mount utilities (`mount_utils.c`) | kernel mount table | `mount_ecryptfs`, `umount_ecryptfs`, `check_fs_mounted` | key chain, crypto header |
| key chain (`key_chain.c`) | root's user keyring | add and remove a token | mount utilities |
| crypto header (`crypto.c`) | the key file | generate, read, write, `check_passwd`, `change_passwd` | key store paths |
| key store paths (`key_store.c`) | none | private, recovery and key file path of a storage path | all callers |
| file utilities (`file_utils.c`) | the files | list, copy, remove a tree; sizes, free space, progress | storage API |
| Android user encryption | two storages per user, services, properties | encrypt, unlock, lock, change, decrypt, remove, status | storage API, process killing |
| init library (`init.c`) | copied header, properties | detect encrypted users at boot | Android user encryption |
| efs-server, edc, Java `EFSService` | socket | one command, one answer | all of the above |
| efs-tools, vold commands | none | the same calls from other processes | storage API |

What makes them right, and what is hard:

- **Storage API.** A stored item is at every moment in the clear or in ciphertext that
  the key file opens; the plaintext goes last; the status `COMPLETED` is written last;
  a mount needs the password; a call that returns 0 has done what it promises. Hard:
  every call is twenty or more system calls, each of which may fail; the device may
  restart between any two; the library has no lock and three programs call it.
- **Mount utilities, key chain.** The tokens in the keyring are those of the mounts; a
  mount is counted as such however `/proc/mounts` is read. Hard: error values that
  compare like "not mounted", partial failures between keyring and mount.
- **Crypto header.** Key and status survive a change of password, and the other way
  round; no key is stored in the clear, and a wrong password or half a header opens
  nothing. Hard: two read-modify-writes of one file without a lock, written in place.
- **File utilities.** Copies and removals treat directories before and after files, go
  on or stop after a failure as their callers expect, and end.
- **Key store paths.** Different storages have different derived paths, and one storage
  has the same ones however it is spelled. Hard: trailing slashes, the hash of a prefix,
  names that begin alike, one recovery directory name for two storages.
- **Process killing.** The lock of a user finds everyone who keeps its storages busy and
  nobody else. Hard: a path that is the beginning of another; programs that come back.
- **Android user encryption, init.** Both storages of a user are in the same condition
  after each call, and the services run again. Hard: failures between the two
  storages, retries, restarts in the middle.
- **Server and clients.** What a client is told is about its own command and true; the
  commands of the framework are carried out in their order. Hard: timeouts shorter than
  the operation, a command answered twice, a server that dies.

`PROJECT.json` lists each component with its status and every hazard at its line.

## 2. Modules

    EfsStorage              one storage and the processes that call the library on it
    EfsInvariants           the inductive invariants of the proofs
    MCEfsStorage            its TLC instances
    EfsInvariants_proofs    any number of processes: types, no mount without its password,
                              creating, unlocking and locking loses nothing; one caller:
                              all six calls keep their promises
    EfsCalls                the outcomes of one API call on a storage
    SecureStore             the storage as its callers see it
    EfsRefinement           EfsStorage implements SecureStore
    EfsRefinement_proofs    ... for every value of the constants
    MCRefinement            its TLC instance
    KeyFile                 the key file as EfsStorage has it
    CryptoHeader            crypto.c: header, cryptography and the file written in place
    CryptoHeader_proofs     what is stored is sealed, what is accepted is genuine, and
                              CryptoHeader implements KeyFile
    MCCryptoHeader          its TLC instance
    FileTree, MCFileTree    file_utils.c: list, copy, undo and remove a tree
    FileTree_proofs         a move loses nothing, fails only by a fault, and is complete
                              or undone
    SequenceFacts           lemmas about lists and queues, least and greatest indices
    StoragePaths,           key_store.c, mount_utils.c and process.c on several storages
      MCStoragePaths          by the names callers give
    StoragePaths_proofs     paths derived from two names never meet; whom a lock kills
    AndroidUser             the two storages of an Android user
    MCAndroidUser           its TLC instances
    AndroidUser_proofs      the storages stay in step, and the calls keep their promises
    EfsServer               efs-server, edc and the framework's EFSService
    EfsServer_proofs        answers and their order, for any clients

How they hang together: `EfsStorage` takes an item of the tree as one step (what happens
inside is `FileTree`), a storage as given (which directory, key file and mount line that
is, is `StoragePaths`) and a header as key, password and status (that `crypto.c` is that
is `KeyFile`, implemented by `CryptoHeader`). `AndroidUser` is built from the outcomes in
`EfsCalls`, which `EfsRefinement` shows `EfsStorage` to have. `EfsServer` calls any of it.

### EfsStorage

One storage: the directory **S** the applications use, the private directory **P** with
the ciphertext, the recovery directory **R**. `plain` is what lies in S itself, `enc[i]`
the key under which P holds item `i` (or `NoKey`, or `Clear` for an unencrypted file),
`hdr` the key file (`struct crypto_header`: master key, the password that opens it,
status), `mtab` the ecryptfs lines of `/proc/mounts`, `keyring` the tokens. What a path
shows is resolved through the topmost mount over it (`Visible`, `Put`, `Drop`,
`CanRead`). For every process, `pc` is the library step it is about to take, `call` the
API call with its arguments, `phase` the error path it is on, `hcopy`, `work` and `bad`
the locals (header copy, file list, "a removal has failed").

Each action is one system call, or the group of calls between which nothing shared is
read again, in the order of the code:

| code | actions |
|---|---|
| `EFS_create`, `generate_crypt_info`, `encrypt_storage` | `CreateChecks`, `MakePrivateDir`, `WriteNewHeader`, mount, copy, unmount, remove, `ReadForStatus`, `WriteBack` |
| `EFS_unlock` | `UnlockChecks`, mount |
| `EFS_lock` | unmount |
| `EFS_change_password`, `change_passwd` | `ReadForChange`, `WriteBack` |
| `EFS_recover_data_and_remove` | `RecoverChecks`, `MakeRecoveryDir`, mount, copy, unmount, `RemoveRoot`, then `EFS_remove` |
| `EFS_remove` | `RemoveChecks`, remove, `RemoveRoot`, `UnlinkKeyFile` |
| `mount_ecryptfs` | `MountCheck`, `MountOpen`, `MountKeys`, `MountFs` |
| `umount_ecryptfs` | `UmountCheck`, `Umount`, `UmountKeys` |
| `copy_dir_content` | `ListForCopy`, `CopyItem` per item, `CopyEnds` |
| `remove_dir_content`, `remove_dir` | `ListForRemoval`, `RemoveItem` per item, `RemovalEnds`, `RemoveRoot` |

`MountDone`, `MountFailed`, `CopyFailed`, `UmountDone`, `RemoveDone` and `RmdirDone` say
how the caller goes on, which depends on the call and on the phase: `forward`; `nocopy`,
the clean-up after a failed copy; `nomount`, the clean-up of a recovery whose mount
failed; `destroy`, the removal of the ciphertext. A system call that may fail does so by
`Fault(kind)`, one kind per call, bounded by `MaxFaults`. `Kill`, `Reboot` and `AppWrite`
are the environment.

Outside `src/`, and modelled from how the library uses it: ecryptfs shows an item through
a mount with the mount's key; `mount(2)` wants both tokens and no ecryptfs below; a mount
outlives the removal of its device directory with nothing behind it; `umount(2)` takes the
topmost mount of a path; keyring and mounts vanish at a restart.

Abstractions: an item (a file or a directory) is copied or removed in one step (`FileTree`
has the steps); a header is written in one step, or not at all (`CryptoHeader` cuts the
write off); the disk is written at once (no page cache, so a power
loss is a restart); `/dev/urandom` never repeats a key; modes, owners, labels and times
are left out; the password check is exact.

### EfsCalls, SecureStore, EfsRefinement

`EfsCalls` says what a call of the API does as a whole: `Create(x, pw)`, `Unlock`, `Lock`,
`Change`, `Remove` and `Recover` are the sets of outcomes on a storage `x`, each with the
storage it leaves, the code it returns (`ok`, `err`, `positive` for the status 1 of an
unlock, `none` for a caller that died) and whether a system call failed on the way.
`SecureStore` is the storage with these calls as single steps. `EfsRefinement` adds to
`EfsStorage` what the storage was when the call began and how the last call went, and maps
a running call to the storage before it: `ImplementsSecureStore` is `Store!Spec`. Nothing a
caller builds on `EfsCalls` has to look at system calls again.

`EfsCalls` does not cover two failures: a `/proc/mounts` that `mount_ecryptfs` cannot
read (a mount is stacked on a mount, section 4), and a failing `chown` of a mount point (a
recovery then removes the recovery directory with the ciphertext visible through it). A
caller that goes on calling after either meets states outside `Storage`.

### KeyFile, CryptoHeader

`CryptoHeader` has `struct crypto_header` with five of its six fields: `username`, which is
digested with the keys, names the user the storage is for and is the same in every header of
a storage. A buffer is what it contains and the keys it is sealed with: `decrypt_buffer` with the key on top takes it off,
with any other yields `Junk`. PBKDF2 is the pair of password and salt, SHA-512 of the keys
and the salt is `Digest`. What is generated is named after its salt: `/dev/urandom` never
repeats one.

| code | in the model |
|---|---|
| `generate_crypto_header`, `generate_crypt_info` | `Fresh`, `MakePrivateDir`, `Generate` |
| `encrypt_crypto_header`, `decrypt_crypto_header`, `check_passwd` | operators of these names |
| `read_crypto_header` | `Reads`, `ReadFails` |
| `change_passwd`, `EFS_set_status` | `ReadForChange`, `ReadForStatus` |
| `write_crypto_header` | `WriteHeader`; `CutOff` if it does not get to its end |
| `get_crypto_header`, `mount_ecryptfs`, `add_ecryptfs_keys` | `OpenHeader`, `AddKeys` |
| `EFS_remove` | `RemoveDir`, `UnlinkKeyFile` |

A cut-off write leaves the first bytes of the new header before the rest of the old one
(`Overwritten`), cut between two fields or within one. `KeyFile` is the header for the
rest of the library, a key, the one password that opens it and a status, and
`ImplementsKeyFile` is `Abstract!Spec` under `SeenFile`, which opens the header with
whatever password does, and `SeenCopy`. Three things in `KeyFile` are no promise but what
there is: a write-back may overwrite what another process has written since the copy was
read; a cut-off change of password may leave a header that no password opens; and a header
that no password opens, written over another one and cut off again, may join halves that
belong together, so that the file opens for a pair of key and password it was once `given`
(`Torn`, the third set).

### FileTree

The content of one directory is copied into another and then removed; a failed copy is
removed again. That is `encrypt_storage` in one direction and a recovery in the other.
`generate_file_list` is `ReadEntry` (in any order, going down into a directory as it is
found) and `CloseDir`; `create_dirs` is `MakeDir`, from the end of the list it built
backwards; `copy_files` is `CopyLink`, `OpenCopy`, `CopyBlock`, `CopyEnds`; `delete_files`
is `RemoveFile` and `RemoveDir`, which go on after a failure (`bad`). Mode, owner, label and
times are one attribute. Every system call may fail, a write also half-way (`Fault`).
Left out are sockets, FIFOs and devices (the copy fails on a socket and waits for a writer on
a FIFO), and the modification times of directories, which the files copied into them change
after `create_dirs` has set them.

### StoragePaths

A path is the sequence of its slashes and of the pieces between them, so that `/data/user/1`
is a beginning of `/data/user/10`. `Stripped`, `PrivatePath`, `RecoveryPath` and `KeyName`
are what `key_store.c` computes from a caller's path; `Resolve` is the directory it leads to.
`Call(p)` is `sanitize_storage_path` and one of the calls of `efs.c` as a whole, for any
spelling `p`; `LockUser`, `Kill`, `LockTry` are the loop of `android_lock_user_data` over
`killProcessesWithOpenFiles`, while programs `Open` and `Close` files. `Lines` is the
search in `/proc/mounts`, in both columns, which goes by the *spelling* of the private
path.

Two things outside the properties: a path with a slash repeated in the middle
(`/data//a`, which `get_storage_path` would take for another storage's name) is not among
the spellings; and of a directory in `/` the private path comes out as `./a`, the storage
itself (`AtRoot`): `EFS_create` refuses it as existing, and `EFS_remove` deletes it, files
and all (`key_store.c:61`, `Discard`).

### AndroidUser

One user, primary or not, with the storages `data` (`/data/user/N`) and `media`
(`/data/media/N`). A call of `android_user_encryption.c` is the sequence `Program` of its
steps, and `pc` an index in it; a step on the storage API takes one of the outcomes of
`EfsCalls`.

| code | in the model |
|---|---|
| `android_encrypt_user_data`, `android_encrypt_primary_data` | `Program`: stop, create twice, `UnlockBoth`, start; for the primary user sizes, create twice, restart |
| `android_unlock_user_data`, `android_unlock_primary_user` | `UnlockBoth`: `FindStorage`, `Wipe`, `EfsCall`, `ProbeStorage`, `Wipe`, `EfsCall`; `CheckCopy` for the primary user; `unlock_init` is `from_init` |
| `android_lock_user_data` | `EfsCall`, which a failing lock repeats; `LockMiss` |
| `android_decrypt_user_data`, `..._primary_user_data` | lock and recover twice, in the order of each |
| change, remove | one `EfsCall` per storage |
| `android_get_encrypted_user_status` | `ReadStatus` twice |
| `android_stop_services`, `android_start_services`, `vold.decrypt` | `StopFramework`, `StartFramework` on `framework` |
| `android_restart_framework` | `RestartFramework` |
| `android_check_user_encrypted`, `android_check_primary_user_encrypted` | `Detected`, `Booted` in `Reboot` and `Restart` |

An error below 0 ends the call where it is (`Return`), a positive one does not. The recovery
directory `/data/lost+found/N` is one for both storages (`Leave`). `LockMiss` is the lock of
the primary user's data: `/data/user/0` is a link to `/data/data` (outside the repository;
the decryption unmounts `/data/data`, `android_user_encryption.c:538-543`), and the lock
looks for the link's name among the resolved paths. The ghosts are `data`, what the user
keeps in each storage, and `troubled`: a call that returned an error, died or was cut off
has left something behind.

Assumed of the environment: one call at a time (efs-server is one thread); while the boot
asks for a password there is only that answer, or a restart of the framework for another
user; applications store items between calls, while the framework runs. The last is exact for users other than the primary one, whose
encryption stops the framework; those of the primary user are killed, not stopped, and one
that is restarted during the encryption meets the gap of section 3. Killing the processes
with open files, sleeps, wake locks and properties shown to the user are left out.

### EfsServer

The framework has one connection (`Java`) for all its threads, an `edc` process one of its
own. `inbox` and `outbox` are the sockets' buffers; a command bears the number of its
sending, as in the protocol.

| code | actions |
|---|---|
| `EFSService` and `NativeDaemonConnector` | `Execute`, `ReadAnswer`, `TimeOut`, `Reconnect` |
| `edc.c` | `RunTool`, `ToolEnds`, `Interrupt` |
| `SocketListener` (outside `src/`) | `Select`, `Close`, the reading in `Accept` |
| `CommandListener::EFSCmd::runCommand` | `Accept` (permission, number of arguments, name), `Complete` |
| death of the process, init | `Die`, `Restart` |

`Accept` keeps a slip of the code: an unknown command is answered with 500 and then with
200 0. No client misreads it, as each takes the first answer of its command. Left out:
`edc` aborts on a command of more than 254 characters, drops an answer split over two reads,
and exits with 0 whatever it is told (`edc.c:154-155`).

## 3. Runs

| run | instance | shows |
|---|---|---|
| `implements` | 1 process, all 6 calls, passwords A, B and one too short, 2 keys, 1 failure of 16 kinds, 1 kill, 1 restart, applications write between calls | `ImplementsSecureStore`: the steps are the calls of `EfsCalls`; what each call promises on returning 0 (`CreateContract`, `LockContract`, `ChangeContract`, `RecoverContract`), `PasswordKept`, `CompletedStays`; `OneKey`: no ciphertext under another key than that of the key file; `DestroyOnlyRecovered`; `OnlyCleanupLoses`: without a failure or a death no item is lost, and with one only by the clean-up of a recovery; `NoResidue`, `TypeOK` |
| `creation` | 2 processes; create, unlock, lock with 2 passwords; 1 failure of 18 kinds, 1 kill, 1 restart | `KeepInv`, the invariant of the proofs, and what is proved from it: `Durable`, `NothingInClear`, `SealedOnlyWhenDone`, `WipeOnlyEncrypted`; `PasswordGate`: a mount comes up only by a caller whose own password opens the key file as it stands; `UnlockContract`; every call returns (`CallsReturn`) |
| `header` | 2 processes, 2 passwords, material for 2 headers, 1 cut-off write, failure or death | `NoKeyInClear`, `MountedGenuine`, and `ImplementsKeyFile` |
| `paths` | users 1 and 10, both storages of user 1, a directory in `/`; 9 spellings, 2 programs, 2 attempts to unmount, 2 keys | `NoInterference`, `LockCloses`, `KillsOnlyHolders`, `GivesUpOnlyWhenOutrun` |
| `tree` | a directory in a directory, one next to them, files of 0, 1 and 2 blocks, a link; any 3 failures | `NothingLost`, `FailsOnlyByFault`, `DoneMeansMoved`, `CleanFailure` |
| `user` | a primary user and another, all 8 calls, 2 passwords, 1 mishap (a failed system call, a death, a call cut off by a restart), 1 restart | `Lockstep`, `FirstFailureHarmless`, `EncryptContract`, `DecryptContract`, `StatusTruthful`, `TypeOK` |
| `server` | 2 threads of the framework and an edc, 3 commands of any form, 1 death | `AnswersTrue`, `InOrder`; `ToolReturns` under fairness |
| `half_encrypted` | a user other than the primary one, encrypt and the unlock at boot, 1 mishap, 1 restart | violation: `UnlockOpensBoth` |
| `mounted_remove` | 1 process, no failures | violation: `RemoveContract` |
| `retried_recovery` | 1 process, one failing `remove(3)` | violation: `Durable` |
| `long_paths` | two storages whose paths begin with the same bytes | violation: `NoInterference` |
| `overlay` | `tree` without failures, and an older, longer file at the destination | violation: `DoneMeansMoved` |

**Bounds.** Two items, one directory and one file: `Dirs` and files are treated in a
different order, and with one of each every partial copy and removal of two items
appears. Two keys let a storage be created a second time after a removal, so that old and new
ciphertext can meet; two passwords allow right, wrong and changed. One failure puts every
error path of every call into the runs, with any call after it, and the death of the caller or
a restart is a second thing to go wrong on that path; for any number of failures there are the
theorems of section 5. One kill and one restart put a crash between any two steps and a full
call after it. Two processes are the smallest
number that interleaves; the proofs hold for any number. A creation starts only while an
unused key is left (`KeyLeft`), the only guard the code does not have.

In `user` each storage holds one directory, the item a second recovery fails on; the partial
copies of two items are inside `EfsCalls` and checked by `implements`. One mishap is what `FirstFailureHarmless` is about,
and after it every call can still be made; one restart puts the boot after any call and any
mishap. The passwords are symmetric in both (in `implements` those that are long enough), and the
keys in `implements`: no definition names one of them; in `header` processes, passwords and keys are.

`header`: two processes interleave, two keys let one creation follow another, and one cut
reaches every torn header. The torn header that is rewritten for its status and cut off over
another torn one, and comes out whole, takes three processes and three cuts: it is out of
the run's reach, and in that of the proofs, which hold for any number.

`paths`: 1 and 10 begin alike and `/data/user/1` and `/data/media/1` end alike, the two
ways derived names could meet; with two attempts and one file opened meanwhile the killing
is outrun or not. `HashLen` is 64 there, above every path, and 5 pieces in `long_paths`, where
the pieces stand for 64 bytes of a path. `tree` has every kind of neighbour in the order of
the lists (a file and a directory in a directory, an empty file, one longer than a buffer);
three failures reach one in the copy, one in the undoing and one more. `server`: three
commands are one given up, one after it, and one of edc in between.

The deadlock check is off for `tree` and `overlay`, which end, and for `server`, where the
bound on commands lets everyone stop.

**Fairness.** `CreationSpec` (`FairSpec` with the steps of create, unlock and lock, from a
directory that holds every item) is weakly fair for the next library step of each process: a
process in a call is scheduled and its system calls return. `umount` is tried five times
and given up, so no step waits for another process. Nothing is assumed of the callers,
of applications, failures or restarts. In `EfsServer` it is weak fairness of `Serve` (the
listener's thread runs, and library calls return, which is `CallsReturn`) and of each edc's
reading; that a server that has died comes back is not assumed, since edc then ends on EOF.

**Scope of the runs.** Some properties fail outside the instances above, and the runs are
chosen so that this is visible rather than hidden:

- create next to change (two processes): `change_passwd` writes its copy of the header
  back over the header of a new creation, and with one failure `Durable`, `PasswordKept` and
  `CompletedStays` fail; hence `creation` has no change and `implements` one process;
- recover next to another call: the checks of `RecoverChecks` are stale when the copy
  starts, `RecoverContract` and `NothingInClear` fail;
- `implements` leaves out two failures. With `/proc/mounts` unreadable to
  `mount_ecryptfs` (`proc_mount`) the -1 of `check_fs_mounted` counts as not mounted
  (`mount_utils.c:231`): a second mount is stacked, `EFS_lock` takes down one of the two and
  returns 0 with the storage still readable, and `unlock_user_data`, which makes the same
  comparison (`android_user_encryption.c:403`), empties the storage through the mount. With a
  failing `chown` after the mount (`efs.c:519`) a recovery takes the mount for failed and
  empties the recovery directory with the ciphertext visible through it;
- a recovery that fails is not always safe to try again (`retried_recovery`), and one killed
  while P is mounted on R makes `EFS_unlock` return 0 without mounting S
  (`mount_utils.c:231-234`); one after an interrupted creation recovers what had been
  copied and destroys it. `DestroyOnlyRecovered` speaks of the recovery that destroys, not of
  the next one;
- `EFS_remove` of an unlocked storage logs an error and returns 0 with private directory
  and key file in place (`efs.c:413-416`), where the comment promises 0 on success
  (`efs.c:382`) and `src/test/README:65` that the ciphertext is gone: `mounted_remove`.
  `EfsCalls` has it as an outcome of `Remove`, as `AndroidUser` builds on what the code does;
- a mount is for a password that was right when `mount_ecryptfs` checked it
  (`mount_utils.c:248`): with a change by another process between the check and `mount(2)`
  the old password still mounts, and `PasswordGate` fails; `creation` has no change, and one
  caller has nobody in between;
- a token that cannot be removed makes `EFS_lock` return an error with the storage closed
  (`mount_utils.c:343-354`). The next lock finds nothing mounted and returns 0: a token stays in
  the keyring, as it does after a failed mount. `NoResidue` is about sequences without failures;
- a torn header can be written back, and two cuts later open again (`KeyFile`, section 2);
- `InOrder` is about one connection: the unlock of an edc that was interrupted can still be
  carried out after a later lock by the framework;
- a command that timed out or failed may have been carried out: `OperationFailedInternalError`
  says neither. And `get_progress`, meant for the time an encryption runs, is read when it has
  returned (`CommandListener.cpp:107`);
- `StatusTruthful` is about the key files: a user whose removal stopped between private
  directory and key file still reads "completed";
- `Lockstep` ends with the first call that fails half-way: a change of password that fails on
  media, a recovery that fails on media, an unlock that fails on media leave a user whose
  storages differ, and no call brings them together again. `FirstFailureHarmless` is about
  that failure and not about what follows: `half_encrypted` shows a call after it that loses
  data. For the primary user it ends with a lock too (`LockMiss`);
- after an unlock of storages that are open the framework of the primary user stays down
  (`android_user_encryption.c:284-287`), so `Lockstep` does not ask for it;
- a file created by an application between listing and wipe is deleted unencrypted
  (`AppsDuringCalls`); the framework is stopped during the encryption of the users other
  than the primary one, which is why the runs let applications write between calls only.

## 4. Findings

- `mounted_remove`: `EFS_remove` of an unlocked storage returns 0 and removes nothing
  (`efs.c:413-416`), against its comment and `src/test/README:65`.
- `retried_recovery`: a recovery that fails in its last part and is called again deletes
  the files it had recovered: `mkdir` fails on the recovered directory and the clean-up
  empties the storage (`efs.c:523-530`), while the ciphertext is already gone.
- `half_encrypted`: after an encryption that was cut off while it created the media storage,
  the boot finds both key files and asks for the password; `android_unlock_user_data` empties
  the media directory, which holds the only copy, takes the status 1 of `EFS_unlock` for
  success (`android_user_encryption.c:408-418`) and returns 0 with media closed.
- `long_paths`: the key file is named after `sizeof(hash)` bytes of the path buffer, 64, not
  after the path (`key_store.c:173`): the creation of a second storage whose path agrees in
  them overwrites the master key of the first.
- `overlay`: a copy is opened without `O_TRUNC` (`file_utils.c:467`); over an older, longer file
  it leaves a mixture, returns 0, and the caller removes the source.

## 5. Proofs

All theorems hold for every value of the constants that satisfies the named assumptions of
their modules (`ItemsAssumption`, `PasswordAssumption`, `KeyAssumption`, `OpsAssumption`,
`StoreAssumption`, `UserAssumption`, `HeaderAssumption`, `TreeAssumption`,
`PathsAssumption`, `CallersAssumption`, `ClientAssumption`, `BoundAssumption`): any number
of processes, clients, items, keys and passwords, any tree, any paths, and any bound on
failures, deaths and restarts.

| module | theorem | states |
|---|---|---|
| `EfsInvariants_proofs` | `TypeCorrect` | `Spec => []TypeOK` |
| | `KeepCorrect` | `Spec => [](TypeOK /\ KeepInv)` under `KeepingOps` |
| | `DurableWhenKept`, `EncryptedWhenKept` | `Spec => []Durable`, `Spec => []NothingInClear` under `KeepingOps` |
| | `WipeWhenKept`, `SealWhenKept` | the action properties `WipeOnlyEncrypted`, `SealedOnlyWhenDone` under `KeepingOps` |
| | `PasswordGateWhenKept`, `PasswordGateOneCaller` | `Spec => PasswordGate` under `KeepingOps`, and for one caller of all six calls |
| | `SoloCorrect`, `OneKeyCorrect` | `Spec => [](TypeOK /\ SoloInv)`, `Spec => []OneKey` under `OneCaller` |
| | `LockContractCorrect`, `ChangeContractCorrect`, `PasswordKeptCorrect`, `CompletedStaysCorrect`, `DestroyOnlyRecoveredCorrect` | `Spec =>` the action property of that name under `OneCaller` |
| | `CleanCorrect`, `DurableCorrect`, `NoResidueCorrect` | `Spec => [](TypeOK /\ SoloInv /\ CleanInv)`, `Spec => []Durable`, `Spec => []NoResidue` under `OneCaller`, `Undisturbed` |
| | `CreateContractCorrect`, `UnlockContractCorrect`, `RecoverContractCorrect` | `Spec =>` the action property of that name under `OneCaller`, `Undisturbed` |
| `EfsRefinement_proofs` | `SecureStoreImplemented` | `HSpec => ImplementsSecureStore` under `OneCaller`, `~AppsDuringCalls` |
| `CryptoHeader_proofs` | `HiddenCorrect`, `GenuineCorrect` | `Spec => []NoKeyInClear`, `Spec => []MountedGenuine` |
| | `KeyFileImplemented` | `Spec => ImplementsKeyFile` |
| `FileTree_proofs` | `NothingLostCorrect`, `FailsOnlyByFaultCorrect`, `DoneMeansMovedCorrect`, `CleanFailureCorrect` | `Spec => []` the invariant of that name if `Stale = {}` |
| `StoragePaths_proofs` | `NoInterferenceCorrect` | `Spec => NoInterference` under `PlainNames`, `DigestCovers` |
| | `LockClosesCorrect` | `Spec => []LockCloses` under `PlainNames` |
| | `KillsOnlyHoldersCorrect` | `Spec => KillsOnlyHolders` under `UserStorages`, `Apart` |
| | `GivesUpOnlyWhenOutrunCorrect` | `Spec => []GivesUpOnlyWhenOutrun` under `UserStorages`, `Attempts > 1` |
| `EfsServer_proofs` | `AnswersTrueCorrect`, `InOrderCorrect` | `Spec => AnswersTrue`, `Spec => InOrder` |
| `AndroidUser_proofs` | `UserTypeCorrect`, `LockstepCorrect` | `Spec => []TypeOK`, `Spec => []Lockstep` |
| | `FirstFailureCorrect` | `Spec => FirstFailureHarmless` |
| | `EncryptContractCorrect`, `DecryptContractCorrect`, `StatusTruthfulCorrect` | `Spec =>` the action property of that name |

**EfsStorage, any number of processes.** `KeepingOps` restricts the calls to create, unlock and lock and the applications to the
time between calls: with change or recover the properties are false for two processes
(section 3), and remove destroys data on purpose.

`Durable` is not inductive: whether a step of a creation may remove a file depends on what
has been copied, on which key, through which mount. `KeepInv` adds, part by part, what the
code relies on without saying so:

- `ControlInv`: which step belongs to which call, and that the clean-up phase belongs to
  creations;
- `OneCreator`: `mkdir` of P is the lock that keeps creations apart. A process past it and
  not yet returned is a `Creator`, and there is one at most;
- `SealedInv`, `TableInv`: a completed storage has no creator, and only a completed one is
  mounted over S, with the key of the key file; so a creation never sees S mounted;
- `UnlockInv`: an unlock past its status check works on the key file as it stands;
- `CreationInv`: how far a creation is and where the data is by then: in the clear until
  the unmount, in both places after it, in the ciphertext during the wipe.

The proof has one lemma per action. Most steps touch one process and the keyring only
(`QuietStep`); shared steps of a creation use that it is the only one (`CreatorStep`);
mounts and unmounts of S use that the storage is completed (`SealedStep`).
`PasswordGate` follows from `GateInv`: from the check of the password to the mount the key file
opens with the caller's own password and holds the key the caller is about to mount. It is kept
because nobody writes the key file in between: a creation (`KeptWrites`, by `KeepInv`: the only
creator is not past its mount, and a completed storage has none), or, with one caller, nobody
else at all (`OneCallerWrites`). The mount table is searched for its first and
last matching line; that these exist (`MinExists`, `MaxExists`) is derived from the
well-foundedness of the natural numbers.

**EfsStorage, one caller.** `OneCaller` is one process, and any failures but two: a
`/proc/mounts` that `mount_ecryptfs` cannot read (a mount would be stacked on a mount) and a
failing `chown` of a mount point (a recovery would take the mounted for unmounted): after
either there is a mount the library believes is not there (section 3). Calls may fail, die and be cut off by
restarts as often as one likes. `SoloInv` has four parts: there is at most one mount, live
and with the key of the key file, and none without P (`ViewInv`); a key file that can be
read has a key that was generated (`HeaderInv`); `OneKey`; and of the caller `Mine`: where it
is (`PlaceInv`), what is mounted there (`MountInv`), that its copy of the header is the header
but for what it is about to change (`CopyInv`), and how much of the ciphertext a recovery
has brought back (`BackInv`).

`Undisturbed` excludes failures and deaths, and applications that write during calls;
restarts between calls stay. The contracts of create, unlock and recover need it, as does
`Durable`: after a call that failed half-way the next one loses data
(`retried_recovery`, section 4). `CleanInv` says for each step what status and directories are (`StageInv`), which tokens the
keyring holds (`KeysInv`) and where each item of `data` is (`DataInv`). The attempt to prove it showed what the run with two keys did not reach:
a storage of which a part lies in the clear can be removed, and what is in the clear stays;
so `RemoveChecks` gives up only what lies in P.

**The refinement of SecureStore.** A running call is mapped to the storage before it, so all
steps but the last are stutters and the last one has to be an outcome of the whole call on a
storage that may be long gone. `CallInv` carries what is needed there: `SoFar` relates, for
each call and each of its steps, the storage now to the one it `before` was, field by field,
and to whether a system call has failed since (`Fresh`); `TokensInv` says that the tokens of
a mount are in the keyring, without which an unmount would return an error that no failing
system call explains; `ListInv` that no stale `bad` survives. From `SoFar` alone follows that
the call may be interrupted where it is (`MayEndHere`): each storage in the middle of a call
is in `HalfCreated`, `HalfRemoved` or `HalfRecovered`. For every action one lemma shows `Goes`:
the step leaves the call running in `SoFar`, or it returns with an outcome, that of a failed
call only if one has failed. `StepSeen`, `KillSeen`, `StartSeen`, `RebootSeen` and
`AppWriteSeen` make steps of `SecureStore` of that.

**CryptoHeader.** `HeaderInv` says of every buffer that is stored or on its way to the file
that it is sealed exactly once, and of every header a process holds how far it is sealed. A
cut-off write mixes fields of two headers, so the invariant is about fields: each belongs to
some material and one password. `GenuineCorrect` then needs one more thing: the signature is
the digest of the two keys and the salt, and it is only made for a pair that was generated
together, so a header mixed of two opens to no digest of its own.

`KeyFileImplemented` needs that a header opens with one password at most (`OneOpener`): all
its fields are sealed with that password and made of one material (`Genuine`). A cut-off write
takes each field from the new header before the cut and from the old one behind it
(`CutFields`); if the result opens, every field of both that was taken belongs together, and
either one of the two opened the same way or the pair is one that was `given` before. `AskInv`
says what a process holds at each step of its call.

**FileTree.** `TreeInv` keeps the source whole (`SrcWhole`) until the copy is complete, and says
what "complete" rests on: what lies below a directory that has been found is in the lists or
still in an open stream, and what has left the lists is in the destination (`CopyInv`); so
when streams and lists are empty everything is there. `WipeInv` says that the removal finds
the other side whole. `MoveInv` adds the order: a directory stands in its list behind all that is
in it (`ListsInv`, `StreamsInv`), because it is put in front when it is found; so `create_dirs`,
which goes backwards, finds its parent made, and `delete_files`, which goes forwards, finds
each directory empty. `LeftInv` says that as long as no removal has failed all that is left is
going to be removed. That a tree has no cycle is an assumption (`TreeAssumption`). An older, longer file in the destination keeps its tail
(`overlay`), which is why the theorems ask for `Stale = {}`.

**StoragePaths.** Paths are arbitrary sequences. The theorems ask of the names only what
their property needs: `PlainNames` (no slash repeated but at the end), `DigestCovers` (no path
longer than the `sizeof(hash)` bytes that are digested; without it `long_paths`),
`UserStorages` (the lock of a user is for a storage, spelled with a slash at its end, as
`sprintf` makes it), `Apart` (no storage lies in another one); `MCAssumption` has TLC check that
the run `paths` satisfies all of them. `NoInterference` is the injectivity of what is derived from
a name (`PrivateApart`, `KeyApart`): the last slash of a private path is the last one of the
storage's, as none follows the dot (`PrivateBelow`), and of a storage in `/` it is the storage
(`PrivateAtRoot`), which no private path further down can be. `FindsHolders` and
`FindsOnlyHolders` say what `pathMatchesMountPoint` finds: for the stripped path everybody
with the directory or the file open, for either spelling nobody else. So `SearchInv` holds: after
the second search nobody has a file in the storage unless one was opened since, and the lock
that is busy then has been outrun. `Attempts > 1` is that a search and an unmount take less
than the thirty seconds of the loop; with one attempt the property is false: the first search, for the
path with its slash, misses a program that has only the directory open.

**EfsServer.** `ServerInv`: the number of a command is on one connection only; the numbers
answered, running and waiting on a connection are in this order and increase; one command
runs at a time; the answers on the way are true unless nobody will read them (`Truthful`,
the second answer to an unknown command); an edc has one command in its life (`OneShot`).

**AndroidUser.** Three layers. `Sound` and `Worked` say what every outcome of a call in
`EfsCalls` keeps, and what a clean one that is no error has done. `OpeningOrder` and `OtherOrder` say
which step of `Program` follows which, in which calls, so that the rest never looks at the
sequences. On them stand two invariants. `InStep`, until something has gone wrong, is
`Resting` between calls (the storages are a `Pair`), and within one `Stage`, which says for
each step how the two differ at that point, and `BeganWell`, what the call found: a call that
fails and leaves what it found is no trouble, and then the pair it began with is still there.
`Pact` holds always: at each step of an encrypt or decrypt it says what the steps before
have achieved, whatever state the storages were in before the call, and the contracts are what it says at the
last step (`LastStep`: the only one that returns 0).
`Prompted` says that while the boot asks for a password "data" has its private directory: a
restart of the framework for another user removes what lies in the closed "data", and that is
then never the user's files.

Model-checked only: everything under fairness (`CallsReturn`, `ToolReturns`), as liveness is
out of the prover's reach; `OnlyCleanupLoses`; and, where something has failed, the contracts of
create, unlock and recover and, for several processes, `UnlockContract`. `UnlockOpensBoth` and
`RemoveContract` are false (`half_encrypted`, `mounted_remove`).

## 6. Plan

1. `EfsStorage`, `EfsCalls`, `SecureStore`, `AndroidUser`; `CryptoHeader` and `KeyFile`;
   `FileTree`; `StoragePaths`; `EfsServer`; their runs: done.
2. Theorems: storage, password gate, header, tree, server, user: done.
3. One caller: the contracts of all calls, and the refinement of `SecureStore`; the
   refinement of `KeyFile`; the other properties of `FileTree`; the properties of
   `StoragePaths`: done.

## 7. Not modelled

- The wake lock, the properties that are only shown to the user or start services by
  name (of `vold.*` the framework's state is modelled), and the lists of users `init.c` keeps in
  properties.
- Progress: `get_progress`, `EFS_get_progress` and the property they read are numbers for a
  progress bar; from 1 GB on the size loses digits (`android_user_encryption.c:165`).
- `check_space` is a check that may fail; its cast (`file_utils.c:79`), which lets a storage
  of more than 4 GiB pass, shows only as a copy that fails later, which is modelled.
- Power loss: the library calls no `fsync`, and what a page cache keeps back is the file
  system's; a restart in the models finds what was written.
- Sockets, FIFOs and devices in a storage; directory streams left open by a failed listing
  (`file_utils.c:198`), which show as a failing `umount`.
- The parsing of the command lines of `efs-tools`, the patches of framework, settings, SELinux
  and kernel, the shell, Python and Java tests: they keep no state of a storage.
- AES, PBKDF2, SHA-512, `/dev/urandom` and ecryptfs itself are symbolic or external.
