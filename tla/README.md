# Specifications of zero-trust-secrets

zero-trust-secrets keeps secrets in one encrypted file. A library (`vaultcore`)
owns the file format, its keys and the TPM; a command-line program (`vaultctl`)
and a desktop program (`vaultgui`) are built on it. There is no server: what can
go wrong is what concurrent programs do to one file and one TPM key, what a
failure leaves behind between two steps, and what a long session does between
its callbacks. This directory models that in TLA+, checks it with TLC on small
instances, and proves the part that matters most with TLAPS for all instances.

Paths below are relative to `src/crates/`; `vault.rs` and its neighbours are in
`vaultcore/src/`.

- [Inventory of the system](#inventory-of-the-system)
- [Modules](#modules)
- [Runs](#runs)
- [What is proved](#what-is-proved)
- [Disagreements found](#disagreements-found)
- [What is not modelled](#what-is-not-modelled)
- [Plan](#plan)

## Inventory of the system

| Component | State it keeps | Operations | What makes it correct | Module |
|---|---|---|---|---|
| Vault file store (`vault.rs` load/save, `flow.rs` create_vault) | the file at a path, a temporary file per save, the fingerprint a session took at load | claim a path, clean up, load, compare, write, sync, rename | no save undoes another session's; no failure, crash or creation loses a vault; never a torn file | VaultStore, SecretStore |
| Records and format (`vault.rs`) | header version, records with sealed values; sealed names and tombstones in the file | add, upsert, remove, get, list, lock, save, unlock with migration from format 2 | one record per name with its last value; a file reopens to what was stored; the file hides the record count | VaultRecords |
| Byte codec and padding (`vault.rs` to_bytes, from_bytes, `Cursor`, mac_input, encode_*, decode_*) | none (functions) | write, parse, MAC, pad | what was written is read back, what is cut or damaged is refused, files that differ have different MAC inputs, sizes tell no more than buckets | VaultCodec, VaultPadding |
| Key in RAM (`secret.rs`) | the vault key, encrypted in memory between uses | protect, reveal | a key that cannot be revealed is never used to seal | VaultRecords |
| Envelope, flow, escrow (`envelope.rs`, `flow.rs`, `recovery.rs`) | the header's `tpm_wrap`, `dek_wrap`, `recovery_wrap` | create_vault, unlock, unlock_with_recovery_code, describe_provider | a vault opens with its factors and nothing less; a single factor is a strong one | VaultKeys |
| TPM key (`keyprovider/cng_pcp.rs`) | one key under one name for all vaults of the machine | open (find, create, finalize, reopen), seal, unseal, deprovision | no race and no failure replaces the key vaults are sealed under | VaultKeys |
| Desktop session and window (`vaultgui/src/main.rs`, `session.rs`, `ui/app.slint`) | the session, its lists, selection, revealed value, screen, recovery code, search text, error toast | the callbacks of the screens, `do_lock` | a locked window lists, selects and shows nothing of the vault; an unlocked one shows its session; an edit not stored is reported | VaultGui |
| Auto-lock watcher (`vaultgui/src/watcher/mod.rs`, `autolock.rs`) | a thread with a message-only window, the boxed state its user-data slot points to, the latch, the timeout | spawn, set-up, message pump, timer tick with its look at the clock, session and power events, posting a lock, stop and join, clean-up | every idle period locks; the idle time is true; the thread starts, ends if its close request was posted, and leaves nothing behind | VaultGui, Watcher |
| Command line (`vaultctl/src/main.rs`) | none beyond a call | init, add, get, rotate, rm, list, status, deprovision | its commands are the processes of VaultStore and the callers of VaultKeys | VaultStore, VaultKeys, DumpHarness (hold commands) |
| Clipboard (`vaultgui/src/clipboard.rs`, `vaultctl/src/clip.rs`) | the system clipboard, detached clearers | copy, clear later | a copy is cleared, not by its own clearer before its time, and somebody else's is not | Clipboard |
| Preferences (`vaultgui/src/prefs.rs`, `main.rs`) | the settings in memory, a text file | parse at startup, serialize and write by every setter | settings that were written come back; a cut write never turns the idle timer off | VaultPrefs |
| Memory-dump harness (`src/verify/dumper`), leak test (`vaultgui/src/leaktest.rs`), hold commands (`vaultctl/src/main.rs`) | one child process, its pipes, a dump, results | provision, spawn, wait for READY, dump, release, scan, report | the verdict is true; it dumps the state it names; nobody waits for ever; each marker is counted once | DumpHarness, DumpScan |
| Cryptographic primitives and KDF calibration, page locks, process hardening, strength estimate, password generator, recovery code alphabet, Windows Hello, dialogs, fuzz targets | | | | not modelled, see below |

How they interact. Processes share two things only, and neither is locked: the
vault file and the TPM key. Inside `vaultgui` there are two threads. The watcher
ticks once a second and can only *post* a lock to the UI thread, which runs it
between two callbacks; the session itself is touched by the UI thread alone. The
main thread waits for the watcher twice: for its window when it starts, and for its
end when the program ends. The harness and its child share two pipes: the child's
READY lets the harness dump, the end of its input lets the child go. A
clearer of the clipboard is a detached process nobody waits for.

What is hard to test here, and so what the properties are about (`PROJECT.json`
lists every hazard at its line):

- *Check, then act.* `save` compares a fingerprint, then writes a temporary file,
  then renames; `open` looks for a key, then creates it, then finalizes it.
- *Failure between two steps.* A crash or a power loss in a save; a creation that
  fails after its path was claimed; a TPM that fails between open and seal; a save
  that fails after the edit was made in memory; a settings file cut in a number; a
  vault file cut or damaged anywhere; a child that dies before or after its READY.
- *Order.* A posted lock between any two callbacks; the policy of a passphrase,
  which depends on whether the TPM took part; a window's state dropped before its last
  message; a dump taken of a child that is not yet, or no longer, where it should be.
- *Long sequences.* Migration, edits, locks and reopens in every order; a second
  idle period after a first one locked.
- *Boundaries.* A clock that wraps between two looks at it; buckets that are just full;
  a marker across two pieces of a dump.

## Modules

A constant comes with its assumption (`StoreAssumption`, `RecordsAssumption`,
`GuiAssumption`, `KeysAssumption`, `ClipboardAssumption`, `CodecAssumption`,
`HarnessAssumption`, `ScanAssumption`, `WatcherAssumption`, `PrefsAssumption`). Variables
that only the properties read are marked as history: no action of the code has a guard
on them.

### VaultStore: one file, many processes

A process is a `vaultctl` invocation or a `vaultgui` session. `file` is what the
path holds: `Absent`, the empty `Placeholder` that `create_vault` claims a path
with, a whole image, or `Torn`. An image is the key it is sealed under, its
records, and a stamp for the fresh nonces of each save, so that two images are
equal exactly if their fingerprints are. `disk` and `dirty` say what a power loss
would leave.

| Action | Code |
|---|---|
| `Claim`, `BuildVault`, `CreateFails`, `Withdraw`, `WithdrawFails` | `create_vault`: `create_new`, the slow work, cleanup whose own error is dropped |
| `Load`, `Unlock`, `Close` | `LockedVault::load`, `unlock_with_dek`, the end of a session |
| `Add`, `Upsert`, `Remove` | the edit, and `save` up to its comparison, which touches nothing shared |
| `CheckPasses`, `CheckConflicts`, `CheckUnreadable` | the three outcomes of the comparison |
| `WriteTemp`, `SyncTemp`, `Rename`, `SaveFails` | `write_synced`, `rename`, the error paths |
| `Crash`, `Flush`, `PowerLoss`, `UserDeletes` | the world around |

`SecretStore` is the abstract promise: one map from names to values, edited in
private and committed in one step; a vault that was taken away while a session had it
open may be stored anew from what the session holds (`Restore`). VaultStore implements
it (`AtomicStore`, with `contents` the records at the path and `pending` the edits not
stored): every step maps to a step of SecretStore or to none, but for the single
steps that are not `Undisturbed`: an outage, and a rename or a cleanup behind whose
check the path changed or could not be read. Only that step is excused, not the
behaviour after it; the window is admitted by a comment of `save`.

### VaultRecords: what is in the file

Ciphertexts are terms: a key, a format version, and what they hide; they open
under these two only, since the version is part of the associated data. Names are
sealed by each save and opened by each unlock, values are sealed when they are
added. `UnlockWithDek` migrates an image of format 2; `Save` adds the tombstones
of `padded_len`. Key reveals may fail (`RevealFails`), and then the bytes used as
key are the ciphertext of the key ("garbled"), as in the code.

### VaultCodec: the bytes of a file

A file is a sequence of cells: one for each field of fixed width, a length and its
bytes for each of variable width. `HeaderBytes`, `RecordBytes`, `FileBytes` are
`to_bytes` and the end of `save`; `ParseHeader`, `TakeRecord`, `LoadFromBytes` are
`from_bytes` and `load_from_bytes` over a `Cursor` that fails when it runs out, in
format 2 and 3; `MacInput` is what `compute_mac` hashes, of the parsed header and
records, in both formats. `EncodeName`, `DecodeName`, `EncodeValue`, `DecodeValue` and
`SavedRecords` are the padded plaintexts and the tombstones; sealing is abstract
here and a subject of VaultRecords. Both use `PaddedLen` of VaultPadding.

`CodecInit` writes a file (any header with each optional field there or not, with up
to `MaxRecords` records of format 2 or 3, or a vault with up to `MaxSecrets` secrets);
then its end is lost (`LoseEnd`) or it is damaged once (`Damage`: a cell replaced,
swapped, removed or added). `MCVaultFile` puts this beside VaultRecords in one run.

### VaultKeys: what opens a vault

One TPM key under one name. `OpenKey`, `CreateKey`, `FinalizeKey` and `ReopenKey`
are the single provider calls of `CngPcpProvider::open`; other processes come
between them and each may fail. `Seal`, `WrapAndSave` finish `create_vault`;
`Unseal`, `Unwrap` finish `unlock`; `FindKey`, `DeleteKey` are `deprovision`. A
TPM key is a number never used twice, so that losing one is visible; 0 is the key
of another machine, for vault files that were copied. Passphrases are classes:
those that clear the single-factor floor, only the two-factor one, or none. An
escrow may be a legacy passphrase, and a user may type a code in another spelling.

### VaultGui: the session and its window

One action per callback of `main.rs`, run to its end, since the UI thread runs
them one at a time; `do_lock` is shared by the lock button and `RunPostedLock`.
`Tick` is the WM_TIMER branch of `wndproc` with its latch, `SystemLock` the session
and power events, `Countdown` the timer on the UI thread. Other programs change or
delete the file (`OtherSave`, `FileDeleted`). Names of variables and callbacks are
those of `app.slint`.

`do_lock` does not clear everything. It leaves the recovery code (a finding, below), the
search text and the error toast. The toast floats above every screen, has no timeout,
and names a record after a refused add. `leftOver` holds the three: `filter` says
whether there is a search text, `error` is the name in the toast, if there is one, and
`ReplaceError` is the user or another message taking it away. So a locked window may
hold a name, and `LockedHoldsNothing` speaks of the lists, the selection and the two
values alone; `ShowsTheSession` says that what was left hides no record and names no
other one when the session is unlocked again.

### Clipboard: copies and the processes that clear them

`copy_with_autoclear` puts a text on the clipboard and starts a process that sleeps
and then clears; the copy, the start of the clearer, and the clearer's own access to
the clipboard may each fail. If `clip.exe` starts and fails, its exit status is dropped:
the clipboard stays as it was, and a clearer of a text that is not there runs all the
same, so that `own`, the copy whose text is there, is not always the last one. It is one
action: what could come between the copy and
the start of the clearer may as well come after both, since the clearer sleeps first.
The clearer of `vaultgui` looks (`Verify`) and then clears (`Clear`), with anybody's
copy possible between; that of `vaultctl` only clears. `Second` is time, `Countdown`
the display. `by`, `own`, `age`, `due` and `overtaken` are history.

### Watcher: the thread and the clock

One action per system call of `run`, each of which may fail in set-up (`Panic`: an
`expect`), then the pump, then the clean-up in its order. `window`, `slot`, `raw` and
`box` are the window, its user-data slot, the pointer the clean-up read back, and the
boxed state. `Spawned`, `Stop` and `Join` are the main thread. `Handle` takes the
messages in turn; without the pointer it does nothing of its own. A tick looks at the
last input (`ReadInput`) and then at the clock (`Decide`), and time and input may come
between, or nothing may be read (`LookFails`). `quiet` and `measured` are history: the
same times without a wrap.

`stop` drops the error of PostMessageW and joins all the same: `Stop` may post nothing,
and `lost`, history too, remembers it. The join then waits for ever. This is a deadlock
the code has if Windows refuses the post (a full queue); `StopReturns` excepts it, and
says that there is no other.

### VaultPrefs: the settings and their file

`ToSerialized` and `FromSerialized` are those of `prefs.rs`, over lines of a key and a
value with numbers as digits, so that a value can be cut. Every setter and the choice
of a vault write the whole file (`Written`), or fail and leave the old file, any part of
the new one, or one that is no text (`NotWritten`), and the program goes on or is killed.
The file of the first start may be the user's own, with the idle timer off. `left`
and `off` are history.

### DumpHarness and DumpScan: the memory-dump harness

One action per step of the harness for one scenario after another, and its error
(`ProvisionOrSpawnFails`, `ReadFails`, `DumpFails`, `ScanFails`), each of which ends the
run as `main` does. The child is the hold command of `vaultctl` or the leak test of
`vaultgui`: it reveals, drops, says READY and waits for the end of its input; or prints
other lines, gets stuck, or keeps the secret, which is what the harness is there to
find; and it dies at any moment (`ChildDies`), before its READY or after it, also in
front of its dump. A dump may be blind, and one of a dead child is: the harness can still
open it, since it holds its handle, but there is no memory left to read. Of the platform
it is assumed that a dump with full memory fails rather than leave out what it cannot
read, so that a dump which a death cuts short is one that failed (`DumpFails`). DumpScan
is `count_needle_in_file`: any division of the file into reads, a buffer, and the end of
one piece carried into the next.

`MCParts` puts Watcher, VaultPrefs, DumpHarness and DumpScan in one run. They share
nothing, and a behaviour of it is one of one of the four.

## Runs

All passing runs explore their whole state space. Bounds are constants of the
configuration and appear as guards of the actions they bound.

| Run | Shows | Instance | States |
|---|---|---|---|
| `store` | `NeverTorn`; `NoLostUpdate`: a save changes the vault by its own edits only, under the same key, outside the admitted window and the unreadable file; `VaultSurvives`: no creation, failure or crash removes a vault; `RefusedOnlyIfChanged`; `AtomicStore`: VaultStore implements SecretStore in every `Undisturbed` step | 2 processes, 2 names, 1 value, 4 sealed images, 2 faults, 1 outage | 788,345 |
| `store_live` | under fairness, `ClaimResolved` | 2 processes, 1 name, 3 images, 1 fault, 1 outage | 60,174 |
| `store_unread` | violation, see below | as `store`, 1 fault, no outage | |
| `records` | `GetReturnsLatest`, `ReopensAsStored`, `CountHidden`; of the bytes, `ReadsBack`, `TornRejected`, `MacTellsApart`, `DamageShows`, `SecretsReadBack`, `HidesSizes` | VaultRecords: 3 names (one too long), 2 values, buckets of 2, failing reveals; VaultCodec: blobs of up to 1 byte, 2 records, 3 secrets of up to 3 bytes, buckets of 3, 2 and 2, names of at most 2 bytes | 505,000 |
| `records_long`, `records_reveal` | violations, see below | as `records` | |
| `gui` | `LockedHoldsNothing`, `ShowsTheSession`, `UnsavedIsTold`, and under fairness `IdleLocks` | 2 names, 1 value, timeout of 2 ticks, 1 posted lock | 962,929 |
| `gui_code`, `gui_retry` | violations, see below | as `gui` | |
| `keys` | `KeyKept`, `SingleFactorIsStrong`, `RightPassphraseOpens`, `RecoveryOpens` | 2 processes, 2 vaults, 3 TPM keys | 837,918 |
| `clipboard` | `SparesOthers`, `StaysItsTime`, and under fairness `CopyGoes` | 3 texts (two differ in case), delays of 1 and 2, 3 copies | 386,802 |
| `parts` | Watcher: `StateOutlivesMessages`, `IdleIsTrue`, and under fairness `StopReturns`; VaultPrefs: `SettingsSurvive`; DumpHarness: `Verdict`, `DumpsTheHeldState`, and under fairness `EndsAlone`; DumpScan: `CountsEachOnce` | a clock of 6 ticks, a timeout of 3; 2 timeouts, 1 path; all 6 scenarios and each alone, 2 other lines; files of up to 8 bits, markers of up to 3, chunks of 2 | 259,329 |

Why the bounds are enough for the cases that matter:

- *Two processes, four images* (`store`). One image is a creation; three saves let
  a session save, be overtaken and save again, and let a creator be overtaken by
  one that claims the path after the user removed the placeholder. Two faults let
  a save fail and then a crash follow. A lost update needs two processes; a third
  adds no new kind of step, since a process sees the others only through the file.
  The theorems below hold for any number.
- *One value* (`store`, `gui`). A name is present or not, which tells apart an
  edit that was stored from one that was not; the second name tells an edit of
  one record from an overwrite of all.
- *Three names, buckets of two* (`records`) give the empty vault, a partly filled
  bucket, an exactly full one and one record more.
- *Three keys* (`keys`): the one that was there, one made after a deprovision, and
  one more for a race that would replace it.
- *Timeout of two, one posted lock* (`gui`): idle below, at and beyond the timeout,
  and two idle periods. A second posted lock would find a locked session, as the
  posted one that runs after the user locked already does.
- *Three copies, delays of one and two* (`clipboard`): a copy of one text between two
  of another, and a clearer with the shorter delay that overtakes an earlier one.
- *One byte a blob, two records* (VaultCodec). Each optional field is there or not, each
  blob empty or not, and every boundary between two fields is one that a cut, a removal
  or a swap can move. Secrets of up to three bytes meet an empty bucket, a full one
  and one byte more, and a name that is too long; three secrets and buckets of two do
  the same for the record count.
- *A clock of six ticks* (Watcher): the wrap comes before, within and after the timeout,
  and between the two looks. Of each kind of message one may wait.
- *Files of eight bits, markers of three* (DumpScan): a marker lies across up to three
  reads and overlaps itself. The theorem holds for all sizes.
- Symmetry is used in the safety runs only, on sets no definition tells apart.

Deadlock is checked for VaultGui, VaultKeys and Clipboard. In VaultStore it is not: when the
stamps are used up and everything has ended, nothing is left to do. In VaultRecords
a file that cannot be unlocked is an end too, as are a damaged file, the end of a run of
the harness, and the end of a scanned file.

### Fairness

`VaultStore!FairSpec` is weak fairness of `Progress(p)`: a call to `save` or
`create_vault` runs to its end without waiting for anybody. It asks nothing of the
user, of faults, of crashes or of the disk. `ClaimResolved` says that a claimed path
becomes a vault or is free again, and excepts crashes, I/O errors and outages,
which do leave a placeholder behind. That a save returns is not stated: it is a call
without a loop.

`VaultGui!FairSpec` is weak fairness of the watcher's tick (Windows keeps sending
WM_TIMER to a thread that pumps messages) and of running what was posted (the event
loop of the UI thread; a modal prompt that never ends would stop it, and is not
assumed away elsewhere). Nothing is asked of the user.

`Clipboard!FairSpec` says that time passes and that a clearing process, once started,
runs. That it may fail to open the clipboard is a choice of the step, not unfairness.

`Watcher!WatcherFair` says that both threads are scheduled. The main thread need not
ever stop the watcher, and no message need ever come. New messages are taken not to
come once WM_QUIT is posted: WM_TIMER is delivered after it, and of the others there is
no endless stream.

`DumpHarness!HarnessSpec` says that the harness and its child are scheduled. A child that
gets stuck is excepted by `EndsAlone`, because the harness has no time limit. (`Child::wait`
of the standard library closes the child's input itself, so the explicit drop before it
matters when the input is held elsewhere.) `ChildDies` is not fair: no child need die.

## What is proved

The proofs hold for any processes, names, values, vaults and bounds that meet the
named assumptions of the constants. No other fact is assumed.

| Theorem | Statement |
|---|---|
| `VaultStoreProofs!TypeCorrect` | `Spec => []TypeOK` |
| `VaultStoreProofs!FileNeverTorn` | `Spec => []NeverTorn` |
| `VaultStoreProofs!SavesLoseNothing` | `Spec => NoLostUpdate` |
| `VaultStoreProofs!OwnSavesNeverRefused` | `Spec => RefusedOnlyIfChanged` |
| `VaultStoreProofs!VaultStays` | `Spec => VaultSurvives` |
| `VaultStoreProofs!FileImplementsStore` | `Spec => AtomicStore` |
| `VaultKeysProofs!TypeCorrect` | `Spec => []TypeOK` |
| `VaultKeysProofs!KeyNeverReplaced` | `Spec => []KeyKept` |
| `VaultKeysProofs!OneFactorAlwaysStrong` | `Spec => []SingleFactorIsStrong` |
| `VaultKeysProofs!RightPassphraseNeverRefused` | `Spec => RightPassphraseOpens` |
| `VaultKeysProofs!EscrowOpensRightly` | `Spec => RecoveryOpens` |
| `VaultRecordsProofs!TypeCorrect` | `Spec => []TypeOK` |
| `VaultRecordsProofs!GetIsLatest` | `Spec => []GetReturnsLatest` |
| `VaultRecordsProofs!ReopensToStored` | `Spec => []ReopensAsStored` |
| `VaultRecordsProofs!CountIsHidden` | `Spec => []CountHidden` |
| `VaultCodecProofs!FileIsReadBack` | `CodecSpec => []ReadsBack` |
| `VaultCodecProofs!CutIsRejected` | `CodecSpec => []TornRejected` |
| `VaultCodecProofs!DamageIsSeen` | `CodecSpec => []DamageShows` |
| `VaultCodecProofs!MacIsOfOneFile` | `CodecSpec => []MacTellsApart` |
| `VaultCodecProofs!SavedIsUnlocked` | `CodecSpec => []SecretsReadBack` |
| `VaultCodecProofs!SizesAreHidden` | `CodecSpec => []HidesSizes` |
| `ClipboardProofs!TypeCorrect` | `Spec => []TypeOK` |
| `ClipboardProofs!OthersAreSpared` | `Spec => SparesOthers` |
| `ClipboardProofs!CopiesStayTheirTime` | `Spec => StaysItsTime` |
| `VaultGuiProofs!TypeCorrect` | `Spec => []TypeOK` |
| `VaultGuiProofs!LockedWindowIsEmpty` | `Spec => []LockedHoldsNothing` |
| `VaultGuiProofs!WindowShowsTheSession` | `Spec => []ShowsTheSession` |
| `VaultGuiProofs!UnsavedEditsAreTold` | `Spec => []UnsavedIsTold` |
| `DesktopProofs!PointerIsGood` | `WatcherSpec => []StateOutlivesMessages` |
| `DesktopProofs!IdleTimeIsTrue` | `WatcherSpec => IdleIsTrue` |
| `DesktopProofs!SettingsAreKept` | `PrefsSpec => SettingsSurvive` |
| `DumpProofs!VerdictIsTrue` | `HarnessSpec => []Verdict` |
| `DumpProofs!HeldStateIsDumped` | `HarnessSpec => DumpsTheHeldState` |
| `DumpProofs!ScanCounts` | `ScanSpec => []CountsEachOnce` |

**VaultStore.** `NoLostUpdate` is about one step, and what makes that step harmless
lies several steps back. The invariant `IInv` carries it there, for each process:
`View`, what it has in memory is the image it loaded or last wrote plus its edits;
`Sealed`, what a save is about to write is that memory under that image's key;
`Seen`, if nobody touched the path behind its back, the path still holds that image;
`Window`, if nobody touched it since the comparison, the path holds what the
comparison saw. `Durable` adds that nothing torn is ever at the path, because only
synced images are renamed. A step by another process is handled once, by
`MissedGood`: it changes nothing of this process except that it has now missed
something. With `Window` and `Sealed` a rename replaces the image at the path by
that image plus this session's edits, which is the theorem.

The refinement `AtomicStore` says the same of every step, against a map that knows no
file. `RenameStores` is its centre: a rename is a creation if the path held the
creator's placeholder, a commit if it held the session's image, a restoration if it
held nothing. Of creations `IInv` does not say what they store; `Fresh` adds that it is
the empty map. Every other step is an edit in private, a session that is dropped, or a
stutter (`StepStores`). `VaultSurvives` needs only `Window`: a cleanup meets its own
placeholder or has missed something.

**VaultKeys.** `KeyKept` is not inductive: that a new key is not stored over one that
vaults are sealed under rests on what the processes in the middle of a call hold.
`IInv` adds: a vault has a wrapped TPM secret exactly if it has a sealed one
(`SoundVault`); a creation holds the key that is stored or one that was deleted
(`SoundCreate`); an unlock past its open holds the stored key if its vault is sealed
under that, and reaches the unwrap with the factors its vault was wrapped with
(`SoundUnlock`); no two creations are of one vault (`OneCreator`). Most steps change
one call and are covered by `CallStep`; the three that change what is shared
(finalizing a key, deleting it, saving a vault) have a proof of their own.
`FinalizeKey` rests on the platform's rule that a key which is finalized without the
overwrite flag fails if another has its name by then; without that rule two creations
that race would replace a key, and `KeyKept` be false.
`WhereRefused` shows that only the unseal and the unwrap can answer "wrong
passphrase", so that a failing TPM is never mistaken for one.

**VaultRecords.** What the file shows was put together at a save from what the session
was given, and the session began with what an unlock made of the file, so neither half of
`IInv` is inductive alone. `Session` says that the vault in memory has one record for
each name it was given a value for, with the last one. `ImageHolds` says the same of the
file, and that all of it, tombstones included, is sealed under the key of its MAC and
its own version, which is what an unlock refuses otherwise. Counting is by bijections:
the records match the names held, the raws match records and tombstones, because the
pads tell tombstones apart (`Matched`); `PaddedFits` says that the padded length never
cuts a record off. `CountHidden` then is arithmetic about the bucket.

**Clipboard.** A clearer that has looked and was not overtaken still stands before its
own text (`Looked`), and as long as the text of a copy is there, its clearer's
remaining sleep and the text's age make up its time (`OnTime`). Which clearer that is,
`own` says, and not the number of copies: a later one may never have landed. So a copy's
own clearer does not take it early, and of any other that does the theorem says what it
is: one of `vaultctl`, which does not look, one overtaken since its look, or one with the
same text to clear.

**DumpHarness.** A verdict is about children that are gone by then, and `faithful` and
`clean` about all of them. `Telling` follows what went wrong from the child that kept a
secret (`KeptNow`) to its dump (`BadDump`) to its result (`BadResult`), so that it
cannot be lost on the way; `Honest` is the converse. Both rest on `Secrets`, what a
child in front of a dump has in memory, and this on `Protocol`: behind a READY is a
child that holds, until its input is closed, or one that died. A secret that was kept
and died with its child before its dump is still told, because the dump of a dead child
is blind, and a blind dump never passes. `DumpTells` is the one step where the three
scenarios' ways of passing matter.

**DumpScan.** The count is inductive with two facts: the kept bytes are the last bytes
of the file read so far (`Keeping`), and there are as many of them as a marker has, less
one, or all there are (`Bounds`). A read then adds exactly the occurrences that end in
the new bytes: one that ends earlier was counted before, and does not fit into the kept
bytes, since they are one byte short of it; one that ends in the new bytes begins in
the buffer, at a place shifted by a constant. The number of old occurrences and of new
ones add up because they are disjoint sets, and the shift is a bijection.

**VaultGui.** The three properties and the types are inductive together and none of them
alone: an unlock finds selection and revealed value empty, which it does not touch,
because a lock empties both (`LockedHoldsNothing`); the screen a callback is of says
whether the session is unlocked (`ScreenTells`); a reveal is of what is listed, and so is
the name in the toast of a refused add (`RefuseStep`).
`EditStep` is the one argument for the three edits, `LockStep` the one for a lock,
wherever it comes.

**Watcher.** `Located` says for each step of `run` what is there: the window, the box
and the pointer in the slot. Messages move the thread only within the pump, where all
three are alive; the clean-up takes them in the opposite order. For the clock,
`Tells(d, time)` says that a difference of ticks is never more than the time it is of,
and the same until the clock has gone round once; a tick (`SubTick`) and an input keep
it, for the look that is being taken as for the clock itself.

**VaultPrefs.** The invariant says of the file what a program that starts would make of
it (`FileSays`): proper settings, the ones it was left with if the last writing did not
fail, an idle timer that is off only if it was to be. Three facts about text make it
inductive: a whole text is read as what was written (`TextSays`); a cut leaves lines of
the text and at most a part of one (`CutIsOfPieces`); and whatever pieces of the text
are read, the timer is off only if the text says so, since no part of a number is
`off`, and never zero, since no part of a number begins with another digit
(`PiecesFine`). The fold over the lines is unrolled through its definition. Assumed of
the timeouts is that they are digits and do not begin with 0.

**VaultCodec.** All of it rests on where a piece lies in the data, `Lies(d, p, s)`: a
piece that begins with its length is the only one that can lie where it does, and so in
turn a header (`HeaderTold`), the records (`RecordsTold`) and the input of the MAC
(`MacInputTells`). The parser's cursor is tied to the places from both sides: what it
takes lies there (`HeaderParsed`, `RecordsThere`), and what lies there is what it takes
(`HeaderFields`, `RecordsFound`). A file that is cut has the prefix of its records in
it, and no room for the rest (`CutIsRejected`); a file that is damaged and passes the
MAC is parsed as the only thing that this MAC is of (`DamageIsSeen`). `IInv` says that
the file is within the parser's limits (`Accepted`) and the data bytes. For the secrets,
filling up keeps the text (`FilledKeeps`), and what `unlock` keeps of the records is the
ones that were put before the tombstones (`KeptFirst`). The size adds up record by record
(`RecordAdds`, `SavedSize`), each of as many buckets as the property counts, because
there is only one number of buckets that fits (`FitsOnce`). Assumed are a limit of
Argon2 of at least 1, that the byte which is no text is none of those names are made of,
and a bucket for names that holds at least what a tombstone's takes (two cells; 5 of 64
bytes in the code): in smaller ones a tombstone would take two, and the property be
false. The concatenations and folds are unrolled through their definitions (`Flattened`,
`FoldsExist`), along an induction that is drawn from the well-founded order of the
naturals, as for VaultPrefs.

Only model-checked is all liveness (`IdleLocks`, `ClaimResolved`, `CopyGoes`,
`EndsAlone`, `StopReturns`), which is outside what the proof system does. Of
the codec the theorems are about the files its specification starts from, which
have byte strings and records of any length and number (the bounds are constants that
nothing is assumed of), and about the kinds of damage that `Damage` names.

## Disagreements found

Each of the first five is a run of its own that TLC finds violated, with a line of the
repository that says otherwise.

- **An unreadable file is overwritten** (`store_unread`). `save` compares the
  fingerprint only `if let Ok(current)` (`vault.rs:883`), so any read error skips the
  comparison. The comment speaks of a file that is gone; the run has one that is
  there, was changed by another session, and could not be read for a moment.
- **A long name makes a vault unreadable** (`records_long`). Names are limited when
  they are decoded (`vault.rs:458`) and not when they are added, saved or migrated.
  One format 2 vault with such a name, opened and saved, no longer unlocks.
- **A failed reveal seals under a wrong key** (`records_reveal`). `reveal` drops the
  error of the unprotect (`secret.rs:159`); its comment trusts the AEAD to fail,
  which opening does and sealing does not.
- **The recovery code outlives its screen** (`gui_code`). A lock posted while it is
  shown changes the screen; `do_lock` does not touch `recovery_code`.
- **"Try the action again" is refused** (`gui_retry`). After an add whose save
  failed, the record is in the session, and the same add is a duplicate that saves
  nothing.

Smaller ones, met while modelling and stated here only:

- Format 2 is read. The comment of `FORMAT_VERSION` (`vault.rs:34-38`) says of older
  formats that they "are intentionally NOT read by this build — there is no migration
  path". The parser takes format 2 (`vault.rs:575-602`) and `unlock_with_dek` migrates it,
  as its own comment says (`vault.rs:604-609`). The models follow the code:
  `ReopensAsStored` includes a file that was migrated, `ReadsBack` files of both formats.
- `do_lock` is to "scrub every bit of UI state that could otherwise linger on-screen or
  in a model" (`vaultgui/src/main.rs:110-111`). Besides the recovery code it leaves the
  search text (`app.slint:42`) and the error toast (`app.slint:257-305`), which says "A
  secret named "X" already exists." after a refused add (`main.rs:487-488`) and is shown on
  every screen until it is dismissed. No property claims that a locked window has no name
  in it.
- `stop` "[p]osts WM_CLOSE to the watcher's window and joins its thread"
  (`watcher/mod.rs:305`), but joins also if the post failed (`watcher/mod.rs:311-314`),
  and the program then never ends. `StopReturns` excepts it.
- `copy_with_autoclear` of both programs waits for `clip.exe` and drops its exit status
  (`clipboard.rs:68`, `clip.rs:24`): a copy that failed is reported as made, and its
  clearer may cut an earlier copy of the same text short. `StaysItsTime` admits it.
- `persist_prefs` (`vaultgui/src/main.rs:42-45`) says that after a failed write the next
  launch "falls back to defaults/last-known values". The file is emptied first, so a
  write that fails half-way may leave a shorter timeout (`60` cut to `6`) or path, and
  these are taken. `SettingsSurvive` says what does hold.
- The comment of the MAC (`vault.rs:209-212`) speaks of every byte of the file. It covers
  the parsed header and records: bytes after the last record and the spelling of a flag
  byte are not covered. `DamageShows` says what does hold.
- Comments of the harness (`dumper/src/main.rs:91-96, 145, 595, 637`) call the sentinel
  the name of the record; the code searches for the path of the vault.
- `normalize` of recovery codes (`recovery.rs:87-99`) is said to drop what is no symbol;
  `mapped as u8` keeps the low byte of some characters beyond ASCII.

## What is not modelled

- *Cryptography* is perfect and abstract: a term opens under its key or it does not.
  Nonces are unique, fingerprints do not collide.
- *Widths of integers* in the codec: a length is one cell and is as large as it is. The
  limits on the Argon2 parameters are one bound.
- *The recovery code's alphabet*: encoding and normalising one code, character by
  character. VaultKeys takes a code as right or wrong.
- *KDF calibration*: a loop over measured times that promises nothing but its bounds.
- *The strength estimate and the password generator* compute with floating point and
  randomness; only the two floors of the passphrase policy are in VaultKeys.
- *Page locks, zeroing, process hardening, capture protection*: effects of the
  platform that have no protocol between them.
- *Windows Hello and dialogs*: their answers are choices of the user in VaultGui.
- *The wording of messages*. Whether a toast names a record is in VaultGui, and whether
  the search box has a text; what either says is not.
- *The directory entry's durability*: the code does not sync the directory, so
  `PowerLoss` may bring back the image of before an acknowledged save; no property
  claims the contrary.
- *Fuzz targets and test data*: they call the parser and the migration and keep nothing.
- *Suspend messages*: Windows may not send a broadcast to a message-only window
  (`watcher/mod.rs:123`). VaultGui takes the event as one that may or may not come.
- *Temporary files* that a crash or a failed write leaves behind (`vault.rs:895`): no
  step reads them, and their names do not collide.

## Plan

Done, in this order: VaultStore with SecretStore and its proofs (the shared file is
where data can be lost); VaultRecords; VaultGui; VaultKeys and its proofs; Clipboard
and its proofs; VaultCodec; DumpHarness, DumpScan and their proofs; Watcher; VaultPrefs;
the proofs of VaultGui, Watcher and DumpHarness; the refinement of SecretStore; the
proofs of VaultRecords, VaultCodec and VaultPrefs, and of `RecoveryOpens`; the toast and
the search text in VaultGui, children that die after their READY, copies that clip.exe
fails to make, and a close request that gets lost.

Next:

1. VaultGui: `deprovision` from the window. VaultStore: the commands of `vaultctl` that
   load and do not save.
2. Proofs about these, as they come.
