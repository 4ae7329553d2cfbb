----------------------------- MODULE VaultStore -----------------------------
(***************************************************************************)
(* One vault file and the processes that share it.  A process is a         *)
(* vaultctl invocation or an unlocked vaultgui session: it creates the     *)
(* vault (flow.rs, create_vault), or loads and unlocks it, edits the       *)
(* records in memory and saves (vault.rs, LockedVault and Vault).  Nothing *)
(* locks the file: `save` compares the fingerprint taken at load with the  *)
(* file's, writes a synced temporary file and renames it into place.       *)
(*                                                                         *)
(* Processes stop at any point, reads, writes, renames and removals fail,  *)
(* the user deletes the file, and the power is lost.                       *)
(***************************************************************************)
EXTENDS Naturals

CONSTANTS
  Processes,   \* vaultctl and vaultgui processes that use the path
  Names,       \* record names
  Values,      \* secret values
  NoValue,     \* "no record of this name"
  Untouched,   \* "this session has not edited this name"
  NoVault,     \* SecretStore's "there is no vault yet"
  MaxStamp,    \* bound: images ever sealed (creations and saves)
  MaxFaults,   \* bound: I/O errors and crashed processes
  MaxOutages   \* bound: power losses and deletions by the user

ASSUME StoreAssumption ==
  /\ NoValue \notin Values
  /\ Untouched \notin Values \cup {NoValue}
  /\ NoVault \notin [Names -> Values \cup {NoValue}]
  /\ MaxStamp \in Nat
  /\ MaxFaults \in Nat
  /\ MaxOutages \in Nat

VARIABLES
  file,     \* what the path holds, as every process sees it
  disk,     \* what the path would hold after a power loss
  dirty,    \* TRUE if the data blocks of file may not be on the disk yet
  pc,       \* what each process is doing
  base,     \* the image a session loaded or last wrote (loaded_fingerprint)
  mem,      \* the records of an unlocked Vault
  out,      \* the image a save is about to write
  stamp,    \* images sealed so far: each has ciphertext of its own
  faults,
  outages,
  \* History, read by the properties and by no action of the code:
  delta,    \* the edits a session made since it loaded or last wrote
  touched,  \* whether another process changed the path behind a process' back
  unread    \* the session's save went on although it could not read the file

storeVars == <<file, disk, dirty>>
sessionVars == <<pc, base, mem, out>>
historyVars == <<delta, touched, unread>>
vars == <<file, disk, dirty, pc, base, mem, out, stamp, faults, outages,
          delta, touched, unread>>

-----------------------------------------------------------------------------
(* What the path can hold. The stamp stands for the fresh nonces every save *)
(* seals names with: two images have one fingerprint only if they are one.  *)

Records == [Names -> Values \cup {NoValue}]
Edits == [Names -> Values \cup {NoValue, Untouched}]

NoRecords == [n \in Names |-> NoValue]
NoEdits == [n \in Names |-> Untouched]

Absent == [kind |-> "absent"]
Placeholder == [kind |-> "placeholder"]
Torn == [kind |-> "torn"]
Images == [kind : {"image"}, dek : Nat, stamp : Nat, recs : Records]
Contents == {Absent, Placeholder, Torn} \cup Images

Image(k, s, r) == [kind |-> "image", dek |-> k, stamp |-> s, recs |-> r]
IsImage(c) == c.kind = "image"

Apply(d, r) == [n \in Names |-> IF d[n] = Untouched THEN r[n] ELSE d[n]]

-----------------------------------------------------------------------------
(* Control states. A creator holds no loaded image: base is Absent.         *)

Writing == {"checked", "written", "synced"}
Saving == {"sealed"} \cup Writing
States == {"out", "claimed", "failed", "loaded", "open"} \cup Saving

Creating(p) == pc[p] \in {"claimed", "failed"} \cup Saving /\ base[p] = Absent

(* The code acts on what it last saw at the path: a creator since its claim, *)
(* a session between the check in save and the rename.                       *)
InWindow(p) == Creating(p) \/ pc[p] \in Writing

(* How much process q has missed once the path changes and q did not do it. *)
Missed(q) ==
  IF InWindow(q) THEN "within"
  ELSE IF pc[q] = "out" THEN "none" ELSE "before"

Behind(p, q) == IF q = p THEN "none" ELSE Missed(q)

Init ==
  /\ file = Absent
  /\ disk = Absent
  /\ dirty = FALSE
  /\ pc = [p \in Processes |-> "out"]
  /\ base = [p \in Processes |-> Absent]
  /\ mem = [p \in Processes |-> NoRecords]
  /\ out = [p \in Processes |-> Absent]
  /\ stamp = 0
  /\ faults = 0
  /\ outages = 0
  /\ delta = [p \in Processes |-> NoEdits]
  /\ touched = [p \in Processes |-> "none"]
  /\ unread = [p \in Processes |-> FALSE]

(* Process p ends, or its session locks: nothing of it is kept.             *)
Forget(p) ==
  /\ pc' = [pc EXCEPT ![p] = "out"]
  /\ base' = [base EXCEPT ![p] = Absent]
  /\ mem' = [mem EXCEPT ![p] = NoRecords]
  /\ out' = [out EXCEPT ![p] = Absent]
  /\ delta' = [delta EXCEPT ![p] = NoEdits]
  /\ unread' = [unread EXCEPT ![p] = FALSE]

Goto(p, s) == pc' = [pc EXCEPT ![p] = s]
Fault == faults < MaxFaults /\ faults' = faults + 1

-----------------------------------------------------------------------------
(* create_vault                                                             *)

(* create_new makes the placeholder only where nothing is: an existing file *)
(* is AlreadyExists, and nothing changes.                                   *)
ClaimIgnoresVault == FALSE
ClaimSeesVault == file # Absent

(* The placeholder is claimed before the slow work. The new key and the     *)
(* empty image sealed under it are p's own until the rename.                *)
Claim(p) ==
  /\ pc[p] = "out"
  /\ ~ClaimSeesVault
  /\ stamp < MaxStamp
  /\ file' = Placeholder
  /\ dirty' = FALSE
  /\ stamp' = stamp + 1
  /\ out' = [out EXCEPT ![p] = Image(stamp', stamp', NoRecords)]
  /\ touched' = [q \in Processes |-> Behind(p, q)]
  /\ Goto(p, "claimed")
  /\ UNCHANGED <<disk, base, mem, faults, outages, delta, unread>>

(* A step before the save fails: a weak passphrase, the KDF, the wrap.      *)
CreateFails(p) ==
  /\ pc[p] = "claimed"
  /\ Goto(p, "failed")
  /\ UNCHANGED <<storeVars, base, mem, out, stamp, faults, outages, historyVars>>

BuildVault(p) ==
  /\ pc[p] = "claimed"
  /\ Goto(p, "sealed")
  /\ UNCHANGED <<storeVars, base, mem, out, stamp, faults, outages, historyVars>>

(* Cleanup after a failed creation removes whatever the path holds.         *)
AfterNoCleanup == file
AfterCleanup == Absent

Withdraw(p) ==
  /\ pc[p] = "failed"
  /\ file' = AfterCleanup
  /\ dirty' = FALSE
  /\ touched' = [q \in Processes |-> Behind(p, q)]
  /\ Forget(p)
  /\ UNCHANGED <<disk, stamp, faults, outages>>

(* ... and the result of that removal is ignored.                           *)
WithdrawFails(p) ==
  /\ pc[p] = "failed"
  /\ Fault
  /\ touched' = [touched EXCEPT ![p] = "none"]
  /\ Forget(p)
  /\ UNCHANGED <<storeVars, stamp, outages>>

-----------------------------------------------------------------------------
(* load, unlock and the edits                                               *)

(* An empty file has no header length: a parse error, as for a torn one.    *)
ParsesAny(c) == c # Absent
Parses(c) == IsImage(c)

(* The fingerprint is of the bytes read here.                               *)
Load(p) ==
  /\ pc[p] = "out"
  /\ Parses(file)
  /\ base' = [base EXCEPT ![p] = file]
  /\ touched' = [touched EXCEPT ![p] = "none"]
  /\ Goto(p, "loaded")
  /\ UNCHANGED <<storeVars, mem, out, stamp, faults, outages, delta, unread>>

(* After the passphrase was typed and stretched: the records are those of   *)
(* the image loaded, whatever the path holds by now.                        *)
Unlock(p) ==
  /\ pc[p] = "loaded"
  /\ mem' = [mem EXCEPT ![p] = base[p].recs]
  /\ Goto(p, "open")
  /\ UNCHANGED <<storeVars, base, out, stamp, faults, outages, historyVars>>

(* A wrong passphrase, the end of a command, a lock of the GUI.             *)
Close(p) ==
  /\ pc[p] \in {"loaded", "open"}
  /\ touched' = [touched EXCEPT ![p] = "none"]
  /\ Forget(p)
  /\ UNCHANGED <<storeVars, stamp, faults, outages>>

(* Every edit is followed by a save: the handlers of both programs do both. *)
(* Up to the fingerprint check the save touches nothing shared.             *)
SealEdit(p, n, v) ==
  /\ pc[p] = "open"
  /\ stamp < MaxStamp
  /\ stamp' = stamp + 1
  /\ mem' = [mem EXCEPT ![p][n] = v]
  /\ delta' = [delta EXCEPT ![p][n] = v]
  /\ out' = [out EXCEPT ![p] = Image(base[p].dek, stamp', mem'[p])]
  /\ Goto(p, "sealed")
  /\ UNCHANGED <<storeVars, base, faults, outages, touched, unread>>

(* `add` refuses a name it has (Duplicate) and then nothing is saved.       *)
Add(p, n, v) == mem[p][n] = NoValue /\ SealEdit(p, n, v)
Upsert(p, n, v) == SealEdit(p, n, v)
Remove(p, n) == SealEdit(p, n, NoValue)

-----------------------------------------------------------------------------
(* save                                                                     *)

FingerprintIgnored(p) == TRUE
FingerprintMatches(p) == file = base[p]

(* A vault built in memory has no fingerprint; a session's must match, or   *)
(* the file must be gone.                                                   *)
CheckPasses(p) ==
  /\ pc[p] = "sealed"
  /\ \/ base[p] = Absent
     \/ file = Absent
     \/ FingerprintMatches(p)
  /\ Goto(p, "checked")
  /\ UNCHANGED <<storeVars, base, mem, out, stamp, faults, outages, historyVars>>

(* "vault changed on disk since it was loaded": the edit stays in memory.   *)
CheckConflicts(p) ==
  /\ pc[p] = "sealed"
  /\ base[p] # Absent
  /\ file # Absent
  /\ ~FingerprintMatches(p)
  /\ Goto(p, "open")
  /\ UNCHANGED <<storeVars, base, mem, out, stamp, faults, outages, historyVars>>

(* The file is there and reading it fails: `if let Ok(current)` skips the   *)
(* comparison.                                                              *)
CheckUnreadable(p) ==
  /\ pc[p] = "sealed"
  /\ base[p] # Absent
  /\ file # Absent
  /\ Fault
  /\ unread' = [unread EXCEPT ![p] = TRUE]
  /\ Goto(p, "checked")
  /\ UNCHANGED <<storeVars, base, mem, out, stamp, outages, delta, touched>>

(* File::create and write_all to a temporary path of p's own ...            *)
WriteTemp(p) ==
  /\ pc[p] = "checked"
  /\ Goto(p, "written")
  /\ UNCHANGED <<storeVars, base, mem, out, stamp, faults, outages, historyVars>>

(* ... and sync_all.                                                        *)
SyncTemp(p) ==
  /\ pc[p] = "written"
  /\ Goto(p, "synced")
  /\ UNCHANGED <<storeVars, base, mem, out, stamp, faults, outages, historyVars>>

(* Writing, syncing or renaming fails: the temporary file is removed. A     *)
(* session keeps its edits; a creator goes on to its cleanup.               *)
SaveFails(p) ==
  /\ pc[p] \in Writing
  /\ Fault
  /\ IF base[p] = Absent
     THEN Goto(p, "failed") /\ UNCHANGED <<touched, unread>>
     ELSE /\ Goto(p, "open")
          /\ touched' = [touched EXCEPT ![p] = IF @ = "none" THEN @ ELSE "before"]
          /\ unread' = [unread EXCEPT ![p] = FALSE]
  /\ UNCHANGED <<storeVars, base, mem, out, stamp, outages, delta>>

TempWritten(p) == pc[p] \in {"written", "synced"}
TempReady(p) == pc[p] = "synced"

(* The fingerprint a session keeps is that of what it has just written.     *)
KeptFingerprint(p) == base[p]
NewFingerprint(p) == out[p]

(* create_vault drops its Vault and returns.                                *)
Rename(p) ==
  /\ TempReady(p)
  /\ file' = out[p]
  /\ dirty' = (pc[p] # "synced")
  /\ touched' = [q \in Processes |-> Behind(p, q)]
  /\ IF base[p] = Absent
     THEN Forget(p)
     ELSE /\ Goto(p, "open")
          /\ base' = [base EXCEPT ![p] = NewFingerprint(p)]
          /\ delta' = [delta EXCEPT ![p] = NoEdits]
          /\ unread' = [unread EXCEPT ![p] = FALSE]
          /\ UNCHANGED <<mem, out>>
  /\ UNCHANGED <<disk, stamp, faults, outages>>

-----------------------------------------------------------------------------
(* The world around: processes that stop, the disk, the user.               *)

Crash(p) ==
  /\ pc[p] # "out"
  /\ Fault
  /\ touched' = [touched EXCEPT ![p] = "none"]
  /\ Forget(p)
  /\ UNCHANGED <<storeVars, stamp, outages>>

(* The file system writes back the directory entry and the data behind it.  *)
Flush ==
  /\ disk # file \/ dirty
  /\ disk' = file
  /\ dirty' = FALSE
  /\ UNCHANGED <<file, sessionVars, stamp, faults, outages, historyVars>>

(* The path comes back as last flushed, or with the entry that was on its   *)
(* way, torn if its data had not been synced.                               *)
PowerLoss ==
  /\ outages < MaxOutages
  /\ outages' = outages + 1
  /\ file' \in {disk, IF dirty THEN Torn ELSE file}
  /\ disk' = file'
  /\ dirty' = FALSE
  /\ pc' = [p \in Processes |-> "out"]
  /\ base' = [p \in Processes |-> Absent]
  /\ mem' = [p \in Processes |-> NoRecords]
  /\ out' = [p \in Processes |-> Absent]
  /\ delta' = [p \in Processes |-> NoEdits]
  /\ touched' = [p \in Processes |-> "none"]
  /\ unread' = [p \in Processes |-> FALSE]
  /\ UNCHANGED <<stamp, faults>>

UserDeletes ==
  /\ outages < MaxOutages
  /\ outages' = outages + 1
  /\ file # Absent
  /\ file' = Absent
  /\ dirty' = FALSE
  /\ touched' = [q \in Processes |-> Missed(q)]
  /\ UNCHANGED <<disk, sessionVars, stamp, faults, delta, unread>>

-----------------------------------------------------------------------------
(* What a process does next without anyone's help, once it has begun.       *)
Progress(p) ==
  \/ BuildVault(p) \/ CreateFails(p) \/ Withdraw(p)
  \/ CheckPasses(p) \/ CheckConflicts(p)
  \/ WriteTemp(p) \/ SyncTemp(p) \/ Rename(p)

Process(p) ==
  \/ Claim(p) \/ Load(p) \/ Unlock(p) \/ Close(p)
  \/ \E n \in Names : Remove(p, n) \/ \E v \in Values : Add(p, n, v) \/ Upsert(p, n, v)
  \/ CheckUnreadable(p) \/ SaveFails(p) \/ WithdrawFails(p) \/ Crash(p)
  \/ Progress(p)

Next ==
  \/ \E p \in Processes : Process(p)
  \/ Flush \/ PowerLoss \/ UserDeletes

Spec == Init /\ [][Next]_vars

(* The programs run save and create_vault to the end without waiting.       *)
FairSpec == Spec /\ \A p \in Processes : WF_vars(Progress(p))

-----------------------------------------------------------------------------
Types ==
  /\ file \in Contents /\ disk \in Contents /\ dirty \in BOOLEAN
  /\ pc \in [Processes -> States]
  /\ base \in [Processes -> Images \cup {Absent}]
  /\ out \in [Processes -> Images \cup {Absent}]
  /\ mem \in [Processes -> Records]
  /\ stamp \in Nat /\ faults \in Nat /\ outages \in Nat
  /\ delta \in [Processes -> Edits]
  /\ touched \in [Processes -> {"none", "before", "within"}]
  /\ unread \in [Processes -> BOOLEAN]

(* Which images the control states go with: a creator and a closed session  *)
(* have loaded none, an unlocked one has, one that saves has sealed one.    *)
Shape(p) ==
  /\ pc[p] \in {"out", "claimed", "failed"} => base[p] = Absent
  /\ pc[p] \in {"loaded", "open"} => base[p] # Absent
  /\ pc[p] \in {"claimed", "failed"} \cup Saving => out[p] # Absent

TypeOK == Types /\ \A p \in Processes : Shape(p)

(* The path never holds, and would never hold after a power loss, an image  *)
(* that is not whole: the vault's only wrapped key is in it (save's         *)
(* temporary file, sync_all and rename).                                    *)
NeverTorn == file # Torn /\ disk # Torn

(* p's rename takes effect in this step.                                    *)
Publishes(p) == pc[p] \in Writing /\ file' = out[p] /\ file # out[p]

(* A save changes a vault by the edits of its own session and by nothing    *)
(* else, under the same key, unless another process changed the path        *)
(* between save's check and its rename, or save could not read the file: an *)
(* edit some other save had stored is not undone, and a creation never      *)
(* replaces a vault.                                                        *)
NoLostUpdate ==
  [][\A p \in Processes :
       /\ Publishes(p) /\ IsImage(file)
       /\ touched[p] # "within" /\ ~unread[p]
       => file'.recs = Apply(delta[p], file.recs) /\ file'.dek = file.dek]_vars

(* The same without the excuse of an unreadable file. The comment in save   *)
(* admits the window between check and rename and says of the comparison it *)
(* skips "If the file is gone, there is nothing to clobber".                *)
NoLostUpdateOutsideWindow ==
  [][\A p \in Processes :
       Publishes(p) /\ IsImage(file) /\ touched[p] # "within"
       => file'.recs = Apply(delta[p], file.recs) /\ file'.dek = file.dek]_vars

(* A vault, once at the path, stays there whole through every step of every *)
(* process: creations that meet it, fail or crash, saves that fail. Only a  *)
(* creation whose placeholder was taken from under it may remove it.        *)
VaultSurvives ==
  [][IsImage(file) /\ outages' = outages
       => \/ IsImage(file')
          \/ \E p \in Processes : pc[p] = "failed" /\ touched[p] = "within"]_vars

(* A save refuses only a change by someone else: a long-lived session's own *)
(* saves, failed ones too, never make its next save refuse.                 *)
RefusedOnlyIfChanged ==
  [][\A p \in Processes :
       pc[p] = "sealed" /\ pc'[p] = "open" => touched[p] # "none"]_vars

(* A claimed path becomes a vault or is free again, so that a retry is not  *)
(* left permanently blocked by a leftover empty file, as long as no process *)
(* crashes, no I/O fails and no power is lost.                              *)
ClaimResolved ==
  file = Placeholder ~> file # Placeholder \/ faults > 0 \/ outages > 0

-----------------------------------------------------------------------------
Store == INSTANCE SecretStore WITH
  contents <- IF IsImage(file) THEN file.recs ELSE NoVault,
  pending <- delta

(* Any step but an outage, a rename behind which the path changed or was     *)
(* unreadable, and a cleanup behind which it changed. Only that one step is  *)
(* excused, nothing anybody does after it.                                   *)
Undisturbed ==
  /\ outages' = outages
  /\ \A p \in Processes :
       Publishes(p) \/ (pc[p] = "failed" /\ pc'[p] = "out")
         => touched[p] # "within" /\ ~unread[p]

(* The file is SecretStore's one map: sessions that come, edit, are refused, *)
(* fail or crash store all their edits on top of what is there in one step,  *)
(* or none, in every step but those that a change of the path between a      *)
(* check and its rename, an unreadable file or an outage has spoiled.        *)
AtomicStore ==
  Store!Init /\ [][Undisturbed => [Store!Next]_(Store!storeVars)]_vars

=============================================================================
