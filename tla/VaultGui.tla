------------------------------ MODULE VaultGui ------------------------------
(***************************************************************************)
(* The desktop program (vaultgui): the unlocked session and what the       *)
(* window holds of it (main.rs, session.rs, app.slint), and the watcher    *)
(* thread that locks it (watcher/mod.rs, autolock.rs).                     *)
(*                                                                         *)
(* Callbacks run one at a time on the UI thread, each to its end. The      *)
(* watcher ticks once a second on its own thread and can only post a lock, *)
(* which the UI thread runs after whatever it is doing: any callback may   *)
(* come between. Other programs edit and delete the vault file meanwhile.  *)
(* What `save` does is VaultStore's subject: here it stores, or it fails.  *)
(***************************************************************************)
EXTENDS Integers

CONSTANTS
  Names, Values,
  NoValue,    \* "no record of this name"
  NoName,     \* nothing is selected
  NoFile,     \* there is no vault file
  Timeout,    \* idle_timeout_secs at startup
  MaxPosted   \* bound: locks posted and not run yet

ASSUME GuiAssumption ==
  /\ NoValue \notin Values
  /\ NoName \notin Names
  /\ NoFile \notin [Names -> Values \cup {NoValue}]
  /\ Timeout \in Nat \ {0}
  /\ MaxPosted \in Nat

VARIABLES
  file,       \* the records in the vault file
  stale,      \* TRUE if the file is not what the session loaded or last wrote
  state,      \* AppState: "locked" or "unlocked"
  records,    \* the session's records
  screen,
  full_names, record_names, selected, revealed_value, generated_value,
  recovery_code,
  filter,     \* TRUE if there is a text in the search box
  error,      \* the name in the error toast, NoName if it shows none or is gone
  idle,       \* whole seconds since the last input
  fired,      \* the watcher's latch
  posted,     \* posted locks
  idle_remaining, \* the countdown on screen
  \* History, read by the properties only:
  last,       \* the last edit of this session and what became of it
  told        \* a failed save was reported and none has gone through since

fileVars == <<file, stale>>
shown == <<full_names, record_names, selected, revealed_value, generated_value>>
leftOver == <<recovery_code, filter, error>>
watcherVars == <<fired, posted, idle_remaining>>
historyVars == <<last, told>>
vars == <<file, stale, state, records, screen, full_names, record_names, selected,
          revealed_value, generated_value, recovery_code, filter, error, idle, fired,
          posted, idle_remaining, last, told>>

Records == [Names -> Values \cup {NoValue}]
NoRecords == [n \in Names |-> NoValue]
Hidden == [name |-> NoName, value |-> NoValue]
NoEdit == [op |-> "none", name |-> NoName, result |-> "none"]

Edits == [op : {"add", "rotate", "remove"}, name : Names,
          result : {"stored", "unsaved", "refused"}]

List(r) == {n \in Names : r[n] # NoValue}

Init ==
  /\ file \in Records \cup {NoFile}
  /\ stale = FALSE
  /\ state = "locked"
  /\ records = NoRecords
  /\ screen = IF file = NoFile THEN "create" ELSE "unlock"
  /\ full_names = {} /\ record_names = {}
  /\ selected = NoName
  /\ revealed_value = Hidden
  /\ generated_value = FALSE
  /\ recovery_code = FALSE /\ filter = FALSE /\ error = NoName
  /\ idle = 0 /\ fired = FALSE /\ posted = 0 /\ idle_remaining = 0
  /\ last = NoEdit /\ told = FALSE

(* Every callback of the user's is an input to the system.                  *)
Input == idle' = 0 /\ UNCHANGED watcherVars

-----------------------------------------------------------------------------
(* Locking                                                                  *)

LeaveNames == full_names
ClearedNames == {}

(* The search text and the error toast are not touched, nor is the code.    *)
do_lock ==
  /\ state' = "locked"
  /\ records' = NoRecords
  /\ revealed_value' = Hidden
  /\ generated_value' = FALSE
  /\ record_names' = {}
  /\ selected' = NoName
  /\ screen' = IF file # NoFile THEN "unlock" ELSE "create"
  /\ full_names' = ClearedNames
  /\ last' = NoEdit /\ told' = FALSE
  /\ UNCHANGED <<fileVars, leftOver>>

LockNow == screen = "vault" /\ do_lock /\ Input

(* The UI thread runs a lock the watcher posted, on whatever screen it is.  *)
RunPostedLock ==
  /\ posted > 0
  /\ posted' = posted - 1
  /\ do_lock
  /\ UNCHANGED <<idle, fired, idle_remaining>>

-----------------------------------------------------------------------------
(* The toast floats above every screen until the user dismisses it or       *)
(* another message replaces it: of an unlock, a creation or a reveal that   *)
(* fails, of a deprovisioning. None of these has a name in it.              *)
ReplaceError ==
  /\ error # NoName
  /\ error' = NoName
  /\ Input
  /\ UNCHANGED <<fileVars, state, records, screen, shown, recovery_code, filter, historyVars>>

-----------------------------------------------------------------------------
(* The create, recovery-code and unlock screens                             *)

(* create_vault refuses a path that exists; any other failure leaves        *)
(* nothing behind. Without an escrow the code is not touched.               *)
on_create_vault(recovery) ==
  /\ screen = "create" /\ file = NoFile
  /\ file' = NoRecords
  /\ recovery_code' = (recovery \/ recovery_code)
  /\ error' = NoName
  /\ screen' = IF recovery THEN "recovery-code" ELSE "unlock"
  /\ Input
  /\ UNCHANGED <<stale, state, records, shown, filter, historyVars>>

SavedCode ==
  /\ screen = "recovery-code"
  /\ recovery_code' = FALSE
  /\ screen' = "unlock"
  /\ Input
  /\ UNCHANGED <<fileVars, state, records, shown, filter, error, historyVars>>

(* A wrong passphrase or a file that does not open is an error message. The *)
(* whole list is shown, whatever the search box still says.                 *)
on_unlock ==
  /\ screen = "unlock" /\ file # NoFile
  /\ state' = "unlocked"
  /\ records' = file
  /\ stale' = FALSE
  /\ full_names' = List(file) /\ record_names' = List(file)
  /\ screen' = "vault" /\ error' = NoName
  /\ last' = NoEdit /\ told' = FALSE
  /\ Input
  /\ UNCHANGED <<file, selected, revealed_value, generated_value, recovery_code, filter>>

(* The user picks another vault file, which exists.                         *)
on_pick_vault(r) ==
  /\ screen = "unlock"
  /\ file' = r
  /\ error' = NoName
  /\ Input
  /\ UNCHANGED <<stale, state, records, screen, shown, recovery_code, filter, historyVars>>

-----------------------------------------------------------------------------
(* The vault and settings screens                                           *)

KeepRevealed == revealed_value
MaskRevealed == Hidden

on_select(n) ==
  /\ screen = "vault" /\ n \in record_names
  /\ selected' = n
  /\ revealed_value' = MaskRevealed
  /\ Input
  /\ UNCHANGED <<fileVars, state, records, screen, full_names, record_names,
                 generated_value, leftOver, historyVars>>

on_mask ==
  /\ screen = "vault" /\ revealed_value # Hidden
  /\ revealed_value' = Hidden
  /\ Input
  /\ UNCHANGED <<fileVars, state, records, screen, full_names, record_names, selected,
                 generated_value, leftOver, historyVars>>

(* A declined Windows Hello prompt reveals nothing.                         *)
on_reveal(n) ==
  /\ screen = "vault" /\ n = selected /\ revealed_value = Hidden
  /\ state = "unlocked" /\ records[n] # NoValue
  /\ revealed_value' = [name |-> n, value |-> records[n]]
  /\ Input
  /\ UNCHANGED <<fileVars, state, records, screen, full_names, record_names, selected,
                 generated_value, leftOver, historyVars>>

(* No text finds every name, and a text any of them.                        *)
on_search(found) ==
  /\ screen = "vault"
  /\ record_names' = full_names \cap found
  /\ filter' \in {TRUE, found # Names}
  /\ Input
  /\ UNCHANGED <<fileVars, state, records, screen, full_names, selected, revealed_value,
                 generated_value, recovery_code, error, historyVars>>

on_generate ==
  /\ screen = "settings"
  /\ generated_value' = TRUE
  /\ Input
  /\ UNCHANGED <<fileVars, state, records, screen, full_names, record_names, selected,
                 revealed_value, leftOver, historyVars>>

OpenSettings ==
  /\ screen = "vault"
  /\ screen' = "settings"
  /\ Input
  /\ UNCHANGED <<fileVars, state, records, shown, leftOver, historyVars>>

CloseSettings ==
  /\ screen = "settings"
  /\ screen' = "vault"
  /\ Input
  /\ UNCHANGED <<fileVars, state, records, shown, leftOver, historyVars>>

(* `save` of r, with its I/O going through or not: a file that changed is   *)
(* refused, one that is gone is written again.                              *)
Stores(io) == io /\ (file = NoFile \/ ~stale)

ResultOfCheck(io) == IF Stores(TRUE) THEN "stored" ELSE "unsaved"
Result(io) == IF Stores(io) THEN "stored" ELSE "unsaved"

Saved(r, io) ==
  IF Stores(io) THEN file' = r /\ stale' = FALSE ELSE UNCHANGED fileVars

refresh_names ==
  /\ full_names' = List(records')
  /\ record_names' = List(records')

(* An edit of the session and its save; the edit stays if the save fails,   *)
(* and the toast says so.                                                   *)
Edit(op, n, v, io) ==
  /\ records' = [records EXCEPT ![n] = v]
  /\ Saved(records', io)
  /\ refresh_names
  /\ last' = [op |-> op, name |-> n, result |-> Result(io)]
  /\ told' = (Result(io) = "unsaved")
  /\ error' = NoName
  /\ Input
  /\ UNCHANGED <<state, screen, generated_value, recovery_code, filter>>

Refuse(op, n) ==
  /\ last' = [op |-> op, name |-> n, result |-> "refused"]
  /\ UNCHANGED told
  /\ error' = n
  /\ Input
  /\ UNCHANGED <<fileVars, state, records, screen, generated_value, recovery_code, filter>>

(* A name that is there is a Duplicate, and the toast says of which name:   *)
(* nothing is saved.                                                        *)
on_add_secret(n, v, io) ==
  /\ screen = "vault" /\ state = "unlocked"
  /\ IF records[n] # NoValue
     THEN Refuse("add", n) /\ UNCHANGED <<full_names, record_names>>
     ELSE Edit("add", n, v, io)
  /\ UNCHANGED <<selected, revealed_value>>

on_rotate(n, v, io) ==
  /\ screen = "vault" /\ state = "unlocked" /\ n = selected
  /\ Edit("rotate", n, v, io)
  /\ UNCHANGED <<selected, revealed_value>>

on_remove(n, io) ==
  /\ screen = "vault" /\ state = "unlocked" /\ n = selected
  /\ Edit("remove", n, NoValue, io)
  /\ selected' = NoName
  /\ revealed_value' = Hidden

-----------------------------------------------------------------------------
(* The watcher: WM_TIMER, WM_WTSSESSION_CHANGE and WM_POWERBROADCAST.       *)

decide == idle >= Timeout

KeepLatch == fired
ClearLatch == FALSE

(* One second. The first tick after an input finds less than a second of    *)
(* idle time.                                                               *)
Tick ==
  /\ idle' = IF idle > Timeout THEN idle ELSE idle + 1
  /\ IF decide
     THEN /\ fired' = TRUE
          /\ IF fired THEN UNCHANGED posted
             ELSE posted < MaxPosted /\ posted' = posted + 1
     ELSE fired' = ClearLatch /\ UNCHANGED posted
  /\ UNCHANGED <<idle_remaining, fileVars, state, records, screen, shown, leftOver, historyVars>>

(* The countdown timer, on the UI thread.                                   *)
Overdrawn(t, i) == t - i
SaturatingSub(t, i) == IF i > t THEN 0 ELSE t - i

Countdown ==
  /\ state = "unlocked"
  /\ idle_remaining' = SaturatingSub(Timeout, idle)
  /\ UNCHANGED <<fileVars, state, records, screen, shown, leftOver, idle, fired,
                 posted, historyVars>>

(* The workstation locks or the machine suspends.                           *)
SystemLock ==
  /\ posted < MaxPosted
  /\ posted' = posted + 1
  /\ UNCHANGED <<fileVars, state, records, screen, shown, leftOver, idle, fired,
                 idle_remaining, historyVars>>

(* Input to any other program.                                              *)
OtherInput ==
  /\ idle > 0
  /\ Input
  /\ UNCHANGED <<fileVars, state, records, screen, shown, leftOver, historyVars>>

-----------------------------------------------------------------------------
(* Another program saves the vault, or the user deletes it.                 *)
OtherSave(r) ==
  /\ file # NoFile /\ file # r
  /\ file' = r
  /\ stale' = TRUE
  /\ UNCHANGED <<state, records, screen, shown, leftOver, idle, watcherVars, historyVars>>

FileDeleted ==
  /\ file # NoFile
  /\ file' = NoFile
  /\ stale' = TRUE
  /\ UNCHANGED <<state, records, screen, shown, leftOver, idle, watcherVars, historyVars>>

-----------------------------------------------------------------------------
UserEdit ==
  \E n \in Names, io \in BOOLEAN :
    \/ on_remove(n, io)
    \/ \E v \in Values : on_add_secret(n, v, io) \/ on_rotate(n, v, io)

User ==
  \/ LockNow \/ ReplaceError \/ SavedCode \/ on_unlock \/ on_mask \/ on_generate
  \/ OpenSettings \/ CloseSettings \/ UserEdit
  \/ \E recovery \in BOOLEAN : on_create_vault(recovery)
  \/ \E n \in Names : on_select(n) \/ on_reveal(n)
  \/ \E found \in SUBSET Names : on_search(found)
  \/ \E r \in Records : on_pick_vault(r)

World ==
  \/ SystemLock \/ OtherInput \/ FileDeleted
  \/ \E r \in Records : OtherSave(r)

Next == User \/ World \/ Tick \/ Countdown \/ RunPostedLock

Spec == Init /\ [][Next]_vars

(* WM_TIMER keeps coming and the event loop runs what is posted to it.      *)
FairSpec == Spec /\ WF_vars(Tick) /\ WF_vars(RunPostedLock)

-----------------------------------------------------------------------------
TypeOK ==
  /\ file \in Records \cup {NoFile}
  /\ stale \in BOOLEAN
  /\ state \in {"locked", "unlocked"}
  /\ records \in Records
  /\ screen \in {"create", "recovery-code", "unlock", "vault", "settings"}
  /\ full_names \subseteq Names /\ record_names \subseteq Names
  /\ selected \in Names \cup {NoName}
  /\ revealed_value \in [name : Names, value : Values] \cup {Hidden}
  /\ generated_value \in BOOLEAN /\ recovery_code \in BOOLEAN /\ filter \in BOOLEAN
  /\ error \in Names \cup {NoName}
  /\ idle \in 0 .. Timeout + 1 /\ idle_remaining \in 0 .. Timeout
  /\ fired \in BOOLEAN /\ posted \in 0 .. MaxPosted
  /\ last \in Edits \cup {NoEdit} /\ told \in BOOLEAN

(* Whenever the session is locked, by the user or by a posted lock that     *)
(* came between any two callbacks, the window's lists, its selection and    *)
(* the two values it may show are empty, and it is on a screen that needs   *)
(* none of them; unlocked, it shows the vault. Nothing is said of what      *)
(* do_lock leaves: the search text, and the name of a record in the toast   *)
(* of a refused add, both of which a locked window may still hold.          *)
LockedHoldsNothing ==
  IF state = "locked"
  THEN /\ screen \in {"create", "recovery-code", "unlock"}
       /\ full_names = {} /\ record_names = {} /\ selected = NoName
       /\ revealed_value = Hidden /\ ~generated_value
  ELSE screen \in {"vault", "settings"}

(* What is listed, filtered and selected are records of the session, after  *)
(* every edit, whether its save went through or not, and a revealed value   *)
(* stands under the name it was revealed for. A list that is cut short has  *)
(* the search text beside it, and a toast that names a record names one of  *)
(* this session: those that a lock left hide nothing and do not mislead.    *)
ShowsTheSession ==
  /\ full_names = List(records)
  /\ record_names \subseteq full_names
  /\ record_names # full_names => filter
  /\ selected # NoName => selected \in full_names
  /\ revealed_value # Hidden => revealed_value.name = selected
  /\ state = "unlocked" /\ error # NoName => error \in full_names

(* Unless someone else wrote or deleted the file, the session differs from  *)
(* it only if a failed save was reported and no later one has gone through: *)
(* a save that succeeds also stores the edits that earlier ones could not.  *)
UnsavedIsTold ==
  state = "unlocked" /\ ~stale /\ ~told => file = records

(* "Change applied in memory but NOT saved to disk ... Try the action       *)
(* again": the same action on the same name, when it is tried again, is not *)
(* refused.                                                                 *)
Retried == last.result = "unsaved" /\ last'.op = last.op /\ last'.name = last.name

RetryNotRefused == [][Retried => last'.result # "refused"]_vars

(* "[S]crub every bit of UI state that could otherwise linger on-screen or  *)
(* in a model" (do_lock): the one-time recovery code, "shown ONCE on the    *)
(* recovery-code screen", is held on no other screen.                       *)
RecoveryCodeScrubbed == recovery_code => screen = "recovery-code"

(* Idle for the timeout, the session locks, every time: also after an       *)
(* earlier idle period locked it and the user came back.                    *)
IdleLocks == (state = "unlocked" /\ idle >= Timeout) ~> (state = "locked" \/ idle < Timeout)

=============================================================================
