----------------------------- MODULE Clipboard ------------------------------
(***************************************************************************)
(* The copies of secrets on the one clipboard of a session: vaultgui       *)
(* (clipboard.rs) and vaultctl (clip.rs) each put the text there and start *)
(* a process that clears it later, which nobody waits for and which        *)
(* outlives the program, a lock and the copy itself. The one of vaultgui   *)
(* first looks whether its text is still there, the one of vaultctl does   *)
(* not. Other programs use the clipboard all the while, and keep it from   *)
(* being opened.                                                           *)
(***************************************************************************)
EXTENDS Integers

CONSTANTS
  Texts,      \* what anybody may copy
  Variants,   \* pairs of texts that differ in the case of letters only
  Blank,      \* the space a clearer leaves
  Secs,       \* seconds to live of a secret ...
  CodeSecs,   \* ... and of the recovery code
  MaxCopies   \* bound: copies by vaultgui and vaultctl

ASSUME ClipboardAssumption ==
  /\ Blank \notin Texts
  /\ \A pair \in Variants : pair \subseteq Texts
  /\ Secs \in Nat \ {0}
  /\ CodeSecs \in Nat /\ CodeSecs >= Secs
  /\ MaxCopies \in Nat

VARIABLES
  clip,            \* the text on the clipboard
  clearers,        \* the clearing process of each copy
  copies,
  clip_remaining,  \* the countdown in the window of vaultgui
  \* History, read by the properties only:
  by,              \* who put the text there ...
  own,             \* ... and with which of the copies, 0 if with none
  age, due,        \* for how long it has been there, and how long it should be
  overtaken,       \* clearers that have looked and somebody copied since
  failed           \* a clearer could not start or not open the clipboard

vars == <<clip, clearers, copies, clip_remaining, by, own, age, due, overtaken, failed>>

Slots == 1 .. MaxCopies
Delays == {Secs, CodeSecs}
Contents == Texts \cup {Blank}

Stopped == [pc |-> "stopped", exp |-> Blank, verify |-> FALSE, left |-> 0]
Clearers == [pc : {"stopped", "sleep", "clear"}, exp : Contents, verify : BOOLEAN,
             left : 0 .. CodeSecs]

Init ==
  /\ clip \in Contents
  /\ clearers = [i \in Slots |-> Stopped]
  /\ copies = 0
  /\ clip_remaining = 0
  /\ by = "other" /\ own = 0 /\ age = 0 /\ due = 0
  /\ overtaken = {}
  /\ failed = FALSE

Put(text, who, copy, secs) ==
  /\ clip' = text /\ by' = who /\ own' = copy
  /\ age' = 0 /\ due' = secs
  /\ overtaken' = {i \in Slots : clearers[i].pc = "clear"}

Kept == UNCHANGED <<clip, by, own, age, due, overtaken>>

-----------------------------------------------------------------------------
(* copy_with_autoclear of both programs                                     *)

(* Start-Sleep.                                                             *)
NoSleep(secs) == 0
Sleep(secs) == secs

Clearer(text, secs, verify) ==
  [pc |-> "sleep", exp |-> text, verify |-> verify, left |-> Sleep(secs)]

(* Each copy starts a clearer, whatever other clearers there are.           *)
StartsIfNoneRuns == \A i \in Slots : clearers[i].pc = "stopped"
StartsClearer == TRUE

Started(text, secs, verify) ==
  clearers' = [clearers EXCEPT ![copies'] =
                 IF StartsClearer THEN Clearer(text, secs, verify) ELSE @]

(* clip.exe, or the clearer after it, may not start: an error either way.   *)
(* If clip.exe starts and fails, its exit status is dropped: the clipboard  *)
(* is as it was, and the clearer is started all the same.                   *)
copy_with_autoclear(text, secs, verify, who) ==
  \/ /\ copies < MaxCopies
     /\ copies' = copies + 1
     /\ \/ Put(text, who, copies', secs) /\ Started(text, secs, verify) /\ UNCHANGED failed
        \/ Put(text, who, copies', secs) /\ failed' = TRUE /\ UNCHANGED clearers
        \/ Kept /\ Started(text, secs, verify) /\ UNCHANGED failed
  \/ Kept /\ UNCHANGED <<copies, clearers, failed>>

(* on_copy, on_copy_generated and on_copy_recovery_code: the error is       *)
(* dropped and the countdown starts.                                        *)
Copy(text, secs) ==
  /\ copy_with_autoclear(text, secs, TRUE, "vaultgui")
  /\ clip_remaining' = secs

(* vaultctl get --clip: the error is the command's.                         *)
Get(text) ==
  /\ copy_with_autoclear(text, Secs, FALSE, "vaultctl")
  /\ UNCHANGED clip_remaining

-----------------------------------------------------------------------------
(* The clearing processes                                                   *)

Awake(i) == clearers[i].pc = "sleep" /\ clearers[i].left = 0

(* PowerShell's -eq ignores case.                                           *)
SameText(a, b) == a = b \/ {a, b} \in Variants

Unverified(i) == TRUE
Verified(i) == SameText(clip, clearers[i].exp)

Stop(i) == clearers' = [clearers EXCEPT ![i] = Stopped]

(* Get-Clipboard and -eq. What cannot be read is not equal.                 *)
Verify(i) ==
  /\ Awake(i) /\ clearers[i].verify
  /\ \/ Verified(i) /\ clearers' = [clearers EXCEPT ![i].pc = "clear"] /\ UNCHANGED failed
     \/ ~Verified(i) /\ Stop(i) /\ UNCHANGED failed
     \/ Stop(i) /\ failed' = TRUE
  /\ Kept
  /\ UNCHANGED <<copies, clip_remaining>>

(* Set-Clipboard                                                            *)
Clear(i) ==
  /\ \/ clearers[i].pc = "clear"
     \/ Awake(i) /\ ~clearers[i].verify
  /\ Stop(i)
  /\ \/ Put(Blank, "clearer", 0, 0) /\ UNCHANGED failed
     \/ Kept /\ failed' = TRUE
  /\ UNCHANGED <<copies, clip_remaining>>

-----------------------------------------------------------------------------
Decremented(n) == n - 1
Decrement(n) == IF n > 0 THEN n - 1 ELSE 0

(* A second passes.                                                         *)
Second ==
  /\ clearers' = [i \in Slots |->
                    [clearers[i] EXCEPT !.left = IF @ > 0 THEN @ - 1 ELSE 0]]
  /\ age' = IF age < CodeSecs THEN age + 1 ELSE age
  /\ UNCHANGED <<clip, copies, clip_remaining, by, own, due, overtaken, failed>>

(* The window's timer, for display only.                                    *)
Countdown ==
  /\ clip_remaining' = Decrement(clip_remaining)
  /\ UNCHANGED <<clip, clearers, copies, by, own, age, due, overtaken, failed>>

(* The session locks: nothing is done about the clipboard.                  *)
do_lock ==
  /\ clip_remaining' = 0
  /\ UNCHANGED <<clip, clearers, copies, by, own, age, due, overtaken, failed>>

OtherCopies(text) ==
  /\ Put(text, "other", 0, 0)
  /\ UNCHANGED <<clearers, copies, clip_remaining, failed>>

Next ==
  \/ \E text \in Texts : OtherCopies(text) \/ Get(text) \/ \E secs \in Delays : Copy(text, secs)
  \/ \E i \in Slots : Verify(i) \/ Clear(i)
  \/ Second \/ Countdown \/ do_lock

Spec == Init /\ [][Next]_vars

(* Time passes, and a process that was started runs.                        *)
FairSpec ==
  /\ Spec
  /\ WF_vars(Second)
  /\ \A i \in Slots : WF_vars(Verify(i)) /\ WF_vars(Clear(i))

-----------------------------------------------------------------------------
TypeOK ==
  /\ clip \in Contents
  /\ clearers \in [Slots -> Clearers]
  /\ copies \in 0 .. MaxCopies
  /\ clip_remaining \in 0 .. CodeSecs
  /\ by \in {"vaultgui", "vaultctl", "other", "clearer"} /\ own \in 0 .. MaxCopies
  /\ age \in 0 .. CodeSecs /\ due \in {0} \cup Delays
  /\ overtaken \subseteq Slots
  /\ failed \in BOOLEAN

(* Clearer i of vaultgui blanks what is on the clipboard in this step,      *)
(* though nobody copied anything since it looked.                           *)
Blanks(i) ==
  /\ clearers[i].pc = "clear" /\ i \notin overtaken
  /\ clip' = Blank /\ by' = "clearer"

(* "[A] value the user copied in the meantime is not destroyed": a clearer  *)
(* of vaultgui takes away its own text only, also after other copies and    *)
(* clearers came and went, but for the case of letters and for a copy that  *)
(* comes between its look and its clearing.                                 *)
SparesOthers ==
  [][\A i \in Slots : Blanks(i) => SameText(clip, clearers[i].exp)]_vars

(* The clearer of a copy of vaultgui never takes it before its time, a      *)
(* recovery code's before its longer one. Other clearers may, and of three  *)
(* kinds only: one of vaultctl, which does not look; one that looked before *)
(* the copy came; and one of another copy of the same text, earlier or      *)
(* later, also of one that clip.exe failed to put there.                    *)
Takes(i) == clearers'[i] # clearers[i] /\ by' = "clearer"

StaysItsTime ==
  [][\A i \in Slots :
       by = "vaultgui" /\ age < due /\ Takes(i) =>
         /\ i # own
         /\ \/ ~clearers[i].verify
            \/ i \in overtaken
            \/ SameText(clip, clearers[i].exp)]_vars

(* A secret that was copied goes from the clipboard, through locks and exits *)
(* of the programs, whatever else is copied and cleared meanwhile, unless a  *)
(* clearer could not start or could not open the clipboard.                  *)
CopyGoes == by \in {"vaultgui", "vaultctl"} ~> by \notin {"vaultgui", "vaultctl"} \/ failed

=============================================================================
