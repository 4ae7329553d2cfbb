--------------------------- MODULE VaultGuiProofs ---------------------------
(***************************************************************************)
(* The session and its window agree at every moment, for any names, values *)
(* and timeout, whatever is posted and whoever writes the file meanwhile.  *)
(*                                                                         *)
(* The three properties are inductive together, and none of them alone:    *)
(* an unlock finds the lists it does not touch empty only because a locked *)
(* window lists nothing, and a reveal, or the name in a toast, is of what  *)
(* is listed only because the lists are the session's.                     *)
(***************************************************************************)
EXTENDS VaultGui, TLAPS

IInv == TypeOK /\ LockedHoldsNothing /\ ShowsTheSession /\ UnsavedIsTold

(* What the properties but the types are about.                             *)
seen == <<state, screen, records, file, stale, told, full_names, record_names,
          selected, revealed_value, generated_value, filter, error>>

Kept == LockedHoldsNothing /\ ShowsTheSession /\ UnsavedIsTold

-----------------------------------------------------------------------------
LEMMA NoRecordsEmpty == NoRecords \in Records /\ List(NoRecords) = {}
BY DEF NoRecords, Records, List

LEMMA InitInv == Init => IInv
<1> SUFFICES ASSUME Init PROVE IInv
  OBVIOUS
<1>1. TypeOK
  <2>1. /\ records \in Records /\ file \in Records \cup {NoFile}
        /\ full_names = {} /\ record_names = {} /\ selected = NoName
        /\ revealed_value = Hidden /\ last = NoEdit
    BY NoRecordsEmpty DEF Init
  <2>2. /\ idle \in 0 .. Timeout + 1 /\ idle_remaining \in 0 .. Timeout
        /\ posted \in 0 .. MaxPosted
    BY GuiAssumption DEF Init
  <2>3. stale = FALSE /\ generated_value = FALSE /\ recovery_code = FALSE
        /\ filter = FALSE /\ error = NoName /\ fired = FALSE /\ told = FALSE
    BY DEF Init
  <2>4. state = "locked" /\ screen \in {"create", "unlock"}
    BY DEF Init
  <2> QED
    BY <2>1, <2>2, <2>3, <2>4 DEF TypeOK
<1>2. Kept
  BY NoRecordsEmpty DEF Init, Kept, LockedHoldsNothing, ShowsTheSession, UnsavedIsTold
<1> QED
  BY <1>1, <1>2 DEF IInv, Kept

(* A step that touches nothing of the session, the window and the file.     *)
LEMMA UnseenStep == IInv /\ UNCHANGED seen => Kept'
BY DEF IInv, seen, Kept, LockedHoldsNothing, ShowsTheSession, UnsavedIsTold, List

(* A lock leaves nothing of the session in the lists and values, wherever   *)
(* it comes.                                                                *)
LEMMA LockStep == IInv /\ do_lock => Kept'
BY NoRecordsEmpty
   DEF do_lock, leftOver, ClearedNames, Kept, LockedHoldsNothing, ShowsTheSession,
       UnsavedIsTold, List

(* The screens of a locked session, and of an unlocked one.                 *)
LEMMA ScreenTells ==
  ASSUME IInv
  PROVE  /\ screen \in {"create", "recovery-code", "unlock"} => state = "locked"
         /\ screen \in {"vault", "settings"} => state = "unlocked"
BY DEF IInv, TypeOK, LockedHoldsNothing

(* An edit shows and stores what the session holds, or says that it did not. *)
LEMMA EditStep ==
  ASSUME IInv, screen = "vault",
         NEW n \in Names, NEW v \in Values \cup {NoValue}, NEW io \in BOOLEAN, NEW op,
         Edit(op, n, v, io),
         \/ selected' = NoName /\ revealed_value' = Hidden
         \/ UNCHANGED <<selected, revealed_value>> /\ v # NoValue
  PROVE  Kept'
<1>1. state = "unlocked"
  BY ScreenTells
<1>2. LockedHoldsNothing'
  BY <1>1 DEF Edit, LockedHoldsNothing
<1>3. records' = [records EXCEPT ![n] = v] /\ records \in Records
  BY DEF Edit, IInv, TypeOK
<1>4. ShowsTheSession'
  <2>1. full_names' = List(records') /\ record_names' = List(records') /\ error' = NoName
    BY DEF Edit, refresh_names
  <2>2. v # NoValue => List(records) \subseteq List(records')
    BY <1>3 DEF List, Records
  <2>3. CASE selected' = NoName /\ revealed_value' = Hidden
    BY <2>1, <2>3 DEF ShowsTheSession, List
  <2>4. CASE UNCHANGED <<selected, revealed_value>> /\ v # NoValue
    BY <2>1, <2>2, <2>4 DEF IInv, ShowsTheSession, List
  <2> QED
    BY <2>3, <2>4
<1>5. UnsavedIsTold'
  <2>1. CASE Stores(io)
    BY <2>1 DEF Edit, Saved, UnsavedIsTold
  <2>2. CASE ~Stores(io)
    BY <2>2 DEF Edit, Result, UnsavedIsTold
  <2> QED
    BY <2>1, <2>2
<1> QED
  BY <1>2, <1>4, <1>5 DEF Kept

(* A refused edit changes nothing that is shown or stored but the toast,    *)
(* which names a record of the session.                                     *)
LEMMA RefuseStep ==
  ASSUME IInv, NEW op, NEW n \in Names, records[n] # NoValue, Refuse(op, n),
         UNCHANGED <<full_names, record_names, selected, revealed_value>>
  PROVE  Kept'
<1>1. n \in List(records)
  BY DEF List
<1> QED
  BY <1>1 DEF Refuse, fileVars, IInv, Kept, LockedHoldsNothing, ShowsTheSession,
     UnsavedIsTold, List

LEMMA UserEditStep == IInv /\ UserEdit => Kept'
<1> SUFFICES ASSUME IInv, UserEdit PROVE Kept'
  OBVIOUS
<1>1. PICK n \in Names, io \in BOOLEAN :
        \/ on_remove(n, io)
        \/ \E v \in Values : on_add_secret(n, v, io) \/ on_rotate(n, v, io)
  BY DEF UserEdit
<1>2. CASE on_remove(n, io)
  BY <1>2, EditStep DEF on_remove
<1>3. ASSUME NEW v \in Values, on_rotate(n, v, io) PROVE Kept'
  BY <1>3, EditStep, GuiAssumption DEF on_rotate
<1>4. ASSUME NEW v \in Values, on_add_secret(n, v, io) PROVE Kept'
  <2>1. CASE records[n] # NoValue
    BY <1>4, <2>1, RefuseStep DEF on_add_secret
  <2>2. CASE records[n] = NoValue
    BY <1>4, <2>2, EditStep, GuiAssumption DEF on_add_secret
  <2> QED
    BY <2>1, <2>2
<1> QED
  BY <1>1, <1>2, <1>3, <1>4

-----------------------------------------------------------------------------
LEMMA UserStep == IInv /\ User => Kept'
<1> SUFFICES ASSUME IInv, User PROVE Kept'
  OBVIOUS
<1> USE DEF Kept
<1>0. CASE ReplaceError
  BY <1>0
     DEF ReplaceError, IInv, fileVars, shown, historyVars, LockedHoldsNothing,
         ShowsTheSession, UnsavedIsTold, List
<1>1. CASE LockNow
  BY <1>1, LockStep DEF LockNow
<1>2. CASE SavedCode
  BY <1>2, ScreenTells
     DEF SavedCode, IInv, fileVars, shown, historyVars, LockedHoldsNothing,
         ShowsTheSession, UnsavedIsTold, List
<1>3. CASE on_unlock
  <2>1. state = "locked"
    BY <1>3, ScreenTells DEF on_unlock
  <2>2. file \in Records
    BY <1>3 DEF on_unlock, IInv, TypeOK
  <2> QED
    BY <1>3, <2>1, <2>2
       DEF on_unlock, IInv, LockedHoldsNothing, ShowsTheSession, UnsavedIsTold, List
<1>4. CASE on_mask
  BY <1>4, ScreenTells
     DEF on_mask, IInv, fileVars, leftOver, historyVars, LockedHoldsNothing, ShowsTheSession,
         UnsavedIsTold, List
<1>5. CASE on_generate
  BY <1>5, ScreenTells
     DEF on_generate, IInv, fileVars, leftOver, historyVars, LockedHoldsNothing, ShowsTheSession,
         UnsavedIsTold, List
<1>6. CASE OpenSettings \/ CloseSettings
  BY <1>6, ScreenTells
     DEF OpenSettings, CloseSettings, IInv, fileVars, leftOver, shown, historyVars,
         LockedHoldsNothing, ShowsTheSession, UnsavedIsTold, List
<1>7. CASE UserEdit
  BY <1>7, UserEditStep
<1>8. ASSUME NEW recovery \in BOOLEAN, on_create_vault(recovery) PROVE Kept'
  BY <1>8, ScreenTells
     DEF on_create_vault, IInv, shown, historyVars, LockedHoldsNothing, ShowsTheSession,
         UnsavedIsTold, List
<1>9. ASSUME NEW n \in Names, on_select(n) PROVE Kept'
  BY <1>9, ScreenTells
     DEF on_select, MaskRevealed, IInv, fileVars, leftOver, historyVars, LockedHoldsNothing,
         ShowsTheSession, UnsavedIsTold, List
<1>10. ASSUME NEW n \in Names, on_reveal(n) PROVE Kept'
  BY <1>10, ScreenTells
     DEF on_reveal, IInv, fileVars, leftOver, historyVars, LockedHoldsNothing, ShowsTheSession,
         UnsavedIsTold, List
<1>11. ASSUME NEW found \in SUBSET Names, on_search(found) PROVE Kept'
  BY <1>11, ScreenTells
     DEF on_search, IInv, fileVars, leftOver, historyVars, LockedHoldsNothing, ShowsTheSession,
         UnsavedIsTold, List
<1>12. ASSUME NEW r \in Records, on_pick_vault(r) PROVE Kept'
  BY <1>12, ScreenTells
     DEF on_pick_vault, IInv, shown, historyVars, LockedHoldsNothing, ShowsTheSession,
         UnsavedIsTold, List
<1> QED
  BY <1>0, <1>1, <1>2, <1>3, <1>4, <1>5, <1>6, <1>7, <1>8, <1>9, <1>10, <1>11, <1>12 DEF User

(* Whoever writes or deletes the file makes it stale.                       *)
LEMMA FileStep ==
  ASSUME IInv, FileDeleted \/ \E r \in Records : OtherSave(r)
  PROVE  Kept'
BY DEF FileDeleted, OtherSave, IInv, Kept, shown, leftOver, historyVars, LockedHoldsNothing,
       ShowsTheSession, UnsavedIsTold, List

LEMMA KeptStep == IInv /\ [Next]_vars => Kept'
<1> SUFFICES ASSUME IInv, [Next]_vars PROVE Kept'
  OBVIOUS
<1>1. CASE User
  BY <1>1, UserStep
<1>2. CASE FileDeleted \/ \E r \in Records : OtherSave(r)
  BY <1>2, FileStep
<1>3. CASE SystemLock \/ OtherInput \/ Tick \/ Countdown
  <2>1. UNCHANGED seen
    BY <1>3 DEF SystemLock, OtherInput, Tick, Countdown, seen, fileVars, shown, leftOver,
       historyVars
  <2> QED
    BY <2>1, UnseenStep
<1>4. CASE RunPostedLock
  BY <1>4, LockStep DEF RunPostedLock
<1>5. CASE UNCHANGED vars
  BY <1>5, UnseenStep DEF vars, seen
<1> QED
  BY <1>1, <1>2, <1>3, <1>4, <1>5 DEF Next, World

-----------------------------------------------------------------------------
(* Types                                                                    *)
LEMMA ListType == \A r \in Records : List(r) \subseteq Names
BY DEF List

LEMMA InputType == TypeOK /\ Input => /\ idle' \in 0 .. Timeout + 1
                                     /\ idle_remaining' \in 0 .. Timeout
                                     /\ fired' \in BOOLEAN /\ posted' \in 0 .. MaxPosted
BY GuiAssumption DEF TypeOK, Input, watcherVars

LEMMA LockType == TypeOK /\ do_lock => /\ file' \in Records \cup {NoFile}
                                      /\ stale' \in BOOLEAN
                                      /\ state' \in {"locked", "unlocked"}
                                      /\ records' \in Records
                                      /\ screen' \in {"create", "recovery-code", "unlock",
                                                      "vault", "settings"}
                                      /\ full_names' \subseteq Names
                                      /\ record_names' \subseteq Names
                                      /\ selected' \in Names \cup {NoName}
                                      /\ revealed_value' \in [name : Names, value : Values]
                                                               \cup {Hidden}
                                      /\ generated_value' \in BOOLEAN
                                      /\ recovery_code' \in BOOLEAN
                                      /\ filter' \in BOOLEAN
                                      /\ error' \in Names \cup {NoName}
                                      /\ last' \in Edits \cup {NoEdit} /\ told' \in BOOLEAN
BY NoRecordsEmpty DEF TypeOK, do_lock, ClearedNames, fileVars, leftOver

LEMMA EditType ==
  ASSUME TypeOK, NEW op \in {"add", "rotate", "remove"}, NEW n \in Names,
         NEW v \in Values \cup {NoValue}, NEW io \in BOOLEAN,
         Edit(op, n, v, io),
         \/ selected' = NoName /\ revealed_value' = Hidden
         \/ UNCHANGED <<selected, revealed_value>>
  PROVE  TypeOK'
<1>1. records' \in Records
  BY DEF Edit, TypeOK, Records
<1>2. file' \in Records \cup {NoFile} /\ stale' \in BOOLEAN
  BY <1>1 DEF Edit, Saved, fileVars, TypeOK
<1>3. full_names' \subseteq Names /\ record_names' \subseteq Names
  BY <1>1, ListType DEF Edit, refresh_names
<1>4. last' \in Edits
  BY DEF Edit, Result, Edits
<1>5. told' \in BOOLEAN
  BY DEF Edit
<1> QED
  BY <1>1, <1>2, <1>3, <1>4, <1>5, InputType DEF Edit, TypeOK

LEMMA RefuseType ==
  ASSUME TypeOK, NEW op \in {"add", "rotate", "remove"}, NEW n \in Names, Refuse(op, n),
         UNCHANGED <<full_names, record_names, selected, revealed_value>>
  PROVE  TypeOK'
<1>1. last' \in Edits
  BY DEF Refuse, Edits
<1> QED
  BY <1>1, InputType DEF Refuse, fileVars, TypeOK

LEMMA UserEditType == TypeOK /\ UserEdit => TypeOK'
<1> SUFFICES ASSUME TypeOK, UserEdit PROVE TypeOK'
  OBVIOUS
<1>1. PICK n \in Names, io \in BOOLEAN :
        \/ on_remove(n, io)
        \/ \E v \in Values : on_add_secret(n, v, io) \/ on_rotate(n, v, io)
  BY DEF UserEdit
<1>2. CASE on_remove(n, io)
  BY <1>2, EditType DEF on_remove
<1>3. ASSUME NEW v \in Values, on_rotate(n, v, io) PROVE TypeOK'
  BY <1>3, EditType DEF on_rotate
<1>4. ASSUME NEW v \in Values, on_add_secret(n, v, io) PROVE TypeOK'
  BY <1>4, EditType, RefuseType DEF on_add_secret
<1> QED
  BY <1>1, <1>2, <1>3, <1>4

LEMMA UserType == TypeOK /\ User => TypeOK'
<1> SUFFICES ASSUME TypeOK, User PROVE TypeOK'
  OBVIOUS
<1>0. CASE ReplaceError
  BY <1>0, InputType DEF ReplaceError, fileVars, shown, historyVars, TypeOK
<1>1. CASE LockNow
  BY <1>1, LockType, InputType DEF LockNow, TypeOK
<1>2. CASE SavedCode
  <2>1. /\ idle' \in 0 .. Timeout + 1 /\ idle_remaining' \in 0 .. Timeout
        /\ fired' \in BOOLEAN /\ posted' \in 0 .. MaxPosted
    BY <1>2, InputType DEF SavedCode
  <2> QED
    BY <1>2, <2>1 DEF SavedCode, fileVars, shown, historyVars, TypeOK
<1>3. CASE on_unlock
  <2>1. file \in Records
    BY <1>3 DEF on_unlock, TypeOK
  <2> QED
    BY <1>3, <2>1, ListType, InputType DEF on_unlock, TypeOK
<1>4. CASE on_mask
  BY <1>4, InputType DEF on_mask, fileVars, leftOver, historyVars, TypeOK
<1>5. CASE on_generate
  BY <1>5, InputType DEF on_generate, fileVars, leftOver, historyVars, TypeOK
<1>6. CASE OpenSettings \/ CloseSettings
  BY <1>6, InputType DEF OpenSettings, CloseSettings, fileVars, leftOver, shown, historyVars, TypeOK
<1>7. CASE UserEdit
  BY <1>7, UserEditType
<1>8. ASSUME NEW recovery \in BOOLEAN, on_create_vault(recovery) PROVE TypeOK'
  BY <1>8, NoRecordsEmpty, InputType DEF on_create_vault, shown, historyVars, TypeOK
<1>9. ASSUME NEW n \in Names, on_select(n) PROVE TypeOK'
  BY <1>9, InputType DEF on_select, MaskRevealed, fileVars, leftOver, historyVars, TypeOK
<1>10. ASSUME NEW n \in Names, on_reveal(n) PROVE TypeOK'
  <2>1. records[n] \in Values
    BY <1>10 DEF on_reveal, TypeOK, Records
  <2>2. revealed_value' \in [name : Names, value : Values]
    BY <1>10, <2>1 DEF on_reveal
  <2> QED
    BY <1>10, <2>2, InputType DEF on_reveal, fileVars, leftOver, historyVars, TypeOK
<1>11. ASSUME NEW found \in SUBSET Names, on_search(found) PROVE TypeOK'
  <2>1. filter' \in BOOLEAN
    BY <1>11 DEF on_search
  <2> QED
    BY <1>11, <2>1, InputType DEF on_search, fileVars, leftOver, historyVars, TypeOK
<1>12. ASSUME NEW r \in Records, on_pick_vault(r) PROVE TypeOK'
  BY <1>12, InputType DEF on_pick_vault, shown, historyVars, TypeOK
<1> QED
  BY <1>0, <1>1, <1>2, <1>3, <1>4, <1>5, <1>6, <1>7, <1>8, <1>9, <1>10, <1>11, <1>12 DEF User

LEMMA TypeStep == TypeOK /\ [Next]_vars => TypeOK'
<1> SUFFICES ASSUME TypeOK, [Next]_vars PROVE TypeOK'
  OBVIOUS
<1>1. CASE User
  BY <1>1, UserType
<1>2. CASE Tick
  <2>1. idle' \in 0 .. Timeout + 1
    BY <1>2, GuiAssumption DEF Tick, TypeOK
  <2>2. posted' \in 0 .. MaxPosted
    BY <1>2, GuiAssumption DEF Tick, TypeOK
  <2>3. fired' \in BOOLEAN
    BY <1>2 DEF Tick, ClearLatch, TypeOK
  <2> QED
    BY <1>2, <2>1, <2>2, <2>3 DEF Tick, fileVars, leftOver, shown, historyVars, TypeOK
<1>3. CASE Countdown
  <2>1. idle_remaining' \in 0 .. Timeout
    BY <1>3, GuiAssumption DEF Countdown, SaturatingSub, TypeOK
  <2> QED
    BY <1>3, <2>1 DEF Countdown, fileVars, leftOver, shown, historyVars, TypeOK
<1>4. CASE SystemLock
  <2>1. posted' \in 0 .. MaxPosted
    BY <1>4, GuiAssumption DEF SystemLock, TypeOK
  <2> QED
    BY <1>4, <2>1 DEF SystemLock, fileVars, leftOver, shown, historyVars, TypeOK
<1>5. CASE OtherInput
  <2>1. /\ idle' \in 0 .. Timeout + 1 /\ idle_remaining' \in 0 .. Timeout
        /\ fired' \in BOOLEAN /\ posted' \in 0 .. MaxPosted
    BY <1>5, InputType DEF OtherInput
  <2> QED
    BY <1>5, <2>1 DEF OtherInput, fileVars, leftOver, shown, historyVars, TypeOK
<1>6. CASE FileDeleted \/ \E r \in Records : OtherSave(r)
  <2>1. file' \in Records \cup {NoFile} /\ stale' \in BOOLEAN
    BY <1>6 DEF FileDeleted, OtherSave
  <2>2. UNCHANGED <<state, records, screen, shown, leftOver, idle, watcherVars, historyVars>>
    BY <1>6 DEF FileDeleted, OtherSave
  <2> QED
    BY <2>1, <2>2 DEF watcherVars, shown, leftOver, historyVars, TypeOK
<1>7. CASE RunPostedLock
  <2>1. posted' \in 0 .. MaxPosted
    BY <1>7, GuiAssumption DEF RunPostedLock, TypeOK
  <2> QED
    BY <1>7, <2>1, LockType DEF RunPostedLock, TypeOK
<1>8. CASE UNCHANGED vars
  BY <1>8 DEF vars, TypeOK
<1> QED
  BY <1>1, <1>2, <1>3, <1>4, <1>5, <1>6, <1>7, <1>8 DEF Next, World

-----------------------------------------------------------------------------
LEMMA Inductive == Spec => []IInv
<1>1. IInv /\ [Next]_vars => IInv'
  BY TypeStep, KeptStep DEF IInv, Kept
<1> QED
  BY InitInv, <1>1, PTL DEF Spec

(* Every reachable state of the window and its session is well-typed.       *)
THEOREM TypeCorrect == Spec => []TypeOK
<1>1. IInv => TypeOK
  BY DEF IInv
<1> QED
  BY <1>1, Inductive, PTL

(* A locked session has empty lists, no selection and no value in a window  *)
(* on a screen that needs none of them, and an unlocked one shows the vault *)
(* or the settings, whenever a posted lock comes. What do_lock does not     *)
(* clear, the search text and the toast, is not part of it.                 *)
THEOREM LockedWindowIsEmpty == Spec => []LockedHoldsNothing
<1>1. IInv => LockedHoldsNothing
  BY DEF IInv
<1> QED
  BY <1>1, Inductive, PTL

(* The lists, the selection and the revealed value are of the session, and  *)
(* so is a name in the toast as long as the session is unlocked: one that a *)
(* lock left there is gone with the next unlock (on_unlock, refresh_names). *)
THEOREM WindowShowsTheSession == Spec => []ShowsTheSession
<1>1. IInv => ShowsTheSession
  BY DEF IInv
<1> QED
  BY <1>1, Inductive, PTL

(* Unless another program touched the file, the session differs from it     *)
(* only after a failed save that was reported.                              *)
THEOREM UnsavedEditsAreTold == Spec => []UnsavedIsTold
<1>1. IInv => UnsavedIsTold
  BY DEF IInv
<1> QED
  BY <1>1, Inductive, PTL

=============================================================================
