-------------------------- MODULE VaultStoreProofs --------------------------
(***************************************************************************)
(* Proofs about VaultStore, for any processes, names, values and bounds.   *)
(*                                                                         *)
(* IInv is the inductive invariant: what a session has in memory is the    *)
(* image it loaded or last wrote plus its edits (View), a save writes that *)
(* under the key of that image (Sealed), a session behind whose back       *)
(* nothing happened still has the file as base (Seen), and a process in    *)
(* its window finds at the path what it last saw there (Window).  The last *)
(* theorem is the refinement of SecretStore.                               *)
(***************************************************************************)
EXTENDS VaultStore, TLAPS

View(p) ==
  /\ base[p] = Absent \/ pc[p] = "loaded" => delta[p] = NoEdits
  /\ base[p] # Absent /\ pc[p] # "loaded" => mem[p] = Apply(delta[p], base[p].recs)

Sealed(p) ==
  pc[p] \in Saving /\ base[p] # Absent
    => out[p].recs = mem[p] /\ out[p].dek = base[p].dek

Seen(p) == base[p] # Absent /\ touched[p] = "none" => file = base[p]

Window(p) ==
  touched[p] # "within" =>
    /\ Creating(p) => file = Placeholder
    /\ pc[p] \in Writing /\ base[p] # Absent /\ ~unread[p] => file \in {Absent, base[p]}

Durable == file # Torn /\ disk # Torn /\ dirty = FALSE

Good(p) == Shape(p) /\ View(p) /\ Sealed(p) /\ Seen(p) /\ Window(p)

IInv ==
  /\ Types
  /\ Durable
  /\ \A p \in Processes : Good(p)

-----------------------------------------------------------------------------
(* Applying no edits changes nothing.                                       *)
LEMMA ApplyNone ==
  ASSUME NEW r \in Records
  PROVE  Apply(NoEdits, r) = r
BY DEF Apply, NoEdits, Records

(* Editing one more name applies to what the earlier edits gave.            *)
LEMMA ApplyMore ==
  ASSUME NEW r \in Records, NEW d \in Edits, NEW n \in Names,
         NEW v \in Values \cup {NoValue}
  PROVE  Apply([d EXCEPT ![n] = v], r) = [Apply(d, r) EXCEPT ![n] = v]
BY StoreAssumption DEF Apply, Edits, Records

(* A whole image is none of the marks for no file, a claimed path, a torn   *)
(* file.                                                                    *)
LEMMA ImageIsNoMarker ==
  ASSUME NEW i \in Images
  PROVE  IsImage(i) /\ i # Absent /\ i # Placeholder /\ i # Torn
         /\ i.recs \in Records /\ i.dek \in Nat
<1>1. i.kind = "image" /\ i.recs \in Records /\ i.dek \in Nat
  BY DEF Images
<1>2. Absent.kind = "absent" /\ Placeholder.kind = "placeholder" /\ Torn.kind = "torn"
  BY DEF Absent, Placeholder, Torn
<1>3. QED
  BY <1>1, <1>2 DEF IsImage

-----------------------------------------------------------------------------
(* Every process starts outside, with no image.                             *)
LEMMA TypesInit == Init => TypeOK
<1>1. NoRecords \in Records /\ NoEdits \in Edits /\ Absent \in Contents
  BY DEF Records, Edits, NoRecords, NoEdits, Contents
<1>2. ASSUME Init PROVE Types
  <2>1. /\ file \in Contents /\ disk \in Contents /\ dirty \in BOOLEAN
        /\ stamp \in Nat /\ faults \in Nat /\ outages \in Nat
    BY <1>1, <1>2 DEF Init
  <2>2. /\ pc \in [Processes -> States]
        /\ base \in [Processes -> Images \cup {Absent}]
        /\ out \in [Processes -> Images \cup {Absent}]
        /\ mem \in [Processes -> Records]
    BY <1>1, <1>2 DEF Init, States
  <2>3. /\ delta \in [Processes -> Edits]
        /\ touched \in [Processes -> {"none", "before", "within"}]
        /\ unread \in [Processes -> BOOLEAN]
    BY <1>1, <1>2 DEF Init
  <2>4. QED
    BY <2>1, <2>2, <2>3 DEF Types
<1>3. Init => \A p \in Processes : Shape(p)
  BY DEF Init, Shape, Saving, Writing
<1>4. QED
  BY <1>2, <1>3 DEF TypeOK

(* Every step keeps the types; one case per step that writes a variable.    *)
LEMMA TypesStep ==
  ASSUME TypeOK, [Next]_vars
  PROVE  Types'
<1> USE DEF TypeOK, Types, Goto, Behind, Missed
<1>0. /\ Absent \in Contents /\ Placeholder \in Contents
      /\ \A i \in Images : i \in Contents
      /\ NoRecords \in Records /\ NoEdits \in Edits
  BY DEF Contents, Records, Edits, NoRecords, NoEdits
<1>1. ASSUME NEW p \in Processes, Forget(p)
      PROVE  /\ pc' \in [Processes -> States]
             /\ base' \in [Processes -> Images \cup {Absent}]
             /\ mem' \in [Processes -> Records]
             /\ out' \in [Processes -> Images \cup {Absent}]
             /\ delta' \in [Processes -> Edits]
             /\ unread' \in [Processes -> BOOLEAN]
  BY <1>0, <1>1 DEF Forget, States
<1>2. ASSUME NEW p \in Processes, Claim(p) PROVE Types'
  <2>1. stamp' \in Nat
    BY <1>2 DEF Claim
  <2>2. Image(stamp', stamp', NoRecords) \in Images
    BY <1>0, <2>1 DEF Images, Image
  <2>3. touched' \in [Processes -> {"none", "before", "within"}]
    BY <1>2 DEF Claim
  <2>4. QED
    BY <1>0, <1>2, <2>1, <2>2, <2>3 DEF Claim, States
<1>3. ASSUME NEW p \in Processes, Load(p) PROVE Types'
  <2>1. file \in Images
    BY <1>3 DEF Load, Parses, IsImage, Contents, Absent, Placeholder, Torn
  <2>2. QED
    BY <1>3, <2>1 DEF Load, States, storeVars
<1>4. ASSUME NEW p \in Processes, Unlock(p) PROVE Types'
  <2>1. base[p].recs \in Records
    BY <1>4, ImageIsNoMarker DEF Unlock, Shape
  <2>2. QED
    BY <1>4, <2>1 DEF Unlock, States, storeVars, historyVars
<1>5. ASSUME NEW p \in Processes, Close(p) PROVE Types'
  BY <1>1, <1>5 DEF Close, storeVars
<1>6. ASSUME NEW p \in Processes, NEW n \in Names, NEW v \in Values \cup {NoValue},
             SealEdit(p, n, v)
      PROVE Types'
  <2>1. base[p] \in Images
    BY <1>6 DEF SealEdit, Shape
  <2>2. mem' \in [Processes -> Records] /\ delta' \in [Processes -> Edits]
    BY <1>6 DEF SealEdit, Records, Edits
  <2>3. stamp' \in Nat
    BY <1>6 DEF SealEdit
  <2>4. Image(base[p].dek, stamp', mem'[p]) \in Images
    BY <2>1, <2>2, <2>3 DEF Image, Images
  <2>5. QED
    BY <1>6, <2>2, <2>3, <2>4 DEF SealEdit, States, Saving, storeVars
<1>7. ASSUME NEW p \in Processes,
             BuildVault(p) \/ CreateFails(p) \/ CheckPasses(p) \/ CheckConflicts(p)
               \/ WriteTemp(p) \/ SyncTemp(p)
      PROVE Types'
  BY <1>7 DEF BuildVault, CreateFails, CheckPasses, CheckConflicts, WriteTemp, SyncTemp,
       States, Saving, Writing, storeVars, historyVars
<1>8. ASSUME NEW p \in Processes, CheckUnreadable(p) PROVE Types'
  BY <1>8 DEF CheckUnreadable, Fault, States, Saving, Writing, storeVars
<1>9. ASSUME NEW p \in Processes, SaveFails(p) PROVE Types'
  <2>1. CASE base[p] = Absent
    BY <1>9, <2>1 DEF SaveFails, Fault, States, storeVars
  <2>2. CASE base[p] # Absent
    <3>1. pc' \in [Processes -> States] /\ unread' \in [Processes -> BOOLEAN]
      BY <1>9, <2>2 DEF SaveFails, States
    <3>2. touched' \in [Processes -> {"none", "before", "within"}]
      BY <1>9, <2>2 DEF SaveFails
    <3>3. QED
      BY <1>9, <3>1, <3>2 DEF SaveFails, Fault, storeVars
  <2>3. QED
    BY <2>1, <2>2
<1>10. ASSUME NEW p \in Processes, Rename(p) PROVE Types'
  BY <1>0, <1>1, <1>10 DEF Rename, TempReady, NewFingerprint, States
<1>11. ASSUME NEW p \in Processes, Withdraw(p) PROVE Types'
  BY <1>0, <1>1, <1>11 DEF Withdraw, AfterCleanup
<1>12. ASSUME NEW p \in Processes, WithdrawFails(p) \/ Crash(p) PROVE Types'
  BY <1>1, <1>12 DEF WithdrawFails, Crash, Fault, storeVars
<1>13. CASE Flush
  BY <1>13 DEF Flush, sessionVars, historyVars
<1>14. CASE PowerLoss
  <2>1. file' \in Contents
    BY <1>0, <1>14 DEF PowerLoss, Contents
  <2>2. outages' \in Nat
    BY <1>14 DEF PowerLoss
  <2>3. /\ pc' \in [Processes -> States]
        /\ base' \in [Processes -> Images \cup {Absent}]
        /\ mem' \in [Processes -> Records]
        /\ out' \in [Processes -> Images \cup {Absent}]
    BY <1>0, <1>14 DEF PowerLoss, States
  <2>4. QED
    BY <1>0, <1>14, <2>1, <2>2, <2>3 DEF PowerLoss
<1>15. CASE UserDeletes
  <2>1. touched' \in [Processes -> {"none", "before", "within"}]
    BY <1>15 DEF UserDeletes
  <2>2. outages' \in Nat
    BY <1>15 DEF UserDeletes
  <2>3. QED
    BY <1>0, <1>15, <2>1, <2>2 DEF UserDeletes, sessionVars
<1>16. CASE UNCHANGED vars
  BY <1>16 DEF vars
<1>17. QED
  BY <1>2, <1>3, <1>4, <1>5, <1>6, <1>7, <1>8, <1>9, <1>10, <1>11, <1>12, <1>13,
     <1>14, <1>15, <1>16
     DEF Next, Process, Progress, Add, Upsert, Remove
-----------------------------------------------------------------------------
(* What a step does to the processes that do not take it.                   *)

(* Nothing of q and nothing at the path changes.                            *)
LEMMA KeptGood ==
  ASSUME NEW q \in Processes, Good(q), file' = file,
         pc'[q] = pc[q], base'[q] = base[q], mem'[q] = mem[q], out'[q] = out[q],
         delta'[q] = delta[q], touched'[q] = touched[q], unread'[q] = unread[q]
  PROVE  Good(q)'
BY DEF Good, Shape, View, Sealed, Seen, Window, Creating

(* The path changes behind q's back.                                        *)
LEMMA MissedGood ==
  ASSUME NEW q \in Processes, Good(q),
         pc'[q] = pc[q], base'[q] = base[q], mem'[q] = mem[q], out'[q] = out[q],
         delta'[q] = delta[q], touched'[q] = Missed(q), unread'[q] = unread[q]
  PROVE  Good(q)'
<1>1. Shape(q)' /\ View(q)' /\ Sealed(q)'
  BY DEF Good, Shape, View, Sealed
<1>2. Seen(q)'
  <2>1. Missed(q) = "none" => pc[q] = "out"
    BY DEF Missed
  <2>2. QED
    BY <2>1 DEF Good, Shape, Seen
<1>3. Window(q)'
  <2>1. InWindow(q) => Missed(q) = "within"
    BY DEF Missed
  <2>2. ~InWindow(q) => ~Creating(q)' /\ pc'[q] \notin Writing
    BY DEF InWindow, Creating
  <2>3. QED
    BY <2>1, <2>2 DEF Window
<1>4. QED
  BY <1>1, <1>2, <1>3 DEF Good

(* A process that is gone.                                                  *)
LEMMA GoneGood ==
  ASSUME NEW q \in Processes, pc'[q] = "out", base'[q] = Absent, delta'[q] = NoEdits
  PROVE  Good(q)'
BY DEF Good, Shape, View, Sealed, Seen, Window, Creating, Saving, Writing

-----------------------------------------------------------------------------
(* Nobody has seen the path or edited anything yet.                         *)
LEMMA IInvInit == Init => IInv
<1>1. ASSUME Init, NEW p \in Processes PROVE Good(p)
  BY <1>1 DEF Init, Good, Shape, View, Sealed, Seen, Window, Creating, Saving, Writing
<1>2. Init => Durable
  BY DEF Init, Durable, Absent, Torn
<1>3. QED
  BY <1>1, <1>2, TypesInit DEF IInv, TypeOK

(* Only a rename, a claim and a removal change the path, the first to a     *)
(* whole image: nothing tears it, and no power loss does.                   *)
LEMMA DurableStep ==
  ASSUME IInv, [Next]_vars
  PROVE  Durable'
<1> USE DEF IInv, Durable
<1>1. \A p \in Processes : pc[p] \in Saving => out[p] \in Images /\ out[p] # Torn
  BY ImageIsNoMarker DEF Types, Good, Shape
<1>2. Absent # Torn /\ Placeholder # Torn
  BY DEF Absent, Placeholder, Torn
<1>3. ASSUME NEW p \in Processes, Claim(p) \/ Withdraw(p) PROVE Durable'
  BY <1>2, <1>3 DEF Claim, Withdraw, AfterCleanup
<1>4. ASSUME NEW p \in Processes, Rename(p) PROVE Durable'
  BY <1>1, <1>4 DEF Rename, TempReady, Saving, Writing
<1>5. CASE Flush
  BY <1>5 DEF Flush
<1>6. CASE PowerLoss
  BY <1>6 DEF PowerLoss
<1>7. CASE UserDeletes
  BY <1>2, <1>7 DEF UserDeletes
<1>8. CASE UNCHANGED storeVars
  BY <1>8 DEF storeVars
<1>9. ASSUME NEW p \in Processes, Process(p), ~(Claim(p) \/ Withdraw(p) \/ Rename(p))
      PROVE UNCHANGED storeVars
  BY <1>9 DEF Process, Progress, Load, Unlock, Close, Add, Upsert, Remove, SealEdit,
       CheckUnreadable, SaveFails, WithdrawFails, Crash, BuildVault, CreateFails,
       CheckPasses, CheckConflicts, WriteTemp, SyncTemp
<1>10. QED
  BY <1>3, <1>4, <1>5, <1>6, <1>7, <1>8, <1>9 DEF Next, vars, storeVars

(* What a session believes of the file stays good: by its own steps, and by *)
(* those of others, which count as something it missed.                     *)
LEMMA GoodStep ==
  ASSUME IInv, [Next]_vars
  PROVE  \A q \in Processes : Good(q)'
<1> SUFFICES ASSUME NEW q \in Processes PROVE Good(q)'
  OBVIOUS
<1> USE DEF IInv, Types, Goto, storeVars, historyVars
<1>1. /\ Good(q)
      /\ base[q] \in Images \cup {Absent}
      /\ \A i \in Images : i # Absent /\ i.recs \in Records
  BY ImageIsNoMarker
<1>2. ASSUME NEW p \in Processes, Forget(p)
      PROVE  /\ p = q => Good(q)'
             /\ p # q => /\ pc'[q] = pc[q] /\ base'[q] = base[q] /\ mem'[q] = mem[q]
                         /\ out'[q] = out[q] /\ delta'[q] = delta[q]
                         /\ unread'[q] = unread[q]
  BY <1>2, GoneGood DEF Forget
<1>3. ASSUME NEW p \in Processes, Claim(p) PROVE Good(q)'
  <2>1. CASE p = q
    BY <1>1, <1>3, <2>1
       DEF Claim, Behind, Good, Shape, View, Sealed, Seen, Window, Creating, Image,
         Absent, Saving, Writing
  <2>2. CASE p # q
    BY <1>1, <1>3, <2>2, MissedGood DEF Claim, Behind
  <2>3. QED
    BY <2>1, <2>2
<1>4. ASSUME NEW p \in Processes, Load(p) PROVE Good(q)'
  <2>1. CASE p = q
    BY <1>1, <1>4, <2>1
       DEF Load, Parses, IsImage, Good, Shape, View, Sealed, Seen, Window, Creating,
         Absent, Saving, Writing
  <2>2. CASE p # q
    BY <1>1, <1>4, <2>2, KeptGood DEF Load
  <2>3. QED
    BY <2>1, <2>2
<1>5. ASSUME NEW p \in Processes, Unlock(p) PROVE Good(q)'
  <2>1. CASE p = q
    <3>1. Apply(NoEdits, base[q].recs) = base[q].recs
      BY <1>1, <1>5, <2>1, ApplyNone DEF Unlock, Good, Shape
    <3>2. QED
      BY <1>1, <1>5, <2>1, <3>1
         DEF Unlock, Good, Shape, View, Sealed, Seen, Window, Creating, Saving, Writing
  <2>2. CASE p # q
    BY <1>1, <1>5, <2>2, KeptGood DEF Unlock
  <2>3. QED
    BY <2>1, <2>2
<1>6. ASSUME NEW p \in Processes, Close(p) \/ WithdrawFails(p) \/ Crash(p)
      PROVE Good(q)'
  BY <1>1, <1>2, <1>6, KeptGood DEF Close, WithdrawFails, Crash
<1>7. ASSUME NEW p \in Processes, NEW n \in Names, NEW v \in Values \cup {NoValue},
             SealEdit(p, n, v)
      PROVE Good(q)'
  <2>1. CASE p = q
    <3>1. base[q] \in Images
      BY <1>1, <1>7, <2>1 DEF SealEdit, Good, Shape
    <3>2. mem'[q] = [mem[q] EXCEPT ![n] = v] /\ delta'[q] = [delta[q] EXCEPT ![n] = v]
      BY <1>7, <2>1 DEF SealEdit
    <3>3. mem[q] = Apply(delta[q], base[q].recs)
      BY <1>1, <1>7, <2>1, <3>1 DEF SealEdit, Good, View
    <3>4. mem'[q] = Apply(delta'[q], base[q].recs)
      <4>1. base[q].recs \in Records /\ delta[q] \in Edits
        BY <1>1, <3>1
      <4>2. Apply([delta[q] EXCEPT ![n] = v], base[q].recs)
              = [Apply(delta[q], base[q].recs) EXCEPT ![n] = v]
        BY <4>1, ApplyMore
      <4>3. QED
        BY <3>2, <3>3, <4>2
    <3>5. out'[q] = Image(base[q].dek, stamp', mem'[q])
      BY <1>7, <2>1 DEF SealEdit
    <3>6. /\ out'[q].recs = mem'[q] /\ out'[q].dek = base[q].dek
          /\ out'[q] # Absent
      BY <3>5 DEF Image, Absent
    <3>7. /\ pc'[q] = "sealed" /\ base'[q] = base[q] /\ touched'[q] = touched[q]
          /\ file' = file
      BY <1>7, <2>1 DEF SealEdit
    <3>8. QED
      BY <1>1, <3>1, <3>4, <3>6, <3>7
         DEF Good, Shape, View, Sealed, Seen, Window, Creating, Saving, Writing
  <2>2. CASE p # q
    BY <1>1, <1>7, <2>2, KeptGood DEF SealEdit
  <2>3. QED
    BY <2>1, <2>2
<1>8. ASSUME NEW p \in Processes, BuildVault(p) \/ CreateFails(p) PROVE Good(q)'
  <2>1. CASE p = q
    BY <1>1, <1>8, <2>1
       DEF BuildVault, CreateFails, Good, Shape, View, Sealed, Seen, Window, Creating,
         Saving, Writing
  <2>2. CASE p # q
    BY <1>1, <1>8, <2>2, KeptGood DEF BuildVault, CreateFails
  <2>3. QED
    BY <2>1, <2>2
<1>9. ASSUME NEW p \in Processes, CheckPasses(p) PROVE Good(q)'
  <2>1. CASE p = q
    BY <1>1, <1>9, <2>1
       DEF CheckPasses, FingerprintMatches, Good, Shape, View, Sealed, Seen, Window,
         Creating, Saving, Writing
  <2>2. CASE p # q
    BY <1>1, <1>9, <2>2, KeptGood DEF CheckPasses
  <2>3. QED
    BY <2>1, <2>2
<1>10. ASSUME NEW p \in Processes, CheckConflicts(p) \/ CheckUnreadable(p)
       PROVE Good(q)'
  <2>1. CASE p = q
    BY <1>1, <1>10, <2>1
       DEF CheckConflicts, CheckUnreadable, Good, Shape, View, Sealed,
         Seen, Window, Creating, Saving, Writing
  <2>2. CASE p # q
    BY <1>1, <1>10, <2>2, KeptGood DEF CheckConflicts, CheckUnreadable
  <2>3. QED
    BY <2>1, <2>2
<1>11. ASSUME NEW p \in Processes, WriteTemp(p) \/ SyncTemp(p) PROVE Good(q)'
  <2>1. CASE p = q
    BY <1>1, <1>11, <2>1
       DEF WriteTemp, SyncTemp, Good, Shape, View, Sealed, Seen, Window, Creating,
         Saving, Writing
  <2>2. CASE p # q
    BY <1>1, <1>11, <2>2, KeptGood DEF WriteTemp, SyncTemp
  <2>3. QED
    BY <2>1, <2>2
<1>12. ASSUME NEW p \in Processes, SaveFails(p) PROVE Good(q)'
  <2>1. CASE p = q
    BY <1>1, <1>12, <2>1
       DEF SaveFails, Good, Shape, View, Sealed, Seen, Window, Creating, Saving, Writing
  <2>2. CASE p # q
    BY <1>1, <1>12, <2>2, KeptGood DEF SaveFails
  <2>3. QED
    BY <2>1, <2>2
<1>13. ASSUME NEW p \in Processes, Rename(p) PROVE Good(q)'
  <2>1. CASE p # q
    BY <1>1, <1>2, <1>13, <2>1, MissedGood DEF Rename, Behind
  <2>2. CASE p = q /\ base[q] = Absent
    BY <1>2, <1>13, <2>2 DEF Rename
  <2>3. CASE p = q /\ base[q] # Absent
    <3>1. /\ out[q] \in Images
          /\ out[q].recs = mem[q]
      BY <1>1, <1>13, <2>3 DEF Rename, TempReady, Good, Shape, Sealed, Saving, Writing
    <3>2. /\ pc'[q] = "open" /\ base'[q] = out[q] /\ delta'[q] = NoEdits
          /\ mem'[q] = mem[q] /\ out'[q] = out[q] /\ file' = out[q]
      BY <1>13, <2>3 DEF Rename, NewFingerprint
    <3>3. mem'[q] = Apply(delta'[q], base'[q].recs)
      BY <3>1, <3>2, ApplyNone
    <3>4. QED
      BY <1>1, <3>1, <3>2, <3>3
         DEF Good, Shape, View, Sealed, Seen, Window, Creating, Saving, Writing
  <2>4. QED
    BY <2>1, <2>2, <2>3
<1>14. ASSUME NEW p \in Processes, Withdraw(p) PROVE Good(q)'
  BY <1>1, <1>2, <1>14, MissedGood DEF Withdraw, Behind
<1>15. CASE Flush
  BY <1>1, <1>15, KeptGood DEF Flush, sessionVars
<1>16. CASE PowerLoss
  BY <1>16, GoneGood DEF PowerLoss
<1>17. CASE UserDeletes
  BY <1>1, <1>17, MissedGood DEF UserDeletes, sessionVars
<1>18. CASE UNCHANGED vars
  BY <1>1, <1>18, KeptGood DEF vars
<1>19. QED
  BY <1>3, <1>4, <1>5, <1>6, <1>7, <1>8, <1>9, <1>10, <1>11, <1>12, <1>13, <1>14, <1>15,
     <1>16, <1>17, <1>18
     DEF Next, Process, Progress, Add, Upsert, Remove

-----------------------------------------------------------------------------
(* So the invariant holds in every state.                                   *)
LEMMA IInvAlways == Spec => []IInv
<1>1. IInv /\ [Next]_vars => IInv'
  <2>1. IInv => TypeOK
    BY DEF IInv, TypeOK, Good
  <2>2. QED
    BY <2>1, TypesStep, DurableStep, GoodStep DEF IInv
<1>2. QED
  BY IInvInit, <1>1, PTL DEF Spec

(* Every state is typed, and sessions and creators hold the images their    *)
(* control state calls for: only whole images are ever parsed or written.   *)
THEOREM TypeCorrect == Spec => []TypeOK
<1>1. IInv => TypeOK
  BY DEF IInv, TypeOK, Good
<1>2. QED
  BY <1>1, IInvAlways, PTL

(* The vault file is never torn, through crashes, failures and power loss.  *)
THEOREM FileNeverTorn == Spec => []NeverTorn
<1>1. IInv => NeverTorn
  BY DEF IInv, Durable, NeverTorn
<1>2. QED
  BY <1>1, IInvAlways, PTL

(* No save undoes an edit another session has stored, and no creation       *)
(* replaces a vault, except within the window save admits or unread.        *)
THEOREM SavesLoseNothing == Spec => NoLostUpdate
<1>1. ASSUME IInv, [Next]_vars, NEW p \in Processes,
             Publishes(p), IsImage(file), touched[p] # "within", ~unread[p]
      PROVE  file'.recs = Apply(delta[p], file.recs) /\ file'.dek = file.dek
  <2>1. ~Creating(p)
    <3>1. Placeholder.kind # "image"
      BY DEF Placeholder
    <3>2. QED
      BY <1>1, <3>1 DEF IInv, Good, Window, IsImage
  <2>2. base[p] # Absent
    BY <1>1, <2>1 DEF Publishes, Creating, Saving
  <2>3. file = base[p]
    <3>1. Absent.kind # "image"
      BY DEF Absent
    <3>2. QED
      BY <1>1, <2>2, <3>1 DEF IInv, Good, Window, Publishes, IsImage
  <2>4. out[p].recs = Apply(delta[p], base[p].recs) /\ out[p].dek = base[p].dek
    BY <1>1, <2>2 DEF IInv, Good, View, Sealed, Publishes, Saving, Writing
  <2>5. QED
    BY <1>1, <2>3, <2>4 DEF Publishes
<1>2. IInv /\ [Next]_vars =>
        [\A p \in Processes :
           /\ Publishes(p) /\ IsImage(file)
           /\ touched[p] # "within" /\ ~unread[p]
           => file'.recs = Apply(delta[p], file.recs) /\ file'.dek = file.dek]_vars
  BY <1>1
<1>3. QED
  BY <1>2, IInvAlways, PTL DEF Spec, NoLostUpdate

(* A save is refused only when someone else has changed the path.           *)
THEOREM OwnSavesNeverRefused == Spec => RefusedOnlyIfChanged
<1>1. ASSUME IInv, [Next]_vars, NEW p \in Processes, pc[p] = "sealed", pc'[p] = "open"
      PROVE  touched[p] # "none"
  <2>1. CheckConflicts(p)
    <3>1. \A q \in Processes, s \in States : Goto(q, s) /\ q # p => pc'[p] = pc[p]
      BY <1>1 DEF Goto, IInv, Types
    <3>2. QED
      BY <1>1, <3>1
         DEF IInv, Types, Next, Process, Progress, Claim, Load, Unlock, Close, Add, Upsert,
           Remove, SealEdit, CheckUnreadable, SaveFails, WithdrawFails, Crash, BuildVault,
           CreateFails, CheckPasses, CheckConflicts, WriteTemp, SyncTemp, Rename, Withdraw,
           TempReady, Forget, Goto, Flush, PowerLoss, UserDeletes, vars,
           sessionVars, States, Saving, Writing
  <2>2. QED
    BY <1>1, <2>1 DEF CheckConflicts, FingerprintMatches, IInv, Good, Seen
<1>2. IInv /\ [Next]_vars =>
        [\A p \in Processes :
           pc[p] = "sealed" /\ pc'[p] = "open" => touched[p] # "none"]_vars
  BY <1>1
<1>3. QED
  BY <1>2, IInvAlways, PTL DEF Spec, RefusedOnlyIfChanged

(* Only a cleanup whose placeholder was taken from under it, or an outage,  *)
(* takes a whole image off the path.                                        *)
THEOREM VaultStays == Spec => VaultSurvives
<1>1. ASSUME IInv, [Next]_vars, IsImage(file), outages' = outages, ~IsImage(file')
      PROVE  \E p \in Processes : pc[p] = "failed" /\ touched[p] = "within"
  <2>1. file # Absent /\ file # Placeholder
    BY <1>1 DEF IsImage, Absent, Placeholder
  <2>2. file' # file
    BY <1>1 DEF IsImage
  <2>3. ASSUME NEW p \in Processes, Process(p) PROVE Withdraw(p)
    <3>1. ~Claim(p)
      BY <2>1 DEF Claim, ClaimSeesVault
    <3>2. ~Rename(p)
      <4>1. pc[p] = "synced" => out[p] \in Images
        BY <1>1 DEF IInv, Types, Good, Shape, Saving, Writing
      <4>2. QED
        BY <1>1, <4>1, ImageIsNoMarker DEF Rename, TempReady, IsImage
    <3>3. QED
      BY <2>2, <2>3, <3>1, <3>2 DEF Process, Progress, Load, Unlock, Close, Add, Upsert,
         Remove, SealEdit, CheckUnreadable, SaveFails, WithdrawFails, Crash, BuildVault,
         CreateFails, CheckPasses, CheckConflicts, WriteTemp, SyncTemp, storeVars
  <2>4. ~Flush /\ ~PowerLoss /\ ~UserDeletes /\ ~UNCHANGED vars
    BY <1>1, <2>2 DEF Flush, PowerLoss, UserDeletes, vars, IInv, Types
  <2>5. PICK p \in Processes : Withdraw(p)
    BY <1>1, <2>3, <2>4 DEF Next
  <2>6. pc[p] = "failed" /\ Creating(p)
    BY <1>1, <2>5 DEF Withdraw, Creating, IInv, Good, Shape
  <2>7. QED
    BY <1>1, <2>1, <2>6 DEF IInv, Good, Window
<1>2. IInv /\ [Next]_vars =>
        [IsImage(file) /\ outages' = outages
           => \/ IsImage(file')
              \/ \E p \in Processes : pc[p] = "failed" /\ touched[p] = "within"]_vars
  BY <1>1
<1>3. QED
  BY <1>2, IInvAlways, PTL DEF Spec, VaultSurvives

-----------------------------------------------------------------------------
(* The file implements SecretStore's map.  Of a creator IInv says nothing   *)
(* about what it is about to store: Fresh adds that this is the empty map.  *)

Fresh == \A p \in Processes : Creating(p) => out[p].recs = NoRecords

(* A creator seals the empty image in its claim and nothing seals another.  *)
LEMMA FreshStep ==
  ASSUME IInv, Fresh, [Next]_vars
  PROVE  Fresh'
<1> SUFFICES ASSUME NEW q \in Processes, Creating(q)' PROVE out'[q].recs = NoRecords
  BY DEF Fresh
<1> USE DEF IInv, Types, Goto
<1>1. ASSUME UNCHANGED <<pc[q], base[q], out[q]>> PROVE out'[q].recs = NoRecords
  BY <1>1 DEF Fresh, Creating
<1>2. ASSUME NEW p \in Processes, Forget(p) PROVE out'[q].recs = NoRecords
  <2>1. p # q
    BY <1>2 DEF Forget, Creating, Saving, Writing
  <2>2. QED
    BY <1>1, <1>2, <2>1 DEF Forget
<1>3. ASSUME NEW p \in Processes, Claim(p) PROVE out'[q].recs = NoRecords
  <2>1. CASE p = q
    BY <1>3, <2>1 DEF Claim, Image
  <2>2. CASE p # q
    BY <1>1, <1>3, <2>2 DEF Claim
  <2>3. QED
    BY <2>1, <2>2
<1>4. ASSUME NEW p \in Processes, NEW n \in Names, NEW v \in Values \cup {NoValue},
             SealEdit(p, n, v)
      PROVE  out'[q].recs = NoRecords
  <2>1. p # q
    BY <1>4 DEF SealEdit, Good, Shape, Creating
  <2>2. QED
    BY <1>1, <1>4, <2>1 DEF SealEdit
<1>5. ASSUME NEW p \in Processes, Load(p) \/ Unlock(p) PROVE out'[q].recs = NoRecords
  <2>1. p # q
    BY <1>5 DEF Load, Unlock, Creating, Saving, Writing
  <2>2. QED
    BY <1>1, <1>5, <2>1 DEF Load, Unlock
<1>6. ASSUME NEW p \in Processes,
             CreateFails(p) \/ BuildVault(p) \/ CheckPasses(p) \/ CheckConflicts(p)
               \/ CheckUnreadable(p) \/ WriteTemp(p) \/ SyncTemp(p) \/ SaveFails(p)
      PROVE  out'[q].recs = NoRecords
  <2>1. UNCHANGED <<base, out>>
    BY <1>6 DEF CreateFails, BuildVault, CheckPasses, CheckConflicts, CheckUnreadable,
       WriteTemp, SyncTemp, SaveFails
  <2>2. pc[q] # pc'[q] => p = q /\ pc[q] \in {"claimed"} \cup Saving
    BY <1>6 DEF CreateFails, BuildVault, CheckPasses, CheckConflicts, CheckUnreadable,
       WriteTemp, SyncTemp, SaveFails, Saving, Writing
  <2>3. QED
    BY <1>1, <2>1, <2>2 DEF Fresh, Creating
<1>7. ASSUME NEW p \in Processes, Rename(p) PROVE out'[q].recs = NoRecords
  <2>1. CASE base[p] = Absent
    BY <1>2, <1>7, <2>1 DEF Rename
  <2>2. CASE base[p] # Absent
    <3>1. p # q
      BY <1>7, <2>2 DEF Rename, Creating, Saving, Writing
    <3>2. QED
      BY <1>1, <1>7, <2>2, <3>1 DEF Rename
  <2>3. QED
    BY <2>1, <2>2
<1>8. ASSUME NEW p \in Processes,
             Withdraw(p) \/ WithdrawFails(p) \/ Close(p) \/ Crash(p)
      PROVE  out'[q].recs = NoRecords
  BY <1>2, <1>8 DEF Withdraw, WithdrawFails, Close, Crash
<1>9. CASE Flush \/ UserDeletes \/ UNCHANGED vars
  BY <1>1, <1>9 DEF Flush, UserDeletes, sessionVars, vars
<1>10. CASE PowerLoss
  BY <1>10 DEF PowerLoss, Creating, Saving, Writing
<1>11. QED
  BY <1>2, <1>3, <1>4, <1>5, <1>6, <1>7, <1>8, <1>9, <1>10
     DEF Next, Process, Progress, Add, Upsert, Remove

(* What a rename is to the map: nothing new, a creation, a vault stored     *)
(* anew, or a session's edits on top of what is there.                      *)
LEMMA RenameStores ==
  ASSUME IInv, Fresh, NEW p \in Processes, Rename(p), Undisturbed
  PROVE  Store!Next
<1> USE DEF IInv, Types
<1>1. /\ pc[p] = "synced" /\ file' = out[p]
      /\ delta' = [delta EXCEPT ![p] = NoEdits]
  BY DEF Rename, TempReady, Forget
<1>2. out[p] \in Images /\ IsImage(file') /\ file'.recs \in Records
  BY <1>1, ImageIsNoMarker DEF Good, Shape, Saving, Writing
<1>3. file'.recs # NoVault
  BY <1>2, StoreAssumption DEF Records
<1>4. CASE file = out[p]
  <2>1. Store!Discard(p)
    BY <1>1, <1>4 DEF Store!Discard, Store!NoEdits, NoEdits
  <2>2. QED
    BY <2>1 DEF Store!Next
<1>5. CASE file # out[p] /\ base[p] = Absent
  <2>1. touched[p] # "within" /\ Creating(p) /\ delta[p] = NoEdits
    BY <1>1, <1>5 DEF Undisturbed, Publishes, Writing, Creating, Saving, Good, View
  <2>2. file = Placeholder /\ ~IsImage(file)
    BY <2>1 DEF Good, Window, IsImage, Placeholder
  <2>3. file'.recs = NoRecords
    BY <1>1, <2>1 DEF Fresh
  <2>4. delta' = delta
    BY <1>1, <2>1
  <2>5. Store!Create
    BY <1>2, <2>2, <2>3, <2>4 DEF Store!Create, NoRecords
  <2>6. QED
    BY <2>5 DEF Store!Next
<1>6. CASE file # out[p] /\ base[p] # Absent
  <2>1. file = Absent \/ file = base[p]
    BY <1>1, <1>6 DEF Undisturbed, Publishes, Writing, Good, Window
  <2>2. file'.recs = Apply(delta[p], base[p].recs)
    BY <1>1, <1>6 DEF Good, View, Sealed, Saving, Writing
  <2>3. CASE file = Absent
    <3>1. ~IsImage(file)
      BY <2>3 DEF IsImage, Absent
    <3>2. \A n \in Names : delta[p][n] # Untouched => file'.recs[n] = delta[p][n]
      BY <2>2 DEF Apply
    <3>3. Store!Restore(p)
      BY <1>1, <1>2, <3>1, <3>2 DEF Store!Restore, Store!NoEdits, NoEdits, Records
    <3>4. QED
      BY <3>3 DEF Store!Next
  <2>4. CASE file = base[p]
    <3>1. base[p] \in Images
      BY <1>6
    <3>2. IsImage(file) /\ file.recs # NoVault
      BY <2>4, <3>1, ImageIsNoMarker, StoreAssumption DEF Records
    <3>3. Store!Commit(p)
      BY <1>1, <1>2, <2>2, <2>4, <3>2
         DEF Store!Commit, Store!Apply, Store!NoEdits, Apply, NoEdits
    <3>4. QED
      BY <3>3 DEF Store!Next
  <2>5. QED
    BY <2>1, <2>3, <2>4
<1>7. QED
  BY <1>4, <1>5, <1>6

(* Every other step edits in private, drops a session, or is no step of the *)
(* map at all.                                                              *)
LEMMA StepStores ==
  ASSUME IInv, Fresh, [Next]_vars, Undisturbed
  PROVE  [Store!Next]_(Store!storeVars)
<1> USE DEF IInv, Types
<1>1. ASSUME file' = file, delta' = delta PROVE UNCHANGED Store!storeVars
  BY <1>1 DEF Store!storeVars, IsImage
<1>2. ASSUME NEW p \in Processes, Forget(p), file' = file PROVE Store!Next
  <2>1. Store!Discard(p)
    BY <1>2 DEF Forget, Store!Discard, Store!NoEdits, NoEdits, IsImage
  <2>2. QED
    BY <2>1 DEF Store!Next
<1>3. ASSUME NEW p \in Processes, NEW n \in Names, NEW v \in Values \cup {NoValue},
             SealEdit(p, n, v)
      PROVE  Store!Next
  <2>1. Store!Edit(p, n, v)
    BY <1>3 DEF SealEdit, storeVars, Store!Edit, IsImage
  <2>2. QED
    BY <2>1 DEF Store!Next
<1>4. ASSUME NEW p \in Processes, Claim(p) PROVE UNCHANGED Store!storeVars
  BY <1>4 DEF Claim, ClaimSeesVault, Store!storeVars, IsImage, Absent, Placeholder
<1>5. ASSUME NEW p \in Processes, Withdraw(p) PROVE Store!Next
  <2>1. pc[p] = "failed" /\ pc'[p] = "out" /\ Creating(p)
    BY <1>5 DEF Withdraw, Forget, Good, Shape, Creating
  <2>2. file = Placeholder
    BY <2>1 DEF Undisturbed, Good, Window
  <2>3. file' = Absent /\ Forget(p)
    BY <1>5 DEF Withdraw, AfterCleanup
  <2>4. Store!Discard(p)
    BY <2>2, <2>3
       DEF Forget, Store!Discard, Store!NoEdits, NoEdits, IsImage, Absent, Placeholder
  <2>5. QED
    BY <2>4 DEF Store!Next
<1>6. ASSUME NEW p \in Processes, Close(p) \/ WithdrawFails(p) \/ Crash(p) PROVE Store!Next
  BY <1>2, <1>6 DEF Close, WithdrawFails, Crash, storeVars
<1>7. ASSUME NEW p \in Processes,
             Load(p) \/ Unlock(p) \/ CreateFails(p) \/ BuildVault(p) \/ CheckPasses(p)
               \/ CheckConflicts(p) \/ CheckUnreadable(p) \/ WriteTemp(p) \/ SyncTemp(p)
               \/ SaveFails(p)
      PROVE  file' = file /\ delta' = delta
  BY <1>7 DEF Load, Unlock, CreateFails, BuildVault, CheckPasses, CheckConflicts,
     CheckUnreadable, WriteTemp, SyncTemp, SaveFails, storeVars, historyVars
<1>8. ~PowerLoss /\ ~UserDeletes
  BY DEF Undisturbed, PowerLoss, UserDeletes
<1>9. CASE Flush \/ UNCHANGED vars
  BY <1>1, <1>9 DEF Flush, historyVars, vars
<1>10. QED
  BY <1>1, <1>3, <1>4, <1>5, <1>6, <1>7, <1>8, <1>9, RenameStores
     DEF Next, Process, Progress, Add, Upsert, Remove

(* The vault file implements SecretStore: all of a session's edits reach    *)
(* the map in one step on top of what is there, or none do, in every step   *)
(* but those that a change in the window, an unreadable file or an outage   *)
(* has spoiled.                                                             *)
THEOREM FileImplementsStore == Spec => AtomicStore
<1>1. Init => Store!Init
  BY DEF Init, Store!Init, Store!NoEdits, NoEdits, IsImage, Absent
<1>2. Init => Fresh
  BY DEF Init, Fresh, Creating, Saving, Writing
<1>3. Spec => []Fresh
  BY <1>2, FreshStep, IInvAlways, PTL DEF Spec
<1>4. IInv /\ Fresh /\ [Next]_vars =>
        [Undisturbed => [Store!Next]_(Store!storeVars)]_vars
  BY StepStores
<1>5. QED
  BY <1>1, <1>3, <1>4, IInvAlways, PTL DEF Spec, AtomicStore

=============================================================================
