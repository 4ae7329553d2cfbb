-------------------------- MODULE ClipboardProofs ---------------------------
(***************************************************************************)
(* Proofs about Clipboard, for any texts, times and number of copies.      *)
(*                                                                         *)
(* IInv is the inductive invariant: a clearer that has looked and was not  *)
(* overtaken stands before its own text (Looked), the slots that no copy   *)
(* has used are empty (Unused), and as long as the text of a copy of       *)
(* vaultgui is there, its clearer has as much of its sleep left as the     *)
(* text has of its time (OnTime). The copy whose text is there need not be *)
(* the last one: clip.exe fails and the clearer starts all the same.       *)
(***************************************************************************)
EXTENDS Clipboard, TLAPS

Looked ==
  \A i \in Slots :
    clearers[i].pc = "clear" => i \in overtaken \/ SameText(clip, clearers[i].exp)

Unused ==
  /\ own <= copies
  /\ \A i \in Slots : i > copies => clearers[i].pc = "stopped"

OnTime ==
  \A i \in Slots :
    by = "vaultgui" /\ i = own /\ clearers[i].pc # "stopped" =>
      /\ clearers[i].left + age >= due
      /\ clearers[i].pc = "clear" => age >= due

IInv == TypeOK /\ Looked /\ Unused /\ OnTime

-----------------------------------------------------------------------------
(* Nothing was copied and no clearer runs.                                  *)
LEMMA IInvInit == Init => IInv
<1> SUFFICES ASSUME Init PROVE IInv
  OBVIOUS
<1>1. Stopped \in Clearers /\ Stopped.pc = "stopped"
  BY ClipboardAssumption DEF Stopped, Clearers, Contents
<1>2. clearers \in [Slots -> Clearers] /\ \A i \in Slots : clearers[i].pc = "stopped"
  BY <1>1 DEF Init
<1>3. TypeOK
  <2>1. failed \in BOOLEAN
    BY DEF Init
  <2>2. /\ age \in 0 .. CodeSecs /\ clip_remaining \in 0 .. CodeSecs
        /\ copies \in 0 .. MaxCopies /\ own \in 0 .. MaxCopies
    BY ClipboardAssumption DEF Init
  <2>3. QED
    BY <1>2, <2>1, <2>2 DEF Init, TypeOK
<1>4. Looked /\ Unused /\ OnTime
  BY <1>2 DEF Init, Looked, Unused, OnTime
<1>5. QED
  BY <1>3, <1>4 DEF IInv

(* A clearer starts with its whole sleep before it.                         *)
LEMMA NewClearer ==
  ASSUME NEW text \in Texts, NEW secs \in Delays, NEW verify \in BOOLEAN
  PROVE  /\ Clearer(text, secs, verify) \in Clearers
         /\ Clearer(text, secs, verify).pc = "sleep"
         /\ Clearer(text, secs, verify).left = secs
BY ClipboardAssumption DEF Clearer, Clearers, Contents, Delays, Sleep

(* What is copied overtakes every clearer that has looked. If clip.exe      *)
(* fails, the clearer that starts is not that of the text which stays.      *)
LEMMA CopyStep ==
  ASSUME IInv, NEW text \in Texts, NEW secs \in Delays, NEW verify \in BOOLEAN,
         NEW who \in {"vaultgui", "vaultctl"},
         copy_with_autoclear(text, secs, verify, who),
         clip_remaining' \in 0 .. CodeSecs
  PROVE  IInv'
<1>1. CASE Kept /\ UNCHANGED <<copies, clearers, failed>>
  BY <1>1 DEF Kept, IInv, TypeOK, Looked, Unused, OnTime, Slots
<1>2. CASE /\ copies < MaxCopies /\ copies' = copies + 1
           /\ Started(text, secs, verify) \/ UNCHANGED clearers
           /\ failed' = TRUE \/ UNCHANGED failed
           /\ Put(text, who, copies', secs) \/ Kept
  <2>1. copies' \in Slots /\ copies' \in 0 .. MaxCopies /\ copies \in Nat
    BY <1>2, ClipboardAssumption DEF IInv, TypeOK, Slots
  <2>2. /\ clearers' \in [Slots -> Clearers]
        /\ \A i \in Slots \ {copies'} : clearers'[i] = clearers[i]
        /\ \/ clearers'[copies'].pc = "sleep" /\ clearers'[copies'].left = secs
           \/ clearers'[copies'].pc = "stopped"
    <3>1. CASE clearers' = [clearers EXCEPT ![copies'] = Clearer(text, secs, verify)]
      BY <2>1, <3>1, NewClearer DEF IInv, TypeOK
    <3>2. CASE UNCHANGED clearers
      <4>1. clearers[copies'].pc = "stopped"
        BY <1>2, <2>1 DEF IInv, Unused
      <4>2. QED
        BY <3>2, <4>1 DEF IInv, TypeOK
    <3>3. QED
      BY <1>2, <3>1, <3>2 DEF Started, StartsClearer
  <2>3. failed' \in BOOLEAN
    BY <1>2 DEF IInv, TypeOK
  <2>4. \A i \in Slots \ {copies'} : i > copies' => clearers'[i].pc = "stopped"
    BY <1>2, <2>1, <2>2 DEF IInv, Unused, Slots
  <2>5. CASE Put(text, who, copies', secs)
    <3>1. clip' \in Contents /\ by' \in {"vaultgui", "vaultctl"} /\ due' \in Delays
          /\ overtaken' \subseteq Slots /\ own' = copies'
      BY <2>5 DEF Put, Contents
    <3>2. age' \in 0 .. CodeSecs
      BY <2>5, ClipboardAssumption DEF Put
    <3>3. TypeOK'
      BY <2>1, <2>2, <2>3, <3>1, <3>2 DEF TypeOK
    <3>4. Looked'
      BY <2>2, <2>5 DEF Put, Looked
    <3>5. Unused'
      BY <2>1, <2>4, <3>1 DEF Unused, Slots
    <3>6. OnTime'
      BY <2>1, <2>2, <2>5, ClipboardAssumption DEF Put, OnTime, Delays
    <3>7. QED
      BY <3>3, <3>4, <3>5, <3>6 DEF IInv
  <2>6. CASE Kept
    <3>1. own \in 0 .. MaxCopies /\ own <= copies /\ own' = own /\ own # copies'
      BY <1>2, <2>1, <2>6, ClipboardAssumption DEF IInv, TypeOK, Unused, Kept
    <3>2. TypeOK'
      BY <2>1, <2>2, <2>3, <2>6 DEF IInv, TypeOK, Kept
    <3>3. Looked'
      BY <2>2, <2>6 DEF IInv, Looked, Kept, SameText
    <3>4. Unused'
      BY <1>2, <2>1, <2>4, <3>1, ClipboardAssumption DEF Unused, Slots
    <3>5. OnTime'
      BY <2>2, <2>6, <3>1 DEF IInv, OnTime, Kept
    <3>6. QED
      BY <3>2, <3>3, <3>4, <3>5 DEF IInv
  <2>7. QED
    BY <1>2, <2>5, <2>6
<1>3. QED
  BY <1>1, <1>2 DEF copy_with_autoclear

(* A clearer looks: at its own text, or it stops.                           *)
LEMMA VerifyStep ==
  ASSUME IInv, NEW i \in Slots, Verify(i)
  PROVE  IInv'
<1>1. clearers \in [Slots -> Clearers] /\ clearers[i].pc = "sleep" /\ clearers[i].left = 0
  BY DEF IInv, TypeOK, Verify, Awake
<1>2. i <= copies
  BY <1>1, ClipboardAssumption DEF IInv, TypeOK, Unused, Slots
<1>3. CASE Verified(i) /\ clearers' = [clearers EXCEPT ![i].pc = "clear"] /\ UNCHANGED failed
  <2>1. /\ clearers' \in [Slots -> Clearers]
        /\ \A j \in Slots \ {i} : clearers'[j] = clearers[j]
        /\ clearers'[i].pc = "clear" /\ clearers'[i].exp = clearers[i].exp
        /\ clearers'[i].left = 0
    BY <1>1, <1>3 DEF Clearers
  <2>2. TypeOK'
    BY <1>3, <2>1 DEF IInv, TypeOK, Verify, Kept
  <2>3. Looked'
    BY <1>3, <2>1 DEF IInv, Looked, Verify, Kept, Verified, SameText
  <2>4. Unused' /\ OnTime'
    BY <1>1, <1>2, <2>1, ClipboardAssumption
       DEF IInv, TypeOK, Unused, OnTime, Verify, Kept, Slots, Delays
  <2>5. QED
    BY <2>2, <2>3, <2>4 DEF IInv
<1>4. CASE Stop(i) /\ failed' \in BOOLEAN
  <2>1. /\ clearers' \in [Slots -> Clearers]
        /\ \A j \in Slots \ {i} : clearers'[j] = clearers[j]
        /\ clearers'[i].pc = "stopped"
    BY <1>1, <1>4, ClipboardAssumption DEF Stop, Stopped, Clearers, Contents
  <2>2. QED
    BY <1>4, <2>1 DEF IInv, TypeOK, Looked, Unused, OnTime, Verify, Kept, SameText
<1>5. QED
  BY <1>3, <1>4 DEF Verify, IInv, TypeOK

(* A clearer clears, and overtakes the others.                              *)
LEMMA ClearStep ==
  ASSUME IInv, NEW i \in Slots, Clear(i)
  PROVE  IInv'
<1>1. /\ clearers' \in [Slots -> Clearers]
      /\ \A j \in Slots \ {i} : clearers'[j] = clearers[j]
      /\ clearers'[i].pc = "stopped"
  BY ClipboardAssumption DEF IInv, TypeOK, Clear, Stop, Stopped, Clearers, Contents
<1>2. CASE Put(Blank, "clearer", 0, 0) /\ UNCHANGED failed
  BY <1>1, <1>2, ClipboardAssumption
     DEF IInv, TypeOK, Looked, Unused, OnTime, Clear, Put, Contents, Slots
<1>3. CASE Kept /\ failed' = TRUE
  BY <1>1, <1>3 DEF IInv, TypeOK, Looked, Unused, OnTime, Clear, Kept, SameText
<1>4. QED
  BY <1>2, <1>3 DEF Clear

(* A second less of a sleep is a second more of the text's age.             *)
LEMMA SecondStep ==
  ASSUME IInv, Second
  PROVE  IInv'
<1>1. ASSUME NEW i \in Slots
      PROVE  /\ clearers'[i] \in Clearers
             /\ clearers'[i].pc = clearers[i].pc /\ clearers'[i].exp = clearers[i].exp
             /\ clearers'[i].left = IF clearers[i].left > 0 THEN clearers[i].left - 1 ELSE 0
  <2>1. clearers[i] \in Clearers
    BY DEF IInv, TypeOK
  <2>2. clearers'[i] = [clearers[i] EXCEPT !.left = IF @ > 0 THEN @ - 1 ELSE 0]
    BY DEF Second
  <2>3. QED
    BY <2>1, <2>2, ClipboardAssumption DEF Clearers
<1>2. clearers' \in [Slots -> Clearers]
  <2>1. clearers' = [i \in Slots |-> clearers'[i]]
    BY DEF Second
  <2>2. QED
    BY <1>1, <2>1
<1>3. TypeOK'
  BY <1>2, ClipboardAssumption DEF IInv, TypeOK, Second
<1>4. Looked' /\ Unused'
  BY <1>1 DEF IInv, Looked, Unused, Second, SameText
<1>5. OnTime'
  <2>1. age \in 0 .. CodeSecs /\ due \in 0 .. CodeSecs /\ CodeSecs \in Nat
    BY ClipboardAssumption DEF IInv, TypeOK, Delays
  <2>2. age' = IF age < CodeSecs THEN age + 1 ELSE age
    BY DEF Second
  <2>3. \A i \in Slots : clearers[i].left \in Nat
    BY ClipboardAssumption DEF IInv, TypeOK, Clearers
  <2>4. QED
    BY <1>1, <2>1, <2>2, <2>3 DEF IInv, OnTime, Second
<1>6. QED
  BY <1>3, <1>4, <1>5 DEF IInv

(* Every step of the programs, the clearers and others keeps the invariant. *)
LEMMA NextStep == IInv /\ [Next]_vars => IInv'
<1> SUFFICES ASSUME IInv, [Next]_vars PROVE IInv'
  OBVIOUS
<1>1. ASSUME NEW text \in Texts, Get(text) PROVE IInv'
  <2>1. clip_remaining' \in 0 .. CodeSecs
    BY <1>1 DEF Get, IInv, TypeOK
  <2>2. QED
    BY <1>1, <2>1, CopyStep DEF Get, Delays
<1>2. ASSUME NEW text \in Texts, NEW secs \in Delays, Copy(text, secs) PROVE IInv'
  <2>1. clip_remaining' \in 0 .. CodeSecs
    BY <1>2, ClipboardAssumption DEF Copy, Delays
  <2>2. QED
    BY <1>2, <2>1, CopyStep DEF Copy
<1>3. ASSUME NEW text \in Texts, OtherCopies(text) PROVE IInv'
  BY <1>3, ClipboardAssumption
     DEF OtherCopies, Put, IInv, TypeOK, Looked, Unused, OnTime, Contents, Slots
<1>4. ASSUME NEW i \in Slots, Verify(i) \/ Clear(i) PROVE IInv'
  BY <1>4, VerifyStep, ClearStep
<1>5. CASE Second
  BY <1>5, SecondStep
<1>6. CASE Countdown \/ do_lock
  BY <1>6, ClipboardAssumption
     DEF Countdown, do_lock, Decrement, IInv, TypeOK, Looked, Unused, OnTime, SameText
<1>7. CASE UNCHANGED vars
  BY <1>7 DEF vars, IInv, TypeOK, Looked, Unused, OnTime, SameText
<1>8. QED
  BY <1>1, <1>2, <1>3, <1>4, <1>5, <1>6, <1>7 DEF Next

(* So it holds in every state.                                              *)
LEMMA IInvAlways == Spec => []IInv
BY IInvInit, NextStep, PTL DEF Spec

(* Every state is typed: no countdown and no sleep goes below zero.         *)
THEOREM TypeCorrect == Spec => []TypeOK
<1>1. IInv => TypeOK
  BY DEF IInv
<1>2. QED
  BY <1>1, IInvAlways, PTL

(* A clearer of vaultgui destroys no text but its own, unless it is copied  *)
(* between its look and its clearing.                                       *)
THEOREM OthersAreSpared == Spec => SparesOthers
<1>1. IInv /\ [Next]_vars =>
        [\A i \in Slots : Blanks(i) => SameText(clip, clearers[i].exp)]_vars
  BY DEF IInv, Looked, Blanks
<1>2. QED
  BY <1>1, IInvAlways, PTL DEF Spec, SparesOthers

(* The clearer of a copy of vaultgui never takes it before its time; one    *)
(* that does is of vaultctl, or was overtaken, or has the same text to      *)
(* clear (copy_with_autoclear of both programs).                            *)
THEOREM CopiesStayTheirTime == Spec => StaysItsTime
<1>1. ASSUME IInv, [Next]_vars, NEW i \in Slots, by = "vaultgui", age < due, Takes(i)
      PROVE  /\ i # own
             /\ \/ ~clearers[i].verify
                \/ i \in overtaken
                \/ SameText(clip, clearers[i].exp)
  <2>1. clearers \in [Slots -> Clearers] /\ by' = "clearer" /\ clearers'[i] # clearers[i]
    BY <1>1 DEF IInv, TypeOK, Takes
  <2>2. Clear(i)
    <3>1. PICK j \in Slots : Clear(j)
      BY <1>1, <2>1 DEF Next, Get, Copy, copy_with_autoclear, OtherCopies, Put, Kept, Verify,
         Second, Countdown, do_lock, vars
    <3>2. j = i
      BY <2>1, <3>1 DEF Clear, Stop
    <3>3. QED
      BY <3>1, <3>2
  <2>3. i # own
    <3>1. /\ age \in 0 .. CodeSecs /\ due \in 0 .. CodeSecs /\ CodeSecs \in Nat
          /\ clearers[i].left \in 0 .. CodeSecs
      BY <1>1, <2>1, ClipboardAssumption DEF IInv, TypeOK, Clearers, Delays
    <3>2. SUFFICES ASSUME i = own PROVE FALSE
      OBVIOUS
    <3>3. clearers[i].pc # "stopped" /\ (clearers[i].pc # "clear" => clearers[i].left = 0)
      BY <2>2 DEF Clear, Awake
    <3>4. clearers[i].left + age >= due /\ (clearers[i].pc = "clear" => age >= due)
      BY <1>1, <3>2, <3>3 DEF IInv, OnTime
    <3>5. QED
      BY <1>1, <3>1, <3>3, <3>4
  <2>4. QED
    BY <1>1, <2>2, <2>3 DEF IInv, Looked, Clear
<1>2. IInv /\ [Next]_vars =>
        [\A i \in Slots :
           by = "vaultgui" /\ age < due /\ Takes(i) =>
             /\ i # own
             /\ \/ ~clearers[i].verify
                \/ i \in overtaken
                \/ SameText(clip, clearers[i].exp)]_vars
  BY <1>1
<1>3. QED
  BY <1>2, IInvAlways, PTL DEF Spec, StaysItsTime

=============================================================================
