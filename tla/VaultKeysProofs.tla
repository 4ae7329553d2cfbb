-------------------------- MODULE VaultKeysProofs ---------------------------
(***************************************************************************)
(* Proofs about VaultKeys, for any processes, vaults and number of keys.   *)
(*                                                                         *)
(* IInv is the inductive invariant. Every vault is sound: its wrap has a   *)
(* TPM factor if and only if it has a sealed TPM secret, and the key of    *)
(* that secret has been made here and is stored or deleted, or is foreign. *)
(* Every call is sound: a creation holds the handle or the wrap of a key   *)
(* that is stored or deleted, and a secret only with a wrap; an unlock     *)
(* that holds a handle holds that of the stored key if its vault is sealed *)
(* under it, and goes on to the unwrap with the factors of its vault.      *)
(***************************************************************************)
EXTENDS VaultKeys, TLAPS

Opening == {"open", "create_key", "finalize", "reopen"}

Types ==
  /\ keys \in 1 .. MaxKeys
  /\ tpm \in 1 .. keys \cup {NoKey}
  /\ deleted \subseteq 1 .. keys
  /\ vaults \in [Vaults -> Headers \cup {NoVault}]
  /\ proc \in [Procs -> Calls]

SoundVault(v) ==
  vaults[v] # NoVault =>
    /\ vaults[v].secret <=> vaults[v].tpm_wrap # NoKey
    /\ vaults[v].pass \in Clears(hardware_bound(vaults[v]))
    /\ vaults[v].tpm_wrap \in {tpm, 0, NoKey} \cup deleted

Control(c) ==
  /\ c.pc = "idle" <=> c.op = "none"
  /\ c.op # "none" => c.result = "none"
  /\ c.op = "create" => c.pc \in Opening \cup {"seal", "wrap"}
  /\ c.op = "unlock" => c.pc \in Opening \cup {"unseal", "unwrap"}
  /\ c.op = "describe" => c.pc \in Opening
  /\ c.op = "deprovision" => c.pc \in {"find", "delete"}
  /\ c.pc = "delete" => c.handle # NoKey

SoundCreate(c) ==
  c.op = "create" =>
    /\ c.vault \in Vaults /\ vaults[c.vault] = NoVault
    /\ c.pc = "seal" => c.handle \in {tpm} \cup deleted
    /\ c.pc = "seal" => c.handle # NoKey
    /\ c.pc # "wrap" => c.wrap = NoKey /\ ~c.secret
    /\ c.wrap \in {tpm, NoKey} \cup deleted
    /\ c.secret <=> c.wrap # NoKey

SoundUnlock(c) ==
  c.op = "unlock" =>
    /\ c.vault \in Vaults /\ vaults[c.vault] # NoVault
    /\ c.pc # "unwrap" => vaults[c.vault].tpm_wrap # NoKey
    /\ c.pc = "unseal" /\ vaults[c.vault].tpm_wrap = tpm => c.handle = tpm
    /\ c.pc = "unwrap" => c.secret = vaults[c.vault].secret

Sound(c) == Control(c) /\ SoundCreate(c) /\ SoundUnlock(c)

OneCreator ==
  \A p, q \in Procs :
    proc[p].op = "create" /\ proc[q].op = "create" /\ proc[p].vault = proc[q].vault
      => p = q

IInv ==
  /\ Types
  /\ \A v \in Vaults : SoundVault(v)
  /\ \A p \in Procs : Sound(proc[p])
  /\ OneCreator

-----------------------------------------------------------------------------
(* A number that was made or not made is never the marker for no key.       *)
LEMMA KeysAreNumbers ==
  ASSUME Types
  PROVE  /\ NoKey \notin Keys
         /\ 1 .. keys \subseteq Keys
         /\ 0 \in Keys
BY KeysAssumption DEF Types, Keys

(* A process that runs no call has a record of the right type.              *)
LEMMA IdleIsCall == Idle \in Calls
BY DEF Idle, Calls, Passphrases, Escrows

(* A process that runs no call is sound, whatever its last result.          *)
LEMMA ReturnedIsSound ==
  ASSUME NEW r \in {"ok", "refused", "failed"}
  PROVE  /\ [Idle EXCEPT !.result = r] \in Calls
         /\ Sound([Idle EXCEPT !.result = r])
         /\ Sound([Idle EXCEPT !.result = r])'
         /\ [Idle EXCEPT !.result = r].op = "none"
BY IdleIsCall DEF Idle, Calls, Sound, Control, SoundCreate, SoundUnlock

(* Vaults made before are sound, with the keys 0 and 1 or with none.        *)
LEMMA OldHeadersSound ==
  ASSUME NEW h \in OldHeaders({0, 1})
  PROVE  /\ h \in Headers
         /\ h.secret <=> h.tpm_wrap # NoKey
         /\ h.pass \in Clears(hardware_bound(h))
         /\ h.tpm_wrap \in {0, 1, NoKey}
<1>1. 0 \in Keys /\ 1 \in Keys
  BY KeysAssumption DEF Keys
<1>2. NoKey # 0 /\ NoKey # 1
  BY KeysAssumption
<1>3. QED
  BY <1>1, <1>2 DEF OldHeaders, Headers, Clears, hardware_bound, Passphrases

(* Vaults made before, and processes that run no call yet, are sound.       *)
LEMMA IInvInit == Init => IInv
<1> SUFFICES ASSUME Init PROVE IInv
  OBVIOUS
<1>1. Types
  <2>1. vaults \in [Vaults -> Headers \cup {NoVault}]
    BY OldHeadersSound DEF Init
  <2>2. proc \in [Procs -> Calls]
    BY IdleIsCall DEF Init
  <2>3. QED
    BY <2>1, <2>2, KeysAssumption DEF Init, Types
<1>2. ASSUME NEW v \in Vaults PROVE SoundVault(v)
  BY OldHeadersSound DEF Init, SoundVault
<1>3. ASSUME NEW p \in Procs PROVE Sound(proc[p]) /\ proc[p].op = "none"
  BY DEF Init, Idle, Sound, Control, SoundCreate, SoundUnlock
<1>4. QED
  BY <1>1, <1>2, <1>3 DEF IInv, OneCreator

-----------------------------------------------------------------------------
(* Where only p's call changes, to one that is sound and does not create    *)
(* the vault another call creates, the invariant is kept.                   *)
Alone(p, c) ==
  c.op = "create" =>
    \A q \in Procs \ {p} : proc[q].op = "create" => proc[q].vault # c.vault

Becomes(p, c) ==
  /\ c \in Calls
  /\ proc' = [proc EXCEPT ![p] = c]
  /\ Alone(p, c)

(* A step that changes one call, to a sound one, keeps the invariant.       *)
LEMMA CallStep ==
  ASSUME IInv, NEW p \in Procs, NEW c, Becomes(p, c), Sound(c),
         UNCHANGED <<tpm, keys, vaults, deleted>>
  PROVE  IInv'
<1>1. proc'[p] = c /\ \A q \in Procs \ {p} : proc'[q] = proc[q]
  BY DEF Becomes, IInv, Types
<1>2. Types'
  BY DEF IInv, Types, Becomes
<1>3. ASSUME NEW v \in Vaults PROVE SoundVault(v)'
  BY DEF IInv, SoundVault
<1>4. ASSUME NEW q \in Procs PROVE Sound(proc[q])'
  <2>1. Sound(proc'[q])
    BY <1>1 DEF IInv
  <2>2. QED
    BY <2>1 DEF Sound, Control, SoundCreate, SoundUnlock
<1>5. OneCreator'
  BY <1>1 DEF OneCreator, Becomes, Alone, IInv
<1>6. QED
  BY <1>2, <1>3, <1>4, <1>5 DEF IInv

(* A call that goes on creates what it created, alone as before.            *)
LEMMA GoesOnAlone ==
  ASSUME IInv, NEW p \in Procs, NEW c,
         c.op = proc[p].op, c.vault = proc[p].vault
  PROVE  Alone(p, c)
BY DEF Alone, IInv, OneCreator

(* A call that returns leaves a process that runs none.                     *)
LEMMA ReturnBecomes ==
  ASSUME IInv, NEW p \in Procs, NEW r \in {"ok", "refused", "failed"}, Return(p, r)
  PROVE  Becomes(p, [Idle EXCEPT !.result = r])
BY ReturnedIsSound DEF Return, Becomes, Alone

(* So a return that changes nothing else keeps the invariant.               *)
LEMMA ReturnStep ==
  ASSUME IInv, NEW p \in Procs, NEW r \in {"ok", "refused", "failed"}, Return(p, r),
         UNCHANGED <<tpm, keys, vaults, deleted>>
  PROVE  IInv'
BY ReturnBecomes, ReturnedIsSound, CallStep

(* A call that goes on to another control state is a call still.            *)
LEMMA GotoBecomes ==
  ASSUME IInv, NEW p \in Procs, NEW pc \in {"create_key", "finalize", "reopen", "wrap"},
         Goto(p, pc)
  PROVE  Becomes(p, [proc[p] EXCEPT !.pc = pc])
<1>1. proc[p] \in Calls
  BY DEF IInv, Types
<1>2. [proc[p] EXCEPT !.pc = pc] \in Calls
  BY <1>1 DEF Calls
<1>3. [proc[p] EXCEPT !.pc = pc].op = proc[p].op
      /\ [proc[p] EXCEPT !.pc = pc].vault = proc[p].vault
  BY <1>1 DEF Calls
<1>4. proc' = [proc EXCEPT ![p] = [proc[p] EXCEPT !.pc = pc]]
  BY DEF Goto
<1>5. QED
  BY <1>2, <1>3, <1>4, GoesOnAlone DEF Becomes

-----------------------------------------------------------------------------
(* CngPcpProvider::open: the next provider call, an error, or a handle.     *)
LEMMA GotoOpeningStep ==
  ASSUME IInv, NEW p \in Procs, proc[p].pc \in Opening,
         NEW pc \in {"create_key", "finalize", "reopen"}, Goto(p, pc),
         UNCHANGED <<tpm, keys, vaults, deleted>>
  PROVE  IInv'
<1> DEFINE c == [proc[p] EXCEPT !.pc = pc]
<1>1. proc[p] \in Calls /\ Sound(proc[p])
  BY DEF IInv, Types
<1>2. c.pc = pc /\ c.op = proc[p].op /\ c.vault = proc[p].vault /\ c.wrap = proc[p].wrap
      /\ c.secret = proc[p].secret /\ c.result = proc[p].result
  BY <1>1 DEF Calls
<1> HIDE DEF c
<1>3. Sound(c)
  BY <1>1, <1>2 DEF Opening, Sound, Control, SoundCreate, SoundUnlock
<1>4. QED
  BY <1>3, GotoBecomes, CallStep DEF c

(* The open fails: create_vault goes on without a factor, the others        *)
(* return.                                                                  *)
LEMMA UnavailableStep ==
  ASSUME IInv, NEW p \in Procs, proc[p].pc \in Opening, Unavailable(p),
         UNCHANGED <<tpm, keys, vaults, deleted>>
  PROVE  IInv'
<1>1. proc[p] \in Calls /\ Sound(proc[p])
  BY DEF IInv, Types
<1>2. CASE proc[p].op = "create"
  <2> DEFINE c == [proc[p] EXCEPT !.pc = "wrap"]
  <2>1. c.pc = "wrap" /\ c.op = proc[p].op /\ c.vault = proc[p].vault /\ c.wrap = proc[p].wrap
        /\ c.secret = proc[p].secret /\ c.result = proc[p].result
    BY <1>1 DEF Calls
  <2>2. Goto(p, "wrap")
    BY <1>2 DEF Unavailable
  <2>3. Becomes(p, c)
    BY <2>2, GotoBecomes
  <2> HIDE DEF c
  <2>4. Sound(c)
    BY <1>1, <1>2, <2>1 DEF Opening, Sound, Control, SoundCreate, SoundUnlock
  <2>5. QED
    BY <2>3, <2>4, CallStep
<1>3. CASE proc[p].op = "unlock"
  BY <1>3, ReturnStep DEF Unavailable
<1>4. CASE proc[p].op \notin {"create", "unlock"}
  BY <1>4, ReturnStep DEF Unavailable
<1>5. QED
  BY <1>2, <1>3, <1>4

(* A call that is given a handle.                                           *)
Handed(p, k) ==
  [proc[p] EXCEPT !.handle = k,
     !.pc = IF proc[p].op = "create" THEN "seal" ELSE "unseal"]

(* What a call that is given a handle keeps of what it had.                 *)
LEMMA HandedBecomes ==
  ASSUME IInv, NEW p \in Procs, proc[p].pc \in Opening, NEW k \in Keys, Provided(p, k),
         proc[p].op # "describe"
  PROVE  /\ Becomes(p, Handed(p, k))
         /\ Handed(p, k).op = proc[p].op /\ Handed(p, k).vault = proc[p].vault
         /\ Handed(p, k).wrap = proc[p].wrap /\ Handed(p, k).secret = proc[p].secret
         /\ Handed(p, k).result = proc[p].result /\ Handed(p, k).handle = k
         /\ Handed(p, k).pc = IF proc[p].op = "create" THEN "seal" ELSE "unseal"
<1>1. proc[p] \in Calls
  BY DEF IInv, Types
<1>2. Handed(p, k) \in Calls
  BY <1>1 DEF Calls, Handed
<1>3. proc' = [proc EXCEPT ![p] = Handed(p, k)]
  BY DEF Provided, Handed
<1>4. /\ Handed(p, k).op = proc[p].op /\ Handed(p, k).vault = proc[p].vault
      /\ Handed(p, k).wrap = proc[p].wrap /\ Handed(p, k).secret = proc[p].secret
      /\ Handed(p, k).result = proc[p].result /\ Handed(p, k).handle = k
      /\ Handed(p, k).pc = IF proc[p].op = "create" THEN "seal" ELSE "unseal"
  BY <1>1 DEF Calls, Handed
<1>5. QED
  BY <1>2, <1>3, <1>4, GoesOnAlone DEF Becomes

(* The stored key is handed out: the handle is that of the stored key.      *)
LEMMA ProvidedStep ==
  ASSUME IInv, NEW p \in Procs, proc[p].pc \in Opening, tpm # NoKey, Provided(p, tpm),
         UNCHANGED <<tpm, keys, vaults, deleted>>
  PROVE  IInv'
<1>1. Sound(proc[p]) /\ tpm \in Keys
  BY KeysAreNumbers DEF IInv, Types
<1>2. CASE proc[p].op = "describe"
  BY <1>2, ReturnStep DEF Provided
<1>3. CASE proc[p].op # "describe"
  <2>1. Sound(Handed(p, tpm))
    BY <1>1, <1>3, HandedBecomes
       DEF Opening, Sound, Control, SoundCreate, SoundUnlock
  <2>2. QED
    BY <1>1, <1>3, <2>1, HandedBecomes, CallStep
<1>4. QED
  BY <1>2, <1>3

(* A key is stored: nobody's vault or handle was under a key that was not   *)
(* there, so none of them is under the new one.                             *)
LEMMA MadeKeySound ==
  ASSUME IInv, tpm = NoKey, keys < MaxKeys, keys' = keys + 1, tpm' = keys',
         UNCHANGED <<vaults, deleted>>
  PROVE  /\ keys' \in 1 .. MaxKeys /\ tpm' \in Keys /\ deleted' \subseteq 1 .. keys'
         /\ \A v \in Vaults : SoundVault(v)'
         /\ \A v \in Vaults : vaults[v] # NoVault => vaults[v].tpm_wrap # tpm'
<1>1. /\ keys \in 1 .. MaxKeys /\ keys' \in 1 .. MaxKeys /\ deleted \subseteq 1 .. keys
      /\ NoKey \notin Nat /\ MaxKeys \in Nat
  BY KeysAssumption DEF IInv, Types
<1>2. tpm' \in Keys /\ deleted' \subseteq 1 .. keys'
  BY <1>1 DEF Keys
<1>3. ASSUME NEW v \in Vaults, vaults[v] # NoVault
      PROVE  vaults[v].tpm_wrap \in {0, NoKey} \cup deleted /\ vaults[v].tpm_wrap # tpm'
  BY <1>1, <1>3 DEF IInv, SoundVault
<1>4. ASSUME NEW v \in Vaults PROVE SoundVault(v)'
  BY <1>3 DEF IInv, SoundVault
<1>5. QED
  BY <1>1, <1>2, <1>3, <1>4

(* NCryptFinalizeKey stores a new key only where none is, or fails.         *)
LEMMA FinalizeKeyStep ==
  ASSUME IInv, NEW p \in Procs, FinalizeKey(p)
  PROVE  IInv'
<1>1. proc[p].pc \in Opening /\ Sound(proc[p])
  BY DEF FinalizeKey, At, Opening, IInv
<1>2. CASE Unavailable(p) /\ UNCHANGED <<tpm, keys>>
  BY <1>1, <1>2, UnavailableStep DEF FinalizeKey
<1>3. CASE /\ tpm = NoKey \/ Overwrites
           /\ keys < MaxKeys /\ keys' = keys + 1 /\ tpm' = keys' /\ Provided(p, keys')
  <2>1. tpm = NoKey /\ UNCHANGED <<vaults, deleted>>
    BY <1>3 DEF Overwrites, FinalizeKey
  <2>2. /\ keys' \in 1 .. MaxKeys /\ keys' \in Keys /\ deleted' \subseteq 1 .. keys'
        /\ \A v \in Vaults : SoundVault(v)'
        /\ \A v \in Vaults : vaults[v] # NoVault => vaults[v].tpm_wrap # tpm'
    BY <1>3, <2>1, MadeKeySound
  <2>3. /\ proc' \in [Procs -> Calls]
        /\ \A q \in Procs \ {p} : proc'[q] = proc[q]
        /\ Sound(proc[p])'
        /\ proc'[p].op # "none" => proc'[p].op = proc[p].op /\ proc'[p].vault = proc[p].vault
    <3>1. CASE proc[p].op = "describe"
      <4>1. Becomes(p, [Idle EXCEPT !.result = "ok"])
        BY <1>3, <3>1, ReturnBecomes DEF Provided
      <4>2. proc'[p] = [Idle EXCEPT !.result = "ok"]
        BY <4>1 DEF Becomes, IInv, Types
      <4>3. Sound(proc[p])'
        BY <4>2, ReturnedIsSound
           DEF Idle, Sound, Control, SoundCreate, SoundUnlock
      <4>4. proc'[p].op = "none"
        BY <4>2, ReturnedIsSound
      <4>5. QED
        BY <4>1, <4>3, <4>4 DEF Becomes, IInv, Types
    <3>2. CASE proc[p].op # "describe"
      <4> DEFINE c == Handed(p, keys')
      <4>1. /\ Becomes(p, c)
            /\ c.op = proc[p].op /\ c.vault = proc[p].vault
            /\ c.wrap = proc[p].wrap /\ c.secret = proc[p].secret
            /\ c.result = proc[p].result /\ c.handle = keys'
            /\ c.pc = IF proc[p].op = "create" THEN "seal" ELSE "unseal"
        BY <1>1, <1>3, <2>2, <3>2, HandedBecomes
      <4> HIDE DEF c
      <4>2. proc' \in [Procs -> Calls] /\ proc'[p] = c
            /\ \A q \in Procs \ {p} : proc'[q] = proc[q]
        BY <4>1 DEF Becomes, IInv, Types
      <4>3. tpm' # NoKey
        BY <1>3, <2>2, KeysAreNumbers DEF IInv
      <4>4. Sound(proc[p])'
        BY <1>1, <1>3, <2>1, <3>2, <4>1, <4>2, <4>3
           DEF Opening, Sound, Control, SoundCreate, SoundUnlock
      <4>5. QED
        BY <4>1, <4>2, <4>4
    <3>3. QED
      BY <3>1, <3>2
  <2>4. Types'
    BY <1>3, <2>1, <2>2, <2>3 DEF IInv, Types
  <2>5. ASSUME NEW q \in Procs, q # p PROVE Sound(proc[q])'
    BY <2>1, <2>2, <2>3, <2>5 DEF IInv, Sound, Control, SoundCreate, SoundUnlock
  <2>6. OneCreator'
    BY <2>3 DEF IInv, OneCreator
  <2>7. QED
    BY <2>2, <2>3, <2>4, <2>5, <2>6 DEF IInv
<1>4. QED
  BY <1>2, <1>3 DEF FinalizeKey

(* The other steps of the open: found, not found, or found by the reopen.   *)
LEMMA OpenStep ==
  ASSUME IInv, NEW p \in Procs, OpenKey(p) \/ CreateKey(p) \/ ReopenKey(p)
  PROVE  IInv'
<1>1. proc[p].pc \in Opening /\ UNCHANGED <<tpm, keys, vaults, deleted>>
  BY DEF OpenKey, CreateKey, ReopenKey, At, Opening
<1>2. \/ tpm # NoKey /\ Provided(p, tpm)
      \/ \E pc \in {"create_key", "finalize", "reopen"} : Goto(p, pc)
      \/ Unavailable(p)
  BY DEF OpenKey, CreateKey, ReopenKey, KeyFound
<1>3. QED
  BY <1>1, <1>2, ProvidedStep, GotoOpeningStep, UnavailableStep

-----------------------------------------------------------------------------
(* create_vault                                                             *)

(* create_vault begins: nobody else is creating that vault.                 *)
LEMMA CreateStep ==
  ASSUME IInv, NEW p \in Procs, NEW v \in Vaults, NEW pass \in Passphrases,
         NEW recovery \in BOOLEAN, NEW allow_no_tpm \in BOOLEAN,
         create_vault(p, v, pass, recovery, allow_no_tpm)
  PROVE  IInv'
<1> DEFINE c == [Idle EXCEPT !.op = "create", !.vault = v, !.pass = pass,
                   !.escrow = IF recovery THEN "code" ELSE "none",
                   !.pc = IF allow_no_tpm THEN "wrap" ELSE "open"]
<1>1. c \in Calls /\ c.op = "create" /\ c.vault = v /\ c.wrap = NoKey /\ c.secret = FALSE
      /\ c.result = "none" /\ c.pc \in {"wrap", "open"}
  BY DEF Idle, Calls, Escrows
<1>2. proc' = [proc EXCEPT ![p] = c] /\ UNCHANGED <<tpm, keys, vaults, deleted>>
      /\ vaults[v] = NoVault /\ \A q \in Procs : proc[q].op = "create" => proc[q].vault # v
  BY DEF create_vault, Call
<1> HIDE DEF c
<1>3. Becomes(p, c)
  BY <1>1, <1>2 DEF Becomes, Alone
<1>4. Sound(c)
  BY <1>1, <1>2 DEF Opening, Sound, Control, SoundCreate, SoundUnlock
<1>5. QED
  BY <1>2, <1>3, <1>4, CallStep

(* The secret is kept if and only if it could be sealed.                    *)
LEMMA SealStep ==
  ASSUME IInv, NEW p \in Procs, Seal(p)
  PROVE  IInv'
<1>1. proc[p] \in Calls /\ Sound(proc[p]) /\ proc[p].pc = "seal"
      /\ UNCHANGED <<tpm, keys, vaults, deleted>>
  BY DEF IInv, Types, Seal, At
<1>2. proc[p].op = "create"
  BY <1>1 DEF Sound, Control, Calls, Opening
<1> DEFINE sealed == [proc[p] EXCEPT !.wrap = proc[p].handle, !.secret = TRUE, !.pc = "wrap"]
           failed == [proc[p] EXCEPT !.secret = FALSE, !.pc = "wrap"]
<1>3. CASE proc' = [proc EXCEPT ![p].wrap = proc[p].handle, ![p].secret = TRUE, ![p].pc = "wrap"]
  <2>1. sealed \in Calls /\ sealed.op = proc[p].op /\ sealed.vault = proc[p].vault
        /\ sealed.wrap = proc[p].handle /\ sealed.secret = TRUE /\ sealed.pc = "wrap"
        /\ sealed.result = proc[p].result
    BY <1>1 DEF Calls
  <2>2. Becomes(p, sealed)
    <3>1. proc' = [proc EXCEPT ![p] = sealed]
      BY <1>3
    <3> HIDE DEF sealed
    <3>2. QED
      BY <2>1, <3>1, GoesOnAlone DEF Becomes
  <2> HIDE DEF sealed
  <2>3. Sound(sealed)
    BY <1>1, <1>2, <2>1 DEF Opening, Sound, Control, SoundCreate, SoundUnlock
  <2>4. QED
    BY <1>1, <2>2, <2>3, CallStep
<1>4. CASE proc' = [proc EXCEPT ![p].secret = SecretAfterFailure, ![p].pc = "wrap"]
  <2>1. failed \in Calls /\ failed.op = proc[p].op /\ failed.vault = proc[p].vault
        /\ failed.wrap = proc[p].wrap /\ failed.secret = FALSE /\ failed.pc = "wrap"
        /\ failed.result = proc[p].result
    BY <1>1 DEF Calls
  <2>2. Becomes(p, failed)
    <3>1. proc' = [proc EXCEPT ![p] = failed]
      BY <1>4 DEF SecretAfterFailure
    <3> HIDE DEF failed
    <3>2. QED
      BY <2>1, <3>1, GoesOnAlone DEF Becomes
  <2> HIDE DEF failed
  <2>3. Sound(failed)
    BY <1>1, <1>2, <2>1 DEF Opening, Sound, Control, SoundCreate, SoundUnlock
  <2>4. QED
    BY <1>1, <2>2, <2>3, CallStep
<1>5. QED
  BY <1>3, <1>4 DEF Seal

(* A vault is made: no call but the one that made it was creating it, and   *)
(* none was unlocking it.                                                   *)
LEMMA WrapAndSaveStep ==
  ASSUME IInv, NEW p \in Procs, WrapAndSave(p)
  PROVE  IInv'
<1> DEFINE c == proc[p]
           h == [tpm_wrap |-> c.wrap, secret |-> c.secret, pass |-> c.pass, escrow |-> c.escrow]
<1>1. c \in Calls /\ Sound(c) /\ c.pc = "wrap" /\ UNCHANGED <<tpm, keys, deleted>>
  BY DEF IInv, Types, WrapAndSave, At
<1>2. c.op = "create"
  BY <1>1 DEF Sound, Control, Calls, Opening
<1>3. CASE UNCHANGED vaults
  <2>1. Return(p, "failed") \/ Return(p, "refused") \/ Return(p, "ok")
    BY DEF WrapAndSave
  <2>2. QED
    BY <1>1, <1>3, <2>1, ReturnStep
<1>4. CASE /\ c.pass \in Clears(hardware_bound(h))
           /\ vaults' = [vaults EXCEPT ![c.vault] = h]
           /\ Return(p, "ok")
  <2>1. c.vault \in Vaults /\ vaults[c.vault] = NoVault
        /\ (c.secret <=> c.wrap # NoKey) /\ c.wrap \in {tpm, NoKey} \cup deleted
    BY <1>1, <1>2 DEF Sound, SoundCreate
  <2>2. h \in Headers
    BY <1>1 DEF Calls, Headers
  <2>3. Becomes(p, [Idle EXCEPT !.result = "ok"])
    BY <1>4, ReturnBecomes
  <2>4. /\ proc' \in [Procs -> Calls] /\ proc'[p] = [Idle EXCEPT !.result = "ok"]
        /\ \A q \in Procs \ {p} : proc'[q] = proc[q]
    BY <2>3 DEF Becomes, IInv, Types
  <2>5. proc'[p].op = "none" /\ Sound(proc[p])'
    BY <2>4, ReturnedIsSound DEF Idle, Sound, Control, SoundCreate, SoundUnlock
  <2>6. vaults'[c.vault] = h /\ vaults' \in [Vaults -> Headers \cup {NoVault}]
        /\ \A v \in Vaults \ {c.vault} : vaults'[v] = vaults[v]
    BY <1>4, <2>1, <2>2 DEF IInv, Types
  <2>7. Types'
    BY <1>1, <2>4, <2>6 DEF IInv, Types
  <2>8. ASSUME NEW v \in Vaults PROVE SoundVault(v)'
    <3>1. CASE v = c.vault
      <4>1. h.tpm_wrap = c.wrap /\ h.secret = c.secret /\ h.pass = c.pass
        OBVIOUS
      <4> HIDE DEF h
      <4>2. QED
        BY <1>1, <1>4, <2>1, <2>6, <3>1, <4>1 DEF SoundVault, hardware_bound
    <3>2. CASE v # c.vault
      BY <1>1, <2>6, <3>2 DEF IInv, SoundVault
    <3>3. QED
      BY <3>1, <3>2
  <2>9. ASSUME NEW q \in Procs, q # p PROVE Sound(proc[q])'
    <3>1. Sound(proc[q]) /\ proc'[q] = proc[q]
      BY <2>4, <2>9 DEF IInv
    <3>2. proc[q].op = "create" => proc[q].vault # c.vault
      BY <1>2, <2>9 DEF IInv, OneCreator
    <3>3. proc[q].op = "unlock" => proc[q].vault # c.vault
      BY <2>1, <3>1 DEF Sound, SoundUnlock
    <3>4. QED
      BY <1>1, <2>6, <3>1, <3>2, <3>3 DEF Sound, Control, SoundCreate, SoundUnlock
  <2>10. OneCreator'
    <3>1. proc'[p].op # "create" /\ \A q \in Procs \ {p} : proc'[q] = proc[q]
      BY <2>4, <2>5
    <3>2. OneCreator
      BY DEF IInv
    <3>3. QED
      BY <3>1, <3>2 DEF OneCreator
  <2>11. QED
    BY <2>5, <2>7, <2>8, <2>9, <2>10 DEF IInv
<1>5. QED
  BY <1>3, <1>4 DEF WrapAndSave

-----------------------------------------------------------------------------
(* unlock and unlock_with_recovery_code                                     *)

(* unlock begins: with a TPM factor it opens the key, without one it        *)
(* unwraps.                                                                 *)
LEMMA UnlockStep ==
  ASSUME IInv, NEW p \in Procs, NEW v \in Vaults, NEW pass \in Passphrases, unlock(p, v, pass)
  PROVE  IInv'
<1> DEFINE c == [Idle EXCEPT !.op = "unlock", !.vault = v, !.pass = pass,
                   !.pc = IF hardware_bound(vaults[v]) THEN "open" ELSE "unwrap"]
<1>1. c \in Calls /\ c.op = "unlock" /\ c.vault = v /\ c.secret = FALSE /\ c.result = "none"
      /\ c.pc = IF vaults[v].tpm_wrap # NoKey THEN "open" ELSE "unwrap"
  BY DEF Idle, Calls, Escrows, hardware_bound
<1>2. proc' = [proc EXCEPT ![p] = c] /\ UNCHANGED <<tpm, keys, vaults, deleted>>
      /\ vaults[v] # NoVault
  BY DEF unlock, Call
<1> HIDE DEF c
<1>3. Becomes(p, c)
  BY <1>1, <1>2 DEF Becomes, Alone
<1>4. SoundVault(v) /\ vaults[v] \in Headers
  BY <1>2 DEF IInv, Types
<1>5. Sound(c)
  BY <1>1, <1>2, <1>4 DEF Opening, Sound, Control, SoundCreate, SoundUnlock, SoundVault, Headers
<1>6. QED
  BY <1>2, <1>3, <1>5, CallStep

(* unlock has the TPM secret only of a vault that is wrapped under one.     *)
LEMMA UnsealStep ==
  ASSUME IInv, NEW p \in Procs, Unseal(p)
  PROVE  IInv'
<1> DEFINE c == [proc[p] EXCEPT !.secret = TRUE, !.pc = "unwrap"]
<1>1. proc[p] \in Calls /\ Sound(proc[p]) /\ proc[p].pc = "unseal"
      /\ UNCHANGED <<tpm, keys, vaults, deleted>>
  BY DEF IInv, Types, Unseal, At
<1>2. CASE Return(p, "refused") \/ Return(p, "failed")
  BY <1>1, <1>2, ReturnStep
<1>3. CASE proc' = [proc EXCEPT ![p].secret = TRUE, ![p].pc = "unwrap"]
  <2>1. c \in Calls /\ c.op = proc[p].op /\ c.vault = proc[p].vault
        /\ c.secret = TRUE /\ c.pc = "unwrap" /\ c.result = proc[p].result
    BY <1>1 DEF Calls
  <2>2. proc' = [proc EXCEPT ![p] = c]
    BY <1>3
  <2> HIDE DEF c
  <2>3. Becomes(p, c)
    BY <2>1, <2>2, GoesOnAlone DEF Becomes
  <2>4. proc[p].op = "unlock" /\ proc[p].vault \in Vaults
        /\ vaults[proc[p].vault] # NoVault /\ vaults[proc[p].vault].tpm_wrap # NoKey
    BY <1>1 DEF Sound, Control, SoundUnlock, Calls, Opening
  <2>5. vaults[proc[p].vault].secret = TRUE
    BY <2>4 DEF IInv, Types, SoundVault, Headers
  <2>6. Sound(c)
    BY <1>1, <2>1, <2>4, <2>5 DEF Opening, Sound, Control, SoundCreate, SoundUnlock
  <2>7. QED
    BY <1>1, <2>3, <2>6, CallStep
<1>4. QED
  BY <1>2, <1>3 DEF Unseal

(* unlock ends, whatever the unwrap says.                                   *)
LEMMA UnwrapStep ==
  ASSUME IInv, NEW p \in Procs, Unwrap(p)
  PROVE  IInv'
BY ReturnStep DEF Unwrap

(* unlock_with_recovery_code touches no TPM key and no call.                *)
LEMMA RecoverStep ==
  ASSUME IInv, NEW p \in Procs, NEW v \in Vaults, NEW typed \in Typed,
         unlock_with_recovery_code(p, v, typed)
  PROVE  IInv'
BY ReturnStep DEF unlock_with_recovery_code

-----------------------------------------------------------------------------
(* describe_provider and deprovision                                        *)

(* describe_provider opens the key only of a vault that is bound to it.     *)
LEMMA DescribeStep ==
  ASSUME IInv, NEW p \in Procs, NEW v \in Vaults, describe_provider(p, v)
  PROVE  IInv'
<1> DEFINE c == [Idle EXCEPT !.op = "describe", !.vault = v, !.pc = "open"]
<1>1. c \in Calls /\ c.op = "describe" /\ c.pc = "open" /\ c.result = "none"
  BY DEF Idle, Calls, Escrows, Passphrases
<1>2. proc' = [proc EXCEPT ![p] = c] /\ UNCHANGED <<tpm, keys, vaults, deleted>>
  BY DEF describe_provider, Call
<1> HIDE DEF c
<1>3. Becomes(p, c) /\ Sound(c)
  BY <1>1, <1>2 DEF Becomes, Alone, Opening, Sound, Control, SoundCreate, SoundUnlock
<1>4. QED
  BY <1>2, <1>3, CallStep

(* deprovision begins by looking for the key.                               *)
LEMMA DeprovisionStep ==
  ASSUME IInv, NEW p \in Procs, deprovision(p)
  PROVE  IInv'
<1> DEFINE c == [Idle EXCEPT !.op = "deprovision", !.pc = "find"]
<1>1. c \in Calls /\ c.op = "deprovision" /\ c.pc = "find" /\ c.result = "none"
  BY DEF Idle, Calls, Escrows, Passphrases
<1>2. proc' = [proc EXCEPT ![p] = c] /\ UNCHANGED <<tpm, keys, vaults, deleted>>
  BY DEF deprovision, Call
<1> HIDE DEF c
<1>3. Becomes(p, c) /\ Sound(c)
  BY <1>1, <1>2 DEF Becomes, Alone, Opening, Sound, Control, SoundCreate, SoundUnlock
<1>4. QED
  BY <1>2, <1>3, CallStep

(* deprovision holds the handle of the key it found.                        *)
LEMMA FindKeyStep ==
  ASSUME IInv, NEW p \in Procs, FindKey(p)
  PROVE  IInv'
<1> DEFINE c == [proc[p] EXCEPT !.handle = tpm, !.pc = "delete"]
<1>1. proc[p] \in Calls /\ Sound(proc[p]) /\ proc[p].pc = "find"
      /\ UNCHANGED <<tpm, keys, vaults, deleted>>
  BY DEF IInv, Types, FindKey, At
<1>2. CASE Return(p, "ok") \/ Return(p, "failed")
  BY <1>1, <1>2, ReturnStep
<1>3. CASE tpm # NoKey /\ proc' = [proc EXCEPT ![p].handle = tpm, ![p].pc = "delete"]
  <2>1. tpm \in Keys
    BY <1>3, KeysAreNumbers DEF IInv, Types
  <2>2. c \in Calls /\ c.op = proc[p].op /\ c.vault = proc[p].vault
        /\ c.pc = "delete" /\ c.result = proc[p].result /\ c.handle = tpm
    BY <1>1, <2>1 DEF Calls
  <2>3. proc' = [proc EXCEPT ![p] = c]
    BY <1>3
  <2> HIDE DEF c
  <2>4. Becomes(p, c)
    BY <2>2, <2>3, GoesOnAlone DEF Becomes
  <2>5. proc[p].op = "deprovision"
    BY <1>1 DEF Sound, Control, Calls, Opening
  <2>6. Sound(c)
    BY <1>1, <1>3, <2>2, <2>5 DEF Opening, Sound, Control, SoundCreate, SoundUnlock
  <2>7. QED
    BY <1>1, <2>4, <2>6, CallStep
<1>4. QED
  BY <1>2, <1>3 DEF FindKey, KeyFound

(* A key is deleted: what held the stored key holds a deleted one now.      *)
LEMMA DeleteKeyStep ==
  ASSUME IInv, NEW p \in Procs, DeleteKey(p)
  PROVE  IInv'
<1>1. proc[p] \in Calls /\ Sound(proc[p]) /\ proc[p].pc = "delete"
      /\ UNCHANGED <<keys, vaults>>
  BY DEF IInv, Types, DeleteKey, At
<1>2. CASE Return(p, "failed") /\ UNCHANGED <<tpm, deleted>>
  BY <1>1, <1>2, ReturnStep
<1>3. CASE tpm = proc[p].handle /\ tpm' = NoKey /\ deleted' = deleted \cup {tpm}
           /\ Return(p, "ok")
  <2>1. Becomes(p, [Idle EXCEPT !.result = "ok"])
    BY <1>3, ReturnBecomes
  <2>2. /\ proc' \in [Procs -> Calls] /\ proc'[p] = [Idle EXCEPT !.result = "ok"]
        /\ \A q \in Procs \ {p} : proc'[q] = proc[q]
    BY <2>1 DEF Becomes, IInv, Types
  <2>3. proc'[p].op = "none" /\ Sound(proc[p])'
    BY <2>2, ReturnedIsSound DEF Idle, Sound, Control, SoundCreate, SoundUnlock
  <2>4. tpm # NoKey
    BY <1>1, <1>3 DEF Sound, Control, Calls, Opening
  <2>5. Types'
    BY <1>1, <1>3, <2>2, <2>4 DEF IInv, Types
  <2>6. ASSUME NEW v \in Vaults PROVE SoundVault(v)'
    BY <1>1, <1>3 DEF IInv, SoundVault
  <2>7. ASSUME NEW q \in Procs, q # p PROVE Sound(proc[q])'
    BY <1>1, <1>3, <2>2, <2>7 DEF IInv, Sound, Control, SoundCreate, SoundUnlock
  <2>8. OneCreator'
    <3>1. proc'[p].op # "create" /\ \A q \in Procs \ {p} : proc'[q] = proc[q]
      BY <2>2, <2>3
    <3>2. QED
      BY <3>1 DEF IInv, OneCreator
  <2>9. QED
    BY <2>3, <2>5, <2>6, <2>7, <2>8 DEF IInv
<1>4. QED
  BY <1>2, <1>3 DEF DeleteKey

-----------------------------------------------------------------------------
(* Every step of every process keeps the invariant.                         *)
LEMMA NextStep == IInv /\ [Next]_vars => IInv'
<1>1. ASSUME IInv, NEW p \in Procs, Request(p) PROVE IInv'
  <2>1. CASE deprovision(p)
    BY <1>1, <2>1, DeprovisionStep
  <2>2. ASSUME NEW v \in Vaults, describe_provider(p, v) PROVE IInv'
    BY <1>1, <2>2, DescribeStep
  <2>3. ASSUME NEW v \in Vaults, NEW typed \in Typed, unlock_with_recovery_code(p, v, typed)
        PROVE  IInv'
    BY <1>1, <2>3, RecoverStep
  <2>4. ASSUME NEW v \in Vaults, NEW pass \in Passphrases, unlock(p, v, pass) PROVE IInv'
    BY <1>1, <2>4, UnlockStep
  <2>5. ASSUME NEW v \in Vaults, NEW pass \in Passphrases,
               NEW recovery \in BOOLEAN, NEW allow_no_tpm \in BOOLEAN,
               create_vault(p, v, pass, recovery, allow_no_tpm)
        PROVE  IInv'
    BY <1>1, <2>5, CreateStep
  <2>6. QED
    BY <1>1, <2>1, <2>2, <2>3, <2>4, <2>5 DEF Request
<1>2. ASSUME IInv, NEW p \in Procs, Progress(p) PROVE IInv'
  BY <1>2, OpenStep, FinalizeKeyStep, SealStep, WrapAndSaveStep, UnsealStep, UnwrapStep,
     FindKeyStep, DeleteKeyStep DEF Progress
<1>3. ASSUME IInv, UNCHANGED vars PROVE IInv'
  BY <1>3 DEF vars, IInv, Types, SoundVault, Sound, Control, SoundCreate, SoundUnlock, OneCreator
<1>4. QED
  BY <1>1, <1>2, <1>3 DEF Next

(* So it holds in every state.                                              *)
LEMMA IInvAlways == Spec => []IInv
BY IInvInit, NextStep, PTL DEF Spec

(* Every state is typed: open, seal, unseal and the rest hand each other    *)
(* the records the calls are made of, and only keys that were made appear.  *)
THEOREM TypeCorrect == Spec => []TypeOK
<1>1. IInv => TypeOK
  BY KeysAreNumbers DEF IInv, Types, TypeOK
<1>2. QED
  BY <1>1, IInvAlways, PTL

(* However many processes race to create the machine's key, or fail to open *)
(* it, a key that a vault was sealed under is replaced by no other: it goes *)
(* only by deprovision.                                                     *)
THEOREM KeyNeverReplaced == Spec => []KeyKept
<1>1. IInv => KeyKept
  BY DEF IInv, SoundVault, KeyKept, hardware_bound
<1>2. QED
  BY <1>1, IInvAlways, PTL

(* A TPM that fails while a vault is made leaves no vault that a passphrase *)
(* of the two-factor floor opens alone.                                     *)
THEOREM OneFactorAlwaysStrong == Spec => []SingleFactorIsStrong
<1>1. IInv => SingleFactorIsStrong
  <2> SUFFICES ASSUME IInv, NEW v \in Vaults, vaults[v] # NoVault, ~vaults[v].secret
               PROVE  vaults[v].pass = "strong"
    BY DEF SingleFactorIsStrong
  <2>1. SoundVault(v)
    BY DEF IInv
  <2>2. ~hardware_bound(vaults[v])
    BY <2>1 DEF SoundVault, hardware_bound
  <2>3. QED
    BY <2>1, <2>2 DEF SoundVault, Clears
<1>2. QED
  BY <1>1, IInvAlways, PTL

-----------------------------------------------------------------------------
(* What Return and Goto leave in a call.                                    *)
LEMMA CallResult ==
  ASSUME IInv, NEW p \in Procs
  PROVE  /\ \A r : Return(p, r) => proc'[p].result = r
         /\ \A pc : Goto(p, pc) => proc'[p].result = proc[p].result
BY DEF IInv, Types, Return, Goto, Idle, Calls

(* An unlock is refused where it unseals or unwraps: no failure to open the *)
(* TPM key is taken for a wrong passphrase.                                 *)
LEMMA WhereRefused ==
  ASSUME IInv, NEW p \in Procs, proc[p].op = "unlock", proc'[p].result = "refused",
         NEW q \in Procs, Request(q) \/ Progress(q)
  PROVE  q = p /\ (Unseal(p) \/ Unwrap(p))
<1>1. proc \in [Procs -> Calls] /\ Sound(proc[p])
  BY DEF IInv, Types
<1>2. proc[p].pc \in Opening \cup {"unseal", "unwrap"} /\ proc[p].result = "none"
  BY <1>1 DEF Sound, Control
<1>3. ASSUME q # p PROVE FALSE
  <2>1. proc'[p] = proc[p]
    BY <1>1, <1>3
       DEF Request, Progress, deprovision, describe_provider, unlock_with_recovery_code, unlock,
         create_vault, Call, Return, Goto, Provided, Unavailable, OpenKey, CreateKey,
         FinalizeKey, ReopenKey, Seal, WrapAndSave, Unseal, Unwrap, FindKey, DeleteKey
  <2>2. QED
    BY <1>2, <2>1
<1>4. ASSUME q = p, Request(p) PROVE FALSE
  BY <1>2, <1>4
     DEF Request, deprovision, describe_provider, unlock_with_recovery_code, unlock,
       create_vault, Call, At, Opening
<1>5. ASSUME NEW k, Provided(p, k) PROVE proc'[p].result = "none"
  <2>1. proc' = [proc EXCEPT ![p] = Handed(p, k)]
    BY <1>5 DEF Provided, Handed
  <2>2. Handed(p, k).result = "none"
    BY <1>1, <1>2 DEF Handed, Calls
  <2>3. QED
    BY <1>1, <2>1, <2>2
<1>6. Unavailable(p) => proc'[p].result # "refused"
  BY CallResult DEF Unavailable
<1>7. ASSUME q = p, OpenKey(p) \/ CreateKey(p) \/ FinalizeKey(p) \/ ReopenKey(p) PROVE FALSE
  BY <1>2, <1>5, <1>6, <1>7, CallResult DEF OpenKey, CreateKey, FinalizeKey, ReopenKey
<1>8. ASSUME q = p, Seal(p) \/ WrapAndSave(p) \/ FindKey(p) \/ DeleteKey(p) PROVE FALSE
  BY <1>2, <1>8 DEF Seal, WrapAndSave, FindKey, DeleteKey, At, Opening
<1>9. QED
  BY <1>3, <1>4, <1>7, <1>8 DEF Progress

(* The right passphrase opens a vault whose TPM key is still there, unless  *)
(* the TPM fails: `unlock` never calls it wrong, however creation failed    *)
(* and whatever other processes do.                                         *)
THEOREM RightPassphraseNeverRefused == Spec => RightPassphraseOpens
<1>1. ASSUME IInv, NEW p \in Procs, NEW q \in Procs, Request(q) \/ Progress(q),
             RightPassphrase(p), proc'[p].result = "refused"
      PROVE  FALSE
  <2>1. SoundUnlock(proc[p]) /\ proc[p].op = "unlock" /\ proc[p].pass = Header(p).pass
    BY <1>1 DEF IInv, Sound, RightPassphrase
  <2>2. CASE Unseal(p)
    <3>1. proc[p].pc = "unseal" /\ Header(p).tpm_wrap # NoKey
      BY <2>1, <2>2 DEF Unseal, At, SoundUnlock, Header
    <3>2. proc[p].handle = Header(p).tpm_wrap
      BY <1>1, <2>1, <3>1 DEF RightPassphrase, hardware_bound, SoundUnlock, Header
    <3>3. Return(p, "failed")
          \/ proc' = [proc EXCEPT ![p].secret = TRUE, ![p].pc = "unwrap"]
      BY <2>2, <3>2 DEF Unseal
    <3>4. proc[p].result = "none" /\ proc \in [Procs -> Calls]
      BY <1>1, <2>1 DEF IInv, Types, Sound, Control
    <3>5. CASE proc' = [proc EXCEPT ![p].secret = TRUE, ![p].pc = "unwrap"]
      <4>1. proc'[p] = [proc[p] EXCEPT !.secret = TRUE, !.pc = "unwrap"]
        BY <3>4, <3>5
      <4>2. QED
        BY <1>1, <3>4, <4>1 DEF Calls
    <3>6. QED
      BY <1>1, <3>3, <3>5, CallResult
  <2>3. CASE Unwrap(p)
    <3>1. proc[p].pc = "unwrap"
      BY <2>3 DEF Unwrap, At
    <3>2. proc[p].secret = Header(p).secret
      BY <2>1, <3>1 DEF SoundUnlock, Header
    <3>3. QED
      BY <1>1, <2>1, <2>3, <3>2, CallResult DEF Unwrap
  <2>4. QED
    BY <1>1, <2>1, <2>2, <2>3, WhereRefused
<1>2. ASSUME IInv, NEW p \in Procs, RightPassphrase(p), UNCHANGED vars
      PROVE  proc'[p].result # "refused"
  BY <1>2 DEF IInv, Sound, Control, RightPassphrase, vars
<1>3. IInv /\ [Next]_vars =>
        [\A p \in Procs : RightPassphrase(p) => proc'[p].result # "refused"]_vars
  BY <1>1, <1>2 DEF Next
<1>4. QED
  BY <1>3, IInvAlways, PTL DEF Spec, RightPassphraseOpens

-----------------------------------------------------------------------------
(* The escrow opens by what it was made from, in any spelling of the code,  *)
(* and by nothing else, whatever became of the machine's key and whoever    *)
(* else is in the middle of a call.                                         *)
THEOREM EscrowOpensRightly == Spec => RecoveryOpens
<1> DEFINE A == \A p \in Procs, v \in Vaults, typed \in Typed :
                  unlock_with_recovery_code(p, v, typed)
                    => (proc'[p].result = "ok" <=> typed \in RightfulInput(vaults[v].escrow))
<1>1. IInv /\ [Next]_vars => [A]_vars
  <2> SUFFICES ASSUME IInv, NEW p \in Procs, NEW v \in Vaults, NEW typed \in Typed,
                      unlock_with_recovery_code(p, v, typed)
               PROVE  proc'[p].result = "ok" <=> typed \in RightfulInput(vaults[v].escrow)
    OBVIOUS
  <2> DEFINE opens == vaults[v].escrow \in Candidates(typed)
  <2>1. vaults[v].escrow \in Escrows
    BY DEF IInv, Types, unlock_with_recovery_code, Headers
  <2>2. opens <=> typed \in RightfulInput(vaults[v].escrow)
    BY <2>1 DEF Candidates, Normalized, RightfulInput, Escrows, Typed
  <2>3. Return(p, IF opens THEN "ok" ELSE "refused")
    BY DEF unlock_with_recovery_code
  <2> HIDE DEF opens
  <2>4. proc'[p].result = IF opens THEN "ok" ELSE "refused"
    BY <2>3, CallResult
  <2>5. QED
    BY <2>2, <2>4
<1>2. QED
  BY <1>1, IInvAlways, PTL DEF Spec, RecoveryOpens

=============================================================================
