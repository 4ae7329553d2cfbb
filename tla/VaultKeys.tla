----------------------------- MODULE VaultKeys ------------------------------
(***************************************************************************)
(* The keys of the vaults of one machine: the two-factor wrap of a vault's *)
(* key and its recovery escrow (envelope.rs), how a vault is given them    *)
(* and opened with them (flow.rs), and the one TPM key that every process  *)
(* of the machine opens, creates and deletes under one name (cng_pcp.rs).  *)
(*                                                                         *)
(* A TPM key is a number, never used twice; 0 is a key of another machine. *)
(* One path is created once: VaultStore says how. The calls to the         *)
(* platform provider are steps of their own, and each of them may fail.    *)
(***************************************************************************)
EXTENDS Integers

CONSTANTS
  Procs, Vaults,
  NoVault,   \* there is no file at the path; the call is about no vault
  NoKey,     \* no key under KEY_NAME; no handle; no tpm_wrap
  MaxKeys    \* bound: keys made on this machine

ASSUME KeysAssumption ==
  /\ NoVault \notin Vaults
  /\ NoKey \notin Nat
  /\ MaxKeys \in Nat \ {0}

VARIABLES
  tpm,     \* the key the platform provider stores under KEY_NAME
  keys,    \* how many keys it has made
  vaults,  \* the header of each vault file
  proc,    \* the call each process runs, or the result of its last one
  \* History, read by the properties only:
  deleted  \* keys that deprovision deleted

vars == <<tpm, keys, vaults, proc, deleted>>

Keys == 0 .. MaxKeys

(* fair clears Policy::two_factor only, strong clears single_factor too.    *)
Passphrases == {"strong", "fair", "weak"}

(* An escrow holds a generated code or, from older programs, a passphrase.  *)
(* A user types one of these, the code in another spelling, or neither.     *)
Escrows == {"none", "code", "phrase"}
Typed == {"code", "spelt", "phrase", "other"}

(* tpm_wrap: the key the vault's random TPM secret is sealed under.         *)
(* secret: whether dek_wrap is under that secret and the passphrase, or     *)
(* under the passphrase alone.                                              *)
Headers == [tpm_wrap : Keys \cup {NoKey}, secret : BOOLEAN,
            pass : Passphrases, escrow : Escrows]

hardware_bound(h) == h.tpm_wrap # NoKey

Idle == [op |-> "none", pc |-> "idle", vault |-> NoVault, pass |-> "weak",
         escrow |-> "none", handle |-> NoKey, wrap |-> NoKey, secret |-> FALSE,
         result |-> "none"]

Calls == [op : {"none", "create", "unlock", "describe", "deprovision"},
          pc : {"idle", "open", "create_key", "finalize", "reopen", "seal", "wrap",
                "unseal", "unwrap", "find", "delete"},
          vault : Vaults \cup {NoVault}, pass : Passphrases, escrow : Escrows,
          handle : Keys \cup {NoKey}, wrap : Keys \cup {NoKey}, secret : BOOLEAN,
          result : {"none", "ok", "refused", "failed"}]

-----------------------------------------------------------------------------
(* Vaults made here before, by an older program, or on another machine.     *)
OldHeaders(made) ==
  [tpm_wrap : made, secret : {TRUE}, pass : {"fair"}, escrow : Escrows]
    \cup [tpm_wrap : {NoKey}, secret : {FALSE}, pass : {"strong"}, escrow : Escrows]

Init ==
  /\ tpm \in {NoKey, 1}
  /\ keys = 1
  /\ vaults \in [Vaults -> {NoVault} \cup OldHeaders({0, 1})]
  /\ proc = [p \in Procs |-> Idle]
  /\ deleted = {1} \ {tpm}

At(p, pc) == proc[p].pc = pc
Header(p) == vaults[proc[p].vault]

Call(p, c) == At(p, "idle") /\ proc' = [proc EXCEPT ![p] = c]
Goto(p, pc) == proc' = [proc EXCEPT ![p].pc = pc]
Return(p, result) == proc' = [proc EXCEPT ![p] = [Idle EXCEPT !.result = result]]

-----------------------------------------------------------------------------
(* CngPcpProvider::open, for create_vault, unlock and describe_provider     *)

Provided(p, k) ==
  IF proc[p].op = "describe"
  THEN Return(p, "ok")
  ELSE proc' = [proc EXCEPT ![p].handle = k,
                  ![p].pc = IF proc[p].op = "create" THEN "seal" ELSE "unseal"]

(* create_vault goes on without a TPM factor, unlock is an error, and       *)
(* describe_provider has words for it.                                      *)
Unavailable(p) ==
  CASE proc[p].op = "create" -> Goto(p, "wrap")
    [] proc[p].op = "unlock" -> Return(p, "failed")
    [] OTHER -> Return(p, "ok")

(* try_open_key finds a key; or it does not, whatever the reason.           *)
UncheckedOpen == TRUE
KeyFound == tpm # NoKey

(* Whatever makes the open fail, the next step is to create the key.        *)
OpenKey(p) ==
  /\ At(p, "open")
  /\ \/ KeyFound /\ Provided(p, tpm)
     \/ Goto(p, "create_key")
     \/ Unavailable(p)
  /\ UNCHANGED <<tpm, keys, vaults, deleted>>

(* Whether the flags of NCryptCreatePersistedKey let it replace a key.      *)
OverwriteFlag == TRUE
Overwrites == FALSE

(* NTE_EXISTS: the key that exists is opened.                               *)
CreateKey(p) ==
  /\ At(p, "create_key")
  /\ \/ tpm # NoKey /\ ~Overwrites /\ Goto(p, "reopen")
     \/ (tpm = NoKey \/ Overwrites) /\ Goto(p, "finalize")
     \/ Unavailable(p)
  /\ UNCHANGED <<tpm, keys, vaults, deleted>>

(* The key is stored now, unless another process stored one meanwhile.      *)
FinalizeKey(p) ==
  /\ At(p, "finalize")
  /\ \/ /\ tpm = NoKey \/ Overwrites
        /\ keys < MaxKeys
        /\ keys' = keys + 1
        /\ tpm' = keys'
        /\ Provided(p, keys')
     \/ Unavailable(p) /\ UNCHANGED <<tpm, keys>>
  /\ UNCHANGED <<vaults, deleted>>

ReopenKey(p) ==
  /\ At(p, "reopen")
  /\ \/ KeyFound /\ Provided(p, tpm)
     \/ Unavailable(p)
  /\ UNCHANGED <<tpm, keys, vaults, deleted>>

-----------------------------------------------------------------------------
(* create_vault                                                             *)

create_vault(p, v, pass, recovery, allow_no_tpm) ==
  /\ vaults[v] = NoVault
  /\ \A q \in Procs : proc[q].op = "create" => proc[q].vault # v
  /\ Call(p, [Idle EXCEPT !.op = "create", !.vault = v, !.pass = pass,
                !.escrow = IF recovery THEN "code" ELSE "none",
                !.pc = IF allow_no_tpm THEN "wrap" ELSE "open"])
  /\ UNCHANGED <<tpm, keys, vaults, deleted>>

(* The secret is used only if it could be sealed. A handle to a key that    *)
(* was deleted may still seal.                                              *)
SecretDespiteFailure == TRUE
SecretAfterFailure == FALSE

Seal(p) ==
  /\ At(p, "seal")
  /\ \/ proc' = [proc EXCEPT ![p].wrap = proc[p].handle, ![p].secret = TRUE, ![p].pc = "wrap"]
     \/ proc' = [proc EXCEPT ![p].secret = SecretAfterFailure, ![p].pc = "wrap"]
  /\ UNCHANGED <<tpm, keys, vaults, deleted>>

(* The passphrases that clear the policy of a vault.                        *)
TwoFactorPolicy(bound) == {"strong", "fair"}
Clears(bound) == IF bound THEN {"strong", "fair"} ELSE {"strong"}

(* Policy check, wraps and save, which may fail.                            *)
WrapAndSave(p) ==
  /\ At(p, "wrap")
  /\ LET c == proc[p]
         h == [tpm_wrap |-> c.wrap, secret |-> c.secret, pass |-> c.pass, escrow |-> c.escrow]
     IN  \/ /\ c.pass \in Clears(hardware_bound(h))
            /\ vaults' = [vaults EXCEPT ![c.vault] = h]
            /\ Return(p, "ok")
         \/ c.pass \in Clears(hardware_bound(h)) /\ Return(p, "failed") /\ UNCHANGED vaults
         \/ c.pass \notin Clears(hardware_bound(h)) /\ Return(p, "refused") /\ UNCHANGED vaults
  /\ UNCHANGED <<tpm, keys, deleted>>

-----------------------------------------------------------------------------
(* unlock, by the two factors or by the recovery escrow                     *)

unlock(p, v, pass) ==
  /\ vaults[v] # NoVault
  /\ Call(p, [Idle EXCEPT !.op = "unlock", !.vault = v, !.pass = pass,
                !.pc = IF hardware_bound(vaults[v]) THEN "open" ELSE "unwrap"])
  /\ UNCHANGED <<tpm, keys, vaults, deleted>>

(* Only the key it was sealed under opens the secret.                       *)
Unseal(p) ==
  /\ At(p, "unseal")
  /\ \/ /\ proc[p].handle = Header(p).tpm_wrap
        /\ proc' = [proc EXCEPT ![p].secret = TRUE, ![p].pc = "unwrap"]
     \/ proc[p].handle # Header(p).tpm_wrap /\ Return(p, "refused")
     \/ Return(p, "failed")
  /\ UNCHANGED <<tpm, keys, vaults, deleted>>

Unwrap(p) ==
  /\ At(p, "unwrap")
  /\ IF proc[p].pass = Header(p).pass /\ proc[p].secret = Header(p).secret
     THEN Return(p, "ok") ELSE Return(p, "refused")
  /\ UNCHANGED <<tpm, keys, vaults, deleted>>

(* RecoveryCode::from_user_input: a code from any spelling of it.           *)
Normalized(typed) == IF typed \in {"code", "spelt"} THEN "code" ELSE "other"

NormalizedOnly(typed) == {Normalized(typed)}
Candidates(typed) == {Normalized(typed), typed}

unlock_with_recovery_code(p, v, typed) ==
  /\ vaults[v] # NoVault
  /\ At(p, "idle")
  /\ Return(p, IF vaults[v].escrow \in Candidates(typed) THEN "ok" ELSE "refused")
  /\ UNCHANGED <<tpm, keys, vaults, deleted>>

-----------------------------------------------------------------------------
(* describe_provider: at startup, after a lock, an unlock, for `status`.    *)
describe_provider(p, v) ==
  /\ vaults[v] # NoVault /\ hardware_bound(vaults[v])
  /\ Call(p, [Idle EXCEPT !.op = "describe", !.vault = v, !.pc = "open"])
  /\ UNCHANGED <<tpm, keys, vaults, deleted>>

deprovision(p) ==
  /\ Call(p, [Idle EXCEPT !.op = "deprovision", !.pc = "find"])
  /\ UNCHANGED <<tpm, keys, vaults, deleted>>

(* An open that fails is taken for an absent key.                           *)
FindKey(p) ==
  /\ At(p, "find")
  /\ \/ KeyFound /\ proc' = [proc EXCEPT ![p].handle = tpm, ![p].pc = "delete"]
     \/ Return(p, "ok")
     \/ Return(p, "failed")
  /\ UNCHANGED <<tpm, keys, vaults, deleted>>

(* A handle to a key that is gone deletes nothing.                          *)
DeleteKey(p) ==
  /\ At(p, "delete")
  /\ \/ /\ tpm = proc[p].handle
        /\ tpm' = NoKey
        /\ deleted' = deleted \cup {tpm}
        /\ Return(p, "ok")
     \/ Return(p, "failed") /\ UNCHANGED <<tpm, deleted>>
  /\ UNCHANGED <<keys, vaults>>

-----------------------------------------------------------------------------
Request(p) ==
  \/ deprovision(p)
  \/ \E v \in Vaults :
       \/ describe_provider(p, v)
       \/ \E typed \in Typed : unlock_with_recovery_code(p, v, typed)
       \/ \E pass \in Passphrases :
            \/ unlock(p, v, pass)
            \/ \E recovery, allow_no_tpm \in BOOLEAN :
                 create_vault(p, v, pass, recovery, allow_no_tpm)

Progress(p) ==
  \/ OpenKey(p) \/ CreateKey(p) \/ FinalizeKey(p) \/ ReopenKey(p)
  \/ Seal(p) \/ WrapAndSave(p) \/ Unseal(p) \/ Unwrap(p)
  \/ FindKey(p) \/ DeleteKey(p)

Next == \E p \in Procs : Request(p) \/ Progress(p)

Spec == Init /\ [][Next]_vars

-----------------------------------------------------------------------------
TypeOK ==
  /\ tpm \in Keys \cup {NoKey}
  /\ keys \in 1 .. MaxKeys
  /\ vaults \in [Vaults -> Headers \cup {NoVault}]
  /\ proc \in [Procs -> Calls]
  /\ deleted \subseteq 1 .. keys

(* The key a vault of this machine was sealed under is the machine's key    *)
(* until `deprovision` deletes it: no race of two processes that create the *)
(* key, and no open of it that fails, replaces it by another.               *)
KeyKept ==
  \A v \in Vaults :
    vaults[v] # NoVault /\ hardware_bound(vaults[v])
      => vaults[v].tpm_wrap \in {tpm, 0} \cup deleted

(* A vault whose passphrase is its only factor has one that clears the      *)
(* higher floor, also when the TPM failed after it was asked for.           *)
SingleFactorIsStrong ==
  \A v \in Vaults :
    vaults[v] # NoVault /\ ~vaults[v].secret => vaults[v].pass = "strong"

(* With the right passphrase, and the key it was sealed under still there,  *)
(* a vault opens unless the TPM fails, whatever failed when it was created. *)
RightPassphrase(p) ==
  /\ proc[p].op = "unlock"
  /\ proc[p].pass = Header(p).pass
  /\ hardware_bound(Header(p)) => Header(p).tpm_wrap = tpm

RightPassphraseOpens ==
  [][\A p \in Procs : RightPassphrase(p) => proc'[p].result # "refused"]_vars

(* A vault with an escrow opens by what the escrow was made from, the code  *)
(* in any spelling or an older program's passphrase, and by nothing else,   *)
(* whatever became of the TPM key.                                          *)
RightfulInput(e) ==
  CASE e = "code" -> {"code", "spelt"} [] e = "phrase" -> {"phrase"} [] OTHER -> {}

RecoveryOpens ==
  [][\A p \in Procs, v \in Vaults, typed \in Typed :
       unlock_with_recovery_code(p, v, typed)
         => (proc'[p].result = "ok" <=> typed \in RightfulInput(vaults[v].escrow))]_vars

=============================================================================
