----------------------------- MODULE DumpHarness -----------------------------
(***************************************************************************)
(* The memory-dump harness (verify/dumper): for one scenario after another *)
(* it provisions a throwaway vault, spawns a child that freezes in a given *)
(* state (vaultctl's __hold-* and __leak, vaultgui's --leaktest), waits    *)
(* for its READY, dumps its memory, lets it go and looks for two markers   *)
(* in the dump: the canary, which is the vault's secret, and the sentinel, *)
(* which tells that the dump shows anything at all.                        *)
(*                                                                         *)
(* The child is a process of its own: it dies at any moment, prints other  *)
(* lines, gets stuck, or keeps the secret it should have dropped (the      *)
(* defect looked for). A dump is blind when it shows nothing of the        *)
(* child's memory, as one of a dead child is bound to be.                  *)
(***************************************************************************)
EXTENDS Naturals, Sequences

CONSTANTS
  MaxStray,    \* bound: other lines a child prints before READY
  ChildSticks  \* TRUE if a child may get stuck before READY

ASSUME HarnessAssumption == MaxStray \in Nat /\ ChildSticks \in BOOLEAN

ALL_SCENARIOS ==
  <<"locked", "post-clip", "leak", "gui-locked", "gui-post-autolock", "gui-leak">>

Scenarios == {ALL_SCENARIOS[i] : i \in DOMAIN ALL_SCENARIOS}

IsControl(s) == s \in {"leak", "gui-leak"}
LoadsVault(s) == ~IsControl(s)
IsGui(s) == s \in {"gui-locked", "gui-post-autolock", "gui-leak"}

(* The scenarios whose child unlocks the vault and reads the secret.        *)
Reveals(s) == s \in {"post-clip", "gui-post-autolock"}

VARIABLES
  plan,     \* the scenarios this run of the harness was asked for
  keep,     \* whether it was told to keep the dumps
  missing,  \* the binaries that are not built
  pc,       \* what the harness is doing
  results,  \* one for each scenario dumped and scanned so far
  dump,     \* what the present dump file shows, or NoDump
  workdir,  \* whether the throwaway directory is there
  child,    \* what the present child is doing
  stdin,    \* whether the child's input is still open
  stdout,   \* the lines the child printed and the harness has not read
  secret,   \* whether the child's memory holds the canary
  \* History, read by the properties only:
  faithful, \* no dump of this run was blind
  clean     \* no child of this run kept a canary it should have dropped

harnessVars == <<pc, results, dump, workdir>>
childVars == <<child, stdin, stdout, secret>>
vars == <<plan, keep, missing, harnessVars, childVars, faithful, clean>>

NoDump == [kind |-> "none"]
Shows(s, c) == [kind |-> "dump", sentinel |-> s, canary |-> c]

Scen == plan[Len(results) + 1]
Binary(s) == IF IsGui(s) THEN "vaultgui" ELSE "vaultctl"

(* `verify` runs them all, `dumper <scenario>` one.                         *)
Single == Len(plan) = 1
Ended == {"passed", "failed", "error"}

Init ==
  /\ plan \in {ALL_SCENARIOS} \cup {<<s>> : s \in Scenarios}
  /\ keep \in BOOLEAN
  /\ missing \in SUBSET {"vaultctl", "vaultgui"}
  /\ pc = "check"
  /\ results = <<>>
  /\ dump = NoDump
  /\ workdir = FALSE
  /\ child = "none" /\ stdin = FALSE /\ stdout = <<>> /\ secret = FALSE
  /\ faithful = TRUE /\ clean = TRUE

-----------------------------------------------------------------------------
(* The harness                                                              *)

(* Provisioning needs vaultctl whatever the scenario is.                    *)
Needed == {"vaultctl"} \cup {Binary(plan[i]) : i \in DOMAIN plan}

Check ==
  /\ pc = "check"
  /\ IF Needed \cap missing = {}
     THEN pc' = "provision" /\ workdir' = TRUE
     ELSE pc' = "error" /\ UNCHANGED workdir
  /\ UNCHANGED <<plan, keep, missing, results, dump, childVars, faithful, clean>>

(* An error anywhere ends the run: the work directory, a dump in it and a   *)
(* child are left where they are, the child with its input closed.          *)
Abort ==
  /\ pc' = "error"
  /\ stdin' = FALSE
  /\ UNCHANGED <<plan, keep, missing, results, workdir, child, stdout, secret, clean>>

(* `vaultctl init` and `vaultctl add`, each to its end.                     *)
Provision ==
  /\ pc = "provision"
  /\ pc' = "spawn"
  /\ UNCHANGED <<plan, keep, missing, results, dump, workdir, childVars, faithful, clean>>

Spawn ==
  /\ pc = "spawn"
  /\ pc' = "wait"
  /\ child' = "starting"
  /\ stdin' = TRUE
  /\ stdout' = <<>>
  /\ secret' = IsControl(Scen)
  /\ UNCHANGED <<plan, keep, missing, results, dump, workdir, faithful, clean>>

ProvisionOrSpawnFails ==
  /\ pc \in {"provision", "spawn"}
  /\ Abort
  /\ UNCHANGED <<dump, faithful>>

(* wait_for_ready: lines other than READY are passed over.                  *)
AnyLine(l) == TRUE
IsReady(l) == l = "READY"

ReadLine ==
  /\ pc = "wait"
  /\ stdout # <<>>
  /\ stdout' = Tail(stdout)
  /\ pc' = IF IsReady(Head(stdout)) THEN "dump" ELSE "wait"
  /\ UNCHANGED <<plan, keep, missing, results, dump, workdir, child, stdin, secret,
                 faithful, clean>>

(* The child is gone, or the line is not text.                              *)
ReadFails ==
  /\ pc = "wait"
  /\ stdout = <<>> => child = "exited"
  /\ stdout # <<>> => ~IsReady(Head(stdout))
  /\ Abort
  /\ UNCHANGED <<dump, faithful>>

(* dump_process: all of the child's memory, or nothing of it. A child that  *)
(* died since its READY can still be opened, as `child` holds its handle,   *)
(* but has no memory left. MiniDumpWithFullMemory fails on what it cannot   *)
(* read: a dump that is cut by the child's death is a failed one.           *)
Dump ==
  /\ pc = "dump"
  /\ \E blind \in BOOLEAN :
       /\ child = "exited" => blind
       /\ dump' = Shows(~blind /\ LoadsVault(Scen), ~blind /\ secret)
       /\ faithful' = (faithful /\ ~blind)
  /\ pc' = "release"
  /\ UNCHANGED <<plan, keep, missing, results, workdir, childVars, clean>>

(* OpenProcess or the new file fails, or the dump itself, and then a part   *)
(* of it is left.                                                           *)
DumpFails ==
  /\ pc = "dump"
  /\ \/ dump' = NoDump
     \/ \E s, c \in {FALSE, child # "exited"} :
          dump' = Shows(s /\ LoadsVault(Scen), c /\ secret)
  /\ Abort
  /\ UNCHANGED faithful

(* The child's input is closed before it is waited for.                     *)
HeldOpen == stdin
Released == FALSE

Release ==
  /\ pc = "release"
  /\ stdin' = Released
  /\ pc' = "reap"
  /\ UNCHANGED <<plan, keep, missing, results, dump, workdir, child, stdout, secret,
                 faithful, clean>>

Reap ==
  /\ pc = "reap"
  /\ child = "exited"
  /\ pc' = "scan"
  /\ child' = "none"
  /\ stdout' = <<>>
  /\ UNCHANGED <<plan, keep, missing, results, dump, workdir, stdin, secret, faithful, clean>>

(* Both markers are counted, the sentinel where a vault was loaded. `verify` *)
(* then removes the dump; one asked for by name is what the user wants.     *)
Scan ==
  /\ pc = "scan"
  /\ results' = Append(results,
       [scenario |-> Scen, sentinel |-> dump.sentinel, canary |-> dump.canary])
  /\ dump' = IF keep \/ Single THEN dump ELSE NoDump
  /\ pc' = IF Len(results') = Len(plan) THEN "report" ELSE "provision"
  /\ UNCHANGED <<plan, keep, missing, workdir, childVars, faithful, clean>>

ScanFails ==
  /\ pc = "scan"
  /\ Abort
  /\ UNCHANGED <<dump, faithful>>

PassedUnseen(r) == IF IsControl(r.scenario) THEN r.canary ELSE ~r.canary

Passed(r) ==
  CASE IsControl(r.scenario) -> r.canary
    [] r.scenario = "gui-post-autolock" -> r.sentinel
    [] OTHER -> r.sentinel /\ ~r.canary

Report ==
  /\ pc = "report"
  /\ pc' = IF \A i \in DOMAIN results : Passed(results[i]) THEN "passed" ELSE "failed"
  /\ workdir' = (keep /\ ~Single)
  /\ UNCHANGED <<plan, keep, missing, results, dump, childVars, faithful, clean>>

-----------------------------------------------------------------------------
(* The child                                                                *)

(* It unlocks the vault and gets the secret, or shows it in the window ...  *)
ChildReveals ==
  /\ child = "starting"
  /\ Reveals(Scen)
  /\ child' = "revealed"
  /\ secret' = TRUE
  /\ UNCHANGED <<plan, keep, missing, harnessVars, stdin, stdout, faithful, clean>>

(* ... and drops it, or does not: the toolkit's copy of a shown value is    *)
(* not the program's to wipe, any other copy is a defect.                   *)
ChildDrops ==
  /\ child = "revealed"
  /\ child' = "dropped"
  /\ secret' \in BOOLEAN
  /\ clean' = (clean /\ (secret' => Scen = "gui-post-autolock"))
  /\ UNCHANGED <<plan, keep, missing, harnessVars, stdin, stdout, faithful>>

(* READY is printed when the state to look at is reached.                   *)
ReadyReached == child = "dropped" \/ (child = "starting" /\ ~Reveals(Scen))

ChildReady ==
  /\ ReadyReached
  /\ child' = "holding"
  /\ stdout' = Append(stdout, "READY")
  /\ UNCHANGED <<plan, keep, missing, harnessVars, stdin, secret, faithful, clean>>

ChildPrints ==
  /\ child = "starting"
  /\ Len(stdout) < MaxStray
  /\ stdout' = Append(stdout, "other")
  /\ UNCHANGED <<plan, keep, missing, harnessVars, child, stdin, secret, faithful, clean>>

(* The vault does not load or unlock, the record is not there; or the       *)
(* process is killed, in whatever state it is, also after its READY.        *)
Alive == {"starting", "revealed", "dropped", "holding", "stuck"}

ChildDies ==
  /\ child \in Alive
  /\ child' = "exited"
  /\ secret' = FALSE
  /\ UNCHANGED <<plan, keep, missing, harnessVars, stdin, stdout, faithful, clean>>

ChildStuck ==
  /\ ChildSticks
  /\ child = "starting"
  /\ child' = "stuck"
  /\ UNCHANGED <<plan, keep, missing, harnessVars, stdin, stdout, secret, faithful, clean>>

(* It reads its input and goes when that is closed.                         *)
ChildExits ==
  /\ child = "holding"
  /\ ~stdin
  /\ child' = "exited"
  /\ secret' = FALSE
  /\ UNCHANGED <<plan, keep, missing, harnessVars, stdin, stdout, faithful, clean>>

-----------------------------------------------------------------------------
HarnessStep ==
  \/ Check \/ Provision \/ Spawn \/ ProvisionOrSpawnFails \/ ReadLine \/ ReadFails
  \/ Dump \/ DumpFails \/ Release \/ Reap \/ Scan \/ ScanFails \/ Report

ChildStep == ChildReveals \/ ChildDrops \/ ChildReady \/ ChildExits

HarnessNext == HarnessStep \/ ChildStep \/ ChildPrints \/ ChildStuck \/ ChildDies

(* Both are processes the system schedules, and neither waits for anything  *)
(* but the other.                                                           *)
HarnessSpec ==
  Init /\ [][HarnessNext]_vars /\ WF_vars(HarnessStep) /\ WF_vars(ChildStep)

-----------------------------------------------------------------------------
(* The verdict is worth what it claims. A run that passed has seen into     *)
(* every child it dumped and no secret stayed where it should not; a run    *)
(* that failed without an error met a blind dump or such a secret.          *)
Verdict ==
  /\ pc = "passed" => faithful /\ clean /\ Len(results) = Len(plan)
  /\ pc = "failed" => ~faithful \/ ~clean

(* What is dumped is a child in the state the scenario names: past the      *)
(* point where it drops its secrets, waiting for its input, and not yet     *)
(* told to go. Only one that died after its READY may have left that state, *)
(* and then nothing is taken for it: the dump fails or shows nothing.       *)
DumpsTheHeldState ==
  [][dump' # dump /\ pc = "dump" =>
       /\ stdin
       /\ \/ child = "holding"
          \/ child = "exited" /\ dump' \in {NoDump, Shows(FALSE, FALSE)}]_vars

(* The harness ends and no child outlives it, whatever fails on the way:    *)
(* neither waits for the other for ever. Nothing but a child that never     *)
(* gets to READY holds it up: wait_for_ready has no timeout.                *)
EndsAlone ==
  <>(child = "stuck" \/ (pc \in Ended /\ child \in {"none", "exited"}))

=============================================================================
