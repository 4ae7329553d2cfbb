------------------------------- MODULE MCParts -------------------------------
(* Small instances of the parts that stand alone: the harness of the memory *)
(* dumps, the scan of one dump, the thread of the watcher, and the settings *)
(* of the desktop program. They share no state: a behaviour is one of one   *)
(* of the four, and the others are idle.                                    *)
EXTENDS DumpHarness, DumpScan, Watcher, VaultPrefs

Minute == <<"6", "0">>
FiveMinutes == <<"3", "0", "0">>
HalfHour == <<"1", "8", "0", "0">>
Presets == {Minute, HalfHour}

VaultPaths == {<<"c", "a">>}

NothingToScan ==
  /\ size = 0 /\ text = <<>> /\ length = 1 /\ needle = <<CHOOSE b \in Byte : TRUE>>
  /\ at = 0 /\ carry = 0 /\ kept = <<>> /\ count = 0

HarnessOver ==
  /\ plan = ALL_SCENARIOS /\ keep = FALSE /\ missing = {}
  /\ pc = "error" /\ results = <<>> /\ dump = NoDump /\ workdir = FALSE
  /\ child = "none" /\ stdin = FALSE /\ stdout = <<>> /\ secret = FALSE
  /\ faithful = TRUE /\ clean = TRUE

PartsInit ==
  \/ Init /\ NothingToScan /\ WatcherIdle /\ PrefsIdle
  \/ HarnessOver /\ ScanInit /\ WatcherIdle /\ PrefsIdle
  \/ HarnessOver /\ NothingToScan /\ WatcherInit /\ PrefsIdle
  \/ HarnessOver /\ NothingToScan /\ WatcherIdle /\ PrefsInit

PartsNext ==
  \/ HarnessNext /\ UNCHANGED <<scanVars, watcherThreadVars, prefsVars>>
  \/ ScanNext /\ UNCHANGED <<vars, watcherThreadVars, prefsVars>>
  \/ main # "none" /\ WatcherNext /\ UNCHANGED <<vars, scanVars, prefsVars>>
  \/ program # "none" /\ PrefsNext /\ UNCHANGED <<vars, scanVars, watcherThreadVars>>

PartsSpec ==
  /\ PartsInit /\ [][PartsNext]_<<vars, scanVars, watcherThreadVars, prefsVars>>
  /\ WF_vars(HarnessStep) /\ WF_vars(ChildStep)
  /\ WatcherFair

=============================================================================
