----------------------------- MODULE DumpProofs ------------------------------
(***************************************************************************)
(* Proofs about the memory-dump harness, for any plan of scenarios, any    *)
(* number of stray lines, and children that may or may not get stuck, and  *)
(* about its scan of a dump, for every file, every marker, every size of   *)
(* the buffer and every way the reads may come out.                        *)
(***************************************************************************)
EXTENDS DumpHarness, DumpScan, FiniteSetTheorems, TLAPS

(***************************************************************************)
(* The harness. A verdict sums up children that are long gone.  IInv       *)
(* carries what happened to each of them to the report: a READY that was   *)
(* read or waits to be read is of a child that holds, or held until it     *)
(* died (Protocol), what a child that holds has in memory is what its      *)
(* scenario says or a defect (Secrets), the dump of it and the results so  *)
(* far fail if and only if something was wrong (Honest, Telling), and the  *)
(* verdict is of those results (Reported). A defect that dies with its     *)
(* child is not forgotten either: the dump of a dead child is blind.       *)
(***************************************************************************)
Results == [scenario : Scenarios, sentinel : BOOLEAN, canary : BOOLEAN]
Dumped == [kind : {"dump"}, sentinel : BOOLEAN, canary : BOOLEAN]

Lines == {"READY", "other"}

Waiting == {"wait", "dump"}
Showing == {"release", "reap", "scan"}
AtWork == {"check", "provision", "spawn"} \cup Waiting \cup Showing
Childless == {"check", "provision", "spawn", "scan", "report", "passed", "failed"}

Typed ==
  /\ plan \in Seq(Scenarios) /\ results \in Seq(Results)
  /\ stdout \in Seq(Lines)
  /\ secret \in BOOLEAN /\ stdin \in BOOLEAN
  /\ faithful \in BOOLEAN /\ clean \in BOOLEAN
  /\ pc \in AtWork \cup {"report"} \cup Ended
  /\ pc \in Showing => dump \in Dumped

Position ==
  /\ pc \in AtWork => Len(results) < Len(plan)
  /\ pc \in {"report", "passed", "failed"} => Len(results) = Len(plan)

Protocol ==
  /\ pc \in Childless => child = "none"
  /\ pc = "wait" =>
       stdin /\ \A i \in DOMAIN stdout : stdout[i] = "READY" => child \in {"holding", "exited"}
  /\ pc \in {"dump", "release"} => stdin /\ child \in {"holding", "exited"}
  /\ pc = "reap" => child \in {"holding", "exited"}

Secrets ==
  pc \in Waiting =>
    /\ child = "starting" => (secret <=> IsControl(Scen))
    /\ child \in {"revealed", "dropped"} => Reveals(Scen)
    /\ child \in {"dropped", "holding"} =>
         /\ IsControl(Scen) => secret
         /\ secret => IsControl(Scen) \/ Scen = "gui-post-autolock" \/ ~clean

(* The result the present dump is going to give, and the three ways in      *)
(* which a run can be known to have gone wrong.                             *)
Result == [scenario |-> Scen, sentinel |-> dump.sentinel, canary |-> dump.canary]
BadResult == \E i \in DOMAIN results : ~Passed(results[i])
BadDump == pc \in Showing /\ ~Passed(Result)
KeptNow ==
  /\ pc \in Waiting /\ Scen = "post-clip"
  /\ child = "exited" \/ (child \in {"dropped", "holding"} /\ secret)

Honest == BadResult \/ BadDump => ~faithful \/ ~clean

Telling ==
  pc # "error" =>
    /\ ~faithful => BadResult \/ BadDump
    /\ ~clean => BadResult \/ BadDump \/ KeptNow

Reported ==
  /\ pc = "passed" => ~BadResult
  /\ pc = "failed" => BadResult

IInv ==
  /\ Typed /\ Position /\ Protocol /\ Secrets
  /\ Honest /\ Telling /\ Reported

-----------------------------------------------------------------------------
(* A scenario is one thing only, and each is judged in its own way.         *)
LEMMA WhatPasses ==
  ASSUME NEW s, NEW a \in BOOLEAN, NEW c \in BOOLEAN,
         NEW r, r = [scenario |-> s, sentinel |-> a, canary |-> c]
  PROVE  /\ IsControl(s) => (Passed(r) <=> c)
         /\ s = "gui-post-autolock" => (Passed(r) <=> a)
         /\ ~IsControl(s) /\ s # "gui-post-autolock" => (Passed(r) <=> a /\ ~c)
BY DEF Passed, IsControl

(* The harness starts with something to do and nothing done.                *)
LEMMA IInvInit == Init => IInv
<1> SUFFICES ASSUME Init PROVE IInv
  OBVIOUS
<1>1. plan \in Seq(Scenarios) /\ Len(plan) > 0
  <2>1. ALL_SCENARIOS \in Seq(Scenarios) /\ Len(ALL_SCENARIOS) > 0
    BY DEF Scenarios, ALL_SCENARIOS
  <2>2. \A s \in Scenarios : <<s>> \in Seq(Scenarios) /\ Len(<<s>>) = 1
    OBVIOUS
  <2>3. CASE plan = ALL_SCENARIOS
    BY <2>1, <2>3, Zenon
  <2>4. ASSUME NEW s \in Scenarios, plan = <<s>> PROVE plan \in Seq(Scenarios) /\ Len(plan) > 0
    BY <2>2, <2>4
  <2>5. plan \in {ALL_SCENARIOS} \/ \E s \in Scenarios : plan = <<s>>
    BY DEF Init
  <2>6. QED
    BY <2>3, <2>4, <2>5
<1>2. Typed
  <2>1. results \in Seq(Results) /\ stdout \in Seq(Lines)
    BY DEF Init
  <2>2. /\ secret \in BOOLEAN /\ stdin \in BOOLEAN
        /\ faithful \in BOOLEAN /\ clean \in BOOLEAN
    BY DEF Init
  <2>3. pc \in AtWork /\ pc \notin Showing
    BY DEF Init, AtWork, Showing
  <2>4. QED
    BY <1>1, <2>1, <2>2, <2>3 DEF Typed
<1>3. Position
  BY <1>1 DEF Init, Position
<1>4. Protocol /\ Secrets
  BY DEF Init, Protocol, Secrets, Waiting
<1>5. Honest /\ Telling /\ Reported
  BY DEF Init, Honest, Telling, Reported, BadResult, BadDump, Showing
<1>6. QED
  BY <1>2, <1>3, <1>4, <1>5 DEF IInv

-----------------------------------------------------------------------------
(* The steps of the child, and an error, change nothing of plan and results. *)
LEMMA SameScen ==
  ASSUME [HarnessNext]_vars, ~Scan
  PROVE  plan' = plan /\ results' = results /\ Scen' = Scen
<1>1. plan' = plan /\ results' = results
  BY DEF HarnessNext, HarnessStep, ChildStep, Check, Provision, Spawn,
     ProvisionOrSpawnFails, ReadLine, ReadFails, Dump, DumpFails, Release, Reap, ScanFails,
     Report, Abort, ChildReveals, ChildDrops, ChildReady, ChildDies, ChildExits,
     ChildPrints, ChildStuck, harnessVars, childVars, vars
<1>2. QED
  BY <1>1 DEF Scen

(* A line of either kind, printed after others.                             *)
LEMMA LinePrinted ==
  ASSUME NEW s \in Seq(Lines)
  PROVE  Append(s, "READY") \in Seq(Lines) /\ Append(s, "other") \in Seq(Lines)
<1>1. "READY" \in Lines /\ "other" \in Lines
  BY DEF Lines
<1>2. \A l \in Lines : Append(s, l) \in Seq(Lines)
  OBVIOUS
<1>3. QED
  BY <1>1, <1>2

(* What the steps change has its type.                                      *)
LEMMA TypedStep == IInv /\ [HarnessNext]_vars => Typed'
<1> SUFFICES ASSUME IInv, [HarnessNext]_vars PROVE Typed'
  OBVIOUS
<1> USE DEF IInv, Typed, AtWork, Waiting, Showing, Ended
<1>1. CASE Scan
  <2>1. Scen \in Scenarios
    <3>1. Len(results) + 1 \in 1..Len(plan)
      BY <1>1 DEF Position, Scan
    <3>2. QED
      BY <3>1 DEF Scen
  <2>2. dump \in Dumped
    BY <1>1 DEF Scan
  <2>3. [scenario |-> Scen, sentinel |-> dump.sentinel, canary |-> dump.canary] \in Results
    BY <2>1, <2>2 DEF Results, Dumped
  <2>4. results' \in Seq(Results)
    BY <1>1, <2>3 DEF Scan
  <2>5. pc' \notin Showing
    BY <1>1 DEF Scan
  <2>6. QED
    BY <1>1, <2>4, <2>5 DEF Scan, childVars
<1>2. CASE Dump
  BY <1>2 DEF Dump, Shows, Dumped, LoadsVault, childVars
<1>3. CASE ReadLine
  <2>1. stdout' \in Seq(Lines)
    BY <1>3 DEF ReadLine
  <2>2. pc' \notin Showing
    BY <1>3 DEF ReadLine
  <2>3. QED
    BY <1>3, <2>1, <2>2 DEF ReadLine
<1>4. CASE Spawn
  BY <1>4 DEF Spawn, IsControl
<1>5. CASE ProvisionOrSpawnFails \/ ReadFails \/ DumpFails \/ ScanFails
  BY <1>5 DEF ProvisionOrSpawnFails, ReadFails, DumpFails, ScanFails, Abort
<1>6. CASE Check \/ Provision \/ Report
  BY <1>6 DEF Check, Provision, Report, childVars
<1>7. CASE Release \/ Reap
  <2>1. /\ UNCHANGED <<plan, results, secret, faithful, clean, dump>>
        /\ pc \in Showing /\ pc' \in Showing
    BY <1>7 DEF Release, Reap
  <2>2. stdout' \in Seq(Lines) /\ stdin' \in BOOLEAN
    <3>1. CASE Release
      BY <3>1 DEF Release, Released
    <3>2. CASE Reap
      BY <3>2 DEF Reap
    <3>3. QED
      BY <1>7, <3>1, <3>2
  <2>3. QED
    BY <2>1, <2>2
<1>8. CASE ChildReady \/ ChildPrints
  <2>1. stdout' \in Seq(Lines)
    BY <1>8, LinePrinted DEF ChildReady, ChildPrints
  <2>2. QED
    BY <1>8, <2>1 DEF ChildReady, ChildPrints, harnessVars
<1>9. CASE ChildReveals \/ ChildDrops \/ ChildDies \/ ChildExits \/ ChildStuck
  BY <1>9 DEF ChildReveals, ChildDrops, ChildDies, ChildExits, ChildStuck, harnessVars
<1>10. CASE UNCHANGED vars
  BY <1>10 DEF vars, harnessVars, childVars
<1>11. QED
  BY <1>1, <1>2, <1>3, <1>4, <1>5, <1>6, <1>7, <1>8, <1>9, <1>10
     DEF HarnessNext, HarnessStep, ChildStep

(* One result for each scenario, and the report when there are all.         *)
LEMMA PositionStep == IInv /\ [HarnessNext]_vars => Position'
<1> SUFFICES ASSUME IInv, [HarnessNext]_vars PROVE Position'
  OBVIOUS
<1> USE DEF IInv, Typed, Position, AtWork, Waiting, Showing
<1>1. CASE Scan
  <2>1. Len(results') = Len(results) + 1
    BY <1>1 DEF Scan
  <2>2. Len(results) < Len(plan) /\ Len(results) \in Nat /\ Len(plan) \in Nat
    BY <1>1 DEF Scan
  <2>3. QED
    BY <1>1, <2>1, <2>2 DEF Scan
<1>2. CASE ~Scan
  <2>1. plan' = plan /\ results' = results
    BY <1>2, SameScen
  <2>2. /\ pc \in AtWork \/ pc' \notin AtWork
        /\ pc \in {"report", "passed", "failed"} \/ pc' \notin {"report", "passed", "failed"}
    BY <1>2 DEF HarnessNext, HarnessStep, ChildStep, Check, Provision, Spawn,
       ProvisionOrSpawnFails, ReadLine, ReadFails, Dump, DumpFails, Release, Reap,
       ScanFails, Report, Abort, ChildReveals, ChildDrops, ChildReady, ChildDies,
       ChildExits, ChildPrints, ChildStuck, harnessVars, vars
  <2>3. QED
    BY <2>1, <2>2
<1>3. QED
  BY <1>1, <1>2

-----------------------------------------------------------------------------
(* The harness gets past its wait only by a READY, which only a holding     *)
(* child has printed, and a child holds until it dies or its input is       *)
(* closed.                                                                  *)
LEMMA ProtocolStep == IInv /\ [HarnessNext]_vars => Protocol'
<1> SUFFICES ASSUME IInv, [HarnessNext]_vars PROVE Protocol'
  OBVIOUS
<1> USE DEF IInv, Typed, Protocol, Childless
<1>1. CASE Check \/ Provision
  BY <1>1 DEF Check, Provision, childVars
<1>2. CASE Spawn
  BY <1>2 DEF Spawn
<1>3. CASE ReadLine
  <2>1. stdout # <<>> /\ child' = child /\ stdin' = stdin /\ stdout' = Tail(stdout) /\ stdin
    BY <1>3 DEF ReadLine
  <2>2. Head(stdout) = "READY" => child \in {"holding", "exited"}
    BY <1>3, <2>1 DEF ReadLine
  <2>3. \A i \in DOMAIN stdout' : stdout'[i] = "READY" => child \in {"holding", "exited"}
    <3>1. \A i \in DOMAIN stdout' : i + 1 \in DOMAIN stdout /\ stdout'[i] = stdout[i + 1]
      BY <2>1
    <3>2. QED
      BY <1>3, <3>1 DEF ReadLine
  <2>4. QED
    BY <1>3, <2>1, <2>2, <2>3 DEF ReadLine, IsReady
<1>4. CASE ProvisionOrSpawnFails \/ ReadFails \/ DumpFails \/ ScanFails
  BY <1>4 DEF ProvisionOrSpawnFails, ReadFails, DumpFails, ScanFails, Abort
<1>5. CASE Dump \/ Release \/ Reap \/ Scan \/ Report
  BY <1>5 DEF Dump, Release, Reap, Scan, Report, childVars
<1>6. CASE ChildReady
  <2>1. child # "none" /\ child \notin {"holding", "exited"} /\ child' = "holding"
    BY <1>6 DEF ChildReady, ReadyReached
  <2>2. pc' = pc /\ stdin' = stdin
    BY <1>6 DEF ChildReady, harnessVars
  <2>3. QED
    BY <2>1, <2>2
<1>7. CASE ChildPrints
  <2>1. child = "starting" /\ child' = child /\ pc' = pc /\ stdin' = stdin
    BY <1>7 DEF ChildPrints, harnessVars
  <2>2. \A i \in DOMAIN stdout' : stdout'[i] = "READY" =>
          i \in DOMAIN stdout /\ stdout[i] = "READY"
    BY <1>7 DEF ChildPrints
  <2>3. QED
    BY <2>1, <2>2
<1>8. CASE ChildReveals \/ ChildDrops \/ ChildStuck
  BY <1>8 DEF ChildReveals, ChildDrops, ChildStuck, harnessVars
<1>9. CASE ChildDies \/ ChildExits
  <2>1. pc' = pc /\ stdin' = stdin /\ child # "none" /\ child' = "exited"
    BY <1>9 DEF ChildDies, ChildExits, Alive, harnessVars
  <2>2. QED
    BY <2>1
<1>10. CASE UNCHANGED vars
  BY <1>10 DEF vars, harnessVars, childVars
<1>11. QED
  BY <1>1, <1>2, <1>3, <1>4, <1>5, <1>6, <1>7, <1>8, <1>9, <1>10
     DEF HarnessNext, HarnessStep, ChildStep

(* A child that waits or is dumped holds what its scenario says, or it kept *)
(* something it should have dropped.                                        *)
LEMMA SecretsStep == IInv /\ [HarnessNext]_vars => Secrets'
<1> SUFFICES ASSUME IInv, [HarnessNext]_vars, pc' \in Waiting PROVE Secrets'
  BY DEF Secrets
<1> USE DEF IInv, Typed, Secrets, Waiting
<1>1. ~Scan => Scen' = Scen
  BY SameScen
<1>2. CASE Spawn
  <2>1. Scen' = Scen
    BY <1>2, SameScen DEF Spawn, Scan
  <2>2. QED
    BY <1>2, <2>1 DEF Spawn
<1>3. CASE ReadLine
  BY <1>1, <1>3 DEF ReadLine, Scan
<1>4. CASE ChildReveals
  <2>1. pc' = pc /\ child = "starting" /\ child' = "revealed" /\ Reveals(Scen)
    BY <1>4 DEF ChildReveals, harnessVars
  <2>2. Scen' = Scen
    BY <1>4 DEF ChildReveals, harnessVars, Scen
  <2>3. QED
    BY <2>1, <2>2
<1>5. CASE ChildDrops
  <2>1. pc' = pc /\ child = "revealed" /\ child' = "dropped"
    BY <1>5 DEF ChildDrops, harnessVars
  <2>2. Scen' = Scen /\ Reveals(Scen)
    BY <1>5, <2>1 DEF ChildDrops, harnessVars, Scen
  <2>3. secret' => Scen = "gui-post-autolock" \/ ~clean'
    BY <1>5 DEF ChildDrops
  <2>4. ~IsControl(Scen)
    BY <2>2 DEF Reveals, IsControl
  <2>5. QED
    BY <2>1, <2>2, <2>3, <2>4
<1>6. CASE ChildReady
  <2>1. pc' = pc /\ child' = "holding" /\ secret' = secret /\ clean' = clean
    BY <1>6 DEF ChildReady, harnessVars
  <2>2. Scen' = Scen
    BY <1>6 DEF ChildReady, harnessVars, Scen
  <2>3. child = "dropped" \/ child = "starting"
    BY <1>6 DEF ChildReady, ReadyReached
  <2>4. QED
    BY <2>1, <2>2, <2>3
<1>7. CASE ChildPrints \/ ChildDies \/ ChildStuck \/ ChildExits
  <2>1. /\ pc' = pc /\ clean' = clean
        /\ (child' = child /\ secret' = secret) \/ child' \in {"exited", "stuck"}
    BY <1>7 DEF ChildPrints, ChildDies, ChildStuck, ChildExits, harnessVars
  <2>2. Scen' = Scen
    BY <1>7 DEF ChildPrints, ChildDies, ChildStuck, ChildExits, harnessVars, Scen
  <2>3. QED
    BY <2>1, <2>2
<1>8. CASE UNCHANGED vars
  BY <1>8 DEF vars, harnessVars, childVars, Scen
<1>9. ASSUME Check \/ Provision \/ ProvisionOrSpawnFails \/ ReadFails \/ Dump \/ DumpFails
               \/ Release \/ Reap \/ Scan \/ ScanFails \/ Report
      PROVE  FALSE
  BY <1>9 DEF Check, Provision, ProvisionOrSpawnFails, ReadFails, Dump, DumpFails, Release,
     Reap, Scan, ScanFails, Report, Abort
<1>10. QED
  BY <1>2, <1>3, <1>4, <1>5, <1>6, <1>7, <1>8, <1>9 DEF HarnessNext, HarnessStep, ChildStep

-----------------------------------------------------------------------------
(* A dump passes if and only if it is not blind and of a child that dropped *)
(* what it had to drop.                                                     *)
LEMMA DumpTells ==
  ASSUME IInv, Dump
  PROVE  /\ ~faithful' => ~faithful \/ ~Passed(Result)'
         /\ KeptNow => ~Passed(Result)'
         /\ faithful' /\ clean => Passed(Result)'
<1> USE DEF IInv, Typed
<1>1. PICK blind \in BOOLEAN :
        /\ child = "exited" => blind
        /\ dump' = Shows(~blind /\ LoadsVault(Scen), ~blind /\ secret)
        /\ faithful' = (faithful /\ ~blind)
  BY DEF Dump
<1>2. Scen' = Scen
  BY DEF Dump, Scen
<1>3. Result' = [scenario |-> Scen, sentinel |-> ~blind /\ LoadsVault(Scen),
                 canary |-> ~blind /\ secret]
  BY <1>1, <1>2 DEF Result, Shows
<1>4. pc \in Waiting /\ (~blind => child = "holding")
  BY <1>1 DEF Dump, Protocol, Waiting
<1>5. /\ (~blind /\ LoadsVault(Scen)) \in BOOLEAN /\ (~blind /\ secret) \in BOOLEAN
  BY DEF LoadsVault
<1>6. /\ IsControl(Scen) => (Passed(Result') <=> ~blind /\ secret)
      /\ Scen = "gui-post-autolock" => (Passed(Result') <=> ~blind /\ LoadsVault(Scen))
      /\ ~IsControl(Scen) /\ Scen # "gui-post-autolock" =>
           (Passed(Result') <=> (~blind /\ LoadsVault(Scen)) /\ ~(~blind /\ secret))
  BY <1>3, <1>5, WhatPasses
<1>7. blind => ~Passed(Result')
  BY <1>6
<1>8. Passed(Result)' = Passed(Result')
  BY DEF Passed
<1>9. KeptNow /\ ~blind => ~Passed(Result')
  BY <1>1, <1>6 DEF KeptNow, IsControl
<1>10. ~blind /\ clean => Passed(Result')
  BY <1>4, <1>6 DEF Secrets, LoadsVault, IsControl
<1>11. QED
  BY <1>1, <1>7, <1>8, <1>9, <1>10

(* What the results say of the run stays true ...                           *)
LEMMA HonestStep == IInv /\ [HarnessNext]_vars => Honest'
<1> SUFFICES ASSUME IInv, [HarnessNext]_vars PROVE Honest'
  OBVIOUS
<1> USE DEF IInv, Typed
<1>1. CASE Dump
  <2>1. BadResult' <=> BadResult
    BY <1>1 DEF Dump, BadResult
  <2>2. clean' = clean /\ (faithful' => faithful)
    BY <1>1 DEF Dump
  <2>3. QED
    BY <1>1, <2>1, <2>2, DumpTells DEF Honest, BadDump
<1>2. CASE Scan
  <2>1. results' = Append(results, Result) /\ faithful' = faithful /\ clean' = clean
    BY <1>2 DEF Scan, Result
  <2>2. BadResult' => BadResult \/ ~Passed(Result)
    BY <2>1 DEF BadResult
  <2>3. pc \in Showing /\ ~BadDump'
    BY <1>2 DEF Scan, BadDump, Showing
  <2>4. QED
    BY <2>1, <2>2, <2>3 DEF Honest, BadDump
<1>3. CASE ~Dump /\ ~Scan
  <2>1. results' = results /\ faithful' = faithful /\ (clean' => clean)
    <3>1. CASE ChildDrops
      BY <3>1 DEF ChildDrops, harnessVars
    <3>2. CASE ~ChildDrops
      <4>1. results' = results /\ faithful' = faithful /\ clean' = clean
        BY <1>3, <3>2 DEF HarnessNext, HarnessStep, ChildStep, Check, Provision, Spawn,
           ProvisionOrSpawnFails, ReadLine, ReadFails, DumpFails, Release, Reap,
           ScanFails, Report, Abort, ChildReveals, ChildReady, ChildDies, ChildExits,
           ChildPrints, ChildStuck, harnessVars, vars
      <4>2. QED
        BY <4>1
    <3>3. QED
      BY <3>1, <3>2
  <2>2. pc' \in Showing => pc \in Showing /\ dump' = dump
    BY <1>3 DEF HarnessNext, HarnessStep, ChildStep, Check, Provision, Spawn,
       ProvisionOrSpawnFails, ReadLine, ReadFails, DumpFails, Release, Reap, ScanFails,
       Report, Abort, ChildReveals, ChildDrops, ChildReady, ChildDies, ChildExits,
       ChildPrints, ChildStuck, harnessVars, vars, Showing
  <2>3. Scen' = Scen
    BY <1>3, SameScen
  <2>4. BadResult' => BadResult
    BY <2>1 DEF BadResult
  <2>5. BadDump' => BadDump
    BY <2>1, <2>2, <2>3 DEF BadDump, Result, Passed
  <2>6. QED
    BY <2>1, <2>4, <2>5 DEF Honest
<1>4. QED
  BY <1>1, <1>2, <1>3

(* ... and nothing that went wrong is forgotten on the way to the report.   *)
LEMMA TellingStep == IInv /\ [HarnessNext]_vars => Telling'
<1> SUFFICES ASSUME IInv, [HarnessNext]_vars, pc' # "error" PROVE Telling'
  BY DEF Telling
<1> USE DEF IInv, Typed
<1>1. CASE Dump
  <2>1. BadResult' <=> BadResult
    BY <1>1 DEF Dump, BadResult
  <2>2. clean' = clean /\ pc = "dump" /\ pc' \in Showing
    BY <1>1 DEF Dump, Showing
  <2>3. ~BadDump
    BY <2>2 DEF BadDump, Showing
  <2>4. BadDump' <=> ~Passed(Result)'
    BY <2>2 DEF BadDump
  <2>5. QED
    BY <1>1, <2>1, <2>2, <2>3, <2>4, DumpTells DEF Telling
<1>2. CASE Scan
  <2>1. results' = Append(results, Result) /\ faithful' = faithful /\ clean' = clean
    BY <1>2 DEF Scan, Result
  <2>2. pc = "scan"
    BY <1>2 DEF Scan
  <2>3. BadResult => BadResult'
    BY <2>1 DEF BadResult
  <2>4. ~Passed(Result) => BadResult'
    <3>1. Len(results) + 1 \in DOMAIN results' /\ results'[Len(results) + 1] = Result
      BY <2>1
    <3>2. QED
      BY <3>1 DEF BadResult, Passed
  <2>5. ~KeptNow
    BY <2>2 DEF KeptNow, Waiting
  <2>6. QED
    BY <2>1, <2>2, <2>3, <2>4, <2>5 DEF Telling, BadDump
<1>3. CASE ChildDrops
  <2>1. /\ pc' = pc /\ dump' = dump /\ results' = results /\ Scen' = Scen
        /\ faithful' = faithful /\ child = "revealed" /\ child' = "dropped"
    BY <1>3 DEF ChildDrops, harnessVars, Scen
  <2>2. (BadResult' <=> BadResult) /\ (BadDump' <=> BadDump) /\ ~KeptNow
    BY <2>1 DEF BadResult, BadDump, Result, Passed, KeptNow
  <2>3. ~clean' => ~clean \/ KeptNow'
    <3>1. CASE pc \in Waiting
      <4>1. Reveals(Scen)
        BY <2>1, <3>1 DEF Secrets
      <4>2. ~clean' => ~clean \/ (secret' /\ Scen # "gui-post-autolock")
        BY <1>3 DEF ChildDrops
      <4>3. QED
        BY <2>1, <3>1, <4>1, <4>2 DEF KeptNow, Reveals
    <3>2. CASE pc \notin Waiting
      BY <2>1, <3>2 DEF Protocol, Childless, AtWork, Showing, Waiting, Ended
    <3>3. QED
      BY <3>1, <3>2
  <2>4. QED
    BY <2>1, <2>2, <2>3 DEF Telling
<1>4. CASE ~Dump /\ ~Scan /\ ~ChildDrops
  <2>1. /\ results' = results /\ faithful' = faithful /\ clean' = clean
        /\ pc # "error"
        /\ pc \in Showing => pc' \in Showing /\ dump' = dump
    BY <1>4 DEF HarnessNext, HarnessStep, ChildStep, Check, Provision, Spawn,
       ProvisionOrSpawnFails, ReadLine, ReadFails, DumpFails, Release, Reap, ScanFails,
       Report, Abort, ChildReveals, ChildReady, ChildDies, ChildExits, ChildPrints,
       ChildStuck, harnessVars, childVars, vars, Showing
  <2>2. Scen' = Scen
    BY <1>4, SameScen
  <2>3. (BadResult => BadResult') /\ (BadDump => BadDump')
    BY <2>1, <2>2 DEF BadResult, BadDump, Result, Passed
  <2>4. ASSUME KeptNow PROVE KeptNow'
    <3>1. stdin
      BY <2>4 DEF KeptNow, Waiting, Protocol
    <3>2. /\ pc' \in Waiting
          /\ child' = "exited" \/ (child' = child /\ secret' = secret)
             \/ (child = "dropped" /\ child' = "holding" /\ secret' = secret)
      BY <1>4, <2>4, <3>1 DEF KeptNow, Waiting, HarnessNext, HarnessStep, ChildStep, Check,
         Provision, Spawn, ProvisionOrSpawnFails, ReadLine, ReadFails, DumpFails, Release,
         Reap, ScanFails, Report, Abort, ChildReveals, ChildReady, ReadyReached, ChildDies,
         ChildExits, ChildPrints, ChildStuck, harnessVars, childVars, vars
    <3>3. QED
      BY <2>2, <2>4, <3>2 DEF KeptNow
  <2>5. QED
    BY <2>1, <2>3, <2>4 DEF Telling
<1>5. QED
  BY <1>1, <1>2, <1>3, <1>4

(* The report is of all results, and the verdict the last thing to happen.  *)
LEMMA ReportedStep == IInv /\ [HarnessNext]_vars => Reported'
<1> SUFFICES ASSUME IInv, [HarnessNext]_vars, pc' \in {"passed", "failed"} PROVE Reported'
  BY DEF Reported
<1>1. CASE Report
  <2>1. results' = results /\ (pc' = "passed" <=> ~BadResult)
    BY <1>1 DEF Report, BadResult
  <2>2. QED
    BY <2>1 DEF Reported, BadResult
<1>2. CASE ~Report
  <2>1. pc' = pc /\ results' = results
    BY <1>2 DEF HarnessNext, HarnessStep, ChildStep, Check, Provision, Spawn,
       ProvisionOrSpawnFails, ReadLine, ReadFails, Dump, DumpFails, Release, Reap, Scan,
       ScanFails, Abort, ChildReveals, ChildDrops, ChildReady, ChildDies, ChildExits,
       ChildPrints, ChildStuck, harnessVars, childVars, vars
  <2>2. QED
    BY <2>1 DEF IInv, Reported, BadResult
<1>3. QED
  BY <1>1, <1>2

-----------------------------------------------------------------------------
(* So the invariant holds in every state.                                   *)
LEMMA IInvAlways == HarnessSpec => []IInv
<1>1. IInv /\ [HarnessNext]_vars => IInv'
  BY TypedStep, PositionStep, ProtocolStep, SecretsStep, HonestStep, TellingStep,
     ReportedStep
     DEF IInv
<1>2. QED
  BY IInvInit, <1>1, PTL DEF HarnessSpec

(* A run that passed has seen into every child and found none that kept a   *)
(* secret; a run that failed met a blind dump or a kept secret.             *)
THEOREM VerdictIsTrue == HarnessSpec => []Verdict
<1>1. ASSUME IInv PROVE Verdict
  <2>1. ASSUME pc \in {"passed", "failed"}
        PROVE  Len(results) = Len(plan) /\ ~BadDump /\ ~KeptNow
    BY <1>1, <2>1 DEF IInv, Position, BadDump, KeptNow, Showing, Waiting
  <2>2. (pc = "passed" => ~BadResult) /\ (pc = "failed" => BadResult)
    BY <1>1 DEF IInv, Reported
  <2>3. QED
    BY <1>1, <2>1, <2>2 DEF IInv, Honest, Telling, Verdict, Typed
<1>2. QED
  BY <1>1, IInvAlways, PTL

(* Every dump is of a child that holds the state its scenario names and has *)
(* not been told to go; where it died since its READY, nothing is taken for *)
(* that state (dump_process, called between wait_for_ready and the drop of  *)
(* the child's input).                                                      *)
THEOREM HeldStateIsDumped == HarnessSpec => DumpsTheHeldState
<1>1. ASSUME IInv, [HarnessNext]_vars, dump' # dump, pc = "dump"
      PROVE  /\ stdin
             /\ \/ child = "holding"
                \/ child = "exited" /\ dump' \in {NoDump, Shows(FALSE, FALSE)}
  <2>1. stdin /\ child \in {"holding", "exited"}
    BY <1>1 DEF IInv, Protocol
  <2>2. Dump \/ DumpFails
    BY <1>1 DEF HarnessNext, HarnessStep, ChildStep, Check, Provision, Spawn,
       ProvisionOrSpawnFails, ReadLine, ReadFails, Release, Reap, Scan, ScanFails, Report,
       ChildReveals, ChildDrops, ChildReady, ChildDies, ChildExits, ChildPrints,
       ChildStuck, harnessVars, vars
  <2>3. ASSUME Dump, child = "exited" PROVE dump' = Shows(FALSE, FALSE)
    BY <2>3 DEF Dump, Shows
  <2>4. ASSUME DumpFails, child = "exited" PROVE dump' \in {NoDump, Shows(FALSE, FALSE)}
    BY <2>4 DEF DumpFails, Shows
  <2>5. QED
    BY <2>1, <2>2, <2>3, <2>4
<1>2. IInv /\ [HarnessNext]_vars =>
        [dump' # dump /\ pc = "dump" =>
           /\ stdin
           /\ \/ child = "holding"
              \/ child = "exited" /\ dump' \in {NoDump, Shows(FALSE, FALSE)}]_vars
  BY <1>1
<1>3. QED
  BY <1>2, IInvAlways, PTL DEF HarnessSpec, DumpsTheHeldState

-----------------------------------------------------------------------------
(***************************************************************************)
(* The scan. ScanIInv adds to the count where the kept bytes lie: they are *)
(* the last ones read, one less than a marker or all of them. A new piece  *)
(* then holds exactly the occurrences that end in its new bytes (Splits).  *)
(***************************************************************************)
Bounds ==
  /\ size \in Nat /\ length \in Nat \ {0}
  /\ at \in 0 .. size

Keeping ==
  /\ carry = Least(at, length - 1)
  /\ \A j \in 1 .. carry : kept[j] = text[at - carry + j]

ScanIInv == Bounds /\ Keeping /\ CountsEachOnce

Shift(S, d) == {i + d : i \in S}

-----------------------------------------------------------------------------
(* The last d of m places are among the m.                                   *)
LEMMA LastPlaces ==
  ASSUME NEW c \in Nat, NEW n \in Nat, NEW d \in Nat, d <= c + n, NEW j \in Nat \ {0}, j <= d
  PROVE  c + n - d + j \in 1 .. c + n
OBVIOUS

(* Only finitely many places of a piece start an occurrence.                *)
LEMMA OccurrencesFinite ==
  ASSUME NEW n \in Nat, NEW hay
  PROVE  /\ IsFiniteSet(Occurrences(n, hay))
         /\ Cardinality(Occurrences(n, hay)) \in Nat
         /\ Occurrences(n, hay) \subseteq Nat
<1>1. IsFiniteSet(1 .. n)
  BY FS_Interval
<1>2. Occurrences(n, hay) \in SUBSET (1 .. n)
  BY DEF Occurrences
<1>3. IsFiniteSet(Occurrences(n, hay))
  BY <1>1, <1>2, FS_Subset
<1> QED
  BY <1>2, <1>3, FS_CardinalityType

(* Moving a finite set of places along keeps their number.                  *)
LEMMA ShiftCounts ==
  ASSUME NEW S \in SUBSET Nat, IsFiniteSet(S), NEW d \in Nat
  PROVE  IsFiniteSet(Shift(S, d)) /\ Cardinality(Shift(S, d)) = Cardinality(S)
<1> DEFINE f == [i \in S |-> i + d]
           T == Shift(S, d)
<1>1. f \in [S -> T]
  BY DEF Shift
<1>2. \A i, j \in S : f[i] = f[j] => i = j
  OBVIOUS
<1>3. \A t \in T : \E i \in S : f[i] = t
  BY DEF Shift
<1>4. f \in Bijection(S, T)
  BY <1>1, <1>2, <1>3 DEF Bijection, Injection, Surjection, IsInjective
<1>5. ExistsBijection(S, T)
  BY <1>4 DEF ExistsBijection
<1> QED
  BY <1>5, FS_Bijection

(* A read puts into the buffer the bytes that follow the place where the    *)
(* kept ones begin.                                                         *)
LEMMA FilledIsText ==
  ASSUME ScanIInv, NEW n \in Nat \ {0}, n <= size - at
  PROVE  /\ carry \in 0 .. at
         /\ \A j \in 1 .. carry + n : Filled(n)[j] = text[at - carry + j]
<1>1. carry \in 0 .. at
  BY DEF ScanIInv, Bounds, Keeping, Least
<1>2. ASSUME NEW j \in 1 .. carry + n
      PROVE  Filled(n)[j] = text[at - carry + j]
  <2>1. CASE j <= carry
    BY <1>1, <2>1 DEF ScanIInv, Bounds, Keeping, Filled
  <2>2. CASE ~(j <= carry)
    <3>1. Filled(n)[j] = text[at + j - carry]
      BY <1>1, <2>2 DEF Filled
    <3>2. at + j - carry = at - carry + j
      BY <1>1 DEF ScanIInv, Bounds
    <3> QED
      BY <3>1, <3>2
  <2> QED
    BY <2>1, <2>2
<1> QED
  BY <1>1, <1>2

(* The occurrences in what is read after it are those in what was read      *)
(* before and, none of them among these, those in the buffer.               *)
LEMMA Splits ==
  ASSUME ScanIInv, NEW n \in Nat \ {0}, n <= size - at
  PROVE  LET old == Occurrences(at, text)
             new == Shift(Occurrences(carry + n, Filled(n)), at - carry)
         IN  Occurrences(at + n, text) = old \cup new /\ old \cap new = {}
<1> DEFINE old == Occurrences(at, text)
           piece == Occurrences(carry + n, Filled(n))
           new == Shift(piece, at - carry)
           all == Occurrences(at + n, text)
<1>1. /\ carry \in 0 .. at
      /\ \A j \in 1 .. carry + n : Filled(n)[j] = text[at - carry + j]
  BY FilledIsText
<1>2. /\ at \in Nat /\ length \in Nat \ {0} /\ carry = Least(at, length - 1)
  BY DEF ScanIInv, Bounds, Keeping
<1>3. ASSUME NEW i \in 1 .. carry + n, i + length <= carry + n + 1
      PROVE  \A k \in 1 .. length :
               Filled(n)[i + k - 1] = text[(i + (at - carry)) + k - 1]
  <2>1. TAKE k \in 1 .. length
  <2>2. i + k - 1 \in 1 .. carry + n
    BY <1>1, <1>2, <1>3
  <2>3. Filled(n)[i + k - 1] = text[at - carry + (i + k - 1)]
    BY <1>1, <2>2
  <2>4. at - carry + (i + k - 1) = (i + (at - carry)) + k - 1
    BY <1>1, <1>2
  <2> QED
    BY <2>3, <2>4
<1>4. old \subseteq all
  BY <1>2 DEF Occurrences
<1>5. new \subseteq all
  <2>1. SUFFICES ASSUME NEW i \in piece
                 PROVE  i + (at - carry) \in all
    BY DEF Shift
  <2>2. /\ i \in 1 .. carry + n /\ i + length <= carry + n + 1
        /\ \A k \in 1 .. length : Filled(n)[i + k - 1] = needle[k]
    BY DEF Occurrences
  <2>3. \A k \in 1 .. length : text[(i + (at - carry)) + k - 1] = needle[k]
    BY <1>3, <2>2
  <2>4. /\ i + (at - carry) \in 1 .. at + n
        /\ (i + (at - carry)) + length <= at + n + 1
    BY <1>1, <1>2, <2>2
  <2> QED
    BY <2>3, <2>4 DEF Occurrences
<1>6. all \subseteq old \cup new
  <2>1. SUFFICES ASSUME NEW s \in all, s \notin old
                 PROVE  s \in new
    OBVIOUS
  <2>2. /\ s \in 1 .. at + n /\ s + length <= at + n + 1
        /\ \A k \in 1 .. length : text[s + k - 1] = needle[k]
    BY <2>1 DEF Occurrences
  <2>3. s + length > at + 1
    BY <2>1, <2>2, <1>2 DEF Occurrences
  <2> DEFINE i == s - (at - carry)
  <2>4. i \in 1 .. carry + n /\ i + length <= carry + n + 1
    BY <1>1, <1>2, <2>2, <2>3 DEF Least
  <2>5. i + (at - carry) = s
    BY <1>1, <1>2, <2>2
  <2> HIDE DEF i
  <2>6. \A k \in 1 .. length : Filled(n)[i + k - 1] = needle[k]
    BY <1>3, <2>2, <2>4, <2>5
  <2>7. i \in piece
    BY <2>4, <2>6 DEF Occurrences
  <2> QED
    BY <2>5, <2>7 DEF Shift
<1>7. old \cap new = {}
  <2>1. SUFFICES ASSUME NEW i \in piece, i + (at - carry) \in old
                 PROVE  FALSE
    BY DEF Shift
  <2>2. i \in Nat \ {0} /\ i + (at - carry) + length <= at + 1
    BY <1>1, <1>2, <2>1 DEF Occurrences
  <2> QED
    BY <1>1, <1>2, <2>2 DEF Least
<1> QED
  BY <1>4, <1>5, <1>6, <1>7

(* A read adds as many occurrences as its piece holds.                      *)
LEMMA ReadCounts ==
  ASSUME ScanIInv, NEW n \in Nat \ {0}, n <= size - at
  PROVE  Cardinality(Occurrences(at + n, text)) =
           count + Cardinality(Occurrences(carry + n, Filled(n)))
<1> DEFINE old == Occurrences(at, text)
           piece == Occurrences(carry + n, Filled(n))
           new == Shift(piece, at - carry)
<1>1. carry \in 0 .. at /\ at \in Nat
  BY FilledIsText DEF ScanIInv, Bounds
<1>2. IsFiniteSet(old) /\ Cardinality(old) \in Nat
  BY <1>1, OccurrencesFinite
<1>3. IsFiniteSet(piece) /\ Cardinality(piece) \in Nat /\ piece \in SUBSET Nat
  BY <1>1, OccurrencesFinite
<1>4. at - carry \in Nat
  BY <1>1
<1>5. IsFiniteSet(new) /\ Cardinality(new) = Cardinality(piece)
  <2> HIDE DEF piece
  <2> QED
    BY <1>3, <1>4, ShiftCounts
<1>6. Occurrences(at + n, text) = old \cup new /\ old \cap new = {}
  BY Splits
<1>7. Cardinality(old \cup new) = Cardinality(old) + Cardinality(new)
  <2> HIDE DEF old, new
  <2>1. Cardinality(old \cup new) =
          Cardinality(old) + Cardinality(new) - Cardinality(old \cap new)
    BY <1>2, <1>5, FS_Union
  <2>2. Cardinality(old \cap new) = 0
    BY <1>6, FS_EmptySet
  <2> QED
    BY <1>2, <1>3, <1>5, <2>1, <2>2
<1>8. count = Cardinality(old)
  BY DEF ScanIInv, CountsEachOnce
<1> QED
  BY <1>5, <1>6, <1>7, <1>8

-----------------------------------------------------------------------------
LEMMA ScanInitInv == ScanInit => ScanIInv
<1> SUFFICES ASSUME ScanInit PROVE ScanIInv
  OBVIOUS
<1>1. Bounds
  BY ScanAssumption DEF ScanInit, Bounds
<1>2. Keeping
  BY <1>1 DEF ScanInit, Keeping, Bounds, Least
<1>3. CountsEachOnce
  <2>1. Occurrences(0, text) = {}
    BY DEF Occurrences
  <2> QED
    BY <2>1, FS_EmptySet DEF ScanInit, CountsEachOnce
<1> QED
  BY <1>1, <1>2, <1>3 DEF ScanIInv

LEMMA ReadInv ==
  ASSUME ScanIInv, NEW n \in Nat \ {0}, Read(n)
  PROVE  ScanIInv'
<1>1. /\ n <= size - at /\ at' = at + n
      /\ count' = count + Cardinality(Occurrences(carry + n, Filled(n)))
      /\ carry' = Least(carry + n, length - 1)
      /\ kept' = [j \in 1 .. carry' |-> Filled(n)[carry + n - carry' + j]]
      /\ size' = size /\ text' = text /\ length' = length /\ needle' = needle
  BY DEF Read, Overlap
<1>2. /\ size \in Nat /\ length \in Nat \ {0} /\ at \in 0 .. size
      /\ carry = Least(at, length - 1)
  BY DEF ScanIInv, Bounds, Keeping
<1>3. /\ carry \in 0 .. at
      /\ \A j \in 1 .. carry + n : Filled(n)[j] = text[at - carry + j]
  BY <1>1, FilledIsText
<1>4. Bounds'
  BY <1>1, <1>2 DEF Bounds
<1>5. Keeping'
  <2>1. carry' = Least(at', length' - 1)
    BY <1>1, <1>2, <1>3 DEF Least
  <2>2. carry' \in 0 .. carry + n
    BY <1>1, <1>2, <1>3 DEF Least
  <2>3. ASSUME NEW j \in 1 .. carry'
        PROVE  kept'[j] = text'[at' - carry' + j]
    <3>0. /\ at \in Nat /\ carry \in Nat /\ carry' \in Nat
          /\ carry' <= carry + n /\ at' = at + n /\ j \in Nat \ {0} /\ j <= carry'
          /\ n \in Nat
      BY <1>1, <1>2, <1>3, <2>2
    <3>1. carry + n - carry' + j \in 1 .. carry + n
      BY <3>0, LastPlaces
    <3>2. kept'[j] = Filled(n)[carry + n - carry' + j]
      BY <1>1
    <3>3. Filled(n)[carry + n - carry' + j] = text[at - carry + (carry + n - carry' + j)]
      BY <1>3, <3>1
    <3>4. at - carry + (carry + n - carry' + j) = at' - carry' + j
      BY <3>0
    <3> QED
      BY <1>1, <3>2, <3>3, <3>4
  <2> QED
    BY <2>1, <2>3 DEF Keeping
<1>6. CountsEachOnce'
  <2>1. Occurrences(at, text)' = Occurrences(at + n, text)
    BY <1>1 DEF Occurrences
  <2> QED
    BY <1>1, <2>1, ReadCounts DEF CountsEachOnce
<1> QED
  BY <1>4, <1>5, <1>6 DEF ScanIInv

(* The count of a scan is at every moment the number of occurrences in the  *)
(* bytes read so far (count_needle_in_file), whatever the pieces were.      *)
THEOREM ScanCounts == ScanSpec => []CountsEachOnce
<1>1. ScanInit => ScanIInv
  BY ScanInitInv
<1>2. ScanIInv /\ [ScanNext]_scanVars => ScanIInv'
  <2> SUFFICES ASSUME ScanIInv, [ScanNext]_scanVars PROVE ScanIInv'
    OBVIOUS
  <2>1. CASE ScanNext
    <3>1. PICK n \in 1 .. size : Read(n)
      BY <2>1 DEF ScanNext
    <3>2. n \in Nat \ {0}
      BY DEF ScanIInv, Bounds
    <3> QED
      BY <3>1, <3>2, ReadInv
  <2>2. CASE UNCHANGED scanVars
    BY <2>2 DEF scanVars, ScanIInv, Bounds, Keeping, CountsEachOnce, Occurrences
  <2> QED
    BY <2>1, <2>2
<1>3. ScanIInv => CountsEachOnce
  BY DEF ScanIInv
<1> QED
  BY <1>1, <1>2, <1>3, PTL DEF ScanSpec

=============================================================================
