---------------------------- MODULE SecretStore -----------------------------
(***************************************************************************)
(* What a vault promises the processes that share it, with no file, no     *)
(* fingerprint and no failure in sight: one map from names to values.      *)
(* Sessions edit it in private and store their edits in one step, on top   *)
(* of whatever the map holds at that moment.                               *)
(***************************************************************************)
CONSTANTS
  Processes, Names, Values,
  NoValue,     \* "no record of this name"
  Untouched,   \* "not edited by this session"
  NoVault      \* there is no vault yet

VARIABLES
  contents,    \* the map, or NoVault
  pending      \* each session's edits that are not stored yet

storeVars == <<contents, pending>>

NoEdits == [n \in Names |-> Untouched]
Apply(d, r) == [n \in Names |-> IF d[n] = Untouched THEN r[n] ELSE d[n]]

Init ==
  /\ contents = NoVault
  /\ pending = [p \in Processes |-> NoEdits]

Create ==
  /\ contents = NoVault
  /\ contents' = [n \in Names |-> NoValue]
  /\ UNCHANGED pending

Edit(p, n, v) ==
  /\ pending' = [pending EXCEPT ![p][n] = v]
  /\ UNCHANGED contents

Commit(p) ==
  /\ contents # NoVault
  /\ contents' = Apply(pending[p], contents)
  /\ pending' = [pending EXCEPT ![p] = NoEdits]

(* The vault was taken away while the session had it open: it is stored anew *)
(* from what the session holds, its own edits among it.                     *)
Restore(p) ==
  /\ contents = NoVault
  /\ contents' \in [Names -> Values \cup {NoValue}]
  /\ \A n \in Names : pending[p][n] # Untouched => contents'[n] = pending[p][n]
  /\ pending' = [pending EXCEPT ![p] = NoEdits]

(* A session locks, ends or crashes: its edits that were not stored go.     *)
Discard(p) ==
  /\ pending' = [pending EXCEPT ![p] = NoEdits]
  /\ UNCHANGED contents

Next ==
  \/ Create
  \/ \E p \in Processes :
       \/ \E n \in Names, v \in Values \cup {NoValue} : Edit(p, n, v)
       \/ Commit(p)
       \/ Restore(p)
       \/ Discard(p)

Spec == Init /\ [][Next]_storeVars

=============================================================================
