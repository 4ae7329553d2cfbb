--------------------------- MODULE DesktopProofs ----------------------------
(***************************************************************************)
(* Theorems about the two parts beside the desktop program's session.      *)
(*                                                                         *)
(* The watcher's thread never leaves a dangling pointer in its window, and *)
(* takes the system for idle rightly, for every timeout and every width of *)
(* the clock. For the pointer the invariant says what is there at each     *)
(* step of `run` (Located); no message moves the thread past a step. For   *)
(* the clock it says how a difference of two ticks stands to the time that *)
(* went by: it is never more, and the same until the clock has gone round  *)
(* once.                                                                   *)
(*                                                                         *)
(* The settings are read as they were written, or as a cut leaves them:    *)
(* never with a timer that is off by mistake, nor one of zero. The         *)
(* invariant says of the file what a program that starts would make of it  *)
(* (FileSays). A fold over the lines is taken apart line by line.          *)
(***************************************************************************)
EXTENDS Watcher, VaultPrefs, WellFoundedInduction, TLAPS

Running == {"notify", "timer", "hand", "pump", "first", "second", "kill", "unregister", "clear"}

Located ==
  /\ step \in {"class", "window"} => window = "none" /\ box = "none" /\ ~slot
  /\ step = "state" => window = "alive" /\ box = "none" /\ ~slot
  /\ step \in Running => window = "alive" /\ box = "alive" /\ slot
  /\ step = "drop" => window = "alive" /\ box = "alive" /\ ~slot /\ raw
  /\ step = "destroy" => window = "alive" /\ box = "freed" /\ ~slot
  /\ step = "ended" => window = "destroyed" /\ box = "freed" /\ ~slot
  /\ step = "panicked" => (slot => window = "alive" /\ box = "alive")

Released ==
  /\ step \in {"unregister", "clear", "drop", "destroy", "ended"} => timer = FALSE
  /\ step \in {"clear", "drop", "destroy", "ended"} => notify = FALSE

Steps == {"class", "window", "state", "drop", "destroy", "ended", "panicked"} \cup Running

LifeInv == step \in Steps /\ Located /\ Released

Ticks == 0 .. Wrap - 1

(* A difference of ticks, and the time it is of.                            *)
Tells(d, time) == d <= time /\ (time < Wrap => d = time)

ClockInv ==
  /\ now \in Ticks /\ input \in Ticks /\ read \in Ticks
  /\ quiet \in 0 .. MaxIdleTicks /\ measured \in 0 .. MaxIdleTicks
  /\ Tells(WrappingSub(now, input), quiet)
  /\ step = "second" => Tells(WrappingSub(now, read), measured)

-----------------------------------------------------------------------------
(* The steps of `run`                                                       *)

LEMMA LifeInit == WatcherInit => LifeInv
BY DEF WatcherInit, LifeInv, Located, Released, Steps, Running

LEMMA SetUpLife == LifeInv /\ (SetUp \/ Panic) => LifeInv'
<1> SUFFICES ASSUME LifeInv, SetUp \/ Panic PROVE LifeInv'
  OBVIOUS
<1> USE DEF LifeInv, Located, Released, Steps, Running, Step, lifeVarsButStep
<1>1. CASE RegisterClass
  BY <1>1 DEF RegisterClass
<1>2. CASE CreateWindow
  BY <1>2 DEF CreateWindow
<1>3. CASE StashState
  BY <1>3 DEF StashState
<1>4. CASE RegisterNotification
  BY <1>4 DEF RegisterNotification
<1>5. CASE SetTimer
  BY <1>5 DEF SetTimer
<1>6. CASE HandOver
  BY <1>6 DEF HandOver
<1>7. CASE Panic
  BY <1>7 DEF Panic
<1> QED
  BY <1>1, <1>2, <1>3, <1>4, <1>5, <1>6, <1>7 DEF SetUp

(* A message may only move the pump, and closing leaves the window.         *)
LEMMA PumpLife == LifeInv /\ Pump => LifeInv'
<1> SUFFICES ASSUME LifeInv, Pump PROVE LifeInv'
  OBVIOUS
<1> USE DEF LifeInv, Located, Released, Steps, Running, Step, lifeVarsButStep
<1>1. CASE Handle
  <2>1. step = "pump" /\ step' \in {"pump", "first"}
    BY <1>1 DEF Handle, HandleClose, OnlyQuits
  <2>2. UNCHANGED <<window, slot, raw, box, notify, timer>>
    BY <1>1 DEF Handle, HandleClose, OnlyQuits
  <2> QED
    BY <2>1, <2>2
<1>2. CASE ReadInput
  BY <1>2 DEF ReadInput
<1>3. CASE LookFails
  BY <1>3 DEF LookFails
<1>4. CASE Decide
  BY <1>4 DEF Decide
<1>5. CASE Quit
  BY <1>5 DEF Quit
<1> QED
  BY <1>1, <1>2, <1>3, <1>4, <1>5 DEF Pump

LEMMA TakeDownLife == LifeInv /\ TakeDown => LifeInv'
<1> SUFFICES ASSUME LifeInv, TakeDown PROVE LifeInv'
  OBVIOUS
<1> USE DEF LifeInv, Located, Released, Steps, Running, Step
<1>1. CASE KillTimer
  BY <1>1 DEF KillTimer
<1>2. CASE UnregisterNotification
  BY <1>2 DEF UnregisterNotification
<1>3. CASE ClearSlot
  BY <1>3 DEF ClearSlot, ClearedSlot
<1>4. CASE DropState
  BY <1>4 DEF DropState
<1>5. CASE DestroyWindow
  BY <1>5 DEF DestroyWindow
<1> QED
  BY <1>1, <1>2, <1>3, <1>4, <1>5 DEF TakeDown

LEMMA OthersLife ==
  LifeInv /\ (MainThread \/ SystemMessage \/ TimePasses \/ UserInput) => LifeInv'
<1> SUFFICES ASSUME LifeInv, MainThread \/ SystemMessage \/ TimePasses \/ UserInput
             PROVE  LifeInv'
  OBVIOUS
<1>1. UNCHANGED <<step, window, slot, raw, box, notify, timer>>
  BY DEF MainThread, Spawned, Stop, Join, SystemMessage, Post, TimePasses, UserInput,
         lifeVars, lifeVarsButStep
<1> QED
  BY <1>1 DEF LifeInv, Located, Released

LEMMA LifeStep == LifeInv /\ [WatcherNext]_watcherThreadVars => LifeInv'
<1> SUFFICES ASSUME LifeInv, [WatcherNext]_watcherThreadVars PROVE LifeInv'
  OBVIOUS
<1>1. CASE WatcherNext
  BY <1>1, SetUpLife, PumpLife, TakeDownLife, OthersLife DEF WatcherNext
<1>2. CASE UNCHANGED watcherThreadVars
  BY <1>2 DEF watcherThreadVars, lifeVars, lifeVarsButStep, LifeInv, Located, Released
<1> QED
  BY <1>1, <1>2

(* Whatever comes when, the window procedure finds the state or no pointer, *)
(* and the thread ends with everything taken down.                          *)
THEOREM PointerIsGood == WatcherSpec => []StateOutlivesMessages
<1>1. LifeInv => StateOutlivesMessages
  BY DEF LifeInv, Located, Released, Steps, Running, StateOutlivesMessages
<1> QED
  BY LifeInit, LifeStep, <1>1, PTL DEF WatcherSpec

-----------------------------------------------------------------------------
(* The clock                                                                *)

LEMMA Remainder ==
  ASSUME NEW n \in Nat, n < 2 * Wrap
  PROVE  n % Wrap = IF n < Wrap THEN n ELSE n - Wrap
BY WatcherAssumption

LEMMA SubValue ==
  ASSUME NEW a \in Ticks, NEW b \in Ticks
  PROVE  WrappingSub(a, b) = IF a >= b THEN a - b ELSE a + Wrap - b
<1>1. a + Wrap - b \in Nat /\ a + Wrap - b < 2 * Wrap
  BY WatcherAssumption DEF Ticks
<1> QED
  BY <1>1, Remainder, WatcherAssumption DEF Ticks, WrappingSub

(* A tick of the clock adds one to a difference, or takes it back to zero.  *)
LEMMA SubTick ==
  ASSUME NEW a \in Ticks, NEW b \in Ticks
  PROVE  /\ (a + 1) % Wrap \in Ticks
         /\ WrappingSub((a + 1) % Wrap, b)
              = IF WrappingSub(a, b) = Wrap - 1 THEN 0 ELSE WrappingSub(a, b) + 1
<1>1. (a + 1) % Wrap = IF a = Wrap - 1 THEN 0 ELSE a + 1
  BY Remainder, WatcherAssumption DEF Ticks
<1>2. (a + 1) % Wrap \in Ticks
  BY <1>1, WatcherAssumption DEF Ticks
<1>3. WrappingSub(a, b) = IF a >= b THEN a - b ELSE a + Wrap - b
  BY SubValue
<1>4. CASE a = Wrap - 1
  <2>1. (a + 1) % Wrap = 0 /\ 0 \in Ticks
    BY <1>1, <1>4, WatcherAssumption DEF Ticks
  <2>2. WrappingSub(0, b) = IF b = 0 THEN 0 ELSE Wrap - b
    BY <2>1, SubValue, WatcherAssumption DEF Ticks
  <2>3. WrappingSub(a, b) = Wrap - 1 - b
    BY <1>3, <1>4, WatcherAssumption DEF Ticks
  <2>4. b \in Nat /\ Wrap \in Nat
    BY WatcherAssumption DEF Ticks
  <2>5. WrappingSub(0, b) = IF WrappingSub(a, b) = Wrap - 1 THEN 0 ELSE WrappingSub(a, b) + 1
    BY <2>2, <2>3, <2>4
  <2> QED
    BY <1>2, <2>1, <2>5
<1>5. CASE a # Wrap - 1
  <2>1. (a + 1) % Wrap = a + 1 /\ a + 1 \in Ticks
    BY <1>1, <1>5, WatcherAssumption DEF Ticks
  <2>2. WrappingSub(a + 1, b) = IF a + 1 >= b THEN a + 1 - b ELSE a + 1 + Wrap - b
    BY <2>1, SubValue, WatcherAssumption DEF Ticks
  <2>3. a \in Nat /\ b \in Nat /\ Wrap \in Nat /\ a + 1 < Wrap /\ b < Wrap
    BY <2>1, WatcherAssumption DEF Ticks
  <2>4. WrappingSub(a + 1, b)
          = IF WrappingSub(a, b) = Wrap - 1 THEN 0 ELSE WrappingSub(a, b) + 1
    BY <1>3, <2>2, <2>3
  <2> QED
    BY <1>2, <2>1, <2>4
<1> QED
  BY <1>4, <1>5

LEMMA TellsOn ==
  ASSUME NEW a \in Ticks, NEW b \in Ticks, NEW time \in 0 .. MaxIdleTicks,
         Tells(WrappingSub(a, b), time)
  PROVE  /\ Counted(time) \in 0 .. MaxIdleTicks
         /\ Tells(WrappingSub((a + 1) % Wrap, b), Counted(time))
<1>1. WrappingSub(a, b) \in Ticks
  BY SubValue, WatcherAssumption DEF Ticks
<1> QED
  BY <1>1, SubTick, WatcherAssumption DEF Ticks, Tells, Counted

LEMMA ClockInit == WatcherInit => ClockInv
<1> SUFFICES ASSUME WatcherInit PROVE ClockInv
  OBVIOUS
<1>1. now \in Ticks /\ input = now /\ read = 0 /\ 0 \in Ticks
  BY WatcherAssumption DEF WatcherInit, Ticks
<1>2. WrappingSub(now, input) = 0
  BY <1>1, SubValue DEF Ticks
<1> QED
  BY <1>1, <1>2, WatcherAssumption DEF WatcherInit, ClockInv, Tells

LEMMA TimePassesClock == ClockInv /\ TimePasses => ClockInv'
<1> SUFFICES ASSUME ClockInv, TimePasses PROVE ClockInv'
  OBVIOUS
<1>1. now' = (now + 1) % Wrap /\ now' \in Ticks
  BY SubTick DEF ClockInv, TimePasses
<1>2. quiet' \in 0 .. MaxIdleTicks /\ Tells(WrappingSub(now', input), quiet')
  BY <1>1, TellsOn DEF ClockInv, TimePasses, Counted
<1>3. CASE step = "second"
  <2>1. measured' = Counted(measured)
    BY <1>3 DEF TimePasses, Counted
  <2>2. measured' \in 0 .. MaxIdleTicks /\ Tells(WrappingSub(now', read), measured')
    BY <1>1, <1>3, <2>1, TellsOn DEF ClockInv
  <2> QED
    BY <1>1, <1>2, <2>2 DEF TimePasses, ClockInv, lifeVars
<1>4. CASE step # "second"
  BY <1>1, <1>2, <1>4, WatcherAssumption DEF TimePasses, ClockInv, lifeVars
<1> QED
  BY <1>3, <1>4

LEMMA UserInputClock == ClockInv /\ UserInput => ClockInv'
<1> SUFFICES ASSUME ClockInv, UserInput PROVE ClockInv'
  OBVIOUS
<1>1. WrappingSub(now, now) = 0
  BY SubValue DEF ClockInv, Ticks
<1> QED
  BY <1>1, WatcherAssumption DEF ClockInv, UserInput, lifeVars, Tells

LEMMA ReadsClock == ClockInv /\ (ReadInput \/ Decide) => ClockInv'
<1> SUFFICES ASSUME ClockInv, ReadInput \/ Decide PROVE ClockInv'
  OBVIOUS
<1>1. CASE ReadInput
  BY <1>1 DEF ReadInput, ClockInv, WrappingSub
<1>2. CASE Decide
  BY <1>2, WatcherAssumption DEF Decide, Step, ClockInv, Ticks, WrappingSub
<1> QED
  BY <1>1, <1>2

(* All other steps leave the clock alone, and come to no look at it.        *)
LEMMA OtherClock ==
  ClockInv /\ UNCHANGED clockVars /\ (step' = "second" => step = "second") => ClockInv'
BY DEF ClockInv, clockVars, WrappingSub

LEMMA ClockStep == ClockInv /\ [WatcherNext]_watcherThreadVars => ClockInv'
<1> SUFFICES ASSUME ClockInv, [WatcherNext]_watcherThreadVars PROVE ClockInv'
  OBVIOUS
<1>1. CASE TimePasses \/ UserInput \/ ReadInput \/ Decide
  BY <1>1, TimePassesClock, UserInputClock, ReadsClock
<1>2. CASE SetUp \/ Panic \/ TakeDown
  BY <1>2, OtherClock
     DEF SetUp, Panic, TakeDown, Step, RegisterClass, CreateWindow, StashState,
         RegisterNotification, SetTimer, HandOver, KillTimer, UnregisterNotification,
         ClearSlot, DropState, DestroyWindow
<1>3. CASE Handle \/ LookFails \/ Quit
  BY <1>3, OtherClock DEF Handle, LookFails, Quit, Step, HandleClose, OnlyQuits
<1>4. CASE MainThread \/ SystemMessage
  BY <1>4, OtherClock
     DEF MainThread, Spawned, Stop, Join, SystemMessage, Post, lifeVars
<1>5. CASE UNCHANGED watcherThreadVars
  BY <1>5, OtherClock DEF watcherThreadVars, lifeVars
<1> QED
  BY <1>1, <1>2, <1>3, <1>4, <1>5 DEF WatcherNext, Pump

(* Only a tick's second look ends it, and then the latch says the truth.    *)
LEMMA LatchIsTrue ==
  ASSUME ClockInv, [WatcherNext]_watcherThreadVars, step = "second", step' = "pump"
  PROVE  /\ latch' => measured >= TimeoutTicks
         /\ measured \in TimeoutTicks .. Wrap - 1 => latch'
<1>1. Decide
  BY DEF watcherThreadVars, lifeVars, WatcherNext, SetUp, Panic, Pump, TakeDown, MainThread,
         Step, RegisterClass, CreateWindow, StashState, RegisterNotification, SetTimer,
         HandOver, Handle, ReadInput, LookFails, Quit, KillTimer, UnregisterNotification,
         ClearSlot, DropState, DestroyWindow, Spawned, Stop, Join, SystemMessage, Post,
         TimePasses, UserInput
<1>2. latch' = (WrappingSub(now, read) >= TimeoutTicks)
  BY <1>1 DEF Decide
<1>3. Tells(WrappingSub(now, read), measured)
  BY DEF ClockInv
<1>4. WrappingSub(now, read) \in Nat
  BY SubValue, WatcherAssumption DEF ClockInv, Ticks
<1>5. WrappingSub(now, read) >= TimeoutTicks => measured >= TimeoutTicks
  BY <1>3, <1>4, WatcherAssumption DEF Tells, ClockInv
<1>6. measured \in TimeoutTicks .. Wrap - 1 => WrappingSub(now, read) >= TimeoutTicks
  BY <1>3, <1>4, WatcherAssumption DEF Tells, ClockInv
<1> QED
  BY <1>2, <1>5, <1>6

(* The idle latch follows the true idle time, whatever the clock reads and  *)
(* whatever happens between the two looks.                                  *)
THEOREM IdleTimeIsTrue == WatcherSpec => IdleIsTrue
<1>1. ClockInv /\ [WatcherNext]_watcherThreadVars
        => [step = "second" /\ step' = "pump" =>
              /\ latch' => measured >= TimeoutTicks
              /\ measured \in TimeoutTicks .. Wrap - 1 => latch']_watcherThreadVars
  BY LatchIsTrue
<1> QED
  BY ClockInit, ClockStep, <1>1, PTL DEF WatcherSpec, IdleIsTrue

-----------------------------------------------------------------------------
(* Folds                                                                    *)

LEMMA LeastOne ==
  ASSUME NEW T \in SUBSET Nat, T # {}
  PROVE  \E n \in T : \A m \in T : n <= m
<1>1. PICK n \in T : \A m \in T : <<m, n>> \notin OpToRel(<, Nat)
  BY NatLessThanWellFounded, WFMin
<1>2. \A m \in T : ~(m < n)
  BY <1>1 DEF OpToRel
<1>3. QED
  BY <1>2

(* A set of numbers that has 0, and n + 1 with n, has them all.             *)
LEMMA Induction ==
  ASSUME NEW S, 0 \in S, \A n \in Nat : n \in S => n + 1 \in S
  PROVE  \A n \in Nat : n \in S
<1> SUFFICES ASSUME NEW m \in Nat, m \notin S PROVE FALSE
  OBVIOUS
<1> DEFINE T == {n \in Nat : n \notin S}
<1>1. PICK n \in T : \A i \in T : n <= i
  <2>1. T \in SUBSET Nat /\ T # {}
    OBVIOUS
  <2> HIDE DEF T
  <2>2. QED
    BY <2>1, LeastOne
<1>2. n # 0 /\ n - 1 \in Nat
  OBVIOUS
<1>3. n - 1 \in S
  BY <1>1, <1>2
<1>4. QED
  BY <1>2, <1>3

(* The states of a parser of the first k lines, as FoldLeft computes them.  *)
Folds(t, k, f) ==
  \A s \in SUBSET (1 .. k) :
    f[s] = IF s = {} THEN Default ELSE Parsed(f[s \ {Max(s)}], t[Max(s)])

(* The states of the parser, line by line.                                  *)
Read(t, n, st) ==
  /\ st[0] = Default
  /\ \A i \in 1 .. n : st[i] = Parsed(st[i - 1], t[i])
  /\ FromSerialized(t) = st[n]

LEMMA GreatestOf ==
  ASSUME NEW k \in Nat, NEW s \in SUBSET (1 .. k + 1), k + 1 \in s
  PROVE  Max(s) = k + 1 /\ s \ {k + 1} \in SUBSET (1 .. k)
<1>1. \A y \in s : k + 1 >= y
  OBVIOUS
<1>2. \A x \in s : (\A y \in s : x >= y) => x = k + 1
  OBVIOUS
<1>3. Max(s) = k + 1
  BY <1>1, <1>2 DEF Max
<1>4. QED
  BY <1>3

LEMMA FoldsExist ==
  ASSUME NEW t
  PROVE  \A k \in Nat : \E f : Folds(t, k, f)
<1> DEFINE S == {k \in Nat : \E f : Folds(t, k, f)}
<1>1. 0 \in S
  <2> DEFINE f == [s \in {{}} |-> Default]
  <2>1. \A s \in SUBSET (1 .. 0) : s = {}
    OBVIOUS
  <2>2. f[{}] = Default
    OBVIOUS
  <2> HIDE DEF f
  <2>3. Folds(t, 0, f)
    BY <2>1, <2>2 DEF Folds
  <2>4. QED
    BY <2>3
<1>2. ASSUME NEW k \in Nat, NEW f, Folds(t, k, f)
      PROVE  \E g : Folds(t, k + 1, g)
  <2> DEFINE g == [s \in SUBSET (1 .. k + 1) |->
                     IF k + 1 \in s THEN Parsed(f[s \ {k + 1}], t[k + 1]) ELSE f[s]]
  <2>1. \A s \in SUBSET (1 .. k) : g[s] = f[s]
    OBVIOUS
  <2>2. \A s \in SUBSET (1 .. k + 1) :
          g[s] = IF k + 1 \in s THEN Parsed(f[s \ {k + 1}], t[k + 1]) ELSE f[s]
    OBVIOUS
  <2> HIDE DEF g
  <2>3. ASSUME NEW s \in SUBSET (1 .. k + 1)
        PROVE  g[s] = IF s = {} THEN Default ELSE Parsed(g[s \ {Max(s)}], t[Max(s)])
    <3>1. CASE k + 1 \in s
      <4>1. Max(s) = k + 1 /\ s \ {k + 1} \in SUBSET (1 .. k)
        BY <3>1, GreatestOf
      <4>2. g[s \ {Max(s)}] = f[s \ {k + 1}]
        BY <4>1, <2>1
      <4>3. g[s] = Parsed(f[s \ {k + 1}], t[k + 1])
        BY <3>1, <2>2
      <4>4. QED
        BY <3>1, <4>1, <4>2, <4>3
    <3>2. CASE k + 1 \notin s
      <4>1. s \in SUBSET (1 .. k)
        BY <3>2
      <4>2. s \ {Max(s)} \in SUBSET (1 .. k)
        BY <4>1
      <4>3. g[s] = f[s] /\ g[s \ {Max(s)}] = f[s \ {Max(s)}]
        BY <4>1, <4>2, <2>1
      <4>4. f[s] = IF s = {} THEN Default ELSE Parsed(f[s \ {Max(s)}], t[Max(s)])
        BY <1>2, <4>1 DEF Folds
      <4>5. QED
        BY <4>3, <4>4
    <3>3. QED
      BY <3>1, <3>2
  <2>4. Folds(t, k + 1, g)
    BY <2>3 DEF Folds
  <2>5. QED
    BY <2>4
<1>3. \A k \in Nat : k \in S => k + 1 \in S
  BY <1>2
<1>4. \A k \in Nat : k \in S
  <2> HIDE DEF S
  <2>1. QED
    BY <1>1, <1>3, Induction
<1>5. QED
  BY <1>4

LEMMA Unrolled ==
  ASSUME NEW n \in Nat, NEW t, DOMAIN t = 1 .. n
  PROVE  \E st : Read(t, n, st)
<1> DEFINE Is(f) == f = [s \in SUBSET (1 .. n) |->
                           IF s = {} THEN Default ELSE Parsed(f[s \ {Max(s)}], t[Max(s)])]
           iter == CHOOSE f : Is(f)
<1>1. FromSerialized(t) = iter[1 .. n]
  BY DEF FromSerialized, FoldLeft, MapThenFoldSet
<1>2. \E f : Is(f)
  <2>1. PICK f : Folds(t, n, f)
    BY FoldsExist
  <2> DEFINE g == [s \in SUBSET (1 .. n) |-> f[s]]
  <2>2. \A s \in SUBSET (1 .. n) : s \ {Max(s)} \in SUBSET (1 .. n)
    OBVIOUS
  <2>3. \A s \in SUBSET (1 .. n) : g[s] = f[s]
    OBVIOUS
  <2>4. \A s \in SUBSET (1 .. n) :
          g[s] = IF s = {} THEN Default ELSE Parsed(g[s \ {Max(s)}], t[Max(s)])
    <3> HIDE DEF g
    <3>1. QED
      BY <2>1, <2>2, <2>3 DEF Folds
  <2>5. Is(g)
    BY <2>4
  <2>6. QED
    BY <2>5
<1>3. Is(iter)
  <2> HIDE DEF Is
  <2>1. QED
    BY <1>2
<1> HIDE DEF iter
<1>4. \A s \in SUBSET (1 .. n) :
        iter[s] = IF s = {} THEN Default ELSE Parsed(iter[s \ {Max(s)}], t[Max(s)])
  BY <1>3
<1> HIDE DEF Is
<1> DEFINE st == [i \in 0 .. n |-> iter[1 .. i]]
<1>5. st[0] = Default
  <2>1. 1 .. 0 = {} /\ 1 .. 0 \in SUBSET (1 .. n) /\ 0 \in 0 .. n
    OBVIOUS
  <2>2. iter[1 .. 0] = Default
    BY <2>1, <1>4
  <2>3. QED
    BY <2>1, <2>2
<1>6. ASSUME NEW i \in 1 .. n PROVE st[i] = Parsed(st[i - 1], t[i])
  <2> DEFINE k == i - 1
             s == 1 .. k + 1
  <2>1. k \in Nat /\ k + 1 = i /\ k \in 0 .. n /\ i \in 0 .. n
    OBVIOUS
  <2> HIDE DEF k
  <2>2. s \in SUBSET (1 .. k + 1) /\ k + 1 \in s /\ s # {}
    <3>1. k + 1 \in s
      BY <2>1
    <3>2. s \in SUBSET (1 .. k + 1)
      OBVIOUS
    <3> HIDE DEF s
    <3>3. QED
      BY <3>1, <3>2
  <2>3. s \in SUBSET (1 .. n)
    BY <2>1
  <2>4. s \ {k + 1} = 1 .. k
    BY <2>1
  <2> HIDE DEF s
  <2>5. Max(s) = k + 1
    BY <2>1, <2>2, GreatestOf
  <2>6. iter[s] = Parsed(iter[1 .. k], t[k + 1])
    BY <1>4, <2>2, <2>3, <2>4, <2>5
  <2>7. st[i] = iter[s] /\ st[i - 1] = iter[1 .. k]
    BY <2>1 DEF s, k
  <2>8. QED
    BY <2>1, <2>6, <2>7
<1>7. st[n] = iter[1 .. n]
  OBVIOUS
<1> HIDE DEF st
<1>8. QED
  BY <1>1, <1>5, <1>6, <1>7 DEF Read

-----------------------------------------------------------------------------
(* Settings and their text                                                  *)

Number == {t \in Seq(Digits) : t # <<>> /\ t[1] # "0"}

Proper(p) ==
  /\ p = [timeout |-> p.timeout, theme |-> p.theme, path |-> p.path, hello |-> p.hello]
  /\ p.timeout \in Number \cup {Off}
  /\ p.theme \in {Light, Dark, System}
  /\ \A x, y \in p.path : x = y
  /\ p.hello \in BOOLEAN

LEMMA NumberIs ==
  ASSUME NEW v \in Number
  PROVE  IsNumber(v) /\ v # Off /\ ToSet(v) # {"0"}
<1>1. v \in Seq(Digits) /\ v # <<>> /\ v[1] # "0"
  BY DEF Number
<1>2. Len(v) \in Nat \ {0} /\ 1 \in DOMAIN v /\ DOMAIN v = 1 .. Len(v)
  BY <1>1
<1>3. ToSet(v) \subseteq Digits
  BY <1>1, <1>2 DEF ToSet
<1>4. v[1] \in ToSet(v) /\ v[1] \in Digits
  BY <1>1, <1>2 DEF ToSet
<1>5. Off[1] \notin Digits
  BY DEF Off, Digits
<1>6. QED
  BY <1>1, <1>3, <1>4, <1>5 DEF IsNumber

LEMMA OffIs == ToSet(Off) # {"0"} /\ "o" \notin Digits /\ Off # <<>>
<1>1. "o" \in ToSet(Off)
  BY DEF Off, ToSet
<1>2. QED
  BY <1>1 DEF Digits, Off

(* What the first characters of a number are, or of "off".                  *)
LEMMA CutNumber ==
  ASSUME NEW v \in Number, NEW n \in 0 .. Len(v), SubSeq(v, 1, n) # <<>>
  PROVE  SubSeq(v, 1, n) \in Number
<1>1. v \in Seq(Digits) /\ v # <<>> /\ v[1] # "0"
  BY DEF Number
<1>2. n # 0
  BY <1>1
<1>3. SubSeq(v, 1, n) \in Seq(Digits) /\ SubSeq(v, 1, n)[1] = v[1]
  BY <1>1, <1>2
<1>4. QED
  BY <1>1, <1>3 DEF Number

LEMMA CutOff ==
  ASSUME NEW n \in 0 .. Len(Off), IsNumber(SubSeq(Off, 1, n))
  PROVE  FALSE
<1>1. Off \in Seq({"o", "f"}) /\ Off[1] = "o" /\ Len(Off) = 3
  BY DEF Off
<1> DEFINE v == Off
           w == SubSeq(v, 1, n)
<1>2. v \in Seq({"o", "f"}) /\ v[1] = "o" /\ Len(v) = 3 /\ n \in 0 .. Len(v)
  BY <1>1
<1>3. w # <<>> /\ ToSet(w) \subseteq Digits
  BY DEF IsNumber
<1> HIDE DEF v
<1>4. n # 0
  BY <1>2, <1>3
<1>5. 1 \in DOMAIN w /\ w[1] = "o"
  BY <1>2, <1>4
<1>6. "o" \in ToSet(w)
  BY <1>5 DEF ToSet
<1>7. QED
  BY <1>3, <1>6, OffIs

LEMMA DefaultIs == Proper(Default) /\ Default.timeout \in Number
<1>1. DefaultTimeout \in Number
  BY PrefsAssumption DEF Number
<1>2. Default.timeout \in Number
  BY <1>1 DEF Default
<1>3. Proper(Default)
  BY <1>2 DEF Proper, Default
<1>4. QED
  BY <1>2, <1>3

LEMMA SettingsProper == \A p \in Settings : Proper(p)
<1> SUFFICES ASSUME NEW p \in Settings PROVE Proper(p)
  OBVIOUS
<1>1. Timeouts \cup {Off, DefaultTimeout} \subseteq Number \cup {Off}
  BY PrefsAssumption DEF Number
<1>2. p.timeout \in Number \cup {Off}
  BY <1>1 DEF Settings
<1>3. \A x, y \in p.path : x = y
  BY DEF Settings
<1>4. QED
  BY <1>2, <1>3 DEF Proper, Settings

(* A line of the text of p, or what is left of it.                          *)
PieceOf(p, line) ==
  line.key = "idle_timeout_secs" =>
    \E n \in 0 .. Len(p.timeout) : line.value = SubSeq(p.timeout, 1, n)

Fine(q, p) == Proper(q) /\ (q.timeout = Off => p.timeout = Off)

LEMMA ParsedFine ==
  ASSUME NEW p, Proper(p), NEW q, Fine(q, p), NEW line, PieceOf(p, line)
  PROVE  Fine(Parsed(q, line), p)
<1>1. Proper(q) /\ (q.timeout = Off => p.timeout = Off)
  BY DEF Fine
<1>2. CASE line.key = "idle_timeout_secs"
  <2> DEFINE v == ParsedTimeout(line.value, q.timeout)
  <2>1. Parsed(q, line) = [q EXCEPT !.timeout = v]
    BY <1>2 DEF Parsed
  <2>2. PICK n \in 0 .. Len(p.timeout) : line.value = SubSeq(p.timeout, 1, n)
    BY <1>2 DEF PieceOf
  <2>3. v \in Number \cup {Off} /\ (v = Off => p.timeout = Off)
    <3>1. CASE p.timeout \in Number
      <4>1. line.value # <<>> => line.value \in Number
        BY <2>2, <3>1, CutNumber
      <4>2. CASE line.value = <<>>
        <5>1. v = q.timeout
          BY <4>2, OffIs DEF ParsedTimeout, IsNumber
        <5>2. QED
          BY <5>1, <1>1 DEF Proper
      <4>3. CASE line.value # <<>>
        BY <4>1, <4>3, NumberIs DEF ParsedTimeout
      <4>4. QED
        BY <4>2, <4>3
    <3>2. CASE p.timeout = Off
      <4>1. ~IsNumber(line.value)
        BY <2>2, <3>2, CutOff
      <4>2. v = Off \/ v = q.timeout
        BY <4>1 DEF ParsedTimeout
      <4>3. QED
        BY <3>2, <4>2, <1>1 DEF Proper
    <3>3. QED
      BY <3>1, <3>2 DEF Proper
  <2> HIDE DEF v
  <2>4. [q EXCEPT !.timeout = v] =
          [timeout |-> v, theme |-> q.theme, path |-> q.path, hello |-> q.hello]
    BY <1>1 DEF Proper
  <2>5. QED
    BY <1>1, <2>1, <2>3, <2>4 DEF Fine, Proper
<1>3. CASE line.key = "theme"
  <2> DEFINE v == ParsedTheme(line.value)
  <2>1. Parsed(q, line) = [q EXCEPT !.theme = v]
    BY <1>3 DEF Parsed
  <2>2. v \in {Light, Dark, System}
    BY DEF ParsedTheme
  <2> HIDE DEF v
  <2>3. [q EXCEPT !.theme = v] =
          [timeout |-> q.timeout, theme |-> v, path |-> q.path, hello |-> q.hello]
    BY <1>1 DEF Proper
  <2>4. QED
    BY <1>1, <2>1, <2>2, <2>3 DEF Fine, Proper
<1>4. CASE line.key = "last_vault_path"
  <2>1. Parsed(q, line) = [q EXCEPT !.path = {line.value}]
    BY <1>4 DEF Parsed
  <2>2. [q EXCEPT !.path = {line.value}] =
          [timeout |-> q.timeout, theme |-> q.theme, path |-> {line.value},
           hello |-> q.hello]
    BY <1>1 DEF Proper
  <2>3. QED
    BY <1>1, <2>1, <2>2 DEF Fine, Proper
<1>5. CASE line.key = "hello_enabled"
  <2> DEFINE v == ParsedFlag(line.value, q.hello)
  <2>1. Parsed(q, line) = [q EXCEPT !.hello = v]
    BY <1>5 DEF Parsed
  <2>2. v \in BOOLEAN
    BY DEF ParsedFlag
  <2> HIDE DEF v
  <2>3. [q EXCEPT !.hello = v] =
          [timeout |-> q.timeout, theme |-> q.theme, path |-> q.path, hello |-> v]
    BY <1>1 DEF Proper
  <2>4. QED
    BY <1>1, <2>1, <2>2, <2>3 DEF Fine, Proper
<1>6. CASE line.key \notin {"idle_timeout_secs", "theme", "last_vault_path", "hello_enabled"}
  <2>1. Parsed(q, line) = q
    BY <1>6 DEF Parsed
  <2>2. QED
    BY <2>1
<1>7. QED
  BY <1>2, <1>3, <1>4, <1>5, <1>6

(* Whatever pieces of the text of p are read, in any order, the timer is    *)
(* off only if p has it off.                                                *)
LEMMA PiecesFine ==
  ASSUME NEW p, Proper(p), NEW n \in Nat, NEW t, DOMAIN t = 1 .. n,
         \A i \in 1 .. n : PieceOf(p, t[i])
  PROVE  Fine(FromSerialized(t), p)
<1>1. PICK st : Read(t, n, st)
  BY Unrolled
<1> DEFINE S == {k \in Nat : k <= n => Fine(st[k], p)}
<1>2. 0 \in S
  <2>1. Fine(Default, p)
    BY DefaultIs, NumberIs DEF Fine
  <2>2. st[0] = Default
    BY <1>1 DEF Read
  <2>3. QED
    BY <2>1, <2>2
<1>3. ASSUME NEW k \in Nat, k \in S PROVE k + 1 \in S
  <2> SUFFICES ASSUME k + 1 <= n PROVE Fine(st[k + 1], p)
    OBVIOUS
  <2>1. k + 1 \in 1 .. n /\ (k + 1) - 1 = k /\ Fine(st[k], p)
    BY <1>3
  <2>2. st[k + 1] = Parsed(st[k], t[k + 1])
    BY <1>1, <2>1 DEF Read
  <2>3. QED
    BY <2>1, <2>2, ParsedFine
<1>4. \A k \in Nat : k \in S
  <2> HIDE DEF S
  <2>1. QED
    BY <1>2, <1>3, Induction
<1>5. Fine(st[n], p)
  BY <1>4
<1>6. QED
  BY <1>1, <1>5 DEF Read

-----------------------------------------------------------------------------
(* Writing and reading back                                                 *)

LEMMA Added ==
  ASSUME NEW T, NEW s \in Seq(T), NEW x \in T
  PROVE  /\ s \o <<x>> \in Seq(T) /\ Len(s \o <<x>>) = Len(s) + 1
         /\ (s \o <<x>>)[Len(s) + 1] = x
         /\ \A i \in 1 .. Len(s) : (s \o <<x>>)[i] = s[i]
OBVIOUS

LinesOf(p) ==
  {[key |-> "idle_timeout_secs", value |-> p.timeout], [key |-> "theme", value |-> p.theme],
   [key |-> "last_vault_path", value |-> CHOOSE q \in p.path : TRUE],
   [key |-> "hello_enabled", value |-> IF p.hello THEN Yes ELSE No]}

(* The lines of a text: three, or four with a path.                         *)
LEMMA TextLines ==
  ASSUME NEW p
  PROVE  LET t == ToSerialized(p)
             w == [key |-> "hello_enabled", value |-> IF p.hello THEN Yes ELSE No]
         IN  /\ p.path = {} => DOMAIN t = 1 .. 3 /\ t[3] = w
             /\ p.path # {} =>
                  /\ DOMAIN t = 1 .. 4 /\ t[4] = w
                  /\ t[3] = [key |-> "last_vault_path",
                             value |-> CHOOSE q \in p.path : TRUE]
             /\ t[1] = [key |-> "idle_timeout_secs", value |-> p.timeout]
             /\ t[2] = [key |-> "theme", value |-> p.theme]
             /\ t \in Seq(LinesOf(p))
<1> DEFINE a == [key |-> "idle_timeout_secs", value |-> p.timeout]
           b == [key |-> "theme", value |-> p.theme]
           c == [key |-> "last_vault_path", value |-> CHOOSE q \in p.path : TRUE]
           w == [key |-> "hello_enabled", value |-> IF p.hello THEN Yes ELSE No]
           t == ToSerialized(p)
<1>1. t = <<a>> \o <<b>> \o (IF p.path = {} THEN <<>> ELSE <<c>>) \o <<w>>
  BY DEF ToSerialized, Line
<1> HIDE DEF a, b, c, w
<1> DEFINE T == {a, b, c, w}
           t1 == <<a>>
           t2 == t1 \o <<b>>
           t3 == t2 \o <<c>>
<1>2. t1 \in Seq(T) /\ Len(t1) = 1 /\ t1[1] = a
  OBVIOUS
<1>T. T = LinesOf(p)
  BY DEF a, b, c, w, LinesOf
<1>e. a \in T /\ b \in T /\ c \in T /\ w \in T
  OBVIOUS
<1> HIDE DEF t1, T
<1>3. t2 \in Seq(T) /\ Len(t2) = 2 /\ t2[1] = a /\ t2[2] = b
  <2>0. t1 \in Seq(T)
    BY <1>2
  <2>1. /\ t1 \o <<b>> \in Seq(T) /\ Len(t1 \o <<b>>) = Len(t1) + 1
        /\ (t1 \o <<b>>)[Len(t1) + 1] = b
        /\ \A i \in 1 .. Len(t1) : (t1 \o <<b>>)[i] = t1[i]
    BY <2>0, <1>e, Added
  <2>2. QED
    BY <1>2, <2>1
<1> HIDE DEF t2
<1>4. t3 \in Seq(T) /\ Len(t3) = 3 /\ t3[1] = a /\ t3[2] = b /\ t3[3] = c
  <2>0. t2 \in Seq(T)
    BY <1>3
  <2>1. /\ t2 \o <<c>> \in Seq(T) /\ Len(t2 \o <<c>>) = Len(t2) + 1
        /\ (t2 \o <<c>>)[Len(t2) + 1] = c
        /\ \A i \in 1 .. Len(t2) : (t2 \o <<c>>)[i] = t2[i]
    BY <2>0, <1>e, Added
  <2>2. QED
    BY <1>3, <2>1
<1> HIDE DEF t3
<1>5. CASE p.path = {}
  <2>1. t2 \o <<>> = t2
    BY <1>3
  <2>2. t = t2 \o <<w>>
    BY <1>1, <1>5, <2>1 DEF t2, t1
  <2> HIDE DEF t
  <2>3. t \in Seq(T) /\ Len(t) = 3 /\ t[1] = a /\ t[2] = b /\ t[3] = w
    <3>0. t2 \in Seq(T)
      BY <1>3
    <3>1. /\ t2 \o <<w>> \in Seq(T) /\ Len(t2 \o <<w>>) = Len(t2) + 1
          /\ (t2 \o <<w>>)[Len(t2) + 1] = w
          /\ \A i \in 1 .. Len(t2) : (t2 \o <<w>>)[i] = t2[i]
      BY <3>0, <1>e, Added
    <3>2. QED
      BY <1>3, <2>2, <3>1
  <2>4. DOMAIN t = 1 .. 3
    BY <2>3
  <2>5. QED
    BY <1>5, <2>3, <2>4, <1>T DEF t, a, b, w
<1>6. CASE p.path # {}
  <2>1. t = t3 \o <<w>>
    BY <1>1, <1>6 DEF t3, t2, t1
  <2> HIDE DEF t
  <2>2. t \in Seq(T) /\ Len(t) = 4 /\ t[1] = a /\ t[2] = b /\ t[3] = c /\ t[4] = w
    <3>0. t3 \in Seq(T)
      BY <1>4
    <3>1. /\ t3 \o <<w>> \in Seq(T) /\ Len(t3 \o <<w>>) = Len(t3) + 1
          /\ (t3 \o <<w>>)[Len(t3) + 1] = w
          /\ \A i \in 1 .. Len(t3) : (t3 \o <<w>>)[i] = t3[i]
      BY <3>0, <1>e, Added
    <3>2. QED
      BY <1>4, <2>1, <3>1
  <2>3. DOMAIN t = 1 .. 4
    BY <2>2
  <2>4. QED
    BY <1>6, <2>2, <2>3, <1>T DEF t, a, b, c, w
<1>7. QED
  BY <1>5, <1>6

(* What each line says to the parser.                                       *)
LEMMA ParsedTimeoutLine ==
  ASSUME NEW p, Proper(p), NEW q, Proper(q)
  PROVE  Parsed(q, [key |-> "idle_timeout_secs", value |-> p.timeout]) =
           [timeout |-> p.timeout, theme |-> q.theme, path |-> q.path, hello |-> q.hello]
<1>1. q = [timeout |-> q.timeout, theme |-> q.theme, path |-> q.path, hello |-> q.hello]
  BY DEF Proper
<1>2. ParsedTimeout(p.timeout, q.timeout) = p.timeout
  BY NumberIs DEF ParsedTimeout, Proper
<1>3. QED
  BY <1>1, <1>2 DEF Parsed

LEMMA ParsedLines ==
  ASSUME NEW p, Proper(p), NEW q, Proper(q)
  PROVE  /\ Parsed(q, [key |-> "theme", value |-> p.theme]) =
              [timeout |-> q.timeout, theme |-> p.theme, path |-> q.path, hello |-> q.hello]
         /\ p.path # {} =>
              Parsed(q, [key |-> "last_vault_path", value |-> CHOOSE x \in p.path : TRUE]) =
                [timeout |-> q.timeout, theme |-> q.theme, path |-> p.path, hello |-> q.hello]
         /\ Parsed(q, [key |-> "hello_enabled", value |-> IF p.hello THEN Yes ELSE No]) =
              [timeout |-> q.timeout, theme |-> q.theme, path |-> q.path, hello |-> p.hello]
<1>q. q = [timeout |-> q.timeout, theme |-> q.theme, path |-> q.path, hello |-> q.hello]
  BY DEF Proper
<1>2. ParsedTheme(p.theme) = p.theme
  BY DEF ParsedTheme, Proper
<1>3. ParsedFlag(IF p.hello THEN Yes ELSE No, q.hello) = p.hello
  <2>1. Yes # No
    BY DEF Yes, No
  <2>2. p.hello \in BOOLEAN /\ q.hello \in BOOLEAN
    BY DEF Proper
  <2>3. CASE p.hello
    BY <2>1, <2>2, <2>3 DEF ParsedFlag
  <2>4. CASE ~p.hello
    BY <2>1, <2>2, <2>4 DEF ParsedFlag
  <2>5. QED
    BY <2>3, <2>4
<1>4. ASSUME p.path # {} PROVE {CHOOSE x \in p.path : TRUE} = p.path
  <2>1. (CHOOSE x \in p.path : TRUE) \in p.path
    BY <1>4
  <2>2. \A x, y \in p.path : x = y
    BY DEF Proper
  <2>3. QED
    BY <2>1, <2>2
<1>6. Parsed(q, [key |-> "theme", value |-> p.theme]) =
        [timeout |-> q.timeout, theme |-> p.theme, path |-> q.path, hello |-> q.hello]
  BY <1>q, <1>2 DEF Parsed
<1>7. ASSUME p.path # {}
      PROVE  Parsed(q, [key |-> "last_vault_path", value |-> CHOOSE x \in p.path : TRUE]) =
               [timeout |-> q.timeout, theme |-> q.theme, path |-> p.path, hello |-> q.hello]
  <2> DEFINE v == CHOOSE x \in p.path : TRUE
  <2>1. {v} = p.path
    BY <1>4, <1>7
  <2> HIDE DEF v
  <2>2. Parsed(q, [key |-> "last_vault_path", value |-> v]) =
          [timeout |-> q.timeout, theme |-> q.theme, path |-> {v}, hello |-> q.hello]
    BY <1>q DEF Parsed
  <2>3. QED
    BY <2>1, <2>2 DEF v
<1>8. Parsed(q, [key |-> "hello_enabled", value |-> IF p.hello THEN Yes ELSE No]) =
        [timeout |-> q.timeout, theme |-> q.theme, path |-> q.path, hello |-> p.hello]
  <2> DEFINE v == IF p.hello THEN Yes ELSE No
  <2>1. ParsedFlag(v, q.hello) = p.hello
    BY <1>3
  <2> HIDE DEF v
  <2>2. Parsed(q, [key |-> "hello_enabled", value |-> v]) =
          [q EXCEPT !.hello = ParsedFlag(v, q.hello)]
    BY DEF Parsed
  <2>3. QED
    BY <1>q, <2>1, <2>2 DEF v
<1>9. QED
  BY <1>6, <1>7, <1>8

(* The whole text says what it was made from.                               *)
LEMMA TextSays ==
  ASSUME NEW p, Proper(p)
  PROVE  FromSerialized(ToSerialized(p)) = p
<1> DEFINE t == ToSerialized(p)
           d == Default
<1>d. Proper(d)
  BY DefaultIs
<1>p. p = [timeout |-> p.timeout, theme |-> p.theme, path |-> p.path, hello |-> p.hello]
  BY DEF Proper
<1> DEFINE q1 == [timeout |-> p.timeout, theme |-> d.theme, path |-> d.path, hello |-> d.hello]
           q2 == [timeout |-> p.timeout, theme |-> p.theme, path |-> d.path, hello |-> d.hello]
           q3 == [timeout |-> p.timeout, theme |-> p.theme, path |-> p.path, hello |-> d.hello]
           l1 == [key |-> "idle_timeout_secs", value |-> p.timeout]
           l2 == [key |-> "theme", value |-> p.theme]
           l3 == [key |-> "last_vault_path", value |-> CHOOSE q \in p.path : TRUE]
           w == [key |-> "hello_enabled", value |-> IF p.hello THEN Yes ELSE No]
<1>1. Proper(q1) /\ Proper(q2) /\ Proper(q3)
  BY <1>d DEF Proper
<1>t. /\ p.path = {} => DOMAIN t = 1 .. 3 /\ t[3] = w
      /\ p.path # {} => DOMAIN t = 1 .. 4 /\ t[3] = l3 /\ t[4] = w
      /\ t[1] = l1 /\ t[2] = l2
  BY TextLines
<1>l. /\ Parsed(d, l1) = q1 /\ Parsed(q1, l2) = q2
      /\ Parsed(q2, w) = [q2 EXCEPT !.hello = p.hello]
      /\ Parsed(q3, w) = [q3 EXCEPT !.hello = p.hello]
      /\ p.path # {} => Parsed(q2, l3) = q3
  <2>1. /\ Parsed(d, l1) = q1 /\ Parsed(q1, l2) = q2
    <3>1. Parsed(d, l1) = [timeout |-> p.timeout, theme |-> d.theme, path |-> d.path,
                           hello |-> d.hello]
      <4>1. \A q : Proper(q) => Parsed(q, l1) = [timeout |-> p.timeout, theme |-> q.theme,
                                              path |-> q.path, hello |-> q.hello]
        BY ParsedTimeoutLine
      <4> HIDE DEF l1
      <4>2. QED
        BY <1>d, <4>1
    <3>2. \A q : Proper(q) => Parsed(q, l2) = [timeout |-> q.timeout, theme |-> p.theme,
                                            path |-> q.path, hello |-> q.hello]
      BY ParsedLines
    <3> HIDE DEF l1, l2
    <3>3. Parsed(q1, l2) = [timeout |-> q1.timeout, theme |-> p.theme, path |-> q1.path,
                            hello |-> q1.hello]
      BY <1>1, <3>2
    <3>4. QED
      BY <3>1, <3>3
  <2>2. \A q : Proper(q) => Parsed(q, w) = [timeout |-> q.timeout, theme |-> q.theme,
                                          path |-> q.path, hello |-> p.hello]
    BY ParsedLines
  <2>3. p.path # {} => Parsed(q2, l3) = q3
    <3>1. p.path # {} =>
            \A q : Proper(q) => Parsed(q, l3) = [timeout |-> q.timeout, theme |-> q.theme,
                                              path |-> p.path, hello |-> q.hello]
      BY ParsedLines
    <3> HIDE DEF l3
    <3>2. p.path # {} =>
            Parsed(q2, l3) = [timeout |-> q2.timeout, theme |-> q2.theme, path |-> p.path,
                              hello |-> q2.hello]
      BY <1>1, <3>1
    <3>3. QED
      BY <3>2
  <2> HIDE DEF l1, l2, l3, w
  <2>4. QED
    BY <1>1, <2>1, <2>2, <2>3
<1>h. /\ [q3 EXCEPT !.hello = p.hello] = p
      /\ p.path = d.path => [q2 EXCEPT !.hello = p.hello] = p
  BY <1>p
<1>2. d.path = {}
  BY DEF Default
<1> HIDE DEF d, t, l1, l2, l3, w, q1, q2, q3
<1>3. Parsed(d, t[1]) = q1 /\ Parsed(q1, t[2]) = q2
  BY <1>t, <1>l
<1>4. CASE p.path = {}
  <2>1. DOMAIN t = 1 .. 3 /\ Parsed(q2, t[3]) = p
    BY <1>2, <1>4, <1>t, <1>l, <1>h
  <2> DEFINE n == 3
  <2>2. n \in Nat /\ DOMAIN t = 1 .. n
    BY <2>1
  <2> HIDE DEF n
  <2>3. PICK st : Read(t, n, st)
    BY <2>2, Unrolled
  <2>4. st[0] = d /\ (\A i \in 1 .. 3 : st[i] = Parsed(st[i - 1], t[i]))
        /\ FromSerialized(t) = st[3]
    BY <2>3 DEF Read, n, d
  <2>5. st[1] = q1
    <3>1. st[1] = Parsed(st[1 - 1], t[1])
      BY <2>4
    <3>2. QED
      BY <1>3, <2>4, <3>1
  <2>6. st[2] = q2
    <3>1. st[2] = Parsed(st[2 - 1], t[2])
      BY <2>4
    <3>2. QED
      BY <1>3, <2>5, <3>1
  <2>7. st[3] = p
    <3>1. st[3] = Parsed(st[3 - 1], t[3])
      BY <2>4
    <3>2. QED
      BY <2>1, <2>6, <3>1
  <2>8. QED
    BY <2>4, <2>7 DEF t
<1>5. CASE p.path # {}
  <2>1. DOMAIN t = 1 .. 4 /\ Parsed(q2, t[3]) = q3 /\ Parsed(q3, t[4]) = p
    BY <1>5, <1>t, <1>l, <1>h
  <2> DEFINE n == 4
  <2>2. n \in Nat /\ DOMAIN t = 1 .. n
    BY <2>1
  <2> HIDE DEF n
  <2>3. PICK st : Read(t, n, st)
    BY <2>2, Unrolled
  <2>4. st[0] = d /\ (\A i \in 1 .. 4 : st[i] = Parsed(st[i - 1], t[i]))
        /\ FromSerialized(t) = st[4]
    BY <2>3 DEF Read, n, d
  <2>5. st[1] = q1
    <3>1. st[1] = Parsed(st[1 - 1], t[1])
      BY <2>4
    <3>2. QED
      BY <1>3, <2>4, <3>1
  <2>6. st[2] = q2
    <3>1. st[2] = Parsed(st[2 - 1], t[2])
      BY <2>4
    <3>2. QED
      BY <1>3, <2>5, <3>1
  <2>7. st[3] = q3
    <3>1. st[3] = Parsed(st[3 - 1], t[3])
      BY <2>4
    <3>2. QED
      BY <2>1, <2>6, <3>1
  <2>8. st[4] = p
    <3>1. st[4] = Parsed(st[4 - 1], t[4])
      BY <2>4
    <3>2. QED
      BY <2>1, <2>7, <3>1
  <2>9. QED
    BY <2>4, <2>8 DEF t
<1>6. QED
  BY <1>4, <1>5

(* Every line of what a cut leaves is a line of the text or the first part  *)
(* of one.                                                                  *)
LEMMA CutIsOfPieces ==
  ASSUME NEW p, Proper(p), NEW t \in Cuts(ToSerialized(p))
  PROVE  \E n \in Nat : DOMAIN t = 1 .. n /\ \A i \in 1 .. n : PieceOf(p, t[i])
<1> DEFINE u == ToSerialized(p)
           L == LinesOf(p)
<1>1. u \in Seq(L)
  BY TextLines
<1>2. \A x \in L : x.key = "idle_timeout_secs" => x.value = p.timeout
  BY DEF LinesOf
<1>3. \A x \in L : PieceOf(p, x)
  <2>1. p.timeout \in Seq(Digits) \/ p.timeout \in Seq({"o", "f"})
    <3>1. Off \in Seq({"o", "f"})
      BY DEF Off
    <3>2. p.timeout \in Seq(Digits) \/ p.timeout = Off
      BY DEF Proper, Number
    <3>3. QED
      BY <3>1, <3>2
  <2>2. SubSeq(p.timeout, 1, Len(p.timeout)) = p.timeout /\ Len(p.timeout) \in Nat
    BY <2>1
  <2>3. Len(p.timeout) \in 0 .. Len(p.timeout)
    BY <2>2
  <2> HIDE DEF L
  <2>4. QED
    BY <1>2, <2>2, <2>3 DEF PieceOf
<1> HIDE DEF L
<1>4. PICK i \in DOMAIN u :
        \E c \in {<<>>} \cup {CutValue(u[i], n) : n \in 0 .. Len(u[i].value)} :
          t = SubSeq(u, 1, i - 1) \o c
  BY DEF Cuts
<1> HIDE DEF u
<1> DEFINE s == SubSeq(u, 1, i - 1)
<1>5. s \in Seq(L) /\ Len(s) \in Nat /\ u[i] \in L
  BY <1>1, <1>4
<1>6. \A j \in 1 .. Len(s) : PieceOf(p, s[j])
  <2> HIDE DEF s
  <2>1. \A j \in 1 .. Len(s) : s[j] \in L
    BY <1>5
  <2>2. QED
    BY <1>3, <2>1
<1>7. CASE t = s \o <<>>
  <2> HIDE DEF s
  <2>1. t = s /\ DOMAIN s = 1 .. Len(s)
    BY <1>5, <1>7
  <2>2. QED
    BY <1>5, <1>6, <2>1
<1>8. ASSUME NEW n \in 0 .. Len(u[i].value), t = s \o CutValue(u[i], n)
      PROVE  \E m \in Nat : DOMAIN t = 1 .. m /\ \A j \in 1 .. m : PieceOf(p, t[j])
  <2> HIDE DEF s
  <2> DEFINE x == [key |-> u[i].key, value |-> SubSeq(u[i].value, 1, n)]
             T == L \cup {x}
  <2>1. t = s \o <<x>>
    BY <1>8 DEF CutValue, Line
  <2>2. PieceOf(p, x)
    <3>1. ASSUME x.key = "idle_timeout_secs" PROVE u[i].value = p.timeout
      BY <1>2, <1>5, <3>1
    <3>2. QED
      BY <3>1 DEF PieceOf
  <2>3. s \in Seq(T) /\ x \in T
    BY <1>5
  <2> HIDE DEF x, T
  <2>4. /\ s \o <<x>> \in Seq(T) /\ Len(s \o <<x>>) = Len(s) + 1
        /\ (s \o <<x>>)[Len(s) + 1] = x
        /\ \A j \in 1 .. Len(s) : (s \o <<x>>)[j] = s[j]
    BY <2>3, Added
  <2>5. DOMAIN t = 1 .. Len(s) + 1
    BY <2>1, <2>4
  <2>6. ASSUME NEW j \in 1 .. Len(s) + 1 PROVE PieceOf(p, t[j])
    <3>1. CASE j = Len(s) + 1
      BY <2>1, <2>2, <2>4, <3>1
    <3>2. CASE j # Len(s) + 1
      <4>1. j \in 1 .. Len(s)
        BY <1>5, <3>2
      <4>2. QED
        BY <1>6, <2>1, <2>4, <4>1
    <3>3. QED
      BY <3>1, <3>2
  <2>7. Len(s) + 1 \in Nat
    BY <1>5
  <2>8. QED
    BY <2>5, <2>6, <2>7
<1>9. QED
  BY <1>4, <1>7, <1>8

-----------------------------------------------------------------------------
(* The settings survive                                                     *)

(* What the file says, to whoever reads it next.                            *)
FileSays(q) ==
  /\ Proper(q)
  /\ \A p \in left : q = p
  /\ q.timeout = Off => off

PrefsInv == Proper(prefs) /\ FileSays(FromSerialized(lines))

LEMMA NoTextSays == FromSerialized(NoText) = Default
<1> DEFINE n == 1
           l == [key |-> "none", value |-> <<>>]
           t == <<l>>
<1>1. n \in Nat /\ DOMAIN t = 1 .. n /\ t = NoText /\ t[1] = l
  BY DEF NoText
<1>2. Parsed(Default, l) = Default
  BY DEF Parsed
<1> HIDE DEF t, n
<1>3. PICK st : Read(t, n, st)
  BY <1>1, Unrolled
<1>4. st[0] = Default /\ (\A i \in 1 .. 1 : st[i] = Parsed(st[i - 1], t[i]))
      /\ FromSerialized(t) = st[1]
  BY <1>3 DEF Read, n
<1>5. st[1] = Parsed(st[1 - 1], t[1])
  BY <1>4
<1>6. QED
  BY <1>1, <1>2, <1>4, <1>5

LEMMA InitPrefs == PrefsInit => PrefsInv
<1> SUFFICES ASSUME PrefsInit PROVE PrefsInv
  OBVIOUS
<1>1. Proper(prefs)
  BY DefaultIs DEF PrefsInit
<1>2. CASE lines = NoText /\ left = {Default} /\ off = FALSE
  <2>1. FromSerialized(lines) = Default /\ Default.timeout # Off
    BY <1>2, NoTextSays, DefaultIs, NumberIs
  <2>2. QED
    BY <1>1, <1>2, <2>1, DefaultIs DEF PrefsInv, FileSays
<1>3. ASSUME NEW p \in Settings,
             lines = ToSerialized(p), left = {p}, off = (p.timeout = Off)
      PROVE  PrefsInv
  <2>1. Proper(p) /\ FromSerialized(lines) = p
    BY <1>3, SettingsProper, TextSays
  <2>2. QED
    BY <1>1, <1>3, <2>1 DEF PrefsInv, FileSays
<1>4. QED
  BY <1>2, <1>3 DEF PrefsInit

(* A setter writes the file, or fails to and leaves less of it.             *)
LEMMA SetKeeps ==
  ASSUME PrefsInv, NEW p, Proper(p), Set(p)
  PROVE  PrefsInv'
<1>1. Proper(prefs')
  BY DEF Set
<1>2. CASE Written(p)
  <2>1. FromSerialized(lines') = p /\ left' = {p} /\ off' = (p.timeout = Off)
    BY <1>2, TextSays DEF Written
  <2>2. QED
    BY <1>1, <2>1 DEF PrefsInv, FileSays
<1>3. CASE NotWritten(p)
  <2>1. left' = {} /\ (off' <=> off \/ p.timeout = Off)
    BY <1>3 DEF NotWritten
  <2>2. CASE lines' \in Cuts(ToSerialized(p))
    <3>1. Fine(FromSerialized(lines'), p)
      <4>1. PICK n \in Nat : DOMAIN lines' = 1 .. n /\ \A i \in 1 .. n : PieceOf(p, lines'[i])
        BY <2>2, CutIsOfPieces
      <4>2. QED
        BY <4>1, PiecesFine
    <3>2. QED
      BY <1>1, <2>1, <3>1 DEF PrefsInv, FileSays, Fine
  <2>3. CASE lines' = NoText
    <3>1. FromSerialized(lines') = Default /\ Default.timeout # Off /\ Proper(Default)
      BY <2>3, NoTextSays, DefaultIs, NumberIs
    <3>2. QED
      BY <1>1, <2>1, <3>1 DEF PrefsInv, FileSays
  <2>4. CASE lines' = lines
    BY <1>1, <2>1, <2>4 DEF PrefsInv, FileSays
  <2>5. QED
    BY <1>3, <2>2, <2>3, <2>4 DEF NotWritten
<1>4. QED
  BY <1>2, <1>3 DEF Set

LEMMA NextPrefs == PrefsInv /\ [PrefsNext]_prefsVars => PrefsInv'
<1> SUFFICES ASSUME PrefsInv, [PrefsNext]_prefsVars PROVE PrefsInv'
  OBVIOUS
<1>1. Proper(prefs)
  BY DEF PrefsInv
<1>2. prefs = [timeout |-> prefs.timeout, theme |-> prefs.theme, path |-> prefs.path,
               hello |-> prefs.hello]
  BY <1>1 DEF Proper
<1>3. CASE Start
  BY <1>3 DEF Start, PrefsInv, FileSays
<1>4. CASE Exit \/ UNCHANGED prefsVars
  BY <1>4 DEF Exit, prefsVars, PrefsInv, FileSays
<1>5. ASSUME NEW value \in BOOLEAN, on_set_dark(value) PROVE PrefsInv'
  <2> DEFINE theme == IF value THEN Dark ELSE Light
             p == [prefs EXCEPT !.theme = theme]
  <2>1. theme \in {Light, Dark, System}
    OBVIOUS
  <2>2. Set(p)
    BY <1>5 DEF on_set_dark
  <2> HIDE DEF theme
  <2>3. p = [timeout |-> prefs.timeout, theme |-> theme, path |-> prefs.path,
             hello |-> prefs.hello]
    BY <1>2
  <2>4. Proper(p)
    BY <1>1, <2>1, <2>3 DEF Proper
  <2>5. QED
    BY <2>2, <2>4, SetKeeps
<1>6. ASSUME NEW value \in BOOLEAN, on_set_hello(value) PROVE PrefsInv'
  <2> DEFINE p == [prefs EXCEPT !.hello = value]
  <2>1. p = [timeout |-> prefs.timeout, theme |-> prefs.theme, path |-> prefs.path,
             hello |-> value]
    BY <1>2
  <2>2. Proper(p)
    BY <1>1, <2>1 DEF Proper
  <2>3. QED
    BY <1>6, <2>2, SetKeeps DEF on_set_hello
<1>7. ASSUME NEW secs \in Timeouts, on_set_timeout(secs) PROVE PrefsInv'
  <2> DEFINE p == [prefs EXCEPT !.timeout = secs]
  <2>1. p = [timeout |-> secs, theme |-> prefs.theme, path |-> prefs.path,
             hello |-> prefs.hello]
    BY <1>2
  <2>2. secs \in Number
    BY PrefsAssumption DEF Number
  <2>3. Proper(p)
    BY <1>1, <2>1, <2>2 DEF Proper
  <2>4. QED
    BY <1>7, <2>3, SetKeeps DEF on_set_timeout
<1>8. ASSUME NEW path \in Paths, PickVault(path) PROVE PrefsInv'
  <2> DEFINE p == [prefs EXCEPT !.path = {path}]
  <2>1. p = [timeout |-> prefs.timeout, theme |-> prefs.theme, path |-> {path},
             hello |-> prefs.hello]
    BY <1>2
  <2>2. Proper(p)
    BY <1>1, <2>1 DEF Proper
  <2>3. QED
    BY <1>8, <2>2, SetKeeps DEF PickVault
<1>9. QED
  BY <1>3, <1>4, <1>5, <1>6, <1>7, <1>8 DEF PrefsNext

(* Whatever was written, cut short or not written at all, a program that    *)
(* starts has the settings it was left with, an idle timer that is off only *)
(* if it was to be, and never a timeout of zero.                            *)
THEOREM SettingsAreKept == PrefsSpec => SettingsSurvive
<1>1. PrefsInv /\ [PrefsNext]_prefsVars =>
        [Start => /\ \A p \in left : prefs' = p
                  /\ prefs'.timeout = Off => off
                  /\ ToSet(prefs'.timeout) # {"0"}]_prefsVars
  <2> SUFFICES ASSUME PrefsInv, Start
               PROVE  /\ \A p \in left : prefs' = p
                      /\ prefs'.timeout = Off => off
                      /\ ToSet(prefs'.timeout) # {"0"}
    OBVIOUS
  <2>1. FileSays(prefs')
    BY DEF PrefsInv, Start
  <2>2. prefs'.timeout \in Number \cup {Off}
    BY <2>1 DEF FileSays, Proper
  <2>3. ToSet(prefs'.timeout) # {"0"}
    BY <2>2, NumberIs, OffIs
  <2>4. QED
    BY <2>1, <2>3 DEF FileSays
<1>2. QED
  BY <1>1, InitPrefs, NextPrefs, PTL DEF PrefsSpec, SettingsSurvive

=============================================================================
