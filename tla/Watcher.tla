------------------------------- MODULE Watcher -------------------------------
(***************************************************************************)
(* The auto-lock watcher as a thread (watcher/mod.rs): `spawn` starts it   *)
(* and waits for its window, `run` sets the window up, handles messages    *)
(* and takes everything down again, `stop` posts WM_CLOSE and joins. The   *)
(* window keeps a pointer to the boxed state in its user-data slot, which  *)
(* the window procedure reads at every message.                            *)
(*                                                                         *)
(* It also holds the clock: idle_duration takes two values that wrap,      *)
(* one after the other, while time passes and the user types. What a lock  *)
(* does to the session is VaultGui's subject.                              *)
(***************************************************************************)
EXTENDS Naturals, Sequences

CONSTANTS
  TimeoutTicks,  \* the timeout the watcher was spawned with
  Wrap,          \* 2^32 in the code: ticks before GetTickCount starts again
  MaxIdleTicks   \* bound: ticks without input that are told apart

ASSUME WatcherAssumption ==
  /\ {TimeoutTicks, Wrap, MaxIdleTicks} \subseteq Nat \ {0}
  /\ TimeoutTicks < Wrap /\ Wrap <= MaxIdleTicks

VARIABLES
  main,     \* what the main thread is doing
  step,     \* the step of `run` the watcher's thread takes next
  window,   \* the message-only window
  slot,     \* whether its user-data slot holds the pointer
  raw,      \* the pointer as read back by the cleanup
  box,      \* the state the pointer is to
  notify,   \* whether the window is registered for session notifications
  timer,    \* whether the timer is armed
  messages, \* posted to the window, but for WM_QUIT
  quit,     \* WM_QUIT is posted
  latch,    \* fired
  now,      \* GetTickCount
  input,    \* the tick of the last input (LASTINPUTINFO)
  read,     \* the tick of the last input as idle_duration read it
  \* History, read by the properties only:
  lost,     \* `stop` could not post its WM_CLOSE
  quiet,    \* ticks since the last input, which do not wrap
  measured  \* the same since the input that was read

lifeVarsButStep == <<main, window, slot, raw, box, notify, timer>>
lifeVars == <<step, lifeVarsButStep>>
pumpVars == <<messages, quit, latch, lost>>
clockVars == <<now, input, read, quiet, measured>>
watcherThreadVars == <<lifeVars, pumpVars, clockVars>>

WatcherIdle ==
  /\ main = "none" /\ step = "none"
  /\ window = "none" /\ slot = FALSE /\ raw = FALSE /\ box = "none"
  /\ notify = FALSE /\ timer = FALSE
  /\ messages = <<>> /\ quit = FALSE /\ latch = FALSE
  /\ now = 0 /\ input = 0 /\ read = 0 /\ quiet = 0 /\ measured = 0
  /\ lost = FALSE

(* `spawn` has started the thread and waits for the handle.                 *)
WatcherInit ==
  /\ main = "spawning" /\ step = "class"
  /\ window = "none" /\ slot = FALSE /\ raw = FALSE /\ box = "none"
  /\ notify = FALSE /\ timer = FALSE
  /\ messages = <<>> /\ quit = FALSE /\ latch = FALSE
  /\ now \in 0 .. Wrap - 1 /\ input = now
  /\ read = 0 /\ quiet = 0 /\ measured = 0 /\ lost = FALSE

-----------------------------------------------------------------------------
(* Setting up. Each call that fails panics, which ends the thread: the      *)
(* channel closes, and so does `spawn` and the program with it.             *)

Step(from, to) == step = from /\ step' = to

RegisterClass ==
  /\ Step("class", "window")
  /\ UNCHANGED <<lifeVarsButStep, pumpVars, clockVars>>

CreateWindow ==
  /\ Step("window", "state")
  /\ window' = "alive"
  /\ UNCHANGED <<main, slot, raw, box, notify, timer, pumpVars, clockVars>>

StashState ==
  /\ Step("state", "notify")
  /\ slot' = TRUE /\ box' = "alive"
  /\ UNCHANGED <<main, window, raw, notify, timer, pumpVars, clockVars>>

RegisterNotification ==
  /\ Step("notify", "timer")
  /\ notify' = TRUE
  /\ UNCHANGED <<main, window, slot, raw, box, timer, pumpVars, clockVars>>

SetTimer ==
  /\ Step("timer", "hand")
  /\ timer' = TRUE
  /\ UNCHANGED <<main, window, slot, raw, box, notify, pumpVars, clockVars>>

Panic ==
  /\ step \in {"class", "window", "notify", "timer"}
  /\ step' = "panicked"
  /\ UNCHANGED <<lifeVarsButStep, pumpVars, clockVars>>

HandOver ==
  /\ Step("hand", "pump")
  /\ UNCHANGED <<lifeVarsButStep, pumpVars, clockVars>>

-----------------------------------------------------------------------------
(* The message pump                                                         *)

(* Without the state the window procedure does nothing of its own; quitting *)
(* is left to the end of the loop, so that the window outlives it.          *)
Ignored == UNCHANGED <<window, slot, quit>>
OnlyQuits == quit' = TRUE /\ UNCHANGED <<window, slot>>

HandleClose == OnlyQuits

Handle ==
  /\ step = "pump"
  /\ messages # <<>>
  /\ messages' = Tail(messages)
  /\ CASE Head(messages) = "close" /\ slot -> HandleClose /\ UNCHANGED step
       [] Head(messages) = "timer" /\ slot ->
            step' = "first" /\ UNCHANGED <<quit, window, slot>>
       [] OTHER -> UNCHANGED <<quit, window, slot, step>>
  /\ UNCHANGED <<main, raw, box, notify, timer, latch, clockVars, lost>>

(* idle_duration looks at the last input, or at nothing when that fails ... *)
ReadInput ==
  /\ Step("first", "second")
  /\ read' = input
  /\ measured' = quiet
  /\ UNCHANGED <<lifeVarsButStep, pumpVars, now, input, quiet>>

LookFails ==
  /\ Step("first", "pump")
  /\ latch' = FALSE
  /\ UNCHANGED <<lifeVarsButStep, messages, quit, clockVars, lost>>

(* ... and then at the clock. One lock for each idle period: the latch is   *)
(* set with the first tick that reports it, cleared with the first that     *)
(* does not.                                                                *)
SaturatingSubTicks(a, b) == IF a >= b THEN a - b ELSE 0
WrappingSub(a, b) == (a + Wrap - b) % Wrap

Decide ==
  /\ Step("second", "pump")
  /\ latch' = (WrappingSub(now, read) >= TimeoutTicks)
  /\ read' = 0 /\ measured' = 0
  /\ UNCHANGED <<lifeVarsButStep, messages, quit, now, input, quiet, lost>>

(* WM_QUIT is what GetMessage returns when there is nothing else.           *)
Quit ==
  /\ Step("pump", "kill")
  /\ messages = <<>> /\ quit
  /\ UNCHANGED <<lifeVarsButStep, pumpVars, clockVars>>

-----------------------------------------------------------------------------
(* Taking down                                                              *)

KillTimer ==
  /\ Step("kill", "unregister")
  /\ timer' = (timer /\ window # "alive")
  /\ UNCHANGED <<main, window, slot, raw, box, notify, pumpVars, clockVars>>

UnregisterNotification ==
  /\ Step("unregister", "clear")
  /\ notify' = (notify /\ window # "alive")
  /\ UNCHANGED <<main, window, slot, raw, box, timer, pumpVars, clockVars>>

(* The slot is read and cleared before the state is dropped.                *)
KeptSlot == slot
ClearedSlot == FALSE

ClearSlot ==
  /\ Step("clear", "drop")
  /\ raw' = slot
  /\ slot' = ClearedSlot
  /\ UNCHANGED <<main, window, box, notify, timer, pumpVars, clockVars>>

DropState ==
  /\ Step("drop", "destroy")
  /\ box' = IF raw THEN "freed" ELSE box
  /\ raw' = FALSE
  /\ UNCHANGED <<main, window, slot, notify, timer, pumpVars, clockVars>>

DestroyWindow ==
  /\ Step("destroy", "ended")
  /\ window' = "destroyed" /\ slot' = FALSE
  /\ UNCHANGED <<main, raw, box, notify, timer, pumpVars, clockVars>>

-----------------------------------------------------------------------------
(* The main thread                                                          *)

Spawned ==
  /\ main = "spawning"
  /\ step \notin {"class", "window", "state", "notify", "timer", "hand"}
  /\ main' = IF step = "panicked" THEN "panicked" ELSE "running"
  /\ UNCHANGED <<step, window, slot, raw, box, notify, timer, pumpVars, clockVars>>

(* The event loop is over: `stop` posts WM_CLOSE, and joins. PostMessageW   *)
(* may fail, also while the window is there (a full queue); its error is    *)
(* dropped, and the join follows all the same.                              *)
Stop ==
  /\ main = "running"
  /\ main' = "stopping"
  /\ \/ /\ window = "alive"
        /\ messages' = Append(messages, "close")
        /\ UNCHANGED lost
     \/ lost' = TRUE /\ UNCHANGED messages
  /\ UNCHANGED <<step, window, slot, raw, box, notify, timer, quit, latch, clockVars>>

Join ==
  /\ main = "stopping"
  /\ step = "ended"
  /\ main' = "done"
  /\ UNCHANGED <<step, window, slot, raw, box, notify, timer, pumpVars, clockVars>>

-----------------------------------------------------------------------------
(* The system and the user. Of each kind at most one message waits: WM_TIMER *)
(* is posted once until it is taken, and the others come seldom.            *)
Post(message) ==
  /\ \A i \in DOMAIN messages : messages[i] # message
  /\ messages' = Append(messages, message)
  /\ UNCHANGED <<lifeVars, quit, latch, clockVars, lost>>

SystemMessage ==
  /\ window = "alive" /\ ~quit
  /\ \/ timer /\ Post("timer")
     \/ notify /\ Post("session lock")
     \/ Post("suspend")

Counted(n) == IF n < MaxIdleTicks THEN n + 1 ELSE n

TimePasses ==
  /\ main # "none"
  /\ now' = (now + 1) % Wrap
  /\ quiet' = Counted(quiet)
  /\ measured' = IF step = "second" THEN Counted(measured) ELSE 0
  /\ UNCHANGED <<lifeVars, pumpVars, input, read>>

UserInput ==
  /\ main # "none"
  /\ input' = now /\ quiet' = 0
  /\ UNCHANGED <<lifeVars, pumpVars, now, read, measured>>

-----------------------------------------------------------------------------
SetUp ==
  RegisterClass \/ CreateWindow \/ StashState \/ RegisterNotification \/ SetTimer \/ HandOver

Pump == Handle \/ ReadInput \/ LookFails \/ Decide \/ Quit

TakeDown == KillTimer \/ UnregisterNotification \/ ClearSlot \/ DropState \/ DestroyWindow

MainThread == Spawned \/ Stop \/ Join

WatcherNext ==
  \/ SetUp \/ Panic \/ Pump \/ TakeDown \/ MainThread
  \/ SystemMessage \/ TimePasses \/ UserInput

WatcherFair ==
  /\ WF_watcherThreadVars(SetUp \/ Pump \/ TakeDown)
  /\ WF_watcherThreadVars(Spawned \/ Join)

WatcherSpec == WatcherInit /\ [][WatcherNext]_watcherThreadVars /\ WatcherFair

-----------------------------------------------------------------------------
(* Whatever message comes at whatever step, the pointer in the slot is to a *)
(* state that is still there; and when the thread is over, the state was    *)
(* dropped and the timer and the registration were taken off a window that  *)
(* was still there for it.                                                  *)
StateOutlivesMessages ==
  /\ slot => window = "alive" /\ box = "alive"
  /\ step = "ended" => window = "destroyed" /\ box = "freed" /\ ~timer /\ ~notify

(* A tick takes the system for idle if, and up to the wrap of the clock     *)
(* only if, no input came for the timeout before the look at it: neither    *)
(* the wrap of the two values nor what happens between the two looks locks  *)
(* early or misses a lock.                                                  *)
IdleIsTrue ==
  [][step = "second" /\ step' = "pump" =>
       /\ latch' => measured >= TimeoutTicks
       /\ measured \in TimeoutTicks .. Wrap - 1 => latch']_watcherThreadVars

(* Neither thread waits for the other for ever: `spawn` gets its handle or  *)
(* the end of the thread, and the `join` of `stop` returns if the WM_CLOSE  *)
(* was posted, whatever is handled then. If it could not be, the error is   *)
(* dropped and the join never returns: that deadlock the code does have.    *)
StopReturns ==
  main \in {"spawning", "stopping"} ~> main \in {"running", "done", "panicked"} \/ lost

=============================================================================
