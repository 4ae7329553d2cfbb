----------------------------- MODULE VaultPrefs ------------------------------
(***************************************************************************)
(* The settings of the desktop program (prefs.rs) and the file it keeps    *)
(* them in (main.rs: startup, the setters, persist_prefs). Every setter    *)
(* writes the whole file again with std::fs::write, which empties it and   *)
(* fills it: a crash or an error in between leaves a part of the text.     *)
(*                                                                         *)
(* A line of the text is a key and a value, and a value a sequence of      *)
(* characters. What is left of a line that is cut in its key says nothing  *)
(* and is left out, as are blank lines, comments and unknown keys.         *)
(***************************************************************************)
EXTENDS Naturals, Sequences, SequencesExt


CONSTANTS
  Timeouts,       \* what the settings screen offers, in digits
  DefaultTimeout, \* 300
  Paths           \* the vaults that may be picked

VARIABLES
  program,  \* "off" or "running"
  prefs,    \* the settings in memory
  lines,     \* the file: lines, or NoText
  \* History, read by the properties only:
  left,     \* the settings written last, or none if the writing failed
  off       \* the idle timer was off in settings written last or since

prefsVars == <<program, prefs, lines, left, off>>

Digits == {"0", "1", "2", "3", "4", "5", "6", "7", "8", "9"}
Off == <<"o", "f", "f">>

ASSUME PrefsAssumption ==
  \A t \in Timeouts \cup {DefaultTimeout} :
    t \in Seq(Digits) /\ t # <<>> /\ t[1] # "0"

Light == <<"li", "ght">>
Dark == <<"da", "rk">>
System == <<"sys", "tem">>
Yes == <<"tr", "ue">>
No == <<"fal", "se">>

Settings ==
  [timeout : Timeouts \cup {Off, DefaultTimeout}, theme : {Light, Dark, System},
   path : {{}} \cup {{p} : p \in Paths}, hello : BOOLEAN]

Default == [timeout |-> DefaultTimeout, theme |-> System, path |-> {}, hello |-> FALSE]

(* There is no file, or it is not text: cut inside a character of the path. *)
NoText == <<[key |-> "none", value |-> <<>>]>>

-----------------------------------------------------------------------------
Line(key, value) == <<[key |-> key, value |-> value]>>

ToSerialized(p) ==
  Line("idle_timeout_secs", p.timeout) \o Line("theme", p.theme)
    \o (IF p.path = {} THEN <<>> ELSE Line("last_vault_path", CHOOSE q \in p.path : TRUE))
    \o Line("hello_enabled", IF p.hello THEN Yes ELSE No)

IsNumber(v) == v # <<>> /\ ToSet(v) \subseteq Digits

(* A number, "off", or what was there before.                               *)
ParsedOrOff(v, before) == IF IsNumber(v) THEN v ELSE Off
ParsedTimeout(v, before) == IF v = Off \/ IsNumber(v) THEN v ELSE before

ParsedTheme(v) == IF v \in {Light, Dark} THEN v ELSE System

ParsedFlag(v, before) == (v = Yes) \/ (before /\ v # No)

Parsed(p, line) ==
  CASE line.key = "idle_timeout_secs" ->
         [p EXCEPT !.timeout = ParsedTimeout(line.value, @)]
    [] line.key = "theme" -> [p EXCEPT !.theme = ParsedTheme(line.value)]
    [] line.key = "last_vault_path" -> [p EXCEPT !.path = {line.value}]
    [] line.key = "hello_enabled" -> [p EXCEPT !.hello = ParsedFlag(line.value, @)]
    [] OTHER -> p

FromSerialized(t) == FoldLeft(Parsed, Default, t)

(* What a write that was cut short may leave of t.                          *)
CutValue(line, n) == Line(line.key, SubSeq(line.value, 1, n))

Cuts(t) ==
  UNION {{SubSeq(t, 1, i - 1) \o c :
            c \in {<<>>} \cup {CutValue(t[i], n) : n \in 0 .. Len(t[i].value)}} :
           i \in DOMAIN t}

-----------------------------------------------------------------------------
(* A file the user wrote may turn the idle timer off; the settings screen   *)
(* does not offer it.                                                       *)
PrefsIdle ==
  /\ program = "none" /\ prefs = Default /\ lines = NoText
  /\ left = {} /\ off = FALSE

PrefsInit ==
  /\ program = "off"
  /\ prefs = Default
  /\ \/ lines = NoText /\ left = {Default} /\ off = FALSE
     \/ \E p \in Settings :
          lines = ToSerialized(p) /\ left = {p} /\ off = (p.timeout = Off)

Start ==
  /\ program = "off"
  /\ program' = "running"
  /\ prefs' = FromSerialized(lines)
  /\ UNCHANGED <<lines, left, off>>

(* persist_prefs: its error is dropped and the program goes on, or it is    *)
(* killed.                                                                  *)
Written(p) ==
  /\ lines' = ToSerialized(p) /\ left' = {p} /\ off' = (p.timeout = Off)
  /\ program' = "running"

NotWritten(p) ==
  /\ \/ lines' \in Cuts(ToSerialized(p))
     \/ p.path # {} /\ lines' = NoText
     \/ left # {} /\ UNCHANGED lines  \* bound: not opened, once in a row
  /\ left' = {} /\ off' = (off \/ p.timeout = Off)
  /\ program' \in {"running", "off"}

Set(p) ==
  /\ program = "running"
  /\ prefs' = p
  /\ Written(p) \/ NotWritten(p)

on_set_dark(value) == Set([prefs EXCEPT !.theme = IF value THEN Dark ELSE Light])
on_set_timeout(secs) == Set([prefs EXCEPT !.timeout = secs])
on_set_hello(value) == Set([prefs EXCEPT !.hello = value])
PickVault(path) == Set([prefs EXCEPT !.path = {path}])

Exit ==
  /\ program = "running"
  /\ program' = "off"
  /\ UNCHANGED <<prefs, lines, left, off>>

PrefsNext ==
  \/ Start \/ Exit
  \/ \E value \in BOOLEAN : on_set_dark(value) \/ on_set_hello(value)
  \/ \E secs \in Timeouts : on_set_timeout(secs)
  \/ \E path \in Paths : PickVault(path)

PrefsSpec == PrefsInit /\ [][PrefsNext]_prefsVars

-----------------------------------------------------------------------------
(* A program that starts has the settings it was left with if they were     *)
(* written. Whatever a write that failed or was cut short left of them, the *)
(* idle timer is off only if the settings it was to write had it off, and   *)
(* its timeout is never zero, which would lock at every tick.               *)
SettingsSurvive ==
  [][Start =>
       /\ \A p \in left : prefs' = p
       /\ prefs'.timeout = Off => off
       /\ ToSet(prefs'.timeout) # {"0"}]_prefsVars

=============================================================================
