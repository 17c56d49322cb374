------------------------------- MODULE Shell -------------------------------
(***************************************************************************)
(* The program around the driver: the hints it is started with, the loop   *)
(* that reads commands (cmd_loop), the sysfs files of the fs command, and  *)
(* the work that the driver leaves for later (include/linux/workqueue.h).  *)
(***************************************************************************)
EXTENDS Naturals, Sequences, FiniteSets

CONSTANTS
  Begins,      \* pairs of a word and a name that starts with it
  Input,       \* lines a user types: tuples of words, the fourth a hint
  HintOption,  \* arguments of -H, a tuple of [from, lines]: a file, a sysfs
               \* entry or a line given directly
  Work,        \* the delayed works of the driver
  Again,       \* the works a work's function may schedule
  MAX_HINTS,   \* the size of the table of hints
  MaxOptions,  \* bound on the options -H
  MaxTold,     \* bound on the pairs taken for hints before one more is typed
  MaxSteps     \* bound on what the driver does with works in one command

ASSUME MaxHintsAssumption == MAX_HINTS \in Nat
ASSUME BoundsAssumption == MaxOptions \in Nat /\ MaxSteps \in Nat

None == "NULL"

ASSUME AgainAssumption == None \notin Work /\ Again \in [Work -> SUBSET Work]

(* A line that may be a hint: a pair, a comment or blank, the title of a   *)
(* section, or none of these.                                              *)
HintLine == [kind : {"pair", "comment", "[codec]", "[hint]", "junk"},
             key : STRING, val : STRING \ {None}]

ASSUME InputAssumption ==
  /\ \A o \in DOMAIN HintOption :
       /\ HintOption[o].from \in {"direct", "sysfs", "file", "none"}
       /\ HintOption[o].lines \in Seq(HintLine)
       /\ HintOption[o].from = "direct" => HintOption[o].lines # <<>>
  /\ \A l \in Input : Len(l) > 3 => l[4] \in HintLine

VARIABLES
  state,       \* where main and cmd_loop are
  line,        \* the line being executed
  lines,       \* the lines of an option still to be read
  hints,       \* codec->hints
  pending,     \* __work_pending
  work,        \* the work whose function is running
  steps,       \* what the driver did with works since the last prompt
  options,     \* the number of options -H so far
  told         \* the pairs the program was given for hints

shell_vars == <<state, line, lines, hints, pending, work, steps, options, told>>

(* The table of commands; "quit" has no handler. *)
usage_str == {"list", "get", "set", "dump", "jack", "unsol", "route", "option",
              "help", "verb", "PCM", "pm", "fs", "quit"}

(* The files and whether they can be read and written. *)
sysfs_entries ==
  [f \in {"driver_pin_configs", "init_pin_configs", "user_pin_configs", "hints",
          "vendor_id", "subsystem_id", "revision_id", "clear", "reconfig"} |->
     [get |-> f \notin {"clear", "reconfig"},
      set |-> f \notin {"driver_pin_configs", "init_pin_configs"}]]

ShellInit ==
  /\ state = "options" /\ line = <<>> /\ lines = <<>>
  /\ hints = <<>> /\ pending = None /\ work = None /\ steps = 0
  /\ options = 0 /\ told = <<>>
----------------------------------------------------------------------------
(* Hints *)

get_hint(tbl, key) == {i \in DOMAIN tbl : tbl[i].key = key}

snd_hda_get_hint(tbl, key) ==
  IF get_hint(tbl, key) = {} THEN None ELSE tbl[CHOOSE i \in get_hint(tbl, key) : TRUE].val

(* A hint without a value counts as none; the first letter decides. *)
snd_hda_get_bool_hint(tbl, key) ==
  CASE snd_hda_get_hint(tbl, key) \in {None, ""} -> "ENOENT"
    [] snd_hda_get_hint(tbl, key) \in {"true", "yes", "1"} -> "1"
    [] OTHER -> "0"

\* Mutant: a hint that is there already is not replaced.
_parse_hints_keeps(tbl, l) ==
  IF l.kind # "pair" \/ get_hint(tbl, l.key) # {} \/ Len(tbl) >= MAX_HINTS THEN tbl
  ELSE Append(tbl, [key |-> l.key, val |-> l.val])

\* Mutant: one hint too many is let in.
_parse_hints_over(tbl, l) ==
  IF l.kind # "pair" THEN tbl
  ELSE IF get_hint(tbl, l.key) # {}
  THEN [i \in DOMAIN tbl |-> IF i \in get_hint(tbl, l.key) THEN [tbl[i] EXCEPT !.val = l.val]
                             ELSE tbl[i]]
  ELSE IF Len(tbl) > MAX_HINTS THEN tbl
  ELSE Append(tbl, [key |-> l.key, val |-> l.val])

(* A full table takes new values of its keys, and no new keys. *)
_parse_hints(tbl, l) ==
  IF l.kind # "pair" THEN tbl
  ELSE IF get_hint(tbl, l.key) # {}
  THEN [i \in DOMAIN tbl |-> IF i \in get_hint(tbl, l.key) THEN [tbl[i] EXCEPT !.val = l.val]
                             ELSE tbl[i]]
  ELSE IF Len(tbl) >= MAX_HINTS THEN tbl
  ELSE Append(tbl, [key |-> l.key, val |-> l.val])

(* _parse_hints refuses a line that is neither a pair nor a comment, and   *)
(* a new key when the table is full.                                       *)
Refused(tbl, l) ==
  \/ l.kind = "junk"
  \/ l.kind = "pair" /\ get_hint(tbl, l.key) = {} /\ Len(tbl) >= MAX_HINTS

Parse(l) ==
  /\ hints' = _parse_hints(hints, l)
  /\ told' = IF l.kind = "pair" THEN Append(told, l) ELSE told

(* Main finds the file, the entry or the line that an option -H names, or  *)
(* ends.                                                                   *)
load_init_hints(o) ==
  /\ state = "options"
  /\ options < MaxOptions
  /\ options' = options + 1
  /\ lines' = HintOption[o].lines
  /\ state' = IF HintOption[o].from = "none" THEN "exit" ELSE HintOption[o].from
  /\ UNCHANGED <<line, hints, pending, work, steps, told>>

(* Only a pair on the command line has to be right. *)
DirectHint ==
  /\ state = "direct"
  /\ Parse(lines[1])
  /\ lines' = <<>>
  /\ state' = IF Refused(hints, lines[1]) THEN "exit" ELSE "options"
  /\ UNCHANGED <<line, pending, work, steps, options>>

(* What a file or an entry holds is taken as far as it is right.  Behind   *)
(* the [codec] line of a firmware file, only the lines of a [hint] section *)
(* would be taken; but the code compares the title with its line end and   *)
(* never finds one.                                                        *)
ReadHint ==
  /\ state \in {"sysfs", "file", "fw_file"}
  /\ lines # <<>>
  /\ IF state = "fw_file" THEN UNCHANGED <<hints, told>> ELSE Parse(Head(lines))
  /\ lines' = Tail(lines)
  /\ state' = IF state = "file" /\ Head(lines).kind = "[codec]" THEN "fw_file" ELSE state
  /\ UNCHANGED <<line, pending, work, steps, options>>

EndOfHints ==
  /\ state \in {"sysfs", "file", "fw_file"}
  /\ lines = <<>>
  /\ state' = "options"
  /\ UNCHANGED <<line, lines, hints, pending, work, steps, options, told>>
----------------------------------------------------------------------------
(* Delayed work has one place, and cancelling it does nothing. *)

schedule_delayed_work(w) == pending' = w /\ work' = None

cancel_delayed_work_sync(w) == UNCHANGED <<pending, work>>

(* Work that is not delayed runs at once. *)
schedule_work(w) == work' = w /\ UNCHANGED pending

(* The place is free before the function runs, which may take it again.    *)
flush_scheduled_work == work' = pending /\ pending' = None

(* What the driver may do with works while the program runs it; it flushes *)
(* them with flush_work or flush_workqueue.                                *)
WorkCall ==
  \/ \E w \in Work : schedule_delayed_work(w)
  \/ \E w \in Work : cancel_delayed_work_sync(w)
  \/ \E w \in Work : schedule_work(w)
  \/ flush_scheduled_work

DriverCall ==
  /\ state \in {"configure", "driver"} /\ work = None
  /\ steps < MaxSteps
  /\ WorkCall
  /\ steps' = steps + 1
  /\ UNCHANGED <<state, line, lines, hints, options, told>>

(* The function of a work schedules a work, perhaps itself, and returns to *)
(* the handler or to the loop that flushed.                                *)
WorkSchedules ==
  /\ work # None
  /\ steps < MaxSteps
  /\ pending' \in Again[work]
  /\ steps' = steps + 1
  /\ UNCHANGED <<state, line, lines, hints, work, options, told>>

\* Mutant: the place is cleared when the function has returned.
WorkReturns_clears ==
  /\ work # None
  /\ work' = None
  /\ pending' = None
  /\ UNCHANGED <<state, line, lines, hints, steps, options, told>>

WorkReturns ==
  /\ work # None
  /\ work' = None
  /\ UNCHANGED <<state, line, lines, hints, pending, steps, options, told>>
----------------------------------------------------------------------------
(* The commands *)

snd_hda_codec_configure ==
  /\ state = "options"
  /\ state' = "configure"
  /\ UNCHANGED <<line, lines, hints, pending, work, steps, options, told>>

Goto(from, to) ==
  /\ state = from /\ work = None
  /\ state' = to
  /\ steps' = 0
  /\ UNCHANGED <<line, lines, hints, pending, work, options, told>>

(* The driver is bound, powered down and the loop starts. *)
cmd_loop == Goto("configure", "prompt")

StartsWith(word, name) == word = name \/ <<word, name>> \in Begins

(* A command is known by any beginning that is no other's. *)
cmd_match(word) == {c \in usage_str : StartsWith(word, c)}

(* A file by its name, or as a command. *)
find_sysfs_entry(word) ==
  IF word \in DOMAIN sysfs_entries THEN {word}
  ELSE {f \in DOMAIN sysfs_entries : StartsWith(word, f)}

Only(names, name) == names = {name}

(* fs get and fs set, with a file that can be read or written. *)
handle_sysfs(l, name) ==
  /\ Len(l) >= 3 /\ Only(find_sysfs_entry(l[3]), name)
  /\ l[2] \in {"get", "set"}
  /\ sysfs_entries[name][l[2]]

(* Where a line takes the loop: to the end of the program, to a handler    *)
(* that calls the driver or sets a hint, or, with the help texts or other  *)
(* output, to the end of the turn.                                         *)
Branch(l) ==
  LET known(c) == l # <<>> /\ Only(cmd_match(l[1]), c)
  IN  CASE known("quit") -> "exit"
        [] known("fs") /\ handle_sysfs(l, "hints") /\ l[2] = "set" -> "set_hints"
        [] known("fs") /\ (handle_sysfs(l, "clear") \/ handle_sysfs(l, "reconfig")) -> "driver"
        [] \E c \in {"get", "set", "dump", "unsol", "jack", "option", "verb", "PCM", "pm"} : known(c) ->
             "driver"
        [] OTHER -> "next"

(* The user types a line, or closes the input. *)
readline(l) ==
  /\ state = "prompt"
  /\ line' = l
  /\ state' = Branch(l)
  /\ state' = "set_hints" => Len(told) < MaxTold
  /\ UNCHANGED <<lines, hints, pending, work, steps, options, told>>

EndOfInput ==
  /\ state = "prompt"
  /\ state' = "exit"
  /\ UNCHANGED <<line, lines, hints, pending, work, steps, options, told>>

(* A handler returns to the loop. *)
Return == Goto("driver", "next")

(* The rest of the line may be empty, which is taken like a blank line. *)
set_hints ==
  /\ state = "set_hints"
  /\ IF Len(line) > 3 THEN Parse(line[4]) ELSE UNCHANGED <<hints, told>>
  /\ state' = "next"
  /\ UNCHANGED <<line, lines, pending, work, steps, options>>

(* Every turn of the loop ends with the work that is pending. *)
EndTurn ==
  /\ state = "next"
  /\ flush_scheduled_work
  /\ state' = "flush"
  /\ line' = <<>>
  /\ UNCHANGED <<lines, hints, steps, options, told>>

Prompt == Goto("flush", "prompt")

(* What the program does by itself. *)
Program ==
  \/ DirectHint
  \/ ReadHint
  \/ EndOfHints
  \/ snd_hda_codec_configure
  \/ DriverCall
  \/ WorkSchedules
  \/ WorkReturns
  \/ cmd_loop
  \/ Return
  \/ set_hints
  \/ EndTurn
  \/ Prompt

ShellNext ==
  \/ \E o \in DOMAIN HintOption : load_init_hints(o)
  \/ Program
  \/ \E l \in Input : readline(l)
  \/ EndOfInput

(* The program goes on by itself; nobody makes the user type a line. *)
ShellSpec == ShellInit /\ [][ShellNext]_shell_vars /\ WF_shell_vars(Program)
----------------------------------------------------------------------------
ShellTypeOK ==
  /\ state \in {"options", "direct", "sysfs", "file", "fw_file", "configure", "prompt", "driver",
                "set_hints", "next", "flush", "exit"}
  /\ line \in Input \cup {<<>>}
  /\ Len(hints) <= MAX_HINTS
  /\ \A i, j \in DOMAIN hints : hints[i].key = hints[j].key => i = j
  /\ {pending, work} \subseteq Work \cup {None}
  /\ steps \in 0 .. MaxSteps
  /\ options \in 0 .. MaxOptions

(* The keys that found a place: the first MAX_HINTS different ones. *)
Before(k) == {told[j].key : j \in 1 .. k - 1}
Stored(key) ==
  \E k \in DOMAIN told : told[k].key = key /\ Cardinality(Before(k) \ {key}) < MAX_HINTS

LastTold(key) ==
  CHOOSE k \in DOMAIN told : told[k].key = key /\ \A j \in k + 1 .. Len(told) : told[j].key # key

(* A hint has the value it was given last, wherever that came from and     *)
(* however full the table was; a hint that is missing was never given or   *)
(* met a full table (_parse_hints, snd_hda_get_hint).                      *)
HintsLast ==
  \A key \in {told[k].key : k \in DOMAIN told} :
    /\ snd_hda_get_hint(hints, key) = IF Stored(key) THEN told[LastTold(key)].val ELSE None
    /\ snd_hda_get_bool_hint(hints, key) = "ENOENT" <=> ~Stored(key) \/ told[LastTold(key)].val = ""

(* Work that was scheduled is not lost: it stays pending until it runs or  *)
(* another takes its place (__work_pending has one), also when it is       *)
(* scheduled by the function of a work that is being flushed.              *)
WorkKept ==
  [][pending # None => \/ pending' = pending
                       \/ work' = pending
                       \/ pending' # None]_shell_vars

(* And it does not wait behind the command it was scheduled in: the turn   *)
(* ends with the work taken, or the program ends.                          *)
WorkRuns ==
  /\ WorkKept
  /\ \A w \in Work :
       pending = w /\ state \in {"driver", "next"} ~> pending # w \/ work = w \/ state = "exit"
=============================================================================
