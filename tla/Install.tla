------------------------------ MODULE Install -------------------------------
(***************************************************************************)
(* `zcc install` and `zcc uninstall` (install/mod.rs) on Zed's tasks.json  *)
(* and keymap.json, and what `zcc doctor` says of them.  A run may end at  *)
(* any step, killed or by an I/O error; runs do not overlap, but the user  *)
(* saves the files in Zed whenever they like.                              *)
(*                                                                         *)
(* A file is the list of its entries and whether it has comments.  Of a    *)
(* block of key bindings only the four keys that zcc looks at are kept; a  *)
(* block whose cmd-l is "other" stands for one with bindings of the user's *)
(* besides.  A definition whose comment starts with "Slip" is not the code's: it is    *)
(* the one that follows it with a mistake, put in its place to see that a  *)
(* property notices.                                                       *)
(***************************************************************************)
EXTENDS Integers, Sequences, SequencesExt

CONSTANTS
  MaxEntries,  \* bound on the entries of a file before the first run
  MaxSaves     \* bound on the times the user saves a file

ASSUME BoundAssumption == MaxEntries \in Nat /\ MaxSaves \in Nat

VARIABLES
  file,  \* file[f]: the text of tasks.json and of keymap.json
  bak,   \* bak[f]: the text of its backup
  cmd,   \* the run's subcommand
  at,    \* its position: "idle" after a failure, "done" after a success
  cur,   \* the file it is working on
  arr    \* the array it is about to write

\* History.
VARIABLES
  theirs,  \* theirs[f]: the file as the user last saved it
  marks,   \* marks[f]: what has happened to it that costs a guarantee
  saves    \* how often the user has saved a file

runVars == <<cmd, at, cur, arr>>
pastVars == <<theirs, marks, saves>>
vars == <<file, bak, runVars, pastVars>>

-----------------------------------------------------------------------------
Files == {"tasks", "keymap"}

Text(kind, list, comments) == [kind |-> kind, list |-> list, comments |-> comments]
Array(list, comments) == Text("array", list, comments)
Missing == Text("missing", <<>>, FALSE)
Blank == Text("blank", <<>>, FALSE)    \* nothing but white space
Broken == Text("broken", <<>>, FALSE)  \* not JSON5
Object == Text("object", <<>>, FALSE)  \* JSON5, but not an array

Task(label, command) == [label |-> label, command |-> command]
Block(cmd_l, f18, f19, f20) == [cmd_l |-> cmd_l, f18 |-> f18, f19 |-> f19, f20 |-> f20]

zcc_task == Task("zcc-send", "zcc")

zcc_keymap_entries ==
  << Block("SendKeystrokes", "", "", ""),
     Block("", "editor::Copy", "task::Spawn", ""),
     Block("", "", "", "ToggleFocus") >>

Ours(f) == IF f = "tasks" THEN <<zcc_task>> ELSE zcc_keymap_entries

\* Blocks that earlier versions put into keymap.json.
Legacy == {Block("task::Spawn", "", "", ""), Block("", "", "task::Spawn", "ToggleFocus")}

Emitted(f) == ToSet(Ours(f)) \cup (IF f = "tasks" THEN {} ELSE Legacy)

\* Entries of the user's that the code takes for zcc's: a task of that name, and
\* blocks of the user's with a binding, or a pair of them, that zcc gives too.
Lookalikes(f) ==
  IF f = "tasks"
  THEN {Task("zcc-send", "make")}
  ELSE {Block("other", "", "", "ToggleFocus"), Block("other", "editor::Copy", "task::Spawn", "")}

\* The user's entries: these, and others that resemble zcc's less.
Foreign(f) ==
  Lookalikes(f) \cup
    IF f = "tasks"
    THEN {Task("build", "make")}
    ELSE {Block("other", "editor::Copy", "", "")}

\* Whatever a file holds.
Entries(f) == Emitted(f) \cup Foreign(f)

is_zcc_task(v) == v.label = "zcc-send"

\* Slip: the direct binding of an earlier version is forgotten.
CurrentBlockOnly(v) ==
  \/ v.cmd_l = "SendKeystrokes"
  \/ v.f18 = "editor::Copy" /\ v.f19 = "task::Spawn"
  \/ v.f20 = "ToggleFocus"

\* Slip: either binding of the pair will do.
EitherOfThePair(v) ==
  \/ v.cmd_l \in {"SendKeystrokes", "task::Spawn"}
  \/ v.f18 = "editor::Copy" \/ v.f19 = "task::Spawn"
  \/ v.f20 = "ToggleFocus"

\* The last clause of the code, cmd-f19 with cmd-f20, is a case of the third.
is_zcc_keymap_block(v) ==
  \/ v.cmd_l \in {"SendKeystrokes", "task::Spawn"}
  \/ v.f18 = "editor::Copy" /\ v.f19 = "task::Spawn"
  \/ v.f20 = "ToggleFocus"

Matches(f, v) == IF f = "tasks" THEN is_zcc_task(v) ELSE is_zcc_keymap_block(v)

\* The entries of s that are in S, in their order.
Only(s, S) ==
  LET upTo[n \in 0 .. Len(s)] ==
        IF n = 0 THEN <<>>
        ELSE IF s[n] \in S THEN Append(upTo[n - 1], s[n]) ELSE upTo[n - 1]
  IN  upTo[Len(s)]

\* Slip: zcc's entries are not taken out before they are appended.
KeepAll(f) == file[f].list

Retained(f) == Only(file[f].list, {v \in Entries(f) : ~Matches(f, v)})

\* check_file: what doctor prints, and the number it counts.
check_file(f) ==
  IF file[f].kind = "array"
  THEN Len(Only(file[f].list, {v \in Entries(f) : Matches(f, v)}))
  ELSE 0

-----------------------------------------------------------------------------
\* Slip: keymap.json first.
KeymapFirst == <<"keymap", "tasks">>

Order == <<"tasks", "keymap">>

\* install backs a file up first; uninstall does not.
FirstStep(c) == IF c = "install" THEN "backup" ELSE "read"

Begin(c) ==
  /\ at \in {"idle", "done"}
  /\ cmd' = c
  /\ cur' = Order[1]
  /\ at' = FirstStep(c)
  /\ UNCHANGED <<file, bak, arr, pastVars>>

\* The run is through with cur.
Advance ==
  /\ IF cur = Order[1] THEN cur' = Order[2] /\ at' = FirstStep(cmd)
                       ELSE at' = "done" /\ UNCHANGED cur
  /\ arr' = <<>>
  /\ UNCHANGED cmd

\* The run ends with an error.
Fail ==
  /\ at' = "idle"
  /\ arr' = <<>>
  /\ UNCHANGED <<file, bak, cmd, cur, pastVars>>

\* Slip: no backup.
BackupNothing ==
  /\ at = "backup"
  /\ at' = "read"
  /\ UNCHANGED <<file, bak, cmd, cur, arr, pastVars>>

\* backup: a file that exists and has none yet is copied, at once where the file
\* system can clone, else in two steps.
Backup ==
  /\ at = "backup"
  /\ IF file[cur] # Missing /\ bak[cur] = Missing
     THEN \/ at' = "read" /\ bak' = [bak EXCEPT ![cur] = file[cur]]
          \/ at' = "copying" /\ bak' = [bak EXCEPT ![cur] = Broken]
     ELSE at' = "read" /\ UNCHANGED bak
  /\ UNCHANGED <<file, cmd, cur, arr, pastVars>>

BackupEnd ==
  /\ at = "copying"
  /\ at' = "read"
  /\ bak' = [bak EXCEPT ![cur] = file[cur]]
  /\ UNCHANGED <<file, cmd, cur, arr, pastVars>>

\* Slip: a file that does not parse counts as empty.
ReadArrayLeniently ==
  /\ at = "read"
  /\ cmd = "install"
  /\ at' = "truncate"
  /\ arr' = Retained(cur) \o Ours(cur)
  /\ UNCHANGED <<file, bak, cmd, cur, pastVars>>

\* read_array, retain and push of patch_file and patch_file_multi.
ReadArray ==
  /\ at = "read"
  /\ cmd = "install"
  /\ IF file[cur].kind \in {"broken", "object"}
     THEN Fail
     ELSE /\ at' = "truncate"
          /\ arr' = Retained(cur) \o Ours(cur)
          /\ UNCHANGED <<file, bak, cmd, cur, pastVars>>

\* remove_from_file as far as its write: an empty file does not parse here, and
\* one that is no array or holds nothing of zcc's stays as it is.
ReadToRemove ==
  /\ at = "read"
  /\ cmd = "uninstall"
  /\ CASE file[cur].kind \in {"blank", "broken"} -> Fail
       [] file[cur].kind = "array" /\ Retained(cur) # file[cur].list ->
            /\ at' = "truncate"
            /\ arr' = Retained(cur)
            /\ UNCHANGED <<file, bak, cmd, cur, pastVars>>
       [] OTHER -> Advance /\ UNCHANGED <<file, bak, pastVars>>

Mark(f, m, cond) == marks' = [marks EXCEPT ![f] = IF cond THEN @ \cup {m} ELSE @]

\* write_array: the file is emptied ...
Truncate ==
  /\ at = "truncate"
  /\ at' = "write"
  /\ file' = [file EXCEPT ![cur] = Blank]
  /\ Mark(cur, "unbacked", cmd = "uninstall" /\ bak[cur] = Missing)
  /\ UNCHANGED <<bak, cmd, cur, arr, theirs, saves>>

\* ... and written.
Write ==
  /\ at = "write"
  /\ file' = [file EXCEPT ![cur] = Array(arr, FALSE)]
  /\ Advance
  /\ UNCHANGED <<bak, pastVars>>

\* The run is killed or an operation on the file system fails; a write can end
\* half-way.
Abort ==
  /\ at \notin {"idle", "done"}
  /\ at' = "idle"
  /\ arr' = <<>>
  /\ \/ at = "write" /\ file' = [file EXCEPT ![cur] = Broken]
     \/ UNCHANGED file
  /\ IF at = "copying" THEN Mark(cur, "torn", TRUE) ELSE Mark(cur, "cut", at = "write")
  /\ UNCHANGED <<bak, cmd, cur, theirs, saves>>

\* The run has not looked at f yet.
Unread(f) == IF f = cur THEN at = "backup" ELSE cur = Order[1]

\* The user removes or spoils a file, or adds an entry and a comment to it.
Save(f) ==
  /\ saves < MaxSaves
  /\ saves' = saves + 1
  /\ \E t \in {Missing, Broken} \cup {Array(Append(file[f].list, v), TRUE) : v \in Foreign(f)} :
       file' = [file EXCEPT ![f] = t] /\ theirs' = [theirs EXCEPT ![f] = t]
  /\ marks' = [marks EXCEPT ![f] =
       @ \cup (IF bak[f] # Missing THEN {"edited"} ELSE {})
         \cup (IF at \notin {"idle", "done"} /\ ~Unread(f) THEN {"overtaken"} ELSE {})]
  /\ at' = IF at = "done" THEN "idle" ELSE at
  /\ UNCHANGED <<bak, cmd, cur, arr>>

-----------------------------------------------------------------------------
FirstTexts(f) ==
  {Missing, Blank, Broken, Object}
    \cup {Array(l, TRUE) : l \in BoundedSeq(Entries(f), MaxEntries)}

Init ==
  /\ \E t \in FirstTexts("tasks"), k \in FirstTexts("keymap") :
       file = [f \in Files |-> IF f = "tasks" THEN t ELSE k]
  /\ bak = [f \in Files |-> Missing]
  /\ cmd = "install"
  /\ at = "idle"
  /\ cur = "tasks"
  /\ arr = <<>>
  /\ theirs = file
  /\ marks = [f \in Files |-> {}]
  /\ saves = 0

Next ==
  \/ Begin("install") \/ Begin("uninstall")
  \/ Backup \/ BackupEnd \/ ReadArray \/ ReadToRemove \/ Truncate \/ Write
  \/ Abort
  \/ \E f \in Files : Save(f)

Spec == Init /\ [][Next]_vars

-----------------------------------------------------------------------------
(* Properties.  They tell zcc's entries from the user's by what zcc emits, *)
(* not by the code's predicates.                                           *)

TypeOK ==
  /\ \A f \in Files :
       /\ {file[f].kind, bak[f].kind} \subseteq {"missing", "blank", "broken", "object", "array"}
       /\ ToSet(file[f].list) \subseteq Entries(f)
       /\ Len(file[f].list) <= MaxEntries + MaxSaves + Len(Ours(f))
       /\ marks[f] \subseteq {"torn", "cut", "unbacked", "edited", "overtaken"}
  /\ cmd \in {"install", "uninstall"}
  /\ at \in {"idle", "done", "backup", "copying", "read", "truncate", "write"}
  /\ cur \in Files
  /\ arr # <<>> => at \in {"truncate", "write"}
  /\ saves \in 0 .. MaxSaves

\* What is in a text besides zcc's entries and those that look like them.
UserPart(f, t) ==
  IF t.kind \in {"broken", "object"}
  THEN <<t.kind>>
  ELSE Only(t.list, Foreign(f) \ Lookalikes(f))

\* Whatever runs come and go, a file holds all entries of the user's in their order
\* but the lookalikes, unless a write was cut short or the user saved it behind a
\* run's back: nothing that cannot be read as an array is overwritten
\* (install/mod.rs:37-76 and 95-113).  README.md:42 of the repository makes no
\* exception of the lookalikes, which the code removes with all their bindings.
UserEntriesKept ==
  \A f \in Files :
    marks[f] \cap {"cut", "overtaken"} = {} =>
      \/ at = "write" /\ cur = f
      \/ UserPart(f, file[f]) = UserPart(f, theirs[f])

\* What the user last saved, comments and all, is in the file or in its backup, at
\* every step and after every crash, unless the copy was cut short, the backup is
\* older, an uninstall came before any backup, or the save fell between a run's
\* reading of the file and its end (install/mod.rs:78-85).
OriginalKept ==
  \A f \in Files :
    marks[f] \cap {"torn", "edited", "unbacked", "overtaken"} = {} =>
      theirs[f] \in {Missing, file[f], bak[f]}

\* A run that ends well leaves what it says: install each current entry once and no
\* legacy one, uninstall none of them, whatever was there before, and doctor counts
\* the same (install/mod.rs:195-241, doctor.rs:43-78).
EndsAsAnnounced ==
  at = "done" /\ (\A f \in Files : "overtaken" \notin marks[f]) =>
    \A f \in Files :
      LET zcc == Only(file[f].list, Emitted(f))
      IN  /\ zcc = IF cmd = "install" THEN Ours(f) ELSE <<>>
          /\ check_file(f) = Len(zcc)

\* One of zcc's blocks gives a key to the task.
Binds(t) ==
  \E v \in ToSet(t.list) \cap Emitted("keymap") : "task::Spawn" \in {v.cmd_l, v.f19}

\* A run gives a key to the task only when the task is there, however runs were cut
\* short before (install/mod.rs:15-21).  A key that is bound already is another
\* matter: an uninstall goes through the files in the same order, and an install that
\* dies between emptying tasks.json and writing it leaves the key to no task.
NoDanglingBinding ==
  [][~Binds(file["keymap"]) /\ Binds(file'["keymap"]) /\ "overtaken" \notin marks["tasks"]
     => zcc_task \in ToSet(file'["tasks"].list)]_vars
=============================================================================
