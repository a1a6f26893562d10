------------------------------ MODULE Checklist ------------------------------
(***************************************************************************)
(* The checklist of the long-running agent (checklist.go and the second    *)
(* half of executeHeartbeat in longrun.go): a file of marked lines that    *)
(* the user edits and the heartbeats work off.  A line is known by its     *)
(* position only, it is marked by reading and writing the whole file, and  *)
(* the file is empty while it is being written.  No lock is involved.      *)
(***************************************************************************)
EXTENDS Integers, Sequences, FiniteSets, SequencesExt

CONSTANTS
    Lines,          \* what the lines of the file say
    FirstFile,      \* the file at the beginning
    Beats,          \* heartbeats, of which the cron job may overlap some
    Quota,          \* LongRunConfig.MaxAutonomousActions
    MaxMishaps,     \* bound: edits, reads and writes that fail, crashes
    MaxTries        \* bound: executions of an item

Mark == {"open", "approval", "busy", "done"}
FileLine == [item : Lines, mark : Mark]

\* The lines at the beginning differ: an item is known by what its line says.
ASSUME ChecklistAssumption ==
    /\ IsFiniteSet(Lines) /\ IsFiniteSet(Beats)
    /\ FirstFile \in Seq(FileLine)
    /\ \A m, n \in DOMAIN FirstFile : FirstFile[m].item = FirstFile[n].item => m = n
    /\ Quota \in Nat \ {0}
    /\ MaxMishaps \in Nat /\ MaxTries \in Nat

VARIABLES
    askFirst,     \* LongRunConfig.RequireApproval
    file,         \* HEARTBEAT.md
    itemPc,       \* where each heartbeat is
    listed,       \* the items it has still to look at: position and line
    acts,         \* its actionsTaken
    content,      \* the file as updateChecklistItem has read it
    mishaps,      \* so far: edits, failures, crashes
    ownLines,     \* history: the items the user has put into the file
    shifted,      \* history: heartbeats that began before the last edit
    tries,        \* history: how often each item was executed
    excused,      \* history: items that may be executed again
    torn          \* history: the file was written or read during a write

workVars == <<itemPc, listed, acts, content>>
checklistHistory == <<ownLines, shifted, tries, excused, torn>>
checklistVars == <<askFirst, file, workVars, mishaps, checklistHistory>>

ItemsOf(lines) == {lines[i].item : i \in DOMAIN lines}

ChecklistTypeOK ==
    /\ askFirst \in BOOLEAN
    /\ file \in Seq(FileLine)
    /\ itemPc \in [Beats -> {"off", "items", "execute", "read", "truncate", "write"}]
    /\ listed \in [Beats -> SUBSET [at : Nat \ {0}, line : FileLine]]
    /\ acts \in [Beats -> 0..Quota]
    /\ content \in [Beats -> Seq(FileLine)]
    /\ mishaps \in [{"edit", "fault", "crash"} -> 0..MaxMishaps]
    /\ ownLines \subseteq Lines /\ excused \subseteq Lines
    /\ shifted \subseteq Beats /\ torn \in BOOLEAN
    /\ tries \in [Lines -> 0..MaxTries]

ChecklistInit ==
    /\ askFirst \in BOOLEAN
    /\ file = FirstFile
    /\ itemPc = [b \in Beats |-> "off"]
    /\ listed = [b \in Beats |-> {}]
    /\ acts = [b \in Beats |-> 0]
    /\ content = [b \in Beats |-> <<>>]
    /\ mishaps = [m \in {"edit", "fault", "crash"} |-> 0]
    /\ ownLines = ItemsOf(FirstFile)
    /\ shifted = {} /\ tries = [i \in Lines |-> 0] /\ excused = {} /\ torn = FALSE

Working == {b \in Beats : itemPc[b] # "off"}
\* Something goes wrong, or the user interferes.
Mishap(m) ==
    /\ mishaps["edit"] + mishaps["fault"] + mishaps["crash"] < MaxMishaps
    /\ mishaps' = [mishaps EXCEPT ![m] = @ + 1]

Updating == {b \in Beats : itemPc[b] \in {"truncate", "write"}}
Writing == {b \in Beats : itemPc[b] = "write"}

-----------------------------------------------------------------------------
(* The user *)

\* An edit of an open file: a new line, one line less, or a mark taken back.
EditedFiles ==
       {<<l>> \o file : l \in [item : Lines \ ownLines, mark : {"open", "approval"}]}
  \cup {RemoveAt(file, n) : n \in DOMAIN file}
  \cup {[file EXCEPT ![n].mark = "open"] : n \in DOMAIN file}

UserEdits(f) ==
    /\ Mishap("edit") /\ f # file /\ f \in EditedFiles
    /\ file' = f
    /\ ownLines' = ItemsOf(f) \cup (IF Writing # {} THEN ownLines ELSE {})
    /\ shifted' = Working
    /\ excused' = excused \cup Lines
    /\ torn' = (torn \/ Updating # {})
    /\ UNCHANGED <<askFirst, workVars, tries>>

-----------------------------------------------------------------------------
(* A heartbeat: the items *)

OpenLines(lines) == {n \in DOMAIN lines : lines[n].mark \in {"open", "approval"}}

\* The item that comes next, or is in hand: the first line of those listed.
FirstOf(entries) == CHOOSE e \in entries : \A f \in entries : e.at <= f.at
ItemAt(b) == FirstOf(listed[b])

\* readChecklist, after the tasks have used some of the quota.
ListItems(b, used) ==
    /\ itemPc[b] = "off" /\ used < Quota
    /\ itemPc' = [itemPc EXCEPT ![b] = "items"]
    /\ listed' = [listed EXCEPT ![b] = {[at |-> n, line |-> file[n]] : n \in OpenLines(file)}]
    /\ acts' = [acts EXCEPT ![b] = used]
    /\ shifted' = shifted \ {b}
    /\ excused' = IF Working = {} THEN excused ELSE Lines
    /\ torn' = (torn \/ Writing # {})
    /\ UNCHANGED <<askFirst, file, content, mishaps, ownLines, tries>>

\* The checklist cannot be read: the heartbeat ends.
ListFails(b) ==
    /\ itemPc[b] = "off" /\ Mishap("fault")
    /\ UNCHANGED <<askFirst, file, workVars, checklistHistory>>

\* The next item, with one action more or none.
NextItem(b, more) ==
    /\ itemPc' = [itemPc EXCEPT ![b] = "items"]
    /\ listed' = [listed EXCEPT ![b] = @ \ {ItemAt(b)}]
    /\ acts' = [acts EXCEPT ![b] = @ + more]
    /\ content' = [content EXCEPT ![b] = <<>>]

BeatEnds(b) ==
    /\ itemPc[b] = "items"
    /\ listed[b] = {} \/ acts[b] = Quota
    /\ itemPc' = [itemPc EXCEPT ![b] = "off"]
    /\ listed' = [listed EXCEPT ![b] = {}]
    /\ acts' = [acts EXCEPT ![b] = 0]
    /\ UNCHANGED <<askFirst, file, content, mishaps, checklistHistory>>

NeedsApproval(b) == askFirst /\ ItemAt(b).line.mark = "approval"

TakesItem(b) == itemPc[b] = "items" /\ listed[b] # {} /\ acts[b] < Quota

\* An item that is skipped counts as an action.
SkipItem(b) ==
    /\ TakesItem(b) /\ NeedsApproval(b)
    /\ NextItem(b, 1)
    /\ UNCHANGED <<askFirst, file, mishaps, checklistHistory>>

ExecuteItem(b) ==
    /\ TakesItem(b) /\ ~NeedsApproval(b)
    /\ LET i == ItemAt(b).line.item IN
           tries[i] < MaxTries /\ tries' = [tries EXCEPT ![i] = @ + 1]
    /\ itemPc' = [itemPc EXCEPT ![b] = "execute"]
    /\ UNCHANGED <<askFirst, file, listed, acts, content, mishaps,
                   ownLines, shifted, excused, torn>>

\* agent.Run returns: an error leaves the item open and costs no action.
ItemExecuted(b, succeeds) ==
    /\ itemPc[b] = "execute"
    /\ IF succeeds
       THEN /\ itemPc' = [itemPc EXCEPT ![b] = "read"]
            /\ UNCHANGED <<listed, acts, content, excused>>
       ELSE /\ NextItem(b, 0)
            /\ excused' = excused \cup {ItemAt(b).line.item}
    /\ UNCHANGED <<askFirst, file, mishaps, ownLines, shifted, tries, torn>>

-----------------------------------------------------------------------------
(* updateChecklistItem *)

ReadContent(b) ==
    /\ itemPc[b] = "read"
    /\ itemPc' = [itemPc EXCEPT ![b] = "truncate"]
    /\ content' = [content EXCEPT ![b] = file]
    /\ torn' = (torn \/ Updating # {})
    /\ UNCHANGED <<askFirst, file, listed, acts, mishaps, ownLines, shifted, tries, excused>>

\* Reading, opening for writing, or writing fails: no action is counted.
UpdateFails(b) ==
    /\ itemPc[b] \in {"read", "truncate", "write"} /\ Mishap("fault")
    /\ excused' = excused \cup {ItemAt(b).line.item}
    /\ torn' = (torn \/ itemPc[b] = "write")
    /\ NextItem(b, 0)
    /\ UNCHANGED <<askFirst, file, ownLines, shifted, tries>>

TruncateFile(b) ==
    /\ itemPc[b] = "truncate"
    /\ itemPc' = [itemPc EXCEPT ![b] = "write"]
    /\ file' = <<>>
    /\ torn' = (torn \/ Updating # {b})
    /\ UNCHANGED <<askFirst, listed, acts, content, mishaps, ownLines, shifted, tries, excused>>

Wrong_CountsOpenLines(lines, n) ==
    [m \in DOMAIN lines |->
        IF m \in OpenLines(lines) /\ Cardinality(OpenLines(lines) \cap 1..m) = n
        THEN [lines[m] EXCEPT !.mark = "done"] ELSE lines[m]]

\* The line with the number of the item; a done item keeps no other marker.
Marked(lines, n) == IF n \in DOMAIN lines THEN [lines EXCEPT ![n].mark = "done"] ELSE lines

\* What an item that was executed and marked costs.
ActionsOfItem == 1

WriteContent(b) ==
    /\ itemPc[b] = "write"
    /\ file' = Marked(content[b], ItemAt(b).at)
    /\ NextItem(b, ActionsOfItem)
    /\ UNCHANGED <<askFirst, mishaps, checklistHistory>>

\* The process dies, at any point of a write.
Killed ==
    /\ Mishap("crash")
    /\ itemPc' = [b \in Beats |-> "off"]
    /\ listed' = [b \in Beats |-> {}]
    /\ acts' = [b \in Beats |-> 0]
    /\ content' = [b \in Beats |-> <<>>]
    /\ excused' = IF Working = {} THEN excused ELSE Lines
    /\ torn' = (torn \/ Writing # {})
    /\ UNCHANGED <<askFirst, file, ownLines, shifted, tries>>

-----------------------------------------------------------------------------
ChecklistNext ==
    \/ Killed \/ \E f \in EditedFiles : UserEdits(f)
    \/ \E b \in Beats :
           \/ \E used \in 0..Quota - 1 : ListItems(b, used)
           \/ ListFails(b) \/ BeatEnds(b) \/ SkipItem(b) \/ ExecuteItem(b)
           \/ \E succeeds \in BOOLEAN : ItemExecuted(b, succeeds)
           \/ ReadContent(b) \/ UpdateFails(b) \/ TruncateFile(b) \/ WriteContent(b)

ChecklistSpec == ChecklistInit /\ [][ChecklistNext]_checklistVars

-----------------------------------------------------------------------------
(* Correctness *)

\* A heartbeat marks the item it has executed and no other one, unless the user
\* has edited the file since it was listed, or it was read while it was empty
\* (checklist.go:96: the line is found by its number).
MarksWhatWasDone ==
    [][itemPc' # itemPc => \A b \in Beats :
           (itemPc[b] = "write" /\ itemPc'[b] = "items" /\ mishaps' = mishaps
                /\ b \notin shifted /\ ~torn)
           => LET i == ItemAt(b).line.item IN
              /\ [item |-> i, mark |-> "done"] \in ToSet(file')
              /\ \A n \in DOMAIN content[b] :
                     content[b][n].item # i => file'[n] = content[b][n]]_checklistVars

\* Nothing the user has written is lost, unless an update of the file met
\* another one, an edit, or the end of the process (checklist.go:139).
LinesSurvive ==
    (~torn /\ Writing = {}) => ItemsOf(file) = ownLines

\* An item is executed again only after a failure, an edit or a crash, or by a
\* heartbeat that overlaps another one (longrun.go:321-326).
ExecutedOnceUnlessExcused ==
    \A i \in Lines : tries[i] > 1 => i \in excused

\* An item that asks for approval is left alone while no one edits the file,
\* also when it is the only one (longrun.go:343).
ApprovalIsAwaited ==
    (askFirst /\ mishaps["edit"] = 0 /\ ~torn) =>
        \A n \in DOMAIN FirstFile :
            FirstFile[n].mark = "approval" =>
                /\ tries[FirstFile[n].item] = 0
                /\ Writing = {} => file[n] = FirstFile[n]

\* The file and the work agree: no line is lost, what is marked was done, and
\* an item is executed twice or without approval for a known reason only.
ChecklistCorrect ==
    /\ [](ChecklistTypeOK /\ LinesSurvive /\ ExecutedOnceUnlessExcused /\ ApprovalIsAwaited)
    /\ MarksWhatWasDone
=============================================================================
