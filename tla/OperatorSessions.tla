--------------------------- MODULE OperatorSessions ---------------------------
(* The terminal sessions of the Operator (pkg/agent/operator_sessions.go): a    *)
(* child process behind a pty, a goroutine that captures its output, one that   *)
(* waits for the child, and the tools that type, signal and look.  The terminal *)
(* and the child are external; output is counted, not spelled out.              *)
EXTENDS Naturals

CONSTANTS
    PtySessions,
    ToolUsers,       \* goroutines that call the tools
    MaxOutput,       \* bound: pieces of output of a child
    MaxInputs        \* bound: calls of the tools that type or signal

ASSUME OperatorSessionsAssumption == MaxOutput \in Nat /\ MaxInputs \in Nat

VARIABLES
    child,      \* the process: none, running, exited, reaped
    exitCode,   \* of a process that has exited: zero, other
    said,       \* output of the child so far
    captured,   \* of it, appended to session.output (its tail is kept)
    terminal,   \* the pty is open
    ptyFile,    \* session.ptyFile is not nil
    capturer,   \* captureOutput: off, next, reading, failing, gone
    finished,   \* session.finishedAt is set
    errText,    \* session.errText: none, read, exit
    userPc,     \* what each caller is about to do to a session
    inputs,     \* calls so far
    endIsEof    \* whether a read at the end of the output returns io.EOF or an
                \* error; the operating system decides

ptyVars == <<child, exitCode, said, captured, terminal, ptyFile, capturer,
             finished, errText, userPc, inputs, endIsEof>>

NoInput == [do |-> "nothing"]

OperatorInit ==
    /\ child = [s \in PtySessions |-> "none"]
    /\ exitCode = [s \in PtySessions |-> "zero"]
    /\ said = [s \in PtySessions |-> 0] /\ captured = [s \in PtySessions |-> 0]
    /\ terminal = [s \in PtySessions |-> FALSE] /\ ptyFile = [s \in PtySessions |-> FALSE]
    /\ capturer = [s \in PtySessions |-> "off"]
    /\ finished = [s \in PtySessions |-> FALSE]
    /\ errText = [s \in PtySessions |-> "none"]
    /\ userPc = [u \in ToolUsers |-> NoInput]
    /\ inputs = 0
    /\ endIsEof \in BOOLEAN

\* snapshot
Status(s) ==
    IF ~finished[s] THEN "running" ELSE IF errText[s] # "none" THEN "failed" ELSE "completed"

-----------------------------------------------------------------------------
\* start: the child runs, the session is registered, both goroutines start; the
\* prompt, if there is one, is typed by the same call.
StartSession(u, s, prompt) ==
    /\ userPc[u] = NoInput /\ child[s] = "none"
    /\ child' = [child EXCEPT ![s] = "running"]
    /\ terminal' = [terminal EXCEPT ![s] = TRUE]
    /\ ptyFile' = [ptyFile EXCEPT ![s] = TRUE]
    /\ capturer' = [capturer EXCEPT ![s] = "next"]
    /\ userPc' = [userPc EXCEPT ![u] = IF prompt THEN [do |-> "look", session |-> s] ELSE NoInput]
    /\ UNCHANGED <<exitCode, said, captured, finished, errText, inputs, endIsEof>>

\* The child, which may print and may end in either way.
ChildPrints(s) ==
    /\ child[s] = "running" /\ said[s] < MaxOutput
    /\ said' = [said EXCEPT ![s] = @ + 1]
    /\ UNCHANGED <<child, exitCode, captured, terminal, ptyFile, capturer, finished,
                   errText, userPc, inputs, endIsEof>>

Ends(s, code) ==
    /\ child' = [child EXCEPT ![s] = "exited"]
    /\ exitCode' = [exitCode EXCEPT ![s] = code]

ChildExits(s) ==
    /\ child[s] = "running"
    /\ \E code \in {"zero", "other"} : Ends(s, code)
    /\ UNCHANGED <<said, captured, terminal, ptyFile, capturer, finished, errText,
                   userPc, inputs, endIsEof>>

-----------------------------------------------------------------------------
\* captureOutput
ReaderStays ==
    UNCHANGED <<child, exitCode, said, terminal, ptyFile, finished, userPc,
                inputs, endIsEof>>

\* The field is read without the lock that waitProcess clears it under: a read
\* of nil and one of the closed file fail alike.
LoadFile(s) ==
    /\ capturer[s] = "next"
    /\ capturer' = [capturer EXCEPT ![s] = IF ptyFile[s] THEN "reading" ELSE "failing"]
    /\ UNCHANGED <<captured, errText>> /\ ReaderStays

ReadOutput(s) ==
    /\ capturer[s] = "reading" /\ terminal[s] /\ captured[s] < said[s]
    /\ \E n \in captured[s] + 1..said[s] : captured' = [captured EXCEPT ![s] = n]
    /\ capturer' = [capturer EXCEPT ![s] = "next"]
    /\ UNCHANGED errText /\ ReaderStays

\* All is read and the child is gone, or the terminal was closed under the read.
AfterLastRead(s) == IF terminal[s] /\ endIsEof THEN "gone" ELSE "failing"

CaptureEnds(s) ==
    /\ capturer[s] = "reading"
    /\ \/ terminal[s] /\ captured[s] = said[s] /\ child[s] \in {"exited", "reaped"}
       \/ ~terminal[s]
    /\ capturer' = [capturer EXCEPT ![s] = AfterLastRead(s)]
    /\ UNCHANGED <<captured, errText>> /\ ReaderStays

SetError(s) ==
    /\ capturer[s] = "failing"
    /\ errText' = [errText EXCEPT ![s] = "read"]
    /\ capturer' = [capturer EXCEPT ![s] = "gone"]
    /\ UNCHANGED captured /\ ReaderStays

-----------------------------------------------------------------------------
\* waitProcess: the child is reaped, then the session is marked and the
\* terminal closed, whether or not its output was read.
Reap(s) ==
    /\ child[s] = "exited"
    /\ child' = [child EXCEPT ![s] = "reaped"]
    /\ UNCHANGED <<exitCode, said, captured, terminal, ptyFile, capturer, finished,
                   errText, userPc, inputs, endIsEof>>

Wrong_ErrorOfExit(s) == IF exitCode[s] = "other" THEN "exit" ELSE "none"

ErrorOfExit(s) ==
    IF exitCode[s] = "other" /\ errText[s] = "none" THEN "exit" ELSE errText[s]

FinishSession(s) ==
    /\ child[s] = "reaped" /\ ~finished[s]
    /\ finished' = [finished EXCEPT ![s] = TRUE]
    /\ errText' = [errText EXCEPT ![s] = ErrorOfExit(s)]
    /\ terminal' = [terminal EXCEPT ![s] = FALSE]
    /\ ptyFile' = [ptyFile EXCEPT ![s] = FALSE]
    /\ UNCHANGED <<child, exitCode, said, captured, capturer, userPc, inputs, endIsEof>>

-----------------------------------------------------------------------------
\* The tools.  Each looks at the session under its lock and acts after it.
ToolStays ==
    UNCHANGED <<said, captured, terminal, ptyFile, capturer, finished, errText, endIsEof>>

UseTool(u, s, do) ==
    /\ userPc[u] = NoInput /\ child[s] # "none"
    /\ inputs < MaxInputs /\ inputs' = inputs + 1
    /\ userPc' = [userPc EXCEPT ![u] = [do |-> do, session |-> s]]
    /\ UNCHANGED <<child, exitCode>> /\ ToolStays

\* writePrompt: a session that is finished or has no terminal is an error.
LookBeforeTyping(u) ==
    /\ userPc[u].do = "look"
    /\ LET s == userPc[u].session
       IN userPc' = [userPc EXCEPT ![u] =
                IF ~finished[s] /\ ptyFile[s] THEN [do |-> "type", session |-> s] ELSE NoInput]
    /\ UNCHANGED <<child, exitCode, inputs>> /\ ToolStays

\* What is typed reaches the child or fails; the terminal echoes it.
Type(u) ==
    /\ userPc[u].do = "type"
    /\ LET s == userPc[u].session
       IN IF terminal[s] /\ child[s] = "running" /\ said[s] < MaxOutput
          THEN said' = [said EXCEPT ![s] = @ + 1]
          ELSE UNCHANGED said
    /\ userPc' = [userPc EXCEPT ![u] = NoInput]
    /\ UNCHANGED <<child, exitCode, captured, terminal, ptyFile, capturer, finished,
                   errText, inputs, endIsEof>>

\* signal: a finished session is left alone, without an error.
LookBeforeSignal(u) ==
    /\ userPc[u].do \in {"interrupt", "kill"}
    /\ LET s == userPc[u].session
       IN userPc' = [userPc EXCEPT ![u] =
            IF finished[s] THEN NoInput
            ELSE [do |-> IF @.do = "kill" THEN "sigkill" ELSE "sigint", session |-> s]]
    /\ UNCHANGED <<child, exitCode, inputs>> /\ ToolStays

\* A child may ignore SIGINT; one that was reaped meanwhile makes it an error.
SendSignal(u) ==
    /\ userPc[u].do \in {"sigint", "sigkill"}
    /\ LET s == userPc[u].session
       IN /\ \/ child[s] = "running" /\ Ends(s, "other")
             \/ /\ userPc[u].do = "sigint" \/ child[s] # "running"
                /\ UNCHANGED <<child, exitCode>>
    /\ userPc' = [userPc EXCEPT ![u] = NoInput]
    /\ UNCHANGED inputs /\ ToolStays

-----------------------------------------------------------------------------
GoroutineStep(s) ==
    \/ LoadFile(s) \/ ReadOutput(s) \/ CaptureEnds(s) \/ SetError(s)
    \/ Reap(s) \/ FinishSession(s)

OperatorNext ==
    \/ \E s \in PtySessions :
          \/ ChildPrints(s) \/ ChildExits(s) \/ GoroutineStep(s)
          \/ \E u \in ToolUsers :
                \/ \E prompt \in BOOLEAN : StartSession(u, s, prompt)
                \/ \E do \in {"look", "interrupt", "kill"} : UseTool(u, s, do)
    \/ \E u \in ToolUsers :
          LookBeforeTyping(u) \/ Type(u) \/ LookBeforeSignal(u) \/ SendSignal(u)

\* The goroutines of a session run on; nothing obliges a child or a caller.
OperatorFairness ==
    \A s \in PtySessions :
        /\ WF_ptyVars(LoadFile(s) \/ ReadOutput(s) \/ CaptureEnds(s) \/ SetError(s))
        /\ WF_ptyVars(Reap(s) \/ FinishSession(s))

OperatorSpec == OperatorInit /\ [][OperatorNext]_ptyVars /\ OperatorFairness

-----------------------------------------------------------------------------
\* A session that still shows completed once its reader is gone has shown all
\* its output, of a child that exited with zero, on a system where reading past
\* the end is io.EOF: everywhere else each session ends as failed.
CompletedIsComplete ==
    \A s \in PtySessions :
        capturer[s] = "gone" /\ Status(s) = "completed" =>
            endIsEof /\ captured[s] = said[s] /\ exitCode[s] = "zero"

\* Output that is lost, because the terminal was closed before it was read, is
\* never lost silently: the session names the read error.
LossIsReported ==
    \A s \in PtySessions :
        capturer[s] = "gone" /\ captured[s] < said[s] => errText[s] = "read"

\* A session that is over is never shown as running again, nor does one that
\* failed become completed (one shown as completed may yet become failed).
StatusMovesOn ==
    \A s \in PtySessions :
        /\ Status(s) # "running" => Status(s)' # "running"
        /\ Status(s) = "failed" => Status(s)' = "failed"

\* Once its child is gone, by itself or killed by stop_pty_session with force, a
\* session ends and both its goroutines with it.
SessionsEnd ==
    \A s \in PtySessions :
        child[s] = "exited" ~> finished[s] /\ capturer[s] = "gone"

\* What a session shows is true of its output, and of its end.
OperatorSafe ==
    /\ [](CompletedIsComplete /\ LossIsReported)
    /\ [][StatusMovesOn]_ptyVars

\* A session shows the truth and comes to its end.
OperatorCorrect == OperatorSafe /\ SessionsEnd
=============================================================================
