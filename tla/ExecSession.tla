----------------------------- MODULE ExecSession -----------------------------
(***************************************************************************)
(* A remote command over one bidirectional stream: the runner's goroutines *)
(* (exec/exec.go: executeCommandImpl; exec/proctree_unix.go), the child    *)
(* and what it leaves running, and the client's goroutines                 *)
(* (exec/exec_stream.go: NewCommandExecutionStream; exec/exec_shell.go:    *)
(* PumpTerminalIO).                                                        *)
(*                                                                         *)
(* The stream is the one StreamTransfer and FlowControl describe: in each  *)
(* direction frames in order, a bound on what may wait, an end (Close),    *)
(* and a Cancel by the reader that ends the writer, who drops what he has  *)
(* not sent.  Its connection may be lost, which both ends learn at once.   *)
(* Frames are reduced to their kind.  The control frames are left out: a   *)
(* signal is one of the reasons a child exits, a window size and the audit *)
(* trail touch no state here.  So is standard error, and with it what this *)
(* client does to a child with pipes that writes there: PumpTerminalIO     *)
(* reads standard output only, and the demultiplexer waits for a reader of *)
(* the other pipe until the client closes the session.                     *)
(*                                                                         *)
(* os/exec and the pty are modelled from how the code uses them: Wait      *)
(* returns when the child has exited and, with pipes, every process that   *)
(* holds the output has closed it; cancelling the context reaches a child  *)
(* that has not exited yet and nothing else.                               *)
(***************************************************************************)
EXTENDS Integers, Sequences

CONSTANTS
    Room,       \* frames a direction of the stream holds before a writer waits
    MaxInput,   \* bound: frames the client sends
    MaxOutput,  \* bound: chunks the child writes
    MaxWork,    \* bound: frames, chunks and the loss of the connection, taken together ...
    LossWork    \* ... the loss counting for so many

ASSUME ExecAssumption ==
    Room \in Nat \ {0} /\ {MaxInput, MaxOutput, MaxWork, LossWork} \subseteq Nat

VARIABLES
    \* the options and the kind of command
    mode,          \* "pipe", "devnull" (StdinDevNull) or "pty"
    tree,          \* KillProcessTree
    \* the stream: frames under way, ended by the writer, cancelled by the reader
    up, upClosed, upCancelled,
    down, downClosed, downCancelled,
    lost,          \* its connection has closed
    \* the processes
    child,         \* "running", "exited" or "killed"
    orphan,        \* a process the child started runs, holding its output
    written,       \* chunks the child has written
    kernel,        \* of those, still in the pipe or the pty
    ttyClosed,     \* the child has closed its terminal
    \* the runner
    input,         \* handleInput: "read", "write" or "done"
    pipeInClosed,  \* the pipe to the copier has been closed by its writer
    copier,        \* io.Copy into the child: "read" or "done"
    output,        \* io.Copy from the child: "copy", "close" or "done"
    waiter,        \* the goroutine that waits for the child: "wait" or "done"
    cancelled,     \* the caller's context, and the group's
    groupFailed,
    ladder,        \* signals sent to a pty child: 0, HUP, TERM, KILL
    treeKill,      \* the group has its SIGTERM, the SIGKILL is timed
    returned,
    \* the client
    demux,         \* NewCommandExecutionStream's goroutine: "read", "write" or "done"
    stdoutEnd,     \* the stdout pipe: "open", "eof" (writer), "error" (writer), "reader"
    copy,          \* the copy to the terminal: "copy", "eof" or "error"
    got,           \* chunks it has copied
    keys,          \* the input pump: "read" or "done"
    typed,         \* frames it has sent
    typing,        \* of standard input: "open", "ended" or "late" (data after the end)
    pump           \* PumpTerminalIO: "select", "grace", "join", "returned" or "closed"

options == <<mode, tree>>
upVars == <<up, upClosed, upCancelled>>
downVars == <<down, downClosed, downCancelled>>
procVars == <<child, orphan, written, kernel, ttyClosed>>
runnerVars == <<input, pipeInClosed, copier, output, waiter, cancelled, groupFailed, ladder,
                treeKill, returned>>
clientVars == <<demux, stdoutEnd, copy, got, keys, typed, typing, pump>>
vars == <<options, upVars, downVars, lost, procVars, runnerVars, clientVars>>

\* A pty child keeps to its terminal's group, where KillProcessTree does not apply;
\* without descendants the option changes nothing that is modelled.
Init ==
    /\ mode \in {"pipe", "devnull", "pty"}
    /\ orphan \in {FALSE, mode # "pty"} /\ tree \in {FALSE, orphan}
    /\ up = <<>> /\ upClosed = FALSE /\ upCancelled = FALSE
    /\ down = <<>> /\ downClosed = FALSE /\ downCancelled = FALSE
    /\ child = "running" /\ written = 0 /\ kernel = 0 /\ ttyClosed = FALSE
    /\ input = "read" /\ pipeInClosed = FALSE
    /\ copier = IF mode = "devnull" THEN "done" ELSE "read"
    /\ output = "copy" /\ waiter = "wait"
    /\ cancelled = FALSE /\ groupFailed = FALSE /\ ladder = 0 /\ treeKill = FALSE
    /\ returned = FALSE
    /\ demux = "read" /\ stdoutEnd = "open" /\ copy = "copy" /\ got = 0
    /\ lost = FALSE
    /\ keys = "read" /\ typed = 0 /\ typing = "open" /\ pump = "select"

MayWork(n) == typed + written + (IF lost THEN LossWork ELSE 0) + n <= MaxWork

\* Mutant of HasRoom: a full direction is noticed one frame late.
HasRoomLate(frames) == Len(frames) <= Room

\* AppendData does not make its caller wait.
HasRoom(frames) == Len(frames) < Room

-----------------------------------------------------------------------------
(* The child *)

\* Once the copy of its output has stopped a pipe child has nowhere to write.
ChildWrite ==
    /\ child = "running" /\ ~ ttyClosed
    /\ written < MaxOutput /\ MayWork(1)
    /\ mode = "pty" \/ output = "copy"
    /\ written' = written + 1 /\ kernel' = kernel + 1
    /\ UNCHANGED <<options, upVars, downVars, lost, child, orphan, ttyClosed, runnerVars,
                   clientVars>>

ChildClosesTty ==
    /\ mode = "pty" /\ child = "running" /\ ~ ttyClosed
    /\ ttyClosed' = TRUE
    /\ UNCHANGED <<options, upVars, downVars, lost, child, orphan, written, kernel, runnerVars,
                   clientVars>>

\* Of its own accord, or for the end of its input or a signal it listens to; or never.
ChildExit ==
    /\ child = "running"
    /\ child' = "exited" /\ ttyClosed' = (mode = "pty")
    /\ UNCHANGED <<options, upVars, downVars, lost, orphan, written, kernel, runnerVars,
                   clientVars>>

Kills(reason) ==
    /\ reason /\ child = "running"
    /\ child' = "killed" /\ ttyClosed' = (mode = "pty")
    /\ UNCHANGED <<options, upVars, downVars, lost, orphan, written, kernel, runnerVars,
                   clientVars>>

-----------------------------------------------------------------------------
(* Cancellation of the child *)

Cancel ==
    /\ ~ cancelled /\ ~ returned
    /\ cancelled' = TRUE
    /\ UNCHANGED <<options, upVars, downVars, lost, procVars, input, pipeInClosed, copier,
                   output, waiter, groupFailed, ladder, treeKill, returned, clientVars>>

GroupDone == cancelled \/ groupFailed

\* CommandContext: the child is killed, its descendants are not.
KillChild == ~ tree /\ Kills(GroupDone)

\* procTree.kill: SIGTERM to the group, SIGKILL after the grace period.
KillTree ==
    /\ tree /\ GroupDone /\ child = "running" /\ ~ treeKill
    /\ treeKill' = TRUE
    /\ UNCHANGED <<options, upVars, downVars, lost, procVars, input, pipeInClosed, copier,
                   output, waiter, cancelled, groupFailed, ladder, returned, clientVars>>

KillTreeGrace ==
    /\ treeKill /\ (child = "running" \/ orphan)
    /\ child' = IF child = "running" THEN "killed" ELSE child
    /\ orphan' = FALSE
    /\ UNCHANGED <<options, upVars, downVars, lost, written, kernel, ttyClosed, runnerVars,
                   clientVars>>

\* The ladder after a pty child's input has ended: SIGHUP at once, SIGTERM a second
\* later, SIGKILL after another, as long as the child has not been waited for.
ClimbLadder ==
    /\ ladder \in {1, 2} /\ waiter = "wait"
    /\ ladder' = ladder + 1
    /\ UNCHANGED <<options, upVars, downVars, lost, procVars, input, pipeInClosed, copier,
                   output, waiter, cancelled, groupFailed, treeKill, returned, clientVars>>

LadderKills == Kills(ladder = 3)

Processes ==
    \/ ChildWrite \/ ChildClosesTty
    \/ KillTree \/ KillTreeGrace \/ ClimbLadder

-----------------------------------------------------------------------------
(* The runner's input *)

ForClosedPipe == up # <<>> /\ Head(up) = "stdin" /\ mode # "devnull" /\ pipeInClosed

\* handleInput reads a frame: data for the child waits in pipeIn.Write; the end of
\* input closes the pipe; with StdinDevNull both are dropped.
ReadFrame ==
    /\ input = "read" /\ up # <<>> /\ ~ ForClosedPipe
    /\ up' = Tail(up)
    /\ input' = IF Head(up) = "stdin" /\ mode # "devnull" THEN "write" ELSE "read"
    /\ pipeInClosed' = (pipeInClosed \/ (Head(up) = "close" /\ mode # "devnull"))
    /\ UNCHANGED <<options, upClosed, upCancelled, downVars, lost, procVars, copier, output,
                   waiter, cancelled, groupFailed, ladder, treeKill, returned, clientVars>>

\* Data after the end of input: pipeIn.Write fails, and with it the whole session.
WriteRefused ==
    /\ input = "read" /\ ForClosedPipe
    /\ up' = Tail(up) /\ input' = "done" /\ groupFailed' = TRUE
    /\ UNCHANGED <<options, upClosed, upCancelled, downVars, lost, procVars, pipeInClosed,
                   copier, output, waiter, cancelled, ladder, treeKill, returned, clientVars>>

\* Mutant of InputError: any end of the input is one.
InputErrorAlways == TRUE

\* The end of the stream is no error; the local cancel and a lost connection are.
InputError == ~ upClosed

\* The end of the stream, or the local cancel or the loss once nothing is left to read.
InputEnds ==
    /\ input = "read" /\ up = <<>>
    /\ upClosed \/ upCancelled \/ lost
    /\ input' = "done" /\ pipeInClosed' = TRUE
    /\ groupFailed' = (groupFailed \/ InputError)
    /\ UNCHANGED <<options, upVars, downVars, lost, procVars, copier, output, waiter, cancelled,
                   ladder, treeKill, returned, clientVars>>

\* Mutant of Hangup: the ladder is not climbed.
HangupNever == 0

Hangup == IF mode = "pty" THEN 1 ELSE 0

\* The copy ends: for a pty, a goroutine of the group, with a SIGHUP.
CopierEnds(failing) ==
    /\ copier' = "done"
    /\ ladder' = Hangup
    /\ groupFailed' = (groupFailed \/ (failing /\ mode = "pty"))

\* The copier takes what handleInput writes and hands it to the child.  Writing to a
\* child that is gone, or a closed pty, fails -- and nobody closes the copier's end.
CopyInput ==
    /\ input = "write" /\ copier = "read"
    /\ input' = "read"
    /\ IF child = "running" THEN UNCHANGED <<copier, ladder, groupFailed>> ELSE CopierEnds(TRUE)
    /\ UNCHANGED <<options, upVars, downVars, lost, procVars, pipeInClosed, output, waiter,
                   cancelled, treeKill, returned, clientVars>>

\* The pipe has been closed.
EndOfInput ==
    /\ copier = "read" /\ input # "write" /\ pipeInClosed
    /\ CopierEnds(FALSE)
    /\ UNCHANGED <<options, upVars, downVars, lost, procVars, input, pipeInClosed, output,
                   waiter, cancelled, treeKill, returned, clientVars>>

-----------------------------------------------------------------------------
(* The runner's output *)

ptyClosed == mode = "pty" /\ waiter = "done"

\* A copy that stops early fails the group if it belongs to it (pty).
OutputStops(next) ==
    /\ output' = next
    /\ groupFailed' = (groupFailed \/ mode = "pty")

\* AppendData on a stream that is closed, cancelled or lost.
DownRefuses == downClosed \/ lost

\* A chunk is framed and appended to the stream, once there is room for it, or refused.
CopyOutput ==
    /\ output = "copy" /\ kernel > 0 /\ ~ ptyClosed
    /\ DownRefuses \/ HasRoom(down)
    /\ kernel' = kernel - 1
    /\ IF DownRefuses
       THEN OutputStops(IF mode = "pty" THEN "close" ELSE "done") /\ UNCHANGED down
       ELSE down' = Append(down, "out") /\ UNCHANGED <<output, groupFailed>>
    /\ UNCHANGED <<options, upVars, downClosed, downCancelled, lost, child, orphan, written,
                   ttyClosed, input, pipeInClosed, copier, waiter, cancelled, ladder, treeKill,
                   returned, clientVars>>

\* Nothing more to read: every holder of a pipe has closed it; the pty reports EIO
\* when its last user is gone, or an error at once when it is closed.
NoMoreOutput ==
    /\ output = "copy"
    /\ \/ mode # "pty" /\ child # "running" /\ ~ orphan /\ kernel = 0
       \/ mode = "pty" /\ (ptyClosed \/ (ttyClosed /\ kernel = 0))
    /\ OutputStops(IF mode = "pty" THEN "close" ELSE "done")
    /\ UNCHANGED <<options, upVars, downVars, lost, procVars, input, pipeInClosed, copier,
                   waiter, cancelled, ladder, treeKill, returned, clientVars>>

\* stdout.Close, for a pty: an empty frame and the end of the stream.
CloseOutput ==
    /\ output = "close"
    /\ DownRefuses \/ HasRoom(down)
    /\ output' = "done"
    /\ down' = IF DownRefuses THEN down ELSE Append(down, "end")
    /\ downClosed' = (downClosed \/ ~ lost)
    /\ UNCHANGED <<options, upVars, downCancelled, lost, procVars, input, pipeInClosed, copier,
                   waiter, cancelled, groupFailed, ladder, treeKill, returned, clientVars>>

-----------------------------------------------------------------------------
(* The end of the session *)

\* Mutant of WaitReturns: with pipes, too, the child's exit is all Wait waits for.
WaitReturnsAtOnce == child # "running"

\* Cmd.Wait; with pipes it also waits for the goroutines that copy the output.
WaitReturns == child # "running" /\ (mode = "pty" \/ output = "done")

\* The child's status is taken, a pty is closed, and the input is cancelled.
Wait ==
    /\ waiter = "wait" /\ WaitReturns
    /\ waiter' = "done"
    /\ upCancelled' = TRUE
    /\ UNCHANGED <<options, up, upClosed, downVars, lost, procVars, input, pipeInClosed, copier,
                   output, cancelled, groupFailed, ladder, treeKill, returned, clientVars>>

\* The goroutines of the errgroup: the copies of a pty's input and output are in it,
\* the copier of a pipe is not.
GroupFinished ==
    /\ input = "done" /\ waiter = "done"
    /\ mode = "pty" => copier = "done" /\ output = "done"

\* gr.Wait returns, and the deferred CloseBoth ends the stream both ways.
Return ==
    /\ ~ returned /\ GroupFinished
    /\ returned' = TRUE
    /\ upCancelled' = TRUE /\ downClosed' = (downClosed \/ ~ lost)
    /\ UNCHANGED <<options, up, upClosed, down, downCancelled, lost, procVars, input,
                   pipeInClosed, copier, output, waiter, cancelled, groupFailed, ladder,
                   treeKill, clientVars>>

Runner ==
    \/ ReadFrame \/ WriteRefused \/ InputEnds \/ CopyInput \/ EndOfInput
    \/ CopyOutput \/ NoMoreOutput \/ CloseOutput
    \/ Wait \/ Return

-----------------------------------------------------------------------------
(* The stream: a reader's cancel reaches the writer, who drops what is not sent. *)

CancelLands ==
    \/ /\ upCancelled /\ ~ upClosed /\ ~ lost
       /\ upClosed' = TRUE
       /\ \E n \in 0 .. Len(up) : up' = SubSeq(up, 1, n)
       /\ UNCHANGED <<options, upCancelled, downVars, lost, procVars, runnerVars, clientVars>>
    \/ /\ downCancelled /\ ~ downClosed /\ ~ lost
       /\ downClosed' = TRUE
       /\ \E n \in 0 .. Len(down) : down' = SubSeq(down, 1, n)
       /\ UNCHANGED <<options, upVars, downCancelled, lost, procVars, runnerVars, clientVars>>

\* The connection is lost: of what was under way the readers keep what they have
\* received, and the end of a direction only if they have all of it.
ConnectionLost ==
    /\ ~ lost /\ lost' = TRUE /\ MayWork(LossWork)
    /\ \/ UNCHANGED <<up, upClosed>>
       \/ upClosed' = FALSE /\ \E n \in 0 .. Len(up) : up' = SubSeq(up, 1, n)
    /\ \/ UNCHANGED <<down, downClosed>>
       \/ downClosed' = FALSE /\ \E n \in 0 .. Len(down) : down' = SubSeq(down, 1, n)
    /\ UNCHANGED <<options, upCancelled, downCancelled, procVars, runnerVars, clientVars>>

-----------------------------------------------------------------------------
(* The client *)

\* A frame from the runner: output waits in the stdout pipe for its reader, an empty
\* frame ends that pipe.
Demux ==
    /\ demux = "read" /\ down # <<>>
    /\ down' = Tail(down)
    /\ demux' = IF Head(down) = "out" THEN "write" ELSE "read"
    /\ stdoutEnd' = IF Head(down) = "end" /\ stdoutEnd = "open" THEN "eof" ELSE stdoutEnd
    /\ UNCHANGED <<options, upVars, downClosed, downCancelled, lost, procVars, runnerVars, copy,
                   got, keys, typed, typing, pump>>

\* The stream has ended, has been cancelled here or is lost, or the pipe has no reader.
DemuxEnds ==
    /\ \/ demux = "read" /\ down = <<>> /\ (downClosed \/ downCancelled \/ lost)
       \/ demux = "write" /\ stdoutEnd # "open"
    /\ demux' = "done"
    /\ stdoutEnd' = IF stdoutEnd # "open" THEN stdoutEnd
                    ELSE IF downClosed THEN "eof" ELSE "error"
    /\ UNCHANGED <<options, upVars, downVars, lost, procVars, runnerVars, copy, got, keys, typed,
                   typing, pump>>

CopyToTerminal ==
    /\ copy = "copy" /\ demux = "write" /\ stdoutEnd = "open"
    /\ demux' = "read" /\ got' = got + 1
    /\ UNCHANGED <<options, upVars, downVars, lost, procVars, runnerVars, stdoutEnd, copy, keys,
                   typed, typing, pump>>

\* The copy ends with its pipe, and PumpTerminalIO, wherever it waits, returns.
CopyEnds ==
    /\ copy = "copy" /\ stdoutEnd # "open"
    /\ copy' = IF stdoutEnd = "eof" THEN "eof" ELSE "error"
    /\ pump' = "returned"
    /\ UNCHANGED <<options, upVars, downVars, lost, procVars, runnerVars, demux, stdoutEnd, got,
                   keys, typed, typing>>

\* Mutant of AfterInput: only the output ends the session.
AfterInputStays == pump

\* When its input pump has stopped, PumpTerminalIO gives the output a grace period.
AfterInput == IF pump = "select" THEN "grace" ELSE pump

\* What has been sent of standard input, with one frame more.
Sent(f) ==
    CASE f = "close" /\ typing = "open" -> "ended"
      [] f = "stdin" /\ typing = "ended" -> "late"
      [] OTHER -> typing

\* Local input is sent, or refused, which ends the input pump.  Nothing keeps a caller
\* of Stdin() from writing after it has ended the input.
Type(f) ==
    /\ keys = "read" /\ pump # "closed"
    /\ \/ /\ upClosed \/ lost
          /\ keys' = "done" /\ pump' = AfterInput /\ UNCHANGED <<up, typed, typing>>
       \/ /\ ~ upClosed /\ ~ lost /\ HasRoom(up) /\ typed < MaxInput /\ MayWork(1)
          /\ up' = Append(up, f) /\ typed' = typed + 1 /\ typing' = Sent(f)
          /\ UNCHANGED <<keys, pump>>
    /\ UNCHANGED <<options, upClosed, upCancelled, downVars, lost, procVars, runnerVars, demux,
                   stdoutEnd, copy, got>>

\* The detach key closes the sending half; a failing local read does not.
InputPumpEnds(detach) ==
    /\ keys = "read" /\ pump # "closed"
    /\ keys' = "done" /\ pump' = AfterInput
    /\ upClosed' = (upClosed \/ (detach /\ ~ lost))
    /\ UNCHANGED <<options, up, upCancelled, downVars, lost, procVars, runnerVars, demux,
                   stdoutEnd, copy, got, typed, typing>>

GraceOver ==
    /\ pump = "grace" /\ copy = "copy"
    /\ pump' = "join"
    /\ stdoutEnd' = IF stdoutEnd = "open" THEN "reader" ELSE stdoutEnd
    /\ UNCHANGED <<options, upVars, downVars, lost, procVars, runnerVars, demux, copy, got, keys,
                   typed, typing>>

\* The caller closes the session: both pipes, the receiving half and the sending half.
ClientClose ==
    /\ pump = "returned"
    /\ pump' = "closed"
    /\ stdoutEnd' = IF stdoutEnd = "open" THEN "reader" ELSE stdoutEnd
    /\ downCancelled' = TRUE /\ upClosed' = (upClosed \/ ~ lost)
    /\ UNCHANGED <<options, up, upCancelled, down, downClosed, lost, procVars, runnerVars, demux,
                   copy, got, keys, typed, typing>>

Client == Demux \/ DemuxEnds \/ CopyToTerminal \/ CopyEnds \/ GraceOver \/ ClientClose

-----------------------------------------------------------------------------
Next ==
    \/ Processes \/ ChildExit \/ KillChild \/ LadderKills \/ Cancel
    \/ Runner
    \/ CancelLands \/ ConnectionLost
    \/ Client
    \/ \E f \in {"stdin", "close"} : Type(f)
    \/ \E detach \in BOOLEAN : InputPumpEnds(detach)

Spec == Init /\ [][Next]_vars

\* Goroutines run, timers fire, kills are carried out and cancels arrive.  Nothing is
\* asked of the child, of what it left running, of the keyboard or of the caller.
Fairness ==
    /\ WF_vars(Runner) /\ WF_vars(Client) /\ WF_vars(CancelLands)
    /\ WF_vars(KillChild \/ LadderKills \/ KillTree \/ KillTreeGrace \/ ClimbLadder)

FairSpec == Spec /\ Fairness

-----------------------------------------------------------------------------
(* Properties *)

\* Every variable holds a value of its type, and no direction holds more than it has
\* room for.
TypeOK ==
    /\ mode \in {"pipe", "devnull", "pty"} /\ tree \in BOOLEAN
    /\ Len(up) <= Room /\ Len(down) <= Room
    /\ child \in {"running", "exited", "killed"}
    /\ kernel \in 0 .. written /\ written \in 0 .. MaxOutput /\ got \in 0 .. written
    /\ input \in {"read", "write", "done"} /\ copier \in {"read", "done"}
    /\ output \in {"copy", "close", "done"} /\ waiter \in {"wait", "done"}
    /\ ladder \in 0 .. 3 /\ typed \in 0 .. MaxInput /\ typing \in {"open", "ended", "late"}
    /\ demux \in {"read", "write", "done"} /\ copy \in {"copy", "eof", "error"}
    /\ stdoutEnd \in {"open", "eof", "error", "reader"} /\ keys \in {"read", "done"}
    /\ pump \in {"select", "grace", "join", "returned", "closed"}

\* With pipes, a client told that the output has ended has all of it: Wait, CloseBoth
\* and the demultiplexer never overtake a chunk still in a pipe or on the stream.
OutputComplete ==
    copy = "eof" /\ mode # "pty" /\ ~ downCancelled => got = written

\* The child is killed for a reason: the caller's context, the loss of the connection,
\* data sent after the end of input ("would fail the whole session", exec.go:152), or, for
\* a pty, the end of its input, of its terminal or of the client.  Nothing else that
\* cancels the errgroup's context kills a child: neither the end of the stream, nor the
\* client's leaving, nor a copy that fails, when the child talks through pipes.
KilledOnRequest ==
    child = "killed" =>
        \/ cancelled \/ lost
        \/ mode # "devnull" /\ typing = "late"
        \/ mode = "pty" /\ (copier = "done" \/ ttyClosed \/ downClosed)

\* What can hold a session up for ever: a process that outlived a child not killed
\* with its tree and keeps the output open, and an input handler writing to a copier
\* that has gone.
HeldByOrphan == child # "running" /\ orphan /\ ~ treeKill
Jammed == input = "write" /\ copier = "done"

\* Once the child has exited, the caller's context is cancelled, or a pty's input has
\* ended, the session ends, or is held up in one of the two ways above: in particular
\* no full stream, no copy and no demultiplexer keeps the goroutines waiting for one
\* another (executeCommandImpl, gr.Wait).
SessionReturns ==
    (child # "running" \/ cancelled \/ (mode = "pty" /\ copier = "done"))
        ~> (returned \/ HeldByOrphan \/ Jammed)

\* "Both directions must be able to end it": once the input pump has stopped or the
\* runner's output has ended, PumpTerminalIO returns (exec_shell.go).
PumpReturns ==
    (keys = "done" \/ demux = "done") ~> pump \in {"returned", "closed"}

\* "terminate the input handler" (exec.go): once the child has been waited for and the
\* stream's input cancelled, handleInput returns.
InputHandlerEnds == waiter = "done" ~> input = "done"
=============================================================================
