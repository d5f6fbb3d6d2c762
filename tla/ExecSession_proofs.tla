--------------------------- MODULE ExecSession_proofs ---------------------------
(***************************************************************************)
(* A remote command, for a stream of any room, any input and any output:   *)
(* with pipes a client told that the output has ended has all of it, and a *)
(* child is killed only for one of the reasons the code has.               *)
(***************************************************************************)
EXTENDS ExecSession, SequenceTheorems, TLAPS

---------------------------------------------------------------------------------
(* Types *)

\* The types of the variables, but for the counts of chunks, which the flow of the
\* output bounds.
Shape ==
    /\ mode \in {"pipe", "devnull", "pty"} /\ tree \in BOOLEAN
    /\ up \in Seq({"stdin", "close"}) /\ Len(up) <= Room
    /\ down \in Seq({"out", "end"}) /\ Len(down) <= Room
    /\ child \in {"running", "exited", "killed"}
    /\ kernel \in Nat /\ written \in 0 .. MaxOutput /\ got \in Nat
    /\ input \in {"read", "write", "done"} /\ copier \in {"read", "done"}
    /\ output \in {"copy", "close", "done"} /\ waiter \in {"wait", "done"}
    /\ ladder \in 0 .. 3 /\ typed \in 0 .. MaxInput /\ typing \in {"open", "ended", "late"}
    /\ demux \in {"read", "write", "done"} /\ copy \in {"copy", "eof", "error"}
    /\ stdoutEnd \in {"open", "eof", "error", "reader"} /\ keys \in {"read", "done"}
    /\ pump \in {"select", "grace", "join", "returned", "closed"}

\* What is left of a sequence once its end is dropped.
LEMMA Prefix ==
    ASSUME NEW S, NEW seq \in Seq(S), NEW n \in 0 .. Len(seq)
    PROVE  /\ SubSeq(seq, 1, n) \in Seq(S) /\ Len(SubSeq(seq, 1, n)) = n
           /\ \A i \in 1 .. n : SubSeq(seq, 1, n)[i] = seq[i]
<1>1. n \in Nat /\ Len(seq) \in Nat
  OBVIOUS
<1>2. \A i \in 1 .. n : seq[i] \in S
  BY <1>1
<1>3. /\ SubSeq(seq, 1, n) \in Seq(S) /\ Len(SubSeq(seq, 1, n)) = IF 1 <= n THEN n - 1 + 1 ELSE 0
      /\ \A i \in 1 .. n - 1 + 1 : SubSeq(seq, 1, n)[i] = seq[1 + i - 1]
  BY <1>1, <1>2, SubSeqProperties
<1> QED BY <1>1, <1>3

\* A frame is appended where there is room.
LEMMA Room1 ==
    ASSUME NEW S, NEW seq \in Seq(S), NEW f \in S, HasRoom(seq)
    PROVE  Append(seq, f) \in Seq(S) /\ Len(Append(seq, f)) <= Room
BY ExecAssumption DEF HasRoom

LEMMA ShapeProcesses ==
    ASSUME Shape, Processes \/ ChildExit \/ KillChild \/ LadderKills \/ Cancel
    PROVE  Shape'
<1>1. CASE ChildWrite
  BY <1>1, ExecAssumption
     DEF ChildWrite, options, upVars, downVars, runnerVars, clientVars, Shape
<1>2. CASE ChildClosesTty \/ ChildExit
  BY <1>2 DEF ChildClosesTty, ChildExit, options, upVars, downVars, runnerVars, clientVars, Shape
<1>3. CASE KillChild \/ LadderKills
  BY <1>3 DEF KillChild, LadderKills, Kills, options, upVars, downVars, runnerVars, clientVars, Shape
<1>4. CASE KillTreeGrace
  BY <1>4 DEF KillTreeGrace, options, upVars, downVars, runnerVars, clientVars, Shape
<1>5. CASE KillTree \/ Cancel
  BY <1>5 DEF KillTree, Cancel, options, upVars, downVars, procVars, clientVars, Shape
<1>6. CASE ClimbLadder
  <2>1. ladder' \in 0 .. 3
    BY <1>6 DEF ClimbLadder
  <2> QED BY <1>6, <2>1 DEF ClimbLadder, options, upVars, downVars, procVars, clientVars, Shape
<1> QED BY <1>1, <1>2, <1>3, <1>4, <1>5, <1>6 DEF Processes

LEMMA ShapeRunner ==
    ASSUME Shape, Runner
    PROVE  Shape'
<1>1. CASE ReadFrame
  <2>1. up' \in Seq({"stdin", "close"}) /\ Len(up') <= Room
    BY <1>1, ExecAssumption DEF ReadFrame, Shape
  <2> QED BY <1>1, <2>1 DEF ReadFrame, options, downVars, procVars, clientVars, Shape
<1>10. CASE WriteRefused
  <2>1. up' \in Seq({"stdin", "close"}) /\ Len(up') <= Room
    BY <1>10, ExecAssumption DEF WriteRefused, ForClosedPipe, Shape
  <2> QED BY <1>10, <2>1 DEF WriteRefused, options, downVars, procVars, clientVars, Shape
<1>2. CASE InputEnds
  BY <1>2 DEF InputEnds, options, upVars, downVars, procVars, clientVars, Shape
<1>3. CASE CopyInput
  <2>1. copier' \in {"read", "done"} /\ ladder' \in 0 .. 3
    BY <1>3 DEF CopyInput, CopierEnds, Hangup, Shape
  <2> QED BY <1>3, <2>1 DEF CopyInput, options, upVars, downVars, procVars, clientVars, Shape
<1>4. CASE EndOfInput
  <2>1. copier' \in {"read", "done"} /\ ladder' \in 0 .. 3
    BY <1>4 DEF EndOfInput, CopierEnds, Hangup, Shape
  <2> QED BY <1>4, <2>1 DEF EndOfInput, options, upVars, downVars, procVars, clientVars, Shape
<1>5. CASE CopyOutput
  <2>1. kernel' \in Nat
    BY <1>5 DEF CopyOutput, Shape
  <2>2. down' \in Seq({"out", "end"}) /\ Len(down') <= Room
    BY <1>5, Room1 DEF CopyOutput, DownRefuses, Shape
  <2>3. output' \in {"copy", "close", "done"}
    BY <1>5 DEF CopyOutput, OutputStops, Shape
  <2> QED BY <1>5, <2>1, <2>2, <2>3 DEF CopyOutput, options, upVars, clientVars, Shape
<1>6. CASE NoMoreOutput
  BY <1>6 DEF NoMoreOutput, OutputStops, options, upVars, downVars, procVars, clientVars, Shape
<1>7. CASE CloseOutput
  <2>1. down' \in Seq({"out", "end"}) /\ Len(down') <= Room
    BY <1>7, Room1 DEF CloseOutput, DownRefuses, Shape
  <2> QED BY <1>7, <2>1 DEF CloseOutput, options, upVars, procVars, clientVars, Shape
<1>8. CASE Wait
  BY <1>8 DEF Wait, options, downVars, procVars, clientVars, Shape
<1>9. CASE Return
  BY <1>9 DEF Return, options, procVars, clientVars, Shape
<1> QED BY <1>1, <1>2, <1>3, <1>4, <1>5, <1>6, <1>7, <1>8, <1>9, <1>10 DEF Runner

LEMMA ShapeCancelLands ==
    ASSUME Shape, CancelLands \/ ConnectionLost
    PROVE  Shape'
<1>1. ASSUME NEW n \in 0 .. Len(up), up' = SubSeq(up, 1, n)
      PROVE  up' \in Seq({"stdin", "close"}) /\ Len(up') <= Room
  BY <1>1, Prefix, ExecAssumption DEF Shape
<1>2. ASSUME NEW n \in 0 .. Len(down), down' = SubSeq(down, 1, n)
      PROVE  down' \in Seq({"out", "end"}) /\ Len(down') <= Room
  BY <1>2, Prefix, ExecAssumption DEF Shape
<1> QED BY <1>1, <1>2
        DEF CancelLands, ConnectionLost, options, upVars, downVars, procVars, runnerVars, clientVars, Shape

LEMMA ShapeClient ==
    ASSUME Shape, \/ Client \/ \E f \in {"stdin", "close"} : Type(f)
                  \/ \E detach \in BOOLEAN : InputPumpEnds(detach)
    PROVE  Shape'
<1>1. CASE Demux
  <2>1. down' \in Seq({"out", "end"}) /\ Len(down') <= Room
    BY <1>1, ExecAssumption DEF Demux, Shape
  <2> QED BY <1>1, <2>1 DEF Demux, options, upVars, procVars, runnerVars, Shape
<1>2. CASE DemuxEnds
  BY <1>2 DEF DemuxEnds, options, upVars, downVars, procVars, runnerVars, Shape
<1>3. CASE CopyToTerminal
  BY <1>3 DEF CopyToTerminal, options, upVars, downVars, procVars, runnerVars, Shape
<1>4. CASE CopyEnds
  BY <1>4 DEF CopyEnds, options, upVars, downVars, procVars, runnerVars, Shape
<1>5. CASE GraceOver
  BY <1>5 DEF GraceOver, options, upVars, downVars, procVars, runnerVars, Shape
<1>6. CASE ClientClose
  BY <1>6 DEF ClientClose, options, procVars, runnerVars, Shape
<1>7. ASSUME NEW f \in {"stdin", "close"}, Type(f)
      PROVE  Shape'
  <2>1. up' \in Seq({"stdin", "close"}) /\ Len(up') <= Room
    BY <1>7, Room1 DEF Type, Shape
  <2>2. typed' \in 0 .. MaxInput /\ typing' \in {"open", "ended", "late"}
    BY <1>7, ExecAssumption DEF Type, Sent, Shape
  <2>3. keys' \in {"read", "done"} /\ pump' \in {"select", "grace", "join", "returned", "closed"}
    BY <1>7 DEF Type, AfterInput, Shape
  <2> QED BY <1>7, <2>1, <2>2, <2>3 DEF Type, options, downVars, procVars, runnerVars, Shape
<1>8. ASSUME NEW detach, InputPumpEnds(detach)
      PROVE  Shape'
  BY <1>8 DEF InputPumpEnds, AfterInput, options, downVars, procVars, runnerVars, Shape
<1> QED BY <1>1, <1>2, <1>3, <1>4, <1>5, <1>6, <1>7, <1>8 DEF Client

LEMMA ShapeStep ==
    ASSUME Shape, [Next]_vars
    PROVE  Shape'
<1>1. CASE UNCHANGED vars
  BY <1>1 DEF vars, options, upVars, downVars, procVars, runnerVars, clientVars, Shape
<1> QED BY <1>1, ShapeProcesses, ShapeRunner, ShapeCancelLands, ShapeClient DEF Next

LEMMA ShapeInit == Init => Shape
<1> SUFFICES ASSUME Init PROVE Shape
  OBVIOUS
<1>1. tree \in BOOLEAN
  <2>1. orphan \in {FALSE, mode # "pty"} /\ tree \in {FALSE, orphan}
    BY DEF Init
  <2>2. orphan \in BOOLEAN
    BY <2>1, Zenon
  <2> QED BY <2>1, <2>2, Zenon
<1>2. up \in Seq({"stdin", "close"}) /\ Len(up) <= Room /\ down \in Seq({"out", "end"}) /\ Len(down) <= Room
  BY ExecAssumption DEF Init
<1>3. /\ kernel \in Nat /\ written \in 0 .. MaxOutput /\ got \in Nat /\ typed \in 0 .. MaxInput
      /\ ladder \in 0 .. 3
  BY ExecAssumption DEF Init
<1> QED BY <1>1, <1>2, <1>3 DEF Init, Shape

---------------------------------------------------------------------------------
(* Who is killed: the reasons are in place before a kill is.                    *)

\* What the session may kill a child for.
Ending ==
    \/ lost
    \/ mode # "devnull" /\ typing = "late"
    \/ mode = "pty" /\ (copier = "done" \/ ttyClosed \/ downClosed)

\* On the stream, nothing but ends of input follows one, until the client is late; and
\* then the pipe is closed, by the frame or with the input handler.
InputInOrder ==
    /\ typing # "late" =>
          /\ \A i, j \in 1 .. Len(up) : i < j /\ up[i] = "close" => up[j] = "close"
          /\ pipeInClosed /\ input # "done" => \A i \in 1 .. Len(up) : up[i] = "close"
    /\ typing = "open" =>
          /\ \A i \in 1 .. Len(up) : up[i] # "close"
          /\ pipeInClosed => input = "done"

\* Only a child that has gone cancels the input, and only then, or for an ending
\* that would do by itself, does the group fail.
Asked ==
    /\ upCancelled => child # "running"
    /\ waiter = "done" => child # "running"
    /\ returned => waiter = "done"
    /\ ladder > 0 => mode = "pty" /\ copier = "done"
    /\ groupFailed => child # "running" \/ Ending
    /\ treeKill => cancelled \/ Ending
    /\ KilledOnRequest

LEMMA InOrderFewer ==
    ASSUME Shape, InputInOrder, UNCHANGED <<typing, pipeInClosed, input>>,
           NEW n \in 0 .. Len(up), up' = SubSeq(up, 1, n)
    PROVE  InputInOrder'
<1>1. /\ Len(up') = n /\ \A i \in 1 .. n : up'[i] = up[i] /\ n \in Nat /\ n <= Len(up) /\ Len(up) \in Nat
  BY Prefix DEF Shape
<1>2. \A i \in 1 .. Len(up') : i \in 1 .. Len(up) /\ up'[i] = up[i]
  BY <1>1
<1> QED BY <1>2 DEF InputInOrder

LEMMA InOrderNext ==
    ASSUME Shape, up # <<>>, up' = Tail(up)
    PROVE  \A i \in 1 .. Len(up') : i + 1 \in 1 .. Len(up) /\ 1 < i + 1 /\ up'[i] = up[i + 1]
<1>1. up \in Seq({"stdin", "close"})
  BY DEF Shape
<1> QED BY <1>1

LEMMA InOrderStep ==
    ASSUME Shape, InputInOrder, [Next]_vars
    PROVE  InputInOrder'
<1>1. CASE UNCHANGED <<up, typing, pipeInClosed, input>>
  BY <1>1 DEF InputInOrder
<1>2. CASE ReadFrame
  <2>1. /\ up # <<>> /\ up' = Tail(up) /\ typing' = typing /\ input = "read"
        /\ Head(up) = up[1] /\ up[1] \in {"stdin", "close"} /\ 1 \in 1 .. Len(up)
    BY <1>2 DEF ReadFrame, clientVars, Shape
  <2>2. \A i \in 1 .. Len(up') : i + 1 \in 1 .. Len(up) /\ 1 < i + 1 /\ up'[i] = up[i + 1]
    BY <2>1, InOrderNext
  <2>3. pipeInClosed' => pipeInClosed \/ up[1] = "close"
    BY <1>2, <2>1 DEF ReadFrame
  <2>4. \A i, j \in 1 .. Len(up') : i < j => i + 1 < j + 1
    OBVIOUS
  <2>5. CASE typing = "late"
    BY <2>1, <2>5 DEF InputInOrder
  <2>6. CASE typing # "late"
    <3>1. \A i, j \in 1 .. Len(up') : i < j /\ up'[i] = "close" => up'[j] = "close"
      BY <2>2, <2>4, <2>6 DEF InputInOrder
    <3>2. pipeInClosed' => \A i \in 1 .. Len(up') : up'[i] = "close"
      BY <2>1, <2>2, <2>3, <2>6 DEF InputInOrder
    <3>3. typing = "open" => ~ pipeInClosed' /\ \A i \in 1 .. Len(up') : up'[i] # "close"
      BY <2>1, <2>2, <2>3 DEF InputInOrder
    <3> QED BY <2>1, <3>1, <3>2, <3>3 DEF InputInOrder
  <2> QED BY <2>5, <2>6
<1>3. CASE WriteRefused
  <2>1. /\ up # <<>> /\ up' = Tail(up) /\ input' = "done" /\ typing' = typing
        /\ input = "read" /\ pipeInClosed
    BY <1>3 DEF WriteRefused, ForClosedPipe, clientVars
  <2>2. typing # "open"
    BY <2>1 DEF InputInOrder
  <2>3. \A i \in 1 .. Len(up') : i + 1 \in 1 .. Len(up) /\ 1 < i + 1 /\ up'[i] = up[i + 1]
    BY <2>1, InOrderNext
  <2>4. \A i, j \in 1 .. Len(up') : i < j => i + 1 < j + 1
    OBVIOUS
  <2>5. typing # "late" => \A i, j \in 1 .. Len(up') : i < j /\ up'[i] = "close" => up'[j] = "close"
    BY <2>3, <2>4 DEF InputInOrder
  <2> QED BY <2>1, <2>2, <2>5 DEF InputInOrder
<1>4. CASE InputEnds
  BY <1>4 DEF InputEnds, InputInOrder, upVars, clientVars
<1>5. CASE CopyInput
  <2>1. UNCHANGED <<up, typing, pipeInClosed>> /\ input = "write"
    BY <1>5, Zenon DEF CopyInput, upVars, clientVars
  <2> QED BY <2>1 DEF InputInOrder
<1>6. CASE CancelLands \/ ConnectionLost
  <2>1. UNCHANGED <<typing, pipeInClosed, input>> /\ (up' = up \/ \E n \in 0 .. Len(up) : up' = SubSeq(up, 1, n))
    BY <1>6 DEF CancelLands, ConnectionLost, upVars, runnerVars, clientVars
  <2> QED BY <1>1, <2>1, InOrderFewer
<1>7. ASSUME NEW f \in {"stdin", "close"}, Type(f)
      PROVE  InputInOrder'
  <2>1. CASE up' = up /\ typing' = typing
    BY <1>1, <1>7, <2>1 DEF Type, runnerVars
  <2>2. CASE up' = Append(up, f) /\ typing' = Sent(f)
    <3>1. UNCHANGED <<pipeInClosed, input>>
      BY <1>7 DEF Type, runnerVars
    <3>2. /\ Len(up') = Len(up) + 1 /\ Len(up) \in Nat /\ up'[Len(up) + 1] = f
          /\ \A i \in 1 .. Len(up) : up'[i] = up[i]
      BY <2>2 DEF Shape
    <3>3. \A i \in 1 .. Len(up') : (i \in 1 .. Len(up) /\ up'[i] = up[i]) \/ (i = Len(up) + 1 /\ up'[i] = f)
      BY <3>2
    <3>4. \A i, j \in 1 .. Len(up') : i < j => i \in 1 .. Len(up)
      BY <3>2
    <3>5. CASE f = "close"
      <4>1. (typing = "late" => typing' = "late") /\ typing' # "open"
        BY <2>2, <3>5 DEF Sent, Shape
      <4>2. \A i, j \in 1 .. Len(up') : i < j /\ typing # "late" /\ up'[i] = "close" => up'[j] = "close"
        BY <3>3, <3>4, <3>5 DEF InputInOrder
      <4>3. typing # "late" /\ pipeInClosed /\ input # "done" => \A i \in 1 .. Len(up') : up'[i] = "close"
        BY <3>3, <3>5 DEF InputInOrder
      <4> QED BY <3>1, <4>1, <4>2, <4>3 DEF InputInOrder
    <3>6. CASE f = "stdin" /\ typing = "open"
      <4>1. typing' = "open"
        BY <2>2, <3>6 DEF Sent
      <4> QED BY <3>1, <3>3, <3>4, <3>6, <4>1 DEF InputInOrder
    <3>7. CASE f = "stdin" /\ typing # "open"
      <4>1. typing' = "late"
        BY <2>2, <3>7 DEF Sent, Shape
      <4> QED BY <4>1 DEF InputInOrder
    <3> QED BY <3>5, <3>6, <3>7
  <2> QED BY <1>7, <2>1, <2>2 DEF Type
<1>8. CASE Processes \/ ChildExit \/ KillChild \/ LadderKills \/ Cancel
  BY <1>1, <1>8 DEF Processes, ChildWrite, ChildClosesTty, ChildExit, KillChild, LadderKills, Kills, Cancel,
                    KillTree, KillTreeGrace, ClimbLadder, upVars, runnerVars, clientVars
<1>9. CASE EndOfInput \/ CopyOutput \/ NoMoreOutput \/ CloseOutput \/ Wait \/ Return
  <2>1. UNCHANGED <<up, clientVars, pipeInClosed, input>>
    BY <1>9, Zenon DEF EndOfInput, CopyOutput, NoMoreOutput, CloseOutput, Wait, Return, upVars
  <2> QED BY <1>1, <2>1 DEF clientVars
<1>10. CASE Client \/ \E detach \in BOOLEAN : InputPumpEnds(detach)
  BY <1>1, <1>10 DEF Client, Demux, DemuxEnds, CopyToTerminal, CopyEnds, GraceOver, ClientClose, InputPumpEnds,
                     upVars, runnerVars
<1>11. CASE UNCHANGED vars
  BY <1>1, <1>11 DEF vars, upVars, runnerVars, clientVars
<1> QED BY <1>2, <1>3, <1>4, <1>5, <1>6, <1>7, <1>8, <1>9, <1>10, <1>11 DEF Next, Runner

LEMMA AskedProcesses ==
    ASSUME Shape, Asked, Processes \/ ChildExit \/ KillChild \/ LadderKills \/ Cancel
    PROVE  Asked'
<1>1. CASE ChildWrite
  BY <1>1 DEF ChildWrite, options, upVars, downVars, runnerVars, Asked, Ending, clientVars, KilledOnRequest
<1>2. CASE ChildClosesTty
  BY <1>2 DEF ChildClosesTty, options, upVars, downVars, runnerVars, Asked, Ending, clientVars, KilledOnRequest
<1>3. CASE ChildExit
  BY <1>3 DEF ChildExit, options, upVars, downVars, runnerVars, Asked, Ending, clientVars, KilledOnRequest
<1>4. CASE KillChild
  <2>1. cancelled \/ Ending
    BY <1>4 DEF KillChild, Kills, GroupDone, Asked
  <2> QED BY <1>4, <2>1 DEF KillChild, Kills, options, upVars, downVars, runnerVars, Asked, Ending,
                            clientVars, KilledOnRequest
<1>5. CASE LadderKills
  <2>1. mode = "pty" /\ copier = "done"
    BY <1>5 DEF LadderKills, Kills, Asked
  <2> QED BY <1>5, <2>1 DEF LadderKills, Kills, options, upVars, downVars, runnerVars, Asked, Ending,
                            clientVars, KilledOnRequest
<1>6. CASE KillTreeGrace
  BY <1>6 DEF KillTreeGrace, options, upVars, downVars, runnerVars, Asked, Ending, clientVars, KilledOnRequest
<1>7. CASE KillTree
  <2>1. cancelled \/ Ending
    BY <1>7 DEF KillTree, GroupDone, Asked
  <2> QED BY <1>7, <2>1 DEF KillTree, options, upVars, downVars, procVars, Asked, Ending, clientVars, KilledOnRequest
<1>8. CASE Cancel
  BY <1>8 DEF Cancel, options, upVars, downVars, procVars, Asked, Ending, clientVars, KilledOnRequest
<1>9. CASE ClimbLadder
  <2>1. ladder > 0
    BY <1>9 DEF ClimbLadder
  <2> QED BY <1>9, <2>1 DEF ClimbLadder, options, upVars, downVars, procVars, Asked, Ending,
                            clientVars, KilledOnRequest
<1> QED BY <1>1, <1>2, <1>3, <1>4, <1>5, <1>6, <1>7, <1>8, <1>9 DEF Processes

LEMMA AskedRunner ==
    ASSUME Shape, Asked, InputInOrder, Runner
    PROVE  Asked'
<1>1. CASE ReadFrame
  BY <1>1 DEF ReadFrame, options, downVars, procVars, Asked, Ending, clientVars, KilledOnRequest
<1>11. CASE WriteRefused
  <2>1. mode # "devnull" /\ typing = "late"
    <3>1. input = "read" /\ pipeInClosed /\ mode # "devnull" /\ up # <<>> /\ Head(up) = "stdin"
      BY <1>11 DEF WriteRefused, ForClosedPipe
    <3>2. 1 \in 1 .. Len(up) /\ up[1] = "stdin"
      BY <3>1 DEF Shape
    <3> QED BY <3>1, <3>2 DEF InputInOrder
  <2> QED BY <1>11, <2>1 DEF WriteRefused, options, downVars, procVars, clientVars, Asked, Ending, KilledOnRequest
<1>2. CASE InputEnds
  BY <1>2 DEF InputEnds, InputError, options, upVars, downVars, procVars, Asked, Ending, clientVars, KilledOnRequest
<1>3. ASSUME NEW failing \in BOOLEAN, CopierEnds(failing),
             UNCHANGED <<options, upVars, downVars, lost, procVars, waiter, cancelled, treeKill, returned, clientVars>>
      PROVE  Asked'
  <2>1. /\ copier' = "done" /\ (ladder' > 0 => mode' = "pty")
        /\ groupFailed' => groupFailed \/ mode = "pty"
    <3>1. copier' = "done" /\ ladder' = Hangup /\ mode' = mode
      BY <1>3 DEF CopierEnds, options
    <3>2. ladder' > 0 => mode' = "pty"
      BY <3>1 DEF Hangup
    <3>3. groupFailed' => groupFailed \/ mode = "pty"
      BY <1>3, Zenon DEF CopierEnds
    <3> QED BY <3>1, <3>2, <3>3
  <2>2. Ending => Ending'
    BY <1>3, <2>1 DEF Ending, options, procVars, downVars, clientVars
  <2>3. groupFailed' => child' # "running" \/ Ending'
    BY <1>3, <2>1, <2>2 DEF Asked, Ending, options, procVars
  <2>4. KilledOnRequest'
    BY <1>3, <2>1 DEF Asked, KilledOnRequest, options, procVars, downVars, clientVars
  <2> QED BY <1>3, <2>1, <2>2, <2>3, <2>4 DEF Asked, upVars, procVars
<1>4. CASE CopyInput
  <2>1. CASE child = "running"
    BY <1>4, <2>1 DEF CopyInput, options, upVars, downVars, procVars, Asked, Ending, clientVars, KilledOnRequest
  <2>2. CASE child # "running"
    BY <1>3, <1>4, <2>2 DEF CopyInput
  <2> QED BY <2>1, <2>2
<1>5. CASE EndOfInput
  BY <1>3, <1>5 DEF EndOfInput
<1>6. CASE CopyOutput
  BY <1>6 DEF CopyOutput, DownRefuses, OutputStops, options, upVars, Asked, Ending, clientVars, KilledOnRequest
<1>7. CASE NoMoreOutput
  BY <1>7 DEF NoMoreOutput, OutputStops, ptyClosed, options, upVars, downVars, procVars, Asked, Ending,
              clientVars, KilledOnRequest
<1>8. CASE CloseOutput
  BY <1>8 DEF CloseOutput, options, upVars, procVars, Asked, Ending, clientVars, KilledOnRequest
<1>9. CASE Wait
  BY <1>9 DEF Wait, WaitReturns, options, downVars, procVars, Asked, Ending, clientVars, KilledOnRequest
<1>10. CASE Return
  BY <1>10 DEF Return, GroupFinished, options, procVars, Asked, Ending, clientVars, KilledOnRequest
<1> QED BY <1>1, <1>2, <1>4, <1>5, <1>6, <1>7, <1>8, <1>9, <1>10, <1>11 DEF Runner

LEMMA AskedClient ==
    ASSUME Shape, Asked, \/ CancelLands \/ ConnectionLost \/ Client \/ \E f \in {"stdin", "close"} : Type(f)
                         \/ \E detach \in BOOLEAN : InputPumpEnds(detach)
    PROVE  Asked'
<1>1. /\ UNCHANGED <<options, upCancelled, procVars, runnerVars>>
      /\ downClosed => downClosed' \/ lost'
      /\ lost => lost'
      /\ typing = "late" => typing' = "late"
  <2>1. CASE CancelLands \/ ConnectionLost
    BY <2>1 DEF CancelLands, ConnectionLost, upVars, downVars, clientVars
  <2>2. CASE Client \/ \E detach \in BOOLEAN : InputPumpEnds(detach)
    BY <2>2 DEF Client, Demux, DemuxEnds, CopyToTerminal, CopyEnds, GraceOver, ClientClose, InputPumpEnds, upVars,
                downVars
  <2>3. ASSUME NEW f \in {"stdin", "close"}, Type(f)
        PROVE  UNCHANGED <<options, upCancelled, procVars, runnerVars, downVars, lost>> /\ (typing = "late" => typing' = "late")
    BY <2>3 DEF Type, Sent
  <2> QED BY <2>1, <2>2, <2>3 DEF downVars
<1> QED BY <1>1 DEF options, procVars, runnerVars, Asked, Ending, KilledOnRequest

LEMMA AskedStep ==
    ASSUME Shape, Asked, InputInOrder, [Next]_vars
    PROVE  Asked'
<1>1. CASE UNCHANGED vars
  BY <1>1 DEF vars, options, upVars, downVars, procVars, runnerVars, clientVars, Asked, Ending, KilledOnRequest
<1> QED BY <1>1, AskedProcesses, AskedRunner, AskedClient DEF Next

LEMMA AskedInit == Init => Asked /\ InputInOrder
<1>1. Init => Asked
  BY DEF Init, Asked, Ending, KilledOnRequest
<1>2. Init => InputInOrder
  BY DEF Init, InputInOrder
<1> QED BY <1>1, <1>2

\* A child is killed only for a reason, whatever the order in which the goroutines of
\* the session end: the caller's context, the loss of the connection, data sent after
\* the end of input, or the ends that a pty child has.
THEOREM ExecKilledOnRequest == Spec => []KilledOnRequest
<1>1. Shape /\ Asked /\ InputInOrder /\ [Next]_vars => (Shape /\ Asked /\ InputInOrder)'
  BY ShapeStep, AskedStep, InOrderStep
<1>2. Shape /\ Asked /\ InputInOrder => KilledOnRequest
  BY DEF Asked
<1> QED BY <1>1, <1>2, ShapeInit, AskedInit, PTL DEF Spec

---------------------------------------------------------------------------------
(* Where the output is: every chunk written is in the kernel, on the stream, in *)
(* the hands of the demultiplexer, or copied.                                   *)

Frames == {"out", "end"}
Ends(q) == q # <<>> /\ q[Len(q)] = "end"
EndLast(q) == \A i \in 1 .. Len(q) : q[i] = "end" => i = Len(q)
Chunks(q) == IF Ends(q) THEN Len(q) - 1 ELSE Len(q)
Writing == IF demux = "write" THEN 1 ELSE 0
OnTheWay == got + Chunks(down) + Writing + kernel

LEMMA ChunksNat ==
    ASSUME NEW q \in Seq(Frames)
    PROVE  Chunks(q) \in Nat
BY DEF Chunks, Ends

LEMMA ChunksAppend ==
    ASSUME NEW q \in Seq(Frames), EndLast(q), ~ Ends(q), NEW f \in Frames
    PROVE  /\ EndLast(Append(q, f)) /\ (Ends(Append(q, f)) <=> f = "end")
           /\ Chunks(Append(q, f)) = IF f = "out" THEN Chunks(q) + 1 ELSE Chunks(q)
<1> DEFINE r == Append(q, f)
<1>1. /\ Len(r) = Len(q) + 1 /\ r[Len(r)] = f /\ r # <<>> /\ Len(q) \in Nat
      /\ \A i \in 1 .. Len(q) : r[i] = q[i]
  OBVIOUS
<1>2. \A i \in 1 .. Len(q) : q[i] # "end"
  <2> SUFFICES ASSUME NEW i \in 1 .. Len(q), q[i] = "end" PROVE FALSE
    OBVIOUS
  <2>1. i = Len(q)
    BY DEF EndLast
  <2> QED BY <2>1 DEF Ends
<1> HIDE DEF r
<1>3. EndLast(r)
  BY <1>1, <1>2 DEF EndLast
<1>4. Ends(r) <=> f = "end"
  BY <1>1 DEF Ends
<1>5. Chunks(r) = IF f = "out" THEN Chunks(q) + 1 ELSE Chunks(q)
  BY <1>1, <1>4 DEF Chunks, Frames
<1> QED BY <1>3, <1>4, <1>5 DEF r

LEMMA ChunksTail ==
    ASSUME NEW q \in Seq(Frames), EndLast(q), q # <<>>
    PROVE  /\ EndLast(Tail(q)) /\ (Ends(Tail(q)) => Ends(q))
           /\ Head(q) = "out" => Chunks(Tail(q)) = Chunks(q) - 1
           /\ Head(q) = "end" => Chunks(Tail(q)) = Chunks(q) /\ Ends(q)
<1> DEFINE r == Tail(q)
<1>1. /\ Len(q) \in Nat /\ Len(q) > 0 /\ Len(r) = Len(q) - 1 /\ r \in Seq(Frames)
      /\ \A i \in 1 .. Len(r) : r[i] = q[i + 1] /\ i + 1 \in 1 .. Len(q)
      /\ Head(q) = q[1]
  OBVIOUS
<1> HIDE DEF r
<1>2. r # <<>> => Len(r) > 0 /\ Len(r) \in 1 .. Len(r)
  BY <1>1
<1>3. EndLast(r)
  BY <1>1 DEF EndLast
<1>4. Ends(r) => Ends(q)
  BY <1>1, <1>2 DEF Ends
<1>5. r # <<>> /\ Ends(q) => Ends(r)
  BY <1>1, <1>2 DEF Ends
<1>6. r = <<>> => Len(r) = 0
  OBVIOUS
<1>7. ASSUME q[1] = "out"
      PROVE  Chunks(r) = Chunks(q) - 1
  <2>1. CASE r = <<>>
    <3>1. Len(r) = 0 /\ Len(q) = 1
      BY <1>1, <1>6, <2>1
    <3>2. ~ Ends(q) /\ ~ Ends(r)
      BY <1>7, <2>1, <3>1 DEF Ends
    <3> QED BY <3>1, <3>2 DEF Chunks
  <2>2. CASE r # <<>>
    BY <1>1, <1>4, <1>5, <2>2 DEF Chunks
  <2> QED BY <2>1, <2>2
<1>8. ASSUME q[1] = "end"
      PROVE  Chunks(r) = Chunks(q) /\ Ends(q)
  <2>1. Len(q) = 1
    BY <1>1, <1>8 DEF EndLast
  <2>2. Ends(q) /\ Len(r) = 0 /\ ~ Ends(r)
    BY <1>1, <1>2, <1>8, <2>1 DEF Ends
  <2> QED BY <2>1, <2>2 DEF Chunks
<1> QED BY <1>1, <1>3, <1>4, <1>7, <1>8 DEF r

LEMMA ChunksPrefix ==
    ASSUME NEW q \in Seq(Frames), EndLast(q), NEW n \in 0 .. Len(q)
    PROVE  /\ EndLast(SubSeq(q, 1, n)) /\ (Ends(SubSeq(q, 1, n)) => Ends(q))
           /\ Chunks(SubSeq(q, 1, n)) <= Chunks(q)
<1> DEFINE r == SubSeq(q, 1, n)
<1>1. r \in Seq(Frames) /\ Len(r) = n /\ n \in Nat /\ Len(q) \in Nat /\ \A i \in 1 .. n : r[i] = q[i]
  BY Prefix
<1> HIDE DEF r
<1>2. r # <<>> => n \in 1 .. Len(q) /\ r[n] = q[n]
  BY <1>1
<1>3. Ends(r) => Ends(q) /\ n = Len(q)
  <2> SUFFICES ASSUME Ends(r) PROVE Ends(q) /\ n = Len(q)
    OBVIOUS
  <2>1. n \in 1 .. Len(q) /\ q[n] = "end"
    BY <1>1, <1>2 DEF Ends
  <2>2. n = Len(q)
    BY <2>1 DEF EndLast
  <2> QED BY <2>1, <2>2 DEF Ends
<1>4. EndLast(r)
  <2> SUFFICES ASSUME NEW i \in 1 .. n, q[i] = "end" PROVE i = n
    BY <1>1 DEF EndLast
  <2>1. i \in 1 .. Len(q)
    BY <1>1
  <2>2. i = Len(q)
    BY <2>1 DEF EndLast
  <2> QED BY <1>1, <2>2
<1>5. Chunks(r) <= Chunks(q)
  <2>1. CASE n = Len(q) /\ Ends(q)
    <3>1. Ends(r)
      BY <1>1, <2>1 DEF Ends
    <3> QED BY <1>1, <2>1, <3>1 DEF Chunks
  <2>2. CASE n # Len(q) \/ ~ Ends(q)
    <3>1. ~ Ends(r)
      BY <1>3, <2>2
    <3>2. n <= Chunks(q)
      BY <1>1, <2>2 DEF Chunks
    <3> QED BY <1>1, <3>1, <3>2 DEF Chunks
  <2> QED BY <2>1, <2>2
<1> QED BY <1>3, <1>4, <1>5 DEF r

\* The end of the output is the last frame, and no chunk is in two places.
Flow ==
    /\ EndLast(down) /\ (Ends(down) => output = "done")
    /\ OnTheWay <= written

LEMMA FlowProcesses ==
    ASSUME Shape, Flow, Processes \/ ChildExit \/ KillChild \/ LadderKills \/ Cancel
    PROVE  Flow'
<1>1. CASE ChildWrite
  <2>1. UNCHANGED <<down, downClosed, output, got, demux>> /\ kernel' = kernel + 1 /\ written' = written + 1
    BY <1>1 DEF ChildWrite, downVars, runnerVars, clientVars
  <2>2. Chunks(down') = Chunks(down) /\ Chunks(down) \in Nat /\ Writing' = Writing /\ Writing \in Nat
    BY <2>1, ChunksNat DEF Shape, Writing, Frames
  <2>3. OnTheWay' <= written'
    BY <2>1, <2>2 DEF Flow, OnTheWay, Shape
  <2> QED BY <2>1, <2>3 DEF Flow
<1>2. CASE ~ ChildWrite
  <2>1. UNCHANGED <<down, downClosed, output, got, demux, kernel, written>>
    BY <1>2 DEF Processes, ChildClosesTty, ChildExit, KillChild, LadderKills, Kills, Cancel, KillTree,
                KillTreeGrace, ClimbLadder, downVars, procVars, runnerVars, clientVars
  <2> QED BY <2>1 DEF Flow, OnTheWay, Writing
<1> QED BY <1>1, <1>2

LEMMA FlowRunner ==
    ASSUME Shape, Flow, Runner
    PROVE  Flow'
<1>1. /\ down \in Seq(Frames) /\ Chunks(down) \in Nat /\ Writing \in Nat /\ got \in Nat
      /\ kernel \in Nat /\ written \in Nat
  BY ChunksNat, ExecAssumption DEF Shape, Writing, Frames
<1>2. CASE CopyOutput
  <2>1. /\ UNCHANGED <<got, demux, written, downClosed>> /\ output = "copy"
        /\ kernel' = kernel - 1 /\ kernel > 0 /\ Writing' = Writing
    BY <1>2 DEF CopyOutput, clientVars, Writing
  <2>2. ~ Ends(down)
    BY <2>1 DEF Flow
  <2>3. CASE DownRefuses
    <3>1. down' = down
      BY <1>2, <2>3 DEF CopyOutput
    <3>2. OnTheWay' <= written'
      BY <1>1, <2>1, <3>1 DEF Flow, OnTheWay
    <3> QED BY <2>2, <3>1, <3>2 DEF Flow
  <2>4. CASE ~ DownRefuses
    <3>1. down' = Append(down, "out") /\ "out" \in Frames
      BY <1>2, <2>4 DEF CopyOutput, Frames
    <3>2. EndLast(down') /\ ~ Ends(down') /\ Chunks(down') = Chunks(down) + 1
      BY <1>1, <2>2, <3>1, ChunksAppend DEF Flow
    <3>3. OnTheWay' <= written'
      BY <1>1, <2>1, <3>2 DEF Flow, OnTheWay
    <3> QED BY <3>2, <3>3 DEF Flow
  <2> QED BY <2>3, <2>4
<1>3. CASE CloseOutput
  <2>1. /\ UNCHANGED <<got, demux, written, kernel>> /\ output = "close" /\ output' = "done"
        /\ Writing' = Writing
    BY <1>3 DEF CloseOutput, procVars, clientVars, Writing
  <2>2. ~ Ends(down)
    BY <2>1 DEF Flow
  <2>3. EndLast(down') /\ Chunks(down') = Chunks(down)
    <3>1. down' = down \/ (down' = Append(down, "end") /\ "end" \in Frames)
      BY <1>3 DEF CloseOutput, Frames
    <3> QED BY <1>1, <2>2, <3>1, ChunksAppend DEF Flow
  <2>4. OnTheWay' <= written'
    BY <1>1, <2>1, <2>3 DEF Flow, OnTheWay
  <2> QED BY <2>1, <2>3, <2>4 DEF Flow
<1>4. CASE NoMoreOutput
  <2>1. UNCHANGED <<got, demux, written, kernel, down, downClosed>> /\ output = "copy"
    BY <1>4 DEF NoMoreOutput, procVars, downVars, clientVars
  <2>2. ~ Ends(down)
    BY <2>1 DEF Flow
  <2> QED BY <2>1, <2>2 DEF Flow, OnTheWay, Writing
<1>5. CASE ReadFrame \/ WriteRefused \/ InputEnds \/ CopyInput \/ EndOfInput \/ Wait \/ Return
  <2>1. UNCHANGED <<got, demux, written, kernel, down, output>>
    <3>1. CASE ReadFrame \/ WriteRefused \/ InputEnds \/ Wait
      BY <3>1 DEF ReadFrame, WriteRefused, InputEnds, Wait, downVars, procVars, clientVars
    <3>2. CASE CopyInput \/ EndOfInput
      <4>1. UNCHANGED <<downVars, procVars, output, clientVars>>
        BY <3>2, Zenon DEF CopyInput, EndOfInput
      <4> QED BY <4>1 DEF downVars, procVars, clientVars
    <3>3. CASE Return
      BY <3>3 DEF Return, procVars, clientVars
    <3> QED BY <1>5, <3>1, <3>2, <3>3
  <2> QED BY <2>1 DEF Flow, OnTheWay, Writing
<1> QED BY <1>2, <1>3, <1>4, <1>5 DEF Runner

LEMMA FlowClient ==
    ASSUME Shape, Flow, \/ CancelLands \/ ConnectionLost \/ Client \/ \E f \in {"stdin", "close"} : Type(f)
                        \/ \E detach \in BOOLEAN : InputPumpEnds(detach)
    PROVE  Flow'
<1>1. /\ down \in Seq(Frames) /\ Chunks(down) \in Nat /\ Writing \in Nat /\ got \in Nat
      /\ kernel \in Nat /\ written \in Nat
  BY ChunksNat, ExecAssumption DEF Shape, Writing, Frames
<1>2. UNCHANGED <<written, kernel, output>>
  BY DEF CancelLands, ConnectionLost, Client, Demux, DemuxEnds, CopyToTerminal, CopyEnds, GraceOver, ClientClose, Type,
         InputPumpEnds, downVars, procVars, runnerVars
<1>3. CASE CancelLands \/ ConnectionLost
  <2>1. got' = got /\ Writing' = Writing
    BY <1>3 DEF CancelLands, ConnectionLost, clientVars, Writing
  <2>2. down' = down \/ \E n \in 0 .. Len(down) : down' = SubSeq(down, 1, n)
    BY <1>3 DEF CancelLands, ConnectionLost, downVars
  <2>3. CASE down' = down
    BY <1>2, <2>1, <2>3 DEF Flow, OnTheWay
  <2>4. ASSUME NEW n \in 0 .. Len(down), down' = SubSeq(down, 1, n)
        PROVE  Flow'
    <3>1. EndLast(down') /\ (Ends(down') => Ends(down)) /\ Chunks(down') <= Chunks(down)
      BY <1>1, <2>4, ChunksPrefix DEF Flow
    <3>2. Chunks(down') \in Nat
      BY <1>1, <2>4, Prefix, ChunksNat
    <3>3. OnTheWay' <= written'
      BY <1>1, <1>2, <2>1, <3>1, <3>2 DEF Flow, OnTheWay
    <3> QED BY <1>2, <3>1, <3>3 DEF Flow
  <2> QED BY <2>2, <2>3, <2>4
<1>4. CASE Demux
  <2>1. /\ down # <<>> /\ down' = Tail(down) /\ got' = got /\ Writing = 0
        /\ Writing' = IF Head(down) = "out" THEN 1 ELSE 0
        /\ Head(down) \in Frames
    BY <1>1, <1>4 DEF Demux, Writing
  <2>2. /\ EndLast(down') /\ (Ends(down') => Ends(down))
        /\ Head(down) = "out" => Chunks(down') = Chunks(down) - 1
        /\ Head(down) = "end" => Chunks(down') = Chunks(down)
    BY <1>1, <2>1, ChunksTail DEF Flow
  <2>3. OnTheWay' <= written'
    BY <1>1, <1>2, <2>1, <2>2 DEF Flow, OnTheWay, Frames
  <2> QED BY <1>2, <2>2, <2>3 DEF Flow
<1>5. CASE DemuxEnds \/ CopyToTerminal
  <2>1. down' = down /\ got' \in Nat /\ Writing' \in Nat /\ got' + Writing' <= got + Writing
    <3>1. down' = down
      BY <1>5 DEF DemuxEnds, CopyToTerminal, downVars
    <3>2. CASE DemuxEnds
      BY <1>1, <3>1, <3>2 DEF DemuxEnds, Writing
    <3>3. CASE CopyToTerminal
      BY <1>1, <3>1, <3>3 DEF CopyToTerminal, Writing
    <3> QED BY <1>5, <3>2, <3>3
  <2>2. Chunks(down') = Chunks(down) /\ kernel' = kernel /\ written' = written
    BY <1>2, <2>1
  <2>3. \A a, b, c, d, e, f, w \in Nat : a + b <= c + d /\ c + e + d + f <= w => a + e + b + f <= w
    OBVIOUS
  <2>4. got + Chunks(down) + Writing + kernel <= written
    BY DEF Flow, OnTheWay
  <2>5. got' + Chunks(down) + Writing' + kernel <= written
    BY <1>1, <2>1, <2>3, <2>4
  <2>6. OnTheWay' <= written'
    BY <2>2, <2>5 DEF OnTheWay
  <2> QED BY <1>2, <2>1, <2>6 DEF Flow
<1>6. CASE \/ CopyEnds \/ GraceOver \/ ClientClose \/ \E f \in {"stdin", "close"} : Type(f)
           \/ \E detach \in BOOLEAN : InputPumpEnds(detach)
  <2>1. UNCHANGED <<got, demux, down>>
    BY <1>6 DEF CopyEnds, GraceOver, ClientClose, Type, InputPumpEnds, downVars
  <2> QED BY <1>2, <2>1 DEF Flow, OnTheWay, Writing
<1> QED BY <1>3, <1>4, <1>5, <1>6 DEF Client

LEMMA FlowStep ==
    ASSUME Shape, Flow, [Next]_vars
    PROVE  Flow'
<1>1. CASE UNCHANGED vars
  BY <1>1 DEF vars, downVars, procVars, runnerVars, clientVars, Flow, OnTheWay, Writing
<1> QED BY <1>1, FlowProcesses, FlowRunner, FlowClient DEF Next

LEMMA FlowInit == Init => Flow
BY DEF Init, Flow, EndLast, Ends, OnTheWay, Chunks, Writing

\* The variables keep their types, no direction of the stream holds more than it has
\* room for, and no more is copied than was written.
THEOREM ExecTypeCorrect == Spec => []TypeOK
<1>1. Shape /\ Flow /\ [Next]_vars => (Shape /\ Flow)'
  BY ShapeStep, FlowStep
<1>2. Shape /\ Flow => TypeOK
  <2> SUFFICES ASSUME Shape, Flow PROVE TypeOK
    OBVIOUS
  <2>1. Chunks(down) \in Nat /\ Writing \in Nat /\ kernel \in Nat /\ got \in Nat /\ written \in Nat
    BY ChunksNat, ExecAssumption DEF Shape, Writing, Frames
  <2>2. kernel \in 0 .. written /\ got \in 0 .. written
    BY <2>1 DEF Flow, OnTheWay
  <2> QED BY <2>2 DEF Shape, TypeOK
<1> QED BY <1>1, <1>2, ShapeInit, FlowInit, PTL DEF Spec

---------------------------------------------------------------------------------
(* With pipes, the stream is ended by Return alone, and Return waits for Wait,  *)
(* which waits for the copy of the output.                                      *)

Piped ==
    /\ output # "close" /\ ~ Ends(down)
    /\ waiter = "done" => output = "done"

\* While the client has not cancelled the stream, nothing of the output is dropped as
\* long as the connection lasts, or its end is among what has been received of it.
Delivered ==
    /\ downClosed => child # "running" /\ kernel = 0
    /\ ~ lost /\ output = "done" => child # "running" /\ kernel = 0
    /\ (~ lost \/ downClosed) /\ stdoutEnd = "open" => OnTheWay = written
    /\ stdoutEnd = "eof" => got = written /\ child # "running"
    /\ copy = "eof" => stdoutEnd = "eof"

PipesDeliver == mode # "pty" => Piped /\ (~ downCancelled => Delivered)

LEMMA DeliverProcesses ==
    ASSUME Shape, Flow, PipesDeliver, Processes \/ ChildExit \/ KillChild \/ LadderKills \/ Cancel
    PROVE  PipesDeliver'
<1>1. /\ UNCHANGED <<mode, down, downClosed, downCancelled, lost, output, waiter, returned, got, demux,
                     stdoutEnd, copy>>
      /\ child # "running" => child' # "running"
  <2>1. CASE ChildWrite \/ ChildClosesTty \/ ChildExit
    BY <2>1 DEF ChildWrite, ChildClosesTty, ChildExit, options, downVars, runnerVars, clientVars
  <2>2. CASE KillChild \/ LadderKills \/ KillTreeGrace
    BY <2>2 DEF KillChild, LadderKills, Kills, KillTreeGrace, options, downVars, runnerVars, clientVars
  <2>3. CASE KillTree \/ Cancel \/ ClimbLadder
    BY <2>3 DEF KillTree, Cancel, ClimbLadder, options, downVars, procVars, clientVars
  <2> QED BY <2>1, <2>2, <2>3 DEF Processes
<1>2. Piped => Piped'
  BY <1>1 DEF Piped
<1>3. Chunks(down') = Chunks(down) /\ Writing' = Writing
  BY <1>1 DEF Writing
<1>4. CASE ChildWrite
  <2>1. /\ child = "running" /\ kernel' = kernel + 1 /\ written' = written + 1 /\ child' = child
        /\ mode = "pty" \/ output = "copy"
    BY <1>4 DEF ChildWrite
  <2>2. ASSUME OnTheWay = written
        PROVE  OnTheWay' = written'
    <3>1. Chunks(down) \in Nat /\ Writing \in Nat /\ got \in Nat /\ kernel \in Nat
      BY ChunksNat DEF Shape, Writing, Frames
    <3> QED BY <1>1, <1>3, <2>1, <2>2, <3>1 DEF OnTheWay
  <2>3. ASSUME Delivered, mode # "pty"
        PROVE  Delivered'
    BY <1>1, <2>1, <2>2, <2>3 DEF Delivered
  <2> QED BY <1>1, <1>2, <2>3 DEF PipesDeliver
<1>5. CASE ~ ChildWrite
  <2>1. kernel' = kernel /\ written' = written
    BY <1>5 DEF Processes, ChildClosesTty, ChildExit, KillChild, LadderKills, Kills, Cancel, KillTree,
                KillTreeGrace, ClimbLadder, procVars
  <2>2. OnTheWay' = OnTheWay
    BY <1>1, <1>3, <2>1 DEF OnTheWay
  <2>3. Delivered => Delivered'
    BY <1>1, <2>1, <2>2 DEF Delivered
  <2> QED BY <1>1, <1>2, <2>3 DEF PipesDeliver
<1> QED BY <1>4, <1>5

LEMMA DeliverRunner ==
    ASSUME Shape, Asked, Flow, PipesDeliver, Runner
    PROVE  PipesDeliver'
<1>1. UNCHANGED <<mode, downCancelled, lost, child, written, got, demux, stdoutEnd, copy>>
  <2>1. CASE CopyInput \/ EndOfInput
    <3>1. UNCHANGED <<options, downVars, lost, procVars, clientVars>>
      BY <2>1, Zenon DEF CopyInput, EndOfInput
    <3> QED BY <3>1 DEF options, downVars, procVars, clientVars
  <2>2. CASE ReadFrame \/ WriteRefused \/ InputEnds \/ NoMoreOutput \/ Wait
    BY <2>2 DEF ReadFrame, WriteRefused, InputEnds, NoMoreOutput, Wait, options, downVars, procVars, clientVars
  <2>3. CASE CopyOutput \/ CloseOutput \/ Return
    BY <2>3 DEF CopyOutput, CloseOutput, Return, options, procVars, clientVars
  <2> QED BY <2>1, <2>2, <2>3 DEF Runner
<1> SUFFICES ASSUME mode # "pty", Piped
             PROVE  Piped' /\ (~ downCancelled /\ Delivered => Delivered')
  BY <1>1 DEF PipesDeliver
<1>2. Writing' = Writing /\ Writing \in Nat /\ Chunks(down) \in Nat /\ got \in Nat /\ kernel \in Nat
      /\ down \in Seq(Frames)
  BY <1>1, ChunksNat DEF Shape, Writing, Frames
<1>3. ASSUME UNCHANGED <<down, kernel>>
      PROVE  OnTheWay' = OnTheWay
  BY <1>1, <1>2, <1>3 DEF OnTheWay
<1>4. CASE ReadFrame \/ WriteRefused \/ InputEnds \/ CopyInput \/ EndOfInput
  <2>1. UNCHANGED <<down, kernel, downClosed, returned, output, waiter>>
    <3>1. CASE CopyInput \/ EndOfInput
      <4>1. UNCHANGED <<downVars, procVars, returned, output, waiter>>
        BY <3>1, Zenon DEF CopyInput, EndOfInput
      <4> QED BY <4>1 DEF downVars, procVars
    <3>2. CASE ReadFrame \/ WriteRefused \/ InputEnds
      BY <3>2 DEF ReadFrame, WriteRefused, InputEnds, downVars, procVars
    <3> QED BY <1>4, <3>1, <3>2
  <2> QED BY <1>1, <1>3, <2>1 DEF Piped, Delivered
<1>5. CASE CopyOutput
  <2>1. /\ output = "copy" /\ kernel' = kernel - 1 /\ kernel > 0
        /\ UNCHANGED <<downClosed, returned, waiter>>
    BY <1>5 DEF CopyOutput
  <2>2. CASE DownRefuses
    <3>1. output' = "done" /\ down' = down
      BY <1>5, <2>2 DEF CopyOutput, OutputStops
    <3>2. Delivered => lost /\ ~ downClosed
      BY <2>1, <2>2 DEF Delivered, DownRefuses
    <3>3. Delivered => Delivered'
      BY <1>1, <2>1, <3>2 DEF Delivered
    <3> QED BY <1>1, <2>1, <3>1, <3>3 DEF Piped
  <2>3. CASE ~ DownRefuses
    <3>1. down' = Append(down, "out") /\ output' = output /\ "out" \in Frames
      BY <1>5, <2>3 DEF CopyOutput, Frames
    <3>2. ~ Ends(down') /\ Chunks(down') = Chunks(down) + 1
      BY <1>2, <3>1, ChunksAppend DEF Flow, Piped
    <3>3. OnTheWay' = OnTheWay
      BY <1>1, <1>2, <2>1, <3>2 DEF OnTheWay
    <3>4. Piped'
      BY <2>1, <3>1, <3>2 DEF Piped
    <3>5. Delivered => Delivered'
      BY <1>1, <2>1, <3>1, <3>3 DEF Delivered
    <3> QED BY <3>4, <3>5
  <2> QED BY <2>2, <2>3
<1>6. CASE NoMoreOutput
  <2>1. /\ output' = "done" /\ child # "running" /\ kernel = 0
        /\ UNCHANGED <<down, downClosed, kernel, returned, waiter>>
    BY <1>6 DEF NoMoreOutput, OutputStops, downVars, procVars
  <2> QED BY <1>1, <1>3, <2>1 DEF Piped, Delivered
<1>7. CASE CloseOutput
  BY <1>7 DEF CloseOutput, Piped
<1>8. CASE Wait
  <2>1. output = "done" /\ UNCHANGED <<down, downClosed, kernel, returned, output>>
    BY <1>8 DEF Wait, WaitReturns, downVars, procVars
  <2> QED BY <1>1, <1>3, <2>1 DEF Piped, Delivered
<1>9. CASE Return
  <2>1. /\ UNCHANGED <<down, kernel, output, waiter>> /\ waiter = "done"
        /\ downClosed' => downClosed \/ ~ lost
    BY <1>9 DEF Return, GroupFinished, procVars
  <2> QED BY <1>1, <1>3, <2>1 DEF Piped, Delivered
<1> QED BY <1>4, <1>5, <1>6, <1>7, <1>8, <1>9 DEF Runner

LEMMA DeliverClient ==
    ASSUME Shape, Asked, Flow, PipesDeliver,
           \/ CancelLands \/ ConnectionLost \/ Client \/ \E f \in {"stdin", "close"} : Type(f)
           \/ \E detach \in BOOLEAN : InputPumpEnds(detach)
    PROVE  PipesDeliver'
<1>1. /\ UNCHANGED <<mode, child, written, kernel, output, waiter, returned>>
      /\ downCancelled => downCancelled'
  BY DEF CancelLands, ConnectionLost, Client, Demux, DemuxEnds, CopyToTerminal, CopyEnds, GraceOver, ClientClose, Type,
         InputPumpEnds, options, downVars, procVars, runnerVars
<1> SUFFICES ASSUME mode # "pty", Piped
             PROVE  Piped' /\ (~ downCancelled' /\ Delivered => Delivered')
  BY <1>1 DEF PipesDeliver
<1>2. Writing \in Nat /\ Chunks(down) \in Nat /\ got \in Nat /\ kernel \in Nat /\ down \in Seq(Frames)
  BY ChunksNat DEF Shape, Writing, Frames
<1>3. ASSUME UNCHANGED <<down, downClosed, lost, got, demux, stdoutEnd, copy>>
      PROVE  Piped' /\ (Delivered => Delivered')
  <2>1. OnTheWay' = OnTheWay
    BY <1>1, <1>3 DEF OnTheWay, Writing
  <2> QED BY <1>1, <1>3, <2>1 DEF Piped, Delivered
<1>4. CASE CancelLands
  <2>1. CASE downCancelled /\ ~ downClosed /\ ~ lost
    <3>1. down' = down \/ \E n \in 0 .. Len(down) : down' = SubSeq(down, 1, n)
      BY <1>4 DEF CancelLands, downVars
    <3>2. ~ Ends(down')
      BY <1>2, <3>1, ChunksPrefix DEF Flow, Piped
    <3> QED BY <1>1, <2>1, <3>2 DEF Piped
  <2>2. CASE ~ (downCancelled /\ ~ downClosed /\ ~ lost)
    <3>1. UNCHANGED <<downVars, lost, clientVars>>
      BY <1>4, <2>2 DEF CancelLands
    <3> QED BY <1>3, <3>1 DEF downVars, clientVars
  <2> QED BY <2>1, <2>2
<1>12. CASE ConnectionLost
  <2>1. UNCHANGED <<got, demux, stdoutEnd, copy, downCancelled>> /\ lost'
    BY <1>12 DEF ConnectionLost, clientVars
  <2>2. CASE UNCHANGED <<down, downClosed>>
    <3>1. OnTheWay' = OnTheWay
      BY <1>1, <2>1, <2>2 DEF OnTheWay, Writing
    <3> QED BY <1>1, <2>1, <2>2, <3>1 DEF Piped, Delivered
  <2>3. ASSUME downClosed' = FALSE, NEW n \in 0 .. Len(down), down' = SubSeq(down, 1, n)
        PROVE  Piped' /\ (Delivered => Delivered')
    <3>1. ~ Ends(down')
      BY <1>2, <2>3, ChunksPrefix DEF Flow, Piped
    <3> QED BY <1>1, <2>1, <2>3, <3>1 DEF Piped, Delivered
  <2> QED BY <1>12, <2>2, <2>3 DEF ConnectionLost
<1>5. CASE Demux
  <2>1. /\ demux = "read" /\ down # <<>> /\ down' = Tail(down) /\ UNCHANGED <<downClosed, lost, got, copy>>
        /\ demux' = IF Head(down) = "out" THEN "write" ELSE "read"
        /\ stdoutEnd' = IF Head(down) = "end" /\ stdoutEnd = "open" THEN "eof" ELSE stdoutEnd
        /\ Head(down) \in Frames
    BY <1>2, <1>5 DEF Demux
  <2>2. /\ ~ Ends(down') /\ Head(down) # "end"
        /\ Head(down) = "out" => Chunks(down') = Chunks(down) - 1
    BY <1>2, <2>1, ChunksTail DEF Flow, Piped
  <2>3. Head(down) = "out" /\ stdoutEnd' = stdoutEnd /\ Writing = 0 /\ Writing' = 1
    BY <2>1, <2>2 DEF Frames, Writing
  <2>4. OnTheWay' = OnTheWay
    BY <1>1, <1>2, <2>1, <2>2, <2>3 DEF OnTheWay
  <2> QED BY <1>1, <2>1, <2>2, <2>3, <2>4 DEF Piped, Delivered
<1>6. CASE DemuxEnds
  <2>1. /\ UNCHANGED <<down, downClosed, downCancelled, lost, got, copy>>
        /\ stdoutEnd' = IF stdoutEnd # "open" THEN stdoutEnd
                        ELSE IF downClosed THEN "eof" ELSE "error"
    BY <1>6 DEF DemuxEnds, downVars
  <2>2. ASSUME Delivered, ~ downCancelled
        PROVE  Delivered'
    <3>1. CASE stdoutEnd # "open"
      BY <1>1, <2>1, <2>2, <3>1 DEF Delivered
    <3>2. CASE stdoutEnd = "open" /\ downClosed
      <4>1. demux = "read" /\ down = <<>> /\ stdoutEnd' = "eof"
        BY <1>6, <2>1, <3>2 DEF DemuxEnds
      <4>2. child # "running" /\ kernel = 0
        BY <2>2, <3>2 DEF Delivered
      <4>3. Writing = 0 /\ Chunks(down) = 0 /\ OnTheWay = written
        BY <2>2, <3>2, <4>1 DEF Writing, Chunks, Ends, Delivered
      <4>4. got = written
        BY <1>2, <4>2, <4>3 DEF OnTheWay
      <4> QED BY <1>1, <2>1, <2>2, <4>1, <4>2, <4>4 DEF Delivered
    <3>3. CASE stdoutEnd = "open" /\ ~ downClosed
      <4>1. stdoutEnd' = "error"
        BY <2>1, <3>3
      <4> QED BY <1>1, <2>1, <2>2, <3>3, <4>1 DEF Delivered
    <3> QED BY <3>1, <3>2, <3>3
  <2> QED BY <1>1, <2>1, <2>2 DEF Piped
<1>7. CASE CopyToTerminal
  <2>1. /\ UNCHANGED <<down, downClosed, lost, stdoutEnd, copy>> /\ stdoutEnd = "open" /\ copy = "copy"
        /\ got' = got + 1 /\ Writing = 1 /\ Writing' = 0
    BY <1>7 DEF CopyToTerminal, downVars, Writing
  <2>2. Chunks(down') = Chunks(down)
    BY <2>1
  <2>3. OnTheWay' = OnTheWay
    BY <1>1, <1>2, <2>1, <2>2 DEF OnTheWay
  <2> QED BY <1>1, <2>1, <2>3 DEF Piped, Delivered
<1>8. CASE CopyEnds
  <2>1. /\ UNCHANGED <<down, downClosed, lost, got, demux, stdoutEnd>>
        /\ copy' = IF stdoutEnd = "eof" THEN "eof" ELSE "error"
    BY <1>8 DEF CopyEnds, downVars
  <2>2. OnTheWay' = OnTheWay
    BY <1>1, <2>1 DEF OnTheWay, Writing
  <2> QED BY <1>1, <2>1, <2>2 DEF Piped, Delivered
<1>9. CASE GraceOver
  <2>1. /\ UNCHANGED <<down, downClosed, lost, got, demux, copy>> /\ copy = "copy"
        /\ stdoutEnd' = IF stdoutEnd = "open" THEN "reader" ELSE stdoutEnd
    BY <1>9 DEF GraceOver, downVars
  <2> QED BY <1>1, <2>1 DEF Piped, Delivered
<1>10. CASE ClientClose
  <2>1. down' = down /\ downCancelled'
    BY <1>10 DEF ClientClose
  <2> QED BY <1>1, <2>1 DEF Piped
<1>11. CASE \/ \E f \in {"stdin", "close"} : Type(f) \/ \E detach \in BOOLEAN : InputPumpEnds(detach)
  BY <1>3, <1>11 DEF Type, InputPumpEnds, downVars
<1> QED BY <1>4, <1>5, <1>6, <1>7, <1>8, <1>9, <1>10, <1>11, <1>12 DEF Client

LEMMA DeliverStep ==
    ASSUME Shape, Asked, Flow, PipesDeliver, [Next]_vars
    PROVE  PipesDeliver'
<1>1. CASE UNCHANGED vars
  BY <1>1 DEF vars, options, downVars, procVars, runnerVars, clientVars, PipesDeliver, Piped,
              Delivered, OnTheWay, Writing
<1> QED BY <1>1, DeliverProcesses, DeliverRunner, DeliverClient DEF Next

LEMMA DeliverInit == Init => PipesDeliver
BY DEF Init, PipesDeliver, Piped, Delivered, OnTheWay, Chunks, Ends, Writing

\* With pipes, a client told that the output has ended has all of it: Wait, CloseBoth
\* and the demultiplexer never overtake a chunk still in a pipe or on the stream.
THEOREM ExecOutputComplete == Spec => []OutputComplete
<1> DEFINE I == Shape /\ Asked /\ InputInOrder /\ Flow /\ PipesDeliver
<1>1. Init => I
  BY ShapeInit, AskedInit, FlowInit, DeliverInit
<1>2. I /\ [Next]_vars => I'
  BY ShapeStep, AskedStep, InOrderStep, FlowStep, DeliverStep
<1>3. I => OutputComplete
  BY DEF PipesDeliver, Delivered, OutputComplete
<1> QED BY <1>1, <1>2, <1>3, PTL DEF Spec

=================================================================================
