------------------------- MODULE ConversionProcess -------------------------
(***************************************************************************)
(* runConversionProcess on POSIX: LibreOffice is started as the leader of  *)
(* a process group, its two output pipes are drained while it runs, and it *)
(* is killed with its group when the time is up.  The leader may start a   *)
(* helper (soffice starts soffice.bin) that inherits group and pipes.      *)
(*                                                                         *)
(* Of the captured texts only the lengths matter: pipes are FIFO.          *)
(***************************************************************************)
EXTENDS Integers

CONSTANTS
  captureLimit,   \* bytes kept of each stream
  BufferSize,     \* bytes one read asks for
  PipeCapacity,   \* bytes a pipe holds before its writer blocks
  MaxOutput,      \* bound of the model on the bytes counted per stream
  EndlessOutput,  \* whether the converter may write on past MaxOutput
  SigchldIgnored, \* subset of BOOLEAN: may the application ignore SIGCHLD?
  Hurried         \* subset of BOOLEAN: may the deadline pass?

ASSUME ConversionAssumption ==
  /\ {captureLimit, BufferSize, PipeCapacity, MaxOutput} \subseteq Nat \ {0}
  /\ EndlessOutput \in BOOLEAN
  /\ SigchldIgnored \subseteq BOOLEAN
  /\ Hurried \subseteq BOOLEAN

VARIABLES
  pc,          \* where the caller is
  pipe,        \* bytes in each pipe
  text,        \* bytes in result.output and result.error
  written,     \* bytes written to each stream so far
  leaderLast,  \* value of written after the leader's last byte
  leader,      \* the process waited for
  helper,      \* the process it may start
  doomed,      \* processes SIGKILL was sent to
  hurried,     \* whether the deadline may pass before the converter is done
  expired,     \* whether the deadline has passed
  autoReap,    \* whether the kernel reaps children: waitpid finds none
  status,      \* the status waitpid filled in, zero-initialised
  result       \* the fields of ConversionProcessResult that are not texts

vars == <<pc, pipe, text, written, leaderLast, leader, helper, doomed,
          hurried, expired, autoReap, status, result>>
environment == <<hurried, autoReap>>
group == <<leader, helper, doomed>>
streams == <<pipe, text, written, leaderLast>>

Stream == {"out", "err"}
Ended == {"succeeded", "failed", "crashed", "killed"}

Smaller(m, n) == IF m < n THEN m ELSE n

Init ==
  /\ pc = "start"
  /\ pipe = [s \in Stream |-> 0]
  /\ text = [s \in Stream |-> 0]
  /\ written = [s \in Stream |-> 0]
  /\ leaderLast = [s \in Stream |-> 0]
  /\ leader = "none"
  /\ helper = "none"
  /\ doomed = {}
  /\ hurried \in Hurried
  /\ expired = FALSE
  /\ autoReap \in SigchldIgnored
  /\ status = "succeeded"
  /\ result = [started |-> FALSE, timedOut |-> FALSE, waitFailed |-> FALSE,
               exitCode |-> -1]

-----------------------------------------------------------------------------
(* The caller. *)

(* A timeout that is not positive, a pipe or a spawn that fails. *)
StartFails ==
  /\ pc = "start"
  /\ pc' = "returned"
  /\ UNCHANGED <<streams, group, expired, environment, status, result>>

Spawn ==
  /\ pc = "start"
  /\ pc' = "drainOut"
  /\ leader' = "running"
  /\ result' = [result EXCEPT !.started = TRUE]
  /\ UNCHANGED <<streams, helper, doomed, expired, environment, status>>

\* Mutant: a chunk is appended whole.
CapturePastLimit(captured, count) ==
  IF captured < captureLimit THEN captured + count ELSE captured

capturedAfter(captured, count) == captured + Smaller(count, captureLimit - captured)

(* One read of the drain loop, which ends when a pipe is empty. *)
ReadChunk(s, here) ==
  LET count == Smaller(BufferSize, pipe[s])
  IN /\ pc = here
     /\ pipe[s] > 0
     /\ pipe' = [pipe EXCEPT ![s] = @ - count]
     /\ text' = [text EXCEPT ![s] = capturedAfter(@, count)]
     /\ UNCHANGED <<pc, written, leaderLast, group, expired, environment, status,
                    result>>

Drained(s, here, next) ==
  /\ pc = here
  /\ pipe[s] = 0
  /\ pc' = next
  /\ UNCHANGED <<streams, group, expired, environment, status, result>>

DrainOut == ReadChunk("out", "drainOut") \/ Drained("out", "drainOut", "drainErr")

\* Mutant: only standard output is drained while the converter runs.
DrainErrSkipped == pc = "drainErr" /\ pc' = "wait" /\ UNCHANGED
  <<streams, group, expired, environment, status, result>>

DrainErr == ReadChunk("err", "drainErr") \/ Drained("err", "drainErr", "wait")

\* Mutant: the pipes are not drained again once the leader has ended.
ReapedAndReturned ==
  /\ pc = "wait"
  /\ leader \in Ended
  /\ ~autoReap
  /\ status' = leader
  /\ pc' = "exitCode"
  /\ UNCHANGED <<streams, group, expired, environment, result>>

(* waitpid(WNOHANG) returns the leader. *)
Reap ==
  /\ pc = "wait"
  /\ leader \in Ended
  /\ ~autoReap
  /\ status' = leader
  /\ pc' = "finalOut"
  /\ UNCHANGED <<streams, group, expired, environment, result>>

(* waitpid fails with ECHILD; the status stays as it was. *)
WaitFails ==
  /\ pc = "wait"
  /\ leader \in Ended
  /\ autoReap
  /\ result' = [result EXCEPT !.waitFailed = TRUE]
  /\ pc' = "finalOut"
  /\ UNCHANGED <<streams, group, expired, environment, status>>

StillRunning ==
  /\ pc = "wait"
  /\ leader = "running"
  /\ pc' = "deadline"
  /\ UNCHANGED <<streams, group, expired, environment, status, result>>

(* poll waits for output or 20 ms and changes nothing. *)
Poll ==
  /\ pc = "deadline"
  /\ ~expired
  /\ pc' = "drainOut"
  /\ UNCHANGED <<streams, group, expired, environment, status, result>>

Alive == {p \in {"leader", "helper"} :
            (p = "leader" /\ leader = "running") \/ (p = "helper" /\ helper = "running")}

\* Mutant: kill(pid) instead of kill(-pid).
KillLeaderOnly ==
  /\ pc = "deadline"
  /\ expired
  /\ doomed' = doomed \cup (Alive \cap {"leader"})
  /\ result' = [result EXCEPT !.timedOut = TRUE]
  /\ pc' = "reap"
  /\ UNCHANGED <<streams, leader, helper, expired, environment, status>>

\* Mutant: the group is told to stop by a signal the converter may ignore.
AskGroupToStop ==
  /\ pc = "deadline"
  /\ expired
  /\ result' = [result EXCEPT !.timedOut = TRUE]
  /\ pc' = "reap"
  /\ UNCHANGED <<streams, group, expired, environment, status>>

KillGroup ==
  /\ pc = "deadline"
  /\ expired
  /\ doomed' = doomed \cup Alive
  /\ result' = [result EXCEPT !.timedOut = TRUE]
  /\ pc' = "reap"
  /\ UNCHANGED <<streams, leader, helper, expired, environment, status>>

(* The blocking waitpid. *)
ReapKilled ==
  /\ pc = "reap"
  /\ leader \in Ended
  /\ status' = IF autoReap THEN status ELSE leader
  /\ pc' = "finalOut"
  /\ UNCHANGED <<streams, group, expired, environment, result>>

FinalOut == ReadChunk("out", "finalOut") \/ Drained("out", "finalOut", "finalErr")
FinalErr == ReadChunk("err", "finalErr") \/ Drained("err", "finalErr", "exitCode")

\* Mutant: WEXITSTATUS without WIFEXITED.
StatusOfAnyEnd(ending) == IF ending = "failed" THEN 1 ELSE 0

exitStatus(ending) ==
  CASE ending = "succeeded" -> 0
    [] ending = "failed" -> 1
    [] OTHER -> -1

Return ==
  /\ pc = "exitCode"
  /\ result' = [result EXCEPT !.exitCode = exitStatus(status)]
  /\ pc' = "returned"
  /\ UNCHANGED <<streams, group, expired, environment, status>>

-----------------------------------------------------------------------------
(* The processes of the group and the clock. *)

Write(s) ==
  /\ pipe[s] < PipeCapacity
  /\ written[s] < MaxOutput \/ EndlessOutput
  /\ pipe' = [pipe EXCEPT ![s] = @ + 1]
  /\ written' = [written EXCEPT ![s] = Smaller(@ + 1, MaxOutput)]
  /\ UNCHANGED <<pc, text, group, expired, environment, status, result>>

LeaderWrites(s) ==
  /\ leader = "running"
  /\ Write(s)
  /\ leaderLast' = [leaderLast EXCEPT ![s] = written'[s]]

HelperWrites(s) ==
  /\ helper = "running"
  /\ Write(s)
  /\ UNCHANGED leaderLast

(* A fork of a process with SIGKILL pending does not happen. *)
StartHelper ==
  /\ hurried
  /\ leader = "running"
  /\ "leader" \notin doomed
  /\ helper = "none"
  /\ helper' = "running"
  /\ UNCHANGED <<pc, streams, leader, doomed, expired, environment, status, result>>

LeaderEnds(ending) ==
  /\ leader = "running"
  /\ leader' = ending
  /\ UNCHANGED <<pc, streams, helper, doomed, expired, environment, status, result>>

HelperEnds ==
  /\ helper = "running"
  /\ helper' = "succeeded"
  /\ UNCHANGED <<pc, streams, leader, doomed, expired, environment, status, result>>

Die ==
  /\ \/ /\ "leader" \in doomed /\ leader = "running"
        /\ leader' = "killed"
        /\ UNCHANGED helper
     \/ /\ "helper" \in doomed /\ helper = "running"
        /\ helper' = "killed"
        /\ UNCHANGED leader
  /\ UNCHANGED <<pc, streams, doomed, expired, environment, status, result>>

Tick ==
  /\ pc \notin {"start", "returned"}
  /\ hurried
  /\ ~expired
  /\ expired' = TRUE
  /\ UNCHANGED <<pc, streams, group, environment, status, result>>

-----------------------------------------------------------------------------
Caller ==
  \/ StartFails
  \/ Spawn
  \/ DrainOut
  \/ DrainErr
  \/ Reap
  \/ WaitFails
  \/ StillRunning
  \/ Poll
  \/ KillGroup
  \/ ReapKilled
  \/ FinalOut
  \/ FinalErr
  \/ Return

Leader ==
  \/ \E s \in Stream : LeaderWrites(s)
  \/ \E ending \in {"succeeded", "failed", "crashed"} : LeaderEnds(ending)

Next ==
  \/ Caller
  \/ Leader
  \/ \E s \in Stream : HelperWrites(s)
  \/ StartHelper
  \/ HelperEnds
  \/ Die
  \/ Tick

(* A converter that is given all the time it needs, fills its pipes, ends  *)
(* only when it has written everything, and starts no helper.              *)
Convert ==
  /\ ~hurried
  /\ \/ \E s \in Stream : LeaderWrites(s)
     \/ /\ \A s \in Stream : written[s] = MaxOutput
        /\ \E ending \in {"succeeded", "failed"} : LeaderEnds(ending)

(* The caller's thread runs, SIGKILL is delivered, and the deadline passes *)
(* if it may; only a converter that is not hurried is relied upon.         *)
Spec ==
  /\ Init /\ [][Next]_vars
  /\ WF_vars(Caller) /\ WF_vars(Tick) /\ WF_vars(Die) /\ WF_vars(Convert)

-----------------------------------------------------------------------------
(* Values and bounds: neither captured text outgrows the limit. *)
TypeOK ==
  /\ pc \in {"start", "drainOut", "drainErr", "wait", "deadline", "reap",
             "finalOut", "finalErr", "exitCode", "returned"}
  /\ pipe \in [Stream -> 0..PipeCapacity]
  /\ text \in [Stream -> 0..captureLimit]
  /\ written \in [Stream -> 0..MaxOutput]
  /\ leaderLast \in [Stream -> 0..MaxOutput]
  /\ leader \in {"none", "running"} \cup Ended
  /\ helper \in {"none", "running"} \cup Ended
  /\ doomed \subseteq {"leader", "helper"}
  /\ hurried \in Hurried
  /\ expired \in BOOLEAN
  /\ autoReap \in BOOLEAN
  /\ status \in Ended
  /\ result \in [started : BOOLEAN, timedOut : BOOLEAN, waitFailed : BOOLEAN,
                 exitCode : -1..1]

(* Whatever the converter wrote before it ended is in the result, up to    *)
(* the limit: the last read of a pipe comes after the end is known.        *)
LeaderOutputCaptured ==
  (pc = "returned" /\ result.started) =>
    \A s \in Stream : text[s] >= Smaller(captureLimit, leaderLast[s])

(* Exit code 0 without a timeout is the converter's own, unless waitpid    *)
(* failed; a crash or a kill is never taken for success.                   *)
SuccessIsTheConverters ==
  (pc = "returned" /\ result.started /\ ~result.timedOut /\ ~result.waitFailed
     /\ result.exitCode = 0)
    => leader = "succeeded"

(* After a timeout nothing of the converter goes on: the leader has ended  *)
(* and a helper that still runs has been sent SIGKILL.                     *)
TimeoutStopsTheGroup ==
  (pc = "returned" /\ result.timedOut) =>
    /\ leader \in Ended
    /\ helper = "running" => "helper" \in doomed

(* With a deadline the call comes to an end, whatever a converter of       *)
(* finite output does: it hangs, it blocks on a pipe, its helper lives on. *)
ReturnsByTheDeadline == hurried ~> pc = "returned"

(* Without one it does too if the converter writes all it has and ends:    *)
(* draining both pipes never leaves it blocked on a full one.              *)
DrainingSuffices == ~hurried ~> pc = "returned"
=============================================================================
