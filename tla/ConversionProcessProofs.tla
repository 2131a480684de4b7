---------------------- MODULE ConversionProcessProofs ----------------------
(***************************************************************************)
(* What runConversionProcess returns, for every capture limit, buffer,     *)
(* pipe and output, hurried or not, whoever reaps the children.  Only the  *)
(* safety of the call is proved; that it returns rests on fairness.        *)
(***************************************************************************)
EXTENDS ConversionProcess, TLAPS

(* No byte is lost between a process and the captured text, except past    *)
(* the limit.                                                              *)
Accounted(s) ==
  /\ leaderLast[s] <= written[s]
  /\ Smaller(captureLimit, written[s]) <= text[s] + pipe[s]

(* The caller knows that the leader has ended. *)
EndIsKnown ==
  pc \in {"finalOut", "finalErr", "exitCode"} \/ (pc = "returned" /\ result.started)

Captured(s) == text[s] >= Smaller(captureLimit, leaderLast[s])

StartedOrNot ==
  /\ pc = "start" => ~result.started /\ ~result.timedOut
  /\ pc \notin {"start", "returned"} => result.started

(* The last read of each pipe came after the end of the leader. *)
ReadToTheEnd ==
  EndIsKnown =>
    /\ leader \in Ended
    /\ pc # "finalOut" => Captured("out")
    /\ pc \notin {"finalOut", "finalErr"} => Captured("err")

(* The status is the leader's when waitpid has filled it in. *)
StatusIsTheLeaders ==
  /\ (EndIsKnown /\ ~result.timedOut /\ ~result.waitFailed) => status = leader
  /\ (pc = "returned" /\ result.started) => result.exitCode = exitStatus(status)

(* Once the group is killed no member is left that is not doomed, and a    *)
(* doomed leader starts no helper.                                         *)
GroupIsDoomed ==
  /\ pc = "reap" => result.timedOut
  /\ result.timedOut =>
       /\ pc \in {"reap", "finalOut", "finalErr", "exitCode", "returned"}
       /\ result.started
       /\ leader = "running" => "leader" \in doomed
       /\ helper = "running" => "helper" \in doomed

IInv ==
  /\ TypeOK
  /\ \A s \in Stream : Accounted(s)
  /\ StartedOrNot
  /\ ReadToTheEnd
  /\ StatusIsTheLeaders
  /\ GroupIsDoomed

-----------------------------------------------------------------------------
(* Every action by name: what a proof by cases on Next splits into. *)
LEMMA Actions ==
  ASSUME Next
  PROVE  \/ StartFails \/ Spawn \/ Reap \/ WaitFails \/ StillRunning \/ Poll
         \/ KillGroup \/ ReapKilled \/ Return
         \/ \E s \in Stream, here \in {"drainOut", "drainErr"} : ReadChunk(s, here)
         \/ ReadChunk("out", "finalOut") \/ ReadChunk("err", "finalErr")
         \/ Drained("out", "drainOut", "drainErr") \/ Drained("err", "drainErr", "wait")
         \/ Drained("out", "finalOut", "finalErr") \/ Drained("err", "finalErr", "exitCode")
         \/ \E s \in Stream : LeaderWrites(s) \/ HelperWrites(s)
         \/ \E ending \in {"succeeded", "failed", "crashed"} : LeaderEnds(ending)
         \/ StartHelper \/ HelperEnds \/ Die \/ Tick
  BY DEF Next, Caller, Leader, DrainOut, DrainErr, FinalOut, FinalErr, Stream

(* The limits that the assumption gives.                                   *)
LEMMA Bounds ==
  /\ captureLimit \in Nat \ {0} /\ BufferSize \in Nat \ {0}
  /\ PipeCapacity \in Nat \ {0} /\ MaxOutput \in Nat \ {0}
  BY ConversionAssumption

(* A read moves bytes from the pipe to the text and drops those past the   *)
(* limit.                                                                  *)
LEMMA ReadChunkMoves ==
  ASSUME TypeOK, \A s \in Stream : Accounted(s),
         NEW s \in Stream, NEW here, ReadChunk(s, here)
  PROVE  /\ pipe' \in [Stream -> 0..PipeCapacity]
         /\ text' \in [Stream -> 0..captureLimit]
         /\ \A t \in Stream : Accounted(t)' /\ text'[t] >= text[t]
<1> DEFINE count == Smaller(BufferSize, pipe[s])
<1>1. /\ pipe[s] \in 0..PipeCapacity /\ text[s] \in 0..captureLimit
      /\ written[s] \in 0..MaxOutput /\ leaderLast[s] \in 0..MaxOutput
  BY DEF TypeOK
<1>2. count \in 1..pipe[s]
  BY <1>1, Bounds DEF Smaller, ReadChunk
<1>3. /\ pipe' = [pipe EXCEPT ![s] = @ - count]
      /\ text' = [text EXCEPT ![s] = capturedAfter(@, count)]
      /\ UNCHANGED <<written, leaderLast>>
  BY DEF ReadChunk
<1> HIDE DEF count
<1>4. pipe[s] - count \in 0..PipeCapacity
  BY <1>1, <1>2, Bounds
<1>5. /\ capturedAfter(text[s], count) \in 0..captureLimit
      /\ capturedAfter(text[s], count) >= text[s]
      /\ \/ capturedAfter(text[s], count) = captureLimit
         \/ capturedAfter(text[s], count) = text[s] + count
  BY <1>1, <1>2, Bounds DEF capturedAfter, Smaller
<1>6. pipe' \in [Stream -> 0..PipeCapacity] /\ text' \in [Stream -> 0..captureLimit]
  BY <1>3, <1>4, <1>5 DEF TypeOK
<1>7. ASSUME NEW t \in Stream
      PROVE  Accounted(t)' /\ text'[t] >= text[t]
  <2>1. /\ text[t] \in Nat /\ pipe[t] \in Nat /\ written[t] \in Nat
        /\ leaderLast[t] <= written[t]
        /\ Smaller(captureLimit, written[t]) <= text[t] + pipe[t]
    BY <1>7 DEF Accounted, TypeOK
  <2>2. CASE t = s
    <3>1. /\ pipe'[s] = pipe[s] - count
          /\ text'[s] = capturedAfter(text[s], count)
      BY <1>3, <1>7 DEF TypeOK
    <3>2. Smaller(captureLimit, written[s]) <= text'[s] + pipe'[s]
      BY <1>1, <1>2, <1>5, <2>1, <2>2, <3>1, Bounds DEF Smaller
    <3> QED BY <1>3, <1>5, <2>1, <2>2, <3>1, <3>2 DEF Accounted
  <2>3. CASE t # s
    <3>1. pipe'[t] = pipe[t] /\ text'[t] = text[t]
      BY <1>3, <1>7, <2>3 DEF TypeOK
    <3> QED BY <1>3, <2>1, <3>1 DEF Accounted
  <2> QED BY <2>2, <2>3
<1> QED BY <1>6, <1>7

(* A byte written waits in the pipe; written is told up to MaxOutput. *)
LEMMA WriteFills ==
  ASSUME TypeOK, \A s \in Stream : Accounted(s), NEW s \in Stream, Write(s),
         \/ leaderLast' = [leaderLast EXCEPT ![s] = written'[s]]
         \/ UNCHANGED leaderLast
  PROVE  /\ pipe' \in [Stream -> 0..PipeCapacity]
         /\ written' \in [Stream -> 0..MaxOutput]
         /\ leaderLast' \in [Stream -> 0..MaxOutput]
         /\ \A t \in Stream : Accounted(t)'
<1>1. /\ pipe[s] \in 0..PipeCapacity /\ text[s] \in 0..captureLimit
      /\ written[s] \in 0..MaxOutput /\ leaderLast[s] \in 0..MaxOutput
      /\ leaderLast[s] <= written[s]
      /\ Smaller(captureLimit, written[s]) <= text[s] + pipe[s]
  BY DEF TypeOK, Accounted
<1>2. /\ pipe[s] < PipeCapacity
      /\ pipe' = [pipe EXCEPT ![s] = @ + 1]
      /\ written' = [written EXCEPT ![s] = Smaller(@ + 1, MaxOutput)]
      /\ text' = text
  BY DEF Write
<1>3. /\ Smaller(written[s] + 1, MaxOutput) \in 0..MaxOutput
      /\ Smaller(written[s] + 1, MaxOutput) \in written[s]..written[s] + 1
  BY <1>1, Bounds DEF Smaller
<1>4. /\ pipe' \in [Stream -> 0..PipeCapacity]
      /\ written' \in [Stream -> 0..MaxOutput]
  BY <1>1, <1>2, <1>3, Bounds DEF TypeOK
<1>5. leaderLast' \in [Stream -> 0..MaxOutput]
  BY <1>4 DEF TypeOK
<1>6. ASSUME NEW t \in Stream
      PROVE  Accounted(t)'
  <2>1. CASE t = s
    <3>1. pipe'[s] = pipe[s] + 1 /\ written'[s] \in written[s]..written[s] + 1
      BY <1>2, <1>3 DEF TypeOK
    <3>2. leaderLast'[s] <= written'[s]
      BY <1>1, <1>4, <3>1 DEF TypeOK
    <3>3. Smaller(captureLimit, written'[s]) <= text[s] + pipe'[s]
      BY <1>1, <3>1, Bounds DEF Smaller
    <3> QED BY <1>2, <2>1, <3>2, <3>3 DEF Accounted
  <2>2. CASE t # s
    <3>1. pipe'[t] = pipe[t] /\ written'[t] = written[t]
          /\ leaderLast'[t] = leaderLast[t]
      BY <1>2, <1>6, <2>2 DEF TypeOK
    <3> QED BY <1>2, <3>1 DEF Accounted
  <2> QED BY <2>1, <2>2
<1> QED BY <1>4, <1>5, <1>6

-----------------------------------------------------------------------------
(* The type invariant, with the accounting that bounds the texts and what  *)
(* each pipe still owes them.                                              *)
LEMMA InitKeeps == Init => IInv
<1> SUFFICES ASSUME Init
             PROVE  IInv
  OBVIOUS
<1>1. TypeOK
  <2>1. \A n \in Nat : [s \in Stream |-> 0] \in [Stream -> 0..n]
    OBVIOUS
  <2>2. result \in [started : BOOLEAN, timedOut : BOOLEAN, waitFailed : BOOLEAN,
                   exitCode : -1..1]
    BY DEF Init
  <2>3. hurried \in Hurried /\ autoReap \in BOOLEAN
    BY ConversionAssumption DEF Init
  <2> QED BY <2>1, <2>2, <2>3, Bounds DEF Init, TypeOK, Ended
<1>2. \A s \in Stream : Accounted(s)
  BY Bounds DEF Init, Accounted, Smaller
<1>3. StartedOrNot /\ ReadToTheEnd /\ StatusIsTheLeaders /\ GroupIsDoomed
  BY DEF Init, StartedOrNot, ReadToTheEnd, EndIsKnown, StatusIsTheLeaders, GroupIsDoomed
<1> QED BY <1>1, <1>2, <1>3 DEF IInv

(* Every step accounts for the bytes of both streams.                      *)
LEMMA StreamsStep ==
  ASSUME TypeOK, \A s \in Stream : Accounted(s), [Next]_vars
  PROVE  TypeOK' /\ \A s \in Stream : Accounted(s)'
<1>1. ASSUME NEW s \in Stream,
             NEW here \in {"drainOut", "drainErr", "finalOut", "finalErr"},
             ReadChunk(s, here)
      PROVE  TypeOK' /\ \A t \in Stream : Accounted(t)'
  <2>1. UNCHANGED <<pc, written, leaderLast, group, expired, environment, status, result>>
    BY <1>1 DEF ReadChunk
  <2> QED BY <1>1, <2>1, ReadChunkMoves DEF TypeOK, group, environment
<1>2. ASSUME NEW s \in Stream, LeaderWrites(s) \/ HelperWrites(s)
      PROVE  TypeOK' /\ \A t \in Stream : Accounted(t)'
  <2>1. /\ Write(s)
        /\ \/ leaderLast' = [leaderLast EXCEPT ![s] = written'[s]]
           \/ UNCHANGED leaderLast
    BY <1>2 DEF LeaderWrites, HelperWrites
  <2>2. UNCHANGED <<pc, text, group, expired, environment, status, result>>
    BY <2>1 DEF Write
  <2> QED BY <2>1, <2>2, WriteFills DEF TypeOK, group, environment
<1>3. CASE UNCHANGED streams
  <2>1. \A s \in Stream : Accounted(s)'
    BY <1>3 DEF streams, Accounted
  <2>2. ASSUME StartFails \/ Spawn \/ Reap \/ WaitFails \/ StillRunning \/ Poll
        PROVE  TypeOK'
    BY <1>3, <2>2 DEF TypeOK, streams, group, environment, StartFails, Spawn, Reap,
       WaitFails, StillRunning, Poll
  <2>3. ASSUME KillGroup \/ ReapKilled \/ Return
        PROVE  TypeOK'
    <3>1. CASE KillGroup
      BY <1>3, <3>1 DEF TypeOK, streams, group, environment, KillGroup, Alive
    <3>2. CASE ReapKilled
      BY <1>3, <3>2 DEF TypeOK, streams, group, environment, ReapKilled, Ended
    <3>3. CASE Return
      <4>1. exitStatus(status) \in -1..1
        BY DEF exitStatus
      <4> QED BY <1>3, <3>3, <4>1 DEF TypeOK, streams, group, environment, Return
    <3> QED BY <2>3, <3>1, <3>2, <3>3
  <2>4. ASSUME \/ Drained("out", "drainOut", "drainErr")
               \/ Drained("err", "drainErr", "wait")
               \/ Drained("out", "finalOut", "finalErr")
               \/ Drained("err", "finalErr", "exitCode")
        PROVE  TypeOK'
    BY <1>3, <2>4 DEF TypeOK, streams, group, environment, Drained
  <2>5. ASSUME \/ \E ending \in {"succeeded", "failed", "crashed"} : LeaderEnds(ending)
               \/ StartHelper \/ HelperEnds \/ Die \/ Tick
        PROVE  TypeOK'
    <3>1. CASE \E ending \in {"succeeded", "failed", "crashed"} : LeaderEnds(ending)
      <4>1. PICK ending \in {"succeeded", "failed", "crashed"} : LeaderEnds(ending)
        BY <3>1
      <4>2. /\ leader' \in {"none", "running"} \cup Ended
            /\ UNCHANGED <<pc, helper, doomed, expired, hurried, autoReap, status, result>>
        BY <4>1 DEF LeaderEnds, Ended, environment
      <4>3. UNCHANGED <<pipe, text, written, leaderLast>>
        BY <1>3 DEF streams
      <4> QED BY <4>2, <4>3 DEF TypeOK
    <3>2. CASE StartHelper \/ HelperEnds
      <4>1. /\ helper' \in {"none", "running"} \cup Ended
            /\ UNCHANGED <<pc, leader, doomed, expired, hurried, autoReap, status, result>>
        BY <3>2 DEF StartHelper, HelperEnds, Ended, environment
      <4>2. UNCHANGED <<pipe, text, written, leaderLast>>
        BY <1>3 DEF streams
      <4> QED BY <4>1, <4>2 DEF TypeOK
    <3>3. CASE Die
      BY <1>3, <3>3 DEF TypeOK, streams, group, environment, Die, Ended
    <3>4. CASE Tick
      BY <1>3, <3>4 DEF TypeOK, streams, group, environment, Tick
    <3> QED BY <2>5, <3>1, <3>2, <3>3, <3>4
  <2>6. ASSUME UNCHANGED vars
        PROVE  TypeOK'
    BY <2>6 DEF TypeOK, vars
  <2>7. ASSUME \/ \E s \in Stream, here \in {"drainOut", "drainErr"} : ReadChunk(s, here)
               \/ ReadChunk("out", "finalOut") \/ ReadChunk("err", "finalErr")
               \/ \E s \in Stream : LeaderWrites(s) \/ HelperWrites(s)
        PROVE  TypeOK'
    BY <1>1, <1>2, <2>7 DEF Stream
  <2> QED BY <2>1, <2>2, <2>3, <2>4, <2>5, <2>6, <2>7, Actions
<1>4. ASSUME ~UNCHANGED streams
      PROVE  \/ \E s \in Stream, here \in {"drainOut", "drainErr"} : ReadChunk(s, here)
             \/ ReadChunk("out", "finalOut") \/ ReadChunk("err", "finalErr")
             \/ \E s \in Stream : LeaderWrites(s) \/ HelperWrites(s)
  BY <1>4, Actions DEF StartFails, Spawn, Reap, WaitFails, StillRunning, Poll,
     KillGroup, ReapKilled, Return, Drained, LeaderEnds, StartHelper, HelperEnds, Die,
     Tick, streams, vars
<1> QED BY <1>1, <1>2, <1>3, <1>4 DEF Stream

-----------------------------------------------------------------------------
(* What the caller knows, step by step. *)
LEMMA ReadChunkWaits ==
  ASSUME NEW s, NEW here, ReadChunk(s, here)
  PROVE  UNCHANGED <<pc, written, leaderLast, leader, helper, doomed, status, result>>
  BY DEF ReadChunk, group

(* The child, its helper and the clock leave what the caller knows.        *)
LEMMA ProcessesDoNotSteer ==
  ASSUME \/ \E s \in Stream : LeaderWrites(s) \/ HelperWrites(s)
         \/ \E ending \in {"succeeded", "failed", "crashed"} : LeaderEnds(ending)
         \/ StartHelper \/ HelperEnds \/ Die \/ Tick
  PROVE  UNCHANGED <<pc, text, status, result>>
  BY DEF LeaderWrites, HelperWrites, Write, LeaderEnds, StartHelper, HelperEnds, Die,
     Tick, streams

(* From its start to the return, the result says that a child was started. *)
LEMMA StartedStep == ASSUME IInv, [Next]_vars
                     PROVE  StartedOrNot'
<1> USE DEF StartedOrNot
<1>1. StartedOrNot /\ result \in [started : BOOLEAN, timedOut : BOOLEAN,
                                  waitFailed : BOOLEAN, exitCode : -1..1]
  BY DEF IInv, TypeOK
<1>2. CASE UNCHANGED <<pc, result>>
  BY <1>1, <1>2
<1>3. CASE StartFails \/ Spawn
  BY <1>1, <1>3 DEF StartFails, Spawn
<1>4. CASE Reap \/ WaitFails \/ StillRunning \/ Poll
  BY <1>1, <1>4 DEF Reap, WaitFails, StillRunning, Poll
<1>5. CASE KillGroup \/ ReapKilled \/ Return
  BY <1>1, <1>5 DEF KillGroup, ReapKilled, Return
<1>6. CASE \/ Drained("out", "drainOut", "drainErr") \/ Drained("err", "drainErr", "wait")
           \/ Drained("out", "finalOut", "finalErr")
           \/ Drained("err", "finalErr", "exitCode")
  BY <1>1, <1>6 DEF Drained
<1> QED BY <1>2, <1>3, <1>4, <1>5, <1>6, Actions, ReadChunkWaits, ProcessesDoNotSteer
        DEF vars

(* The leader, once ended, stays as it is and writes nothing more. *)
LEMMA EndedStays ==
  ASSUME leader \in Ended, pc # "start", [Next]_vars
  PROVE  UNCHANGED <<leader, leaderLast>>
<1>1. leader # "running"
  BY DEF Ended
<1>2. ~Spawn
  BY DEF Spawn
<1>3. \A s \in Stream : ~LeaderWrites(s)
  BY <1>1 DEF LeaderWrites
<1>4. \A ending : ~LeaderEnds(ending)
  BY <1>1 DEF LeaderEnds
<1>5. CASE Die
  BY <1>1, <1>5 DEF Die, streams
<1>6. CASE \/ StartFails \/ Reap \/ WaitFails \/ StillRunning \/ Poll
           \/ KillGroup \/ ReapKilled \/ Return \/ StartHelper \/ HelperEnds \/ Tick
  BY <1>6 DEF StartFails, Reap, WaitFails, StillRunning, Poll, KillGroup, ReapKilled,
     Return, StartHelper, HelperEnds, Tick, streams, group
<1>7. CASE \/ Drained("out", "drainOut", "drainErr") \/ Drained("err", "drainErr", "wait")
           \/ Drained("out", "finalOut", "finalErr")
           \/ Drained("err", "finalErr", "exitCode")
  BY <1>7 DEF Drained, streams, group
<1>8. CASE \E s \in Stream : HelperWrites(s)
  BY <1>8 DEF HelperWrites, Write, group
<1> QED BY <1>2, <1>3, <1>4, <1>5, <1>6, <1>7, <1>8, Actions, ReadChunkWaits DEF vars

(* What was captured stays captured.                                       *)
LEMMA TextsGrow ==
  ASSUME TypeOK, \A s \in Stream : Accounted(s), [Next]_vars
  PROVE  \A s \in Stream : text'[s] >= text[s]
<1>1. \A s \in Stream : text[s] \in Nat
  BY Bounds DEF TypeOK
<1>2. CASE UNCHANGED text
  BY <1>1, <1>2
<1>3. ASSUME NEW s \in Stream, NEW here, ReadChunk(s, here)
      PROVE  \A t \in Stream : text'[t] >= text[t]
  BY <1>3, ReadChunkMoves
<1>4. CASE \/ StartFails \/ Spawn \/ Reap \/ WaitFails \/ StillRunning \/ Poll
           \/ KillGroup \/ ReapKilled \/ Return
  BY <1>2, <1>4 DEF StartFails, Spawn, Reap, WaitFails, StillRunning, Poll, KillGroup,
     ReapKilled, Return, streams
<1>5. CASE \/ Drained("out", "drainOut", "drainErr") \/ Drained("err", "drainErr", "wait")
           \/ Drained("out", "finalOut", "finalErr")
           \/ Drained("err", "finalErr", "exitCode")
  BY <1>2, <1>5 DEF Drained, streams
<1> QED BY <1>2, <1>3, <1>4, <1>5, Actions, ProcessesDoNotSteer DEF vars, Stream

(* Where the end of the leader is known, and who makes it known. *)
LEMMA EndBecomesKnown ==
  ASSUME IInv, [Next]_vars, EndIsKnown'
  PROVE  \/ EndIsKnown
         \/ Reap \/ WaitFails \/ ReapKilled
<1>1. StartedOrNot
  BY DEF IInv
<1>2. CASE UNCHANGED <<pc, result>>
  BY <1>2 DEF EndIsKnown
<1>3. CASE StartFails \/ Spawn
  BY <1>1, <1>3 DEF StartFails, Spawn, EndIsKnown, StartedOrNot
<1>4. CASE StillRunning \/ Poll \/ KillGroup \/ Return
  BY <1>4 DEF StillRunning, Poll, KillGroup, Return, EndIsKnown
<1>5. CASE \/ Drained("out", "drainOut", "drainErr") \/ Drained("err", "drainErr", "wait")
           \/ Drained("out", "finalOut", "finalErr")
           \/ Drained("err", "finalErr", "exitCode")
  BY <1>5 DEF Drained, EndIsKnown
<1> QED BY <1>2, <1>3, <1>4, <1>5, Actions, ReadChunkWaits, ProcessesDoNotSteer
        DEF vars

(* An empty pipe owes nothing: what was written is captured. *)
LEMMA DrainedIsCaptured ==
  ASSUME TypeOK, NEW s \in Stream, Accounted(s), pipe[s] = 0
  PROVE  Captured(s)
<1>1. text[s] \in Nat /\ written[s] \in Nat /\ leaderLast[s] \in Nat
  BY Bounds DEF TypeOK
<1> QED BY <1>1, Bounds DEF Accounted, Captured, Smaller

(* Once the leader's output is captured, it is as long as it writes no more. *)
LEMMA CapturedStays ==
  ASSUME TypeOK, \A t \in Stream : Accounted(t), [Next]_vars, UNCHANGED leaderLast,
         NEW s \in Stream, Captured(s)
  PROVE  Captured(s)'
<1>1. text[s] \in Nat /\ text'[s] \in Nat /\ leaderLast[s] \in Nat
  BY StreamsStep, Bounds DEF TypeOK
<1>2. text'[s] >= text[s]
  BY TextsGrow
<1> QED BY <1>1, <1>2, Bounds DEF Captured, Smaller

(* After the leader has ended, both streams are read to their end.         *)
LEMMA ReadToTheEndStep == ASSUME IInv, [Next]_vars
                          PROVE  ReadToTheEnd'
<1> SUFFICES ASSUME EndIsKnown'
             PROVE  /\ leader' \in Ended
                    /\ pc' # "finalOut" => Captured("out")'
                    /\ pc' \notin {"finalOut", "finalErr"} => Captured("err")'
  BY DEF ReadToTheEnd, Ended
<1>1. CASE Reap \/ WaitFails \/ ReapKilled
  BY <1>1 DEF Reap, WaitFails, ReapKilled, group
<1>2. CASE EndIsKnown
  <2>1. leader \in Ended /\ pc # "start"
    BY <1>2 DEF IInv, ReadToTheEnd, EndIsKnown
  <2>2. UNCHANGED <<leader, leaderLast>>
    BY <2>1, EndedStays
  <2>3. ASSUME pc' # "finalOut"
        PROVE  Captured("out")'
    <3>1. CASE pc = "finalOut"
      <4>1. Drained("out", "finalOut", "finalErr")
        BY <1>2, <2>3, <3>1, Actions, ReadChunkWaits, ProcessesDoNotSteer
           DEF StartFails, Spawn, Reap, WaitFails, StillRunning, Poll, KillGroup,
               ReapKilled, Return, Drained, vars
      <4>2. Captured("out")
        BY <4>1, DrainedIsCaptured DEF IInv, Drained, Stream
      <4> QED BY <2>2, <4>2, CapturedStays DEF IInv, Stream
    <3>2. CASE pc # "finalOut"
      <4>1. Captured("out")
        BY <1>2, <3>2 DEF IInv, ReadToTheEnd
      <4> QED BY <2>2, <4>1, CapturedStays DEF IInv, Stream
    <3> QED BY <3>1, <3>2
  <2>4. ASSUME pc' \notin {"finalOut", "finalErr"}
        PROVE  Captured("err")'
    <3>1. CASE pc \in {"finalOut", "finalErr"}
      <4>1. Drained("err", "finalErr", "exitCode")
        BY <1>2, <2>4, <3>1, Actions, ReadChunkWaits, ProcessesDoNotSteer
           DEF StartFails, Spawn, Reap, WaitFails, StillRunning, Poll, KillGroup,
               ReapKilled, Return, Drained, vars
      <4>2. Captured("err")
        BY <4>1, DrainedIsCaptured DEF IInv, Drained, Stream
      <4> QED BY <2>2, <4>2, CapturedStays DEF IInv, Stream
    <3>2. CASE pc \notin {"finalOut", "finalErr"}
      <4>1. Captured("err")
        BY <1>2, <3>2 DEF IInv, ReadToTheEnd
      <4> QED BY <2>2, <4>1, CapturedStays DEF IInv, Stream
    <3> QED BY <3>1, <3>2
  <2> QED BY <2>1, <2>2, <2>3, <2>4
<1> QED BY <1>1, <1>2, EndBecomesKnown

(* The status that was collected is the one the leader ended with.         *)
LEMMA StatusStep == ASSUME IInv, [Next]_vars
                    PROVE  StatusIsTheLeaders'
<1>1. /\ result \in [started : BOOLEAN, timedOut : BOOLEAN, waitFailed : BOOLEAN,
                     exitCode : -1..1]
      /\ StatusIsTheLeaders /\ ReadToTheEnd /\ StartedOrNot /\ GroupIsDoomed
  BY DEF IInv, TypeOK
<1>2. EndIsKnown => UNCHANGED leader
  BY <1>1, EndedStays DEF ReadToTheEnd, EndIsKnown
<1>3. CASE UNCHANGED <<pc, status, result>>
  BY <1>1, <1>2, <1>3 DEF StatusIsTheLeaders, EndIsKnown
<1>4. CASE StartFails \/ Spawn
  BY <1>1, <1>4 DEF StartFails, Spawn, StatusIsTheLeaders, EndIsKnown, StartedOrNot
<1>5. CASE Reap
  BY <1>5 DEF Reap, StatusIsTheLeaders, group
<1>6. CASE WaitFails
  BY <1>1, <1>6 DEF WaitFails, StatusIsTheLeaders
<1>7. CASE ReapKilled
  BY <1>1, <1>7 DEF ReapKilled, StatusIsTheLeaders, GroupIsDoomed
<1>8. CASE StillRunning \/ Poll \/ KillGroup
  BY <1>8 DEF StillRunning, Poll, KillGroup, StatusIsTheLeaders, EndIsKnown
<1>9. CASE Return
  <2>1. EndIsKnown /\ pc' = "returned" /\ status' = status
    BY <1>9 DEF Return, EndIsKnown
  <2>2. /\ result'.timedOut = result.timedOut /\ result'.waitFailed = result.waitFailed
        /\ result'.exitCode = exitStatus(status)
    BY <1>1, <1>9 DEF Return
  <2> QED BY <1>1, <1>2, <2>1, <2>2 DEF StatusIsTheLeaders, exitStatus
<1>10. CASE \/ Drained("out", "drainOut", "drainErr")
            \/ Drained("err", "drainErr", "wait")
            \/ Drained("out", "finalOut", "finalErr")
            \/ Drained("err", "finalErr", "exitCode")
  BY <1>1, <1>2, <1>10 DEF Drained, StatusIsTheLeaders, EndIsKnown
<1> QED BY <1>3, <1>4, <1>5, <1>6, <1>7, <1>8, <1>9, <1>10, Actions, ReadChunkWaits,
        ProcessesDoNotSteer DEF vars

(* Once the group is killed, no member is left that is not doomed.         *)
LEMMA DoomStep == ASSUME IInv, [Next]_vars
                  PROVE  GroupIsDoomed'
<1>1. /\ result \in [started : BOOLEAN, timedOut : BOOLEAN, waitFailed : BOOLEAN,
                     exitCode : -1..1]
      /\ StartedOrNot /\ GroupIsDoomed
  BY DEF IInv, TypeOK
<1> USE DEF GroupIsDoomed
<1>2. CASE UNCHANGED <<pc, leader, helper, doomed, result>>
  BY <1>1, <1>2
<1>3. CASE StartFails \/ Spawn
  BY <1>1, <1>3 DEF StartFails, Spawn, StartedOrNot
<1>4. CASE Reap \/ WaitFails \/ StillRunning \/ Poll
  BY <1>1, <1>4 DEF Reap, WaitFails, StillRunning, Poll, group
<1>5. CASE KillGroup
  <2>1. result'.timedOut /\ result'.started /\ pc' = "reap"
    BY <1>1, <1>5 DEF KillGroup, StartedOrNot
  <2> QED BY <1>5, <2>1 DEF KillGroup, Alive
<1>6. CASE ReapKilled \/ Return
  BY <1>1, <1>6 DEF ReapKilled, Return, group
<1>7. CASE \/ Drained("out", "drainOut", "drainErr")
           \/ Drained("err", "drainErr", "wait")
           \/ Drained("out", "finalOut", "finalErr")
           \/ Drained("err", "finalErr", "exitCode")
  BY <1>1, <1>7 DEF Drained, group
<1>8. CASE \E s \in Stream : LeaderWrites(s) \/ HelperWrites(s)
  BY <1>1, <1>8 DEF LeaderWrites, HelperWrites, Write, group
<1>9. CASE \E ending \in {"succeeded", "failed", "crashed"} : LeaderEnds(ending)
  BY <1>1, <1>9 DEF LeaderEnds
<1>10. CASE StartHelper
  BY <1>1, <1>10 DEF StartHelper
<1>11. CASE HelperEnds \/ Die \/ Tick
  BY <1>1, <1>11 DEF HelperEnds, Die, Tick, group
<1> QED BY <1>2, <1>3, <1>4, <1>5, <1>6, <1>7, <1>8, <1>9, <1>10, <1>11, Actions,
        ReadChunkWaits DEF vars

(* The inductive invariant holds in every reachable state. *)
THEOREM CallInvariant == Spec => []IInv
<1>1. IInv /\ [Next]_vars => IInv'
  <2> SUFFICES ASSUME IInv, [Next]_vars
               PROVE  IInv'
    OBVIOUS
  <2>1. TypeOK' /\ \A s \in Stream : Accounted(s)'
    BY StreamsStep DEF IInv
  <2> QED BY <2>1, StartedStep, ReadToTheEndStep, StatusStep, DoomStep DEF IInv
<1> QED BY <1>1, InitKeeps, PTL DEF Spec

(* Types and bounds: no capture outgrows its limit, no pipe its capacity.  *)
THEOREM CallTypeOK == Spec => []TypeOK
<1>1. IInv => TypeOK
  BY DEF IInv
<1> QED BY <1>1, CallInvariant, PTL

(* Both pipes are read to their end after the end of the converter is      *)
(* known, so nothing it wrote is lost below the limit.                     *)
THEOREM CallCapturesTheOutput == Spec => []LeaderOutputCaptured
<1>1. IInv => LeaderOutputCaptured
  BY DEF IInv, ReadToTheEnd, EndIsKnown, Captured, LeaderOutputCaptured, Stream
<1> QED BY <1>1, CallInvariant, PTL

(* The call reports exit code 0 only for a converter that ended with it.   *)
THEOREM CallReportsTheConverter == Spec => []SuccessIsTheConverters
<1>1. IInv => SuccessIsTheConverters
  BY DEF IInv, TypeOK, StatusIsTheLeaders, EndIsKnown, SuccessIsTheConverters,
     exitStatus
<1> QED BY <1>1, CallInvariant, PTL

(* A call that timed out leaves no process of the group undoomed.          *)
THEOREM CallStopsTheGroup == Spec => []TimeoutStopsTheGroup
<1>1. IInv => TimeoutStopsTheGroup
  BY DEF IInv, ReadToTheEnd, EndIsKnown, GroupIsDoomed, TimeoutStopsTheGroup
<1> QED BY <1>1, CallInvariant, PTL
=============================================================================
