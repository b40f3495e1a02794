--------------------------- MODULE UatAutopilotProofs ---------------------------
(***************************************************************************)
(* The autopilot's running flag never outlives its threads, an undisturbed *)
(* session judges its own runs, and a session that is alone applies what   *)
(* was approved, for any number of sessions, callers and cycles: proofs    *)
(* about UatAutopilot.                                                     *)
(***************************************************************************)
EXTENDS UatAutopilot, SequenceTheorems, TLAPS

\* What calls and the state hold of sessions names sessions that exist.
Named ==
  /\ autopilot.running => autopilot.stop_event \in Sessions
  /\ autopilot.mode = "manual_approval" => autopilot.approval_token \in Sessions
  /\ \A c \in Calls :
       /\ call[c].pc = "stopping" => autopilot.stop_event \in Sessions
       /\ call[c].pc = "approving" => call[c].session \in Sessions /\ call[c].cycle \in 1 .. 25

InCycle == {"waiting", "finished", "report", "patching", "awaiting", "applying", "applied"}

\* A thread launches once per cycle, so a session that launched every process
\* is at as many cycles as there are processes, and no session is further.
Launches(s) ==
  /\ loop[s].pc \in {"idle", "checked", "begun"} => loop[s].cycle = 0
  /\ loop[s].pc \in InCycle \cup {"cycle"} => loop[s].cycle <= Len(procs)
  /\ loop[s].pc = "launch" => loop[s].cycle <= Len(procs) + 1
  /\ loop[s].pc \in InCycle \cup {"launch"} => loop[s].cycle >= 1

Undisturbed(s) == Len(procs) = loop[s].cycle

\* Processes before the last one have ended, and before a launch all have.
OthersEnded(s) ==
  /\ loop[s].pc \in InCycle \cup {"cycle"} /\ Undisturbed(s)
       => \A p \in DOMAIN procs : procs[p] = "running" => p = Len(procs)
  /\ loop[s].pc = "launch" /\ Len(procs) = loop[s].cycle - 1
       => \A p \in DOMAIN procs : procs[p] # "running"

\* What an undisturbed session knows of its process, step by step.
Follows(s) ==
  loop[s].pc \in InCycle /\ Undisturbed(s) =>
    /\ loop[s].own = Len(procs)
    /\ procs[Len(procs)] = "zero" => report.by = Len(procs)
    /\ loop[s].pc # "waiting" => procs[Len(procs)] # "running"
    /\ loop[s].pc = "report" => procs[Len(procs)] = "zero"
    /\ loop[s].pc \in {"patching", "awaiting", "applying", "applied"} => loop[s].judged = loop[s].own

\* Approvals of a session that is alone can only be its own.
OwnApprovals(s) ==
  Alone(s) =>
    /\ autopilot.approval_token \in {NoSession, s}
    /\ autopilot.approved_cycle # 0
         => [session |-> s, cycle |-> autopilot.approved_cycle] \in approvals
    /\ \A c \in Calls : call[c].pc = "approving" => call[c].session = s
    /\ loop[s].mode = "manual_approval" /\ loop[s].pc \in {"applying", "applied"}
         => [session |-> s, cycle |-> loop[s].cycle] \in approvals

IInv ==
  /\ TypeOK /\ Named /\ RunningIsBacked
  /\ runner.process = Len(procs)
  /\ \A s \in Sessions : Launches(s) /\ OthersEnded(s) /\ Follows(s) /\ OwnApprovals(s)
-------------------------------------------------------------------------------
\* The sequence of processes by index.
LEMMA Processes ==
  ASSUME TypeOK
  PROVE  /\ Len(procs) \in Nat /\ DOMAIN procs = 1 .. Len(procs)
         /\ \A p \in DOMAIN procs : procs[p] \in {"running", "zero", "bad"}
BY LenProperties, ElementOfSeq DEF TypeOK

\* A launch adds a running process and points the runner at it.
LEMMA LaunchAdds ==
  ASSUME TypeOK, Launched
  PROVE  /\ procs' \in Seq({"running", "zero", "bad"}) /\ Len(procs') = Len(procs) + 1
         /\ DOMAIN procs' = 1 .. Len(procs) + 1
         /\ procs'[Len(procs) + 1] = "running"
         /\ \A p \in 1 .. Len(procs) : procs'[p] = procs[p]
         /\ runner' \in [process : 0 .. Len(procs'), exit_code : {"none", "zero", "bad"}]
         /\ runner'.process = Len(procs')
<1>1. Len(procs) \in Nat
  BY Processes
<1>2. procs \in Seq({"running", "zero", "bad"}) /\ procs' = Append(procs, "running")
  BY DEF TypeOK, Launched
<1>3. /\ procs' \in Seq({"running", "zero", "bad"}) /\ Len(procs') = Len(procs) + 1
      /\ procs'[Len(procs) + 1] = "running" /\ \A p \in 1 .. Len(procs) : procs'[p] = procs[p]
  BY <1>2, AppendProperties
<1>4. DOMAIN procs' = 1 .. Len(procs) + 1
  BY <1>3, LenProperties
<1> QED BY <1>1, <1>3, <1>4 DEF Launched

\* Polling notes an exit code and changes neither process nor type.
LEMMA Polled ==
  ASSUME TypeOK
  PROVE  /\ _runner_status \in [process : 0 .. Len(procs), exit_code : {"none", "zero", "bad"}]
         /\ _runner_status.process = runner.process
         /\ runner.process # 0 /\ ~Running => _runner_status.exit_code = procs[runner.process]
<1>1. runner \in [process : 0 .. Len(procs), exit_code : {"none", "zero", "bad"}] /\ Len(procs) \in Nat
  BY Processes DEF TypeOK
<1>2. runner.process # 0 => procs[runner.process] \in {"running", "zero", "bad"}
  BY <1>1, Processes
<1> QED BY <1>1, <1>2 DEF _runner_status, Running

\* An entry of a sequence that is replaced.
LEMMA ProcessReplaced ==
  ASSUME TypeOK, NEW p \in DOMAIN procs, NEW e \in {"running", "zero", "bad"},
         procs' = [procs EXCEPT ![p] = e]
  PROVE  /\ procs' \in Seq({"running", "zero", "bad"}) /\ Len(procs') = Len(procs)
         /\ DOMAIN procs' = DOMAIN procs /\ procs'[p] = e
         /\ \A q \in DOMAIN procs : q # p => procs'[q] = procs[q]
<1>1. procs \in Seq({"running", "zero", "bad"}) /\ DOMAIN procs = 1 .. Len(procs)
  BY Processes DEF TypeOK
<1> QED BY <1>1, ExceptSeq

\* A step of a session leaves the other sessions alone and keeps the types of
\* its own state.  Only the check that starts a session sets its mode and limit,
\* and only the head of a cycle counts.
LEMMA SessionStep ==
  ASSUME TypeOK, NEW s \in Sessions, Launches(s), StartCheck(s) \/ StartAutopilot(s) \/ Thread(s)
  PROVE  /\ loop' \in [Sessions -> LoopState]
         /\ \A t \in Sessions \ {s} : loop'[t] = loop[t]
         /\ loop'[s].cycle <= loop'[s].max_cycles
<1> DEFINE Keeps == /\ loop' \in [Sessions -> LoopState]
                    /\ \A t \in Sessions \ {s} : loop'[t] = loop[t]
                    /\ loop'[s].cycle <= loop'[s].max_cycles
<1> SUFFICES Keeps
  OBVIOUS
<1>1. loop \in [Sessions -> LoopState] /\ loop[s] \in LoopState /\ loop[s].cycle <= loop[s].max_cycles
  BY DEF TypeOK
<1>2. ASSUME NEW v \in LoopState, loop' = [loop EXCEPT ![s] = v], v.cycle <= v.max_cycles
      PROVE  Keeps
  BY <1>1, <1>2
<1> HIDE DEF Keeps
<1>3. ASSUME NEW pc \in {"idle", "checked", "begun", "cycle", "launch", "waiting", "finished", "report",
                         "patching", "awaiting", "applying", "applied", "ending", "closing", "ended"},
             Continue(s, pc)
      PROVE  Keeps
  <2> DEFINE v == [loop[s] EXCEPT !.pc = pc]
  <2>1. v \in LoopState /\ v.cycle <= v.max_cycles
    BY <1>1 DEF LoopState
  <2>2. loop' = [loop EXCEPT ![s] = v]
    BY <1>3 DEF Continue
  <2> QED BY <1>2, <2>1, <2>2
<1>4. ASSUME NEW why \in Reasons, End(s, why) PROVE Keeps
  <2> DEFINE v == [loop[s] EXCEPT !.pc = "ending", !.reason = why]
  <2>1. v \in LoopState /\ v.cycle <= v.max_cycles
    BY <1>1, <1>4 DEF LoopState
  <2>2. loop' = [loop EXCEPT ![s] = v]
    BY <1>4 DEF End
  <2> QED BY <1>2, <2>1, <2>2
<1>5. CASE StartCheck(s)
  <2>1. PICK mode \in Modes, max_cycles \in CycleCounts :
          loop' = [loop EXCEPT ![s].pc = "checked", ![s].mode = mode, ![s].max_cycles = max_cycles]
    BY <1>5 DEF StartCheck
  <2> DEFINE v == [loop[s] EXCEPT !.pc = "checked", !.mode = mode, !.max_cycles = max_cycles]
  <2>2. max_cycles \in 1 .. 25 /\ loop[s].cycle = 0 /\ mode \in Modes \cup {"advisory"}
    BY <1>5, <2>1, CycleCountsAssumption DEF StartCheck, Launches
  <2>3. v.cycle <= v.max_cycles
    BY <1>1, <2>2 DEF LoopState
  <2>4. v \in LoopState
    <3> DEFINE begun == [loop[s] EXCEPT !.pc = "checked"]
               moded == [begun EXCEPT !.mode = mode]
    <3>1. begun \in LoopState
      BY <1>1 DEF LoopState
    <3> HIDE DEF begun
    <3>2. moded \in LoopState
      BY <2>2, <3>1 DEF LoopState
    <3> HIDE DEF moded
    <3>3. [moded EXCEPT !.max_cycles = max_cycles] \in LoopState
      BY <2>2, <3>2 DEF LoopState
    <3>4. v = [moded EXCEPT !.max_cycles = max_cycles]
      BY DEF begun, moded
    <3> QED BY <3>3, <3>4
  <2>5. loop' = [loop EXCEPT ![s] = v]
    BY <2>1
  <2> HIDE DEF v
  <2> QED BY <1>2, <2>3, <2>4, <2>5
<1>6. CASE LoopBegins(s)
  <2> DEFINE v == [loop[s] EXCEPT !.pc = "cycle", !.event = autopilot.stop_event]
  <2>0. autopilot.stop_event \in Sessions \cup {NoSession}
    BY DEF TypeOK, AutopilotState
  <2>1. v \in LoopState /\ v.cycle <= v.max_cycles
    BY <1>1, <2>0 DEF LoopState
  <2>2. loop' = [loop EXCEPT ![s] = v]
    BY <1>6 DEF LoopBegins
  <2> HIDE DEF v
  <2> QED BY <1>2, <2>1, <2>2
<1>7. CASE NextCycle(s)
  <2>1. CASE loop' = [loop EXCEPT ![s].pc = "launch", ![s].cycle = @ + 1] /\ ~LastCycle(s)
    <3> DEFINE v == [loop[s] EXCEPT !.pc = "launch", !.cycle = @ + 1]
    <3>1. v \in LoopState /\ v.cycle <= v.max_cycles
      BY <1>1, <2>1 DEF LoopState, LastCycle
    <3>2. loop' = [loop EXCEPT ![s] = v]
      BY <2>1
    <3> HIDE DEF v
    <3> QED BY <1>2, <3>1, <3>2
  <2>2. CASE \E why \in Reasons : End(s, why)
    BY <1>4, <2>2
  <2> QED BY <1>7, <2>1, <2>2 DEF NextCycle, Reasons
<1>8. CASE LaunchUat(s)
  <2>1. CASE loop' = [loop EXCEPT ![s].pc = "waiting", ![s].own = Len(procs) + 1]
    <3> DEFINE v == [loop[s] EXCEPT !.pc = "waiting", !.own = Len(procs) + 1]
    <3>0. Len(procs) + 1 \in Nat
      BY Processes
    <3>1. v \in LoopState /\ v.cycle <= v.max_cycles
      BY <1>1, <3>0 DEF LoopState
    <3>2. loop' = [loop EXCEPT ![s] = v]
      BY <2>1
    <3> HIDE DEF v
    <3> QED BY <1>2, <3>1, <3>2
  <2> QED BY <1>4, <1>8, <2>1 DEF LaunchUat, Reasons
<1>9. CASE ReadReport(s)
  <2>1. PICK pc \in {"ending", "patching"}, why \in Reasons :
          loop' = [loop EXCEPT ![s].judged = report.by, ![s].kind = report.kind,
                               ![s].pc = pc, ![s].reason = why]
    <3>1. loop[s].reason \in Reasons /\ report.kind \in Kinds
      BY <1>1 DEF LoopState, TypeOK
    <3> QED BY <1>9, <3>1 DEF ReadReport, Kinds, Reasons
  <2> DEFINE v == [loop[s] EXCEPT !.judged = report.by, !.kind = report.kind, !.pc = pc, !.reason = why]
  <2>2. report.by \in Nat /\ report.kind \in Kinds
    BY Processes DEF TypeOK
  <2>3. v \in LoopState /\ v.cycle <= v.max_cycles
    BY <1>1, <2>1, <2>2 DEF LoopState
  <2>4. loop' = [loop EXCEPT ![s] = v]
    BY <2>1
  <2> HIDE DEF v
  <2> QED BY <1>2, <2>3, <2>4
<1>10. CASE GeneratePatch(s)
  <2>1. CASE \E why \in Reasons : End(s, why)
    BY <1>4, <2>1
  <2>2. CASE ~\E why \in Reasons : End(s, why)
    <3>1. PICK pc \in {"ending", "applying", "awaiting"}, why \in Reasons :
            loop' = [loop EXCEPT ![s].base = target, ![s].pc = pc, ![s].reason = why]
      <4>1. loop[s].mode \in {"advisory", "apply", "manual_approval"} /\ loop[s].reason \in Reasons
        BY <1>1, ModesAssumption DEF LoopState
      <4>2. loop' = [loop EXCEPT
               ![s].base = target,
               ![s].pc = CASE loop[s].mode = "advisory" -> "ending"
                           [] loop[s].mode = "apply" -> "applying"
                           [] loop[s].mode = "manual_approval" -> "awaiting",
               ![s].reason = IF loop[s].mode = "advisory" THEN "advisory" ELSE @]
        BY <1>10, <2>2 DEF GeneratePatch, Reasons
      <4>3. CASE loop[s].mode = "advisory"
        <5>1. loop' = [loop EXCEPT ![s].base = target, ![s].pc = "ending", ![s].reason = "advisory"]
          BY <4>2, <4>3
        <5> QED BY <5>1 DEF Reasons
      <4>4. CASE loop[s].mode = "apply"
        <5>1. loop' = [loop EXCEPT ![s].base = target, ![s].pc = "applying", ![s].reason = loop[s].reason]
          BY <4>2, <4>4
        <5> QED BY <4>1, <5>1
      <4>5. CASE loop[s].mode = "manual_approval"
        <5>1. loop' = [loop EXCEPT ![s].base = target, ![s].pc = "awaiting", ![s].reason = loop[s].reason]
          BY <4>2, <4>5
        <5> QED BY <4>1, <5>1
      <4> QED BY <4>1, <4>3, <4>4, <4>5
    <3> DEFINE v == [loop[s] EXCEPT !.base = target, !.pc = pc, !.reason = why]
    <3>2. v \in LoopState /\ v.cycle <= v.max_cycles
      <4>1. target \in {"original", "v1", "v2"} /\ why \in Reasons
        BY <3>1 DEF TypeOK
      <4>2. pc \in {"ending", "applying", "awaiting"}
        BY <3>1
      <4>3. v \in LoopState
        <5> DEFINE based == [loop[s] EXCEPT !.base = target]
                   moved == [based EXCEPT !.pc = pc]
        <5>1. based \in LoopState
          BY <1>1, <4>1 DEF LoopState
        <5> HIDE DEF based
        <5>2. moved \in LoopState
          BY <4>2, <5>1 DEF LoopState
        <5> HIDE DEF moved
        <5>3. [moved EXCEPT !.reason = why] \in LoopState
          BY <4>1, <5>2 DEF LoopState
        <5>4. v = [moved EXCEPT !.reason = why]
          BY DEF based, moved
        <5> QED BY <5>3, <5>4
      <4>4. v.cycle = loop[s].cycle /\ v.max_cycles = loop[s].max_cycles
        BY <1>1 DEF LoopState
      <4> QED BY <1>1, <4>3, <4>4
    <3>3. loop' = [loop EXCEPT ![s] = v]
      BY <3>1
    <3> HIDE DEF v
    <3> QED BY <1>2, <3>2, <3>3
  <2> QED BY <2>1, <2>2
<1>11. CASE WaitForUat(s)
  BY <1>3, <1>4, <1>11 DEF WaitForUat, Reasons
<1>12. CASE Judge(s)
  BY <1>3, <1>4, <1>12 DEF Judge, Reasons
<1>13. CASE AwaitStop(s) \/ AwaitTimeout(s)
  BY <1>4, <1>13 DEF AwaitStop, AwaitTimeout, Reasons
<1>14. CASE StartAutopilot(s) \/ AwaitApproval(s) \/ ApplyPatch(s) \/ CloseCycle(s)
            \/ EndRunning(s) \/ EndSession(s)
  BY <1>3, <1>14 DEF StartAutopilot, AwaitApproval, ApplyPatch, CloseCycle, EndRunning, EndSession
<1> QED
  BY <1>5, <1>6, <1>7, <1>8, <1>9, <1>10, <1>11, <1>12, <1>13, <1>14 DEF Thread

\* What a session's step may do to the variables it shares.
LEMMA SessionEffect ==
  ASSUME NEW s \in Sessions, StartCheck(s) \/ StartAutopilot(s) \/ Thread(s)
  PROVE  /\ UNCHANGED <<report, stopped, call, approvals>>
         /\ target' \in {target, Patched(loop[s].base)}
         /\ \/ UNCHANGED <<procs, runner>>
            \/ procs' = procs /\ runner' = _runner_status
            \/ Launched /\ LaunchUat(s)
<1> USE DEF files
<1>1. CASE StartCheck(s) \/ StartAutopilot(s) \/ LoopBegins(s) \/ ReadReport(s) \/ GeneratePatch(s)
  BY <1>1 DEF StartCheck, StartAutopilot, LoopBegins, ReadReport, GeneratePatch
<1>2. CASE NextCycle(s) \/ WaitForUat(s) \/ Judge(s)
  BY <1>2 DEF NextCycle, WaitForUat, Judge
<1>3. CASE LaunchUat(s)
  BY <1>3 DEF LaunchUat
<1>4. CASE AwaitStop(s) \/ AwaitApproval(s) \/ AwaitTimeout(s) \/ CloseCycle(s) \/ EndRunning(s) \/ EndSession(s)
  BY <1>4 DEF AwaitStop, AwaitApproval, AwaitTimeout, CloseCycle, EndRunning, EndSession
<1>5. CASE ApplyPatch(s)
  BY <1>5 DEF ApplyPatch, _apply_generated_patch
<1> QED BY <1>1, <1>2, <1>3, <1>4, <1>5 DEF Thread

\* The steps that write _AUTOPILOT_STATE, and what each writes.
LEMMA SessionFlags ==
  ASSUME NEW s \in Sessions, StartCheck(s) \/ StartAutopilot(s) \/ Thread(s)
  PROVE  \/ autopilot' = autopilot /\ ~StartAutopilot(s) /\ ~EndRunning(s)
         \/ /\ StartAutopilot(s)
            /\ autopilot' = [running |-> TRUE, stop_event |-> s, mode |-> loop[s].mode,
                             approval_token |-> IF loop[s].mode = "manual_approval" THEN s ELSE NoSession,
                             approved_cycle |-> 0, pending_cycle |-> 0]
         \/ EndRunning(s) /\ autopilot' = [autopilot EXCEPT !.running = FALSE]
         \/ /\ ~StartAutopilot(s) /\ ~EndRunning(s)
            /\ \/ autopilot' = [autopilot EXCEPT !.pending_cycle = loop[s].cycle]
               \/ autopilot' = [autopilot EXCEPT !.pending_cycle = 0]
               \/ autopilot' = [autopilot EXCEPT !.approved_cycle = 0, !.pending_cycle = 0]
<1>1. CASE StartAutopilot(s)
  BY <1>1 DEF StartAutopilot
<1>2. CASE EndRunning(s)
  BY <1>2 DEF EndRunning
<1>3. CASE ~StartAutopilot(s) /\ ~EndRunning(s)
  <2>1. CASE StartCheck(s) \/ LoopBegins(s) \/ NextCycle(s) \/ LaunchUat(s) \/ WaitForUat(s) \/ Judge(s)
             \/ ReadReport(s) \/ AwaitStop(s) \/ AwaitApproval(s) \/ AwaitTimeout(s) \/ ApplyPatch(s)
    BY <1>3, <2>1
       DEF StartCheck, LoopBegins, NextCycle, LaunchUat, WaitForUat, Judge, ReadReport,
           AwaitStop, AwaitApproval, AwaitTimeout, ApplyPatch
  <2>2. CASE GeneratePatch(s) \/ CloseCycle(s) \/ EndSession(s)
    BY <1>3, <2>2 DEF GeneratePatch, CloseCycle, EndSession
  <2> QED BY <1>3, <2>1, <2>2 DEF Thread
<1> QED BY <1>1, <1>2, <1>3

\* A session's step keeps every type.
LEMMA SessionTypes ==
  ASSUME TypeOK, NEW s \in Sessions, Launches(s), StartCheck(s) \/ StartAutopilot(s) \/ Thread(s)
  PROVE  TypeOK'
<1>1. /\ loop' \in [Sessions -> LoopState] /\ loop'[s].cycle <= loop'[s].max_cycles
      /\ \A t \in Sessions \ {s} : loop'[t] = loop[t]
  BY SessionStep
<1>2. loop[s] \in LoopState
  BY DEF TypeOK
<1>3. target' \in {"original", "v1", "v2"}
  BY SessionEffect DEF Patched, TypeOK
<1>4. /\ procs' \in Seq({"running", "zero", "bad"}) /\ Len(procs') \in {Len(procs), Len(procs) + 1}
      /\ runner' \in [process : 0 .. Len(procs'), exit_code : {"none", "zero", "bad"}]
  <2>1. CASE UNCHANGED <<procs, runner>>
    BY <2>1 DEF TypeOK
  <2>2. CASE procs' = procs /\ runner' = _runner_status
    BY <2>2, Polled DEF TypeOK
  <2>3. CASE Launched
    BY <2>3, LaunchAdds
  <2> QED BY <2>1, <2>2, <2>3, SessionEffect
<1>5. report' \in [by : 0 .. Len(procs'), kind : Kinds] /\ Len(procs) \in Nat
  BY <1>4, SessionEffect, Processes DEF TypeOK
<1>6. autopilot' \in AutopilotState
  <2>1. /\ autopilot \in AutopilotState
        /\ loop[s].cycle \in 0 .. 25 /\ loop[s].mode \in Modes \cup {"advisory"}
    BY <1>2 DEF TypeOK, LoopState
  <2>2. CASE StartAutopilot(s)
    BY <2>1, <2>2 DEF StartAutopilot, AutopilotState
  <2>3. CASE autopilot' = [autopilot EXCEPT !.running = FALSE]
    BY <2>1, <2>3 DEF AutopilotState
  <2>4. CASE autopilot' = [autopilot EXCEPT !.pending_cycle = loop[s].cycle]
    BY <2>1, <2>4 DEF AutopilotState
  <2>5. CASE autopilot' = [autopilot EXCEPT !.pending_cycle = 0]
    BY <2>1, <2>5 DEF AutopilotState
  <2>6. CASE autopilot' = [autopilot EXCEPT !.approved_cycle = 0, !.pending_cycle = 0]
    <3>1. 0 \in 0 .. 25
      OBVIOUS
    <3> QED BY <2>1, <2>6, <3>1, Zenon DEF AutopilotState
  <2> QED BY <2>1, <2>2, <2>3, <2>4, <2>5, <2>6, SessionFlags
<1>7. loop'[s].own <= Len(procs') /\ loop'[s].judged <= Len(procs')
  <2>1. loop[s].own <= Len(procs) /\ loop[s].judged <= Len(procs) /\ report.by <= Len(procs) /\ Len(procs) \in Nat
        /\ loop[s].own \in Nat /\ loop[s].judged \in Nat /\ report.by \in Nat
    BY <1>2, Processes DEF TypeOK, LoopState
  <2>2. CASE LaunchUat(s)
    <3>1. loop'[s].own \in {loop[s].own, Len(procs) + 1} /\ loop'[s].judged = loop[s].judged
      BY <1>2, <2>2 DEF LaunchUat, End, TypeOK, LoopState
    <3>2. Launched => Len(procs') = Len(procs) + 1
      BY LaunchAdds
    <3>3. ~Launched => loop'[s].own = loop[s].own
      BY <1>2, <2>2 DEF LaunchUat, End, TypeOK, LoopState
    <3> QED BY <1>4, <2>1, <3>1, <3>2, <3>3
  <2>3. CASE ReadReport(s)
    <3>1. loop'[s].own = loop[s].own /\ loop'[s].judged = report.by
      BY <1>2, <2>3 DEF ReadReport, TypeOK, LoopState
    <3> QED BY <1>4, <2>1, <3>1
  <2>4. CASE ~LaunchUat(s) /\ ~ReadReport(s)
    <3>1. loop'[s].own = loop[s].own /\ loop'[s].judged = loop[s].judged
      <4>1. CASE StartCheck(s)
        <5>1. PICK mode \in Modes, max_cycles \in CycleCounts :
                loop' = [loop EXCEPT ![s].pc = "checked", ![s].mode = mode, ![s].max_cycles = max_cycles]
          BY <4>1 DEF StartCheck
        <5>2. loop'[s] = [loop[s] EXCEPT !.pc = "checked", !.mode = mode, !.max_cycles = max_cycles]
          BY <5>1 DEF TypeOK
        <5> QED BY <1>2, <5>2 DEF LoopState
      <4>6. CASE StartAutopilot(s)
        BY <1>2, <4>6 DEF StartAutopilot, Continue, TypeOK, LoopState
      <4>7. CASE LoopBegins(s)
        BY <1>2, <4>7 DEF LoopBegins, TypeOK, LoopState
      <4>4. CASE NextCycle(s)
        BY <1>2, <4>4 DEF NextCycle, End, TypeOK, LoopState
      <4>5. CASE WaitForUat(s) \/ Judge(s)
        BY <1>2, <4>5 DEF WaitForUat, Judge, Continue, End, TypeOK, LoopState
      <4>2. CASE GeneratePatch(s)
        BY <1>2, <4>2 DEF GeneratePatch, End, TypeOK, LoopState
      <4>3. CASE AwaitStop(s) \/ AwaitApproval(s) \/ AwaitTimeout(s) \/ ApplyPatch(s) \/ CloseCycle(s)
                 \/ EndRunning(s) \/ EndSession(s)
        BY <1>2, <4>3 DEF AwaitStop, AwaitApproval, AwaitTimeout, ApplyPatch, CloseCycle, EndRunning, EndSession,
                          Continue, End, TypeOK, LoopState
      <4> QED BY <2>4, <4>1, <4>2, <4>3, <4>4, <4>5, <4>6, <4>7 DEF Thread
    <3> QED BY <1>4, <2>1, <3>1
  <2> QED BY <2>2, <2>3, <2>4
<1>8. \A t \in Sessions : /\ loop'[t].cycle <= loop'[t].max_cycles
                          /\ loop'[t].own <= Len(procs') /\ loop'[t].judged <= Len(procs')
  <2> SUFFICES ASSUME NEW t \in Sessions, t # s
               PROVE  /\ loop[t].cycle <= loop[t].max_cycles
                      /\ loop[t].own <= Len(procs') /\ loop[t].judged <= Len(procs')
    BY <1>1, <1>7
  <2>1. /\ loop[t].cycle <= loop[t].max_cycles /\ loop[t].own \in Nat /\ loop[t].judged \in Nat
        /\ loop[t].own <= Len(procs) /\ loop[t].judged <= Len(procs)
    BY DEF TypeOK, LoopState
  <2> QED BY <1>4, <1>5, <2>1
<1> QED BY <1>1, <1>3, <1>4, <1>5, <1>6, <1>8, SessionEffect DEF TypeOK

\* A call keeps every type, and what calls hold still names sessions.
LEMMA CallTypes ==
  ASSUME TypeOK, Named, NEW c \in Calls,
         RunStart(c) \/ RunStop(c) \/ StopAutopilot(c) \/ Approve(c) \/ ApplyByHand(c)
  PROVE  TypeOK'
<1>1. /\ Len(procs) \in Nat /\ DOMAIN procs = 1 .. Len(procs) /\ call \in [Calls -> CallState] /\ call[c] \in CallState
      /\ runner \in [process : 0 .. Len(procs), exit_code : {"none", "zero", "bad"}]
  BY Processes DEF TypeOK
<1>2. NoCall \in CallState
  BY DEF NoCall, CallState
<1>3. ASSUME NEW v \in CallState, call' = [call EXCEPT ![c] = v] PROVE call' \in [Calls -> CallState]
  BY <1>1, <1>3
<1>4. ASSUME Answered(c) PROVE call' \in [Calls -> CallState]
  BY <1>2, <1>3, <1>4 DEF Answered
<1>5. ASSUME NEW pc \in {"idle", "launch", "stopping", "approving", "apply"},
             call' = [call EXCEPT ![c].pc = pc]
      PROVE  call' \in [Calls -> CallState]
  <2>1. [call[c] EXCEPT !.pc = pc] \in CallState
    BY <1>1 DEF CallState
  <2> QED BY <1>1, <1>5, <2>1
<1>6. ASSUME NEW n \in Nat, n >= Len(procs)
      PROVE  \A s \in Sessions : /\ loop[s].cycle <= loop[s].max_cycles
                                 /\ loop[s].own <= n /\ loop[s].judged <= n
  BY <1>1, <1>6 DEF TypeOK, LoopState
<1>7. CASE RunStart(c)
  <2>1. call' \in [Calls -> CallState]
    BY <1>4, <1>5, <1>7 DEF RunStart
  <2>2. /\ procs' \in Seq({"running", "zero", "bad"}) /\ Len(procs') \in {Len(procs), Len(procs) + 1}
        /\ runner' \in [process : 0 .. Len(procs'), exit_code : {"none", "zero", "bad"}]
    <3>1. CASE UNCHANGED <<procs, runner>>
      BY <3>1 DEF TypeOK
    <3>2. CASE procs' = procs /\ runner' = _runner_status
      BY <3>2, Polled DEF TypeOK
    <3>3. CASE Launched
      BY <3>3, LaunchAdds
    <3> QED BY <1>7, <3>1, <3>2, <3>3 DEF RunStart
  <2>3. Len(procs') \in Nat /\ Len(procs') >= Len(procs)
    BY <1>1, <2>2
  <2>4. UNCHANGED <<target, report, autopilot, stopped, loop, approvals>>
    BY <1>7 DEF RunStart, files
  <2>5. report \in [by : 0 .. Len(procs'), kind : Kinds]
    BY <1>1, <2>3 DEF TypeOK
  <2> QED BY <1>6, <2>1, <2>2, <2>3, <2>4, <2>5 DEF TypeOK
<1>8. CASE RunStop(c)
  <2>1. runner.process \in DOMAIN procs
    BY <1>1, <1>8 DEF RunStop, Running
  <2>2. procs' \in Seq({"running", "zero", "bad"}) /\ Len(procs') = Len(procs)
    BY <1>8, <2>1, ProcessReplaced DEF RunStop
  <2>3. runner' \in [process : 0 .. Len(procs'), exit_code : {"none", "zero", "bad"}]
    BY <1>1, <1>8, <2>2 DEF RunStop
  <2> QED BY <1>8, <2>2, <2>3 DEF RunStop, TypeOK, files
<1>9. CASE StopAutopilot(c)
  <2>1. call' \in [Calls -> CallState]
    BY <1>4, <1>5, <1>9 DEF StopAutopilot
  <2>2. stopped' \subseteq Sessions
    BY <1>9 DEF StopAutopilot, Named, TypeOK
  <2> QED BY <1>9, <2>1, <2>2 DEF StopAutopilot, TypeOK, files
<1>10. CASE Approve(c)
  <2>1. CASE call[c].pc = "approving"
    <3>1. call[c].session \in Sessions /\ call[c].cycle \in 1 .. 25
      BY <2>1 DEF Named
    <3>2. autopilot' = [autopilot EXCEPT !.approved_cycle = call[c].cycle]
      BY <1>10, <2>1 DEF Approve
    <3>3. autopilot' \in AutopilotState
      <4> DEFINE k == call[c].cycle
      <4>1. autopilot \in AutopilotState /\ k \in 0 .. 25
        BY <3>1 DEF TypeOK
      <4>2. autopilot' = [autopilot EXCEPT !.approved_cycle = k]
        BY <3>2
      <4> HIDE DEF k
      <4> QED BY <4>1, <4>2 DEF AutopilotState
    <3>4. approvals' \subseteq [session : Sessions, cycle : 1 .. 25]
      <4> DEFINE k == call[c].cycle
                 t == call[c].session
      <4>1. approvals \subseteq [session : Sessions, cycle : 1 .. 25] /\ k \in 1 .. 25 /\ t \in Sessions
        BY <3>1 DEF TypeOK
      <4>2. approvals' = approvals \cup {[session |-> t, cycle |-> k]}
        BY <1>10, <2>1 DEF Approve
      <4> HIDE DEF k, t
      <4> QED BY <4>1, <4>2
    <3>5. call' \in [Calls -> CallState]
      BY <1>4, <1>10, <2>1 DEF Approve
    <3> QED BY <1>10, <3>3, <3>4, <3>5 DEF Approve, TypeOK, files
  <2>2. CASE call[c].pc # "approving"
    <3>1. call' = [call EXCEPT ![c] = [call[c] EXCEPT !.pc = "approving", !.session = autopilot.approval_token,
                                                      !.cycle = autopilot.pending_cycle]]
      BY <1>1, <1>10, <2>2 DEF Approve
    <3>2. autopilot.approval_token \in Sessions \cup {NoSession} /\ autopilot.pending_cycle \in 0 .. 25
      BY DEF TypeOK, AutopilotState
    <3> DEFINE v == [call[c] EXCEPT !.pc = "approving", !.session = autopilot.approval_token,
                                    !.cycle = autopilot.pending_cycle]
    <3>3. v \in CallState
      BY <1>1, <3>2 DEF CallState
    <3> HIDE DEF v
    <3>4. call' \in [Calls -> CallState]
      BY <1>3, <3>1, <3>3 DEF v
    <3> QED BY <1>10, <2>2, <3>4 DEF Approve, TypeOK, files
  <2> QED BY <2>1, <2>2
<1>11. CASE ApplyByHand(c)
  <2>1. target' \in {"original", "v1", "v2"}
    BY <1>11 DEF ApplyByHand, _apply_generated_patch, Patched, TypeOK
  <2>2. call' \in [Calls -> CallState]
    <3>1. CASE Answered(c)
      BY <1>4, <3>1
    <3>2. CASE call' = [call EXCEPT ![c].pc = "apply", ![c].base = target]
      <4>1. target \in {"original", "v1", "v2"}
        BY DEF TypeOK
      <4>2. [call[c] EXCEPT !.pc = "apply", !.base = target] \in CallState
        BY <1>1, <4>1 DEF CallState
      <4> QED BY <1>1, <3>2, <4>2
    <3> QED BY <1>11, <3>1, <3>2 DEF ApplyByHand
  <2> QED BY <1>11, <2>1, <2>2 DEF ApplyByHand, TypeOK, files
<1> QED BY <1>7, <1>8, <1>9, <1>10, <1>11

\* A process that ends keeps every type.
LEMMA EndTypes ==
  ASSUME TypeOK, NEW p \in DOMAIN procs, ProcessEnds(p)
  PROVE  /\ TypeOK' /\ procs' \in Seq({"running", "zero", "bad"}) /\ Len(procs') = Len(procs)
         /\ \A q \in DOMAIN procs : q # p => procs'[q] = procs[q]
         /\ DOMAIN procs' = DOMAIN procs
         /\ procs[p] = "running" /\ procs'[p] \in {"zero", "bad"}
         /\ procs'[p] = "zero" => report'.by = p
         /\ report' = report \/ report'.by = p
<1>1. Len(procs) \in Nat /\ DOMAIN procs = 1 .. Len(procs)
  BY Processes
<1>2. PICK e \in {"zero", "bad"} :
        /\ procs' = [procs EXCEPT ![p] = e]
        /\ report' \in [by : {p}, kind : Kinds] \/ (e = "bad" /\ report' = report)
  BY DEF ProcessEnds
<1>3. /\ procs' \in Seq({"running", "zero", "bad"}) /\ Len(procs') = Len(procs) /\ DOMAIN procs' = DOMAIN procs
      /\ procs'[p] = e /\ \A q \in DOMAIN procs : q # p => procs'[q] = procs[q]
  BY <1>2, ProcessReplaced
<1>4. report' \in [by : 0 .. Len(procs'), kind : Kinds]
  BY <1>1, <1>2, <1>3 DEF TypeOK
<1>5. TypeOK'
  BY <1>3, <1>4 DEF TypeOK, ProcessEnds
<1> QED BY <1>2, <1>3, <1>5 DEF ProcessEnds

\* Where a session's step takes it, and what it counts.
LEMMA SessionPath ==
  ASSUME TypeOK, NEW s \in Sessions, StartCheck(s) \/ StartAutopilot(s) \/ Thread(s)
  PROVE  \/ StartCheck(s) /\ loop[s].pc = "idle" /\ loop'[s].pc = "checked" /\ loop'[s].cycle = loop[s].cycle
         \/ StartAutopilot(s) /\ loop[s].pc = "checked" /\ loop'[s].pc = "begun" /\ loop'[s].cycle = loop[s].cycle
         \/ LoopBegins(s) /\ loop[s].pc = "begun" /\ loop'[s].pc = "cycle" /\ loop'[s].cycle = loop[s].cycle
         \/ /\ NextCycle(s) /\ loop[s].pc = "cycle" /\ loop'[s].pc = "launch"
            /\ loop'[s].cycle = loop[s].cycle + 1 /\ ~Running
         \/ LaunchUat(s) /\ Launched /\ loop[s].pc = "launch" /\ loop'[s].pc = "waiting"
              /\ loop'[s].cycle = loop[s].cycle /\ loop'[s].own = Len(procs) + 1
         \/ WaitForUat(s) /\ loop[s].pc = "waiting" /\ loop'[s].pc = "finished" /\ ~Running
              /\ loop'[s].cycle = loop[s].cycle /\ loop'[s].own = loop[s].own
         \/ Judge(s) /\ loop[s].pc = "finished" /\ loop'[s].pc = "report" /\ _runner_status.exit_code # "bad"
              /\ loop'[s].cycle = loop[s].cycle /\ loop'[s].own = loop[s].own
         \/ ReadReport(s) /\ loop[s].pc = "report" /\ loop'[s].pc = "patching" /\ loop'[s].judged = report.by
              /\ loop'[s].cycle = loop[s].cycle /\ loop'[s].own = loop[s].own
         \/ /\ loop[s].pc \in {"patching", "awaiting", "applying"} /\ loop'[s].pc \in {"awaiting", "applying", "applied"}
            /\ loop'[s].cycle = loop[s].cycle /\ loop'[s].own = loop[s].own /\ loop'[s].judged = loop[s].judged
         \/ CloseCycle(s) /\ loop[s].pc = "applied" /\ loop'[s].pc = "cycle" /\ loop'[s].cycle = loop[s].cycle
         \/ /\ loop[s].pc \notin {"idle", "checked", "ending", "closing", "ended"} /\ loop'[s].pc = "ending"
         \/ EndRunning(s) /\ loop[s].pc = "ending" /\ loop'[s].pc = "closing"
         \/ EndSession(s) /\ loop[s].pc = "closing" /\ loop'[s].pc = "ended"
<1>1. loop \in [Sessions -> LoopState] /\ loop[s] \in LoopState
  BY DEF TypeOK
<1>2. ASSUME NEW pc, Continue(s, pc)
      PROVE  /\ loop'[s].pc = pc /\ loop'[s].cycle = loop[s].cycle /\ loop'[s].own = loop[s].own
             /\ loop'[s].judged = loop[s].judged
  <2>1. loop'[s] = [loop[s] EXCEPT !.pc = pc]
    BY <1>1, <1>2 DEF Continue
  <2> QED BY <1>1, <2>1 DEF LoopState
<1>3. ASSUME NEW why, End(s, why) PROVE loop'[s].pc = "ending"
  BY <1>1, <1>3 DEF End, LoopState
<1>4. CASE StartCheck(s)
  <2>1. PICK mode \in Modes, max_cycles \in CycleCounts :
          loop' = [loop EXCEPT ![s].pc = "checked", ![s].mode = mode, ![s].max_cycles = max_cycles]
    BY <1>4 DEF StartCheck
  <2>2. loop'[s] = [loop[s] EXCEPT !.pc = "checked", !.mode = mode, !.max_cycles = max_cycles]
    BY <1>1, <2>1
  <2>3. loop'[s].pc = "checked" /\ loop'[s].cycle = loop[s].cycle
    BY <1>1, <2>2 DEF LoopState
  <2> QED BY <1>4, <2>3 DEF StartCheck
<1>5. CASE StartAutopilot(s)
  <2>1. loop'[s].pc = "begun" /\ loop'[s].cycle = loop[s].cycle
    BY <1>2, <1>5 DEF StartAutopilot
  <2> QED BY <1>5, <2>1 DEF StartAutopilot
<1>6. CASE LoopBegins(s)
  <2>1. loop'[s] = [loop[s] EXCEPT !.pc = "cycle", !.event = autopilot.stop_event]
    BY <1>1, <1>6 DEF LoopBegins
  <2>2. loop'[s].pc = "cycle" /\ loop'[s].cycle = loop[s].cycle
    BY <1>1, <2>1 DEF LoopState
  <2> QED BY <1>6, <2>2 DEF LoopBegins
<1>7. CASE NextCycle(s)
  <2>1. CASE loop' = [loop EXCEPT ![s].pc = "launch", ![s].cycle = @ + 1] /\ ~Running
    <3>1. loop'[s] = [loop[s] EXCEPT !.pc = "launch", !.cycle = loop[s].cycle + 1]
      BY <1>1, <2>1
    <3>2. loop'[s].pc = "launch" /\ loop'[s].cycle = loop[s].cycle + 1
      BY <1>1, <3>1 DEF LoopState
    <3> QED BY <1>7, <2>1, <3>2 DEF NextCycle
  <2>2. CASE loop'[s].pc = "ending"
    BY <1>7, <2>2 DEF NextCycle
  <2> QED BY <1>3, <1>7, <2>1, <2>2 DEF NextCycle
<1>8. CASE LaunchUat(s)
  <2>1. CASE Launched /\ loop' = [loop EXCEPT ![s].pc = "waiting", ![s].own = Len(procs) + 1]
    <3>1. loop'[s] = [loop[s] EXCEPT !.pc = "waiting", !.own = Len(procs) + 1]
      BY <1>1, <2>1
    <3>2. loop'[s].pc = "waiting" /\ loop'[s].cycle = loop[s].cycle /\ loop'[s].own = Len(procs) + 1
      BY <1>1, <3>1 DEF LoopState
    <3> QED BY <1>8, <2>1, <3>2 DEF LaunchUat
  <2>2. CASE loop'[s].pc = "ending"
    BY <1>8, <2>2 DEF LaunchUat
  <2> QED BY <1>3, <1>8, <2>1, <2>2 DEF LaunchUat
<1>9. CASE WaitForUat(s)
  <2>1. CASE loop'[s].pc = "ending"
    BY <1>9, <2>1 DEF WaitForUat
  <2>2. CASE Continue(s, "finished") /\ ~Running
    <3>1. loop'[s].pc = "finished" /\ loop'[s].cycle = loop[s].cycle /\ loop'[s].own = loop[s].own
      BY <1>2, <2>2
    <3> QED BY <1>9, <2>2, <3>1 DEF WaitForUat
  <2> QED BY <1>3, <1>9, <2>1, <2>2 DEF WaitForUat
<1>10. CASE Judge(s)
  <2>1. CASE loop'[s].pc = "ending"
    BY <1>10, <2>1 DEF Judge
  <2>2. CASE Continue(s, "report") /\ _runner_status.exit_code # "bad"
    <3>1. loop'[s].pc = "report" /\ loop'[s].cycle = loop[s].cycle /\ loop'[s].own = loop[s].own
      BY <1>2, <2>2
    <3> QED BY <1>10, <2>2, <3>1 DEF Judge
  <2> QED BY <1>3, <1>10, <2>1, <2>2 DEF Judge
<1>11. CASE ReadReport(s)
  <2>1. PICK pc \in {"ending", "patching"} : \E why :
          loop' = [loop EXCEPT ![s].judged = report.by, ![s].kind = report.kind, ![s].pc = pc, ![s].reason = why]
    BY <1>11 DEF ReadReport
  <2>2. \E why : loop'[s] = [loop[s] EXCEPT !.judged = report.by, !.kind = report.kind, !.pc = pc, !.reason = why]
    BY <1>1, <2>1
  <2>3. /\ loop'[s].pc = pc /\ loop'[s].cycle = loop[s].cycle /\ loop'[s].own = loop[s].own
        /\ loop'[s].judged = report.by
    BY <1>1, <2>2 DEF LoopState
  <2> QED BY <1>11, <2>1, <2>3 DEF ReadReport
<1>12. CASE GeneratePatch(s)
  <2>1. CASE loop'[s].pc = "ending"
    BY <1>12, <2>1 DEF GeneratePatch
  <2>2. CASE \E pc \in {"ending", "applying", "awaiting"} : \E why :
               loop' = [loop EXCEPT ![s].base = target, ![s].pc = pc, ![s].reason = why]
    <3>1. PICK pc \in {"ending", "applying", "awaiting"} : \E why :
               loop' = [loop EXCEPT ![s].base = target, ![s].pc = pc, ![s].reason = why]
      BY <2>2
    <3>2. \E why : loop'[s] = [loop[s] EXCEPT !.base = target, !.pc = pc, !.reason = why]
      BY <1>1, <3>1
    <3>3. /\ loop'[s].pc = pc /\ loop'[s].cycle = loop[s].cycle /\ loop'[s].own = loop[s].own
          /\ loop'[s].judged = loop[s].judged
      BY <1>1, <3>2 DEF LoopState
    <3> QED BY <1>12, <3>1, <3>3 DEF GeneratePatch
  <2>3. loop[s].mode \in {"advisory", "apply", "manual_approval"}
    BY <1>1, ModesAssumption DEF LoopState
  <2> QED BY <1>3, <1>12, <2>1, <2>2, <2>3 DEF GeneratePatch
<1>13. CASE AwaitStop(s) \/ AwaitTimeout(s)
  BY <1>3, <1>13 DEF AwaitStop, AwaitTimeout
<1>14. CASE AwaitApproval(s) \/ ApplyPatch(s) \/ CloseCycle(s) \/ EndRunning(s) \/ EndSession(s)
  <2>3. CASE AwaitApproval(s)
    <3>1. Continue(s, "applying") /\ loop[s].pc = "awaiting"
      BY <2>3 DEF AwaitApproval
    <3>2. /\ loop'[s].pc = "applying" /\ loop'[s].cycle = loop[s].cycle /\ loop'[s].own = loop[s].own
          /\ loop'[s].judged = loop[s].judged
      BY <1>2, <3>1
    <3> QED BY <3>1, <3>2
  <2>4. CASE ApplyPatch(s)
    <3>1. Continue(s, "applied") /\ loop[s].pc = "applying"
      BY <2>4 DEF ApplyPatch
    <3>2. /\ loop'[s].pc = "applied" /\ loop'[s].cycle = loop[s].cycle /\ loop'[s].own = loop[s].own
          /\ loop'[s].judged = loop[s].judged
      BY <1>2, <3>1
    <3> QED BY <3>1, <3>2
  <2>5. CASE CloseCycle(s)
    <3>1. Continue(s, "cycle") /\ loop[s].pc = "applied"
      BY <2>5 DEF CloseCycle
    <3>2. loop'[s].pc = "cycle" /\ loop'[s].cycle = loop[s].cycle
      BY <1>2, <3>1
    <3> QED BY <2>5, <3>1, <3>2
  <2>6. CASE EndRunning(s)
    BY <1>2, <2>6 DEF EndRunning
  <2>7. CASE EndSession(s)
    BY <1>2, <2>7 DEF EndSession
  <2> QED BY <1>14, <2>3, <2>4, <2>5, <2>6, <2>7
<1> QED
  BY <1>4, <1>5, <1>6, <1>7, <1>8, <1>9, <1>10, <1>11, <1>12, <1>13, <1>14 DEF Thread

\* What a call may do to the processes, and that it leaves the sessions alone.
LEMMA CallEffect ==
  ASSUME TypeOK, NEW c \in Calls,
         RunStart(c) \/ RunStop(c) \/ StopAutopilot(c) \/ Approve(c) \/ ApplyByHand(c)
  PROVE  /\ UNCHANGED <<report, loop>>
         /\ \/ procs' = procs /\ runner'.process = runner.process
            \/ Launched
            \/ /\ Running /\ procs' = [procs EXCEPT ![runner.process] = "bad"]
               /\ runner'.process = runner.process
<1>1. runner \in [process : 0 .. Len(procs), exit_code : {"none", "zero", "bad"}]
  BY DEF TypeOK
<1>2. CASE RunStart(c)
  BY <1>2, Polled DEF RunStart, files
<1>3. CASE RunStop(c)
  BY <1>1, <1>3 DEF RunStop, files
<1>4. CASE StopAutopilot(c) \/ Approve(c) \/ ApplyByHand(c)
  BY <1>4 DEF StopAutopilot, Approve, ApplyByHand, files
<1> QED BY <1>2, <1>3, <1>4

\* What a call does to _AUTOPILOT_STATE and to the calls.
LEMMA CallFlags ==
  ASSUME TypeOK, Named, NEW c \in Calls,
         RunStart(c) \/ RunStop(c) \/ StopAutopilot(c) \/ Approve(c) \/ ApplyByHand(c)
  PROVE  /\ \A d \in Calls \ {c} : call'[d] = call[d]
         /\ \/ /\ UNCHANGED <<autopilot, approvals>>
               /\ call'[c].pc = "stopping" => autopilot.stop_event \in Sessions
               /\ call'[c].pc = "approving" =>
                    \/ call'[c] = call[c]
                    \/ /\ call'[c].session = autopilot.approval_token /\ autopilot.approval_token \in Sessions
                       /\ call'[c].cycle \in 1 .. 25
            \/ /\ call[c].pc = "approving" /\ call'[c].pc = "idle"
               /\ autopilot' = [autopilot EXCEPT !.approved_cycle = call[c].cycle]
               /\ approvals' = approvals \cup {[session |-> call[c].session, cycle |-> call[c].cycle]}
<1>1. call \in [Calls -> CallState] /\ call[c] \in CallState
  BY DEF TypeOK
<1>2. ASSUME Answered(c) PROVE call'[c].pc = "idle" /\ \A d \in Calls \ {c} : call'[d] = call[d]
  BY <1>1, <1>2 DEF Answered, NoCall
<1>3. CASE RunStart(c)
  <2>1. CASE call' = [call EXCEPT ![c].pc = "launch"]
    <3>1. call'[c].pc = "launch" /\ \A d \in Calls \ {c} : call'[d] = call[d]
      BY <1>1, <2>1 DEF CallState
    <3> QED BY <1>3, <3>1 DEF RunStart
  <2> QED BY <1>2, <1>3, <2>1 DEF RunStart
<1>4. CASE RunStop(c)
  <2>1. call[c].pc = "idle" /\ UNCHANGED <<autopilot, approvals, call>>
    BY <1>4 DEF RunStop
  <2> QED BY <2>1
<1>5. CASE StopAutopilot(c)
  <2>1. CASE Answered(c)
    BY <1>2, <1>5, <2>1 DEF StopAutopilot
  <2>2. CASE autopilot.running /\ call' = [call EXCEPT ![c].pc = "stopping"]
    <3>1. call'[c].pc = "stopping" /\ \A d \in Calls \ {c} : call'[d] = call[d]
      BY <1>1, <2>2 DEF CallState
    <3>2. autopilot.stop_event \in Sessions
      BY <2>2 DEF Named
    <3> QED BY <1>5, <3>1, <3>2 DEF StopAutopilot
  <2> QED BY <1>5, <2>1, <2>2 DEF StopAutopilot
<1>6. CASE Approve(c)
  <2>1. CASE call[c].pc = "approving"
    BY <1>2, <1>6, <2>1 DEF Approve
  <2>2. CASE call[c].pc # "approving"
    <3>1. /\ autopilot.mode = "manual_approval" /\ autopilot.pending_cycle > 0 /\ UNCHANGED <<autopilot, approvals>>
          /\ call' = [call EXCEPT ![c].pc = "approving", ![c].session = autopilot.approval_token,
                                  ![c].cycle = autopilot.pending_cycle]
      BY <1>6, <2>2 DEF Approve
    <3>2. /\ call'[c] = [call[c] EXCEPT !.pc = "approving", !.session = autopilot.approval_token,
                                        !.cycle = autopilot.pending_cycle]
          /\ \A d \in Calls \ {c} : call'[d] = call[d]
      BY <1>1, <3>1
    <3>3. /\ call'[c].pc = "approving" /\ call'[c].session = autopilot.approval_token
          /\ call'[c].cycle = autopilot.pending_cycle
      BY <1>1, <3>2 DEF CallState
    <3>4. autopilot.approval_token \in Sessions /\ autopilot.pending_cycle \in 1 .. 25
      BY <3>1 DEF Named, TypeOK, AutopilotState
    <3> QED BY <3>1, <3>2, <3>3, <3>4
  <2> QED BY <2>1, <2>2
<1>7. CASE ApplyByHand(c)
  <2>1. CASE call' = [call EXCEPT ![c].pc = "apply", ![c].base = target]
    <3>1. /\ call'[c] = [call[c] EXCEPT !.pc = "apply", !.base = target]
          /\ \A d \in Calls \ {c} : call'[d] = call[d]
      BY <1>1, <2>1
    <3>2. call'[c].pc = "apply"
      BY <1>1, <3>1 DEF CallState
    <3> QED BY <1>7, <3>1, <3>2 DEF ApplyByHand
  <2> QED BY <1>2, <1>7, <2>1 DEF ApplyByHand
<1> QED BY <1>3, <1>4, <1>5, <1>6, <1>7

\* What starts, stops and approvals name are sessions that were started.
LEMMA NamedStep == ASSUME TypeOK, Named, [Next]_vars PROVE Named'
<1>1. autopilot \in AutopilotState
  BY DEF TypeOK
<1>2. ASSUME NEW s \in Sessions, StartCheck(s) \/ StartAutopilot(s) \/ Thread(s) PROVE Named'
  <2>1. UNCHANGED call
    BY <1>2, SessionEffect
  <2>2. CASE StartAutopilot(s)
    BY <2>1, <2>2 DEF StartAutopilot, Named
  <2>3. CASE ~StartAutopilot(s)
    <3>1. /\ autopilot'.running => autopilot.running
          /\ autopilot'.stop_event = autopilot.stop_event /\ autopilot'.mode = autopilot.mode
          /\ autopilot'.approval_token = autopilot.approval_token
      BY <1>1, <1>2, <2>3, SessionFlags DEF AutopilotState
    <3> QED BY <2>1, <3>1 DEF Named
  <2> QED BY <2>2, <2>3
<1>3. ASSUME NEW c \in Calls, RunStart(c) \/ RunStop(c) \/ StopAutopilot(c) \/ Approve(c) \/ ApplyByHand(c)
      PROVE  Named'
  <2>1. \A d \in Calls \ {c} : call'[d] = call[d]
    BY <1>3, CallFlags
  <2>2. CASE UNCHANGED autopilot
    BY <1>3, <2>1, <2>2, CallFlags DEF Named
  <2>3. CASE call'[c].pc = "idle" /\ autopilot' = [autopilot EXCEPT !.approved_cycle = call[c].cycle]
    <3>1. /\ autopilot'.running = autopilot.running
          /\ autopilot'.stop_event = autopilot.stop_event /\ autopilot'.mode = autopilot.mode
          /\ autopilot'.approval_token = autopilot.approval_token
      BY <1>1, <2>3 DEF AutopilotState
    <3> QED BY <2>1, <2>3, <3>1 DEF Named
  <2> QED BY <1>3, <2>2, <2>3, CallFlags
<1>4. CASE (\E p \in DOMAIN procs : ProcessEnds(p)) \/ UNCHANGED vars
  BY <1>4 DEF ProcessEnds, vars, Named
<1> QED BY <1>2, <1>3, <1>4 DEF Next

\* The flag is set by a thread's start and cleared by every thread that ends.
LEMMA BackedStep ==
  ASSUME TypeOK, Named, RunningIsBacked, \A s \in Sessions : Launches(s), [Next]_vars
  PROVE  RunningIsBacked'
<1>1. autopilot \in AutopilotState
  BY DEF TypeOK
<1>2. ASSUME NEW s \in Sessions, StartCheck(s) \/ StartAutopilot(s) \/ Thread(s)
      PROVE  RunningIsBacked'
  <2>1. \A t \in Sessions \ {s} : loop'[t] = loop[t]
    BY <1>2, SessionStep
  <2>2. CASE EndRunning(s)
    BY <1>1, <2>2 DEF EndRunning, RunningIsBacked, AutopilotState
  <2>3. CASE StartAutopilot(s)
    <3>1. loop'[s].pc = "begun"
      BY <2>3, SessionPath DEF StartAutopilot
    <3> QED BY <3>1 DEF RunningIsBacked, Active
  <2>4. CASE ~EndRunning(s) /\ ~StartAutopilot(s)
    <3>1. autopilot'.running = autopilot.running
      BY <1>1, <1>2, <2>4, SessionFlags DEF AutopilotState
    <3>2. s \in Active => s \in Active'
      BY <1>2, <2>4, SessionPath DEF Active
    <3>3. Active \subseteq Active'
      BY <2>1, <3>2 DEF Active
    <3> QED BY <3>1, <3>3 DEF RunningIsBacked
  <2> QED BY <2>2, <2>3, <2>4
<1>3. ASSUME NEW c \in Calls, RunStart(c) \/ RunStop(c) \/ StopAutopilot(c) \/ Approve(c) \/ ApplyByHand(c)
      PROVE  RunningIsBacked'
  <2>1. UNCHANGED loop /\ autopilot'.running = autopilot.running
    BY <1>1, <1>3, CallEffect, CallFlags DEF AutopilotState
  <2> QED BY <2>1 DEF RunningIsBacked, Active
<1>4. CASE (\E p \in DOMAIN procs : ProcessEnds(p)) \/ UNCHANGED vars
  BY <1>4 DEF ProcessEnds, vars, RunningIsBacked, Active
<1> QED BY <1>2, <1>3, <1>4 DEF Next
-------------------------------------------------------------------------------
\* A session's cycle is a number.
LEMMA CycleType == ASSUME TypeOK, NEW s \in Sessions PROVE loop[s].cycle \in Nat
<1>1. loop[s] \in LoopState
  BY DEF TypeOK
<1>2. loop[s].cycle \in 0 .. 25
  BY <1>1 DEF LoopState
<1>3. \A k \in 0 .. 25 : k \in Nat
  OBVIOUS
<1> QED BY <1>2, <1>3

Judging(s) == Launches(s) /\ OthersEnded(s) /\ Follows(s)

\* A launch by somebody else takes a session out of the undisturbed ones.
LEMMA OtherLaunch ==
  ASSUME TypeOK, NEW s \in Sessions, Judging(s), loop'[s] = loop[s], Launched
  PROVE  Judging(s)'
<1>1. Len(procs) \in Nat /\ Len(procs') = Len(procs) + 1 /\ loop[s].cycle \in Nat
  BY Processes, LaunchAdds, CycleType
<1> DEFINE n == Len(procs)
           m == Len(procs')
           k == loop[s].cycle
<1>0. n \in Nat /\ m = n + 1 /\ k \in Nat /\ loop'[s] = loop[s]
  BY <1>1
<1>5. /\ loop[s].pc \in {"idle", "checked", "begun"} => k = 0
      /\ loop[s].pc \in InCycle \cup {"cycle"} => k <= n
      /\ loop[s].pc = "launch" => k <= n + 1
      /\ loop[s].pc \in InCycle \cup {"launch"} => k >= 1
  BY DEF Judging, Launches
<1>2. Launches(s)'
  <2>1. /\ loop[s].pc \in InCycle \cup {"cycle"} => k <= m
        /\ loop[s].pc = "launch" => k <= m + 1
    <3> HIDE DEF n, m, k
    <3> QED BY <1>0, <1>5
  <2> QED BY <1>0, <1>5, <2>1 DEF Launches
<1>3. loop[s].pc \in InCycle \cup {"cycle"} => ~Undisturbed(s)'
  <2>1. loop[s].pc \in InCycle \cup {"cycle"} => m # k
    <3> HIDE DEF n, m, k
    <3> QED BY <1>0, <1>5
  <2> QED BY <1>0, <2>1 DEF Undisturbed
<1>4. loop[s].pc = "launch" => Len(procs') # loop'[s].cycle - 1
  <2>1. loop[s].pc = "launch" => m # k - 1
    <3> HIDE DEF n, m, k
    <3> QED BY <1>0, <1>5
  <2> QED BY <1>0, <2>1
<1> QED BY <1>2, <1>3, <1>4 DEF Judging, OthersEnded, Follows

\* A process that ends, or is terminated, does not disturb the judging.
LEMMA OtherEnd ==
  ASSUME TypeOK, NEW s \in Sessions, Judging(s), loop'[s] = loop[s],
         NEW p \in DOMAIN procs, procs[p] = "running", procs'[p] \in {"zero", "bad"},
         Len(procs') = Len(procs), DOMAIN procs' = DOMAIN procs,
         \A q \in DOMAIN procs : q # p => procs'[q] = procs[q],
         procs'[p] = "zero" => report'.by = p, report' = report \/ report'.by = p
  PROVE  Judging(s)'
<1>1. Len(procs) \in Nat /\ DOMAIN procs = 1 .. Len(procs) /\ loop[s].cycle \in Nat
  BY Processes, CycleType
<1>2. Launches(s)'
  BY DEF Judging, Launches
<1>3. \A q \in DOMAIN procs' : procs'[q] = "running" => procs[q] = "running"
  OBVIOUS
<1>4. OthersEnded(s)'
  BY <1>3 DEF Judging, OthersEnded, Undisturbed
<1>5. Follows(s)'
  <2> SUFFICES ASSUME loop[s].pc \in InCycle, Undisturbed(s)
               PROVE  /\ loop[s].own = Len(procs)
                      /\ procs'[Len(procs)] = "zero" => report'.by = Len(procs)
                      /\ loop[s].pc # "waiting" => procs'[Len(procs)] # "running"
                      /\ loop[s].pc = "report" => procs'[Len(procs)] = "zero"
                      /\ loop[s].pc \in {"patching", "awaiting", "applying", "applied"}
                           => loop[s].judged = loop[s].own
    BY DEF Follows, Undisturbed
  <2>1. p = Len(procs)
    BY DEF Judging, OthersEnded
  <2>2. loop[s].pc = "waiting" /\ loop[s].own = Len(procs)
    BY <2>1 DEF Judging, Follows
  <2> QED BY <2>1, <2>2
<1> QED BY <1>2, <1>4, <1>5 DEF Judging

\* The session's own steps.
LEMMA OwnStep ==
  ASSUME TypeOK, runner.process = Len(procs), NEW s \in Sessions, Judging(s),
         StartCheck(s) \/ StartAutopilot(s) \/ Thread(s)
  PROVE  Judging(s)'
<1>1. Len(procs) \in Nat /\ DOMAIN procs = 1 .. Len(procs) /\ loop[s].cycle \in Nat
  BY Processes, CycleType
<1>2. report' = report /\ (procs' = procs \/ (Launched /\ LaunchUat(s)))
  BY SessionEffect
<1>3. ~Running => \A q \in DOMAIN procs : q = Len(procs) => procs[q] # "running"
  BY <1>1 DEF Running
<1>4. CASE LaunchUat(s) /\ Launched /\ loop[s].pc = "launch" /\ loop'[s].pc = "waiting"
           /\ loop'[s].cycle = loop[s].cycle /\ loop'[s].own = Len(procs) + 1
  <2>1. /\ Len(procs') = Len(procs) + 1 /\ DOMAIN procs' = 1 .. Len(procs) + 1
        /\ procs'[Len(procs) + 1] = "running" /\ \A p \in 1 .. Len(procs) : procs'[p] = procs[p]
    BY <1>4, LaunchAdds
  <2>2. loop[s].cycle <= Len(procs) + 1 /\ loop[s].cycle >= 1
    BY <1>4 DEF Judging, Launches
  <2>3. Launches(s)'
    BY <1>1, <1>4, <2>1, <2>2 DEF Launches, InCycle
  <2>4. OthersEnded(s)'
    <3>1. Undisturbed(s)' => Len(procs) = loop[s].cycle - 1
      BY <1>1, <1>4, <2>1 DEF Undisturbed
    <3>2. Undisturbed(s)' => \A p \in DOMAIN procs : procs[p] # "running"
      BY <1>4, <3>1 DEF Judging, OthersEnded
    <3> QED BY <1>1, <1>4, <2>1, <3>2 DEF OthersEnded
  <2>5. Follows(s)'
    BY <1>4, <2>1 DEF Follows
  <2> QED BY <2>3, <2>4, <2>5 DEF Judging
<1>5. ASSUME procs' = procs PROVE Judging(s)'
  <2>1. CASE loop[s].pc = "cycle" /\ loop'[s].pc = "launch" /\ loop'[s].cycle = loop[s].cycle + 1 /\ ~Running
    <3>1. loop[s].cycle <= Len(procs)
      BY <2>1 DEF Judging, Launches
    <3>2. Launches(s)'
      <4>1. loop'[s].cycle <= Len(procs') + 1 /\ loop'[s].cycle >= 1
        <5> DEFINE n == Len(procs)
                   m == Len(procs')
                   k == loop[s].cycle
                   l == loop'[s].cycle
        <5>1. n \in Nat /\ m = n /\ k \in Nat /\ l = k + 1 /\ k <= n
          BY <1>1, <1>5, <2>1, <3>1
        <5> HIDE DEF n, m, k, l
        <5>2. l <= m + 1 /\ l >= 1
          BY <5>1
        <5> QED BY <5>2 DEF n, m, k, l
      <4> QED BY <2>1, <4>1 DEF Launches, InCycle
    <3>3. Undisturbed(s) => \A p \in DOMAIN procs : procs[p] # "running"
      BY <1>1, <1>3, <2>1 DEF Judging, OthersEnded
    <3>4. OthersEnded(s)'
      <4>1. Len(procs') = loop'[s].cycle - 1 => Undisturbed(s)
        <5> DEFINE m == Len(procs')
                   k == loop[s].cycle
                   l == loop'[s].cycle
        <5>1. m = Len(procs) /\ m \in Nat /\ k \in Nat /\ l = k + 1
          BY <1>1, <1>5, <2>1
        <5>2. m = l - 1 => m = k
          <6> HIDE DEF m, k, l
          <6> QED BY <5>1
        <5> QED BY <5>1, <5>2 DEF Undisturbed
      <4> QED BY <1>5, <2>1, <3>3, <4>1 DEF OthersEnded, InCycle
    <3> QED BY <2>1, <3>2, <3>4 DEF Judging, Follows, InCycle
  <2>2. CASE loop[s].pc = "waiting" /\ loop'[s].pc = "finished" /\ ~Running
             /\ loop'[s].cycle = loop[s].cycle /\ loop'[s].own = loop[s].own
    <3>1. Launches(s)' /\ OthersEnded(s)' /\ loop[s].cycle >= 1
      BY <1>5, <2>2 DEF Judging, Launches, OthersEnded, Undisturbed, InCycle
    <3>2. Undisturbed(s) => Len(procs) \in DOMAIN procs
      BY <1>1, <3>1 DEF Undisturbed
    <3>3. Follows(s)'
      BY <1>2, <1>3, <1>5, <2>2, <3>2 DEF Judging, Follows, Undisturbed, InCycle
    <3> QED BY <3>1, <3>3 DEF Judging
  <2>3. CASE loop[s].pc = "finished" /\ loop'[s].pc = "report" /\ _runner_status.exit_code # "bad"
              /\ loop'[s].cycle = loop[s].cycle /\ loop'[s].own = loop[s].own
    <3>1. Launches(s)' /\ OthersEnded(s)' /\ loop[s].cycle >= 1
      BY <1>5, <2>3 DEF Judging, Launches, OthersEnded, Undisturbed, InCycle
    <3>2. Undisturbed(s) => procs[Len(procs)] = "zero"
      <4> SUFFICES ASSUME Undisturbed(s) PROVE procs[Len(procs)] = "zero"
        OBVIOUS
      <4>1. Len(procs) \in DOMAIN procs /\ runner.process # 0
        BY <1>1, <3>1 DEF Undisturbed
      <4>2. procs[Len(procs)] # "running"
        BY <2>3 DEF Judging, Follows, InCycle
      <4>3. _runner_status.exit_code = procs[Len(procs)]
        BY <4>1, <4>2, Polled DEF Running
      <4> QED BY <2>3, <4>1, <4>2, <4>3, Processes
    <3>3. Follows(s)'
      BY <1>2, <1>5, <2>3, <3>2 DEF Judging, Follows, Undisturbed, InCycle
    <3> QED BY <3>1, <3>3 DEF Judging
  <2>4. CASE loop[s].pc = "report" /\ loop'[s].pc = "patching" /\ loop'[s].judged = report.by
              /\ loop'[s].cycle = loop[s].cycle /\ loop'[s].own = loop[s].own
    <3>1. Launches(s)' /\ OthersEnded(s)'
      BY <1>5, <2>4 DEF Judging, Launches, OthersEnded, Undisturbed, InCycle
    <3>2. Follows(s)'
      BY <1>2, <1>5, <2>4 DEF Judging, Follows, Undisturbed, InCycle
    <3> QED BY <3>1, <3>2 DEF Judging
  <2>5. CASE /\ loop[s].pc \in {"patching", "awaiting", "applying"}
             /\ loop'[s].pc \in {"awaiting", "applying", "applied"}
             /\ loop'[s].cycle = loop[s].cycle /\ loop'[s].own = loop[s].own /\ loop'[s].judged = loop[s].judged
    <3>1. Launches(s)' /\ OthersEnded(s)'
      BY <1>5, <2>5 DEF Judging, Launches, OthersEnded, Undisturbed, InCycle
    <3>2. Follows(s)'
      BY <1>2, <1>5, <2>5 DEF Judging, Follows, Undisturbed, InCycle
    <3> QED BY <3>1, <3>2 DEF Judging
  <2>6. CASE loop[s].pc \in {"applied", "begun"} /\ loop'[s].pc = "cycle" /\ loop'[s].cycle = loop[s].cycle
    <3>1. Launches(s)'
      BY <1>1, <1>5, <2>6 DEF Judging, Launches, InCycle
    <3>2. OthersEnded(s)'
      <4>1. CASE loop[s].pc = "applied"
        BY <1>5, <2>6, <4>1 DEF Judging, OthersEnded, Undisturbed, InCycle
      <4>2. CASE loop[s].pc = "begun"
        <5>1. loop[s].cycle = 0
          BY <4>2 DEF Judging, Launches
        <5> QED BY <1>1, <1>5, <2>6, <5>1 DEF OthersEnded, Undisturbed
      <4> QED BY <2>6, <4>1, <4>2
    <3>3. Follows(s)'
      BY <2>6 DEF Follows, InCycle
    <3> QED BY <3>1, <3>2, <3>3 DEF Judging
  <2>7. CASE loop[s].pc \in {"idle", "checked"} /\ loop'[s].pc \in {"checked", "begun"}
             /\ loop'[s].cycle = loop[s].cycle
    BY <2>7 DEF Judging, Launches, OthersEnded, Follows, InCycle
  <2>8. CASE loop'[s].pc \in {"ending", "closing", "ended"}
    BY <2>8 DEF Judging, Launches, OthersEnded, Follows, InCycle
  <2>9. CASE Launched
    BY <1>1, <1>5, <2>9, LaunchAdds
  <2> QED BY <2>1, <2>2, <2>3, <2>4, <2>5, <2>6, <2>7, <2>8, <2>9, SessionPath
<1>6. CASE Launched /\ LaunchUat(s) /\ ~(procs' = procs)
  <2>1. loop[s].pc = "launch"
    BY <1>6 DEF LaunchUat
  <2>2. CASE loop'[s].pc = "ending"
    BY <2>2 DEF Judging, Launches, OthersEnded, Follows, InCycle
  <2> QED BY <1>4, <1>6, <2>1, <2>2, SessionPath
<1> QED BY <1>2, <1>5, <1>6

\* Every step keeps the judging of every session.
LEMMA JudgingStep ==
  ASSUME TypeOK, runner.process = Len(procs), \A s \in Sessions : Judging(s), [Next]_vars
  PROVE  runner'.process = Len(procs') /\ \A s \in Sessions : Judging(s)'
<1>1. Len(procs) \in Nat /\ DOMAIN procs = 1 .. Len(procs)
  BY Processes
<1>2. ASSUME NEW s \in Sessions, loop'[s] = loop[s], procs' = procs, report' = report PROVE Judging(s)'
  BY <1>2 DEF Judging, Launches, OthersEnded, Follows, Undisturbed
<1>3. ASSUME NEW t \in Sessions, StartCheck(t) \/ StartAutopilot(t) \/ Thread(t)
      PROVE  runner'.process = Len(procs') /\ \A s \in Sessions : Judging(s)'
  <2>1. \A s \in Sessions \ {t} : loop'[s] = loop[s]
    BY <1>3, SessionStep DEF Judging
  <2>2. Judging(t)'
    BY <1>3, OwnStep
  <2>3. report' = report /\ (procs' = procs \/ Launched)
    BY <1>3, SessionEffect
  <2>4. runner'.process = Len(procs')
    BY <1>3, SessionEffect, LaunchAdds, Polled
  <2> QED BY <1>2, <2>1, <2>2, <2>3, <2>4, OtherLaunch
<1>4. ASSUME NEW c \in Calls, RunStart(c) \/ RunStop(c) \/ StopAutopilot(c) \/ Approve(c) \/ ApplyByHand(c)
      PROVE  runner'.process = Len(procs') /\ \A s \in Sessions : Judging(s)'
  <2>1. UNCHANGED <<report, loop>>
    BY <1>4, CallEffect
  <2>2. CASE procs' = procs /\ runner'.process = runner.process
    BY <1>2, <2>1, <2>2
  <2>3. CASE Launched
    BY <2>1, <2>3, LaunchAdds, OtherLaunch
  <2>4. CASE Running /\ procs' = [procs EXCEPT ![runner.process] = "bad"] /\ runner'.process = runner.process
    <3>1. Len(procs) \in DOMAIN procs /\ procs[Len(procs)] = "running"
      BY <1>1, <2>4 DEF Running
    <3>2. /\ Len(procs') = Len(procs) /\ DOMAIN procs' = DOMAIN procs /\ procs'[Len(procs)] = "bad"
          /\ \A q \in DOMAIN procs : q # Len(procs) => procs'[q] = procs[q]
      BY <2>4, <3>1, ProcessReplaced
    <3> QED BY <2>1, <2>4, <3>1, <3>2, OtherEnd
  <2> QED BY <1>4, <2>2, <2>3, <2>4, CallEffect
<1>5. ASSUME NEW p \in DOMAIN procs, ProcessEnds(p)
      PROVE  runner'.process = Len(procs') /\ \A s \in Sessions : Judging(s)'
  <2>1. UNCHANGED <<runner, loop>>
    BY <1>5 DEF ProcessEnds
  <2> QED BY <1>5, <2>1, EndTypes, OtherEnd
<1>6. CASE UNCHANGED vars
  BY <1>2, <1>6 DEF vars, files
<1> QED BY <1>3, <1>4, <1>5, <1>6 DEF Next
-------------------------------------------------------------------------------
\* A session reaches the patch with its mode unchanged: at once in mode apply,
\* otherwise when its cycle is the approved one.
LEMMA ReachesPatch ==
  ASSUME TypeOK, NEW s \in Sessions, StartCheck(s) \/ StartAutopilot(s) \/ Thread(s),
         loop'[s].pc \in {"applying", "applied"}, loop'[s].mode = "manual_approval"
  PROVE  /\ loop'[s].cycle = loop[s].cycle /\ ~StartAutopilot(s) /\ approvals' = approvals
         /\ \/ loop[s].pc = "awaiting" /\ autopilot.approved_cycle = loop[s].cycle
            \/ loop[s].pc = "applying" /\ loop[s].mode = "manual_approval"
<1>1. loop \in [Sessions -> LoopState] /\ loop[s] \in LoopState
  BY DEF TypeOK
<1>2. /\ loop[s].pc \in {"patching", "awaiting", "applying"} /\ loop'[s].cycle = loop[s].cycle
  BY SessionPath
<1>3. approvals' = approvals
  BY SessionEffect
<1>4. CASE loop[s].pc = "patching"
  <2>1. GeneratePatch(s)
    BY <1>4 DEF StartCheck, StartAutopilot, Thread, LoopBegins, NextCycle, LaunchUat, WaitForUat, Judge, ReadReport,
                AwaitStop, AwaitApproval, AwaitTimeout, ApplyPatch, CloseCycle, EndRunning, EndSession
  <2>2. ASSUME NEW why, End(s, why) PROVE FALSE
    <3>1. loop'[s] = [loop[s] EXCEPT !.pc = "ending", !.reason = why]
      BY <1>1, <2>2 DEF End
    <3>2. loop'[s].pc = "ending"
      BY <1>1, <3>1 DEF LoopState
    <3> QED BY <3>2
  <2> DEFINE pc == CASE loop[s].mode = "advisory" -> "ending"
                     [] loop[s].mode = "apply" -> "applying"
                     [] loop[s].mode = "manual_approval" -> "awaiting"
             why == IF loop[s].mode = "advisory" THEN "advisory" ELSE loop[s].reason
  <2>3. loop'[s] = [loop[s] EXCEPT !.base = target, !.pc = pc, !.reason = why]
    BY <1>1, <2>1, <2>2 DEF GeneratePatch
  <2> HIDE DEF pc, why
  <2>4. loop'[s].pc = pc /\ loop'[s].mode = loop[s].mode
    BY <1>1, <2>3 DEF LoopState
  <2>5. loop[s].mode = "manual_approval" => pc = "awaiting"
    BY DEF pc
  <2> QED BY <2>4, <2>5
<1>5. CASE loop[s].pc = "awaiting"
  <2>1. AwaitApproval(s) \/ AwaitStop(s) \/ AwaitTimeout(s)
    BY <1>5 DEF StartCheck, StartAutopilot, Thread, LoopBegins, NextCycle, LaunchUat, WaitForUat, Judge, ReadReport,
                GeneratePatch, ApplyPatch, CloseCycle, EndRunning, EndSession
  <2>2. ASSUME NEW why, End(s, why) PROVE FALSE
    <3>1. loop'[s] = [loop[s] EXCEPT !.pc = "ending", !.reason = why]
      BY <1>1, <2>2 DEF End
    <3>2. loop'[s].pc = "ending"
      BY <1>1, <3>1 DEF LoopState
    <3> QED BY <3>2
  <2>3. AwaitApproval(s)
    BY <2>1, <2>2 DEF AwaitStop, AwaitTimeout
  <2> QED BY <1>2, <1>3, <1>5, <2>3 DEF AwaitApproval, StartAutopilot
<1>6. CASE loop[s].pc = "applying"
  <2>1. ApplyPatch(s)
    BY <1>6 DEF StartCheck, StartAutopilot, Thread, LoopBegins, NextCycle, LaunchUat, WaitForUat, Judge, ReadReport,
                GeneratePatch, AwaitStop, AwaitApproval, AwaitTimeout, CloseCycle, EndRunning, EndSession
  <2>2. loop'[s] = [loop[s] EXCEPT !.pc = "applied"]
    BY <1>1, <2>1 DEF ApplyPatch, Continue
  <2>3. loop'[s].mode = loop[s].mode
    BY <1>1, <2>2 DEF LoopState
  <2> QED BY <1>2, <1>3, <1>6, <2>3 DEF StartAutopilot
<1> QED BY <1>2, <1>4, <1>5, <1>6

\* A session that is alone only finds approvals of its own cycles.
LEMMA ApprovalsStep ==
  ASSUME TypeOK, Named, \A t \in Sessions : Judging(t), NEW s \in Sessions, OwnApprovals(s), [Next]_vars
  PROVE  OwnApprovals(s)'
<1>1. autopilot \in AutopilotState /\ loop \in [Sessions -> LoopState]
  BY DEF TypeOK
<1>2. ASSUME NEW t \in Sessions, t # s, StartCheck(t) \/ StartAutopilot(t) \/ Thread(t), Alone(s)'
      PROVE  Alone(s) /\ UNCHANGED <<autopilot, approvals, call>> /\ loop'[s] = loop[s]
  <2>1. \A u \in Sessions \ {t} : loop'[u] = loop[u]
    BY <1>2, SessionStep DEF Judging
  <2>2. loop'[t].pc \in {"idle", "checked"}
    BY <1>2 DEF Alone
  <2>3. StartCheck(t) /\ loop[t].pc = "idle"
    BY <1>2, <2>2, SessionPath
  <2>4. UNCHANGED <<autopilot, approvals, call>>
    BY <2>3 DEF StartCheck
  <2> QED BY <1>2, <2>1, <2>3, <2>4 DEF Alone
<1>3. ASSUME StartCheck(s) \/ StartAutopilot(s) \/ Thread(s) PROVE OwnApprovals(s)'
  <2> SUFFICES ASSUME Alone(s)'
               PROVE  /\ autopilot'.approval_token \in {NoSession, s}
                      /\ autopilot'.approved_cycle # 0
                           => [session |-> s, cycle |-> autopilot'.approved_cycle] \in approvals'
                      /\ \A c \in Calls : call'[c].pc = "approving" => call'[c].session = s
                      /\ loop'[s].mode = "manual_approval" /\ loop'[s].pc \in {"applying", "applied"}
                           => [session |-> s, cycle |-> loop'[s].cycle] \in approvals'
    BY DEF OwnApprovals
  <2>1. Alone(s)
    <3>1. \A t \in Sessions \ {s} : loop'[t] = loop[t]
      BY <1>3, SessionStep DEF Judging
    <3> QED BY <3>1 DEF Alone
  <2>2. UNCHANGED <<approvals, call>>
    BY <1>3, SessionEffect
  <2>3. \A c \in Calls : call'[c].pc = "approving" => call'[c].session = s
    BY <2>1, <2>2 DEF OwnApprovals
  <2>4. /\ autopilot'.approval_token \in {NoSession, s}
        /\ autopilot'.approved_cycle # 0
             => [session |-> s, cycle |-> autopilot'.approved_cycle] \in approvals'
    <3>1. CASE StartAutopilot(s)
      BY <3>1 DEF StartAutopilot
    <3>2. CASE ~StartAutopilot(s)
      <4>1. /\ autopilot'.approval_token = autopilot.approval_token
            /\ autopilot'.approved_cycle \in {autopilot.approved_cycle, 0}
        BY <1>1, <1>3, <3>2, SessionFlags DEF AutopilotState
      <4> QED BY <2>1, <2>2, <4>1 DEF OwnApprovals
    <3> QED BY <3>1, <3>2
  <2>5. ASSUME loop'[s].mode = "manual_approval", loop'[s].pc \in {"applying", "applied"}
        PROVE  [session |-> s, cycle |-> loop'[s].cycle] \in approvals'
    <3>1. /\ loop'[s].cycle = loop[s].cycle /\ approvals' = approvals
          /\ \/ loop[s].pc = "awaiting" /\ autopilot.approved_cycle = loop[s].cycle
             \/ loop[s].pc = "applying" /\ loop[s].mode = "manual_approval"
      BY <1>3, <2>5, ReachesPatch
    <3>2. CASE loop[s].pc = "awaiting" /\ autopilot.approved_cycle = loop[s].cycle
      <4>1. loop[s].cycle >= 1
        BY <3>2 DEF Judging, Launches, InCycle
      <4>2. autopilot.approved_cycle # 0
        BY <3>2, <4>1
      <4> QED BY <2>1, <3>1, <3>2, <4>2 DEF OwnApprovals
    <3>3. CASE loop[s].pc = "applying" /\ loop[s].mode = "manual_approval"
      BY <2>1, <3>1, <3>3 DEF OwnApprovals
    <3> QED BY <3>1, <3>2, <3>3
  <2> QED BY <2>3, <2>4, <2>5
<1>4. ASSUME NEW c \in Calls, RunStart(c) \/ RunStop(c) \/ StopAutopilot(c) \/ Approve(c) \/ ApplyByHand(c)
      PROVE  OwnApprovals(s)'
  <2>1. loop' = loop /\ \A d \in Calls \ {c} : call'[d] = call[d]
    BY <1>4, CallEffect, CallFlags
  <2> SUFFICES ASSUME Alone(s)
               PROVE  /\ autopilot'.approval_token \in {NoSession, s}
                      /\ autopilot'.approved_cycle # 0
                           => [session |-> s, cycle |-> autopilot'.approved_cycle] \in approvals'
                      /\ call'[c].pc = "approving" => call'[c].session = s
                      /\ approvals \subseteq approvals'
    BY <2>1 DEF OwnApprovals, Alone
  <2>2. /\ autopilot.approval_token \in {NoSession, s}
        /\ autopilot.approved_cycle # 0
             => [session |-> s, cycle |-> autopilot.approved_cycle] \in approvals
        /\ call[c].pc = "approving" => call[c].session = s
    BY DEF OwnApprovals
  <2>3. CASE UNCHANGED <<autopilot, approvals>>
    <3>1. call'[c].pc = "approving" => call'[c].session = s
      <4>1. CASE call'[c] = call[c]
        BY <2>2, <4>1
      <4>2. CASE call'[c].session = autopilot.approval_token /\ autopilot.approval_token \in Sessions
        BY <2>2, <4>2, NoSessionAssumption
      <4>3. CASE call[c].pc = "approving" /\ call'[c].pc = "idle"
        BY <4>3
      <4> QED BY <1>4, <4>1, <4>2, <4>3, CallFlags
    <3> QED BY <2>2, <2>3, <3>1
  <2>4. CASE /\ call[c].pc = "approving" /\ call'[c].pc = "idle"
             /\ autopilot' = [autopilot EXCEPT !.approved_cycle = call[c].cycle]
             /\ approvals' = approvals \cup {[session |-> call[c].session, cycle |-> call[c].cycle]}
    <3>1. /\ autopilot'.approval_token = autopilot.approval_token
          /\ autopilot'.approved_cycle = call[c].cycle
      BY <1>1, <2>4 DEF AutopilotState
    <3> QED BY <2>2, <2>4, <3>1
  <2> QED BY <1>4, <2>3, <2>4, CallFlags
<1>5. CASE (\E p \in DOMAIN procs : ProcessEnds(p)) \/ UNCHANGED vars
  BY <1>5 DEF ProcessEnds, vars, OwnApprovals, Alone
<1>6. ASSUME NEW t \in Sessions, t # s, StartCheck(t) \/ StartAutopilot(t) \/ Thread(t)
      PROVE  OwnApprovals(s)'
  BY <1>2, <1>6 DEF OwnApprovals
<1> QED BY <1>3, <1>4, <1>5, <1>6 DEF Next
-------------------------------------------------------------------------------
\* The invariant holds at the start: nothing runs and nobody was approved.
LEMMA AutopilotInit == Init => IInv
<1> SUFFICES ASSUME Init PROVE IInv
  OBVIOUS
<1>1. procs = <<>> /\ Len(procs) = 0 /\ DOMAIN procs = {} /\ procs \in Seq({"running", "zero", "bad"})
  BY EmptySeq DEF Init
<1>2. NoLoop \in LoopState /\ NoCall \in CallState
  BY DEF NoLoop, LoopState, NoCall, CallState, Kinds, Reasons
<1>3. autopilot \in AutopilotState
  BY DEF Init, AutopilotState
<1>4. \A s \in Sessions : loop[s].cycle = 0 /\ loop[s].max_cycles = 1 /\ loop[s].own = 0 /\ loop[s].judged = 0
                          /\ loop[s].pc = "idle"
  BY DEF Init, NoLoop
<1>5. TypeOK
  BY <1>1, <1>2, <1>3, <1>4 DEF Init, TypeOK
<1>6. Named /\ RunningIsBacked
  BY DEF Init, Named, NoCall, RunningIsBacked
<1>7. \A s \in Sessions : Launches(s) /\ OthersEnded(s) /\ Follows(s)
  BY <1>1, <1>4 DEF Launches, OthersEnded, Follows, InCycle
<1>8. \A s \in Sessions : OwnApprovals(s)
  BY <1>4 DEF Init, OwnApprovals, NoCall
<1> QED BY <1>1, <1>5, <1>6, <1>7, <1>8 DEF Init, IInv

\* Types, the flag, the judging and the approvals together, for any number of
\* sessions, callers and processes.
THEOREM AutopilotInvariant == Spec => []IInv
<1>1. IInv /\ [Next]_vars => IInv'
  <2> SUFFICES ASSUME IInv, [Next]_vars PROVE IInv'
    OBVIOUS
  <2>1. /\ TypeOK /\ Named /\ RunningIsBacked /\ runner.process = Len(procs)
        /\ \A s \in Sessions : Judging(s) /\ Launches(s) /\ OwnApprovals(s)
    BY DEF IInv, Judging
  <2>2. TypeOK'
    <3>1. CASE \E s \in Sessions : StartCheck(s) \/ StartAutopilot(s) \/ Thread(s)
      BY <2>1, <3>1, SessionTypes
    <3>2. CASE \E c \in Calls : RunStart(c) \/ RunStop(c) \/ StopAutopilot(c) \/ Approve(c) \/ ApplyByHand(c)
      BY <2>1, <3>2, CallTypes
    <3>3. CASE \E p \in DOMAIN procs : ProcessEnds(p)
      BY <2>1, <3>3, EndTypes
    <3>4. CASE UNCHANGED vars
      BY <2>1, <3>4 DEF vars, files, TypeOK
    <3> QED BY <3>1, <3>2, <3>3, <3>4 DEF Next
  <2>3. Named' /\ RunningIsBacked'
    BY <2>1, NamedStep, BackedStep
  <2>4. runner'.process = Len(procs') /\ \A s \in Sessions : Judging(s)'
    BY <2>1, JudgingStep
  <2>5. \A s \in Sessions : OwnApprovals(s)'
    BY <2>1, ApprovalsStep
  <2> QED BY <2>2, <2>3, <2>4, <2>5 DEF IInv, Judging
<1> QED BY AutopilotInit, <1>1, PTL DEF Spec

\* Cycles stay within the limit of their session, and stops and approvals name
\* sessions that exist.
THEOREM AutopilotTypeCorrect == Spec => []TypeOK
<1>1. IInv => TypeOK
  BY DEF IInv
<1> QED BY AutopilotInvariant, <1>1, PTL

\* However starts race, the running flag is only up while a thread that will
\* clear it is alive.
THEOREM RunningAlwaysBacked == Spec => []RunningIsBacked
<1>1. IInv => RunningIsBacked
  BY DEF IInv
<1> QED BY AutopilotInvariant, <1>1, PTL

\* A session that launched every process judges each cycle by its own report,
\* whatever terminates or outlives its runs.
THEOREM JudgedAlwaysOwn == Spec => []JudgedIsOwn
<1>1. IInv => JudgedIsOwn
  BY DEF IInv, JudgedIsOwn, Follows, Undisturbed, InCycle
<1> QED BY AutopilotInvariant, <1>1, PTL

\* A session that is alone applies no patch that was not approved for the cycle.
THEOREM AppliedAlwaysApproved == Spec => []AppliedIsApproved
<1>1. IInv => AppliedIsApproved
  BY DEF IInv, AppliedIsApproved, OwnApprovals
<1> QED BY AutopilotInvariant, <1>1, PTL
===============================================================================
