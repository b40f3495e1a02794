------------------------------ MODULE UatAutopilot ------------------------------
(***************************************************************************)
(* The UAT runner and its autopilot (api/v1/endpoints/uat.py): a child     *)
(* process that tests the API and leaves a report, a background thread     *)
(* that runs it cycle after cycle and patches the tester, and the calls    *)
(* that start, stop and approve.                                           *)
(*                                                                         *)
(* _RUNNER_STATE and _AUTOPILOT_STATE are dictionaries that the thread and *)
(* the handlers, which FastAPI runs in a pool of threads, read and write   *)
(* without a lock.  A step is what runs between two places where another   *)
(* thread's write changes the outcome.  The entries the code only shows    *)
(* (status, reason, history, times, files) are left out; why a loop ended  *)
(* is kept with the loop.  The file system is taken not to fail.           *)
(***************************************************************************)
EXTENDS Integers, Sequences, FiniteSets

CONSTANTS
  Sessions,    \* calls of POST /uat/phase2/autopilot/start, and their threads
  NoSession,
  Calls,       \* other calls, one at a time each
  Endpoints,   \* the endpoints Calls may use
  CycleCounts, \* the max_cycles a session may be started with
  Modes,       \* modes a session may have
  MaxProcs     \* bound: run/start is not called after so many processes

ASSUME NoSessionAssumption == NoSession \notin Sessions
ASSUME CycleCountsAssumption == CycleCounts \subseteq 1 .. 25
ASSUME MaxProcsAssumption == MaxProcs \in Nat
ASSUME ModesAssumption == Modes \subseteq {"advisory", "apply", "manual_approval"}
ASSUME EndpointsAssumption ==
  Endpoints \subseteq {"run_start", "run_stop", "autopilot_stop", "approve", "phase2_apply"}

VARIABLES
  target,     \* _request of agents/uat_enterprise_agent.py: no retries, v1 or v2
  procs,      \* the processes launched: running, or their exit code
  report,     \* the latest report: the process that wrote it and what it shows
  runner,     \* _RUNNER_STATE: the process and the exit code noted
  autopilot,  \* _AUTOPILOT_STATE
  stopped,    \* sessions whose stop event is set
  loop,       \* each session's call and thread
  call,       \* each call between its check and its write
  approvals   \* history: what was answered "Approval accepted"

files == <<target, report>>
vars == <<files, procs, runner, autopilot, stopped, loop, call, approvals>>

Kinds == {"industry_ready", "disconnects", "server_errors", "unsupported"}
NoLoop == [pc |-> "idle", mode |-> "advisory", max_cycles |-> 1, cycle |-> 0, event |-> NoSession,
           own |-> 0, judged |-> 0, kind |-> "unsupported", base |-> "v2",
           reason |-> "none"]
NoCall == [pc |-> "idle", session |-> NoSession, cycle |-> 0, base |-> "v2"]

Running == runner.process > 0 /\ procs[runner.process] = "running"

\* Poll the process, note its exit code.
_runner_status ==
  IF runner.process = 0 \/ Running THEN runner
  ELSE [runner EXCEPT !.exit_code = procs[runner.process]]

Launched == /\ procs' = Append(procs, "running")
            /\ runner' = [process |-> Len(procs) + 1, exit_code |-> "none"]

\* What a patch made from this text turns it into.
Patched(base) == IF base = "original" THEN "v1" ELSE "v2"

\* git apply --check refuses a patch made from another text.
_apply_generated_patch(base) ==
  target' = IF target = base THEN Patched(base) ELSE target

\* range(1, max_cycles + 1) is exhausted.
LastCycle(s) == loop[s].cycle >= loop[s].max_cycles

Continue(s, pc) == loop' = [loop EXCEPT ![s].pc = pc]
End(s, why) == loop' = [loop EXCEPT ![s].pc = "ending", ![s].reason = why]
Answered(c) == call' = [call EXCEPT ![c] = NoCall]

-------------------------------------------------------------------------------
\* Faulty variants of the definitions below.

\* an exception leaves the thread before it clears the flag
EndRunningUnlessFailed(s) ==
  /\ loop[s].pc = "ending"
  /\ autopilot' = [autopilot EXCEPT
       !.running = @ /\ loop[s].reason \in {"launch_failed", "no_baseline"}]
  /\ Continue(s, "closing")
  /\ UNCHANGED <<files, procs, runner, stopped, call, approvals>>

\* any approval releases the loop
AwaitAnyApproval(s) ==
  /\ loop[s].pc = "awaiting"
  /\ loop[s].event \notin stopped
  /\ autopilot.approved_cycle # 0
  /\ Continue(s, "applying")
  /\ UNCHANGED <<files, procs, runner, autopilot, stopped, call, approvals>>

\* the exit code is not looked at
JudgeAnyExit(s) ==
  /\ loop[s].pc = "finished"
  /\ runner' = _runner_status
  /\ Continue(s, "report")
  /\ UNCHANGED <<files, procs, autopilot, stopped, call, approvals>>

\* the stop event is looked at between cycles only
WaitForUatDeaf(s) ==
  /\ loop[s].pc = "waiting"
  /\ ~Running
  /\ runner' = _runner_status
  /\ Continue(s, "finished")
  /\ UNCHANGED <<files, procs, autopilot, stopped, call, approvals>>

-------------------------------------------------------------------------------
Init ==
  /\ target \in {"original", "v1"}                \* v1 is committed
  /\ procs = <<>>
  /\ report \in [by : {0}, kind : Kinds]            \* reports of earlier days
  /\ runner = [process |-> 0, exit_code |-> "none"]
  /\ autopilot = [running |-> FALSE, stop_event |-> NoSession, mode |-> "advisory",
                  approval_token |-> NoSession, approved_cycle |-> 0,
                  pending_cycle |-> 0]
  /\ stopped = {}
  /\ loop = [s \in Sessions |-> NoLoop]
  /\ call = [c \in Calls |-> NoCall]
  /\ approvals = {}

\* The tester succeeds and leaves a report; or fails, with or without a partial one.
ProcessEnds(p) ==
  /\ procs[p] = "running"
  /\ \/ /\ procs' = [procs EXCEPT ![p] = "zero"]
        /\ report' \in [by : {p}, kind : Kinds]
     \/ /\ procs' = [procs EXCEPT ![p] = "bad"]
        /\ report' \in [by : {p}, kind : Kinds] \cup {report}
  /\ UNCHANGED <<target, runner, autopilot, stopped, loop, call, approvals>>

-------------------------------------------------------------------------------
\* POST autopilot/start: 409 if one is running; then reset the state and start
\* the thread.
StartCheck(s) ==
  /\ loop[s].pc = "idle"
  /\ ~autopilot.running
  /\ \E mode \in Modes, max_cycles \in CycleCounts :
       loop' = [loop EXCEPT ![s].pc = "checked", ![s].mode = mode,
                            ![s].max_cycles = max_cycles]
  /\ UNCHANGED <<files, procs, runner, autopilot, stopped, call, approvals>>

StartAutopilot(s) ==
  /\ loop[s].pc = "checked"
  /\ autopilot' = [running |-> TRUE, stop_event |-> s, mode |-> loop[s].mode,
                   approval_token |-> IF loop[s].mode = "manual_approval"
                                      THEN s ELSE NoSession,
                   approved_cycle |-> 0, pending_cycle |-> 0]
  /\ Continue(s, "begun")
  /\ UNCHANGED <<files, procs, runner, stopped, call, approvals>>

\* The thread takes the stop event it finds.
LoopBegins(s) ==
  /\ loop[s].pc = "begun"
  /\ loop' = [loop EXCEPT ![s].pc = "cycle", ![s].event = autopilot.stop_event]
  /\ UNCHANGED <<files, procs, runner, autopilot, stopped, call, approvals>>

\* The head of a cycle, up to the check of _start_uat_process.
NextCycle(s) ==
  /\ loop[s].pc = "cycle"
  /\ \/ /\ LastCycle(s)
        /\ End(s, "max_cycles_reached")
        /\ UNCHANGED runner
     \/ /\ ~LastCycle(s)
        /\ loop[s].event \in stopped
        /\ End(s, "stopped_by_user")
        /\ UNCHANGED runner
     \/ /\ ~LastCycle(s)
        /\ loop[s].event \notin stopped
        /\ IF Running THEN End(s, "in_progress")
           ELSE loop' = [loop EXCEPT ![s].pc = "launch", ![s].cycle = @ + 1]
        /\ runner' = _runner_status
  /\ UNCHANGED <<files, procs, autopilot, stopped, call, approvals>>

\* Popen starts the tester, or raises.
LaunchUat(s) ==
  /\ loop[s].pc = "launch"
  /\ \/ /\ Launched
        /\ loop' = [loop EXCEPT ![s].pc = "waiting", ![s].own = Len(procs) + 1]
     \/ End(s, "launch_failed") /\ UNCHANGED <<procs, runner>>
  /\ UNCHANGED <<files, autopilot, stopped, call, approvals>>

WaitForUat(s) ==
  /\ loop[s].pc = "waiting"
  /\ \/ loop[s].event \in stopped /\ End(s, "stopped_by_user") /\ UNCHANGED runner
     \/ /\ loop[s].event \notin stopped /\ ~Running
        /\ Continue(s, "finished") /\ runner' = _runner_status
  /\ UNCHANGED <<files, procs, autopilot, stopped, call, approvals>>

\* The status is read again; no exit code counts as zero.
Judge(s) ==
  /\ loop[s].pc = "finished"
  /\ runner' = _runner_status
  /\ IF _runner_status.exit_code = "bad" THEN End(s, "uat_run_failed")
     ELSE Continue(s, "report")
  /\ UNCHANGED <<files, procs, autopilot, stopped, call, approvals>>

\* The latest report by modification time, whoever wrote it.
ReadReport(s) ==
  /\ loop[s].pc = "report"
  /\ loop' = [loop EXCEPT
       ![s].judged = report.by, ![s].kind = report.kind,
       ![s].pc = IF report.kind \in {"industry_ready", "unsupported"}
                 THEN "ending" ELSE "patching",
       ![s].reason = IF report.kind \in {"industry_ready", "unsupported"}
                     THEN report.kind ELSE @]
  /\ UNCHANGED <<files, procs, runner, autopilot, stopped, call, approvals>>

\* The recipe v1, then v2 if there were server errors: the first that is not
\* applied already.  Each looks for its own result, then for its baseline.
GeneratePatch(s) ==
  /\ loop[s].pc = "patching"
  /\ \/ /\ target = "v2"                      \* v1 finds neither: HTTP 409
        /\ End(s, "no_baseline")
        /\ UNCHANGED autopilot
     \/ /\ target = "v1" /\ loop[s].kind # "server_errors"
        /\ End(s, "already_applied")
        /\ UNCHANGED autopilot
     \/ /\ \/ target = "original"
           \/ target = "v1" /\ loop[s].kind = "server_errors"
        /\ autopilot' = [autopilot EXCEPT !.pending_cycle = loop[s].cycle]
        /\ loop' = [loop EXCEPT
             ![s].base = target,
             ![s].pc = CASE loop[s].mode = "advisory" -> "ending"
                         [] loop[s].mode = "apply" -> "applying"
                         [] loop[s].mode = "manual_approval" -> "awaiting",
             ![s].reason = IF loop[s].mode = "advisory" THEN "advisory" ELSE @]
  /\ UNCHANGED <<files, procs, runner, stopped, call, approvals>>

AwaitStop(s) ==
  /\ loop[s].pc = "awaiting"
  /\ loop[s].event \in stopped
  /\ End(s, "stopped_by_user")
  /\ UNCHANGED <<files, procs, runner, autopilot, stopped, call, approvals>>

AwaitApproval(s) ==
  /\ loop[s].pc = "awaiting"
  /\ loop[s].event \notin stopped
  /\ autopilot.approved_cycle = loop[s].cycle
  /\ Continue(s, "applying")
  /\ UNCHANGED <<files, procs, runner, autopilot, stopped, call, approvals>>

\* The deadline is looked at first: what came during the last sleep is not seen.
AwaitTimeout(s) ==
  /\ loop[s].pc = "awaiting"
  /\ End(s, "approval_timeout")
  /\ UNCHANGED <<files, procs, runner, autopilot, stopped, call, approvals>>

ApplyPatch(s) ==
  /\ loop[s].pc = "applying"
  /\ _apply_generated_patch(loop[s].base)
  /\ Continue(s, "applied")
  /\ UNCHANGED <<report, procs, runner, autopilot, stopped, call, approvals>>

CloseCycle(s) ==
  /\ loop[s].pc = "applied"
  /\ autopilot' = [autopilot EXCEPT !.approved_cycle = 0, !.pending_cycle = 0]
  /\ Continue(s, "cycle")
  /\ UNCHANGED <<files, procs, runner, stopped, call, approvals>>

\* The finally block: first the flag, then the rest.
EndRunning(s) ==
  /\ loop[s].pc = "ending"
  /\ autopilot' = [autopilot EXCEPT !.running = FALSE]
  /\ Continue(s, "closing")
  /\ UNCHANGED <<files, procs, runner, stopped, call, approvals>>

EndSession(s) ==
  /\ loop[s].pc = "closing"
  /\ autopilot' = [autopilot EXCEPT !.pending_cycle = 0]
  /\ Continue(s, "ended")
  /\ UNCHANGED <<files, procs, runner, stopped, call, approvals>>

-------------------------------------------------------------------------------
\* POST run/start.
RunStart(c) ==
  /\ \/ /\ call[c].pc = "idle" /\ "run_start" \in Endpoints
        /\ ~Running
        /\ Len(procs) < MaxProcs
        /\ runner' = _runner_status
        /\ call' = [call EXCEPT ![c].pc = "launch"]
        /\ UNCHANGED procs
     \/ /\ call[c].pc = "launch"
        /\ Launched \/ UNCHANGED <<procs, runner>>
        /\ Answered(c)
  /\ UNCHANGED <<files, autopilot, stopped, loop, approvals>>

\* POST run/stop terminates or kills the process and notes how it ended.
RunStop(c) ==
  /\ call[c].pc = "idle" /\ "run_stop" \in Endpoints
  /\ Running
  /\ procs' = [procs EXCEPT ![runner.process] = "bad"]
  /\ runner' = [runner EXCEPT !.exit_code = "bad"]
  /\ UNCHANGED <<files, autopilot, stopped, loop, call, approvals>>

\* POST autopilot/stop.
StopAutopilot(c) ==
  /\ \/ /\ call[c].pc = "idle" /\ "autopilot_stop" \in Endpoints
        /\ autopilot.running
        /\ call' = [call EXCEPT ![c].pc = "stopping"]
        /\ UNCHANGED stopped
     \/ /\ call[c].pc = "stopping"
        /\ stopped' = stopped \cup {autopilot.stop_event}
        /\ Answered(c)
  /\ UNCHANGED <<files, procs, runner, autopilot, loop, approvals>>

\* POST autopilot/approve, with the token of the session and the pending cycle.
Approve(c) ==
  /\ \/ /\ call[c].pc = "idle" /\ "approve" \in Endpoints
        /\ autopilot.running
        /\ autopilot.mode = "manual_approval"
        /\ autopilot.pending_cycle > 0
        /\ call' = [call EXCEPT ![c].pc = "approving",
                                ![c].session = autopilot.approval_token,
                                ![c].cycle = autopilot.pending_cycle]
        /\ UNCHANGED <<autopilot, approvals>>
     \/ /\ call[c].pc = "approving"
        /\ autopilot' = [autopilot EXCEPT !.approved_cycle = call[c].cycle]
        /\ approvals' = approvals \cup {[session |-> call[c].session,
                                         cycle |-> call[c].cycle]}
        /\ Answered(c)
  /\ UNCHANGED <<files, procs, runner, stopped, loop>>

\* POST phase2/patch, then phase2/apply with confirm.
ApplyByHand(c) ==
  /\ \/ /\ call[c].pc = "idle" /\ "phase2_apply" \in Endpoints
        /\ target # "v2"
        /\ call' = [call EXCEPT ![c].pc = "apply", ![c].base = target]
        /\ UNCHANGED target
     \/ /\ call[c].pc = "apply"
        /\ _apply_generated_patch(call[c].base)
        /\ Answered(c)
  /\ UNCHANGED <<report, procs, runner, autopilot, stopped, loop, approvals>>

-------------------------------------------------------------------------------
\* The thread: everything after the call that started it.
Thread(s) ==
  \/ LoopBegins(s) \/ NextCycle(s) \/ LaunchUat(s) \/ WaitForUat(s)
  \/ Judge(s) \/ ReadReport(s) \/ GeneratePatch(s)
  \/ AwaitStop(s) \/ AwaitApproval(s) \/ AwaitTimeout(s)
  \/ ApplyPatch(s) \/ CloseCycle(s) \/ EndRunning(s) \/ EndSession(s)

Next ==
  \/ \E s \in Sessions : StartCheck(s) \/ StartAutopilot(s) \/ Thread(s)
  \/ \E c \in Calls : \/ RunStart(c) \/ RunStop(c) \/ StopAutopilot(c)
                      \/ Approve(c) \/ ApplyByHand(c)
  \/ \E p \in DOMAIN procs : ProcessEnds(p)

Spec == Init /\ [][Next]_vars

\* The thread is scheduled; whether the tester ever ends is not assumed.
FairSpec == Spec /\ \A s \in Sessions : WF_vars(Thread(s))

-------------------------------------------------------------------------------
Active == {s \in Sessions : loop[s].pc \notin {"idle", "checked", "closing", "ended"}}

Reasons == {"none", "max_cycles_reached", "stopped_by_user", "in_progress", "launch_failed", "uat_run_failed",
            "industry_ready", "unsupported", "no_baseline", "already_applied", "advisory", "approval_timeout"}
LoopState ==
  [pc : {"idle", "checked", "begun", "cycle", "launch", "waiting", "finished", "report", "patching",
         "awaiting", "applying", "applied", "ending", "closing", "ended"},
   mode : Modes \cup {"advisory"}, max_cycles : 1 .. 25, cycle : 0 .. 25,
   event : Sessions \cup {NoSession}, own : Nat, judged : Nat, kind : Kinds,
   base : {"original", "v1", "v2"}, reason : Reasons]
AutopilotState ==
  [running : BOOLEAN, stop_event : Sessions \cup {NoSession}, mode : Modes \cup {"advisory"},
   approval_token : Sessions \cup {NoSession}, approved_cycle : 0 .. 25, pending_cycle : 0 .. 25]
CallState == [pc : {"idle", "launch", "stopping", "approving", "apply"},
              session : Sessions \cup {NoSession}, cycle : 0 .. 25, base : {"original", "v1", "v2"}]

\* Cycles stay within the session's limit, reports are of processes that were
\* launched, and only sessions that exist are stopped or approved.
TypeOK ==
  /\ target \in {"original", "v1", "v2"}
  /\ procs \in Seq({"running", "zero", "bad"})
  /\ report \in [by : 0 .. Len(procs), kind : Kinds]
  /\ runner \in [process : 0 .. Len(procs), exit_code : {"none", "zero", "bad"}]
  /\ autopilot \in AutopilotState
  /\ stopped \subseteq Sessions
  /\ loop \in [Sessions -> LoopState]
  /\ \A s \in Sessions : /\ loop[s].cycle <= loop[s].max_cycles
                         /\ loop[s].own <= Len(procs) /\ loop[s].judged <= Len(procs)
  /\ call \in [Calls -> CallState]
  /\ approvals \subseteq [session : Sessions, cycle : 1 .. 25]

\* No other session was ever started.
Alone(s) == \A t \in Sessions \ {s} : loop[t].pc \in {"idle", "checked"}

\* While no other session interferes, in manual_approval mode a patch is applied
\* only in a cycle that somebody approved, whatever late or repeated approvals of
\* other cycles do.
AppliedIsApproved ==
  \A s \in Sessions :
    Alone(s) /\ loop[s].mode = "manual_approval" /\ loop[s].pc \in {"applying", "applied"}
      => [session |-> s, cycle |-> loop[s].cycle] \in approvals

\* While nobody else starts a run (every process launched is of a cycle of this
\* session) a cycle is judged by the report of its own run, never an older one.
JudgedIsOwn ==
  \A s \in Sessions :
    /\ loop[s].pc \in {"patching", "awaiting", "applying", "applied"}
    /\ Len(procs) = loop[s].cycle
    => loop[s].judged = loop[s].own

\* The flag that refuses a start always has a thread that will clear it.
RunningIsBacked == autopilot.running => Active # {}

\* A session that is told to stop ends, although its tester hangs, if its thread
\* found its own event and not that of a session started meanwhile.
StopEnds ==
  \A s \in Sessions : s \in stopped /\ loop[s].event = s ~> loop[s].pc = "ended"

\* A target that is patched already is no reason to fail.
PatchedIsNoOp ==
  \A s \in Sessions : loop[s].reason = "no_baseline" => target \notin {"v1", "v2"}

===============================================================================
