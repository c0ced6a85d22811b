----------------------------- MODULE SocketUnit -----------------------------
(***************************************************************************)
(* The socket unit of the InitWare service manager                         *)
(* (src/cmd/manager/socket.c): its state machine, its control child, its  *)
(* timer, its listening endpoints and the paired service it triggers.      *)
(*                                                                         *)
(* Every handler of the unit (start, stop, fd event, SIGCHLD, timer,       *)
(* trigger notification, reset-failed) runs to completion on the          *)
(* manager's single event loop, so one handler is one step.  A handler is *)
(* a chain of socket_enter_* calls; each socket_enter_* function is       *)
(* modelled as an operator from a Socket record to the SET of records it  *)
(* can produce, one per outcome of the system calls it makes (fork,       *)
(* watch, open, kill).  Nothing of the C struct is left to a later step.  *)
(***************************************************************************)
EXTENDS Naturals, FiniteSets

CONSTANTS
    NPorts,        \* number of Listen*= entries of the unit (s->ports)
    MaxCommands,   \* longest ExecStartPre=/... list in a configuration
    MaxProcs,      \* pids available to the unit's helpers (fork fails beyond)
    Configs        \* the unit files the model loads, one per behaviour

ASSUME NPortsAssumption == NPorts \in Nat \ {0}
ASSUME MaxCommandsAssumption == MaxCommands \in Nat
ASSUME MaxProcsAssumption == MaxProcs \in Nat \ {0}

Ports == 1..NPorts
Pids == 1..MaxProcs
NoPid == 0

\* socket_state_table
States == {"dead", "start-pre", "start-chown", "start-post", "listening",
           "running", "stop-pre", "stop-pre-sigterm", "stop-pre-sigkill",
           "stop-post", "final-sigterm", "final-sigkill", "failed"}

\* socket_result_table
Results == {"success", "resources", "timeout", "exit-code", "signal",
            "core-dump", "service-failed-permanent"}

\* socket_exec_command_table; "invalid" is _SOCKET_EXEC_COMMAND_INVALID
ExecIds == {"StartPre", "StartChown", "StartPost", "StopPre", "StopPost"}

\* SocketPort types: SOCKET_SOCKET split by whether accept() applies
PortKinds == {"stream", "dgram", "fifo", "special", "mqueue"}
SocketKinds == {"stream", "dgram"}

\* The states in which socket_set_state keeps the timer and control pid.
Transient == {"start-pre", "start-chown", "start-post", "stop-pre",
              "stop-pre-sigterm", "stop-pre-sigkill", "stop-post",
              "final-sigterm", "final-sigkill"}

\* The states in which socket_set_state keeps the fds open.
OpenStates == {"start-chown", "start-post", "listening", "running",
               "stop-pre", "stop-pre-sigterm", "stop-pre-sigkill"}

\* The states of the paired service that socket_trigger_notify tells apart.
SvcStates == {"dead", "activating", "running", "failed"}

(***************************************************************************)
(* The configuration of a loaded unit (immutable after socket_load):      *)
(* exec[id] is the length of the ExecX= list, ignore[id] the "-" prefix   *)
(* of its commands, owner whether SocketUser=/SocketGroup= is set.        *)
(***************************************************************************)
ConfigT == [exec: [ExecIds -> 0..MaxCommands], ignore: [ExecIds -> BOOLEAN],
            owner: BOOLEAN, accept: BOOLEAN, sendSigkill: BOOLEAN,
            killMode: {"control-group", "process"}, kind: [Ports -> PortKinds]]

ASSUME ConfigsAssumption ==
    /\ Configs \subseteq ConfigT
    /\ \A c \in Configs : c.exec["StartChown"] = 0

\* The runtime part of struct Socket, plus the helper processes it forked.
SocketT == [state: States, result: Results, controlPid: Pids \cup {NoPid},
            controlCommandId: ExecIds \cup {"invalid"},
            controlCommand: 0..MaxCommands, timer: BOOLEAN,
            fds: [Ports -> BOOLEAN], watched: [Ports -> BOOLEAN],
            procs: SUBSET Pids]

VARIABLES
    cfg,          \* the loaded unit file
    s,            \* the Socket record
    stopPending,  \* a stop job is installed for the unit (unit_stop_pending)
    svc,          \* state of the service the socket triggers
    svcJob        \* a start job is installed for that service

vars == <<cfg, s, stopPending, svc, svcJob>>

NoPorts == [p \in Ports |-> FALSE]
AllPorts == [p \in Ports |-> TRUE]

(***************************************************************************)
(* socket_verify: the load-time checks (the PAM check is not modelled).   *)
(***************************************************************************)
SocketVerify(c) ==
    /\ c.accept => \A p \in Ports : c.kind[p] = "stream"

(***************************************************************************)
(* socket_set_state: leaving the transient states drops timer, control    *)
(* pid and command cursor; leaving listening drops the fd watches;        *)
(* leaving OpenStates closes the fds.                                     *)
(***************************************************************************)
SetState(u, st) ==
    [u EXCEPT !.state = st,
              !.timer = u.timer /\ st \in Transient,
              !.controlPid = IF st \in Transient THEN u.controlPid ELSE NoPid,
              !.controlCommandId = IF st \in Transient THEN u.controlCommandId
                                                            ELSE "invalid",
              !.controlCommand = IF st \in Transient THEN u.controlCommand ELSE 0,
              !.watched = IF st = "listening" THEN u.watched ELSE NoPorts,
              !.fds = IF st \in OpenStates THEN u.fds ELSE NoPorts]

\* "if (f != SOCKET_SUCCESS) s->result = f;" at the top of every enter_*.
Latch(u, f) == IF f # "success" THEN [u EXCEPT !.result = f] ELSE u

FreePids(u) == Pids \ u.procs

(***************************************************************************)
(* socket_spawn: arm the timer, exec_spawn, watch the pid.  Fork fails    *)
(* when no pid is free; unit_watch_pid may fail after the fork, leaving   *)
(* an untracked child.  Both failures unwatch the timer.                  *)
(***************************************************************************)
SpawnOk(u) ==
    {[u EXCEPT !.timer = TRUE, !.controlPid = p, !.procs = u.procs \cup {p}] :
        p \in FreePids(u)}
SpawnFail(u) ==
    {[u EXCEPT !.timer = FALSE]} \cup
    {[u EXCEPT !.timer = FALSE, !.procs = u.procs \cup {p}] : p \in FreePids(u)}

(***************************************************************************)
(* socket_chown: fork a helper; no timer is armed.                        *)
(***************************************************************************)
ChownOk(u) ==
    {[u EXCEPT !.controlPid = p, !.procs = u.procs \cup {p}] : p \in FreePids(u)}
ChownFail(u) ==
    {u} \cup {[u EXCEPT !.procs = u.procs \cup {p}] : p \in FreePids(u)}

(***************************************************************************)
(* unit_kill_context: what it signals, and so whether it reports          *)
(* processes to wait for (> 0) or none (0); it may also fail (< 0).       *)
(***************************************************************************)
Killable(u) ==
    IF cfg.killMode = "control-group" THEN u.procs
    ELSE {u.controlPid} \cap u.procs

\* Mutant: socket_enter_signal waits without unit_watch_timer.
SignalWaitNoTimer(u, st) ==
    IF Killable(u) # {} THEN {SetState(u, st)} ELSE {}

\* Outcomes of socket_enter_signal that stay in state st and wait.
SignalWait(u, st) ==
    IF Killable(u) # {} THEN {SetState([u EXCEPT !.timer = TRUE], st)} ELSE {}
\* Outcomes of kill reporting r = 0 (TRUE) or r < 0 (FALSE).
KillDone(u) == IF Killable(u) = {} THEN {TRUE, FALSE} ELSE {FALSE}

(***************************************************************************)
(* The prologue of every enter_* that runs a command list:                *)
(* unwatch_control_pid, control_command_id = id, control_command =        *)
(* exec_command[id] (the list head, 0 for an empty list).                 *)
(***************************************************************************)
BeginCommandList(u, id) ==
    [u EXCEPT !.controlPid = NoPid,
              !.controlCommandId = id,
              !.controlCommand = IF cfg.exec[id] > 0 THEN 1 ELSE 0]

(***************************************************************************)
(* socket_enter_dead                                                      *)
(***************************************************************************)
EnterDead(u, f) ==
    LET v == Latch(u, f)
    IN  {SetState(v, IF v.result # "success" THEN "failed" ELSE "dead")}

(***************************************************************************)
(* socket_enter_signal for the FINAL_* states: wait, or go dead.          *)
(***************************************************************************)
EnterSignalFinal(u, st, f) ==
    LET v == Latch(u, f)
    IN  SignalWait(v, st) \cup
        UNION {EnterDead(v, IF ok THEN "success" ELSE "resources") :
                  ok \in KillDone(v)}

(***************************************************************************)
(* socket_enter_stop_post                                                 *)
(***************************************************************************)
EnterStopPost(u, f) ==
    LET v == BeginCommandList(Latch(u, f), "StopPost")
    IN  IF v.controlCommand # 0
        THEN {SetState(w, "stop-post") : w \in SpawnOk(v)} \cup
             UNION {EnterSignalFinal(w, "final-sigterm", "resources") :
                       w \in SpawnFail(v)}
        ELSE EnterSignalFinal(v, "final-sigterm", "success")

(***************************************************************************)
(* socket_enter_signal for the STOP_PRE_* states: wait, or stop-post.     *)
(***************************************************************************)
EnterSignalStopPre(u, st, f) ==
    LET v == Latch(u, f)
    IN  SignalWait(v, st) \cup
        UNION {EnterStopPost(v, IF ok THEN "success" ELSE "resources") :
                  ok \in KillDone(v)}

(***************************************************************************)
(* socket_enter_stop_pre                                                  *)
(***************************************************************************)
EnterStopPre(u, f) ==
    LET v == BeginCommandList(Latch(u, f), "StopPre")
    IN  IF v.controlCommand # 0
        THEN {SetState(w, "stop-pre") : w \in SpawnOk(v)} \cup
             UNION {EnterStopPost(w, "resources") : w \in SpawnFail(v)}
        ELSE EnterStopPost(v, "success")

(***************************************************************************)
(* socket_enter_listening: socket_watch_fds watches every open fd, and on *)
(* a failure unwatches them all again.                                    *)
(***************************************************************************)
EnterListening(u) ==
    {SetState([u EXCEPT !.watched = u.fds], "listening")} \cup
    EnterStopPre([u EXCEPT !.watched = NoPorts], "resources")

(***************************************************************************)
(* socket_enter_start_post                                                *)
(***************************************************************************)
EnterStartPost(u) ==
    LET v == BeginCommandList(u, "StartPost")
    IN  IF v.controlCommand # 0
        THEN {SetState(w, "start-post") : w \in SpawnOk(v)} \cup
             UNION {EnterStopPre(w, "resources") : w \in SpawnFail(v)}
        ELSE EnterListening(v)

(***************************************************************************)
(* socket_open_fds: open every closed port in list order.  A failed open  *)
(* rolls back with socket_close_fds, which closes every open port.  At    *)
(* the first closed socket port the service is instantiated and its exec  *)
(* label read; a failure there returns without the rollback, leaving the  *)
(* ports opened before it open.                                           *)
(***************************************************************************)
ClosedPorts(u) == {p \in Ports : ~u.fds[p]}
\* The fds after opening, in order, the closed ports before the first
\* closed socket port.
OpenedBefore(u) ==
    [p \in Ports |-> u.fds[p] \/
        \A q \in ClosedPorts(u) : cfg.kind[q] \in SocketKinds => p < q]
OpenOk(u) == [u EXCEPT !.fds = AllPorts]
OpenFail(u) ==
    (IF ClosedPorts(u) # {}
     THEN {[u EXCEPT !.fds = NoPorts, !.watched = NoPorts]} ELSE {}) \cup
    (IF \E p \in ClosedPorts(u) : cfg.kind[p] \in SocketKinds
     THEN {[u EXCEPT !.fds = OpenedBefore(u)]}
     ELSE {})

(***************************************************************************)
(* socket_enter_start_chown                                               *)
(***************************************************************************)
EnterStartChown(u) ==
    LET v == [OpenOk(u) EXCEPT !.controlPid = NoPid,
                               !.controlCommandId = "StartChown",
                               !.controlCommand = 0]
    IN  (UNION {EnterStopPre(w, "resources") : w \in OpenFail(u)}) \cup
        IF cfg.owner
        THEN {SetState(w, "start-chown") : w \in ChownOk(v)} \cup
             UNION {EnterStopPre(w, "resources") : w \in ChownFail(v)}
        ELSE EnterStartPost(OpenOk(u))

(***************************************************************************)
(* socket_enter_start_pre                                                 *)
(***************************************************************************)
EnterStartPre(u) ==
    LET v == BeginCommandList(u, "StartPre")
    IN  IF v.controlCommand # 0
        THEN {SetState(w, "start-pre") : w \in SpawnOk(v)} \cup
             UNION {EnterDead(w, "resources") : w \in SpawnFail(v)}
        ELSE EnterStartChown(v)

(***************************************************************************)
(* socket_run_next: spawn the next command of the current list, in the    *)
(* same state; on failure leave by the state's failure exit.              *)
(***************************************************************************)
RunNextFail(u) ==
    IF u.state = "start-post" THEN EnterStopPre(u, "resources")
    ELSE IF u.state = "stop-post" THEN EnterDead(u, "resources")
    ELSE EnterSignalFinal(u, "final-sigterm", "resources")
\* Mutant: a failed spawn of the next command is not taken to the failure
\* exit of socket_run_next.
RunNextIgnoresSpawnFailure(u) ==
    LET v == [u EXCEPT !.controlPid = NoPid,
                       !.controlCommand = u.controlCommand + 1]
    IN  SpawnOk(v) \cup SpawnFail(v)
RunNext(u) ==
    LET v == [u EXCEPT !.controlPid = NoPid,
                       !.controlCommand = u.controlCommand + 1]
    IN  SpawnOk(v) \cup UNION {RunNextFail(w) : w \in SpawnFail(v)}

(***************************************************************************)
(* socket_sigchld_event, after the exit has been classified as f: the      *)
(* "final SIGCHLD" dispatch on the state the child was run for.           *)
(***************************************************************************)
ChildDone(u, f) ==
    LET v == [u EXCEPT !.controlCommandId = "invalid", !.controlCommand = 0]
    IN  CASE u.state = "start-pre" ->
                 IF f = "success" THEN EnterStartChown(v)
                 ELSE EnterSignalFinal(v, "final-sigterm", f)
          [] u.state = "start-chown" ->
                 IF f = "success" THEN EnterStartPost(v) ELSE EnterStopPre(v, f)
          [] u.state = "start-post" ->
                 IF f = "success" THEN EnterListening(v) ELSE EnterStopPre(v, f)
          [] u.state \in {"stop-pre", "stop-pre-sigterm", "stop-pre-sigkill"} ->
                 EnterStopPost(v, f)
          [] OTHER -> EnterDead(v, f)

\* Mutant: a CLD_TRAPPED/CLD_STOPPED report is classified as an exit.
ExitResultsWithTrapped ==
    {"success", "exit-code", "signal", "core-dump", "trapped"}

\* Exit classification of is_clean_exit and the CLD_* codes.
ExitResults == {"success", "exit-code", "signal", "core-dump"}

\* Mutant: final-sigkill timing out sends SIGKILL again instead of giving up.
TimerDoneRetriesKill(u) ==
    CASE u.state = "start-pre" ->
             EnterSignalFinal(u, "final-sigterm", "timeout")
      [] u.state \in {"start-chown", "start-post"} ->
             EnterStopPre(u, "timeout")
      [] u.state = "stop-pre" ->
             EnterSignalStopPre(u, "stop-pre-sigterm", "timeout")
      [] u.state = "stop-pre-sigterm" ->
             IF cfg.sendSigkill
             THEN EnterSignalStopPre(u, "stop-pre-sigkill", "timeout")
             ELSE EnterStopPost(u, "timeout")
      [] u.state = "stop-pre-sigkill" ->
             EnterStopPost(u, "timeout")
      [] u.state = "stop-post" ->
             EnterSignalFinal(u, "final-sigterm", "timeout")
      [] u.state = "final-sigterm" ->
             IF cfg.sendSigkill
             THEN EnterSignalFinal(u, "final-sigkill", "timeout")
             ELSE EnterDead(u, "timeout")
      [] OTHER -> EnterSignalFinal(u, "final-sigkill", "timeout")

(***************************************************************************)
(* socket_timer_event                                                     *)
(***************************************************************************)
TimerDone(u) ==
    CASE u.state = "start-pre" ->
             EnterSignalFinal(u, "final-sigterm", "timeout")
      [] u.state \in {"start-chown", "start-post"} ->
             EnterStopPre(u, "timeout")
      [] u.state = "stop-pre" ->
             EnterSignalStopPre(u, "stop-pre-sigterm", "timeout")
      [] u.state = "stop-pre-sigterm" ->
             IF cfg.sendSigkill
             THEN EnterSignalStopPre(u, "stop-pre-sigkill", "timeout")
             ELSE EnterStopPost(u, "timeout")
      [] u.state = "stop-pre-sigkill" ->
             EnterStopPost(u, "timeout")
      [] u.state = "stop-post" ->
             EnterSignalFinal(u, "final-sigterm", "timeout")
      [] u.state = "final-sigterm" ->
             IF cfg.sendSigkill
             THEN EnterSignalFinal(u, "final-sigkill", "timeout")
             ELSE EnterDead(u, "timeout")
      [] OTHER -> EnterDead(u, "timeout")

(***************************************************************************)
(* socket_notify_service_dead                                             *)
(***************************************************************************)
NotifyServiceDead(u, failedPermanent) ==
    IF u.state # "running" THEN {u}
    ELSE IF failedPermanent
         THEN EnterStopPre(u, "service-failed-permanent")
         ELSE EnterListening(u)

\* Mutant: the notification is applied whatever state the socket is in.
TriggerNotifyUnguarded(u, st, failedPermanent) ==
    IF cfg.accept THEN {u}
    ELSE CASE st = "failed"  -> NotifyServiceDead(u, failedPermanent)
           [] st = "dead"    -> NotifyServiceDead(u, FALSE)
           [] st = "running" -> {SetState(u, "running")}
           [] OTHER          -> {u}

(***************************************************************************)
(* socket_trigger_notify: the service moved to state st.  Accepting       *)
(* sockets, and sockets neither listening nor running, ignore it.         *)
(***************************************************************************)
TriggerNotify(u, st, failedPermanent) ==
    IF u.state \notin {"running", "listening"} \/ cfg.accept THEN {u}
    ELSE CASE st = "failed"  -> NotifyServiceDead(u, failedPermanent)
           [] st = "dead"    -> NotifyServiceDead(u, FALSE)
           [] st = "running" -> {SetState(u, "running")}
           [] OTHER          -> {u}

-----------------------------------------------------------------------------
(***************************************************************************)
(* The handlers.                                                          *)
(***************************************************************************)

\* A freshly loaded unit: socket_init, no fd open, no child.
InitSocket ==
    [state |-> "dead", result |-> "success", controlPid |-> NoPid,
     controlCommandId |-> "invalid", controlCommand |-> 0, timer |-> FALSE,
     fds |-> NoPorts, watched |-> NoPorts, procs |-> {}]

Init ==
    /\ cfg \in {c \in Configs : SocketVerify(c)}
    /\ s = InitSocket
    /\ stopPending = FALSE
    /\ svc = "dead"
    /\ svcJob = FALSE

(***************************************************************************)
(* socket_start, run by the start job.  The start job replaces a pending  *)
(* stop job.  Refused (no change) while the service is active.            *)
(***************************************************************************)
\* Mutant: socket_start without "s->result = SOCKET_SUCCESS".
StartKeepsResult ==
    /\ s.state \in {"dead", "failed"}
    /\ svc \in {"dead", "failed"}
    /\ s' \in EnterStartPre(s)
    /\ stopPending' = FALSE
    /\ UNCHANGED <<cfg, svc, svcJob>>

Start ==
    /\ s.state \in {"dead", "failed"}
    /\ svc \in {"dead", "failed"}
    /\ s' \in EnterStartPre([s EXCEPT !.result = "success"])
    /\ stopPending' = FALSE
    /\ UNCHANGED <<cfg, svc, svcJob>>

\* The manager installs a stop job for the unit (systemctl stop, a conflict).
QueueStop ==
    /\ ~stopPending
    /\ s.state \notin {"dead", "failed"}
    /\ stopPending' = TRUE
    /\ UNCHANGED <<cfg, s, svc, svcJob>>

\* The stop job is cancelled or replaced before it runs.
CancelStop ==
    /\ stopPending
    /\ stopPending' = FALSE
    /\ UNCHANGED <<cfg, s, svc, svcJob>>

(***************************************************************************)
(* socket_stop, run by the stop job: a start in progress is killed, an    *)
(* active socket runs its stop path, a stopping one is left alone.        *)
(***************************************************************************)
Stop ==
    /\ stopPending
    /\ stopPending' = FALSE
    /\ \/ /\ s.state \in {"start-pre", "start-chown", "start-post"}
          /\ s' \in EnterSignalStopPre(s, "stop-pre-sigterm", "success")
       \/ /\ s.state \in {"listening", "running"}
          /\ s' \in EnterStopPre(s, "success")
       \/ /\ s.state \notin {"start-pre", "start-chown", "start-post",
                             "listening", "running"}
          /\ UNCHANGED s
    /\ UNCHANGED <<cfg, svc, svcJob>>

\* Mutant: the drain closes the fds without unit_unwatch_fd.
FdEventDrainKeepsWatch ==
    /\ s.state = "listening"
    /\ \E p \in Ports : s.watched[p]
    /\ \/ /\ stopPending
          /\ s' = [s EXCEPT !.fds = NoPorts]
          /\ UNCHANGED svcJob
       \/ /\ ~stopPending
          /\ svcJob \/ svc \in {"activating", "running"}
          /\ s' = SetState(s, "running")
          /\ UNCHANGED svcJob
       \/ /\ ~stopPending
          /\ ~(svcJob \/ svc \in {"activating", "running"})
          /\ \/ /\ s' = SetState(s, "running")
                /\ svcJob' = TRUE
             \/ /\ s' \in EnterStopPre(s, "resources")
                /\ UNCHANGED svcJob
    /\ UNCHANGED <<cfg, stopPending, svc>>

(***************************************************************************)
(* socket_fd_event with EV_READ on a watched fd, then socket_enter_running *)
(* with cfd = -1: the accept() loop is compiled out ("#if 0 FIXME: libev") *)
(* so every socket takes the non-accepting path.  With a stop job pending  *)
(* the ports are closed and (vacuously) re-watched; otherwise the service *)
(* gets a start job unless it is active or pending, and the unit runs.    *)
(***************************************************************************)
FdEvent ==
    /\ s.state = "listening"
    /\ \E p \in Ports : s.watched[p]
    /\ \/ /\ stopPending
          /\ s' = [s EXCEPT !.fds = NoPorts, !.watched = NoPorts]
          /\ UNCHANGED svcJob
       \/ /\ ~stopPending
          /\ svcJob \/ svc \in {"activating", "running"}
          /\ s' = SetState(s, "running")
          /\ UNCHANGED svcJob
       \/ /\ ~stopPending
          /\ ~(svcJob \/ svc \in {"activating", "running"})
          /\ \/ /\ s' = SetState(s, "running")
                /\ svcJob' = TRUE
             \/ /\ s' \in EnterStopPre(s, "resources")
                /\ UNCHANGED svcJob
    /\ UNCHANGED <<cfg, stopPending, svc>>

\* socket_fd_event with revents other than EV_READ.
FdError ==
    /\ s.state = "listening"
    /\ \E p \in Ports : s.watched[p]
    /\ s' \in EnterStopPre(s, "resources")
    /\ UNCHANGED <<cfg, stopPending, svc, svcJob>>

\* Mutant: "<=" for "<": the cursor runs one past the end of the list.
ChildExitRunsPastList(p) ==
    /\ p \in s.procs
    /\ \/ /\ p # s.controlPid
          /\ s' = [s EXCEPT !.procs = s.procs \ {p}]
       \/ /\ p = s.controlPid
          /\ \E code \in ExitResults :
               LET f == IF s.controlCommand # 0 /\ cfg.ignore[s.controlCommandId]
                        THEN "success" ELSE code
                   v == Latch([s EXCEPT !.controlPid = NoPid,
                                        !.procs = s.procs \ {p}], f)
               IN  IF /\ s.controlCommand # 0
                      /\ s.controlCommand <= cfg.exec[s.controlCommandId]
                      /\ f = "success"
                   THEN s' \in RunNext(v)
                   ELSE s' \in ChildDone(v, f)
    /\ UNCHANGED <<cfg, stopPending, svc, svcJob>>

(***************************************************************************)
(* A helper process p exits and is reaped.  If it is the control pid,     *)
(* socket_sigchld_event runs: classify the exit, apply the ignore flag,   *)
(* latch a failure, then run the next command or dispatch on the state.   *)
(* Other pids are no longer watched by the unit: nothing happens.         *)
(***************************************************************************)
ChildExit(p) ==
    /\ p \in s.procs
    /\ \/ /\ p # s.controlPid
          /\ s' = [s EXCEPT !.procs = s.procs \ {p}]
       \/ /\ p = s.controlPid
          /\ \E code \in ExitResults :
               LET f == IF s.controlCommand # 0 /\ cfg.ignore[s.controlCommandId]
                        THEN "success" ELSE code
                   v == Latch([s EXCEPT !.controlPid = NoPid,
                                        !.procs = s.procs \ {p}], f)
               IN  IF /\ s.controlCommand # 0
                      /\ s.controlCommand < cfg.exec[s.controlCommandId]
                      /\ f = "success"
                   THEN s' \in RunNext(v)
                   ELSE s' \in ChildDone(v, f)
    /\ UNCHANGED <<cfg, stopPending, svc, svcJob>>

\* socket_timer_event: the one-shot timer fires and is no longer armed.
TimerFires ==
    /\ s.timer
    /\ s' \in TimerDone([s EXCEPT !.timer = FALSE])
    /\ UNCHANGED <<cfg, stopPending, svc, svcJob>>

\* Mutant: reset-failed leaves the failed state but keeps the result.
ResetFailedKeepsResult ==
    /\ s' = IF s.state = "failed" THEN SetState(s, "dead") ELSE s
    /\ UNCHANGED <<cfg, stopPending, svc, svcJob>>

\* socket_reset_failed (systemctl reset-failed, in any state).
ResetFailed ==
    /\ s' = [IF s.state = "failed" THEN SetState(s, "dead") ELSE s
                EXCEPT !.result = "success"]
    /\ UNCHANGED <<cfg, stopPending, svc, svcJob>>

(***************************************************************************)
(* The paired service, seen through socket_trigger_notify: every state    *)
(* change of the service notifies the socket within the same step.        *)
(***************************************************************************)
\* Someone other than the socket asks for the service to start.
SvcStartRequested ==
    /\ ~svcJob
    /\ svc \in {"dead", "failed"}
    /\ svcJob' = TRUE
    /\ UNCHANGED <<cfg, s, stopPending, svc>>

\* The start job runs (it is only ever queued for an inactive service): the
\* service activates, or hits its start limit.
SvcJobRuns ==
    /\ svcJob
    /\ svcJob' = FALSE
    /\ svc \in {"dead", "failed"}
    /\ \/ /\ svc' = "activating"
          /\ UNCHANGED s
       \/ /\ svc' = "failed"
          /\ s' \in TriggerNotify(s, "failed", TRUE)
    /\ UNCHANGED <<cfg, stopPending>>

\* The service reaches running.
SvcUp ==
    /\ svc = "activating"
    /\ svc' = "running"
    /\ s' \in TriggerNotify(s, "running", FALSE)
    /\ UNCHANGED <<cfg, stopPending, svcJob>>

\* The service stops or fails (not at its start limit).
SvcDown ==
    /\ svc \in {"activating", "running"}
    /\ \E st \in {"dead", "failed"} :
          /\ svc' = st
          /\ s' \in TriggerNotify(s, st, FALSE)
    /\ UNCHANGED <<cfg, stopPending, svcJob>>

Next ==
    \/ Start
    \/ QueueStop
    \/ CancelStop
    \/ Stop
    \/ FdEvent
    \/ FdError
    \/ \E p \in Pids : ChildExit(p)
    \/ TimerFires
    \/ ResetFailed
    \/ SvcStartRequested
    \/ SvcJobRuns
    \/ SvcUp
    \/ SvcDown

Spec == Init /\ [][Next]_vars

-----------------------------------------------------------------------------
(***************************************************************************)
(* Properties.                                                            *)
(***************************************************************************)

TypeOK ==
    /\ cfg \in ConfigT
    /\ s \in SocketT
    /\ stopPending \in BOOLEAN
    /\ svc \in SvcStates
    /\ svcJob \in BOOLEAN

(***************************************************************************)
(* File descriptors live exactly as long as the states that need them: an *)
(* fd is watched only while the unit is listening and the fd is open, and *)
(* an fd is open only in a state that keeps fds open.  This is what       *)
(* socket_set_state, socket_close_fds, the rollback in socket_open_fds,   *)
(* the early return of socket_open_fds and the drain in                   *)
(* socket_enter_running must achieve together.                            *)
(***************************************************************************)
FdLifetime ==
    \A p \in Ports :
        /\ s.watched[p] => s.fds[p] /\ s.state = "listening"
        /\ s.fds[p] => s.state \in OpenStates

(***************************************************************************)
(* The watched control pid is a live helper, only in a transient state,  *)
(* and the command cursor (control_command_id, control_command) points   *)
(* into the list of that id: socket_sigchld_event dereferences it and    *)
(* socket_run_next advances it.                                          *)
(***************************************************************************)
ControlChildTracked ==
    /\ s.controlPid # NoPid =>
          /\ s.controlPid \in s.procs
          /\ s.state \in Transient
          /\ s.controlCommandId # "invalid"
    /\ s.controlCommand # 0 =>
          /\ s.controlCommandId \in ExecIds
          /\ s.controlCommand <= cfg.exec[s.controlCommandId]

(***************************************************************************)
(* A transient state can always be left: the timer is armed or a control  *)
(* child will deliver a SIGCHLD.  The timer is armed in no other state, so *)
(* socket_timer_event never meets a state its switch does not handle.     *)
(***************************************************************************)
WakeupPending ==
    /\ s.state \in Transient => s.timer \/ s.controlPid # NoPid
    /\ s.timer => s.state \in Transient

(***************************************************************************)
(* Every transient state but the two final kill states waits for a        *)
(* running control child, whose SIGCHLD moves it on.  socket_coldplug     *)
(* relies on this when it refuses a transient state without a control    *)
(* pid (-EBADMSG): only final-sigterm and final-sigkill, which wait for  *)
(* the cgroup to empty, may have none.                                    *)
(***************************************************************************)
ControlChildRunning ==
    s.state \in Transient \ {"final-sigterm", "final-sigkill"} =>
        s.controlPid # NoPid

(***************************************************************************)
(* Once stopped, the unit is "failed" exactly when a failure was latched  *)
(* during the run (socket_enter_dead), across socket_start resetting the  *)
(* result and socket_reset_failed clearing it from any state.             *)
(***************************************************************************)
FailedIffResult ==
    s.state \in {"dead", "failed"} =>
        (s.state = "failed" <=> s.result # "success")

(***************************************************************************)
(* A latched failure is only cleared by an explicit reset: socket_start   *)
(* or socket_reset_failed.  No handler on the stop path may forget it.    *)
(***************************************************************************)
FailureLatched ==
    [][s.result # "success" /\ s'.result = "success" => Start \/ ResetFailed]_vars

(***************************************************************************)
(* A latched failure never survives into an activating or active state:   *)
(* every enter_* that latches a failure on the start path, fd_event and   *)
(* the service's start limit go on to the stop path, and socket_start     *)
(* clears the result of the previous run before enter_start_pre.          *)
(***************************************************************************)
ActiveStates ==
    {"start-pre", "start-chown", "start-post", "listening", "running"}
FailureStopsActivation ==
    s.state \in ActiveStates => s.result = "success"

(***************************************************************************)
(* Every stop runs to completion: from any deactivating state the unit    *)
(* reaches dead or failed, whatever the helpers do, because the timer     *)
(* escalates SIGTERM, SIGKILL and finally gives up.                       *)
(***************************************************************************)
Deactivating ==
    {"stop-pre", "stop-pre-sigterm", "stop-pre-sigkill", "stop-post",
     "final-sigterm", "final-sigkill"}
DeactivationTerminates ==
    s.state \in Deactivating ~> s.state \in {"dead", "failed"}

(***************************************************************************)
(* state_translation_table: the active state socket_set_state reports to  *)
(* unit_notify for each socket state.                                     *)
(***************************************************************************)
ActiveState ==
    [st \in States |->
        CASE st = "dead"                  -> "inactive"
          [] st = "failed"                -> "failed"
          [] st \in {"listening", "running"} -> "active"
          [] st \in Deactivating          -> "deactivating"
          [] OTHER                        -> "activating"]

Lifecycle == INSTANCE SocketLifecycle
                 WITH phase <- ActiveState[s.state],
                      failure <- s.result # "success"

(***************************************************************************)
(* The socket unit implements its lifecycle (SocketLifecycle): every      *)
(* handler, whatever chain of socket_enter_* calls and failures it runs,  *)
(* moves the reported active state forward along the start/stop cycle,    *)
(* keeps a latched failure until the cycle ends, and ends the cycle in    *)
(* failed exactly when a failure is latched.                              *)
(***************************************************************************)
LifecycleRefined == Lifecycle!Spec

-----------------------------------------------------------------------------
(***************************************************************************)
(* What the specification of the socket unit promises and the code does  *)
(* not do (each is checked by a run that expects a violation).           *)
(***************************************************************************)

(***************************************************************************)
(* A listening unit serves all its endpoints: every port open and        *)
(* watched.  Broken by the "stop pending" drain of socket_enter_running, *)
(* which closes the ports and never reopens them, so that a stop job     *)
(* cancelled afterwards leaves the unit listening on nothing.            *)
(***************************************************************************)
ListeningServes ==
    s.state = "listening" => \A p \in Ports : s.fds[p] /\ s.watched[p]

(***************************************************************************)
(* The timer is armed in every transient state.  Broken by                *)
(* socket_enter_start_chown, whose helper is forked without a timer: when *)
(* no ExecStartPre= armed one first, a hanging user lookup in the chown   *)
(* helper keeps the unit in start-chown for ever.                         *)
(***************************************************************************)
TimerArmedWhileTransient ==
    s.state \in Transient => s.timer

(***************************************************************************)
(* At most one helper process of the unit is alive.  Broken whenever a   *)
(* new control command is spawned after a timeout: socket_enter_stop_pre *)
(* unwatches the timed-out helper without killing it.                    *)
(***************************************************************************)
AtMostOneControlChild ==
    Cardinality(s.procs) <= 1

(***************************************************************************)
(* The first failing result wins: once a failure is latched, a later     *)
(* failure does not overwrite it.  The code overwrites it in every        *)
(* socket_enter_* ("if (f != SOCKET_SUCCESS) s->result = f").             *)
(***************************************************************************)
ResultFirstFailureWins ==
    [][s.result # "success" /\ s'.result # "success" => s'.result = s.result]_vars

(***************************************************************************)
(* An accepting socket stays listening and spawns one service per         *)
(* connection; running is for Accept=no only.  With the accept() loop of  *)
(* socket_fd_event compiled out, an accepting socket enters running on    *)
(* its first connection and, since socket_trigger_notify ignores          *)
(* accepting sockets, never listens again.                                *)
(***************************************************************************)
AcceptStaysListening ==
    cfg.accept => s.state # "running"

=============================================================================
