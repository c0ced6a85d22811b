---------------------------- MODULE SocketReexec ----------------------------
(***************************************************************************)
(* The socket unit across a re-exec of the manager (daemon-reexec, and    *)
(* daemon-reload, which takes the same path).  Between two handlers the   *)
(* old manager serializes the unit (socket_serialize), a fresh unit is    *)
(* loaded (socket_init), the lines are read back                          *)
(* (socket_deserialize_item), unclaimed fds of the fd set are handed to   *)
(* the unit (socket_distribute_fds) and the deserialized state is         *)
(* re-established (socket_coldplug).  The whole sequence is one step:     *)
(* the event loop runs no handler in between.                             *)
(*                                                                         *)
(* What survives: the helper processes (they are children of pid 1 and    *)
(* outlive the exec), the fds put into the fd set, the jobs, and the      *)
(* paired service.  What does not: timers and pid and fd watches, which   *)
(* belong to the old event loop.                                          *)
(*                                                                         *)
(* A history variable childCmd records which command of its list each     *)
(* helper was spawned for, so that the command cursor can be compared     *)
(* with what the control child really runs.                               *)
(***************************************************************************)
EXTENDS SocketUnit

CONSTANTS
    MaxReexecs,       \* re-execs in one behaviour
    ColdplugCanFail,  \* unit_watch_pid/_timer, open and watch may fail in coldplug
    StrayFds          \* the fd set may hold unclaimed fds for a socket port

ASSUME ReexecAssumption ==
    /\ MaxReexecs \in Nat
    /\ ColdplugCanFail \in BOOLEAN
    /\ StrayFds \in BOOLEAN

VARIABLES
    reexecs,    \* re-execs so far
    childCmd    \* childCmd[p]: position of the command helper p was spawned for

rvars == <<cfg, s, stopPending, svc, svcJob, reexecs, childCmd>>

(***************************************************************************)
(* socket_serialize: the lines written for the unit.  "control-pid" is   *)
(* written only for a pid > 0 and "control-command" only for a valid id, *)
(* so an absent line reads back as the socket_init default; the position  *)
(* of control_command in its list is not written.  Every open fd is      *)
(* duplicated into the fd set.                                            *)
(***************************************************************************)
Serialize(u) ==
    [state |-> u.state, result |-> u.result, controlPid |-> u.controlPid,
     controlCommandId |-> u.controlCommandId, fds |-> u.fds]

\* Mutant: the "result" line is not read back.
DeserializeDropsResult(ln, procs) ==
    [InitSocket EXCEPT
        !.controlPid = ln.controlPid,
        !.controlCommandId = ln.controlCommandId,
        !.controlCommand = IF ln.controlCommandId \in ExecIds
                              /\ cfg.exec[ln.controlCommandId] > 0
                           THEN 1 ELSE 0,
        !.fds = ln.fds,
        !.procs = procs]

(***************************************************************************)
(* socket_init followed by socket_deserialize_item for every line:        *)
(* "result" only overwrites success with a failure, "control-command"    *)
(* points control_command at the head of the named list, every fd line   *)
(* transplants its fd into the port it names.  "state" sets              *)
(* deserialized_state, returned separately; the unit itself stays dead.   *)
(***************************************************************************)
Deserialize(ln, procs) ==
    [InitSocket EXCEPT
        !.result = ln.result,
        !.controlPid = ln.controlPid,
        !.controlCommandId = ln.controlCommandId,
        !.controlCommand = IF ln.controlCommandId \in ExecIds
                              /\ cfg.exec[ln.controlCommandId] > 0
                           THEN 1 ELSE 0,
        !.fds = ln.fds,
        !.procs = procs]

\* Socket ports left without an fd after deserialization.
UnclaimedSocketPorts(u) == {p \in Ports : cfg.kind[p] \in SocketKinds /\ ~u.fds[p]}

(***************************************************************************)
(* socket_distribute_fds: each socket port without an fd takes a matching *)
(* fd of the fd set (the ports in m), and any match forces the           *)
(* deserialized state to listening.  Returns <<unit, deserialized state>>.*)
(***************************************************************************)
DistributeFds(u, ds, m) ==
    <<[u EXCEPT !.fds = [p \in Ports |-> u.fds[p] \/ p \in m]],
      IF m # {} THEN "listening" ELSE ds>>

(***************************************************************************)
(* The three stages of socket_coldplug.  Each maps a unit to a set of     *)
(* outcomes <<ok, unit>>; ok = FALSE is an early "return r", after which  *)
(* the unit keeps whatever the stages before did.                         *)
(***************************************************************************)
\* Mutant: the timer is not re-armed for a transient state.
WatchTransientNoTimer(u, ds) ==
    IF ds \notin Transient THEN {<<TRUE, u>>}
    ELSE IF u.controlPid = NoPid THEN {<<FALSE, u>>}
    ELSE {<<TRUE, u>>} \cup
         IF ColdplugCanFail
         THEN {<<FALSE, [u EXCEPT !.controlPid = NoPid]>>, <<FALSE, u>>}
         ELSE {}

(***************************************************************************)
(* A transient state: -EBADMSG without a control pid; then                *)
(* unit_watch_pid (a failure leaves the pid unwatched, modelled as no     *)
(* control pid since no SIGCHLD will reach the unit) and unit_watch_timer *)
(* with the full timeout (a failure leaves the pid watched).              *)
(***************************************************************************)
WatchTransient(u, ds) ==
    IF ds \notin Transient THEN {<<TRUE, u>>}
    ELSE IF u.controlPid = NoPid THEN {<<FALSE, u>>}
    ELSE {<<TRUE, [u EXCEPT !.timer = TRUE]>>} \cup
         IF ColdplugCanFail
         THEN {<<FALSE, [u EXCEPT !.controlPid = NoPid]>>, <<FALSE, u>>}
         ELSE {}

\* A state with open fds: socket_open_fds opens the ports the fd lines did
\* not fill, with its rollback and its early return.
ReopenFds(u, ds) ==
    IF ds \notin OpenStates THEN {<<TRUE, u>>}
    ELSE {<<TRUE, OpenOk(u)>>} \cup
         IF ColdplugCanFail THEN {<<FALSE, w>> : w \in OpenFail(u)} ELSE {}

\* Listening: socket_watch_fds, which unwatches everything on a failure.
RewatchFds(u, ds) ==
    IF ds # "listening" THEN {<<TRUE, u>>}
    ELSE {<<TRUE, [u EXCEPT !.watched = u.fds]>>} \cup
         IF ColdplugCanFail THEN {<<FALSE, [u EXCEPT !.watched = NoPorts]>>}
         ELSE {}

(***************************************************************************)
(* socket_coldplug: nothing when the deserialized state is the current   *)
(* (dead) one; otherwise the three stages, then socket_set_state.          *)
(***************************************************************************)
Coldplug(u, ds) ==
    IF ds = u.state THEN {u}
    ELSE LET S1 == WatchTransient(u, ds)
             S2 == UNION {IF r[1] THEN ReopenFds(r[2], ds) ELSE {r} : r \in S1}
             S3 == UNION {IF r[1] THEN RewatchFds(r[2], ds) ELSE {r} : r \in S2}
         IN  {IF r[1] THEN SetState(r[2], ds) ELSE r[2] : r \in S3}

(***************************************************************************)
(* The manager re-executes: serialize, reload, deserialize, distribute    *)
(* the fd set's unclaimed fds, coldplug.  Processes, jobs and the service *)
(* carry over; the old timer and watches are gone.                        *)
(***************************************************************************)
Reexec ==
    /\ reexecs < MaxReexecs
    /\ reexecs' = reexecs + 1
    /\ LET ln == Serialize(s)
           d  == Deserialize(ln, s.procs)
       IN  \E m \in IF StrayFds THEN SUBSET UnclaimedSocketPorts(d) ELSE {{}} :
              LET dist == DistributeFds(d, ln.state, m)
              IN  s' \in Coldplug(dist[1], dist[2])
    /\ UNCHANGED <<cfg, stopPending, svc, svcJob, childCmd>>

(***************************************************************************)
(* The handlers of SocketUnit, each recording the command position of a   *)
(* control child it spawned (a pid not alive before the step, apart from *)
(* the one reaped in it).                                                 *)
(***************************************************************************)
Track(alive) ==
    /\ childCmd' = [p \in Pids |-> IF p = s'.controlPid /\ p \notin alive
                                   THEN s'.controlCommand ELSE childCmd[p]]
    /\ UNCHANGED reexecs

UnitChildExit(p) == ChildExit(p) /\ Track(s.procs \ {p})
UnitTimerFires == TimerFires /\ Track(s.procs)
UnitStep ==
    /\ \/ Start \/ QueueStop \/ CancelStop \/ Stop \/ FdEvent \/ FdError
       \/ ResetFailed \/ SvcStartRequested \/ SvcJobRuns \/ SvcUp \/ SvcDown
    /\ Track(s.procs)

ReexecInit ==
    /\ Init
    /\ reexecs = 0
    /\ childCmd = [p \in Pids |-> 0]

ReexecNext ==
    \/ UnitStep
    \/ \E p \in Pids : UnitChildExit(p)
    \/ UnitTimerFires
    \/ Reexec

ReexecSpec == ReexecInit /\ [][ReexecNext]_rvars

(***************************************************************************)
(* The timer is the only handler the event loop is bound to run: a child  *)
(* may hang and no job need ever be queued, but an armed timer fires, in  *)
(* the old event loop as in the one after a re-exec.                      *)
(***************************************************************************)
ReexecFairSpec == ReexecSpec /\ WF_rvars(UnitTimerFires)

-----------------------------------------------------------------------------
(***************************************************************************)
(* The command cursor names the command the control child runs:          *)
(* socket_sigchld_event applies that command's "-" flag to the exit and  *)
(* socket_run_next starts the command after it.  Broken by a re-exec     *)
(* while a later command of a list runs: the cursor is deserialized to   *)
(* the head of the list, so the next SIGCHLD runs commands again.         *)
(***************************************************************************)
CursorTracksChild ==
    s.controlPid # NoPid => s.controlCommand = childCmd[s.controlPid]

(***************************************************************************)
(* A re-exec keeps a transient state that has a control child: the unit   *)
(* comes back in the same state, with the same control pid watched, the   *)
(* same command list, the fds it had, and its timeout armed again.  This  *)
(* is what socket_serialize, socket_deserialize_item and socket_coldplug  *)
(* must achieve together when coldplug succeeds.                          *)
(***************************************************************************)
ReexecKeepsControlChild ==
    [][Reexec /\ s.state \in Transient /\ s.controlPid # NoPid =>
          /\ s'.state = s.state
          /\ s'.controlPid = s.controlPid
          /\ s'.controlCommandId = s.controlCommandId
          /\ \A p \in Ports : s.fds[p] => s'.fds[p]
          /\ s'.timer]_rvars
=============================================================================
