# Formal model of the InitWare socket unit

This directory holds TLA+ models of the socket activation unit of InitWare
(`src/cmd/manager/socket.c`), the TLC configurations that model-check them,
and TLAPS proofs. `PROJECT.json` lists the components, runs, mutants,
findings, hazards and theorems. Its `map` gives the source lines behind every
model definition.

## 1. The system

A socket unit owns an ordered list of endpoints (ports). Each port is a
socket, FIFO, special file or POSIX message queue. The unit runs the
endpoints through a lifecycle and starts a paired service when traffic
arrives. Every handler runs to completion on the manager's single-threaded
event loop. No two handlers of the unit run at once, and there are no data
races. Concurrency comes from the order in which events reach the loop. The
events are jobs (start, stop), fd readiness, SIGCHLD of helper processes,
timer expiry, and state changes of the paired service.

| Part (spec letter) | Code | Role |
|---|---|---|
| State machine (C) | `socket_set_state`, `socket_enter_*`, `socket_start`, `socket_stop`, `socket_timer_event`, `socket_sigchld_event`, `socket_reset_failed`, `socket_trigger_notify`, `socket_notify_service_dead` | 13 states: four stable ones (dead, listening, running, failed) and nine transient ones that wait on a helper or a timer |
| Control-child supervisor (D) | `socket_spawn`, `socket_chown`, `socket_unwatch_control_pid`, `socket_run_next`, exit classification in `socket_sigchld_event` | forks one helper per command of ExecStartPre/StartPost/StopPre/StopPost lists (and the chown helper), walks the list with a cursor |
| Endpoint set (B) | `socket_open_fds`, `socket_close_fds`, `socket_watch_fds`, `socket_unwatch_fds` | opens ports in order with rollback; installs readiness watches |
| Endpoint factory (A) | `socket_address_listen`, `fifo_address_create`, ... | syscalls; not modelled (only success or failure) |
| Activation dispatcher (E) | `socket_fd_event`, `socket_enter_running` | on readiness, queue a start job for the service; the accept() path is compiled out (`#if 0 // FIXME: libev`) |
| Serializer (F) | `socket_serialize`, `socket_deserialize_item`, `socket_distribute_fds`, `socket_coldplug` | state across a manager re-exec (`SocketReexec`) |
| Verifier (G) | `socket_verify`, `socket_load` | load-time checks; only the accept/port-kind check is used |

The hard behaviours are these:
- The enter_* functions call each other. For example, enter_stop_pre falls
  through to enter_stop_post, then enter_signal, then enter_dead. One
  handler can therefore cross several states in one step.
- Each enter_* has failure exits: fork fails, `unit_watch_pid` fails after
  the fork, `unit_kill_context` reports none or an error, or the timer cannot
  be armed.
- Helper exits, timeouts, stop jobs and service changes interleave in orders
  no test fixes.
- The result latch and reset-failed together decide between dead and failed.

## 2. The model

`SocketUnit.tla` has five variables:
- `cfg` is the loaded unit file. It is immutable and chosen from `Configs`.
- `s` is the runtime part of `struct Socket`, plus the set of live helper
  pids.
- `stopPending` says a stop job is installed (`unit_stop_pending`).
- `svc` is the state of the paired service.
- `svcJob` says a start job is installed for that service.

Each field of `s` corresponds to the code:

| `s` field | code |
|---|---|
| `state`, `result` | `s->state`, `s->result` |
| `controlPid` | `s->control_pid` (0 = none) |
| `controlCommandId`, `controlCommand` | `s->control_command_id`, and the position of `s->control_command` in its list (1-based, 0 = NULL) |
| `timer` | `s->timer_watch` is armed |
| `fds[p]`, `watched[p]` | `p->fd >= 0`, `p->fd_watch` installed |
| `procs` | helper processes alive (forked and not yet reaped) |

Each `socket_enter_*` function is an operator from a record to the *set* of
records it may end in. The set has one element per outcome of the calls it
makes that can fail. Call chains are operator compositions. Each handler is
one action:
- `Start`, `Stop`, `FdEvent`, `FdError`, `ChildExit(p)`, `TimerFires` and
  `ResetFailed`.
- The environment actions `QueueStop`, `CancelStop`, `SvcStartRequested`,
  `SvcJobRuns`, `SvcUp` and `SvcDown`. Every service change runs
  `socket_trigger_notify` in the same step.

These behaviours are modelled as the code has them:
- Fork fails when no pid is free.
- `unit_watch_pid` can fail after the fork. This leaves a live, unwatched
  helper (`SpawnFail`).
- `socket_chown` arms no timer.
- `unit_kill_context` may wait (processes exist), report none, or fail
  (`Killable`, `KillDone`).
- `socket_open_fds` either rolls back every port or returns early at the
  first closed socket port, leaving earlier ports open (`OpenFail`).
- `socket_fd_event` always runs with `cfd = -1`.
- The ExecX= command lists appear only through their lengths
  (`cfg.exec[id]`) and the "-" ignore flag.

### The abstract lifecycle

`SocketLifecycle.tla` states what the unit promises the manager. Its
variables are:
- `phase`, the active state the unit reports through `unit_notify`;
- `failure`, whether a failure result is latched.

`state_translation_table` folds the thirteen socket states into the five
values of `phase`. The module has three actions:
- `Begin`: a start job begins a cycle from inactive or failed.
- `Advance`: a cycle in progress moves forward (activating, active,
  deactivating) or ends, and keeps a latched failure.
- `Reset`: reset-failed forgets the failure.

An ended cycle is failed exactly when a failure is latched (`Settled`).
`SocketUnit` instantiates the module with the refinement mapping
`phase <- ActiveState[s.state]` and `failure <- s.result # "success"`.
`LifecycleRefined` is that instance's `Spec`, checked as a `PROPERTY`.
`SocketLifecycle_proofs.tla` proves it for every value of the constants
(section 4).

### Re-exec

`SocketReexec.tla` extends `SocketUnit` with one more action, `Reexec`. A
manager re-exec (daemon-reexec or daemon-reload) runs between two handlers
as a single step, made of these parts:
- `Serialize` is the lines `socket_serialize` writes.
- `Deserialize` is `socket_init` followed by `socket_deserialize_item`.
  The command cursor comes back at the head of the named list.
- `DistributeFds` hands unclaimed fds of the fd set to socket ports without
  one. Any match forces the deserialized state to listening.
- `Coldplug` runs `socket_coldplug` in three stages with early returns:
  - `WatchTransient`: `-EBADMSG` without a control pid, then
    `unit_watch_pid` and `unit_watch_timer`;
  - `ReopenFds`: `socket_open_fds`;
  - `RewatchFds`: `socket_watch_fds`;
  - then `socket_set_state`.

Helper processes, jobs and the service survive the re-exec. Timers and
watches do not, so the fresh unit starts from `InitSocket`.

Three constants shape the environment:
- `MaxReexecs` bounds the number of re-execs.
- `ColdplugCanFail` lets the watch, open and timer calls of coldplug fail.
- `StrayFds` lets the fd set hold an unclaimed fd for a socket port.

The manager's side of the re-exec is not in this repository. `Reexec` is
therefore modelled from the specification (section 4.F). The history
variable `childCmd` records the command position each helper was spawned
for.

## 3. Runs

The runs of `MC_SocketUnit` use 2 ports, lists of at most 2 commands and 3
pids (2 in the refinement run, which is about states, not about how many
helpers coexist). The main configuration set `MCConfigs` covers 512 unit files:
- every combination of empty and non-empty StartPre, StopPre and StopPost;
- StartPost of length 0 or 2, so that `socket_run_next` runs;
- the ignore flag on StartPost;
- owner set or not;
- Accept on or off;
- SIGKILL escalation on or off;
- both kill modes.

Non-accepting units list a FIFO before a datagram socket, so the early
return of `socket_open_fds` leaves the FIFO open. Accepting units have two
stream sockets. Three pids are enough for an orphaned helper and a new one
to coexist with a spare pid for failures.

| run | cfg | result | what it shows |
|---|---|---|---|
| core | `MC_SocketUnit.cfg` | pass, 2,064,272 states | type invariant, `FdLifetime`, `ControlChildTracked`, `WakeupPending`, `ControlChildRunning` (every transient state but final-sigterm/-sigkill has a control pid, which socket_coldplug's `-EBADMSG` check assumes), `FailedIffResult`, and `FailureStopsActivation` (no start-pre, start-chown, start-post, listening or running state carries a latched failure: every failure on the start path goes on to the stop path, and `socket_start` clears the previous run's result; spec section 7, "never left in Listening") |
| lifecycle_refinement | `MC_Lifecycle.cfg` | pass | `LifecycleRefined`: `SocketUnit` implements `SocketLifecycle` (2 pids) |
| drain_leaves_listening_empty | `MC_ListeningServes.cfg` | violation | the stop-pending drain leaves a listening unit with no fd (finding) |
| chown_without_timer | `MC_TimerArmedWhileTransient.cfg` | violation | start-chown without a timer (finding) |
| orphaned_helper | `MC_AtMostOneControlChild.cfg` | violation | two helpers alive (finding) |
| result_overwritten | `MC_ResultFirstFailureWins.cfg` | violation | a later failure replaces the first (finding) |
| accept_socket_runs | `MC_AcceptStaysListening.cfg` | violation | an Accept=yes socket enters running (finding) |
| reexec | `MC_SocketReexec.cfg` | pass, 368,688 states | with up to two re-execs, coldplug succeeding, and `WF_rvars(UnitTimerFires)`: `ReexecKeepsControlChild` (a transient state with a control child comes back in the same state, with the child watched, the list id and fds kept, and the timer armed), `FailureLatched`, and `DeactivationTerminates` |
| coldplug_failure_leaves_timer | `MC_ColdplugTimerInDead.cfg` | violation | a failed coldplug leaves a dead unit with its timer armed; the timer handler then hits `assert_not_reached` (finding) |
| reexec_forgets_final_sigterm | `MC_ReexecOrphansDead.cfg` | violation | `-EBADMSG` turns final-sigterm without a control pid into dead with a failure latched (finding) |
| reexec_reruns_command | `MC_ReexecCursor.cfg` | violation | the cursor restarts at the head of its list, so a command already run runs again (finding) |
| stray_fd_reactivates | `MC_ReexecStrayFd.cfg` | violation | `socket_distribute_fds` turns a stopping unit into a listening one (finding) |

The re-exec runs use 16 unit files, all non-accepting:
- ExecStartPost= with two commands;
- the stop-path lists present or not;
- both kill modes;
- both SIGKILL settings.

They use 2 pids, which is enough for an orphaned helper and a control child
at once. The stray-fd run uses only KillMode=process. In that mode every
transient state has a control pid, so `-EBADMSG` cannot hide the forced
listening. The passing re-exec run sets `ColdplugCanFail` and `StrayFds` to
FALSE, because each of those environments breaks a property: that is what
the violation runs show.

**Fairness.** Only the timer is assumed fair (`WF_rvars(UnitTimerFires)`
in the re-exec run, which is where liveness is checked: a stop has to end
even when re-execs fall between its steps). An armed timer of the event
loop fires eventually. A helper may hang for ever, and nobody need ever
queue a job. `DeactivationTerminates` therefore says the stop sequence is
driven to dead or failed by timeouts alone. Each transient state of the
stop path holds an armed timer or has a kill that returns at once
(`WakeupPending`).

Each property of a passing run has a mutant in `PROJECT.json`. The mutant
is a plausible bug in the mapped code, and TLC finds it under the run's own
configuration.

## 4. Proofs

`SocketUnit_proofs.tla` proves `THEOREM TypeCorrect == Spec => []TypeOK`
for every value of the constants. It assumes only `NPortsAssumption`,
`MaxCommandsAssumption`, `MaxProcsAssumption` and `ConfigsAssumption`.

`TypeOK` is not inductive. `socket_run_next` increments the cursor, and
only the knowledge that the cursor is below the list length keeps it in
`0..MaxCommands`. The inductive invariant is `IInv == TypeOK /\ s \in Good`.
`Good` is the set of well-typed records whose non-zero cursor names a list
and lies within it.

The proof goes bottom-up along the call graph:
- one lemma per `socket_enter_*` operator, stating that it maps a `Good`
  record to a subset of `Good`;
- one lemma per handler, stating that it preserves `IInv`;
- `Init => IInv`, `IInv /\ [Next]_vars => IInv'`, and a PTL step.

Records updated in several fields at once are typed with Zenon. The SMT
backend does not accept nested `EXCEPT`. The cursor arithmetic is then done
on the field values.

`SocketLifecycle_proofs.tla` proves two theorems from the same
assumptions:
- `THEOREM FailedIffResultHolds == Spec => []FailedIffResult`;
- `THEOREM Refinement == Spec => LifecycleRefined`, that is, `SocketUnit`
  implements `SocketLifecycle` under the refinement mapping of section 2.

Their inductive invariant is `RInv == IInv /\ FailedIffResult`.
`FailedIffResult` is needed as a hypothesis for two reasons. First, a
handler that leaves a dead or failed unit as it is (a service notification,
the exit of an orphaned helper, a stop job on a stopped unit) keeps the
outcome settled only because the unit already was. Second, the lifecycle's
`Begin` and `Advance` ask every ended cycle to be settled.

This proof also runs bottom-up. For every `socket_enter_*` operator, one
lemma states three facts about each outcome, relative to the record the
operator started from:
- the outcome is settled: dead or failed agrees with the result (`SS`);
- a failure that was latched is still latched (`Keeps`);
- its state lies in a given set (`Lands`).

The state sets are these:
- the stop path (`EnterStopPre`, `EnterStopPost`, the `EnterSignal*`
  operators, `TimerDone`, `RunNextFail`) lands in `DeactEnd`, the
  deactivating states plus dead and failed;
- `EnterListening` lands in `ActiveUp`;
- the start stages may land anywhere.

Per handler, `Moves` combines these facts: the step is settled, keeps the
failure, and does not move back (`Up`). `AdvanceMaps` and `BeginMaps` turn
a `Moves` step into `Lifecycle!Advance` or `Lifecycle!Begin`, depending on
whether the cycle had ended. `ResetFailedMaps` shows that
`socket_reset_failed` is `Lifecycle!Reset`. The proofs of these lemmas read
`state_translation_table` through `ActiveStateFacts`, because the SMT
backend does not accept `CASE`.

It also proves the action property `THEOREM FailureLatchedHolds == Spec =>
FailureLatched` from `RInv`. Every handler but `Start` and `ResetFailed` is a
`Moves` step, and `Moves` includes `Keeps`. Without re-execs the property
follows from the guard of `Latch` alone, so the core run no longer checks
it; the `reexec` run does, where it also covers the round trip of the
`result` line through serialize and deserialize.

`SocketResult_proofs.tla` proves `THEOREM FailureStopsActivationHolds ==
Spec => []FailureStopsActivation` from `FInv == RInv /\
FailureStopsActivation`. The property is inductive with `RInv` once every
operator is shown to keep it. The lemmas say that an operator applied to
a record whose result is success leaves only outcomes that satisfy the
property (`CleanOut`):
- the stop path lands in no active state (`StopPathClean`, from the
  `Lands` lemmas);
- the start stages and `socket_enter_listening` keep the result, or go to
  the stop path (`EnterStartPreClean` and the lemmas below it);
- the SIGCHLD dispatch needs the success result only for a successful exit
  in an active state (`ChildDoneClean`). A failed exit is latched and then
  goes to the stop path.
`socket_start` supplies the success result by its reset. Every other
handler takes it from the invariant: only a unit that is already active
can stay active.

`SocketSafety_proofs.tla` proves the four state invariants that relate fds,
watches, the control pid and the timer to the state, each as `Spec => []P`:
`FdLifetimeHolds`, `ControlChildTrackedHolds`, `WakeupPendingHolds` and
`ControlChildRunningHolds`. Their inductive invariant is
`SInv == IInv /\ Sane(s)`. `Sane` has three parts:
- `Ready`: the record is `Good`, watched fds are open (`WatchOpen`), and a
  control pid is a live helper with a named list (`Tracked`);
- `Rest`: fds are watched only while listening and open only in
  `OpenStates`;
- `Wake`: the control pid and the timer exist only in transient states, a
  transient state has one of them, and every transient state but the final
  kill states has the control pid.

None of the four properties is inductive alone. They do not hold in the
middle of a call chain either: inside `socket_enter_start_chown` the unit is
still dead with its fds open. The lemmas are therefore stated for `Ready`
records, which every intermediate record is. Each `socket_enter_*` operator
maps a `Ready` record to `Sane` outcomes, because `socket_set_state`, which
ends every path, drops what the new state may not keep (`SetStateSane`).
Two hypotheses need care:
- a path into a transient state must first arm the timer or install a pid;
- `socket_enter_signal` enters the stop-pre kill states only while the
  stop-pre helper runs. The callers supply this from `Wake` of the handler's
  starting record (`StopSane`, `TimerDoneSane`).

`SocketReexec_proofs.tla` carries `SInv` across re-execs
(`ReexecSInvHolds`, under `~ColdplugCanFail`). `ColdplugOutcome` puts
`socket_coldplug` in closed form when its calls cannot fail. The reloaded
unit is dead and `Ready`, with the old pid, list and fds and nothing
watched (`ReloadedFacts`, `RedistFacts`). Two cases follow:
- a transient state without a control pid is refused; by `Wake` this
  happens only in the final kill states, which keep no fds, so the dead
  unit left behind is `Sane`;
- otherwise the stages only arm the timer, open fds and watch open fds
  (`CpReady`), and `SetStateSane` applies.

From this it proves, for every value of the constants:
- `ReexecKeepsControlChildHolds`, under `~ColdplugCanFail /\ ~StrayFds` (the
  `reexec` run's setting). It needs `Rest` to show that no fd is lost;
- the four state invariants under `ReexecSpec`, with unclaimed fds allowed.

`ColdplugCanFail` is a real hypothesis: the `coldplug_failure_leaves_timer`
run breaks `WakeupPending` without it.

Only TLC checks the following:
- `FailedIffResult` and `FailureLatched` across re-execs.
  `FailedIffResult` fails there (`reexec_forgets_final_sigterm`), so a proof
  of `FailureLatched` would need a chain of `Keeps` lemmas without it;
- `CursorTracksChild` and `LifecycleRefined` under re-exec, which are
  violated (the findings);
- liveness. TLAPS cannot reason about `ENABLED` or fairness, so
  `DeactivationTerminates` stays with TLC.

## 5. Not modelled, and the plan

- **Re-exec timing.** Coldplug re-arms the full timeout on every re-exec.
  With the timer a Boolean and a bounded number of re-execs, the model
  cannot show a timeout postponed for ever.
- **Serializer leftovers.** These parts of the serializer are not modelled:
  - `n-accepted`, which only the dead accept path changes;
  - the exec context's tmp-dir lines;
  - a failure of `fdset_put_dup`, which aborts the whole re-exec.
- **Further proofs.** `FailureLatched` across re-execs, from a `Keeps`
  chain that does not rest on `FailedIffResult`.
- **Not modelled at all:**
  - the accept path of the activation dispatcher (instance names,
    `n_connections`, `max_connections`, `socket_connection_unref`), which is
    dead code in this build;
  - the endpoint factory's syscalls and socket options;
  - `socket_dump` and the bus properties;
  - the dependency wiring of `socket_load`;
  - the list test `src/test/test/test-list.c`.
