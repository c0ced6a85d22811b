------------------------- MODULE SocketSafety_proofs -------------------------
(***************************************************************************)
(* Proofs of the three state invariants of SocketUnit that relate fds,    *)
(* watches, the control pid and the timer to the state: FdLifetime,       *)
(* ControlChildTracked and WakeupPending, for every value of the          *)
(* constants.                                                             *)
(*                                                                         *)
(* None of them is inductive on its own, and none holds of the records    *)
(* the socket_enter_* operators pass along their chains of calls: in the *)
(* middle of socket_enter_start_chown the unit is still "dead" with its  *)
(* fds open.  What the intermediate records do satisfy is Ready: watched *)
(* fds are open, and a control pid is a live helper running a named      *)
(* command list.  The argument is that every operator maps a Ready       *)
(* record to Sane ones (Ready, plus the invariants' relations with the   *)
(* state), because socket_set_state, called last on every path, drops   *)
(* what the new state may not keep, and every path into a transient     *)
(* state either arms the timer or installs a control pid.                 *)
(***************************************************************************)
EXTENDS SocketUnit_proofs

\* Watched fds are open (socket_watch_fds only watches open fds).
WatchOpen(u) == \A p \in Ports : u.watched[p] => u.fds[p]

\* A control pid is a live helper and names the list it runs.
Tracked(u) ==
    u.controlPid # NoPid =>
        u.controlPid \in u.procs /\ u.controlCommandId # "invalid"

\* What every record along a handler's chain of calls satisfies.
Ready(u) == u \in Good /\ WatchOpen(u) /\ Tracked(u)

\* Fds are watched only while listening, open only in OpenStates.
Rest(u) ==
    \A p \in Ports :
        /\ u.watched[p] => u.state = "listening"
        /\ u.fds[p] => u.state \in OpenStates

\* The states socket_enter_signal enters on the way to dead or failed.
Finals == {"final-sigterm", "final-sigkill"}

\* The timer and the control pid exist only in transient states, a
\* transient state has one of them, and every transient state but the
\* final kill states has a helper running.
Wake(u) ==
    /\ u.controlPid # NoPid => u.state \in Transient
    /\ u.state \in Transient => u.timer \/ u.controlPid # NoPid
    /\ u.state \in Transient \ Finals => u.controlPid # NoPid
    /\ u.timer => u.state \in Transient

\* A record the unit may be left in between two handlers.
Sane(u) == Ready(u) /\ Rest(u) /\ Wake(u)

\* Every outcome of an operator is Sane.
AllSane(S) == \A w \in S : Sane(w)

\* The inductive invariant.
SInv == IInv /\ Sane(s)

-----------------------------------------------------------------------------
(***************************************************************************)
(* Field values of the record updates (Zenon does the multi-field         *)
(* EXCEPTs; the rest is then field arithmetic).                           *)
(***************************************************************************)

LEMMA SetStateFields ==
    ASSUME NEW u \in SocketT, NEW st
    PROVE  /\ SetState(u, st).state = st
           /\ SetState(u, st).timer = (u.timer /\ st \in Transient)
           /\ SetState(u, st).controlPid =
                 IF st \in Transient THEN u.controlPid ELSE NoPid
           /\ SetState(u, st).controlCommandId =
                 IF st \in Transient THEN u.controlCommandId ELSE "invalid"
           /\ SetState(u, st).watched =
                 IF st = "listening" THEN u.watched ELSE NoPorts
           /\ SetState(u, st).fds = IF st \in OpenStates THEN u.fds ELSE NoPorts
           /\ SetState(u, st).procs = u.procs
BY Zenon DEF SetState, SocketT

\* socket_set_state leaves a Sane record when the new state keeps the
\* watches only if they are of open fds, a transient state has its
\* timer or its control pid, and a transient state other than the final
\* kill states its control pid.
LEMMA SetStateSane ==
    ASSUME NEW u, Ready(u), NEW st \in States,
           st \in Transient => u.timer \/ u.controlPid # NoPid,
           st \in Transient \ Finals => u.controlPid # NoPid
    PROVE  Sane(SetState(u, st))
<1> DEFINE w == SetState(u, st)
<1>1. u \in SocketT /\ u \in Good
  BY GoodType DEF Ready
<1>2. w \in Good
  BY <1>1, SetStateGood
<1>3. "listening" \in OpenStates /\ "listening" \notin Transient
  BY DEF OpenStates, Transient
<1>4. /\ w.state = st
      /\ w.timer = (u.timer /\ st \in Transient)
      /\ w.controlPid = IF st \in Transient THEN u.controlPid ELSE NoPid
      /\ w.controlCommandId = IF st \in Transient THEN u.controlCommandId
                                                  ELSE "invalid"
      /\ w.watched = IF st = "listening" THEN u.watched ELSE NoPorts
      /\ w.fds = IF st \in OpenStates THEN u.fds ELSE NoPorts
      /\ w.procs = u.procs
  BY <1>1, SetStateFields
<1>5. WatchOpen(w) /\ Rest(w)
  BY <1>3, <1>4, Ready(u) DEF Ready, WatchOpen, Rest, NoPorts
<1>6. Tracked(w) /\ Wake(w)
  BY <1>4, Ready(u) DEF Ready, Tracked, Wake
<1>7. QED
  BY <1>2, <1>5, <1>6 DEF Sane, Ready

LEMMA PidsNotNoPid ==
    ASSUME NEW p \in Pids
    PROVE  p # NoPid
BY DEF Pids, NoPid

\* The result latch and the timer touch nothing Ready is about.
LEMMA LatchReady ==
    ASSUME NEW u, Ready(u), NEW f \in Results
    PROVE  Ready(Latch(u, f))
<1>1. Latch(u, f) \in Good
  BY LatchGood DEF Ready
<1>2. QED
  BY <1>1 DEF Ready, Latch, WatchOpen, Tracked, Good, SocketT

LEMMA TimerReady ==
    ASSUME NEW u, Ready(u), NEW b \in BOOLEAN
    PROVE  Ready([u EXCEPT !.timer = b])
<1>1. [u EXCEPT !.timer = b] \in Good
  BY TimerGood DEF Ready
<1>2. QED
  BY <1>1 DEF Ready, WatchOpen, Tracked, Good, SocketT

\* The prologue of a command list drops the control pid.
LEMMA BeginReady ==
    ASSUME Hyp, NEW u, Ready(u), NEW id \in ExecIds
    PROVE  /\ Ready(BeginCommandList(u, id))
           /\ BeginCommandList(u, id).controlPid = NoPid
           /\ BeginCommandList(u, id).controlCommandId = id
<1>1. u \in SocketT
  BY GoodType DEF Ready
<1>2. /\ BeginCommandList(u, id).controlPid = NoPid
      /\ BeginCommandList(u, id).controlCommandId = id
      /\ BeginCommandList(u, id).watched = u.watched
      /\ BeginCommandList(u, id).fds = u.fds
  BY <1>1, Zenon DEF BeginCommandList, SocketT
<1>3. BeginCommandList(u, id) \in Good
  BY BeginCommandListGood DEF Ready
<1>4. QED
  BY <1>2, <1>3, Ready(u) DEF Ready, WatchOpen, Tracked

\* socket_spawn: a spawned helper is watched with the timer armed; a
\* failed spawn leaves the control pid as it was.
LEMMA SpawnReady ==
    ASSUME Hyp, NEW v, Ready(v)
    PROVE  /\ v.controlCommandId # "invalid" =>
                 \A w \in SpawnOk(v) :
                    /\ Ready(w) /\ w.timer /\ w.controlPid # NoPid
                    /\ w.state = v.state /\ w.fds = v.fds
                    /\ w.watched = v.watched
           /\ \A w \in SpawnFail(v) : Ready(w)
           /\ v.controlCommandId # "invalid" =>
                 \A w \in ChownOk(v) : Ready(w) /\ w.controlPid # NoPid
           /\ \A w \in ChownFail(v) : Ready(w)
<1>1. v \in SocketT /\ v \in Good
  BY GoodType DEF Ready
<1>2. /\ SpawnOk(v) \subseteq Good /\ SpawnFail(v) \subseteq Good
      /\ ChownOk(v) \subseteq Good /\ ChownFail(v) \subseteq Good
  BY <1>1, SpawnGood
<1>3. ASSUME NEW p \in FreePids(v)
      PROVE  /\ v.controlCommandId # "invalid" =>
                   Ready([v EXCEPT !.timer = TRUE, !.controlPid = p,
                                   !.procs = v.procs \cup {p}])
             /\ Ready([v EXCEPT !.timer = FALSE, !.procs = v.procs \cup {p}])
             /\ v.controlCommandId # "invalid" =>
                   Ready([v EXCEPT !.controlPid = p, !.procs = v.procs \cup {p}])
             /\ Ready([v EXCEPT !.procs = v.procs \cup {p}])
  <2>1. p \in Pids /\ p # NoPid
    BY PidsNotNoPid DEF FreePids
  <2> DEFINE a == [v EXCEPT !.timer = TRUE, !.controlPid = p,
                            !.procs = v.procs \cup {p}]
  <2> DEFINE b == [v EXCEPT !.timer = FALSE, !.procs = v.procs \cup {p}]
  <2> DEFINE c == [v EXCEPT !.controlPid = p, !.procs = v.procs \cup {p}]
  <2> DEFINE d == [v EXCEPT !.procs = v.procs \cup {p}]
  <2>2. /\ a.controlPid = p /\ a.procs = v.procs \cup {p}
        /\ a.controlCommandId = v.controlCommandId
        /\ a.watched = v.watched /\ a.fds = v.fds
        /\ b.controlPid = v.controlPid /\ b.procs = v.procs \cup {p}
        /\ b.controlCommandId = v.controlCommandId
        /\ b.watched = v.watched /\ b.fds = v.fds
        /\ c.controlPid = p /\ c.procs = v.procs \cup {p}
        /\ c.controlCommandId = v.controlCommandId
        /\ c.watched = v.watched /\ c.fds = v.fds
        /\ d.controlPid = v.controlPid /\ d.procs = v.procs \cup {p}
        /\ d.controlCommandId = v.controlCommandId
        /\ d.watched = v.watched /\ d.fds = v.fds
    BY <1>1, Zenon DEF SocketT
  <2>3. a \in Good /\ b \in Good /\ c \in Good /\ d \in Good
    BY <1>2, Zenon DEF SpawnOk, SpawnFail, ChownOk, ChownFail
  <2> HIDE DEF a, b, c, d
  <2>4. WatchOpen(a) /\ WatchOpen(b) /\ WatchOpen(c) /\ WatchOpen(d)
    BY <2>2, Ready(v) DEF Ready, WatchOpen
  <2>5. Tracked(v)
    BY Ready(v) DEF Ready
  <2>6. v.controlCommandId # "invalid" => Tracked(a)
    BY <2>1, <2>2 DEF Tracked
  <2>7. Tracked(b) /\ Tracked(d)
    BY <2>2, <2>5 DEF Tracked
  <2>8. v.controlCommandId # "invalid" => Tracked(c)
    BY <2>1, <2>2 DEF Tracked
  <2>9. QED
    BY <2>3, <2>4, <2>6, <2>7, <2>8 DEF Ready, a, b, c, d
<1>4. ASSUME NEW p \in FreePids(v)
      PROVE  /\ [v EXCEPT !.timer = TRUE, !.controlPid = p,
                          !.procs = v.procs \cup {p}].timer
             /\ [v EXCEPT !.timer = TRUE, !.controlPid = p,
                          !.procs = v.procs \cup {p}].controlPid # NoPid
             /\ [v EXCEPT !.timer = TRUE, !.controlPid = p,
                          !.procs = v.procs \cup {p}].state = v.state
             /\ [v EXCEPT !.timer = TRUE, !.controlPid = p,
                          !.procs = v.procs \cup {p}].fds = v.fds
             /\ [v EXCEPT !.timer = TRUE, !.controlPid = p,
                          !.procs = v.procs \cup {p}].watched = v.watched
             /\ [v EXCEPT !.controlPid = p,
                          !.procs = v.procs \cup {p}].controlPid # NoPid
  <2>1. p # NoPid
    BY PidsNotNoPid DEF FreePids
  <2>2. QED
    BY <1>1, <2>1, Zenon DEF SocketT
<1>5. Ready([v EXCEPT !.timer = FALSE])
  BY TimerReady
<1>6. QED
  BY <1>3, <1>4, <1>5, Ready(v), Zenon DEF SpawnOk, SpawnFail, ChownOk, ChownFail

-----------------------------------------------------------------------------
(***************************************************************************)
(* The enter_* operators of the stop path map Ready records to Sane ones. *)
(***************************************************************************)

\* socket_enter_signal waits with the timer armed (and, but in the final
\* kill states, for the control pid).
LEMMA SignalWaitSane ==
    ASSUME NEW u, Ready(u), NEW st \in States,
           st \in Transient \ Finals => u.controlPid # NoPid
    PROVE  AllSane(SignalWait(u, st))
<1>1. Ready([u EXCEPT !.timer = TRUE])
  BY TimerReady
<1>2. /\ [u EXCEPT !.timer = TRUE].timer
      /\ [u EXCEPT !.timer = TRUE].controlPid = u.controlPid
  BY GoodType, Ready(u) DEF Ready, SocketT
<1>3. QED
  BY <1>1, <1>2, SetStateSane DEF SignalWait, AllSane

LEMMA EnterDeadSane ==
    ASSUME NEW u, Ready(u), NEW f \in Results
    PROVE  AllSane(EnterDead(u, f))
<1>1. Ready(Latch(u, f))
  BY LatchReady
<1>2. (IF Latch(u, f).result # "success" THEN "failed" ELSE "dead")
        \in States \ Transient
  BY DEF States, Transient
<1>3. QED
  BY <1>1, <1>2, SetStateSane DEF EnterDead, AllSane

LEMMA EnterSignalFinalSane ==
    ASSUME NEW u, Ready(u), NEW st \in Finals, NEW f \in Results
    PROVE  AllSane(EnterSignalFinal(u, st, f))
<1>1. Ready(Latch(u, f))
  BY LatchReady
<1>2. AllSane(SignalWait(Latch(u, f), st))
  BY <1>1, SignalWaitSane DEF Finals, States
<1>3. \A ok \in KillDone(Latch(u, f)) :
        AllSane(EnterDead(Latch(u, f), IF ok THEN "success" ELSE "resources"))
  BY <1>1, KillDoneType, EnterDeadSane DEF Results
<1>4. QED
  BY <1>2, <1>3 DEF EnterSignalFinal, AllSane

\* A command list started in state st: a spawned helper lands in st, a
\* failed spawn takes the failure exit F.
LEMMA SpawnedSane ==
    ASSUME Hyp, NEW v, Ready(v), v.controlCommandId # "invalid",
           NEW st \in States
    PROVE  AllSane({SetState(w, st) : w \in SpawnOk(v)})
BY SpawnReady, SetStateSane DEF AllSane

LEMMA EnterStopPostSane ==
    ASSUME Hyp, NEW u, Ready(u), NEW f \in Results
    PROVE  AllSane(EnterStopPost(u, f))
<1> DEFINE v == BeginCommandList(Latch(u, f), "StopPost")
<1>1. Ready(v) /\ v.controlCommandId = "StopPost"
  BY LatchReady, BeginReady DEF ExecIds
<1>2. AllSane({SetState(w, "stop-post") : w \in SpawnOk(v)})
  BY <1>1, SpawnedSane DEF States
<1>3. \A w \in SpawnFail(v) :
        AllSane(EnterSignalFinal(w, "final-sigterm", "resources"))
  BY <1>1, SpawnReady, EnterSignalFinalSane DEF Finals, Results
<1>4. AllSane(EnterSignalFinal(v, "final-sigterm", "success"))
  BY <1>1, EnterSignalFinalSane DEF Finals, Results
<1>5. QED
  BY <1>2, <1>3, <1>4 DEF EnterStopPost, AllSane

\* The stop-pre kill states wait for the stop-pre helper, which runs.
LEMMA EnterSignalStopPreSane ==
    ASSUME Hyp, NEW u, Ready(u), u.controlPid # NoPid, NEW st \in States,
           NEW f \in Results
    PROVE  AllSane(EnterSignalStopPre(u, st, f))
<1>1. Ready(Latch(u, f)) /\ Latch(u, f).controlPid # NoPid
  BY LatchReady DEF Latch
<1>2. AllSane(SignalWait(Latch(u, f), st))
  BY <1>1, SignalWaitSane
<1>3. \A ok \in KillDone(Latch(u, f)) :
        AllSane(EnterStopPost(Latch(u, f), IF ok THEN "success" ELSE "resources"))
  BY <1>1, KillDoneType, EnterStopPostSane DEF Results
<1>4. QED
  BY <1>2, <1>3 DEF EnterSignalStopPre, AllSane

LEMMA EnterStopPreSane ==
    ASSUME Hyp, NEW u, Ready(u), NEW f \in Results
    PROVE  AllSane(EnterStopPre(u, f))
<1> DEFINE v == BeginCommandList(Latch(u, f), "StopPre")
<1>1. Ready(v) /\ v.controlCommandId = "StopPre"
  BY LatchReady, BeginReady DEF ExecIds
<1>2. AllSane({SetState(w, "stop-pre") : w \in SpawnOk(v)})
  BY <1>1, SpawnedSane DEF States
<1>3. \A w \in SpawnFail(v) : AllSane(EnterStopPost(w, "resources"))
  BY <1>1, SpawnReady, EnterStopPostSane DEF Results
<1>4. AllSane(EnterStopPost(v, "success"))
  BY <1>1, EnterStopPostSane DEF Results
<1>5. QED
  BY <1>2, <1>3, <1>4 DEF EnterStopPre, AllSane

\* socket_watch_fds watches the open fds, or none after a failure.
LEMMA EnterListeningSane ==
    ASSUME Hyp, NEW u, Ready(u)
    PROVE  AllSane(EnterListening(u))
<1>1. u \in SocketT
  BY GoodType DEF Ready
<1>2. /\ [u EXCEPT !.watched = u.fds] \in Good
      /\ [u EXCEPT !.watched = NoPorts] \in Good
  BY <1>1, PortsConst, PortsGood DEF Ready, SocketT
<1>3. /\ Ready([u EXCEPT !.watched = u.fds])
      /\ Ready([u EXCEPT !.watched = NoPorts])
  BY <1>1, <1>2, Ready(u) DEF Ready, WatchOpen, Tracked, NoPorts, SocketT
<1>4. AllSane({SetState([u EXCEPT !.watched = u.fds], "listening")})
  BY <1>3, SetStateSane DEF States, Transient, AllSane
<1>5. AllSane(EnterStopPre([u EXCEPT !.watched = NoPorts], "resources"))
  BY <1>3, EnterStopPreSane DEF Results
<1>6. QED
  BY <1>4, <1>5 DEF EnterListening, AllSane

LEMMA EnterStartPostSane ==
    ASSUME Hyp, NEW u, Ready(u)
    PROVE  AllSane(EnterStartPost(u))
<1> DEFINE v == BeginCommandList(u, "StartPost")
<1>1. Ready(v) /\ v.controlCommandId = "StartPost"
  BY BeginReady DEF ExecIds
<1>2. AllSane({SetState(w, "start-post") : w \in SpawnOk(v)})
  BY <1>1, SpawnedSane DEF States
<1>3. \A w \in SpawnFail(v) : AllSane(EnterStopPre(w, "resources"))
  BY <1>1, SpawnReady, EnterStopPreSane DEF Results
<1>4. AllSane(EnterListening(v))
  BY <1>1, EnterListeningSane
<1>5. QED
  BY <1>2, <1>3, <1>4 DEF EnterStartPost, AllSane

\* socket_open_fds only opens fds; its rollback closes and unwatches all.
LEMMA OpenReady ==
    ASSUME NEW u, Ready(u)
    PROVE  /\ Ready(OpenOk(u))
           /\ \A w \in OpenFail(u) : Ready(w)
<1>1. u \in SocketT /\ u \in Good
  BY GoodType DEF Ready
<1>2. /\ OpenOk(u) \in Good
      /\ OpenFail(u) \subseteq Good
  BY <1>1, OpenGood
<1> DEFINE z == [u EXCEPT !.fds = NoPorts, !.watched = NoPorts]
<1> DEFINE o == [u EXCEPT !.fds = OpenedBefore(u)]
<1>3. /\ z.fds = NoPorts /\ z.watched = NoPorts
      /\ z.controlPid = u.controlPid /\ z.procs = u.procs
      /\ z.controlCommandId = u.controlCommandId
  BY <1>1, Zenon DEF SocketT
<1>4. /\ o.fds = OpenedBefore(u) /\ o.watched = u.watched
      /\ o.controlPid = u.controlPid /\ o.procs = u.procs
      /\ o.controlCommandId = u.controlCommandId
  BY <1>1 DEF SocketT
<1>5. \A p \in Ports : u.fds[p] => OpenedBefore(u)[p]
  BY DEF OpenedBefore
<1>6. /\ OpenOk(u).fds = AllPorts /\ OpenOk(u).watched = u.watched
      /\ OpenOk(u).controlPid = u.controlPid /\ OpenOk(u).procs = u.procs
      /\ OpenOk(u).controlCommandId = u.controlCommandId
  BY <1>1 DEF OpenOk, SocketT
<1>7. Ready(OpenOk(u))
  BY <1>2, <1>6, Ready(u) DEF Ready, WatchOpen, Tracked, AllPorts
<1>8. Ready(z) /\ Ready(o)
  <2>1. OpenedBefore(u) \in [Ports -> BOOLEAN]
    BY <1>1 DEF OpenedBefore, SocketT
  <2>2. [u EXCEPT !.fds = NoPorts] \in Good /\ o \in Good
    BY <1>1, <2>1, PortsConst, PortsGood
  <2>3. z \in Good
    BY <2>2, PortsConst, PortsGood, Zenon
  <2> HIDE DEF z, o
  <2>4. QED
    BY <1>3, <1>4, <1>5, <2>2, <2>3, Ready(u) DEF Ready, WatchOpen, Tracked, NoPorts
<1>9. QED
  BY <1>7, <1>8, Zenon DEF OpenFail

\* socket_enter_start_chown: open, then chown or run start-post.
LEMMA EnterStartChownSane ==
    ASSUME Hyp, NEW u, Ready(u)
    PROVE  AllSane(EnterStartChown(u))
<1> DEFINE v == [OpenOk(u) EXCEPT !.controlPid = NoPid,
                                  !.controlCommandId = "StartChown",
                                  !.controlCommand = 0]
<1>1. Ready(OpenOk(u)) /\ \A w \in OpenFail(u) : Ready(w)
  BY OpenReady
<1>2. OpenOk(u) \in SocketT
  BY <1>1, GoodType DEF Ready
<1>3. Ready(v) /\ v.controlCommandId = "StartChown"
  <2>1. v \in Good
    BY <1>2, ResetValues, GoodReset, Zenon DEF SocketT, ExecIds
  <2>2. /\ v.controlPid = NoPid /\ v.controlCommandId = "StartChown"
        /\ v.watched = OpenOk(u).watched /\ v.fds = OpenOk(u).fds
    BY <1>2, Zenon DEF SocketT
  <2> HIDE DEF v
  <2>3. QED
    BY <1>1, <2>1, <2>2 DEF Ready, WatchOpen, Tracked
<1>4. \A w \in OpenFail(u) : AllSane(EnterStopPre(w, "resources"))
  BY <1>1, EnterStopPreSane DEF Results
<1>5. AllSane({SetState(w, "start-chown") : w \in ChownOk(v)})
  <2>1. \A w \in ChownOk(v) : Ready(w) /\ w.controlPid # NoPid
    BY <1>3, SpawnReady
  <2>2. QED
    BY <2>1, SetStateSane DEF States, AllSane
<1>6. \A w \in ChownFail(v) : AllSane(EnterStopPre(w, "resources"))
  BY <1>3, SpawnReady, EnterStopPreSane DEF Results
<1>7. AllSane(EnterStartPost(OpenOk(u)))
  BY <1>1, EnterStartPostSane
<1>8. QED
  BY <1>4, <1>5, <1>6, <1>7 DEF EnterStartChown, AllSane

LEMMA EnterStartPreSane ==
    ASSUME Hyp, NEW u, Ready(u)
    PROVE  AllSane(EnterStartPre(u))
<1> DEFINE v == BeginCommandList(u, "StartPre")
<1>1. Ready(v) /\ v.controlCommandId = "StartPre"
  BY BeginReady DEF ExecIds
<1>2. AllSane({SetState(w, "start-pre") : w \in SpawnOk(v)})
  BY <1>1, SpawnedSane DEF States
<1>3. \A w \in SpawnFail(v) : AllSane(EnterDead(w, "resources"))
  BY <1>1, SpawnReady, EnterDeadSane DEF Results
<1>4. AllSane(EnterStartChown(v))
  BY <1>1, EnterStartChownSane
<1>5. QED
  BY <1>2, <1>3, <1>4 DEF EnterStartPre, AllSane

-----------------------------------------------------------------------------
(***************************************************************************)
(* socket_run_next, the SIGCHLD dispatch, the timer and the service.     *)
(***************************************************************************)

LEMMA RunNextFailSane ==
    ASSUME Hyp, NEW u, Ready(u)
    PROVE  AllSane(RunNextFail(u))
BY EnterStopPreSane, EnterDeadSane, EnterSignalFinalSane
   DEF RunNextFail, Results, Finals

\* socket_run_next spawns the next command in the same transient state; the
\* helper it spawns is both watched and timed.
LEMMA RunNextSane ==
    ASSUME Hyp, NEW u, Ready(u), Rest(u), u.state \in Transient,
           u.controlCommandId \in ExecIds,
           u.controlCommand < cfg.exec[u.controlCommandId]
    PROVE  AllSane(RunNext(u))
<1> DEFINE v == [u EXCEPT !.controlPid = NoPid,
                          !.controlCommand = u.controlCommand + 1]
<1>1. u \in SocketT
  BY GoodType DEF Ready
<1>2. /\ u.controlCommand + 1 \in 0..MaxCommands
      /\ u.controlCommand + 1 <= cfg.exec[u.controlCommandId]
  <2>1. cfg.exec[u.controlCommandId] \in 0..MaxCommands
    BY DEF Hyp, ConfigT
  <2>2. u.controlCommand \in 0..MaxCommands
    BY <1>1 DEF SocketT
  <2>3. QED
    BY <2>1, <2>2, MaxCommandsAssumption
<1>3. /\ v \in SocketT
      /\ v.controlPid = NoPid
      /\ v.controlCommand = u.controlCommand + 1
      /\ v.controlCommandId = u.controlCommandId
      /\ v.state = u.state /\ v.fds = u.fds /\ v.watched = u.watched
  BY <1>1, <1>2, ResetValues, Zenon DEF SocketT
<1>4. Ready(v) /\ Rest(v) /\ v.state \in Transient
  <2>1. v \in Good
    BY <1>2, <1>3, GoodCursor
  <2> HIDE DEF v
  <2>2. QED
    BY <1>3, <2>1, Ready(u), Rest(u), u.state \in Transient
       DEF Ready, WatchOpen, Tracked, Rest
<1>5. v.controlCommandId # "invalid"
  BY <1>3 DEF ExecIds
<1>6. AllSane(SpawnOk(v))
  <2>1. SUFFICES ASSUME NEW w \in SpawnOk(v)
                 PROVE  Sane(w)
    BY DEF AllSane
  <2>2. /\ Ready(w) /\ w.timer /\ w.controlPid # NoPid
        /\ w.state = v.state /\ w.fds = v.fds /\ w.watched = v.watched
    BY <1>4, <1>5, SpawnReady
  <2> HIDE DEF v
  <2>3. QED
    BY <1>4, <2>2 DEF Sane, Rest, Wake
<1>7. \A w \in SpawnFail(v) : AllSane(RunNextFail(w))
  BY <1>4, SpawnReady, RunNextFailSane
<1>8. QED
  BY <1>6, <1>7, Zenon DEF RunNext, AllSane

\* The dispatch of socket_sigchld_event, once the control pid is reaped.
LEMMA ChildDoneSane ==
    ASSUME Hyp, NEW u, Ready(u), u.controlPid = NoPid, NEW f \in Results
    PROVE  AllSane(ChildDone(u, f))
<1> DEFINE v == [u EXCEPT !.controlCommandId = "invalid", !.controlCommand = 0]
<1>1. u \in SocketT
  BY GoodType DEF Ready
<1>2. /\ v \in SocketT
      /\ v.controlCommand = 0 /\ v.controlPid = NoPid
      /\ v.fds = u.fds /\ v.watched = u.watched
  BY <1>1, ResetValues, Zenon DEF SocketT
<1>3. Ready(v)
  <2>1. v \in Good
    BY <1>2, GoodReset
  <2> HIDE DEF v
  <2>2. QED
    BY <1>2, <2>1, Ready(u) DEF Ready, WatchOpen, Tracked
<1>4. /\ AllSane(EnterStartChown(v))
      /\ AllSane(EnterSignalFinal(v, "final-sigterm", f))
      /\ AllSane(EnterStartPost(v))
      /\ AllSane(EnterStopPre(v, f))
      /\ AllSane(EnterListening(v))
      /\ AllSane(EnterStopPost(v, f))
      /\ AllSane(EnterDead(v, f))
  BY <1>3, EnterStartChownSane, EnterSignalFinalSane, EnterStartPostSane,
     EnterStopPreSane, EnterListeningSane, EnterStopPostSane, EnterDeadSane
     DEF Finals
<1>5. QED
  BY <1>4, Zenon DEF ChildDone

\* socket_timer_event; in stop-pre and stop-pre-sigterm the helper runs.
LEMMA TimerDoneSane ==
    ASSUME Hyp, NEW u, Ready(u),
           u.state \in Transient \ Finals => u.controlPid # NoPid
    PROVE  AllSane(TimerDone(u))
<1>1. /\ AllSane(EnterSignalFinal(u, "final-sigterm", "timeout"))
      /\ AllSane(EnterSignalFinal(u, "final-sigkill", "timeout"))
      /\ AllSane(EnterStopPre(u, "timeout"))
      /\ AllSane(EnterStopPost(u, "timeout"))
      /\ AllSane(EnterDead(u, "timeout"))
  BY EnterSignalFinalSane, EnterStopPreSane, EnterStopPostSane, EnterDeadSane
     DEF Finals, Results
<1>2. u.state \in {"stop-pre", "stop-pre-sigterm"} =>
        /\ AllSane(EnterSignalStopPre(u, "stop-pre-sigterm", "timeout"))
        /\ AllSane(EnterSignalStopPre(u, "stop-pre-sigkill", "timeout"))
  BY EnterSignalStopPreSane DEF States, Results, Transient, Finals
<1>3. QED
  BY <1>1, <1>2, Zenon DEF TimerDone

\* socket_trigger_notify, on a Sane unit.
LEMMA TriggerNotifySane ==
    ASSUME Hyp, NEW u, Sane(u), NEW st, NEW fp \in BOOLEAN
    PROVE  AllSane(TriggerNotify(u, st, fp))
<1>1. Ready(u)
  BY DEF Sane
<1>2. /\ AllSane(NotifyServiceDead(u, fp))
      /\ AllSane(NotifyServiceDead(u, FALSE))
  BY <1>1, Sane(u), EnterStopPreSane, EnterListeningSane
     DEF NotifyServiceDead, Results, AllSane
<1>3. AllSane({SetState(u, "running")})
  BY <1>1, SetStateSane DEF States, Transient, AllSane
<1>4. AllSane({u})
  BY DEF AllSane
<1>5. QED
  BY <1>2, <1>3, <1>4, Zenon DEF TriggerNotify

-----------------------------------------------------------------------------
(***************************************************************************)
(* The handlers keep the unit Sane.                                       *)
(***************************************************************************)

LEMMA SInvHyp ==
    ASSUME SInv
    PROVE  Hyp /\ s \in Good /\ Sane(s) /\ Ready(s)
BY IInvHyp DEF SInv, Sane

\* Reaping the control child: what socket_sigchld_event starts from.
LEMMA ReapReady ==
    ASSUME NEW u, Sane(u), NEW p \in Pids, u.controlPid = p, NEW f \in Results
    PROVE  LET v == Latch([u EXCEPT !.controlPid = NoPid,
                                    !.procs = u.procs \ {p}], f)
           IN  /\ Ready(v) /\ Rest(v) /\ v.state \in Transient
               /\ v.controlPid = NoPid
               /\ v.controlCommand = u.controlCommand
               /\ v.controlCommandId = u.controlCommandId
<1> DEFINE r == [u EXCEPT !.controlPid = NoPid, !.procs = u.procs \ {p}]
<1> DEFINE v == Latch(r, f)
<1>1. u \in Good /\ u \in SocketT
  BY GoodType DEF Sane, Ready
<1>2. /\ v \in Good
      /\ v.controlCommand = u.controlCommand
      /\ v.controlCommandId = u.controlCommandId
  <2>1. u.procs \ {p} \in SUBSET Pids
    BY <1>1 DEF SocketT
  <2>2. /\ r \in SocketT
        /\ r.controlCommand = u.controlCommand
        /\ r.controlCommandId = u.controlCommandId
    BY <1>1, <2>1, ResetValues, Zenon DEF SocketT
  <2> HIDE DEF r
  <2>3. r \in Good
    BY <1>1, <2>2, GoodKeep
  <2>4. QED
    BY <2>2, <2>3, LatchGood DEF Latch
<1>3. /\ r.controlPid = NoPid /\ r.state = u.state
      /\ r.fds = u.fds /\ r.watched = u.watched
  BY <1>1, Zenon DEF SocketT
<1>4. /\ v.controlPid = NoPid /\ v.state = u.state
      /\ v.fds = u.fds /\ v.watched = u.watched
  <2> HIDE DEF r
  <2> QED
    BY <1>3 DEF Latch
<1>5. u.state \in Transient
  BY PidsNotNoPid, Sane(u) DEF Sane, Wake
<1>6. /\ Ready(v) /\ Rest(v) /\ v.state \in Transient
      /\ v.controlPid = NoPid
      /\ v.controlCommand = u.controlCommand
      /\ v.controlCommandId = u.controlCommandId
  <2> HIDE DEF r, v
  <2> QED
    BY <1>2, <1>4, <1>5, Sane(u) DEF Sane, Ready, WatchOpen, Tracked, Rest
<1>7. QED
  BY <1>6, Zenon

\* The tail of socket_sigchld_event, for the reaped record v of u.
LEMMA ChildExitBodySane ==
    ASSUME Hyp, NEW u \in Good, NEW v, Ready(v), Rest(v), v.state \in Transient,
           v.controlPid = NoPid, NEW f \in Results, NEW x,
           v.controlCommand = u.controlCommand,
           v.controlCommandId = u.controlCommandId,
           IF /\ u.controlCommand # 0
              /\ u.controlCommand < cfg.exec[u.controlCommandId]
              /\ f = "success"
           THEN x \in RunNext(v)
           ELSE x \in ChildDone(v, f)
    PROVE  Sane(x)
<1>1. CASE /\ u.controlCommand # 0
           /\ u.controlCommand < cfg.exec[u.controlCommandId]
           /\ f = "success"
  <2>1. v.controlCommandId \in ExecIds
    BY <1>1 DEF Good
  <2>2. AllSane(RunNext(v))
    BY <1>1, <2>1, RunNextSane
  <2>3. QED
    BY <1>1, <2>2 DEF AllSane
<1>2. CASE ~(/\ u.controlCommand # 0
             /\ u.controlCommand < cfg.exec[u.controlCommandId]
             /\ f = "success")
  BY <1>2, ChildDoneSane DEF AllSane
<1>3. QED
  BY <1>1, <1>2

LEMMA ChildExitSane ==
    ASSUME SInv, NEW p \in Pids, ChildExit(p)
    PROVE  Sane(s')
<1>1. Hyp /\ s \in Good /\ Sane(s)
  BY SInvHyp
<1>2. ASSUME p # s.controlPid, s' = [s EXCEPT !.procs = s.procs \ {p}]
      PROVE  Sane(s')
  <2>1. s \in SocketT
    BY <1>1, GoodType
  <2>2. /\ s' \in Good
        /\ s'.procs = s.procs \ {p}
        /\ s'.state = s.state /\ s'.timer = s.timer
        /\ s'.controlPid = s.controlPid
        /\ s'.controlCommandId = s.controlCommandId
        /\ s'.fds = s.fds /\ s'.watched = s.watched
    BY <1>1, <1>2, <2>1, DropProcGood DEF SocketT
  <2>3. QED
    BY <1>1, <1>2, <2>2 DEF Sane, Ready, WatchOpen, Tracked, Rest, Wake
<1>3. ASSUME p = s.controlPid,
             \E code \in ExitResults :
                LET f == IF s.controlCommand # 0 /\ cfg.ignore[s.controlCommandId]
                         THEN "success" ELSE code
                    v == Latch([s EXCEPT !.controlPid = NoPid,
                                         !.procs = s.procs \ {p}], f)
                IN  IF /\ s.controlCommand # 0
                       /\ s.controlCommand < cfg.exec[s.controlCommandId]
                       /\ f = "success"
                    THEN s' \in RunNext(v)
                    ELSE s' \in ChildDone(v, f)
      PROVE  Sane(s')
  <2>1. PICK code \in ExitResults :
            LET f == IF s.controlCommand # 0 /\ cfg.ignore[s.controlCommandId]
                     THEN "success" ELSE code
                v == Latch([s EXCEPT !.controlPid = NoPid,
                                     !.procs = s.procs \ {p}], f)
            IN  IF /\ s.controlCommand # 0
                   /\ s.controlCommand < cfg.exec[s.controlCommandId]
                   /\ f = "success"
                THEN s' \in RunNext(v)
                ELSE s' \in ChildDone(v, f)
    BY <1>3, Zenon
  <2> DEFINE f == IF s.controlCommand # 0 /\ cfg.ignore[s.controlCommandId]
                  THEN "success" ELSE code
  <2>2. f \in Results
    BY Zenon DEF ExitResults, Results
  <2> DEFINE v == Latch([s EXCEPT !.controlPid = NoPid,
                                  !.procs = s.procs \ {p}], f)
  <2>3. /\ Ready(v) /\ Rest(v) /\ v.state \in Transient
        /\ v.controlPid = NoPid
        /\ v.controlCommand = s.controlCommand
        /\ v.controlCommandId = s.controlCommandId
    <3> HIDE DEF f
    <3> QED
      BY <1>1, <1>3, <2>2, ReapReady, Zenon
  <2>4. IF /\ s.controlCommand # 0
           /\ s.controlCommand < cfg.exec[s.controlCommandId]
           /\ f = "success"
        THEN s' \in RunNext(v)
        ELSE s' \in ChildDone(v, f)
    BY <2>1, Zenon
  <2> HIDE DEF f, v
  <2>5. QED
    BY <1>1, <2>2, <2>3, <2>4, ChildExitBodySane
<1>4. QED
  BY <1>2, <1>3, Zenon DEF ChildExit

\* socket_start resets the result of a stopped unit and enters start-pre.
LEMMA StartSane ==
    ASSUME SInv, Start
    PROVE  Sane(s')
<1>1. Hyp /\ s \in Good /\ Ready(s)
  BY SInvHyp
<1>2. Ready([s EXCEPT !.result = "success"])
  <2>1. s \in SocketT
    BY <1>1, GoodType
  <2>2. /\ [s EXCEPT !.result = "success"] \in Good
        /\ [s EXCEPT !.result = "success"].controlPid = s.controlPid
        /\ [s EXCEPT !.result = "success"].controlCommandId = s.controlCommandId
        /\ [s EXCEPT !.result = "success"].procs = s.procs
        /\ [s EXCEPT !.result = "success"].fds = s.fds
        /\ [s EXCEPT !.result = "success"].watched = s.watched
    BY <1>1, <2>1, ResultGood DEF Results, SocketT
  <2>3. QED
    BY <1>1, <2>2 DEF Ready, WatchOpen, Tracked
<1>3. QED
  BY <1>1, <1>2, EnterStartPreSane DEF Start, AllSane

LEMMA StopSane ==
    ASSUME SInv, Stop
    PROVE  Sane(s')
<1>1. Hyp /\ Sane(s) /\ Ready(s)
  BY SInvHyp
<1>2. s.state \in {"start-pre", "start-chown", "start-post"} =>
        AllSane(EnterSignalStopPre(s, "stop-pre-sigterm", "success"))
  <2>1. s.state \in {"start-pre", "start-chown", "start-post"} =>
          s.controlPid # NoPid
    BY <1>1 DEF Sane, Wake, Transient, Finals
  <2>2. QED
    BY <1>1, <2>1, EnterSignalStopPreSane DEF States, Results
<1>3. AllSane(EnterStopPre(s, "success"))
  BY <1>1, EnterStopPreSane DEF Results
<1>4. QED
  BY <1>1, <1>2, <1>3 DEF Stop, AllSane

\* socket_fd_event: the drain with a stop job pending, running, or the
\* stop path.
LEMMA FdEventSane ==
    ASSUME SInv, FdEvent \/ FdError
    PROVE  Sane(s')
<1>1. Hyp /\ s \in Good /\ Sane(s) /\ Ready(s)
  BY SInvHyp
<1>2. s.state = "listening"
  BY DEF FdEvent, FdError
<1> DEFINE z == [s EXCEPT !.fds = NoPorts, !.watched = NoPorts]
<1>3. Sane(z)
  <2>1. s \in SocketT
    BY <1>1, GoodType
  <2>2. /\ z \in Good
        /\ z.fds = NoPorts /\ z.watched = NoPorts
        /\ z.state = s.state /\ z.timer = s.timer
        /\ z.controlPid = s.controlPid /\ z.procs = s.procs
        /\ z.controlCommandId = s.controlCommandId
    BY <1>1, <2>1, DrainGood, Zenon DEF SocketT
  <2> HIDE DEF z
  <2>3. QED
    BY <1>1, <2>2 DEF Sane, Ready, WatchOpen, Tracked, Rest, Wake, NoPorts
<1>4. /\ AllSane({SetState(s, "running")})
      /\ AllSane(EnterStopPre(s, "resources"))
  BY <1>1, SetStateSane, EnterStopPreSane DEF States, Transient, Results, AllSane
<1>5. QED
  BY <1>3, <1>4, Zenon DEF FdEvent, FdError, AllSane

\* socket_timer_event: the one-shot timer is gone when the handler runs.
LEMMA TimerFiresSane ==
    ASSUME SInv, TimerFires
    PROVE  Sane(s')
<1>1. Hyp /\ Sane(s) /\ Ready(s) /\ s \in SocketT
  BY SInvHyp, GoodType
<1>2. Ready([s EXCEPT !.timer = FALSE])
  BY <1>1, TimerReady
<1>3. /\ [s EXCEPT !.timer = FALSE].state = s.state
      /\ [s EXCEPT !.timer = FALSE].controlPid = s.controlPid
  BY <1>1 DEF SocketT
<1>4. [s EXCEPT !.timer = FALSE].state \in Transient \ Finals =>
        [s EXCEPT !.timer = FALSE].controlPid # NoPid
  BY <1>1, <1>3 DEF Sane, Wake
<1>5. QED
  BY <1>1, <1>2, <1>4, TimerDoneSane DEF TimerFires, AllSane

\* socket_reset_failed: a failed unit becomes dead, any unit forgets its
\* result.
LEMMA ResetFailedSane ==
    ASSUME SInv, ResetFailed
    PROVE  Sane(s')
<1>1. Hyp /\ s \in Good /\ Sane(s) /\ Ready(s)
  BY SInvHyp
<1> DEFINE b == IF s.state = "failed" THEN SetState(s, "dead") ELSE s
<1>2. Sane(b)
  <2>1. "dead" \in States \ Transient
    BY DEF States, Transient
  <2>2. QED
    BY <1>1, <2>1, SetStateSane
<1>3. b \in Good /\ b \in SocketT
  BY <1>2, GoodType DEF Sane, Ready
<1>4. /\ [b EXCEPT !.result = "success"] \in Good
      /\ [b EXCEPT !.result = "success"].state = b.state
      /\ [b EXCEPT !.result = "success"].timer = b.timer
      /\ [b EXCEPT !.result = "success"].controlPid = b.controlPid
      /\ [b EXCEPT !.result = "success"].controlCommandId = b.controlCommandId
      /\ [b EXCEPT !.result = "success"].procs = b.procs
      /\ [b EXCEPT !.result = "success"].fds = b.fds
      /\ [b EXCEPT !.result = "success"].watched = b.watched
  BY <1>3, ResultGood DEF Results, SocketT
<1>5. Sane([b EXCEPT !.result = "success"])
  <2> HIDE DEF b
  <2> QED
    BY <1>2, <1>4 DEF Sane, Ready, WatchOpen, Tracked, Rest, Wake
<1>6. QED
  BY <1>5 DEF ResetFailed

\* The service's state changes, through socket_trigger_notify.
LEMMA ServiceSane ==
    ASSUME SInv, SvcStartRequested \/ SvcJobRuns \/ SvcUp \/ SvcDown
    PROVE  Sane(s')
<1>1. Hyp /\ Sane(s)
  BY SInvHyp
<1>2. \A st : \A fp \in BOOLEAN : AllSane(TriggerNotify(s, st, fp))
  BY <1>1, TriggerNotifySane
<1>3. \A st : AllSane(TriggerNotify(s, st, FALSE)) /\ AllSane(TriggerNotify(s, st, TRUE))
  BY <1>2
<1>4. QED
  BY <1>1, <1>3 DEF SvcStartRequested, SvcJobRuns, SvcUp, SvcDown, AllSane

LEMMA InitSInv ==
    ASSUME Init
    PROVE  SInv
<1>1. IInv
  BY InitIInv
<1>2. s = InitSocket
  BY DEF Init
<1>3. QED
  BY <1>1, <1>2 DEF SInv, IInv, Sane, Ready, WatchOpen, Tracked, Rest, Wake,
     InitSocket, NoPorts, Transient

LEMMA NextSInv ==
    ASSUME SInv, [Next]_vars
    PROVE  SInv'
<1>1. IInv'
  BY NextIInv DEF SInv
<1>2. Sane(s')
  <2>1. CASE QueueStop \/ CancelStop \/ SvcStartRequested \/ UNCHANGED vars
    <3>1. s' = s
      BY <2>1 DEF QueueStop, CancelStop, SvcStartRequested, vars
    <3>2. QED
      BY <3>1, SInvHyp
  <2>2. QED
    BY <2>1, StartSane, StopSane, FdEventSane, ChildExitSane, TimerFiresSane,
       ResetFailedSane, ServiceSane DEF Next
<1>3. cfg' = cfg
  BY Zenon DEF Next, vars, Start, QueueStop, CancelStop, Stop, FdEvent, FdError,
     ChildExit, TimerFires, ResetFailed, SvcStartRequested, SvcJobRuns, SvcUp,
     SvcDown
<1>4. QED
  BY <1>1, <1>2, <1>3 DEF SInv, Sane, Ready, Good

-----------------------------------------------------------------------------
\* SInv holds in every reachable state.
LEMMA SInvHolds == Spec => []SInv
<1>1. Init => SInv
  BY InitSInv
<1>2. SInv /\ [Next]_vars => SInv'
  BY NextSInv
<1>3. QED
  BY <1>1, <1>2, PTL DEF Spec

(***************************************************************************)
(* Fds live exactly as long as the states that need them (FdLifetime),    *)
(* for every value of the constants: an fd is watched only while the unit *)
(* is listening and the fd is open, and open only in a state that keeps   *)
(* fds, across socket_set_state, the rollback and the early return of     *)
(* socket_open_fds, the drain of socket_enter_running and a failed        *)
(* socket_watch_fds.                                                      *)
(***************************************************************************)
THEOREM FdLifetimeHolds == Spec => []FdLifetime
<1>1. SInv => FdLifetime
  BY DEF SInv, Sane, Ready, WatchOpen, Rest, FdLifetime
<1>2. QED
  BY <1>1, SInvHolds, PTL

(***************************************************************************)
(* The watched control pid is a live helper, only in a transient state,  *)
(* and the command cursor points into the list it names                  *)
(* (ControlChildTracked), for every value of the constants: every         *)
(* socket_spawn installs the pid together with its list, socket_set_state *)
(* drops both when it leaves the transient states, and a SIGCHLD of the   *)
(* control pid unwatches it before anything else.                         *)
(***************************************************************************)
THEOREM ControlChildTrackedHolds == Spec => []ControlChildTracked
<1>1. SInv => ControlChildTracked
  BY DEF SInv, IInv, Good, Sane, Ready, Tracked, Wake, ControlChildTracked
<1>2. QED
  BY <1>1, SInvHolds, PTL

(***************************************************************************)
(* A transient state can always be left and the timer fires only in one   *)
(* (WakeupPending), for every value of the constants: every path of the  *)
(* socket_enter_* functions into a transient state either arms the timer *)
(* (socket_spawn, socket_enter_signal) or installs a control pid          *)
(* (socket_chown), so socket_timer_event never meets a state its switch  *)
(* does not handle.                                                       *)
(***************************************************************************)
THEOREM WakeupPendingHolds == Spec => []WakeupPending
<1>1. SInv => WakeupPending
  BY DEF SInv, Sane, Wake, WakeupPending
<1>2. QED
  BY <1>1, SInvHolds, PTL

(***************************************************************************)
(* Every transient state but final-sigterm and final-sigkill has a        *)
(* running control child (ControlChildRunning), for every value of the    *)
(* constants: each socket_enter_* that enters such a state does so from  *)
(* a successful socket_spawn or socket_chown, socket_enter_signal enters *)
(* the stop-pre kill states only while the stop-pre helper runs, and a   *)
(* failed spawn of socket_run_next leaves by the failure exit.  This is  *)
(* the fact socket_coldplug's -EBADMSG check relies on.                   *)
(***************************************************************************)
THEOREM ControlChildRunningHolds == Spec => []ControlChildRunning
<1>1. SInv => ControlChildRunning
  BY DEF SInv, Sane, Wake, Finals, ControlChildRunning
<1>2. QED
  BY <1>1, SInvHolds, PTL
=============================================================================
