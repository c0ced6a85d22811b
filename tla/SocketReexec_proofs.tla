------------------------- MODULE SocketReexec_proofs -------------------------
(***************************************************************************)
(* Proofs about the socket unit across re-execs of the manager: the       *)
(* invariant SInv of SocketSafety_proofs survives socket_serialize,       *)
(* socket_deserialize_item, socket_distribute_fds and socket_coldplug     *)
(* when coldplug's own calls succeed, and a transient state with a        *)
(* control child then comes back intact (ReexecKeepsControlChild).        *)
(*                                                                         *)
(* The argument: the reloaded unit is dead with the old control pid, the *)
(* old fds and nothing watched, so it is Ready; coldplug re-arms the      *)
(* timer of a transient state that has a control pid and then calls      *)
(* socket_set_state, which SocketSafety_proofs shows leaves a Sane        *)
(* record.  A transient state without a control pid is refused; SInv      *)
(* says that this happens only in the final kill states, which keep no   *)
(* fds, so the dead unit coldplug leaves behind is Sane as well.           *)
(***************************************************************************)
EXTENDS SocketReexec, SocketSafety_proofs

\* The unit as socket_init and socket_deserialize_item rebuild it.
Reloaded == Deserialize(Serialize(s), s.procs)

\* The reloaded unit once socket_distribute_fds handed it the ports m.
Redist(m) == [Reloaded EXCEPT !.fds = [p \in Ports |-> Reloaded.fds[p] \/ p \in m]]
RedistState(m) == IF m # {} THEN "listening" ELSE s.state

(***************************************************************************)
(* The outcome of socket_coldplug's three stages when none of its calls  *)
(* fails: the timer re-armed for a transient state, the missing fds       *)
(* opened for a state that keeps fds, the fds watched for listening.      *)
(***************************************************************************)
CpTimer(u, ds) == IF ds \in Transient THEN [u EXCEPT !.timer = TRUE] ELSE u
CpOpen(u, ds) == IF ds \in OpenStates THEN OpenOk(u) ELSE u
CpWatch(u, ds) == IF ds = "listening" THEN [u EXCEPT !.watched = u.fds] ELSE u
CpDone(u, ds) == CpWatch(CpOpen(CpTimer(u, ds), ds), ds)

-----------------------------------------------------------------------------
(***************************************************************************)
(* socket_coldplug in closed form, when it cannot fail.                   *)
(***************************************************************************)

LEMMA ColdplugOutcome ==
    ASSUME ~ColdplugCanFail, NEW u, NEW ds, ds # u.state,
           NEW x \in Coldplug(u, ds)
    PROVE  x = IF ds \in Transient /\ u.controlPid = NoPid THEN u
               ELSE SetState(CpDone(u, ds), ds)
<1> DEFINE S1 == WatchTransient(u, ds)
           S2 == UNION {IF r[1] THEN ReopenFds(r[2], ds) ELSE {r} : r \in S1}
           S3 == UNION {IF r[1] THEN RewatchFds(r[2], ds) ELSE {r} : r \in S2}
<1>0. PICK r3 \in S3 : x = IF r3[1] THEN SetState(r3[2], ds) ELSE r3[2]
  BY ds # u.state DEF Coldplug
<1>1. CASE ds \in Transient /\ u.controlPid = NoPid
  <2>1. S1 = {<<FALSE, u>>}
    BY <1>1 DEF WatchTransient
  <2>2. PICK r2 \in S1 : r3 \in IF r2[1] THEN RewatchFds(r2[2], ds) ELSE {r2}
    BY <2>1, Zenon
  <2>3. r2 = <<FALSE, u>>
    BY <2>1, <2>2
  <2>4. r3 = <<FALSE, u>>
    BY <2>2, <2>3
  <2>5. QED
    BY <1>0, <1>1, <2>4
<1>2. CASE ~(ds \in Transient /\ u.controlPid = NoPid)
  <2> DEFINE t == CpTimer(u, ds)
  <2> DEFINE o == CpOpen(t, ds)
  <2> DEFINE w == CpWatch(o, ds)
  <2>1. S1 = {<<TRUE, t>>}
    BY <1>2, ~ColdplugCanFail DEF WatchTransient, CpTimer
  <2>2. ReopenFds(t, ds) = {<<TRUE, o>>}
    BY ~ColdplugCanFail DEF ReopenFds, CpOpen
  <2>3. RewatchFds(o, ds) = {<<TRUE, w>>}
    BY ~ColdplugCanFail DEF RewatchFds, CpWatch
  <2> HIDE DEF t, o, w
  <2>4. PICK r2 \in S2 : r3 \in IF r2[1] THEN RewatchFds(r2[2], ds) ELSE {r2}
    BY Zenon
  <2>5. PICK r1 \in S1 : r2 \in IF r1[1] THEN ReopenFds(r1[2], ds) ELSE {r1}
    BY Zenon
  <2>6. r1 = <<TRUE, t>>
    BY <2>1, <2>5
  <2>7. r2 = <<TRUE, o>>
    BY <2>2, <2>5, <2>6
  <2>8. r3 = <<TRUE, w>>
    BY <2>3, <2>4, <2>7
  <2>9. QED
    BY <1>0, <1>2, <2>8 DEF CpDone, t, o, w
<1>3. QED
  BY <1>1, <1>2

-----------------------------------------------------------------------------
(***************************************************************************)
(* The reloaded unit.                                                     *)
(***************************************************************************)

\* socket_init and the deserialized lines: a dead unit with the old result,
\* control pid, command list and fds, nothing watched and no timer.
LEMMA ReloadedFacts ==
    ASSUME SInv
    PROVE  /\ Ready(Reloaded)
           /\ Reloaded.state = "dead" /\ Reloaded.timer = FALSE
           /\ Reloaded.watched = NoPorts
           /\ Reloaded.controlPid = s.controlPid
           /\ Reloaded.controlCommandId = s.controlCommandId
           /\ Reloaded.fds = s.fds
<1>1. Hyp /\ s \in SocketT /\ Ready(s)
  BY SInvHyp, GoodType
<1> DEFINE n == IF s.controlCommandId \in ExecIds /\ cfg.exec[s.controlCommandId] > 0
                THEN 1 ELSE 0
<1>2. /\ n \in 0..MaxCommands
      /\ n # 0 => s.controlCommandId \in ExecIds /\ n <= cfg.exec[s.controlCommandId]
  <2>1. s.controlCommandId \in ExecIds => cfg.exec[s.controlCommandId] \in 0..MaxCommands
    BY <1>1 DEF Hyp, ConfigT
  <2>2. QED
    BY <2>1, MaxCommandsAssumption
<1>3. InitSocket \in SocketT
  BY PortsConst, ResetValues DEF InitSocket, SocketT, States, Results
<1>4. /\ s.result \in Results
      /\ s.controlPid \in Pids \cup {NoPid}
      /\ s.controlCommandId \in ExecIds \cup {"invalid"}
      /\ s.fds \in [Ports -> BOOLEAN]
      /\ s.procs \in SUBSET Pids
  BY <1>1 DEF SocketT
<1>5. Reloaded \in SocketT
  BY <1>2, <1>3, <1>4, Zenon DEF Reloaded, Deserialize, Serialize, SocketT
<1>6. /\ Reloaded.state = "dead" /\ Reloaded.timer = FALSE
      /\ Reloaded.watched = NoPorts
      /\ Reloaded.controlPid = s.controlPid
      /\ Reloaded.controlCommandId = s.controlCommandId
      /\ Reloaded.controlCommand = n
      /\ Reloaded.fds = s.fds /\ Reloaded.procs = s.procs
  BY Zenon DEF Reloaded, Deserialize, Serialize, InitSocket
<1> HIDE DEF n
<1>7. Reloaded \in Good
  BY <1>2, <1>5, <1>6 DEF Good
<1>8. QED
  BY <1>1, <1>6, <1>7 DEF Ready, WatchOpen, Tracked, NoPorts

\* socket_distribute_fds only adds fds, and forces listening when it does.
LEMMA RedistFacts ==
    ASSUME SInv, NEW m \in SUBSET Ports
    PROVE  /\ DistributeFds(Reloaded, s.state, m) = <<Redist(m), RedistState(m)>>
           /\ Ready(Redist(m))
           /\ Redist(m).state = "dead" /\ Redist(m).timer = FALSE
           /\ Redist(m).watched = NoPorts
           /\ Redist(m).controlPid = s.controlPid
           /\ Redist(m).controlCommandId = s.controlCommandId
           /\ \A p \in Ports : s.fds[p] => Redist(m).fds[p]
           /\ m = {} => Redist(m).fds = s.fds
<1>1. /\ Ready(Reloaded)
      /\ Reloaded.state = "dead" /\ Reloaded.timer = FALSE
      /\ Reloaded.watched = NoPorts
      /\ Reloaded.controlPid = s.controlPid
      /\ Reloaded.controlCommandId = s.controlCommandId
      /\ Reloaded.fds = s.fds
  BY ReloadedFacts
<1>2. Reloaded \in SocketT /\ Reloaded \in Good
  BY <1>1, GoodType DEF Ready
<1> DEFINE f == [p \in Ports |-> Reloaded.fds[p] \/ p \in m]
<1>3. f \in [Ports -> BOOLEAN]
  BY <1>2 DEF SocketT
<1>4. Redist(m) \in Good
  BY <1>2, <1>3, PortsGood DEF Redist
<1>5. /\ Redist(m).fds = f
      /\ Redist(m).state = "dead" /\ Redist(m).timer = FALSE
      /\ Redist(m).watched = NoPorts
      /\ Redist(m).controlPid = s.controlPid
      /\ Redist(m).controlCommandId = s.controlCommandId
      /\ Redist(m).procs = Reloaded.procs
  BY <1>1, <1>2 DEF Redist, SocketT
<1>6. m = {} => f = s.fds
  <2>1. s \in SocketT
    BY SInvHyp, GoodType
  <2>2. QED
    BY <1>1, <2>1 DEF SocketT
<1> HIDE DEF f
<1>7. Ready(Redist(m))
  BY <1>1, <1>4, <1>5 DEF Ready, WatchOpen, Tracked, NoPorts
<1>8. QED
  BY <1>1, <1>5, <1>6, <1>7 DEF DistributeFds, Redist, RedistState, f

-----------------------------------------------------------------------------
(***************************************************************************)
(* socket_coldplug keeps a Ready record Ready and leaves a Sane one.      *)
(***************************************************************************)

\* The three stages only arm the timer, open fds and watch open fds.
LEMMA CpReady ==
    ASSUME NEW u, Ready(u), NEW ds
    PROVE  /\ Ready(CpDone(u, ds))
           /\ CpDone(u, ds).state = u.state
           /\ CpDone(u, ds).controlPid = u.controlPid
           /\ CpDone(u, ds).controlCommandId = u.controlCommandId
           /\ ds \in Transient => CpDone(u, ds).timer
           /\ \A p \in Ports : u.fds[p] => CpDone(u, ds).fds[p]
<1>1. u \in SocketT
  BY GoodType DEF Ready
<1> DEFINE t == CpTimer(u, ds)
<1> DEFINE o == CpOpen(t, ds)
<1> DEFINE w == CpWatch(o, ds)
<1>2. /\ Ready(t) /\ t \in SocketT
      /\ t.state = u.state /\ t.controlPid = u.controlPid
      /\ t.controlCommandId = u.controlCommandId /\ t.fds = u.fds
      /\ ds \in Transient => t.timer
  BY <1>1, TimerReady, GoodType DEF CpTimer, SocketT, Ready
<1>3. /\ Ready(o) /\ o \in SocketT
      /\ o.state = t.state /\ o.controlPid = t.controlPid
      /\ o.controlCommandId = t.controlCommandId /\ o.timer = t.timer
      /\ \A p \in Ports : t.fds[p] => o.fds[p]
  BY <1>2, OpenReady, GoodType DEF CpOpen, OpenOk, SocketT, AllPorts, Ready
<1>4. /\ Ready(w)
      /\ w.state = o.state /\ w.controlPid = o.controlPid
      /\ w.controlCommandId = o.controlCommandId /\ w.timer = o.timer
      /\ w.fds = o.fds
  <2>1. [o EXCEPT !.watched = o.fds] \in Good
    BY <1>3, PortsGood DEF Ready, SocketT
  <2>2. QED
    BY <1>3, <2>1 DEF CpWatch, Ready, WatchOpen, Tracked, SocketT
<1> HIDE DEF t, o, w
<1>5. QED
  BY <1>2, <1>3, <1>4 DEF CpDone, t, o, w

\* socket_coldplug on the reloaded unit u for the deserialized state ds:
\* u holds only fds that ds keeps, a transient ds other than a final kill
\* state has a control pid, and a unit coming back dead has none.
LEMMA ColdplugSane ==
    ASSUME Hyp, ~ColdplugCanFail, NEW u, Ready(u), u.state = "dead",
           u.timer = FALSE, u.watched = NoPorts, NEW ds \in States,
           \A p \in Ports : u.fds[p] => ds \in OpenStates,
           ds \in Transient \ Finals => u.controlPid # NoPid,
           ds = "dead" => u.controlPid = NoPid
    PROVE  AllSane(Coldplug(u, ds))
<1>1. SUFFICES ASSUME NEW x \in Coldplug(u, ds)
               PROVE  Sane(x)
  BY DEF AllSane
<1>2. ASSUME \A p \in Ports : ~u.fds[p], u.controlPid = NoPid
      PROVE  Sane(u)
  BY <1>2, Ready(u), u.state = "dead", u.timer = FALSE, u.watched = NoPorts
     DEF Sane, Rest, Wake, NoPorts, Transient
<1>3. CASE ds = "dead"
  <2>1. x = u
    BY <1>3, u.state = "dead" DEF Coldplug
  <2>2. \A p \in Ports : ~u.fds[p]
    BY <1>3 DEF OpenStates
  <2>3. QED
    BY <1>2, <1>3, <2>1, <2>2
<1>4. CASE ds # "dead" /\ ds \in Transient /\ u.controlPid = NoPid
  <2>1. x = u
    BY <1>4, u.state = "dead", ColdplugOutcome
  <2>2. ds \in Finals
    BY <1>4
  <2>3. \A p \in Ports : ~u.fds[p]
    BY <2>2 DEF Finals, OpenStates
  <2>4. QED
    BY <1>2, <1>4, <2>1, <2>3
<1>5. CASE ds # "dead" /\ ~(ds \in Transient /\ u.controlPid = NoPid)
  <2>1. x = SetState(CpDone(u, ds), ds)
    BY <1>5, u.state = "dead", ColdplugOutcome
  <2>2. /\ Ready(CpDone(u, ds))
        /\ CpDone(u, ds).controlPid = u.controlPid
        /\ ds \in Transient => CpDone(u, ds).timer
    BY CpReady
  <2>3. QED
    BY <1>5, <2>1, <2>2, SetStateSane
<1>6. QED
  BY <1>3, <1>4, <1>5

-----------------------------------------------------------------------------
(***************************************************************************)
(* SInv across re-execs.                                                  *)
(***************************************************************************)

\* A re-exec keeps SInv: the deserialized state keeps the fds the unit had
\* (FdLifetime before the re-exec), or is listening when the fd set handed
\* over fds; it has a control pid unless it is a final kill state (Wake).
LEMMA ReexecSInv ==
    ASSUME SInv, ~ColdplugCanFail, Reexec
    PROVE  SInv'
<1>1. Hyp /\ Sane(s) /\ s \in SocketT /\ IInv
  BY SInvHyp, GoodType DEF SInv
<1>2. PICK m \in IF StrayFds THEN SUBSET UnclaimedSocketPorts(Reloaded) ELSE {{}} :
        s' \in Coldplug(DistributeFds(Reloaded, s.state, m)[1],
                        DistributeFds(Reloaded, s.state, m)[2])
  <2>1. \E m \in IF StrayFds THEN SUBSET UnclaimedSocketPorts(Reloaded) ELSE {{}} :
          s' \in Coldplug(DistributeFds(Reloaded, Serialize(s).state, m)[1],
                          DistributeFds(Reloaded, Serialize(s).state, m)[2])
    BY Zenon DEF Reexec, Reloaded
  <2>2. Serialize(s).state = s.state
    BY DEF Serialize
  <2>3. QED
    BY <2>1, <2>2
<1>3. m \in SUBSET Ports
  BY <1>2 DEF UnclaimedSocketPorts
<1> DEFINE u == Redist(m)
<1> DEFINE ds == RedistState(m)
<1>4. s' \in Coldplug(u, ds)
  <2>1. DistributeFds(Reloaded, s.state, m) = <<u, ds>>
    BY <1>3, RedistFacts
  <2>2. QED
    BY <1>2, <2>1
<1>5. /\ Ready(u) /\ u.state = "dead" /\ u.timer = FALSE
      /\ u.watched = NoPorts /\ u.controlPid = s.controlPid
      /\ m = {} => u.fds = s.fds
  BY <1>3, RedistFacts
<1>6. u.fds \in [Ports -> BOOLEAN]
  BY <1>5, GoodType DEF Ready, SocketT
<1> HIDE DEF u, ds
<1>7. /\ ds \in States
      /\ \A p \in Ports : u.fds[p] => ds \in OpenStates
      /\ ds \in Transient \ Finals => u.controlPid # NoPid
      /\ ds = "dead" => u.controlPid = NoPid
  <2>1. CASE m # {}
    <3>1. ds = "listening"
      BY <2>1 DEF RedistState, ds
    <3>2. QED
      BY <3>1 DEF States, OpenStates, Transient
  <2>2. CASE m = {}
    <3>1. ds = s.state /\ u.fds = s.fds
      BY <1>5, <2>2 DEF RedistState, ds
    <3>2. \A p \in Ports : s.fds[p] => s.state \in OpenStates
      BY <1>1 DEF Sane, Rest
    <3>3. /\ s.state \in Transient \ Finals => s.controlPid # NoPid
          /\ s.state = "dead" => s.controlPid = NoPid
      BY <1>1 DEF Sane, Wake, Transient
    <3>4. s.state \in States
      BY <1>1 DEF SocketT
    <3>5. QED
      BY <1>5, <3>1, <3>2, <3>3, <3>4
  <2>3. QED
    BY <2>1, <2>2
<1>8. AllSane(Coldplug(u, ds))
  BY <1>1, <1>5, <1>7, ColdplugSane
<1>9. Sane(s')
  BY <1>4, <1>8 DEF AllSane
<1>10. /\ cfg' = cfg /\ stopPending' = stopPending
       /\ svc' = svc /\ svcJob' = svcJob
  BY DEF Reexec
<1>11. IInv'
  BY <1>1, <1>9, <1>10, StepClose DEF Sane, Ready, IInv, TypeOK
<1>12. QED
  BY <1>9, <1>10, <1>11 DEF SInv, Sane, Ready, Good

\* Every step of the re-exec composition keeps SInv: the handlers are
\* steps of Next, and a stutter of rvars is one of vars.
LEMMA ReexecNextSInv ==
    ASSUME SInv, ~ColdplugCanFail, [ReexecNext]_rvars
    PROVE  SInv'
<1>1. CASE Reexec
  BY <1>1, ReexecSInv
<1>2. CASE UnitStep \/ (\E p \in Pids : UnitChildExit(p)) \/ UnitTimerFires
  <2>1. Next
    BY <1>2, Zenon DEF UnitStep, UnitChildExit, UnitTimerFires, Next
  <2>2. QED
    BY <2>1, NextSInv
<1>3. CASE UNCHANGED rvars
  <2>1. UNCHANGED vars
    BY <1>3 DEF rvars, vars
  <2>2. QED
    BY <2>1, NextSInv
<1>4. QED
  BY <1>1, <1>2, <1>3 DEF ReexecNext

\* SInv holds in every state reached with re-execs whose coldplug succeeds.
LEMMA ReexecSInvHolds ==
    ASSUME ~ColdplugCanFail
    PROVE  ReexecSpec => []SInv
<1>1. ReexecInit => SInv
  BY InitSInv DEF ReexecInit
<1>2. SInv /\ [ReexecNext]_rvars => SInv'
  BY ReexecNextSInv
<1>3. QED
  BY <1>1, <1>2, PTL DEF ReexecSpec

-----------------------------------------------------------------------------
(***************************************************************************)
(* A transient state with a control child survives a re-exec.             *)
(***************************************************************************)

\* With no unclaimed fds and a coldplug that succeeds, the deserialized
\* state is the old one and coldplug takes its success path: the pid is
\* watched again, the timer re-armed, the fds re-opened.
LEMMA ReexecKeepsStep ==
    ASSUME SInv, ~ColdplugCanFail, ~StrayFds, Reexec,
           s.state \in Transient, s.controlPid # NoPid
    PROVE  /\ s'.state = s.state
           /\ s'.controlPid = s.controlPid
           /\ s'.controlCommandId = s.controlCommandId
           /\ \A p \in Ports : s.fds[p] => s'.fds[p]
           /\ s'.timer
<1>1. Hyp /\ Sane(s) /\ s \in SocketT
  BY SInvHyp, GoodType
<1> DEFINE u == Redist({})
<1>2. s' \in Coldplug(u, s.state)
  <2>1. \E m \in IF StrayFds THEN SUBSET UnclaimedSocketPorts(Reloaded) ELSE {{}} :
          s' \in Coldplug(DistributeFds(Reloaded, Serialize(s).state, m)[1],
                          DistributeFds(Reloaded, Serialize(s).state, m)[2])
    BY Zenon DEF Reexec, Reloaded
  <2>2. Serialize(s).state = s.state
    BY DEF Serialize
  <2>3. DistributeFds(Reloaded, s.state, {}) = <<u, s.state>>
    BY RedistFacts DEF RedistState
  <2>4. QED
    BY <2>1, <2>2, <2>3, ~StrayFds
<1>3. /\ Ready(u) /\ u.state = "dead"
      /\ u.controlPid = s.controlPid
      /\ u.controlCommandId = s.controlCommandId
      /\ u.fds = s.fds
  BY RedistFacts
<1> HIDE DEF u
<1> DEFINE c == CpDone(u, s.state)
<1>4. s' = SetState(c, s.state)
  BY <1>2, <1>3, ~ColdplugCanFail, ColdplugOutcome DEF Transient
<1>5. /\ c \in SocketT
      /\ c.controlPid = s.controlPid
      /\ c.controlCommandId = s.controlCommandId
      /\ c.timer
      /\ \A p \in Ports : s.fds[p] => c.fds[p]
  BY <1>3, CpReady, GoodType DEF Ready
<1> HIDE DEF c
<1>6. \A p \in Ports : s.fds[p] => s.state \in OpenStates
  BY <1>1 DEF Sane, Rest
<1>7. QED
  BY <1>4, <1>5, <1>6, SetStateFields

(***************************************************************************)
(* A re-exec brings a transient state with a control child back intact    *)
(* (ReexecKeepsControlChild), for every value of the constants, when     *)
(* coldplug's calls succeed and the fd set holds no unclaimed fds: the    *)
(* same state, control pid and command list, the fds it had and an armed *)
(* timer, as socket_serialize, socket_deserialize_item and socket_coldplug *)
(* re-establish them.  SInv supplies the fact that a transient state      *)
(* holds only fds the state keeps.                                        *)
(***************************************************************************)
THEOREM ReexecKeepsControlChildHolds ==
    ASSUME ~ColdplugCanFail, ~StrayFds
    PROVE  ReexecSpec => ReexecKeepsControlChild
<1>1. SInv /\ [ReexecNext]_rvars =>
        [Reexec /\ s.state \in Transient /\ s.controlPid # NoPid =>
            /\ s'.state = s.state
            /\ s'.controlPid = s.controlPid
            /\ s'.controlCommandId = s.controlCommandId
            /\ \A p \in Ports : s.fds[p] => s'.fds[p]
            /\ s'.timer]_rvars
  BY ReexecKeepsStep
<1>2. QED
  BY <1>1, ReexecSInvHolds, PTL DEF ReexecSpec, ReexecKeepsControlChild

(***************************************************************************)
(* The three state invariants of SocketUnit hold across re-execs whose    *)
(* coldplug succeeds, for every value of the constants, with or without  *)
(* unclaimed fds in the fd set.  A coldplug that fails half-way can leave *)
(* a dead unit with its timer armed (the coldplug_failure_leaves_timer    *)
(* run), so the assumption is needed.                                     *)
(***************************************************************************)

\* Fds open and watched only in the states that keep them (FdLifetime).
THEOREM ReexecFdLifetimeHolds ==
    ASSUME ~ColdplugCanFail
    PROVE  ReexecSpec => []FdLifetime
<1>1. SInv => FdLifetime
  BY DEF SInv, Sane, Ready, WatchOpen, Rest, FdLifetime
<1>2. QED
  BY <1>1, ReexecSInvHolds, PTL

\* The control pid is a live helper of a transient state, with its list
\* (ControlChildTracked).
THEOREM ReexecControlChildTrackedHolds ==
    ASSUME ~ColdplugCanFail
    PROVE  ReexecSpec => []ControlChildTracked
<1>1. SInv => ControlChildTracked
  BY DEF SInv, IInv, Good, Sane, Ready, Tracked, Wake, ControlChildTracked
<1>2. QED
  BY <1>1, ReexecSInvHolds, PTL

\* A transient state has its timer or its control pid, and the timer runs
\* only in one (WakeupPending).
THEOREM ReexecWakeupPendingHolds ==
    ASSUME ~ColdplugCanFail
    PROVE  ReexecSpec => []WakeupPending
<1>1. SInv => WakeupPending
  BY DEF SInv, Sane, Wake, WakeupPending
<1>2. QED
  BY <1>1, ReexecSInvHolds, PTL

\* Every transient state but the final kill states has a running control
\* child (ControlChildRunning), across re-execs too: a restored transient
\* state keeps its control pid.
THEOREM ReexecControlChildRunningHolds ==
    ASSUME ~ColdplugCanFail
    PROVE  ReexecSpec => []ControlChildRunning
<1>1. SInv => ControlChildRunning
  BY DEF SInv, Sane, Wake, Finals, ControlChildRunning
<1>2. QED
  BY <1>1, ReexecSInvHolds, PTL
=============================================================================
