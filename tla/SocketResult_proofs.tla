------------------------- MODULE SocketResult_proofs -------------------------
(***************************************************************************)
(* Proof that no activating or active socket state carries a latched      *)
(* failure (FailureStopsActivation), for every value of the constants.    *)
(*                                                                         *)
(* Every socket_enter_* chain that latches a failure on the start path    *)
(* goes on to the stop path, and so does the SIGCHLD dispatch of a failed *)
(* helper.  The operator lemmas say: applied to a record whose result is  *)
(* success, every outcome in an active state still has result success     *)
(* (CleanOut).  socket_start supplies the success result by resetting it; *)
(* in every other handler it comes from the invariant itself.             *)
(***************************************************************************)
EXTENDS SocketLifecycle_proofs

\* The record w satisfies FailureStopsActivation.
Clean(w) == w.state \in ActiveStates => w.result = "success"

\* Every outcome of an operator satisfies it.
CleanOut(S) == \A w \in S : Clean(w)

\* The inductive invariant.
FInv == RInv /\ FailureStopsActivation

-----------------------------------------------------------------------------
(***************************************************************************)
(* The operators.                                                         *)
(***************************************************************************)

\* Outcomes on the stop path are in no active state.
LEMMA StopPathClean ==
    ASSUME NEW u, NEW S, Lands(u, S, DeactEnd)
    PROVE  CleanOut(S)
BY DEF Lands, CleanOut, Clean, DeactEnd, Deactivating, Ended, ActiveStates

\* socket_set_state keeps the result.
LEMMA SetStateClean ==
    ASSUME NEW u \in SocketT, u.result = "success", NEW st
    PROVE  Clean(SetState(u, st))
BY SetStateSR DEF Clean

\* A successful spawn or chown followed by socket_set_state.
LEMMA SpawnedClean ==
    ASSUME Hyp, NEW v \in Good, v.result = "success", NEW st
    PROVE  /\ CleanOut({SetState(w, st) : w \in SpawnOk(v)})
           /\ CleanOut({SetState(w, st) : w \in ChownOk(v)})
<1>1. ASSUME NEW w \in SpawnOk(v) \cup ChownOk(v)
      PROVE  Clean(SetState(w, st))
  <2>1. w \in SocketT /\ w.result = "success"
    BY SpawnGood, GoodType, HelpersSame DEF Same
  <2>2. QED
    BY <2>1, SetStateClean
<1>2. QED
  BY <1>1 DEF CleanOut

LEMMA EnterListeningClean ==
    ASSUME Hyp, NEW u \in Good, u.result = "success"
    PROVE  CleanOut(EnterListening(u))
<1> DEFINE w0 == [u EXCEPT !.watched = u.fds]
<1> DEFINE w1 == [u EXCEPT !.watched = NoPorts]
<1>1. u.fds \in [Ports -> BOOLEAN]
  BY GoodType DEF SocketT
<1>2. w0 \in Good /\ w1 \in Good
  BY <1>1, PortsConst, PortsGood
<1>3. w0.result = "success"
  BY GoodType, HelpersSame DEF Same
<1>4. Clean(SetState(w0, "listening"))
  BY <1>2, <1>3, GoodType, SetStateClean
<1>5. CleanOut(EnterStopPre(w1, "resources"))
  BY <1>2, EnterStopPreLands, StopPathClean DEF Results
<1>6. QED
  BY <1>4, <1>5 DEF EnterListening, CleanOut

LEMMA EnterStartPostClean ==
    ASSUME Hyp, NEW u \in Good, u.result = "success"
    PROVE  CleanOut(EnterStartPost(u))
<1> DEFINE v == BeginCommandList(u, "StartPost")
<1>1. v \in Good /\ v.result = "success"
  BY BeginCommandListGood, GoodType, HelpersSame DEF ExecIds, Same
<1>2. CleanOut({SetState(w, "start-post") : w \in SpawnOk(v)})
  BY <1>1, SpawnedClean
<1>3. \A w \in SpawnFail(v) : CleanOut(EnterStopPre(w, "resources"))
  BY <1>1, SpawnGood, EnterStopPreLands, StopPathClean DEF Results
<1>4. CleanOut(EnterListening(v))
  BY <1>1, EnterListeningClean
<1>5. QED
  BY <1>2, <1>3, <1>4 DEF EnterStartPost, CleanOut

LEMMA EnterStartChownClean ==
    ASSUME Hyp, NEW u \in Good, u.result = "success"
    PROVE  CleanOut(EnterStartChown(u))
<1> DEFINE o == OpenOk(u)
<1> DEFINE v == [o EXCEPT !.controlPid = NoPid, !.controlCommandId = "StartChown",
                          !.controlCommand = 0]
<1>1. o \in Good /\ OpenFail(u) \subseteq Good
  BY OpenGood
<1>2. o.result = "success"
  BY GoodType, HelpersSame DEF Same
<1>3. v \in Good /\ v.result = "success"
  <2>1. o \in SocketT
    BY <1>1, GoodType
  <2>2. v \in SocketT
    BY <2>1, ResetValues, Zenon DEF SocketT, ExecIds
  <2>3. v.controlCommand = 0 /\ v.result = o.result
    BY <2>1, Zenon DEF SocketT
  <2>4. QED
    BY <1>2, <2>2, <2>3, GoodReset
<1>4. \A w \in OpenFail(u) : CleanOut(EnterStopPre(w, "resources"))
  BY <1>1, EnterStopPreLands, StopPathClean DEF Results
<1>5. CleanOut({SetState(w, "start-chown") : w \in ChownOk(v)})
  BY <1>3, SpawnedClean
<1>6. \A w \in ChownFail(v) : CleanOut(EnterStopPre(w, "resources"))
  BY <1>3, SpawnGood, EnterStopPreLands, StopPathClean DEF Results
<1>7. CleanOut(EnterStartPost(o))
  BY <1>1, <1>2, EnterStartPostClean
<1>8. QED
  BY <1>4, <1>5, <1>6, <1>7 DEF EnterStartChown, CleanOut

LEMMA EnterStartPreClean ==
    ASSUME Hyp, NEW u \in Good, u.result = "success"
    PROVE  CleanOut(EnterStartPre(u))
<1> DEFINE v == BeginCommandList(u, "StartPre")
<1>1. v \in Good /\ v.result = "success"
  BY BeginCommandListGood, GoodType, HelpersSame DEF ExecIds, Same
<1>2. CleanOut({SetState(w, "start-pre") : w \in SpawnOk(v)})
  BY <1>1, SpawnedClean
<1>3. \A w \in SpawnFail(v) : CleanOut(EnterDead(w, "resources"))
  BY <1>1, SpawnGood, EnterDeadLands, StopPathClean DEF Results, Lands, DeactEnd
<1>4. CleanOut(EnterStartChown(v))
  BY <1>1, EnterStartChownClean
<1>5. QED
  BY <1>2, <1>3, <1>4 DEF EnterStartPre, CleanOut

\* socket_run_next stays in its state with its result, or fails onto the
\* stop path.
LEMMA RunNextClean ==
    ASSUME Hyp, NEW u \in Good, u.controlCommandId \in ExecIds,
           u.controlCommand < cfg.exec[u.controlCommandId], Clean(u)
    PROVE  CleanOut(RunNext(u))
<1> DEFINE v == [u EXCEPT !.controlPid = NoPid,
                          !.controlCommand = u.controlCommand + 1]
<1>1. u \in SocketT
  BY GoodType
<1>2. /\ u.controlCommand + 1 \in 0..MaxCommands
      /\ u.controlCommand + 1 <= cfg.exec[u.controlCommandId]
  <2>1. cfg.exec[u.controlCommandId] \in 0..MaxCommands
    BY DEF Hyp, ConfigT
  <2>2. u.controlCommand \in 0..MaxCommands
    BY <1>1 DEF SocketT
  <2>3. QED
    BY <2>1, <2>2, MaxCommandsAssumption
<1>3. v \in SocketT
  BY <1>1, <1>2, ResetValues, Zenon DEF SocketT
<1>4. /\ v.controlCommand = u.controlCommand + 1
      /\ v.controlCommandId = u.controlCommandId
      /\ Same(u, v)
  BY <1>1, Zenon DEF SocketT, Same
<1>5. v \in Good
  BY <1>2, <1>3, <1>4, GoodCursor
<1>6. \A w \in SpawnOk(v) : Clean(w)
  BY <1>3, <1>4, HelpersSame DEF Same, Clean
<1>7. \A w \in SpawnFail(v) : CleanOut(RunNextFail(w))
  BY <1>5, SpawnGood, RunNextFailLands, StopPathClean
<1>8. QED
  BY <1>6, <1>7 DEF RunNext, CleanOut

\* The SIGCHLD dispatch: a successful exit moves along the start path, a
\* failed one onto the stop path.  Only a successful exit in an active
\* state needs the result to be success.
LEMMA ChildDoneClean ==
    ASSUME Hyp, NEW u \in Good, NEW f \in Results,
           u.state \in ActiveStates /\ f = "success" => u.result = "success"
    PROVE  CleanOut(ChildDone(u, f))
<1> DEFINE v == [u EXCEPT !.controlCommandId = "invalid", !.controlCommand = 0]
<1>1. u \in SocketT
  BY GoodType
<1>2. v \in Good /\ Same(u, v)
  <2>1. v \in SocketT
    BY <1>1, ResetValues, Zenon DEF SocketT
  <2>2. v.controlCommand = 0 /\ Same(u, v)
    BY <1>1, Zenon DEF SocketT, Same
  <2>3. QED
    BY <2>1, <2>2, GoodReset
<1>3. /\ CleanOut(EnterSignalFinal(v, "final-sigterm", f))
      /\ CleanOut(EnterStopPre(v, f))
      /\ CleanOut(EnterStopPost(v, f))
      /\ CleanOut(EnterDead(v, f))
  BY <1>2, EnterSignalFinalLands, EnterStopPreLands, EnterStopPostLands,
     EnterDeadLands, StopPathClean DEF Deactivating, Lands, DeactEnd
<1>4. ASSUME f = "success", u.state \in {"start-pre", "start-chown", "start-post"}
      PROVE  v.result = "success"
  BY <1>2, <1>4 DEF Same, ActiveStates
<1>5. CASE u.state = "start-pre"
  <2>1. f = "success" => CleanOut(EnterStartChown(v))
    BY <1>2, <1>4, <1>5, EnterStartChownClean
  <2>2. QED
    BY <1>3, <1>5, <2>1 DEF ChildDone
<1>6. CASE u.state = "start-chown"
  <2>1. f = "success" => CleanOut(EnterStartPost(v))
    BY <1>2, <1>4, <1>6, EnterStartPostClean
  <2>2. QED
    BY <1>3, <1>6, <2>1 DEF ChildDone
<1>7. CASE u.state = "start-post"
  <2>1. f = "success" => CleanOut(EnterListening(v))
    BY <1>2, <1>4, <1>7, EnterListeningClean
  <2>2. QED
    BY <1>3, <1>7, <2>1 DEF ChildDone
<1>8. CASE u.state \notin {"start-pre", "start-chown", "start-post"}
  BY <1>3, <1>8 DEF ChildDone
<1>9. QED
  BY <1>5, <1>6, <1>7, <1>8

\* socket_trigger_notify acts only on a listening or running unit, whose
\* result is success.
LEMMA TriggerNotifyClean ==
    ASSUME Hyp, NEW u \in Good, Clean(u), NEW st, NEW fp \in BOOLEAN
    PROVE  CleanOut(TriggerNotify(u, st, fp))
<1>1. CleanOut({u})
  BY DEF CleanOut
<1>2. ASSUME u.state \in {"running", "listening"}
      PROVE  u.result = "success"
  BY <1>2 DEF Clean, ActiveStates
<1>3. ASSUME u.state \in {"running", "listening"}
      PROVE  CleanOut({SetState(u, "running")})
  BY <1>2, <1>3, GoodType, SetStateClean DEF CleanOut
<1>4. ASSUME u.state = "running", NEW b \in BOOLEAN
      PROVE  CleanOut(NotifyServiceDead(u, b))
  <2>1. CleanOut(EnterStopPre(u, "service-failed-permanent"))
    BY EnterStopPreLands, StopPathClean DEF Results
  <2>2. CleanOut(EnterListening(u))
    BY <1>2, <1>4, EnterListeningClean
  <2>3. QED
    BY <1>4, <2>1, <2>2 DEF NotifyServiceDead
<1>5. ASSUME u.state # "running", NEW b \in BOOLEAN
      PROVE  CleanOut(NotifyServiceDead(u, b))
  BY <1>1, <1>5 DEF NotifyServiceDead
<1>6. QED
  BY <1>1, <1>3, <1>4, <1>5 DEF TriggerNotify

-----------------------------------------------------------------------------
(***************************************************************************)
(* The handlers.                                                          *)
(***************************************************************************)

LEMMA FInvHyp ==
    ASSUME FInv
    PROVE  Hyp /\ s \in Good /\ Clean(s)
BY RInvHyp DEF FInv, FailureStopsActivation, Clean

\* socket_start: the result is reset before socket_enter_start_pre.
LEMMA StartClean ==
    ASSUME FInv, Start
    PROVE  Clean(s')
<1>1. Hyp /\ s \in Good
  BY FInvHyp
<1>2. [s EXCEPT !.result = "success"] \in Good
  BY <1>1, ResultGood DEF Results
<1>3. [s EXCEPT !.result = "success"].result = "success"
  BY <1>1, GoodType DEF SocketT
<1>4. CleanOut(EnterStartPre([s EXCEPT !.result = "success"]))
  BY <1>1, <1>2, <1>3, EnterStartPreClean
<1>5. QED
  BY <1>4 DEF Start, CleanOut

LEMMA StopClean ==
    ASSUME FInv, Stop
    PROVE  Clean(s')
<1>1. Hyp /\ s \in Good /\ Clean(s)
  BY FInvHyp
<1>2. /\ CleanOut(EnterSignalStopPre(s, "stop-pre-sigterm", "success"))
      /\ CleanOut(EnterStopPre(s, "success"))
  BY <1>1, EnterSignalStopPreLands, EnterStopPreLands, StopPathClean
  DEF Deactivating, Results
<1>3. QED
  BY <1>1, <1>2 DEF Stop, CleanOut

\* fd_event acts on a listening unit, whose result is success.
LEMMA FdEventClean ==
    ASSUME FInv, FdEvent \/ FdError
    PROVE  Clean(s')
<1>1. Hyp /\ s \in Good /\ Clean(s)
  BY FInvHyp
<1>2. s.state = "listening"
  BY DEF FdEvent, FdError
<1>3. s.result = "success"
  BY <1>1, <1>2 DEF Clean, ActiveStates
<1>4. CleanOut(EnterStopPre(s, "resources"))
  BY <1>1, EnterStopPreLands, StopPathClean DEF Results
<1>5. Clean([s EXCEPT !.fds = NoPorts, !.watched = NoPorts])
  BY <1>1, <1>3, GoodType, Zenon DEF SocketT, Clean
<1>6. Clean(SetState(s, "running"))
  BY <1>1, <1>3, GoodType, SetStateClean
<1>7. \/ s' = [s EXCEPT !.fds = NoPorts, !.watched = NoPorts]
      \/ s' = SetState(s, "running")
      \/ s' \in EnterStopPre(s, "resources")
  BY Zenon DEF FdEvent, FdError
<1>8. QED
  BY <1>4, <1>5, <1>6, <1>7 DEF CleanOut

LEMMA TimerFiresClean ==
    ASSUME FInv, TimerFires
    PROVE  Clean(s')
<1>1. Hyp /\ s \in Good
  BY FInvHyp
<1>2. [s EXCEPT !.timer = FALSE] \in Good
  BY <1>1, TimerGood
<1>3. CleanOut(TimerDone([s EXCEPT !.timer = FALSE]))
  BY <1>1, <1>2, TimerDoneLands, StopPathClean
<1>4. QED
  BY <1>3 DEF TimerFires, CleanOut

LEMMA ServiceClean ==
    ASSUME FInv, SvcStartRequested \/ SvcJobRuns \/ SvcUp \/ SvcDown
    PROVE  Clean(s')
<1>1. Hyp /\ s \in Good /\ Clean(s)
  BY FInvHyp
<1>2. \A st : \A fp \in BOOLEAN : CleanOut(TriggerNotify(s, st, fp))
  BY <1>1, TriggerNotifyClean
<1>3. s' = s \/ \E st : \E fp \in BOOLEAN : s' \in TriggerNotify(s, st, fp)
  <2>1. CASE SvcStartRequested
    BY <2>1 DEF SvcStartRequested
  <2>2. CASE SvcJobRuns
    BY <2>2 DEF SvcJobRuns
  <2>3. CASE SvcUp
    BY <2>3 DEF SvcUp
  <2>4. CASE SvcDown
    BY <2>4 DEF SvcDown
  <2>5. QED
    BY <2>1, <2>2, <2>3, <2>4
<1>4. QED
  BY <1>1, <1>2, <1>3 DEF CleanOut

\* socket_sigchld_event: a failed exit latches its result and is taken onto
\* the stop path; a successful one keeps the result of the unit.
LEMMA ChildExitClean ==
    ASSUME FInv, NEW p \in Pids, ChildExit(p)
    PROVE  Clean(s')
<1>1. Hyp /\ s \in Good /\ Clean(s)
  BY FInvHyp
<1>2. ASSUME p # s.controlPid, s' = [s EXCEPT !.procs = s.procs \ {p}]
      PROVE  Clean(s')
  BY <1>1, <1>2, GoodType, Zenon DEF SocketT, Clean
<1>3. ASSUME p = s.controlPid,
             \E code \in ExitResults :
                LET f == IF s.controlCommand # 0 /\ cfg.ignore[s.controlCommandId]
                         THEN "success" ELSE code
                    v == Latch([s EXCEPT !.controlPid = NoPid,
                                         !.procs = s.procs \ {p}], f)
                IN  IF /\ s.controlCommand # 0
                       /\ s.controlCommand < cfg.exec[s.controlCommandId]
                       /\ f = "success"
                    THEN s' \in RunNext(v)
                    ELSE s' \in ChildDone(v, f)
      PROVE  Clean(s')
  <2>1. PICK code \in ExitResults :
            LET f == IF s.controlCommand # 0 /\ cfg.ignore[s.controlCommandId]
                     THEN "success" ELSE code
                v == Latch([s EXCEPT !.controlPid = NoPid,
                                     !.procs = s.procs \ {p}], f)
            IN  IF /\ s.controlCommand # 0
                   /\ s.controlCommand < cfg.exec[s.controlCommandId]
                   /\ f = "success"
                THEN s' \in RunNext(v)
                ELSE s' \in ChildDone(v, f)
    BY <1>3, Zenon
  <2> DEFINE f == IF s.controlCommand # 0 /\ cfg.ignore[s.controlCommandId]
                  THEN "success" ELSE code
  <2> DEFINE r == [s EXCEPT !.controlPid = NoPid, !.procs = s.procs \ {p}]
  <2> DEFINE v == Latch(r, f)
  <2>2. f \in Results
    BY Zenon DEF ExitResults, Results
  <2>3. /\ v \in Good
        /\ v.controlCommand = s.controlCommand
        /\ v.controlCommandId = s.controlCommandId
    <3> HIDE DEF f
    <3> QED
      BY <1>1, <2>2, ReapGood, Zenon
  <2>4. r \in SocketT /\ Same(s, r)
    BY <1>1, GoodType, ResetValues, Zenon DEF SocketT, Same
  <2>5. v.state = s.state /\ v.result = IF f # "success" THEN f ELSE s.result
    <3> HIDE DEF r, f
    <3> QED
      BY <2>4, LatchSR DEF Same
  <2>6. IF /\ s.controlCommand # 0
           /\ s.controlCommand < cfg.exec[s.controlCommandId]
           /\ f = "success"
        THEN s' \in RunNext(v)
        ELSE s' \in ChildDone(v, f)
    BY <2>1, Zenon
  <2> HIDE DEF f, r, v
  <2>7. CASE /\ s.controlCommand # 0
             /\ s.controlCommand < cfg.exec[s.controlCommandId]
             /\ f = "success"
    <3>1. Clean(v) /\ v.controlCommandId \in ExecIds
      BY <1>1, <2>3, <2>5, <2>7 DEF Clean, Good
    <3>2. CleanOut(RunNext(v))
      BY <1>1, <2>3, <2>7, <3>1, RunNextClean
    <3>3. QED
      BY <2>6, <2>7, <3>2 DEF CleanOut
  <2>8. CASE ~(/\ s.controlCommand # 0
               /\ s.controlCommand < cfg.exec[s.controlCommandId]
               /\ f = "success")
    <3>1. v.state \in ActiveStates /\ f = "success" => v.result = "success"
      BY <1>1, <2>5 DEF Clean
    <3>2. CleanOut(ChildDone(v, f))
      BY <1>1, <2>2, <2>3, <3>1, ChildDoneClean
    <3>3. QED
      BY <2>6, <2>8, <3>2 DEF CleanOut
  <2>9. QED
    BY <2>7, <2>8
<1>4. QED
  BY <1>2, <1>3 DEF ChildExit

\* Every step keeps FInv.
LEMMA NextFInv ==
    ASSUME FInv, [Next]_vars
    PROVE  FInv'
<1>1. RInv'
  BY NextMaps DEF FInv
<1>2. Clean(s')
  <2>1. CASE Start
    BY <2>1, StartClean
  <2>2. CASE ResetFailed
    BY <2>2, ResetFailedFields DEF FInv, Clean
  <2>3. CASE QueueStop \/ CancelStop \/ UNCHANGED vars
    <3>1. s' = s
      BY <2>3 DEF QueueStop, CancelStop, vars
    <3>2. QED
      BY <3>1, FInvHyp
  <2>4. CASE Stop
    BY <2>4, StopClean
  <2>5. CASE FdEvent \/ FdError
    BY <2>5, FdEventClean
  <2>6. CASE \E p \in Pids : ChildExit(p)
    BY <2>6, ChildExitClean
  <2>7. CASE TimerFires
    BY <2>7, TimerFiresClean
  <2>8. CASE SvcStartRequested \/ SvcJobRuns \/ SvcUp \/ SvcDown
    BY <2>8, ServiceClean
  <2>9. QED
    BY <2>1, <2>2, <2>3, <2>4, <2>5, <2>6, <2>7, <2>8 DEF Next
<1>3. QED
  BY <1>1, <1>2 DEF FInv, FailureStopsActivation, Clean

-----------------------------------------------------------------------------
(***************************************************************************)
(* No start-pre, start-chown, start-post, listening or running state      *)
(* carries a latched failure (FailureStopsActivation), for every value of *)
(* the constants: socket_start clears the previous run's result, and      *)
(* every socket_enter_* chain and SIGCHLD dispatch that latches a failure *)
(* goes on to the stop path.                                              *)
(***************************************************************************)
THEOREM FailureStopsActivationHolds == Spec => []FailureStopsActivation
<1>1. Init => FInv
  <2> SUFFICES ASSUME Init PROVE FInv
    OBVIOUS
  <2>1. RInv
    BY InitRInv
  <2>2. FailureStopsActivation
    BY DEF Init, InitSocket, FailureStopsActivation, ActiveStates
  <2>3. QED
    BY <2>1, <2>2 DEF FInv
<1>2. FInv /\ [Next]_vars => FInv'
  BY NextFInv
<1>3. FInv => FailureStopsActivation
  BY DEF FInv
<1>4. QED
  BY <1>1, <1>2, <1>3, PTL DEF Spec

=============================================================================
