----------------------- MODULE SocketLifecycle_proofs -----------------------
(***************************************************************************)
(* Proof that the socket unit implements its lifecycle: SocketUnit's      *)
(* Spec implies SocketLifecycle's Spec under the refinement mapping       *)
(* phase <- ActiveState[s.state], failure <- s.result # "success", and    *)
(* that FailedIffResult is an invariant on the way.                       *)
(*                                                                         *)
(* As for the type invariant, the argument follows the call graph of      *)
(* socket.c bottom-up.  For every socket_enter_* operator a lemma says    *)
(* what each of its outcomes w is, relative to the record u it started    *)
(* from: w is settled (dead/failed agrees with the result), a failure     *)
(* latched in u is still latched in w, and w's state lies in a set that   *)
(* bounds how far back along the cycle the operator can move (the stop    *)
(* path only ever ends in a deactivating state, dead or failed).  The     *)
(* handler lemmas combine these along each handler's chain of calls.      *)
(***************************************************************************)
EXTENDS SocketUnit_proofs

\* The states in which a start/stop cycle has ended.
Ended == {"dead", "failed"}

\* A stopped record reports its outcome: failed exactly when a failure is
\* latched (FailedIffResult, for any record).
SS(w) == w.state \in Ended => (w.state = "failed" <=> w.result # "success")

\* A failure latched in u is still latched in w.
Keeps(u, w) == u.result # "success" => w.result # "success"

\* w has the state and the result of u.
Same(u, w) == w.state = u.state /\ w.result = u.result

\* The states of the stop path and the states a stop path can end in.
DeactEnd == Deactivating \cup Ended
ActiveUp == {"listening", "running"} \cup DeactEnd

\* How far back a step may move: an active unit stays active or stops, a
\* deactivating one keeps deactivating or ends.
Up(a, b) ==
    /\ a \in Deactivating => b \in DeactEnd
    /\ a \in {"listening", "running"} => b \in ActiveUp

\* Every outcome w of an operator applied to u: settled, failure kept, and
\* in the state set T.
Lands(u, S, T) == \A w \in S : SS(w) /\ Keeps(u, w) /\ w.state \in T

\* Every outcome w of an operator applied to u: settled, failure kept, and
\* no further back along the cycle than Up allows.
Steps(u, S) == \A w \in S : SS(w) /\ Keeps(u, w) /\ Up(u.state, w.state)

\* A step of the unit from s to s', in the terms of Steps.
Moves == SS(s') /\ Keeps(s, s') /\ Up(s.state, s'.state)

\* The inductive invariant of the refinement.
RInv == IInv /\ FailedIffResult

-----------------------------------------------------------------------------
(***************************************************************************)
(* What the record updates of socket.c do to the state and the result.   *)
(***************************************************************************)

LEMMA SetStateSR ==
    ASSUME NEW u \in SocketT, NEW st
    PROVE  SetState(u, st).state = st /\ SetState(u, st).result = u.result
BY Zenon DEF SetState, SocketT

LEMMA LatchSR ==
    ASSUME NEW u \in SocketT, NEW f
    PROVE  /\ Latch(u, f).state = u.state
           /\ Latch(u, f).result = IF f # "success" THEN f ELSE u.result
BY DEF Latch, SocketT

\* The spawn and open helpers, the prologue of a command list and the
\* timer and watch updates touch neither the state nor the result.
LEMMA HelpersSame ==
    ASSUME NEW u \in SocketT
    PROVE  /\ \A w \in SpawnOk(u) \cup SpawnFail(u) : Same(u, w)
           /\ \A w \in ChownOk(u) \cup ChownFail(u) : Same(u, w)
           /\ \A w \in OpenFail(u) : Same(u, w)
           /\ Same(u, OpenOk(u))
           /\ \A id : Same(u, BeginCommandList(u, id))
           /\ \A b : Same(u, [u EXCEPT !.timer = b])
           /\ \A m : Same(u, [u EXCEPT !.watched = m])
<1>1. \A w \in SpawnOk(u) \cup SpawnFail(u) : Same(u, w)
  BY Zenon DEF SpawnOk, SpawnFail, Same, SocketT
<1>2. \A w \in ChownOk(u) \cup ChownFail(u) : Same(u, w)
  BY Zenon DEF ChownOk, ChownFail, Same, SocketT
<1>3. \A w \in OpenFail(u) : Same(u, w)
  BY Zenon DEF OpenFail, Same, SocketT
<1>4. Same(u, OpenOk(u))
  BY Zenon DEF OpenOk, Same, SocketT
<1>5. \A id : Same(u, BeginCommandList(u, id))
  BY Zenon DEF BeginCommandList, Same, SocketT
<1>6. \A b : Same(u, [u EXCEPT !.timer = b])
  BY Zenon DEF Same, SocketT
<1>7. \A m : Same(u, [u EXCEPT !.watched = m])
  BY Zenon DEF Same, SocketT
<1>8. QED
  BY <1>1, <1>2, <1>3, <1>4, <1>5, <1>6, <1>7

\* state_translation_table, read as the lifecycle's phases.
LEMMA ActiveStateFacts ==
    ASSUME NEW st \in States
    PROVE  /\ ActiveState[st] \in Lifecycle!Phases
           /\ ActiveState[st] \in Lifecycle!Ends <=> st \in Ended
           /\ ActiveState[st] = "failed" <=> st = "failed"
           /\ st \in Deactivating => ActiveState[st] = "deactivating"
           /\ st \in {"listening", "running"} => ActiveState[st] = "active"
           /\ st \notin Ended => Lifecycle!Rank[ActiveState[st]] >= 1
BY DEF ActiveState, States, Ended, Deactivating, Lifecycle!Phases,
       Lifecycle!Ends, Lifecycle!Rank

\* The phases of the two states a cycle ends in.
LEMMA ActiveStateEnded ==
    ActiveState["dead"] = "inactive" /\ ActiveState["failed"] = "failed"
<1>1. "dead" \in States /\ "failed" \in States
  BY DEF States
<1>2. QED
  BY <1>1, ActiveStateFacts DEF Ended, Lifecycle!Ends

\* A state set reached by an intermediate record v carries over to u when v
\* kept u's failure.
LEMMA LandsChain ==
    ASSUME NEW u, NEW v, NEW S, NEW T, NEW T2, Keeps(u, v), Lands(v, S, T),
           T \subseteq T2
    PROVE  Lands(u, S, T2)
BY DEF Lands, Keeps

\* socket_set_state into a state that is not dead or failed.
LEMMA SetStateLands ==
    ASSUME NEW u \in SocketT, NEW st \in States \ Ended
    PROVE  /\ SS(SetState(u, st))
           /\ Keeps(u, SetState(u, st))
           /\ SetState(u, st).state = st
BY SetStateSR DEF SS, Keeps

\* The records a spawn or chown produces are Good and keep the failure.
LEMMA SpawnKeeps ==
    ASSUME Hyp, NEW v \in Good
    PROVE  \A w \in SpawnOk(v) \cup SpawnFail(v) \cup ChownOk(v) \cup ChownFail(v) :
              w \in Good /\ Keeps(v, w)
BY SpawnGood, GoodType, HelpersSame DEF Keeps, Same

\* A successful spawn or chown followed by socket_set_state.
LEMMA SpawnedLands ==
    ASSUME Hyp, NEW v \in Good, NEW st \in States \ Ended, NEW T, st \in T
    PROVE  /\ Lands(v, {SetState(w, st) : w \in SpawnOk(v)}, T)
           /\ Lands(v, {SetState(w, st) : w \in ChownOk(v)}, T)
<1>1. ASSUME NEW w \in SpawnOk(v) \cup ChownOk(v)
      PROVE  SS(SetState(w, st)) /\ Keeps(v, SetState(w, st))
                                 /\ SetState(w, st).state \in T
  <2>1. w \in Good /\ Keeps(v, w)
    BY SpawnKeeps
  <2>2. QED
    BY <2>1, GoodType, SetStateLands DEF Keeps
<1>2. QED
  BY <1>1 DEF Lands

-----------------------------------------------------------------------------
(***************************************************************************)
(* The stop path ends in a deactivating state, dead or failed.            *)
(***************************************************************************)

LEMMA EnterDeadLands ==
    ASSUME NEW u \in Good, NEW f \in Results
    PROVE  Lands(u, EnterDead(u, f), Ended)
<1> DEFINE v == Latch(u, f)
<1>1. v \in SocketT
  BY LatchGood, GoodType
<1>2. Keeps(u, v)
  BY GoodType, LatchSR DEF Keeps
<1> DEFINE st == IF v.result # "success" THEN "failed" ELSE "dead"
<1>3. SetState(v, st).state = st /\ SetState(v, st).result = v.result
  BY <1>1, SetStateSR
<1>4. SS(SetState(v, st)) /\ Keeps(u, SetState(v, st))
                          /\ SetState(v, st).state \in Ended
  BY <1>2, <1>3 DEF SS, Keeps, Ended
<1>5. QED
  BY <1>4 DEF EnterDead, Lands

LEMMA EnterSignalFinalLands ==
    ASSUME NEW u \in Good, NEW st \in Deactivating, NEW f \in Results
    PROVE  Lands(u, EnterSignalFinal(u, st, f), DeactEnd)
<1> DEFINE v == Latch(u, f)
<1>1. v \in Good
  BY LatchGood
<1>2. Keeps(u, v)
  BY GoodType, LatchSR DEF Keeps
<1>3. Lands(v, SignalWait(v, st), DeactEnd)
  <2>1. [v EXCEPT !.timer = TRUE] \in SocketT
    BY <1>1, TimerGood, GoodType
  <2>2. [v EXCEPT !.timer = TRUE].result = v.result
    BY <1>1, GoodType, HelpersSame DEF Same
  <2>3. st \in States \ Ended
    BY DEF Deactivating, States, Ended
  <2>4. /\ SS(SetState([v EXCEPT !.timer = TRUE], st))
        /\ Keeps(v, SetState([v EXCEPT !.timer = TRUE], st))
        /\ SetState([v EXCEPT !.timer = TRUE], st).state \in DeactEnd
    BY <2>1, <2>2, <2>3, SetStateLands DEF Keeps, DeactEnd
  <2>5. QED
    BY <2>4 DEF SignalWait, Lands
<1>4. \A ok \in KillDone(v) :
        Lands(v, EnterDead(v, IF ok THEN "success" ELSE "resources"), DeactEnd)
  BY <1>1, EnterDeadLands DEF Lands, Results, DeactEnd
<1>5. Lands(v, EnterSignalFinal(u, st, f), DeactEnd)
  BY <1>3, <1>4 DEF EnterSignalFinal, Lands
<1>6. QED
  BY <1>2, <1>5, LandsChain
LEMMA EnterStopPostLands ==
    ASSUME Hyp, NEW u \in Good, NEW f \in Results
    PROVE  Lands(u, EnterStopPost(u, f), DeactEnd)
<1> DEFINE v == BeginCommandList(Latch(u, f), "StopPost")
<1>1. v \in Good
  BY LatchGood, BeginCommandListGood DEF ExecIds
<1>2. Keeps(u, v)
  BY LatchGood, GoodType, LatchSR, HelpersSame DEF Keeps, Same
<1>3. Lands(v, {SetState(w, "stop-post") : w \in SpawnOk(v)}, DeactEnd)
  BY <1>1, SpawnedLands DEF States, Ended, DeactEnd, Deactivating
<1>4. \A w \in SpawnFail(v) :
        Lands(v, EnterSignalFinal(w, "final-sigterm", "resources"), DeactEnd)
  BY <1>1, SpawnKeeps, EnterSignalFinalLands, LandsChain DEF Deactivating, Results
<1>5. Lands(v, EnterSignalFinal(v, "final-sigterm", "success"), DeactEnd)
  BY <1>1, EnterSignalFinalLands DEF Deactivating, Results
<1>6. Lands(v, EnterStopPost(u, f), DeactEnd)
  BY <1>3, <1>4, <1>5 DEF EnterStopPost, Lands
<1>7. QED
  BY <1>2, <1>6, LandsChain

LEMMA EnterSignalStopPreLands ==
    ASSUME Hyp, NEW u \in Good, NEW st \in Deactivating, NEW f \in Results
    PROVE  Lands(u, EnterSignalStopPre(u, st, f), DeactEnd)
<1> DEFINE v == Latch(u, f)
<1>1. v \in Good
  BY LatchGood
<1>2. Keeps(u, v)
  BY GoodType, LatchSR DEF Keeps
<1>3. Lands(v, SignalWait(v, st), DeactEnd)
  <2>1. [v EXCEPT !.timer = TRUE] \in SocketT
    BY <1>1, TimerGood, GoodType
  <2>2. [v EXCEPT !.timer = TRUE].result = v.result
    BY <1>1, GoodType, HelpersSame DEF Same
  <2>3. st \in States \ Ended
    BY DEF Deactivating, States, Ended
  <2>4. /\ SS(SetState([v EXCEPT !.timer = TRUE], st))
        /\ Keeps(v, SetState([v EXCEPT !.timer = TRUE], st))
        /\ SetState([v EXCEPT !.timer = TRUE], st).state \in DeactEnd
    BY <2>1, <2>2, <2>3, SetStateLands DEF Keeps, DeactEnd
  <2>5. QED
    BY <2>4 DEF SignalWait, Lands
<1>4. \A ok \in KillDone(v) :
        Lands(v, EnterStopPost(v, IF ok THEN "success" ELSE "resources"),
              DeactEnd)
  BY <1>1, EnterStopPostLands DEF Results
<1>5. Lands(v, EnterSignalStopPre(u, st, f), DeactEnd)
  BY <1>3, <1>4 DEF EnterSignalStopPre, Lands
<1>6. QED
  BY <1>2, <1>5, LandsChain

LEMMA EnterStopPreLands ==
    ASSUME Hyp, NEW u \in Good, NEW f \in Results
    PROVE  Lands(u, EnterStopPre(u, f), DeactEnd)
<1> DEFINE v == BeginCommandList(Latch(u, f), "StopPre")
<1>1. v \in Good
  BY LatchGood, BeginCommandListGood DEF ExecIds
<1>2. Keeps(u, v)
  BY LatchGood, GoodType, LatchSR, HelpersSame DEF Keeps, Same
<1>3. Lands(v, {SetState(w, "stop-pre") : w \in SpawnOk(v)}, DeactEnd)
  BY <1>1, SpawnedLands DEF States, Ended, DeactEnd, Deactivating
<1>4. \A w \in SpawnFail(v) : Lands(v, EnterStopPost(w, "resources"), DeactEnd)
  BY <1>1, SpawnKeeps, EnterStopPostLands, LandsChain DEF Results
<1>5. Lands(v, EnterStopPost(v, "success"), DeactEnd)
  BY <1>1, EnterStopPostLands DEF Results
<1>6. Lands(v, EnterStopPre(u, f), DeactEnd)
  BY <1>3, <1>4, <1>5 DEF EnterStopPre, Lands
<1>7. QED
  BY <1>2, <1>6, LandsChain
-----------------------------------------------------------------------------
(***************************************************************************)
(* The start path: listening ends active or on the stop path; the        *)
(* earlier stages may end anywhere, but settled and keeping the failure.  *)
(***************************************************************************)

LEMMA EnterListeningLands ==
    ASSUME Hyp, NEW u \in Good
    PROVE  Lands(u, EnterListening(u), ActiveUp)
<1> DEFINE w0 == [u EXCEPT !.watched = u.fds]
<1> DEFINE w1 == [u EXCEPT !.watched = NoPorts]
<1>1. u.fds \in [Ports -> BOOLEAN]
  BY GoodType DEF SocketT
<1>2. w0 \in Good /\ w1 \in Good
  BY <1>1, PortsConst, PortsGood
<1>3. Keeps(u, w0) /\ Keeps(u, w1)
  BY GoodType, HelpersSame DEF Keeps, Same
<1>4. Lands(u, {SetState(w0, "listening")}, ActiveUp)
  <2>1. "listening" \in States \ Ended
    BY DEF States, Ended
  <2>2. /\ SS(SetState(w0, "listening"))
        /\ Keeps(w0, SetState(w0, "listening"))
        /\ SetState(w0, "listening").state = "listening"
    BY <1>2, <2>1, GoodType, SetStateLands
  <2>3. QED
    BY <1>3, <2>2 DEF Lands, Keeps, ActiveUp
<1>5. Lands(u, EnterStopPre(w1, "resources"), ActiveUp)
  <2>1. Lands(w1, EnterStopPre(w1, "resources"), DeactEnd)
    BY <1>2, EnterStopPreLands DEF Results
  <2>2. DeactEnd \subseteq ActiveUp
    BY DEF ActiveUp
  <2>3. QED
    BY <1>3, <2>1, <2>2, LandsChain
<1>6. QED
  BY <1>4, <1>5 DEF EnterListening, Lands

LEMMA EnterStartPostLands ==
    ASSUME Hyp, NEW u \in Good
    PROVE  Lands(u, EnterStartPost(u), States)
<1> DEFINE v == BeginCommandList(u, "StartPost")
<1>1. v \in Good /\ Keeps(u, v)
  BY BeginCommandListGood, GoodType, HelpersSame DEF ExecIds, Keeps, Same
<1>2. Lands(v, {SetState(w, "start-post") : w \in SpawnOk(v)}, States)
  BY <1>1, SpawnedLands DEF States, Ended
<1>3. \A w \in SpawnFail(v) : Lands(v, EnterStopPre(w, "resources"), States)
  BY <1>1, SpawnKeeps, EnterStopPreLands, LandsChain
  DEF Results, DeactEnd, Deactivating, Ended, States
<1>4. Lands(v, EnterListening(v), States)
  BY <1>1, EnterListeningLands, LandsChain
  DEF Keeps, ActiveUp, DeactEnd, Deactivating, Ended, States
<1>5. Lands(v, EnterStartPost(u), States)
  BY <1>2, <1>3, <1>4 DEF EnterStartPost, Lands
<1>6. QED
  BY <1>1, <1>5, LandsChain

LEMMA EnterStartChownLands ==
    ASSUME Hyp, NEW u \in Good
    PROVE  Lands(u, EnterStartChown(u), States)
<1> DEFINE o == OpenOk(u)
<1> DEFINE v == [o EXCEPT !.controlPid = NoPid, !.controlCommandId = "StartChown",
                          !.controlCommand = 0]
<1>1. /\ o \in Good
      /\ OpenFail(u) \subseteq Good
  BY OpenGood
<1>2. /\ \A w \in OpenFail(u) : Keeps(u, w)
      /\ Keeps(u, o)
  BY GoodType, HelpersSame DEF Keeps, Same
<1>3. v \in Good /\ Keeps(o, v)
  <2>1. o \in SocketT
    BY <1>1, GoodType
  <2>2. v \in SocketT
    BY <2>1, ResetValues, Zenon DEF SocketT, ExecIds
  <2>3. v.controlCommand = 0 /\ v.result = o.result
    BY <2>1, Zenon DEF SocketT
  <2>4. QED
    BY <2>2, <2>3, GoodReset DEF Keeps
<1>4. Lands(u, UNION {EnterStopPre(w, "resources") : w \in OpenFail(u)}, States)
  <2>1. DeactEnd \subseteq States
    BY DEF DeactEnd, Deactivating, Ended, States
  <2>2. \A w \in OpenFail(u) : Lands(u, EnterStopPre(w, "resources"), States)
    BY <1>1, <1>2, <2>1, EnterStopPreLands, LandsChain DEF Results
  <2>3. QED
    BY <2>2 DEF Lands
<1>5. Lands(v, {SetState(w, "start-chown") : w \in ChownOk(v)}, States)
  BY <1>3, SpawnedLands DEF States, Ended
<1>6. \A w \in ChownFail(v) : Lands(v, EnterStopPre(w, "resources"), States)
  BY <1>3, SpawnKeeps, EnterStopPreLands, LandsChain
  DEF Results, DeactEnd, Deactivating, Ended, States
<1>7. Lands(u, {SetState(w, "start-chown") : w \in ChownOk(v)} \cup
               UNION {EnterStopPre(w, "resources") : w \in ChownFail(v)}, States)
  <2>1. Keeps(u, v)
    BY <1>2, <1>3 DEF Keeps
  <2>2. Lands(v, {SetState(w, "start-chown") : w \in ChownOk(v)} \cup
                 UNION {EnterStopPre(w, "resources") : w \in ChownFail(v)},
              States)
    BY <1>5, <1>6 DEF Lands
  <2>3. QED
    BY <2>1, <2>2, LandsChain
<1>8. Lands(u, EnterStartPost(o), States)
  BY <1>1, <1>2, EnterStartPostLands, LandsChain
<1>9. QED
  BY <1>4, <1>7, <1>8 DEF EnterStartChown, Lands

LEMMA EnterStartPreLands ==
    ASSUME Hyp, NEW u \in Good
    PROVE  Lands(u, EnterStartPre(u), States)
<1> DEFINE v == BeginCommandList(u, "StartPre")
<1>1. v \in Good /\ Keeps(u, v)
  BY BeginCommandListGood, GoodType, HelpersSame DEF ExecIds, Keeps, Same
<1>2. Lands(v, {SetState(w, "start-pre") : w \in SpawnOk(v)}, States)
  BY <1>1, SpawnedLands DEF States, Ended
<1>3. \A w \in SpawnFail(v) : Lands(v, EnterDead(w, "resources"), States)
  BY <1>1, SpawnKeeps, EnterDeadLands, LandsChain DEF Results, Ended, States
<1>4. Lands(v, EnterStartChown(v), States)
  BY <1>1, EnterStartChownLands
<1>5. Lands(v, EnterStartPre(u), States)
  BY <1>2, <1>3, <1>4 DEF EnterStartPre, Lands
<1>6. QED
  BY <1>1, <1>5, LandsChain
-----------------------------------------------------------------------------
(***************************************************************************)
(* socket_run_next, the SIGCHLD dispatch, the timer, the service.        *)
(***************************************************************************)

\* Outcomes on the stop path never move a unit back.
LEMMA StepsFromDeactEnd ==
    ASSUME NEW u, NEW S, Lands(u, S, DeactEnd)
    PROVE  Steps(u, S)
BY DEF Lands, Steps, Up, ActiveUp

\* A unit that is starting may move anywhere.
LEMMA StepsFromStarting ==
    ASSUME NEW u, NEW S, NEW T, Lands(u, S, T),
           u.state \in {"start-pre", "start-chown", "start-post"}
    PROVE  Steps(u, S)
BY DEF Lands, Steps, Up, Deactivating

LEMMA RunNextFailLands ==
    ASSUME Hyp, NEW u \in Good
    PROVE  Lands(u, RunNextFail(u), DeactEnd)
<1>1. Lands(u, EnterStopPre(u, "resources"), DeactEnd)
  BY EnterStopPreLands DEF Results
<1>2. Lands(u, EnterDead(u, "resources"), DeactEnd)
  BY EnterDeadLands, LandsChain DEF Results, DeactEnd, Keeps
<1>3. Lands(u, EnterSignalFinal(u, "final-sigterm", "resources"), DeactEnd)
  BY EnterSignalFinalLands DEF Results, Deactivating
<1>4. QED
  BY <1>1, <1>2, <1>3 DEF RunNextFail

\* socket_run_next stays in the state it was called in, or leaves by the
\* state's failure exit; called only with the result "success", on a
\* settled record.
LEMMA RunNextLands ==
    ASSUME Hyp, NEW u \in Good, u.controlCommandId \in ExecIds,
           u.controlCommand < cfg.exec[u.controlCommandId], SS(u)
    PROVE  Lands(u, RunNext(u), {u.state} \cup DeactEnd)
<1> DEFINE v == [u EXCEPT !.controlPid = NoPid,
                          !.controlCommand = u.controlCommand + 1]
<1>1. u \in SocketT
  BY GoodType
<1>2. /\ u.controlCommand + 1 \in 0..MaxCommands
      /\ u.controlCommand + 1 <= cfg.exec[u.controlCommandId]
  <2>1. cfg.exec[u.controlCommandId] \in 0..MaxCommands
    BY DEF Hyp, ConfigT
  <2>2. u.controlCommand \in 0..MaxCommands
    BY <1>1 DEF SocketT
  <2>3. QED
    BY <2>1, <2>2, MaxCommandsAssumption
<1>3. v \in SocketT
  BY <1>1, <1>2, ResetValues, Zenon DEF SocketT
<1>4. /\ v.controlCommand = u.controlCommand + 1
      /\ v.controlCommandId = u.controlCommandId
      /\ Same(u, v)
  BY <1>1, Zenon DEF SocketT, Same
<1>5. v \in Good
  BY <1>2, <1>3, <1>4, GoodCursor
<1>6. \A w \in SpawnOk(v) : SS(w) /\ Keeps(u, w) /\ w.state \in {u.state}
  BY <1>3, <1>4, HelpersSame DEF Same, SS, Keeps
<1>7. \A w \in SpawnFail(v) : Lands(u, RunNextFail(w), DeactEnd)
  BY <1>4, <1>5, SpawnKeeps, RunNextFailLands, LandsChain DEF Keeps, Same
<1>8. QED
  BY <1>6, <1>7 DEF RunNext, Lands

LEMMA ChildDoneSteps ==
    ASSUME Hyp, NEW u \in Good, NEW f \in Results
    PROVE  Steps(u, ChildDone(u, f))
<1> DEFINE v == [u EXCEPT !.controlCommandId = "invalid", !.controlCommand = 0]
<1>1. u \in SocketT
  BY GoodType
<1>2. v \in Good /\ Same(u, v)
  <2>1. v \in SocketT
    BY <1>1, ResetValues, Zenon DEF SocketT
  <2>2. v.controlCommand = 0 /\ Same(u, v)
    BY <1>1, Zenon DEF SocketT, Same
  <2>3. QED
    BY <2>1, <2>2, GoodReset
<1>3. Keeps(u, v)
  BY <1>2 DEF Keeps, Same
<1>4. CASE u.state = "start-pre"
  <2>1. /\ Lands(v, EnterStartChown(v), States)
        /\ Lands(v, EnterSignalFinal(v, "final-sigterm", f), DeactEnd)
    BY <1>2, EnterStartChownLands, EnterSignalFinalLands DEF Deactivating
  <2>2. Lands(u, ChildDone(u, f), States \cup DeactEnd)
    BY <1>3, <1>4, <2>1, LandsChain DEF ChildDone, Lands, Keeps
  <2>3. QED
    BY <1>4, <2>2, StepsFromStarting
<1>5. CASE u.state = "start-chown"
  <2>1. /\ Lands(v, EnterStartPost(v), States)
        /\ Lands(v, EnterStopPre(v, f), DeactEnd)
    BY <1>2, EnterStartPostLands, EnterStopPreLands
  <2>2. Lands(u, ChildDone(u, f), States \cup DeactEnd)
    BY <1>3, <1>5, <2>1, LandsChain DEF ChildDone, Lands, Keeps
  <2>3. QED
    BY <1>5, <2>2, StepsFromStarting
<1>6. CASE u.state = "start-post"
  <2>1. /\ Lands(v, EnterListening(v), ActiveUp)
        /\ Lands(v, EnterStopPre(v, f), DeactEnd)
    BY <1>2, EnterListeningLands, EnterStopPreLands
  <2>2. Lands(u, ChildDone(u, f), ActiveUp \cup DeactEnd)
    BY <1>3, <1>6, <2>1, LandsChain DEF ChildDone, Lands, Keeps
  <2>3. QED
    BY <1>6, <2>2, StepsFromStarting
<1>7. CASE u.state \in {"stop-pre", "stop-pre-sigterm", "stop-pre-sigkill"}
  <2>1. Lands(v, EnterStopPost(v, f), DeactEnd)
    BY <1>2, EnterStopPostLands
  <2>2. Lands(u, ChildDone(u, f), DeactEnd)
    BY <1>3, <1>7, <2>1, LandsChain DEF ChildDone, Lands, Keeps
  <2>3. QED
    BY <2>2, StepsFromDeactEnd
<1>8. CASE u.state \notin {"start-pre", "start-chown", "start-post", "stop-pre",
                          "stop-pre-sigterm", "stop-pre-sigkill"}
  <2>1. Lands(v, EnterDead(v, f), DeactEnd)
    BY <1>2, EnterDeadLands DEF Lands, DeactEnd
  <2>2. Lands(u, ChildDone(u, f), DeactEnd)
    BY <1>3, <1>8, <2>1, LandsChain DEF ChildDone, Lands, Keeps
  <2>3. QED
    BY <2>2, StepsFromDeactEnd
<1>9. QED
  BY <1>4, <1>5, <1>6, <1>7, <1>8
\* Every timeout leads onto the stop path.
LEMMA TimerDoneLands ==
    ASSUME Hyp, NEW u \in Good
    PROVE  Lands(u, TimerDone(u), DeactEnd)
<1>1. /\ Lands(u, EnterSignalFinal(u, "final-sigterm", "timeout"), DeactEnd)
      /\ Lands(u, EnterSignalFinal(u, "final-sigkill", "timeout"), DeactEnd)
      /\ Lands(u, EnterStopPre(u, "timeout"), DeactEnd)
      /\ Lands(u, EnterSignalStopPre(u, "stop-pre-sigterm", "timeout"), DeactEnd)
      /\ Lands(u, EnterSignalStopPre(u, "stop-pre-sigkill", "timeout"), DeactEnd)
      /\ Lands(u, EnterStopPost(u, "timeout"), DeactEnd)
  BY EnterSignalFinalLands, EnterStopPreLands, EnterSignalStopPreLands,
     EnterStopPostLands DEF Deactivating, Results
<1>2. Lands(u, EnterDead(u, "timeout"), DeactEnd)
  BY EnterDeadLands DEF Lands, DeactEnd, Results
<1>3. QED
  BY <1>1, <1>2 DEF TimerDone

LEMMA TriggerNotifySteps ==
    ASSUME Hyp, NEW u \in Good, SS(u), NEW st, NEW fp \in BOOLEAN
    PROVE  Steps(u, TriggerNotify(u, st, fp))
<1>1. Steps(u, {u})
  BY DEF Steps, Keeps, Up, DeactEnd, ActiveUp
<1>2. ASSUME u.state \in {"running", "listening"}
      PROVE  Steps(u, {SetState(u, "running")})
  <2>1. /\ SS(SetState(u, "running"))
        /\ Keeps(u, SetState(u, "running"))
        /\ SetState(u, "running").state = "running"
    BY GoodType, SetStateLands DEF States, Ended
  <2>2. QED
    BY <1>2, <2>1 DEF Steps, Up, Deactivating, ActiveUp
<1>3. ASSUME u.state = "running", NEW b \in BOOLEAN
      PROVE  Steps(u, NotifyServiceDead(u, b))
  <2>1. Lands(u, EnterStopPre(u, "service-failed-permanent"), DeactEnd)
    BY EnterStopPreLands DEF Results
  <2>2. Lands(u, EnterListening(u), ActiveUp)
    BY EnterListeningLands
  <2>3. /\ Steps(u, EnterStopPre(u, "service-failed-permanent"))
        /\ Steps(u, EnterListening(u))
    BY <1>3, <2>1, <2>2, StepsFromDeactEnd DEF Lands, Steps, Up, Deactivating
  <2>4. QED
    BY <1>3, <2>3 DEF NotifyServiceDead
<1>4. ASSUME u.state # "running", NEW b \in BOOLEAN
      PROVE  Steps(u, NotifyServiceDead(u, b))
  BY <1>1, <1>4 DEF NotifyServiceDead
<1>5. QED
  BY <1>1, <1>2, <1>3, <1>4 DEF TriggerNotify
-----------------------------------------------------------------------------
(***************************************************************************)
(* Steps of the socket unit as steps of the lifecycle.                    *)
(***************************************************************************)

\* A step from a unit in a cycle that moves no further back than Up allows,
\* keeps the failure and ends settled advances the lifecycle.
LEMMA AdvanceMaps ==
    ASSUME s \in SocketT, s' \in SocketT, s.state \notin Ended,
           SS(s'), Keeps(s, s'), Up(s.state, s'.state)
    PROVE  Lifecycle!Advance
<1> DEFINE p == ActiveState[s.state]
           q == ActiveState[s'.state]
<1>1. s.state \in States /\ s'.state \in States
  BY DEF SocketT
<1>2. p \notin Lifecycle!Ends /\ q \in Lifecycle!Phases
  BY <1>1, ActiveStateFacts
<1>3. q \in Lifecycle!Ends \/ Lifecycle!Rank[q] >= Lifecycle!Rank[p]
  <2>1. CASE s.state \in Deactivating
    <3>1. s'.state \in Deactivating \/ s'.state \in Ended
      BY <2>1 DEF Up, DeactEnd
    <3>2. p = "deactivating" /\ (q = "deactivating" \/ q \in Lifecycle!Ends)
      BY <1>1, <2>1, <3>1, ActiveStateFacts
    <3>3. QED
      BY <3>2 DEF Lifecycle!Rank
  <2>2. CASE s.state \in {"listening", "running"}
    <3>1. \/ s'.state \in {"listening", "running"}
          \/ s'.state \in Deactivating
          \/ s'.state \in Ended
      BY <2>2 DEF Up, ActiveUp, DeactEnd
    <3>2. p = "active"
      BY <1>1, <2>2, ActiveStateFacts
    <3>3. q \in {"active", "deactivating"} \/ q \in Lifecycle!Ends
      BY <1>1, <3>1, ActiveStateFacts
    <3>4. QED
      BY <3>2, <3>3 DEF Lifecycle!Rank
  <2>3. CASE s.state \notin Deactivating \cup {"listening", "running"}
    <3>1. p = "activating"
      BY <1>1, <2>3 DEF ActiveState, Ended, Deactivating, States
    <3>2. q \notin Lifecycle!Ends => Lifecycle!Rank[q] >= 1
      BY <1>1, ActiveStateFacts
    <3>3. QED
      BY <3>1, <3>2 DEF Lifecycle!Rank
  <2>4. QED
    BY <2>1, <2>2, <2>3
<1>4. Lifecycle!Settled(q, s'.result # "success")
  BY <1>1, ActiveStateFacts DEF SS, Lifecycle!Settled
<1>5. QED
  BY <1>2, <1>3, <1>4 DEF Lifecycle!Advance, Keeps

\* Any settled step from a unit whose cycle has ended begins a cycle.
LEMMA BeginMaps ==
    ASSUME s \in SocketT, s' \in SocketT, s.state \in Ended, SS(s')
    PROVE  Lifecycle!Begin
<1>1. s.state \in States /\ s'.state \in States
  BY DEF SocketT
<1>2. ActiveState[s.state] \in Lifecycle!Ends
  BY <1>1, ActiveStateFacts
<1>3. ActiveState[s'.state] \in Lifecycle!Phases
  BY <1>1, ActiveStateFacts
<1>4. Lifecycle!Settled(ActiveState[s'.state], s'.result # "success")
  BY <1>1, ActiveStateFacts DEF SS, Lifecycle!Settled
<1>5. QED
  BY <1>2, <1>3, <1>4 DEF Lifecycle!Begin
\* A step that Moves is a step of the lifecycle.
LEMMA MovesMaps ==
    ASSUME s \in SocketT, s' \in SocketT, Moves
    PROVE  Lifecycle!Next
BY BeginMaps, AdvanceMaps DEF Moves, Lifecycle!Next

-----------------------------------------------------------------------------
(***************************************************************************)
(* The handlers.                                                          *)
(***************************************************************************)

LEMMA RInvHyp ==
    ASSUME RInv
    PROVE  Hyp /\ s \in Good /\ SS(s)
BY IInvHyp DEF RInv, FailedIffResult, SS, Ended

\* A handler that keeps the state and the result of a settled record.
LEMMA SameMoves ==
    ASSUME SS(s), Same(s, s')
    PROVE  Moves
BY DEF Moves, SS, Same, Keeps, Up, DeactEnd, ActiveUp

\* A handler whose outcomes satisfy Steps.
LEMMA StepsMoves ==
    ASSUME NEW S, Steps(s, S), s' \in S
    PROVE  Moves
BY DEF Steps, Moves

LEMMA StopMoves ==
    ASSUME RInv, Stop
    PROVE  Moves
<1>1. Hyp /\ s \in Good /\ SS(s)
  BY RInvHyp
<1>2. CASE s.state \in {"start-pre", "start-chown", "start-post"}
  <2>1. Steps(s, EnterSignalStopPre(s, "stop-pre-sigterm", "success"))
    BY <1>1, <1>2, EnterSignalStopPreLands, StepsFromStarting
    DEF Deactivating, Results
  <2>2. QED
    BY <1>2, <2>1, StepsMoves DEF Stop
<1>3. CASE s.state \in {"listening", "running"}
  <2>1. Steps(s, EnterStopPre(s, "success"))
    BY <1>1, EnterStopPreLands, StepsFromDeactEnd DEF Results
  <2>2. QED
    BY <1>3, <2>1, StepsMoves DEF Stop
<1>4. CASE s.state \notin {"start-pre", "start-chown", "start-post",
                          "listening", "running"}
  BY <1>1, <1>4, SameMoves DEF Stop, Same
<1>5. QED
  BY <1>2, <1>3, <1>4

LEMMA FdEventMoves ==
    ASSUME RInv, FdEvent \/ FdError
    PROVE  Moves
<1>1. Hyp /\ s \in Good /\ SS(s)
  BY RInvHyp
<1>2. s.state = "listening"
  BY DEF FdEvent, FdError
<1>3. Steps(s, EnterStopPre(s, "resources"))
  BY <1>1, EnterStopPreLands, StepsFromDeactEnd DEF Results
<1>4. Same(s, [s EXCEPT !.fds = NoPorts, !.watched = NoPorts])
  BY <1>1, GoodType, Zenon DEF SocketT, Same
<1>5. Steps(s, {SetState(s, "running")})
  <2>1. /\ SS(SetState(s, "running"))
        /\ Keeps(s, SetState(s, "running"))
        /\ SetState(s, "running").state = "running"
    BY <1>1, GoodType, SetStateLands DEF States, Ended
  <2>2. QED
    BY <1>2, <2>1 DEF Steps, Up, Deactivating, ActiveUp
<1>6. \/ s' = [s EXCEPT !.fds = NoPorts, !.watched = NoPorts]
      \/ s' = SetState(s, "running")
      \/ s' \in EnterStopPre(s, "resources")
  BY Zenon DEF FdEvent, FdError
<1>7. QED
  BY <1>1, <1>3, <1>4, <1>5, <1>6, SameMoves, StepsMoves

LEMMA TimerFiresMoves ==
    ASSUME RInv, TimerFires
    PROVE  Moves
<1>1. Hyp /\ s \in Good /\ SS(s)
  BY RInvHyp
<1> DEFINE v == [s EXCEPT !.timer = FALSE]
<1>2. v \in Good /\ Keeps(s, v) /\ v.state = s.state
  BY <1>1, TimerGood, GoodType, HelpersSame DEF Keeps, Same
<1>3. Lands(s, TimerDone(v), DeactEnd)
  BY <1>1, <1>2, TimerDoneLands, LandsChain
<1>4. QED
  BY <1>3, StepsFromDeactEnd, StepsMoves DEF TimerFires

LEMMA ServiceMoves ==
    ASSUME RInv, SvcStartRequested \/ SvcJobRuns \/ SvcUp \/ SvcDown
    PROVE  Moves
<1>1. Hyp /\ s \in Good /\ SS(s)
  BY RInvHyp
<1>2. \A st : \A fp \in BOOLEAN : Steps(s, TriggerNotify(s, st, fp))
  BY <1>1, TriggerNotifySteps
<1>3. CASE s' = s
  BY <1>1, <1>3, SameMoves DEF Same
<1>4. CASE \E st : \E fp \in BOOLEAN : s' \in TriggerNotify(s, st, fp)
  BY <1>2, <1>4, StepsMoves
<1>5. s' = s \/ \E st : \E fp \in BOOLEAN : s' \in TriggerNotify(s, st, fp)
  <2>1. CASE SvcStartRequested
    BY <2>1 DEF SvcStartRequested
  <2>2. CASE SvcJobRuns
    BY <2>2 DEF SvcJobRuns
  <2>3. CASE SvcUp
    BY <2>3 DEF SvcUp
  <2>4. CASE SvcDown
    BY <2>4 DEF SvcDown
  <2>5. QED
    BY <2>1, <2>2, <2>3, <2>4
<1>6. QED
  BY <1>3, <1>4, <1>5
LEMMA ChildExitMoves ==
    ASSUME RInv, NEW p \in Pids, ChildExit(p)
    PROVE  Moves
<1>1. Hyp /\ s \in Good /\ SS(s)
  BY RInvHyp
<1>2. ASSUME p # s.controlPid, s' = [s EXCEPT !.procs = s.procs \ {p}]
      PROVE  Moves
  <2>1. Same(s, s')
    BY <1>1, <1>2, GoodType, Zenon DEF SocketT, Same
  <2>2. QED
    BY <1>1, <2>1, SameMoves
<1>3. ASSUME p = s.controlPid,
             \E code \in ExitResults :
                LET f == IF s.controlCommand # 0 /\ cfg.ignore[s.controlCommandId]
                         THEN "success" ELSE code
                    v == Latch([s EXCEPT !.controlPid = NoPid,
                                         !.procs = s.procs \ {p}], f)
                IN  IF /\ s.controlCommand # 0
                       /\ s.controlCommand < cfg.exec[s.controlCommandId]
                       /\ f = "success"
                    THEN s' \in RunNext(v)
                    ELSE s' \in ChildDone(v, f)
      PROVE  Moves
  <2>1. PICK code \in ExitResults :
            LET f == IF s.controlCommand # 0 /\ cfg.ignore[s.controlCommandId]
                     THEN "success" ELSE code
                v == Latch([s EXCEPT !.controlPid = NoPid,
                                     !.procs = s.procs \ {p}], f)
            IN  IF /\ s.controlCommand # 0
                   /\ s.controlCommand < cfg.exec[s.controlCommandId]
                   /\ f = "success"
                THEN s' \in RunNext(v)
                ELSE s' \in ChildDone(v, f)
    BY <1>3, Zenon
  <2> DEFINE f == IF s.controlCommand # 0 /\ cfg.ignore[s.controlCommandId]
                  THEN "success" ELSE code
  <2> DEFINE r == [s EXCEPT !.controlPid = NoPid, !.procs = s.procs \ {p}]
  <2> DEFINE v == Latch(r, f)
  <2>2. f \in Results
    BY Zenon DEF ExitResults, Results
  <2>3. /\ v \in Good
        /\ v.controlCommand = s.controlCommand
        /\ v.controlCommandId = s.controlCommandId
    <3> HIDE DEF f
    <3> QED
      BY <1>1, <2>2, ReapGood, Zenon
  <2>4. r \in SocketT /\ Same(s, r)
    BY <1>1, GoodType, ResetValues, Zenon DEF SocketT, Same
  <2>5. v.state = r.state /\ v.result = IF f # "success" THEN f ELSE r.result
    <3> HIDE DEF r, f
    <3> QED
      BY <2>4, LatchSR
  <2>5a. v.state = s.state /\ Keeps(s, v)
    BY <2>4, <2>5 DEF Same, Keeps
  <2>6. IF /\ s.controlCommand # 0
           /\ s.controlCommand < cfg.exec[s.controlCommandId]
           /\ f = "success"
        THEN s' \in RunNext(v)
        ELSE s' \in ChildDone(v, f)
    BY <2>1, Zenon
  <2>7. CASE /\ s.controlCommand # 0
             /\ s.controlCommand < cfg.exec[s.controlCommandId]
             /\ f = "success"
    <3>1. Same(s, v)
      BY <2>4, <2>5, <2>7 DEF Same
    <3>2. SS(v) /\ v.controlCommandId \in ExecIds
      BY <1>1, <2>3, <2>7, <3>1 DEF SS, Same, Good
    <3>3. Lands(v, RunNext(v), {v.state} \cup DeactEnd)
      BY <1>1, <2>3, <2>7, <3>2, RunNextLands
    <3>4. s' \in RunNext(v)
      BY <2>6, <2>7
    <3>5. QED
      BY <2>5a, <3>3, <3>4 DEF Lands, Moves, Keeps, Up, ActiveUp, DeactEnd
  <2>8. CASE ~(/\ s.controlCommand # 0
               /\ s.controlCommand < cfg.exec[s.controlCommandId]
               /\ f = "success")
    <3>1. Steps(v, ChildDone(v, f))
      BY <1>1, <2>2, <2>3, ChildDoneSteps
    <3>2. s' \in ChildDone(v, f)
      BY <2>6, <2>8
    <3>3. QED
      BY <2>5a, <3>1, <3>2 DEF Steps, Moves, Keeps
  <2>9. QED
    BY <2>7, <2>8
<1>4. QED
  BY <1>2, <1>3 DEF ChildExit
\* socket_start resets the result and runs the start path: it begins a
\* cycle from dead or failed, and whatever it ends in is settled.
LEMMA StartSettles ==
    ASSUME RInv, Start
    PROVE  s.state \in Ended /\ SS(s')
<1>1. Hyp /\ s \in Good
  BY RInvHyp
<1>2. [s EXCEPT !.result = "success"] \in Good
  BY <1>1, ResultGood DEF Results
<1>3. Lands([s EXCEPT !.result = "success"],
            EnterStartPre([s EXCEPT !.result = "success"]), States)
  BY <1>1, <1>2, EnterStartPreLands
<1>4. QED
  BY <1>3 DEF Start, Lands, Ended

\* socket_reset_failed clears the result and turns failed into dead.
LEMMA ResetFailedFields ==
    ASSUME RInv, ResetFailed
    PROVE  /\ s'.state = IF s.state = "failed" THEN "dead" ELSE s.state
           /\ s'.result = "success"
<1>1. s \in SocketT
  BY RInvHyp, GoodType
<1> DEFINE w == IF s.state = "failed" THEN SetState(s, "dead") ELSE s
<1>2. w \in SocketT
  BY <1>1, RInvHyp, SetStateGood, GoodType DEF States
<1>3. w.state = IF s.state = "failed" THEN "dead" ELSE s.state
  BY <1>1, SetStateSR
<1>4. s' = [w EXCEPT !.result = "success"]
  BY DEF ResetFailed
<1>5. QED
  BY <1>2, <1>3, <1>4 DEF SocketT

LEMMA ResetFailedMaps ==
    ASSUME RInv, ResetFailed
    PROVE  SS(s') /\ Lifecycle!Reset
<1>1. /\ s'.state = IF s.state = "failed" THEN "dead" ELSE s.state
      /\ s'.result = "success"
  BY ResetFailedFields
<1>2. s.state \in States
  BY RInvHyp, GoodType DEF SocketT
<1>3. SS(s')
  BY <1>1 DEF SS
<1>4. ActiveState[s'.state] = IF ActiveState[s.state] = "failed" THEN "inactive"
                              ELSE ActiveState[s.state]
  <2>1. CASE s.state = "failed"
    BY <1>1, <2>1, ActiveStateEnded
  <2>2. CASE s.state # "failed"
    BY <1>1, <1>2, <2>2, ActiveStateFacts
  <2>3. QED
    BY <2>1, <2>2
<1>5. QED
  BY <1>1, <1>3, <1>4 DEF Lifecycle!Reset

\* Every step of the socket unit keeps RInv and is a step of the lifecycle
\* or leaves the reported phase and failure unchanged.
LEMMA NextMaps ==
    ASSUME RInv, [Next]_vars
    PROVE  RInv' /\ [Lifecycle!Next]_Lifecycle!lvars
<1>1. IInv'
  BY NextIInv DEF RInv
<1>2. s \in SocketT /\ s' \in SocketT
  BY <1>1 DEF RInv, IInv, TypeOK
<1>3. SS(s') /\ [Lifecycle!Next]_Lifecycle!lvars
  <2>1. CASE Start
    BY <1>2, <2>1, StartSettles, BeginMaps DEF Lifecycle!Next
  <2>2. CASE ResetFailed
    BY <2>2, ResetFailedMaps DEF Lifecycle!Next
  <2>3. CASE QueueStop \/ CancelStop \/ UNCHANGED vars
    <3>1. s' = s
      BY <2>3 DEF QueueStop, CancelStop, vars
    <3>2. QED
      BY <3>1, RInvHyp DEF Lifecycle!lvars
  <2>4. CASE \/ Stop \/ FdEvent \/ FdError \/ \E p \in Pids : ChildExit(p)
             \/ TimerFires \/ SvcStartRequested \/ SvcJobRuns \/ SvcUp \/ SvcDown
    <3>1. Moves
      BY <2>4, StopMoves, FdEventMoves, ChildExitMoves, TimerFiresMoves,
         ServiceMoves
    <3>2. QED
      BY <1>2, <3>1, MovesMaps DEF Moves
  <2>5. QED
    BY <2>1, <2>2, <2>3, <2>4 DEF Next
<1>4. QED
  BY <1>1, <1>3 DEF RInv, FailedIffResult, SS, Ended

LEMMA InitRInv ==
    ASSUME Init
    PROVE  RInv
BY InitIInv DEF RInv, FailedIffResult, Init, InitSocket

-----------------------------------------------------------------------------
(***************************************************************************)
(* A stopped socket unit is failed exactly when a failure is latched      *)
(* (FailedIffResult), whatever sequence of starts, stops, helper exits,   *)
(* timeouts, service notifications and reset-failed led there: every      *)
(* chain of socket_enter_* calls that stops the unit passes through       *)
(* socket_enter_dead, which picks dead or failed from the latched result.  *)
(***************************************************************************)
THEOREM FailedIffResultHolds == Spec => []FailedIffResult
<1>1. Init => RInv
  BY InitRInv
<1>2. RInv /\ [Next]_vars => RInv'
  BY NextMaps
<1>3. RInv => FailedIffResult
  BY DEF RInv
<1>4. QED
  BY <1>1, <1>2, <1>3, PTL DEF Spec

(***************************************************************************)
(* The socket unit implements its lifecycle (LifecycleRefined), for every *)
(* value of the constants: under phase <- ActiveState[s.state] and        *)
(* failure <- s.result # "success", every handler of socket.c is a        *)
(* Begin, Advance or Reset step of SocketLifecycle or leaves the reported *)
(* phase and failure unchanged.                                           *)
(***************************************************************************)
THEOREM Refinement == Spec => LifecycleRefined
<1>1. Init => Lifecycle!Init
  BY ActiveStateEnded DEF Init, InitSocket, Lifecycle!Init
<1>2. RInv /\ [Next]_vars => [Lifecycle!Next]_Lifecycle!lvars
  BY NextMaps
<1>3. Init => RInv
  BY InitRInv
<1>4. RInv /\ [Next]_vars => RInv'
  BY NextMaps
<1>5. QED
  BY <1>1, <1>2, <1>3, <1>4, PTL DEF Spec, LifecycleRefined, Lifecycle!Spec

\* Every step keeps a latched failure, unless it is socket_start or
\* socket_reset_failed.
LEMMA NextKeeps ==
    ASSUME RInv, [Next]_vars
    PROVE  s.result # "success" /\ s'.result = "success" => Start \/ ResetFailed
<1>1. CASE Start \/ ResetFailed
  BY <1>1
<1>2. CASE QueueStop \/ CancelStop \/ UNCHANGED vars
  BY <1>2 DEF QueueStop, CancelStop, vars
<1>3. CASE \/ Stop \/ FdEvent \/ FdError \/ \E p \in Pids : ChildExit(p)
           \/ TimerFires \/ SvcStartRequested \/ SvcJobRuns \/ SvcUp \/ SvcDown
  <2>1. Moves
    BY <1>3, StopMoves, FdEventMoves, ChildExitMoves, TimerFiresMoves,
       ServiceMoves
  <2>2. QED
    BY <2>1 DEF Moves, Keeps
<1>4. QED
  BY <1>1, <1>2, <1>3 DEF Next

(***************************************************************************)
(* A latched failure is only cleared by socket_start or                   *)
(* socket_reset_failed (FailureLatched), for every value of the           *)
(* constants: no handler on the stop path, no helper exit, timeout or     *)
(* service notification writes success over a failure result.             *)
(***************************************************************************)
THEOREM FailureLatchedHolds == Spec => FailureLatched
<1>1. Init => RInv
  BY InitRInv
<1>2. RInv /\ [Next]_vars => RInv'
  BY NextMaps
<1>3. RInv /\ [Next]_vars =>
          [s.result # "success" /\ s'.result = "success" => Start \/ ResetFailed]_vars
  BY NextKeeps
<1>4. QED
  BY <1>1, <1>2, <1>3, PTL DEF Spec, FailureLatched

=============================================================================
