------------------------- MODULE SocketUnit_proofs -------------------------
(***************************************************************************)
(* Proofs about SocketUnit for every value of the constants.              *)
(*                                                                         *)
(* Each socket_enter_* operator maps a Socket record to a set of records; *)
(* the lemmas below state, one operator at a time and bottom-up along the *)
(* call graph of socket.c, that these sets stay inside Good: well-typed   *)
(* records whose command cursor points into the list it names.  The       *)
(* cursor part is what makes the type invariant inductive: without it     *)
(* socket_run_next could advance control_command past MaxCommands.        *)
(*                                                                         *)
(* Record updates with several EXCEPT clauses are typed with Zenon; the   *)
(* arithmetic on the cursor is then done on the field values alone.       *)
(***************************************************************************)
EXTENDS SocketUnit, TLAPS

\* Well-typed Socket records with a valid command cursor.
Good ==
    {u \in SocketT :
        u.controlCommand # 0 =>
            /\ u.controlCommandId \in ExecIds
            /\ u.controlCommand <= cfg.exec[u.controlCommandId]}

\* The inductive invariant: the type invariant strengthened by the cursor.
IInv == TypeOK /\ s \in Good

\* The assumption every lemma about a Socket record runs under.
Hyp == cfg \in ConfigT

-----------------------------------------------------------------------------
(***************************************************************************)
(* Building blocks.                                                       *)
(***************************************************************************)

LEMMA PortsConst ==
    NoPorts \in [Ports -> BOOLEAN] /\ AllPorts \in [Ports -> BOOLEAN]
BY DEF NoPorts, AllPorts

LEMMA ResetValues ==
    /\ NoPid \in Pids \cup {NoPid}
    /\ 0 \in 0..MaxCommands
    /\ "invalid" \in ExecIds \cup {"invalid"}
BY MaxCommandsAssumption DEF NoPid

\* A well-typed record with the cursor of a Good one is Good.
LEMMA GoodKeep ==
    ASSUME NEW u \in Good, NEW w \in SocketT,
           w.controlCommand = u.controlCommand,
           w.controlCommandId = u.controlCommandId
    PROVE  w \in Good
BY DEF Good

\* A well-typed record with no cursor is Good.
LEMMA GoodReset ==
    ASSUME NEW w \in SocketT, w.controlCommand = 0
    PROVE  w \in Good
BY DEF Good

LEMMA GoodType ==
    ASSUME NEW u \in Good
    PROVE  u \in SocketT
BY DEF Good

-----------------------------------------------------------------------------
(***************************************************************************)
(* socket_set_state, the result latch, and the spawn helpers.            *)
(***************************************************************************)

LEMMA SetStateGood ==
    ASSUME NEW u \in Good, NEW st \in States
    PROVE  SetState(u, st) \in Good
<1>1. u \in SocketT
  BY GoodType
<1>2. SetState(u, st) \in SocketT
  BY <1>1, ResetValues, PortsConst, Zenon DEF SetState, SocketT
<1>3. CASE st \in Transient
  <2>1. /\ SetState(u, st).controlCommand = u.controlCommand
        /\ SetState(u, st).controlCommandId = u.controlCommandId
    BY <1>1, <1>3, Zenon DEF SetState, SocketT
  <2>2. QED
    BY <1>2, <2>1, GoodKeep
<1>4. CASE st \notin Transient
  <2>1. SetState(u, st).controlCommand = 0
    BY <1>1, <1>4, Zenon DEF SetState, SocketT
  <2>2. QED
    BY <1>2, <2>1, GoodReset
<1>5. QED
  BY <1>3, <1>4

LEMMA LatchGood ==
    ASSUME NEW u \in Good, NEW f \in Results
    PROVE  Latch(u, f) \in Good
BY DEF Good, SocketT, Latch

\* Setting the timer, the watches or the open fds keeps a record Good.
LEMMA TimerGood ==
    ASSUME NEW u \in Good, NEW b \in BOOLEAN
    PROVE  [u EXCEPT !.timer = b] \in Good
BY DEF Good, SocketT

LEMMA PortsGood ==
    ASSUME NEW u \in Good, NEW m \in [Ports -> BOOLEAN]
    PROVE  /\ [u EXCEPT !.watched = m] \in Good
           /\ [u EXCEPT !.fds = m] \in Good
BY DEF Good, SocketT

LEMMA SpawnGood ==
    ASSUME Hyp, NEW u \in Good
    PROVE  /\ SpawnOk(u) \subseteq Good
           /\ SpawnFail(u) \subseteq Good
           /\ ChownOk(u) \subseteq Good
           /\ ChownFail(u) \subseteq Good
<1>1. u \in SocketT
  BY GoodType
<1>2. ASSUME NEW p \in FreePids(u)
      PROVE  /\ [u EXCEPT !.timer = TRUE, !.controlPid = p,
                          !.procs = u.procs \cup {p}] \in Good
             /\ [u EXCEPT !.timer = FALSE, !.procs = u.procs \cup {p}] \in Good
             /\ [u EXCEPT !.controlPid = p, !.procs = u.procs \cup {p}] \in Good
             /\ [u EXCEPT !.procs = u.procs \cup {p}] \in Good
  <2>1. p \in Pids \cup {NoPid} /\ u.procs \cup {p} \in SUBSET Pids
    BY <1>1 DEF FreePids, SocketT
  <2>2. /\ [u EXCEPT !.timer = TRUE, !.controlPid = p,
                     !.procs = u.procs \cup {p}] \in SocketT
        /\ [u EXCEPT !.timer = FALSE, !.procs = u.procs \cup {p}] \in SocketT
        /\ [u EXCEPT !.controlPid = p, !.procs = u.procs \cup {p}] \in SocketT
        /\ [u EXCEPT !.procs = u.procs \cup {p}] \in SocketT
    BY <1>1, <2>1, Zenon DEF SocketT
  <2>3. /\ [u EXCEPT !.timer = TRUE, !.controlPid = p,
                     !.procs = u.procs \cup {p}].controlCommand = u.controlCommand
        /\ [u EXCEPT !.timer = TRUE, !.controlPid = p,
                     !.procs = u.procs \cup {p}].controlCommandId = u.controlCommandId
        /\ [u EXCEPT !.timer = FALSE, !.procs = u.procs \cup {p}].controlCommand
               = u.controlCommand
        /\ [u EXCEPT !.timer = FALSE, !.procs = u.procs \cup {p}].controlCommandId
               = u.controlCommandId
        /\ [u EXCEPT !.controlPid = p, !.procs = u.procs \cup {p}].controlCommand
               = u.controlCommand
        /\ [u EXCEPT !.controlPid = p, !.procs = u.procs \cup {p}].controlCommandId
               = u.controlCommandId
        /\ [u EXCEPT !.procs = u.procs \cup {p}].controlCommand = u.controlCommand
        /\ [u EXCEPT !.procs = u.procs \cup {p}].controlCommandId
               = u.controlCommandId
    BY <1>1, Zenon DEF SocketT
  <2>4. QED
    BY <2>2, <2>3, GoodKeep, Zenon
<1>3. [u EXCEPT !.timer = FALSE] \in Good
  BY TimerGood, Zenon
<1>4. QED
  BY <1>2, <1>3, Zenon DEF SpawnOk, SpawnFail, ChownOk, ChownFail

-----------------------------------------------------------------------------
(***************************************************************************)
(* The enter_* operators of the stop path.                               *)
(***************************************************************************)

\* The prologue of a command list leaves the cursor at its head.
LEMMA BeginCommandListGood ==
    ASSUME Hyp, NEW u \in Good, NEW id \in ExecIds
    PROVE  BeginCommandList(u, id) \in Good
<1> DEFINE n == IF cfg.exec[id] > 0 THEN 1 ELSE 0
<1>1. u \in SocketT
  BY GoodType
<1>2. /\ n \in 0..MaxCommands
      /\ n # 0 => n <= cfg.exec[id]
      /\ id \in ExecIds \cup {"invalid"}
  BY MaxCommandsAssumption DEF Hyp, ConfigT
<1>3. BeginCommandList(u, id) \in SocketT
  BY <1>1, <1>2, ResetValues, Zenon DEF BeginCommandList, SocketT
<1>4. /\ BeginCommandList(u, id).controlCommand = n
      /\ BeginCommandList(u, id).controlCommandId = id
  BY <1>1, Zenon DEF BeginCommandList, SocketT
<1>5. QED
  BY <1>2, <1>3, <1>4 DEF Good

LEMMA SignalWaitGood ==
    ASSUME NEW u \in Good, NEW st \in States
    PROVE  SignalWait(u, st) \subseteq Good
<1>1. [u EXCEPT !.timer = TRUE] \in Good
  BY TimerGood
<1>2. QED
  BY <1>1, SetStateGood DEF SignalWait

LEMMA KillDoneType ==
    ASSUME NEW u
    PROVE  KillDone(u) \subseteq BOOLEAN
BY DEF KillDone

LEMMA EnterDeadGood ==
    ASSUME NEW u \in Good, NEW f \in Results
    PROVE  EnterDead(u, f) \subseteq Good
<1>1. Latch(u, f) \in Good
  BY LatchGood
<1>2. (IF Latch(u, f).result # "success" THEN "failed" ELSE "dead") \in States
  BY DEF States
<1>3. QED
  BY <1>1, <1>2, SetStateGood DEF EnterDead

LEMMA EnterSignalFinalGood ==
    ASSUME NEW u \in Good, NEW st \in States, NEW f \in Results
    PROVE  EnterSignalFinal(u, st, f) \subseteq Good
<1> DEFINE v == Latch(u, f)
<1>1. v \in Good
  BY LatchGood
<1>2. SignalWait(v, st) \subseteq Good
  BY <1>1, SignalWaitGood
<1>3. \A ok \in KillDone(v) :
        EnterDead(v, IF ok THEN "success" ELSE "resources") \subseteq Good
  BY <1>1, KillDoneType, EnterDeadGood DEF Results
<1>4. QED
  BY <1>2, <1>3 DEF EnterSignalFinal

LEMMA EnterStopPostGood ==
    ASSUME Hyp, NEW u \in Good, NEW f \in Results
    PROVE  EnterStopPost(u, f) \subseteq Good
<1> DEFINE v == BeginCommandList(Latch(u, f), "StopPost")
<1>1. v \in Good
  BY LatchGood, BeginCommandListGood DEF ExecIds
<1>2. /\ SpawnOk(v) \subseteq Good
      /\ SpawnFail(v) \subseteq Good
  BY <1>1, SpawnGood
<1>3. \A w \in SpawnOk(v) : SetState(w, "stop-post") \in Good
  BY <1>2, SetStateGood DEF States
<1>4. \A w \in SpawnFail(v) :
        EnterSignalFinal(w, "final-sigterm", "resources") \subseteq Good
  BY <1>2, EnterSignalFinalGood DEF States, Results
<1>5. EnterSignalFinal(v, "final-sigterm", "success") \subseteq Good
  BY <1>1, EnterSignalFinalGood DEF States, Results
<1>6. QED
  BY <1>3, <1>4, <1>5 DEF EnterStopPost

LEMMA EnterSignalStopPreGood ==
    ASSUME Hyp, NEW u \in Good, NEW st \in States, NEW f \in Results
    PROVE  EnterSignalStopPre(u, st, f) \subseteq Good
<1> DEFINE v == Latch(u, f)
<1>1. v \in Good
  BY LatchGood
<1>2. SignalWait(v, st) \subseteq Good
  BY <1>1, SignalWaitGood
<1>3. \A ok \in KillDone(v) :
        EnterStopPost(v, IF ok THEN "success" ELSE "resources") \subseteq Good
  BY <1>1, KillDoneType, EnterStopPostGood DEF Results
<1>4. QED
  BY <1>2, <1>3 DEF EnterSignalStopPre

LEMMA EnterStopPreGood ==
    ASSUME Hyp, NEW u \in Good, NEW f \in Results
    PROVE  EnterStopPre(u, f) \subseteq Good
<1> DEFINE v == BeginCommandList(Latch(u, f), "StopPre")
<1>1. v \in Good
  BY LatchGood, BeginCommandListGood DEF ExecIds
<1>2. /\ SpawnOk(v) \subseteq Good
      /\ SpawnFail(v) \subseteq Good
  BY <1>1, SpawnGood
<1>3. \A w \in SpawnOk(v) : SetState(w, "stop-pre") \in Good
  BY <1>2, SetStateGood DEF States
<1>4. \A w \in SpawnFail(v) : EnterStopPost(w, "resources") \subseteq Good
  BY <1>2, EnterStopPostGood DEF Results
<1>5. EnterStopPost(v, "success") \subseteq Good
  BY <1>1, EnterStopPostGood DEF Results
<1>6. QED
  BY <1>3, <1>4, <1>5 DEF EnterStopPre

LEMMA EnterListeningGood ==
    ASSUME Hyp, NEW u \in Good
    PROVE  EnterListening(u) \subseteq Good
<1>1. u.fds \in [Ports -> BOOLEAN]
  BY GoodType DEF SocketT
<1>2. /\ [u EXCEPT !.watched = u.fds] \in Good
      /\ [u EXCEPT !.watched = NoPorts] \in Good
  BY <1>1, PortsConst, PortsGood
<1>3. QED
  BY <1>2, SetStateGood, EnterStopPreGood DEF EnterListening, States, Results

LEMMA EnterStartPostGood ==
    ASSUME Hyp, NEW u \in Good
    PROVE  EnterStartPost(u) \subseteq Good
<1> DEFINE v == BeginCommandList(u, "StartPost")
<1>1. v \in Good
  BY BeginCommandListGood DEF ExecIds
<1>2. /\ SpawnOk(v) \subseteq Good
      /\ SpawnFail(v) \subseteq Good
  BY <1>1, SpawnGood
<1>3. \A w \in SpawnOk(v) : SetState(w, "start-post") \in Good
  BY <1>2, SetStateGood DEF States
<1>4. \A w \in SpawnFail(v) : EnterStopPre(w, "resources") \subseteq Good
  BY <1>2, EnterStopPreGood DEF Results
<1>5. EnterListening(v) \subseteq Good
  BY <1>1, EnterListeningGood
<1>6. QED
  BY <1>3, <1>4, <1>5 DEF EnterStartPost

-----------------------------------------------------------------------------
(***************************************************************************)
(* The start path: socket_open_fds, start-chown, start-pre.              *)
(***************************************************************************)

LEMMA OpenGood ==
    ASSUME NEW u \in Good
    PROVE  /\ OpenOk(u) \in Good
           /\ OpenFail(u) \subseteq Good
<1>1. u \in SocketT
  BY GoodType
<1>2. OpenedBefore(u) \in [Ports -> BOOLEAN]
  BY <1>1 DEF OpenedBefore, SocketT
<1>3. [u EXCEPT !.fds = NoPorts, !.watched = NoPorts] \in SocketT
  BY <1>1, PortsConst, Zenon DEF SocketT
<1>4. /\ [u EXCEPT !.fds = NoPorts, !.watched = NoPorts].controlCommand
           = u.controlCommand
      /\ [u EXCEPT !.fds = NoPorts, !.watched = NoPorts].controlCommandId
           = u.controlCommandId
  BY <1>1, Zenon DEF SocketT
<1>5. [u EXCEPT !.fds = NoPorts, !.watched = NoPorts] \in Good
  BY <1>3, <1>4, GoodKeep
<1>6. /\ [u EXCEPT !.fds = OpenedBefore(u)] \in Good
      /\ [u EXCEPT !.fds = AllPorts] \in Good
  BY <1>2, PortsConst, PortsGood
<1>7. QED
  BY <1>5, <1>6 DEF OpenOk, OpenFail

\* The body of socket_enter_start_chown, for any Good cursor record v.
LEMMA StartChownBodyGood ==
    ASSUME Hyp, NEW u \in Good, NEW v \in Good
    PROVE  ((UNION {EnterStopPre(w, "resources") : w \in OpenFail(u)}) \cup
            IF cfg.owner
            THEN {SetState(w, "start-chown") : w \in ChownOk(v)} \cup
                 UNION {EnterStopPre(w, "resources") : w \in ChownFail(v)}
            ELSE EnterStartPost(OpenOk(u))) \subseteq Good
<1>1. /\ OpenOk(u) \in Good
      /\ OpenFail(u) \subseteq Good
  BY OpenGood
<1>2. /\ ChownOk(v) \subseteq Good
      /\ ChownFail(v) \subseteq Good
  BY SpawnGood
<1>3. \A w \in OpenFail(u) \cup ChownFail(v) :
        EnterStopPre(w, "resources") \subseteq Good
  BY <1>1, <1>2, EnterStopPreGood DEF Results
<1>4. \A w \in ChownOk(v) : SetState(w, "start-chown") \in Good
  BY <1>2, SetStateGood DEF States
<1>5. EnterStartPost(OpenOk(u)) \subseteq Good
  BY <1>1, EnterStartPostGood
<1>6. UNION {EnterStopPre(w, "resources") : w \in OpenFail(u)} \subseteq Good
  BY <1>3
<1>7. UNION {EnterStopPre(w, "resources") : w \in ChownFail(v)} \subseteq Good
  BY <1>3
<1>8. {SetState(w, "start-chown") : w \in ChownOk(v)} \subseteq Good
  BY <1>4
<1>9. CASE cfg.owner
  BY <1>6, <1>7, <1>8, <1>9
<1>10. CASE ~cfg.owner
  BY <1>5, <1>6, <1>10
<1>11. QED
  BY <1>9, <1>10

LEMMA EnterStartChownGood ==
    ASSUME Hyp, NEW u \in Good
    PROVE  EnterStartChown(u) \subseteq Good
<1>1. OpenOk(u) \in SocketT
  BY OpenGood, GoodType
<1>2. [OpenOk(u) EXCEPT !.controlPid = NoPid, !.controlCommandId = "StartChown",
                        !.controlCommand = 0] \in SocketT
  BY <1>1, ResetValues, Zenon DEF SocketT, ExecIds
<1>3. [OpenOk(u) EXCEPT !.controlPid = NoPid, !.controlCommandId = "StartChown",
                        !.controlCommand = 0].controlCommand = 0
  BY <1>1, Zenon DEF SocketT
<1>4. [OpenOk(u) EXCEPT !.controlPid = NoPid, !.controlCommandId = "StartChown",
                        !.controlCommand = 0] \in Good
  BY <1>2, <1>3, GoodReset, Zenon
<1>5. QED
  BY <1>4, StartChownBodyGood, Zenon DEF EnterStartChown

LEMMA EnterStartPreGood ==
    ASSUME Hyp, NEW u \in Good
    PROVE  EnterStartPre(u) \subseteq Good
<1> DEFINE v == BeginCommandList(u, "StartPre")
<1>1. v \in Good
  BY BeginCommandListGood DEF ExecIds
<1>2. /\ SpawnOk(v) \subseteq Good
      /\ SpawnFail(v) \subseteq Good
  BY <1>1, SpawnGood
<1>3. \A w \in SpawnOk(v) : SetState(w, "start-pre") \in Good
  BY <1>2, SetStateGood DEF States
<1>4. \A w \in SpawnFail(v) : EnterDead(w, "resources") \subseteq Good
  BY <1>2, EnterDeadGood DEF Results
<1>5. EnterStartChown(v) \subseteq Good
  BY <1>1, EnterStartChownGood
<1>6. QED
  BY <1>3, <1>4, <1>5 DEF EnterStartPre

-----------------------------------------------------------------------------
(***************************************************************************)
(* socket_run_next, the SIGCHLD dispatch, the timer and the service.     *)
(***************************************************************************)

\* A well-typed record whose cursor is within its list is Good.
LEMMA GoodCursor ==
    ASSUME NEW w \in SocketT, w.controlCommandId \in ExecIds,
           w.controlCommand <= cfg.exec[w.controlCommandId]
    PROVE  w \in Good
BY DEF Good

LEMMA RunNextFailGood ==
    ASSUME Hyp, NEW u \in Good
    PROVE  RunNextFail(u) \subseteq Good
BY EnterStopPreGood, EnterDeadGood, EnterSignalFinalGood
   DEF RunNextFail, Results, States

\* The body of socket_run_next, for any Good record v.
LEMMA RunNextBodyGood ==
    ASSUME Hyp, NEW v \in Good
    PROVE  (SpawnOk(v) \cup UNION {RunNextFail(w) : w \in SpawnFail(v)})
              \subseteq Good
<1>1. /\ SpawnOk(v) \subseteq Good
      /\ SpawnFail(v) \subseteq Good
  BY SpawnGood
<1>2. \A w \in SpawnFail(v) : RunNextFail(w) \subseteq Good
  BY <1>1, RunNextFailGood
<1>3. QED
  BY <1>1, <1>2

\* socket_run_next is only called while the list has a next command.
LEMMA RunNextGood ==
    ASSUME Hyp, NEW u \in Good, u.controlCommandId \in ExecIds,
           u.controlCommand < cfg.exec[u.controlCommandId]
    PROVE  RunNext(u) \subseteq Good
<1>1. u \in SocketT
  BY GoodType
<1>2. /\ u.controlCommand + 1 \in 0..MaxCommands
      /\ u.controlCommand + 1 <= cfg.exec[u.controlCommandId]
  <2>1. cfg.exec[u.controlCommandId] \in 0..MaxCommands
    BY DEF Hyp, ConfigT
  <2>2. u.controlCommand \in 0..MaxCommands
    BY <1>1 DEF SocketT
  <2>3. QED
    BY <2>1, <2>2, MaxCommandsAssumption
<1>3. [u EXCEPT !.controlPid = NoPid, !.controlCommand = u.controlCommand + 1]
        \in SocketT
  BY <1>1, <1>2, ResetValues, Zenon DEF SocketT
<1>4. /\ [u EXCEPT !.controlPid = NoPid,
                   !.controlCommand = u.controlCommand + 1].controlCommand
           = u.controlCommand + 1
      /\ [u EXCEPT !.controlPid = NoPid,
                   !.controlCommand = u.controlCommand + 1].controlCommandId
           = u.controlCommandId
  BY <1>1, Zenon DEF SocketT
<1>5. [u EXCEPT !.controlPid = NoPid, !.controlCommand = u.controlCommand + 1]
        \in Good
  BY <1>2, <1>3, <1>4, GoodCursor, Zenon
<1>6. QED
  BY <1>5, RunNextBodyGood, Zenon DEF RunNext

\* The dispatch of socket_sigchld_event, for any Good record v.
LEMMA ChildDoneBodyGood ==
    ASSUME Hyp, NEW u \in Good, NEW v \in Good, NEW f \in Results
    PROVE  (CASE u.state = "start-pre" ->
                 IF f = "success" THEN EnterStartChown(v)
                 ELSE EnterSignalFinal(v, "final-sigterm", f)
              [] u.state = "start-chown" ->
                 IF f = "success" THEN EnterStartPost(v) ELSE EnterStopPre(v, f)
              [] u.state = "start-post" ->
                 IF f = "success" THEN EnterListening(v) ELSE EnterStopPre(v, f)
              [] u.state \in {"stop-pre", "stop-pre-sigterm", "stop-pre-sigkill"} ->
                 EnterStopPost(v, f)
              [] OTHER -> EnterDead(v, f)) \subseteq Good
<1>1. /\ EnterStartChown(v) \subseteq Good
      /\ EnterSignalFinal(v, "final-sigterm", f) \subseteq Good
      /\ EnterStartPost(v) \subseteq Good
      /\ EnterStopPre(v, f) \subseteq Good
      /\ EnterListening(v) \subseteq Good
      /\ EnterStopPost(v, f) \subseteq Good
      /\ EnterDead(v, f) \subseteq Good
  BY EnterStartChownGood, EnterSignalFinalGood, EnterStartPostGood,
     EnterStopPreGood, EnterListeningGood, EnterStopPostGood, EnterDeadGood
     DEF States
<1>2. QED
  BY <1>1

LEMMA ChildDoneGood ==
    ASSUME Hyp, NEW u \in Good, NEW f \in Results
    PROVE  ChildDone(u, f) \subseteq Good
<1>1. u \in SocketT
  BY GoodType
<1>2. [u EXCEPT !.controlCommandId = "invalid", !.controlCommand = 0] \in SocketT
  BY <1>1, ResetValues, Zenon DEF SocketT
<1>3. [u EXCEPT !.controlCommandId = "invalid", !.controlCommand = 0]
        .controlCommand = 0
  BY <1>1, Zenon DEF SocketT
<1>4. [u EXCEPT !.controlCommandId = "invalid", !.controlCommand = 0] \in Good
  BY <1>2, <1>3, GoodReset, Zenon
<1>5. QED
  BY <1>4, ChildDoneBodyGood, Zenon DEF ChildDone

LEMMA TimerDoneGood ==
    ASSUME Hyp, NEW u \in Good
    PROVE  TimerDone(u) \subseteq Good
<1>1. /\ EnterSignalFinal(u, "final-sigterm", "timeout") \subseteq Good
      /\ EnterSignalFinal(u, "final-sigkill", "timeout") \subseteq Good
      /\ EnterStopPre(u, "timeout") \subseteq Good
      /\ EnterSignalStopPre(u, "stop-pre-sigterm", "timeout") \subseteq Good
      /\ EnterSignalStopPre(u, "stop-pre-sigkill", "timeout") \subseteq Good
      /\ EnterStopPost(u, "timeout") \subseteq Good
      /\ EnterDead(u, "timeout") \subseteq Good
  BY EnterSignalFinalGood, EnterStopPreGood, EnterSignalStopPreGood,
     EnterStopPostGood, EnterDeadGood DEF States, Results
<1>2. QED
  BY <1>1 DEF TimerDone

LEMMA TriggerNotifyGood ==
    ASSUME Hyp, NEW u \in Good, NEW st \in SvcStates, NEW fp \in BOOLEAN
    PROVE  TriggerNotify(u, st, fp) \subseteq Good
<1>1. NotifyServiceDead(u, fp) \subseteq Good /\ NotifyServiceDead(u, FALSE) \subseteq Good
  BY EnterStopPreGood, EnterListeningGood DEF NotifyServiceDead, Results
<1>2. SetState(u, "running") \in Good
  BY SetStateGood DEF States
<1>3. QED
  BY <1>1, <1>2 DEF TriggerNotify

-----------------------------------------------------------------------------
(***************************************************************************)
(* The handlers preserve IInv.                                            *)
(***************************************************************************)

\* IInv holds after a step that keeps cfg and ends in a Good record.
LEMMA StepClose ==
    ASSUME TypeOK, s' \in Good, cfg' = cfg, stopPending' \in BOOLEAN,
           svc' \in SvcStates, svcJob' \in BOOLEAN
    PROVE  IInv'
BY DEF IInv, TypeOK, Good

LEMMA ResultGood ==
    ASSUME NEW u \in Good, NEW r \in Results
    PROVE  [u EXCEPT !.result = r] \in Good
BY DEF Good, SocketT

LEMMA DropProcGood ==
    ASSUME NEW u \in Good, NEW p
    PROVE  [u EXCEPT !.procs = u.procs \ {p}] \in Good
BY DEF Good, SocketT

\* The drain of socket_enter_running closes and unwatches every port.
LEMMA DrainGood ==
    ASSUME NEW u \in Good
    PROVE  [u EXCEPT !.fds = NoPorts, !.watched = NoPorts] \in Good
<1>1. u \in SocketT
  BY GoodType
<1>2. [u EXCEPT !.fds = NoPorts, !.watched = NoPorts] \in SocketT
  BY <1>1, PortsConst, Zenon DEF SocketT
<1>3. /\ [u EXCEPT !.fds = NoPorts, !.watched = NoPorts].controlCommand
           = u.controlCommand
      /\ [u EXCEPT !.fds = NoPorts, !.watched = NoPorts].controlCommandId
           = u.controlCommandId
  BY <1>1, Zenon DEF SocketT
<1>4. QED
  BY <1>2, <1>3, GoodKeep, Zenon

\* Reaping the control child keeps the cursor of the record.
LEMMA ReapGood ==
    ASSUME NEW u \in Good, NEW p, NEW f \in Results
    PROVE  /\ Latch([u EXCEPT !.controlPid = NoPid, !.procs = u.procs \ {p}], f)
                  \in Good
           /\ Latch([u EXCEPT !.controlPid = NoPid, !.procs = u.procs \ {p}], f)
                  .controlCommand = u.controlCommand
           /\ Latch([u EXCEPT !.controlPid = NoPid, !.procs = u.procs \ {p}], f)
                  .controlCommandId = u.controlCommandId
<1>1. u \in SocketT
  BY GoodType
<1>2. u.procs \ {p} \in SUBSET Pids
  BY <1>1 DEF SocketT
<1>3. [u EXCEPT !.controlPid = NoPid, !.procs = u.procs \ {p}] \in SocketT
  BY <1>1, <1>2, ResetValues, Zenon DEF SocketT
<1>4. /\ [u EXCEPT !.controlPid = NoPid, !.procs = u.procs \ {p}].controlCommand
           = u.controlCommand
      /\ [u EXCEPT !.controlPid = NoPid, !.procs = u.procs \ {p}].controlCommandId
           = u.controlCommandId
  BY <1>1, Zenon DEF SocketT
<1>5. [u EXCEPT !.controlPid = NoPid, !.procs = u.procs \ {p}] \in Good
  BY <1>3, <1>4, GoodKeep, Zenon
<1>6. ASSUME NEW w \in Good
      PROVE  /\ Latch(w, f) \in Good
             /\ Latch(w, f).controlCommand = w.controlCommand
             /\ Latch(w, f).controlCommandId = w.controlCommandId
  BY LatchGood DEF Latch
<1>7. QED
  BY <1>4, <1>5, <1>6, Zenon

\* The tail of socket_sigchld_event, for the reaped record v of u.
LEMMA ChildExitBodyGood ==
    ASSUME Hyp, NEW u \in Good, NEW v \in Good, NEW f \in Results, NEW x,
           v.controlCommand = u.controlCommand,
           v.controlCommandId = u.controlCommandId,
           IF /\ u.controlCommand # 0
              /\ u.controlCommand < cfg.exec[u.controlCommandId]
              /\ f = "success"
           THEN x \in RunNext(v)
           ELSE x \in ChildDone(v, f)
    PROVE  x \in Good
<1>1. CASE /\ u.controlCommand # 0
           /\ u.controlCommand < cfg.exec[u.controlCommandId]
           /\ f = "success"
  <2>1. v.controlCommandId \in ExecIds
    BY <1>1 DEF Good
  <2>2. RunNext(v) \subseteq Good
    BY <1>1, <2>1, RunNextGood
  <2>3. QED
    BY <1>1, <2>2
<1>2. CASE ~(/\ u.controlCommand # 0
             /\ u.controlCommand < cfg.exec[u.controlCommandId]
             /\ f = "success")
  BY <1>2, ChildDoneGood
<1>3. QED
  BY <1>1, <1>2

LEMMA IInvHyp ==
    ASSUME IInv
    PROVE  Hyp /\ s \in Good
BY DEF IInv, TypeOK, Hyp

LEMMA StartStep ==
    ASSUME IInv, Start
    PROVE  IInv'
<1>1. Hyp /\ s \in Good
  BY IInvHyp
<1>2. [s EXCEPT !.result = "success"] \in Good
  BY <1>1, ResultGood DEF Results
<1>3. s' \in Good
  BY <1>1, <1>2, EnterStartPreGood DEF Start
<1>4. QED
  BY <1>3, StepClose DEF Start, IInv, TypeOK

LEMMA StopStep ==
    ASSUME IInv, Stop
    PROVE  IInv'
<1>1. Hyp /\ s \in Good
  BY IInvHyp
<1>2. s' \in Good
  BY <1>1, EnterSignalStopPreGood, EnterStopPreGood DEF Stop, States, Results
<1>3. QED
  BY <1>2, StepClose DEF Stop, IInv, TypeOK

LEMMA FdEventStep ==
    ASSUME IInv, FdEvent
    PROVE  IInv'
<1>1. Hyp /\ s \in Good
  BY IInvHyp
<1>2. /\ [s EXCEPT !.fds = NoPorts, !.watched = NoPorts] \in Good
      /\ SetState(s, "running") \in Good
      /\ EnterStopPre(s, "resources") \subseteq Good
  BY <1>1, DrainGood, SetStateGood, EnterStopPreGood DEF States, Results
<1>3. s' \in Good
  BY <1>2, Zenon DEF FdEvent
<1>4. /\ UNCHANGED <<cfg, stopPending, svc>>
      /\ svcJob' \in {svcJob, TRUE}
  BY Zenon DEF FdEvent
<1>5. QED
  BY <1>3, <1>4, StepClose DEF IInv, TypeOK

LEMMA FdErrorStep ==
    ASSUME IInv, FdError
    PROVE  IInv'
<1>1. Hyp /\ s \in Good
  BY IInvHyp
<1>2. QED
  BY <1>1, EnterStopPreGood, StepClose DEF FdError, Results, IInv, TypeOK

LEMMA ChildExitStep ==
    ASSUME IInv, NEW p \in Pids, ChildExit(p)
    PROVE  IInv'
<1>1. Hyp /\ s \in Good
  BY IInvHyp
<1>2. ASSUME p # s.controlPid, s' = [s EXCEPT !.procs = s.procs \ {p}]
      PROVE  s' \in Good
  BY <1>1, <1>2, DropProcGood
<1>3. ASSUME p = s.controlPid,
             \E code \in ExitResults :
                LET f == IF s.controlCommand # 0 /\ cfg.ignore[s.controlCommandId]
                         THEN "success" ELSE code
                    v == Latch([s EXCEPT !.controlPid = NoPid,
                                         !.procs = s.procs \ {p}], f)
                IN  IF /\ s.controlCommand # 0
                       /\ s.controlCommand < cfg.exec[s.controlCommandId]
                       /\ f = "success"
                    THEN s' \in RunNext(v)
                    ELSE s' \in ChildDone(v, f)
      PROVE  s' \in Good
  <2>1. PICK code \in ExitResults :
            LET f == IF s.controlCommand # 0 /\ cfg.ignore[s.controlCommandId]
                     THEN "success" ELSE code
                v == Latch([s EXCEPT !.controlPid = NoPid,
                                     !.procs = s.procs \ {p}], f)
            IN  IF /\ s.controlCommand # 0
                   /\ s.controlCommand < cfg.exec[s.controlCommandId]
                   /\ f = "success"
                THEN s' \in RunNext(v)
                ELSE s' \in ChildDone(v, f)
    BY <1>3, Zenon
  <2> DEFINE f == IF s.controlCommand # 0 /\ cfg.ignore[s.controlCommandId]
                  THEN "success" ELSE code
  <2>2. f \in Results
    BY DEF ExitResults, Results
  <2> DEFINE v == Latch([s EXCEPT !.controlPid = NoPid,
                                  !.procs = s.procs \ {p}], f)
  <2>3. /\ v \in Good
        /\ v.controlCommand = s.controlCommand
        /\ v.controlCommandId = s.controlCommandId
    <3> HIDE DEF f
    <3> QED
      BY <1>1, <2>2, ReapGood, Zenon
  <2>4. IF /\ s.controlCommand # 0
           /\ s.controlCommand < cfg.exec[s.controlCommandId]
           /\ f = "success"
        THEN s' \in RunNext(v)
        ELSE s' \in ChildDone(v, f)
    BY <2>1, Zenon
  <2>5. QED
    BY <1>1, <2>2, <2>3, <2>4, ChildExitBodyGood, Zenon
<1>4. s' \in Good
  BY <1>2, <1>3, Zenon DEF ChildExit
<1>5. UNCHANGED <<cfg, stopPending, svc, svcJob>>
  BY Zenon DEF ChildExit
<1>6. QED
  BY <1>4, <1>5, StepClose DEF IInv, TypeOK

LEMMA TimerFiresStep ==
    ASSUME IInv, TimerFires
    PROVE  IInv'
<1>1. Hyp /\ s \in Good
  BY IInvHyp
<1>2. [s EXCEPT !.timer = FALSE] \in Good
  BY <1>1, TimerGood
<1>3. QED
  BY <1>1, <1>2, TimerDoneGood, StepClose DEF TimerFires, IInv, TypeOK

LEMMA ResetFailedStep ==
    ASSUME IInv, ResetFailed
    PROVE  IInv'
<1>1. Hyp /\ s \in Good
  BY IInvHyp
<1>2. (IF s.state = "failed" THEN SetState(s, "dead") ELSE s) \in Good
  BY <1>1, SetStateGood DEF States
<1>3. QED
  BY <1>2, ResultGood, StepClose DEF ResetFailed, Results, IInv, TypeOK

LEMMA ServiceStep ==
    ASSUME IInv, SvcStartRequested \/ SvcJobRuns \/ SvcUp \/ SvcDown
    PROVE  IInv'
<1>1. Hyp /\ s \in Good
  BY IInvHyp
<1>2. \A st \in SvcStates, fp \in BOOLEAN : TriggerNotify(s, st, fp) \subseteq Good
  BY <1>1, TriggerNotifyGood
<1>3. QED
  BY <1>1, <1>2, StepClose
  DEF SvcStartRequested, TypeOK, SvcJobRuns, SvcUp, SvcDown, SvcStates, IInv

LEMMA InitIInv ==
    ASSUME Init
    PROVE  IInv
<1>1. cfg \in ConfigT
  BY ConfigsAssumption DEF Init
<1>2. InitSocket \in SocketT
  BY ResetValues, PortsConst DEF InitSocket, SocketT, States, Results
<1>3. QED
  BY <1>1, <1>2 DEF Init, IInv, TypeOK, Good, InitSocket, SvcStates

LEMMA NextIInv ==
    ASSUME IInv, [Next]_vars
    PROVE  IInv'
<1>1. CASE QueueStop \/ CancelStop
  BY <1>1, IInvHyp, StepClose DEF QueueStop, CancelStop, IInv, TypeOK
<1>2. CASE UNCHANGED vars
  BY <1>2, IInvHyp, StepClose DEF vars, IInv, TypeOK
<1>3. QED
  BY <1>1, <1>2, StartStep, StopStep, FdEventStep, FdErrorStep, ChildExitStep,
     TimerFiresStep, ResetFailedStep, ServiceStep DEF Next

(***************************************************************************)
(* Type correctness: every reachable state is well typed, for every value *)
(* of the constants.  It rests on the cursor invariant: the command       *)
(* cursor of socket_run_next never runs past the list it walks.           *)
(***************************************************************************)
THEOREM TypeCorrect == Spec => []TypeOK
<1>1. Init => IInv
  BY InitIInv
<1>2. IInv /\ [Next]_vars => IInv'
  BY NextIInv
<1>3. IInv => TypeOK
  BY DEF IInv
<1>4. QED
  BY <1>1, <1>2, <1>3, PTL DEF Spec

=============================================================================
