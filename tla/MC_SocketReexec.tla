-------------------------- MODULE MC_SocketReexec --------------------------
(***************************************************************************)
(* Model-checking instance of SocketReexec: two ports, lists of up to two *)
(* commands, two pids, two re-execs.                                      *)
(***************************************************************************)
EXTENDS SocketReexec

\* Non-accepting units, a FIFO before a datagram socket.  ExecStartPost= has
\* two commands so that a re-exec can fall between them; the stop-path lists
\* are present or not; both kill modes and both SIGKILL settings.
MCReexecConfigs ==
    {[exec |-> [StartPre |-> 0, StartChown |-> 0, StartPost |-> 2,
                StopPre |-> c, StopPost |-> d],
      ignore |-> [i \in ExecIds |-> FALSE],
      owner |-> FALSE, accept |-> FALSE, sendSigkill |-> k, killMode |-> m,
      kind |-> <<"fifo", "dgram">>] :
        c \in 0..1, d \in 0..1, k \in BOOLEAN,
        m \in {"control-group", "process"}}

\* The same units with KillMode=process: every transient state then has a
\* control pid, so coldplug never refuses a state with -EBADMSG.
MCProcessConfigs == {c \in MCReexecConfigs : c.killMode = "process"}
=============================================================================
