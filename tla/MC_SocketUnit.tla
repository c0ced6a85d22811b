--------------------------- MODULE MC_SocketUnit ---------------------------
(***************************************************************************)
(* Model-checking instance of SocketUnit: two ports, lists of up to two   *)
(* commands, three pids.                                                  *)
(***************************************************************************)
EXTENDS SocketUnit

\* Non-accepting units: a FIFO before a datagram socket, so that the early
\* return of socket_open_fds leaves the FIFO open.  Accepting units: two
\* stream sockets (socket_verify refuses anything else).
MCConfigs ==
    {[exec |-> [StartPre |-> a, StartChown |-> 0, StartPost |-> b,
                StopPre |-> c, StopPost |-> d],
      ignore |-> [i \in ExecIds |-> i = "StartPost" /\ ig],
      owner |-> o, accept |-> acc, sendSigkill |-> k, killMode |-> m,
      kind |-> IF acc THEN <<"stream", "stream">> ELSE <<"fifo", "dgram">>] :
        a \in 0..1, b \in {0, 2}, c \in 0..1, d \in 0..1, ig \in BOOLEAN,
        o \in BOOLEAN, acc \in BOOLEAN, k \in BOOLEAN,
        m \in {"control-group", "process"}}
=============================================================================
