------------------------------- MODULE Daemon -------------------------------
(***************************************************************************)
(* pdcm-daemon (apps/daemon/main.cpp): the core is started, the server      *)
(* bound, and after a signal both are stopped in the opposite order.        *)
(***************************************************************************)
EXTENDS LocalApiServer, ServiceCore

CONSTANT Loads   \* limits, what the peers send, and what fails in start

ASSUME DaemonAssumption ==
  \A l \in Loads : /\ l.max_sessions \in Nat \ {0} /\ l.fault \in Faults
                   /\ DOMAIN l.sent \subseteq Conns
                   /\ \A c \in DOMAIN l.sent : l.sent[c] \in Seq(Frames)

VARIABLE main   \* where main is

vars == <<main, allServerVars, coreVars>>

Init ==
  /\ main = "core_start"
  /\ ServerInit /\ CoreInit
  /\ \E l \in Loads : load = l.sent /\ max_sessions = l.max_sessions /\ fault = l.fault

(* If start fails, the destructor stops the core.                           *)
MainCoreStart ==
  /\ main = "core_start"
  /\ CoreStart
  /\ main' = CASE start' = "done" -> "server_start"
               [] start' = "failed" -> "core_stop"
               [] OTHER -> "core_start"
  /\ UNCHANGED allServerVars

MainServerStart ==
  /\ main = "server_start"
  /\ \/ core.state \in {"ready", "degraded"} /\ Start /\ main' = "serving"
     \/ main' = "core_stop" /\ UNCHANGED allServerVars
  /\ UNCHANGED coreVars

(* SIGINT or SIGTERM                                                        *)
MainSignal ==
  /\ main = "serving"
  /\ StopBegin
  /\ main' = "server_stop"
  /\ UNCHANGED coreVars

(* Mutant: the core is stopped while the server's threads are being joined. *)
MainServerStopEarly ==
  /\ main = "server_stop"
  /\ Stop
  /\ main' = IF control' = "join" THEN "core_stop" ELSE "server_stop"
  /\ UNCHANGED coreVars

MainServerStop ==
  /\ main = "server_stop"
  /\ Stop
  /\ main' = IF control' = "stopped" THEN "core_stop" ELSE "server_stop"
  /\ UNCHANGED coreVars

MainCoreStop ==
  /\ main = "core_stop"
  /\ CoreStop
  /\ main' = IF halt' = "done" THEN "exit" ELSE "core_stop"
  /\ UNCHANGED allServerVars

Main == MainCoreStart \/ MainServerStart \/ MainServerStop \/ MainCoreStop

Next == Main \/ MainSignal \/ (ServerThread /\ UNCHANGED <<main, coreVars>>)

Spec == Init /\ [][Next]_vars

(* Every poll has a timeout and every write a deadline, so a thread that is *)
(* scheduled goes on.  A signal need not come.                              *)
FairSpec ==
  /\ Spec
  /\ WF_vars(Main) /\ WF_vars(AcceptLoop /\ UNCHANGED <<main, coreVars>>)
  /\ \A c \in Conns : WF_vars(HandleConnection(c) /\ UNCHANGED <<main, coreVars>>)

-----------------------------------------------------------------------------
(* While a worker may ask it anything, the core serves and its provider has *)
(* not been shut down, and if it says it is ready it is (main, start).      *)
WorkersFindCore ==
  /\ ReadyIsTrue
  /\ bound \/ workers # {} => Serving /\ manager # "shutdown"

(* Once the daemon has exited no thread, session, connection or socket is   *)
(* left, and the provider that was called has been shut down (main, stop).  *)
ExitLeavesNothing ==
  main = "exit" =>
    /\ workers = {} /\ active_connections = 0 /\ connection_fds = {} /\ sessions = <<>>
    /\ accept_pc \in {"none", "exited"} /\ ~bound
    /\ \A c \in Conns : /\ sock[c].state \in {"none", "closed"}
                         /\ work[c].pc \in {"none", "finished"}
    /\ core.state = "stopped" /\ provider # "called"

(* After a signal the daemon exits, whatever the peers send or hold back: a *)
(* worker that had not registered its descriptor when stop shut them down   *)
(* sees running_ (stop, handleConnection).                                  *)
SignalEnds == main = "server_stop" ~> main = "exit"

=============================================================================
