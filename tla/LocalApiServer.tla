--------------------------- MODULE LocalApiServer ---------------------------
(***************************************************************************)
(* LocalApiServer (local_api_server.cpp) with its sessions, the handshake   *)
(* and the request router: the thread that starts and stops the server, the *)
(* accept thread, one worker thread per connection, and the peers.          *)
(*                                                                         *)
(* A frame is what its handlers tell apart: a sound hello or request, an    *)
(* incompatible or malformed frame, a frame of an unknown type, or one with *)
(* a length the decoder refuses.  All that a peer sends is there when it    *)
(* connects; a receive returns as much of it as has come, or nothing yet.   *)
(* Whether an answer can be written is up to the peer.                      *)
(***************************************************************************)
EXTENDS SessionManager, Sequences, FiniteSetsExt

CONSTANTS
  Conns,        \* the connections peers may make
  None

Frames == {"hello", "request", "incompatible", "malformed", "unknown", "bad_length"}

ASSUME ServerAssumption == IsFiniteSet(Conns) /\ None \notin Conns /\ None \notin Nat

VARIABLES
  load,                    \* what the peers send in this behaviour
  started_once, running,   \* started_once_, running_
  bound,                   \* bound_, with the listening socket
  accept_pc,               \* the accept thread
  backlog,                 \* the connections the kernel holds for accept
  admitting,               \* the connection accept4 has returned
  workers,                 \* workers_, by connection
  done,                    \* the workers' done flags that are set
  active_connections,      \* active_connections_
  connection_fds,          \* connection_fds_
  sock,                    \* the connection in the kernel, with what comes over it
  work,                    \* the worker of the connection
  control                  \* the thread that starts and stops the server

config == <<load, max_sessions>>
acceptVars == <<accept_pc, backlog, admitting, workers, active_connections>>
serverVars == <<started_once, running, bound>>
allServerVars == <<config, sessionVars, serverVars, acceptVars, done, connection_fds, sock,
          work, control>>

NoWork == [pc |-> "none", frames |-> <<>>, session |-> None, complete |-> FALSE, close |-> FALSE]
NoSock == [state |-> "none", fd |-> None, inbox |-> <<>>, gone |-> FALSE, shut |-> FALSE]

ServerInit ==
  /\ SessionsInit
  /\ started_once = FALSE /\ running = FALSE /\ bound = FALSE
  /\ accept_pc = "none" /\ backlog = <<>> /\ admitting = None
  /\ workers = {} /\ done = {} /\ active_connections = 0
  /\ connection_fds = {}
  /\ sock = [c \in Conns |-> NoSock]
  /\ work = [c \in Conns |-> NoWork]
  /\ control = "created"

Open(c) == sock[c].state = "open"
UsedFds == {sock[c].fd : c \in {d \in Conns : Open(d)}}

-----------------------------------------------------------------------------
(* The peers and the kernel, external *)

(* A new descriptor is the lowest that is free.                             *)
NewFd == Min((0..Cardinality(UsedFds)) \ UsedFds)

Connect(c) ==
  /\ bound /\ running /\ sock[c].state = "none" /\ c \in DOMAIN load
  /\ Len(backlog) < max_sessions
  /\ backlog' = Append(backlog, c)
  /\ sock' = [sock EXCEPT ![c].state = "backlog", ![c].inbox = load[c]]
  /\ UNCHANGED <<config, sessionVars, serverVars, accept_pc, admitting, workers,
                 active_connections, done, connection_fds, work, control>>

(* What the peer has not sent by then never comes.                          *)
HangUp(c) ==
  /\ sock[c].state \in {"backlog", "open"} /\ ~sock[c].gone
  /\ \E n \in 0..Len(sock[c].inbox) :
       sock' = [sock EXCEPT ![c].gone = TRUE, ![c].inbox = SubSeq(@, 1, n)]
  /\ UNCHANGED <<config, sessionVars, serverVars, acceptVars, done, connection_fds, work, control>>

-----------------------------------------------------------------------------
(* start and stop *)

(* A start that fails takes back what it has done.                          *)
Start ==
  /\ control = "created" /\ ~started_once
  /\ started_once' = TRUE /\ running' = TRUE /\ bound' = TRUE
  /\ accept_pc' = "check"
  /\ control' = "started"
  /\ UNCHANGED <<config, sessionVars, backlog, admitting, workers, active_connections, done,
                 connection_fds, sock, work>>

StopBegin ==
  /\ control = "started"
  /\ running' = FALSE
  /\ control' = "sweep"
  /\ UNCHANGED <<config, sessionVars, started_once, bound, acceptVars, done, connection_fds, sock, work>>

StopSweep ==
  /\ control = "sweep"
  /\ sock' = [c \in Conns |-> IF Open(c) /\ sock[c].fd \in connection_fds
                              THEN [sock[c] EXCEPT !.shut = TRUE] ELSE sock[c]]
  /\ control' = "join"
  /\ UNCHANGED <<config, sessionVars, serverVars, acceptVars, done, connection_fds, work>>

StopJoin ==
  /\ control = "join" /\ accept_pc = "exited"
  /\ control' = "reap"
  /\ UNCHANGED <<config, sessionVars, serverVars, acceptVars, done, connection_fds, sock,
                 work>>

(* reapWorkers(true) joins every worker.                                    *)
StopReap ==
  /\ control = "reap" /\ workers \subseteq done
  /\ workers' = {}
  /\ control' = "drain"
  /\ UNCHANGED <<config, sessionVars, serverVars, accept_pc, backlog, admitting, active_connections,
                 done, connection_fds, sock, work>>

StopDrain ==
  /\ \/ control = "drain" /\ BeginDraining /\ control' = "close"
     \/ control = "close" /\ CloseAll /\ control' = "unbind"
  /\ UNCHANGED <<config, serverVars, acceptVars, done, connection_fds, sock, work>>

StopUnbind ==
  /\ control = "unbind"
  /\ bound' = FALSE
  /\ backlog' = <<>>
  /\ sock' = [c \in Conns |-> IF sock[c].state = "backlog" THEN [sock[c] EXCEPT !.state = "closed"]
                              ELSE sock[c]]
  /\ control' = "stopped"
  /\ UNCHANGED <<config, sessionVars, started_once, running, accept_pc, admitting, workers,
                 active_connections, done, connection_fds, work>>

Stop == StopSweep \/ StopJoin \/ StopReap \/ StopDrain \/ StopUnbind

-----------------------------------------------------------------------------
(* acceptLoop *)

Reaped == workers \ done

AcceptCheck ==
  /\ accept_pc = "check"
  /\ accept_pc' = IF running THEN "poll" ELSE "exited"
  /\ workers' = IF running THEN workers ELSE Reaped
  /\ UNCHANGED <<config, sessionVars, serverVars, backlog, admitting, active_connections, done,
                 connection_fds, sock, work, control>>

(* poll times out, is interrupted, or finds the listening socket shut down. *)
AcceptTimeout ==
  /\ accept_pc = "poll"
  /\ accept_pc' = "check"
  /\ workers' \in {workers, Reaped}
  /\ UNCHANGED <<config, sessionVars, serverVars, backlog, admitting, active_connections, done,
                 connection_fds, sock, work, control>>

Accept ==
  /\ accept_pc = "poll" /\ running /\ backlog # <<>>
  /\ sock' = [sock EXCEPT ![Head(backlog)].state = "open", ![Head(backlog)].fd = NewFd]
  /\ admitting' = Head(backlog)
  /\ backlog' = Tail(backlog)
  /\ accept_pc' = "admit"
  /\ UNCHANGED <<config, sessionVars, serverVars, workers, active_connections, done, connection_fds,
                 work, control>>

(* reserveConnection would succeed too.                                     *)
HasRoom == Cardinality(Reaped) < max_sessions /\ active_connections < max_sessions

(* Finished workers are joined before and after.  A connection is refused   *)
(* for want of room or of a thread.                                         *)
Admit ==
  /\ accept_pc = "admit"
  /\ \/ /\ HasRoom
        /\ active_connections' = active_connections + 1
        /\ workers' = Reaped \cup {admitting}
        /\ work' = [work EXCEPT ![admitting].pc = "start"]
        /\ UNCHANGED sock
     \/ /\ workers' = Reaped
        /\ sock' = [sock EXCEPT ![admitting].state = "closed", ![admitting].fd = None]
        /\ UNCHANGED <<active_connections, work>>
  /\ admitting' = None
  /\ accept_pc' = "check"
  /\ UNCHANGED <<config, sessionVars, serverVars, backlog, done, connection_fds, control>>

AcceptLoop == AcceptCheck \/ AcceptTimeout \/ Accept \/ Admit

-----------------------------------------------------------------------------
(* handleConnection *)

Goto(c, pc) == work' = [work EXCEPT ![c].pc = pc]
workerUnchanged == <<config, serverVars, accept_pc, backlog, admitting, workers, control>>

(* The peer's credentials may be missing.                                   *)
Register(c) ==
  /\ work[c].pc = "start"
  /\ \/ connection_fds' = connection_fds \cup {sock[c].fd} /\ Goto(c, "loop")
     \/ Goto(c, "close_fd") /\ UNCHANGED connection_fds
  /\ UNCHANGED <<workerUnchanged, sessionVars, active_connections, done, sock>>

(* Mutant: the worker waits for its connection to be shut down.             *)
LoopCheckOpen(c) ==
  /\ work[c].pc = "loop"
  /\ \/ ~work[c].close /\ Goto(c, "receive")
     \/ work[c].close /\ Goto(c, "end")
  /\ UNCHANGED <<workerUnchanged, sessionVars, active_connections, connection_fds, done, sock>>

(* The loop ends, also when the hello is late.                              *)
LoopCheck(c) ==
  /\ work[c].pc = "loop"
  /\ \/ running /\ ~work[c].close /\ Goto(c, "receive")
     \/ (~running \/ work[c].close \/ ~work[c].complete) /\ Goto(c, "end")
  /\ UNCHANGED <<workerUnchanged, sessionVars, active_connections, connection_fds, done, sock>>

(* FrameDecoder::append over the frames of one receive.                     *)
Decodes(chunk) == "bad_length" \notin Range(chunk)

(* If the decoder refuses a length, all that came with it is lost.          *)
Receive(c) ==
  /\ work[c].pc = "receive"
  /\ \/ Goto(c, "loop") /\ UNCHANGED sock
     \/ sock[c].inbox = <<>> /\ (sock[c].gone \/ sock[c].shut) /\ Goto(c, "end") /\ UNCHANGED sock
     \/ \E n \in 1..Len(sock[c].inbox) :
          LET chunk == SubSeq(sock[c].inbox, 1, n)
          IN  /\ sock' = [sock EXCEPT ![c].inbox = SubSeq(@, n + 1, Len(@))]
              /\ IF Decodes(chunk)
                 THEN work' = [work EXCEPT ![c].pc = "frames", ![c].frames = chunk]
                 ELSE Goto(c, "end")
  /\ UNCHANGED <<workerUnchanged, sessionVars, active_connections, connection_fds, done>>

(* A frame has been handled and answered; if the answer cannot be written,  *)
(* the rest of the frames are left.                                         *)
Answer(c, session, complete, close) ==
  \E written \in BOOLEAN :
    work' = [work EXCEPT ![c] =
      [pc |-> IF written /\ Len(@.frames) > 1 THEN "frames" ELSE "loop",
       frames |-> IF written THEN Tail(@.frames) ELSE <<>>,
       session |-> session, complete |-> complete, close |-> close \/ ~written]]

(* RequestRouter::route: what it cannot read ends the connection, a type it *)
(* does not know does not.                                                  *)
RouteCloses(f) == f \in {"incompatible", "malformed"}

Route(c) ==
  /\ work[c].pc = "frames" /\ work[c].complete
  /\ Answer(c, work[c].session, TRUE, RouteCloses(Head(work[c].frames)))
  /\ UNCHANGED <<workerUnchanged, sessionVars, active_connections, connection_fds, done, sock>>

(* The hello that HandshakeHandler::handle accepts.                         *)
SoundHello(f) == f = "hello"

(* HandshakeHandler::handle, up to the new session, and activating it.      *)
Handshake(c) ==
  /\ work[c].pc = "frames" /\ ~work[c].complete
  /\ \/ /\ SoundHello(Head(work[c].frames)) /\ BeginHandshake
        /\ work' = [work EXCEPT ![c].pc = "activate", ![c].session = next_session_id]
     \/ /\ ~SoundHello(Head(work[c].frames)) \/ ~MayBegin
        /\ Answer(c, None, FALSE, TRUE)
        /\ UNCHANGED sessionVars
  /\ UNCHANGED <<workerUnchanged, active_connections, connection_fds, done, sock>>

HandshakeActivate(c) ==
  LET id == work[c].session
  IN  /\ work[c].pc = "activate"
      /\ IF MayActivate(id) THEN Activate(id) /\ Answer(c, id, TRUE, FALSE)
         ELSE Close(id) /\ Answer(c, None, FALSE, TRUE)
      /\ UNCHANGED <<workerUnchanged, active_connections, connection_fds, done, sock>>

(* Mutant: only a connection that ends by itself closes its session.        *)
EndSessionRunning(c) ==
  /\ work[c].pc = "end"
  /\ IF work[c].session # None /\ running THEN Close(work[c].session) ELSE UNCHANGED sessionVars
  /\ work' = [work EXCEPT ![c].pc = "erase", ![c].session = None]
  /\ UNCHANGED <<workerUnchanged, active_connections, connection_fds, done, sock>>

EndSession(c) ==
  /\ work[c].pc = "end"
  /\ IF work[c].session # None THEN Close(work[c].session) ELSE UNCHANGED sessionVars
  /\ work' = [work EXCEPT ![c].pc = "erase", ![c].session = None]
  /\ UNCHANGED <<workerUnchanged, active_connections, connection_fds, done, sock>>

(* Mutant: the descriptor is closed while it is still registered.           *)
UnregisterClosed(c) ==
  /\ work[c].pc = "erase"
  /\ sock' = [sock EXCEPT ![c].state = "closed"]
  /\ Goto(c, "close_fd")
  /\ UNCHANGED <<workerUnchanged, sessionVars, active_connections, connection_fds, done>>

Unregister(c) ==
  /\ work[c].pc = "erase"
  /\ connection_fds' = connection_fds \ {sock[c].fd}
  /\ Goto(c, "close_fd")
  /\ UNCHANGED <<workerUnchanged, sessionVars, active_connections, done, sock>>

(* ~UniqueFd, on leaving handleConnection.                                  *)
CloseFd(c) ==
  /\ work[c].pc = "close_fd"
  /\ sock' = [sock EXCEPT ![c].state = "closed", ![c].fd = None]
  /\ Goto(c, "count")
  /\ UNCHANGED <<workerUnchanged, sessionVars, active_connections, connection_fds, done>>

Finish(c) ==
  /\ \/ /\ work[c].pc = "count"
        /\ active_connections' = active_connections - 1
        /\ Goto(c, "flag")
        /\ UNCHANGED done
     \/ /\ work[c].pc = "flag"
        /\ done' = done \cup {c}
        /\ Goto(c, "finished")
        /\ UNCHANGED active_connections
  /\ UNCHANGED <<workerUnchanged, sessionVars, connection_fds, sock>>

HandleConnection(c) ==
  \/ Register(c) \/ LoopCheck(c) \/ Receive(c) \/ Route(c) \/ Handshake(c)
  \/ HandshakeActivate(c) \/ EndSession(c) \/ Unregister(c) \/ CloseFd(c) \/ Finish(c)

(* The threads of the server and its peers.                                 *)
ServerThread ==
  \/ AcceptLoop
  \/ \E c \in Conns : HandleConnection(c) \/ Connect(c) \/ HangUp(c)

-----------------------------------------------------------------------------
(* Every session belongs to one worker, which has completed its handshake   *)
(* with it or is about to, and which serves requests only while it is       *)
(* active; the sessions, the counter and workers_ stay within the limit, in *)
(* that order.                                                              *)
SessionsOwned ==
  LET owners == {c \in Conns : work[c].session # None}
  IN  /\ DOMAIN sessions = {work[c].session : c \in owners}
      /\ \A c, d \in owners : c # d => work[c].session # work[d].session
      /\ \A c \in owners : sessions[work[c].session] =
                             IF work[c].complete THEN "active" ELSE "handshaking"
      /\ \A c \in Conns : work[c].complete /\ work[c].pc = "frames" => c \in owners
      /\ Cardinality(owners) <= active_connections
      /\ active_connections <= Cardinality(workers)
      /\ Cardinality(workers) <= max_sessions

(* What stop shuts down is the connection of a worker that has yet to close *)
(* it: a descriptor is unregistered before it is closed and may be reused   *)
(* (handleConnection, stop).                                                *)
RegisteredFdsOwned ==
  \A fd \in connection_fds :
    \E c \in workers \ done :
      Open(c) /\ sock[c].fd = fd
      /\ work[c].pc \in {"loop", "receive", "frames", "activate", "end", "erase"}

=============================================================================
