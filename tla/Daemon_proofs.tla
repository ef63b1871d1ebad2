---------------------------- MODULE Daemon_proofs ----------------------------
(***************************************************************************)
(* The daemon and its server are right for any number of connections and    *)
(* sessions, whatever the peers do.  As long as a worker may ask the core   *)
(* anything, the core serves; sessions, descriptors and counters agree with *)
(* the workers they belong to; and an exit leaves nothing behind.           *)
(*                                                                         *)
(* DaemonInv is the order: ServerInv follows stop (once the accept thread   *)
(* has exited no worker is added, so that none is left when the workers     *)
(* have been joined), StartInv follows start up to what the core publishes. *)
(* Books is what the server keeps of its connections.  HaltInv follows stop *)
(* to the provider's shutdown.                                              *)
(***************************************************************************)
EXTENDS Daemon, Lemmas

(* What the server keeps of its connections.  A worker is Threaded from     *)
(* its start to its done flag, Counted until it has been uncounted, Alive   *)
(* as long as its socket is open, Registered while stop may shut the        *)
(* connection down, and Talking while it may have a session.                *)
Alive == {"start", "loop", "receive", "frames", "activate", "end", "erase", "close_fd"}
Registered == {"loop", "receive", "frames", "activate", "end", "erase"}
Talking == {"loop", "receive", "frames", "activate", "end"}
Counted == Alive \cup {"count"}
Threaded == Counted \cup {"flag"}
Pcs == Threaded \cup {"none", "finished"}

SockRecord == [state : {"none", "backlog", "open", "closed"}, fd : Nat \cup {None},
               inbox : Seq(Frames), gone : BOOLEAN, shut : BOOLEAN]
WorkRecord == [pc : Pcs, frames : Seq(Frames), session : Nat \cup {None},
               complete : BOOLEAN, close : BOOLEAN]

ServerType ==
  /\ max_sessions \in Nat \ {0}
  /\ \A c \in DOMAIN load : load[c] \in Seq(Frames)
  /\ sock \in [Conns -> SockRecord] /\ work \in [Conns -> WorkRecord]
  /\ backlog \in Seq(Conns) /\ admitting \in Conns \cup {None}
  /\ workers \subseteq Conns /\ done \subseteq Conns
  /\ next_session_id \in Nat

Queued == {backlog[i] : i \in 1..Len(backlog)}

ConnOk(c) ==
  /\ sock[c].state = "backlog" <=> c \in Queued
  /\ sock[c].state = "open" <=> c = admitting \/ work[c].pc \in Alive
  /\ sock[c].state = "open" => sock[c].fd \in Nat
  /\ c = admitting \/ sock[c].state \in {"none", "backlog"} => work[c].pc = "none"
  /\ work[c].pc = "none" => c \notin workers
  /\ c \in done <=> work[c].pc = "finished"
  /\ work[c].pc \in Threaded => c \in workers

ConnInv ==
  /\ \A c \in Conns : ConnOk(c)
  /\ \A i, j \in 1..Len(backlog) : i # j => backlog[i] # backlog[j]
  /\ admitting # None <=> accept_pc = "admit"
  /\ ~bound => backlog = <<>>

FdInv ==
  /\ \A c, d \in Conns : Open(c) /\ Open(d) /\ sock[c].fd = sock[d].fd => c = d
  /\ connection_fds = {sock[c].fd : c \in {d \in Conns : work[d].pc \in Registered}}

CountInv ==
  /\ active_connections = Cardinality({c \in Conns : work[c].pc \in Counted})
  /\ Cardinality(workers) <= max_sessions

Owners == {c \in Conns : work[c].session # None}

SessionInv ==
  /\ \A c \in Conns :
       /\ c \in Owners => work[c].pc \in Talking
       /\ work[c].pc \in Talking => (c \in Owners <=> work[c].complete \/ work[c].pc = "activate")
       /\ work[c].pc = "activate" => ~work[c].complete
       /\ work[c].pc \in {"none", "start"} => ~work[c].complete
  /\ sessions = [id \in DOMAIN sessions |-> sessions[id]]
  /\ DOMAIN sessions = {work[c].session : c \in Owners}
  /\ \A c, d \in Owners : c # d => work[c].session # work[d].session
  /\ \A c \in Owners : sessions[work[c].session] =
                         IF work[c].complete THEN "active" ELSE "handshaking"
  /\ \A c \in Owners : next_session_id = 0 \/ work[c].session < next_session_id
  /\ draining => control \in {"close", "unbind", "stopped"}

Books == ConnInv /\ FdInv /\ CountInv /\ SessionInv

(* No worker is left once stop has joined them.                             *)
Joined == control \in {"drain", "close", "unbind", "stopped"} => workers = {}

-----------------------------------------------------------------------------
(* The books are right at the start.                                        *)
LEMMA ServerInitial ==
  ASSUME ServerInit, max_sessions \in Nat \ {0}, \A c \in DOMAIN load : load[c] \in Seq(Frames)
  PROVE  ServerType /\ Books
<1>1. /\ sock = [c \in Conns |-> NoSock] /\ work = [c \in Conns |-> NoWork]
      /\ workers = {} /\ done = {} /\ backlog = <<>> /\ admitting = None /\ accept_pc = "none"
      /\ ~bound /\ connection_fds = {} /\ active_connections = 0
      /\ sessions = <<>> /\ next_session_id = 1 /\ draining = FALSE
  BY Zenon DEF ServerInit, SessionsInit
<1>2. max_sessions \in Nat \ {0} /\ \A c \in DOMAIN load : load[c] \in Seq(Frames)
  OBVIOUS
<1>3. NoSock \in SockRecord /\ NoWork \in WorkRecord
  BY DEF NoSock, NoWork, SockRecord, WorkRecord, Pcs
<1>4. ServerType
  BY <1>1, <1>2, <1>3 DEF ServerType
<1>5. ConnInv
  BY <1>1, ServerAssumption DEF ConnInv, ConnOk, NoSock, NoWork, Queued, Alive, Threaded, Counted
<1>6. FdInv
  BY <1>1, Zenon DEF FdInv, NoSock, NoWork, Open, Registered
<1>7. CountInv
  <2>1. {c \in Conns : work[c].pc \in Counted} = {}
    BY <1>1, Zenon DEF NoWork, Counted, Alive
  <2> QED  BY <1>1, <1>2, <2>1, FS_EmptySet DEF CountInv
<1>8. SessionInv
  <2>1. Owners = {}
    BY <1>1, Zenon DEF Owners, NoWork
  <2>2. DOMAIN sessions = {} /\ sessions = [id \in DOMAIN sessions |-> sessions[id]]
    BY <1>1
  <2> QED  BY <1>1, <2>1, <2>2, Zenon DEF SessionInv, NoWork, Talking
<1> QED  BY <1>4, <1>5, <1>6, <1>7, <1>8 DEF Books

Chatting == {"loop", "receive", "frames", "end"}

(* What a step may leave alone, one part of the books at a time.            *)
SockQuiet == \A c \in Conns : sock'[c].state = sock[c].state /\ sock'[c].fd = sock[c].fd
WorkersQuiet == workers' \subseteq workers /\ workers \ done \subseteq workers'

LEMMA ConnQuiet ==
  ASSUME ServerType, ServerType', ConnInv, SockQuiet, WorkersQuiet,
         UNCHANGED <<backlog, admitting, done>>,
         accept_pc' = "admit" <=> accept_pc = "admit", bound => bound',
         \A c \in Conns : \/ work'[c].pc = work[c].pc
                          \/ work'[c].pc \in Alive /\ work[c].pc \in Alive
  PROVE  ConnInv'
BY DEF ConnInv, ConnOk, Queued, Alive, Threaded, Counted, ServerType, SockQuiet, WorkersQuiet

LEMMA FdKept ==
  ASSUME FdInv, UNCHANGED connection_fds,
         \A c \in Conns : /\ work'[c].pc \in Registered <=> work[c].pc \in Registered
                          /\ work[c].pc \in Registered => sock'[c].fd = sock[c].fd
                          /\ Open(c)' => Open(c) /\ sock'[c].fd = sock[c].fd
  PROVE  FdInv'
<1> DEFINE R == {d \in Conns : work[d].pc \in Registered}
<1>1. {d \in Conns : work'[d].pc \in Registered} = R
  OBVIOUS
<1>2. {sock'[c].fd : c \in R} = {sock[c].fd : c \in R}
  OBVIOUS
<1>3. connection_fds' = {sock'[c].fd : c \in {d \in Conns : work'[d].pc \in Registered}}
  BY <1>1, <1>2, Zenon DEF FdInv
<1>4. \A c, d \in Conns : Open(c)' /\ Open(d)' /\ sock'[c].fd = sock'[d].fd => c = d
  BY Zenon DEF FdInv
<1> QED  BY <1>3, <1>4, Zenon DEF FdInv, Open

LEMMA FdQuiet ==
  ASSUME FdInv, SockQuiet, UNCHANGED connection_fds,
         \A c \in Conns : work'[c].pc \in Registered <=> work[c].pc \in Registered
  PROVE  FdInv'
BY FdKept, Zenon DEF Open, SockQuiet

LEMMA CountQuiet ==
  ASSUME ServerType, ServerType', CountInv, WorkersQuiet,
         UNCHANGED <<max_sessions, active_connections>>,
         \A c \in Conns : work'[c].pc \in Counted <=> work[c].pc \in Counted
  PROVE  CountInv'
<1>1. {d \in Conns : work'[d].pc \in Counted} = {d \in Conns : work[d].pc \in Counted}
  OBVIOUS
<1>2. IsFiniteSet(workers)
  BY ServerAssumption, FS_Subset, Zenon DEF ServerType
<1>3. Cardinality(workers') <= Cardinality(workers) /\ Cardinality(workers) \in Nat
      /\ Cardinality(workers') \in Nat
  BY <1>2, FS_Subset, FS_CardinalityType, Zenon DEF WorkersQuiet
<1>4. Cardinality(workers) <= max_sessions
  BY Zenon DEF CountInv
<1>5. Cardinality(workers') <= max_sessions'
  BY <1>3, <1>4, SMTT(30) DEF ServerType
<1> QED  BY <1>1, <1>5, Zenon DEF CountInv

LEMMA SessionQuiet ==
  ASSUME SessionInv, UNCHANGED <<sessions, next_session_id, draining>>,
         control \in {"close", "unbind", "stopped"} => control' \in {"close", "unbind", "stopped"},
         \A c \in Conns :
           /\ work'[c].session = work[c].session
           /\ work'[c].complete = work[c].complete
           /\ \/ work'[c].pc = work[c].pc
              \/ work'[c].pc \in Chatting /\ work[c].pc \in Chatting
              \/ work[c].pc = "start" /\ work'[c].pc = "loop"
              \/ work[c].pc \notin Talking /\ work'[c].pc \notin Talking \cup {"none", "start"}
  PROVE  SessionInv'
<1>1. Owners' = Owners
  BY Zenon DEF Owners
<1> QED  BY <1>1 DEF SessionInv, Talking, Chatting, Owners

(* A step after which every worker is where it was, or elsewhere in its     *)
(* loop, and after which only finished workers have been joined.            *)
LEMMA QuietKeeps ==
  ASSUME ServerType, ServerType', Books, SockQuiet, WorkersQuiet,
         UNCHANGED <<max_sessions, sessions, next_session_id, draining, backlog, admitting,
                     done, active_connections, connection_fds>>,
         accept_pc' = "admit" <=> accept_pc = "admit",
         bound => bound',
         control \in {"close", "unbind", "stopped"} => control' \in {"close", "unbind", "stopped"},
         \A c \in Conns : /\ work'[c].session = work[c].session
                          /\ work'[c].complete = work[c].complete
                          /\ \/ work'[c].pc = work[c].pc
                             \/ work'[c].pc \in Chatting /\ work[c].pc \in Chatting
  PROVE  Books'
<1>1. ConnInv'
  BY ConnQuiet, Zenon DEF Books, Alive, Chatting
<1>2. FdInv'
  BY FdQuiet, Zenon DEF Books, Registered, Chatting
<1>3. CountInv'
  BY CountQuiet, Zenon DEF Books, Counted, Alive, Chatting
<1>4. SessionInv'
  BY SessionQuiet, Zenon DEF Books
<1> QED  BY <1>1, <1>2, <1>3, <1>4, Zenon DEF Books

(* A part of a sequence of frames is one.                                   *)
LEMMA PartOfFrames ==
  ASSUME NEW q \in Seq(Frames), NEW m \in Nat \ {0}, NEW n \in 0..Len(q)
  PROVE  SubSeq(q, m, n) \in Seq(Frames)
<1>1. \A i \in m..n : q[i] \in Frames
  BY SMTT(30)
<1> QED  BY <1>1

(* A worker that goes on.                                                   *)
LEMMA LoopKeeps ==
  ASSUME ServerType, Books, NEW c \in Conns, LoopCheck(c)
  PROVE  ServerType' /\ Books'
<1>0. work[c] \in WorkRecord
  BY Zenon DEF ServerType
<1>1. PICK p \in {"receive", "end"} : work' = [work EXCEPT ![c].pc = p]
  BY Zenon DEF LoopCheck, Goto
<1>2. UNCHANGED <<workerUnchanged, sessionVars, active_connections, connection_fds, done, sock>>
      /\ work[c].pc = "loop"
  BY Zenon DEF LoopCheck
<1>3. ServerType'
  BY <1>0, <1>1, <1>2, Zenon
     DEF ServerType, WorkRecord, Pcs, Threaded, Counted, Alive, workerUnchanged,
                    config, sessionVars
<1> QED  BY <1>0, <1>1, <1>2, <1>3, QuietKeeps, SMTT(30)
            DEF ServerType, WorkRecord, workerUnchanged, config, sessionVars, serverVars, Chatting,
                SockQuiet, WorkersQuiet

LEMMA ReceiveKeeps ==
  ASSUME ServerType, Books, NEW c \in Conns, Receive(c)
  PROVE  ServerType' /\ Books'
<1>0. work[c] \in WorkRecord /\ sock[c] \in SockRecord
  BY Zenon DEF ServerType
<1>1. UNCHANGED <<workerUnchanged, sessionVars, active_connections, connection_fds, done>>
      /\ work[c].pc = "receive"
  BY Zenon DEF Receive
<1>2. PICK e \in WorkRecord : /\ work' = [work EXCEPT ![c] = e]
                              /\ e.pc \in Chatting
                              /\ e.session = work[c].session /\ e.complete = work[c].complete
  <2>1. ASSUME NEW p \in Chatting, Goto(c, p)
        PROVE  \E e \in WorkRecord : /\ work' = [work EXCEPT ![c] = e]
                              /\ e.pc \in Chatting
                              /\ e.session = work[c].session /\ e.complete = work[c].complete
    <3> DEFINE e == [work[c] EXCEPT !.pc = p]
    <3>1. e \in WorkRecord /\ e.pc = p /\ e.session = work[c].session
          /\ e.complete = work[c].complete
      BY <1>0, Zenon DEF WorkRecord, Pcs, Threaded, Counted, Alive, Chatting
    <3>2. work' = [work EXCEPT ![c] = e]
      BY <2>1, Zenon DEF Goto
    <3> HIDE DEF e
    <3> QED  BY <3>1, <3>2, Zenon
  <2>2. ASSUME NEW n \in 1..Len(sock[c].inbox),
               work' = [work EXCEPT ![c].pc = "frames", ![c].frames = SubSeq(sock[c].inbox, 1, n)]
        PROVE  \E e \in WorkRecord : /\ work' = [work EXCEPT ![c] = e]
                              /\ e.pc \in Chatting
                              /\ e.session = work[c].session /\ e.complete = work[c].complete
    <3> DEFINE chunk == SubSeq(sock[c].inbox, 1, n)
               e == [work[c] EXCEPT !.pc = "frames", !.frames = chunk]
    <3>0. sock[c].inbox \in Seq(Frames)
      BY <1>0, Zenon DEF SockRecord
    <3>1. chunk \in Seq(Frames)
      BY <3>0, PartOfFrames
    <3> HIDE DEF chunk
    <3>2. e \in WorkRecord /\ e.pc = "frames" /\ e.session = work[c].session
          /\ e.complete = work[c].complete
      BY <1>0, <3>1, Zenon DEF WorkRecord, Pcs, Threaded, Counted, Alive, Chatting
    <3>3. work' = [work EXCEPT ![c] = e]
      BY <2>2, <1>0, Zenon DEF chunk, ServerType, WorkRecord
    <3> HIDE DEF e
    <3> QED  BY <3>2, <3>3, Zenon DEF Chatting
  <2> QED  BY <2>1, <2>2, Zenon DEF Receive, Chatting
<1>3. PICK i \in Seq(Frames) : sock' = [sock EXCEPT ![c].inbox = i]
  <2>1. CASE UNCHANGED sock
    <3>1. sock[c].inbox \in Seq(Frames) /\ sock = [sock EXCEPT ![c].inbox = sock[c].inbox]
      BY <1>0 DEF SockRecord, ServerType
    <3> QED  BY <2>1, <3>1, Zenon
  <2>2. ASSUME NEW n \in 1..Len(sock[c].inbox),
               sock' = [sock EXCEPT ![c].inbox = SubSeq(@, n + 1, Len(@))]
        PROVE  \E i \in Seq(Frames) : sock' = [sock EXCEPT ![c].inbox = i]
    <3>1. sock[c].inbox \in Seq(Frames)
      BY <1>0, Zenon DEF SockRecord
    <3>2. SubSeq(sock[c].inbox, n + 1, Len(sock[c].inbox)) \in Seq(Frames)
      BY <3>1, PartOfFrames
    <3> QED  BY <2>2, <3>2, Zenon
  <2> QED  BY <2>1, <2>2, Zenon DEF Receive
<1>4. ServerType'
  BY <1>0, <1>1, <1>2, <1>3, Zenon DEF ServerType, SockRecord, workerUnchanged, config, sessionVars
<1>5. \A d \in Conns : sock'[d].state = sock[d].state /\ sock'[d].fd = sock[d].fd
  BY <1>0, <1>3, Zenon DEF ServerType, SockRecord
<1>6. \A d \in Conns : /\ work'[d].session = work[d].session
                       /\ work'[d].complete = work[d].complete
                       /\ \/ work'[d].pc = work[d].pc
                          \/ work'[d].pc \in Chatting /\ work[d].pc \in Chatting
  BY <1>1, <1>2, Zenon DEF ServerType, Chatting
<1> QED  BY <1>1, <1>4, <1>5, <1>6, QuietKeeps
            DEF workerUnchanged, config, sessionVars, serverVars, SockQuiet, WorkersQuiet

LEMMA TailOfFrames ==
  ASSUME NEW q \in Seq(Frames)  PROVE Tail(q) \in Seq(Frames)
<1>1. CASE q # <<>>
  BY <1>1
<1>2. CASE q = <<>>
  <2>1. Tail(q) = <<>>
    BY <1>2
  <2>2. <<>> \in Seq(Frames)
    OBVIOUS
  <2> QED  BY <2>1, <2>2, Zenon
<1> QED  BY <1>1, <1>2, Zenon

(* What an answer leaves of the worker.                                     *)
LEMMA AnswerRecord ==
  ASSUME ServerType, NEW c \in Conns, NEW written \in BOOLEAN, NEW s \in Nat \cup {None},
         NEW k \in BOOLEAN, NEW z \in BOOLEAN, NEW e,
         e = [pc |-> IF written /\ Len(work[c].frames) > 1 THEN "frames" ELSE "loop",
              frames |-> IF written THEN Tail(work[c].frames) ELSE <<>>,
              session |-> s, complete |-> k, close |-> z]
  PROVE  e \in WorkRecord /\ e.pc \in {"frames", "loop"}
<1> DEFINE p == IF written /\ Len(work[c].frames) > 1 THEN "frames" ELSE "loop"
           q == IF written THEN Tail(work[c].frames) ELSE <<>>
<1>1. p \in {"frames", "loop"} /\ p \in Pcs
  BY Zenon DEF Pcs, Threaded, Counted, Alive
<1>2. work[c].frames \in Seq(Frames)
  BY Zenon DEF ServerType, WorkRecord
<1>3. q \in Seq(Frames)
  BY <1>2, TailOfFrames
<1>4. e = [pc |-> p, frames |-> q, session |-> s, complete |-> k, close |-> z]
  BY Zenon
<1> HIDE DEF p, q
<1>5. [pc |-> p, frames |-> q, session |-> s, complete |-> k, close |-> z] \in WorkRecord
  BY <1>1, <1>3, Zenon DEF WorkRecord
<1>6. e.pc = p
  BY <1>4, SMT
<1> QED  BY <1>1, <1>4, <1>5, <1>6, Zenon

LEMMA RouteKeeps ==
  ASSUME ServerType, Books, NEW c \in Conns, Route(c)
  PROVE  ServerType' /\ Books'
<1>0. work[c] \in WorkRecord
  BY Zenon DEF ServerType
<1>1. UNCHANGED <<workerUnchanged, sessionVars, active_connections, connection_fds, done, sock>>
      /\ work[c].pc = "frames" /\ work[c].complete
  BY Zenon DEF Route
<1>2. PICK e : e \in WorkRecord /\ work' = [work EXCEPT ![c] = e]
               /\ e.pc \in {"frames", "loop"} /\ e.session = work[c].session /\ e.complete = TRUE
  <2>1. PICK written \in BOOLEAN :
          work' = [work EXCEPT ![c] =
            [pc |-> IF written /\ Len(work[c].frames) > 1 THEN "frames" ELSE "loop",
             frames |-> IF written THEN Tail(work[c].frames) ELSE <<>>,
             session |-> work[c].session, complete |-> TRUE,
             close |-> RouteCloses(Head(work[c].frames)) \/ ~written]]
    BY Zenon DEF Route, Answer
  <2> DEFINE z == RouteCloses(Head(work[c].frames)) \/ ~written
             e == [pc |-> IF written /\ Len(work[c].frames) > 1 THEN "frames" ELSE "loop",
                   frames |-> IF written THEN Tail(work[c].frames) ELSE <<>>,
                   session |-> work[c].session, complete |-> TRUE, close |-> z]
  <2>2. z \in BOOLEAN
    OBVIOUS
  <2>3. work' = [work EXCEPT ![c] = e]
    BY <2>1, Zenon
  <2> HIDE DEF z
  <2>4. work[c].session \in Nat \cup {None} /\ TRUE \in BOOLEAN
    BY <1>0 DEF WorkRecord
  <2>5. e \in WorkRecord /\ e.pc \in {"frames", "loop"}
    BY <2>2, <2>4, AnswerRecord, ZenonT(60)
  <2>6. e.session = work[c].session /\ e.complete = TRUE
    OBVIOUS
  <2> HIDE DEF e
  <2> QED  BY <2>3, <2>5, <2>6, Zenon
<1>3. ServerType'
  BY <1>1, <1>2, Zenon DEF ServerType, workerUnchanged, config, sessionVars
<1>4. \A d \in Conns : /\ work'[d].session = work[d].session
                       /\ work'[d].complete = work[d].complete
                       /\ \/ work'[d].pc = work[d].pc
                          \/ work'[d].pc \in Chatting /\ work[d].pc \in Chatting
  BY <1>0, <1>1, <1>2 DEF ServerType, Chatting, WorkRecord
<1> QED  BY <1>1, <1>3, <1>4, QuietKeeps
            DEF workerUnchanged, config, sessionVars, serverVars, SockQuiet, WorkersQuiet

(* A hello that is refused, and one that begins a session.                  *)
LEMMA HandshakeKeeps ==
  ASSUME ServerType, Books, NEW c \in Conns, Handshake(c)
  PROVE  ServerType' /\ Books'
<1>0. work[c] \in WorkRecord
  BY Zenon DEF ServerType
<1>1. UNCHANGED <<workerUnchanged, active_connections, connection_fds, done, sock>>
      /\ work[c].pc = "frames" /\ ~work[c].complete
  BY Zenon DEF Handshake
<1>2. work[c].session = None
  BY <1>1, Zenon DEF Books, SessionInv, Talking, Owners
<1>3. SockQuiet /\ WorkersQuiet
  BY <1>1, Zenon DEF SockQuiet, WorkersQuiet, workerUnchanged
<1>4. CASE /\ BeginHandshake
           /\ work' = [work EXCEPT ![c].pc = "activate", ![c].session = next_session_id]
  <2>1. PICK e : e \in WorkRecord /\ work' = [work EXCEPT ![c] = e]
               /\ e.pc = "activate" /\ e.session = next_session_id /\ ~e.complete
    <3> DEFINE e == [work[c] EXCEPT !.pc = "activate", !.session = next_session_id]
    <3>1. e \in WorkRecord /\ e.pc = "activate" /\ e.session = next_session_id /\ ~e.complete
      BY <1>0, <1>1, Zenon DEF WorkRecord, Pcs, Threaded, Counted, Alive, ServerType
    <3>2. work' = [work EXCEPT ![c] = e]
      BY <1>4, <1>0, Zenon DEF ServerType, WorkRecord
    <3> HIDE DEF e
    <3> QED  BY <3>1, <3>2, Zenon
  <2>2. /\ next_session_id # 0 /\ UNCHANGED draining
        /\ sessions' = [id \in DOMAIN sessions \cup {next_session_id} |->
                          IF id = next_session_id THEN "handshaking" ELSE sessions[id]]
        /\ next_session_id' = IF next_session_id = MaxSessionId THEN 0 ELSE next_session_id + 1
    BY <1>4 DEF BeginHandshake, MayBegin
  <2>3. ServerType'
    BY <1>1, <2>1, <2>2, SessionAssumption, SMTT(30) DEF ServerType, workerUnchanged, config
  <2>4. ConnInv'
    BY <1>1, <1>3, <2>1, <2>3, ConnQuiet DEF Books, Alive, ServerType, workerUnchanged, serverVars
  <2>5. FdInv'
    BY <1>1, <1>3, <2>1, FdQuiet, SMTT(30) DEF Books, Registered, ServerType
  <2>6. CountInv'
    BY <1>1, <1>3, <2>1, <2>3, CountQuiet, SMTT(30)
       DEF Books, Counted, Alive, ServerType, workerUnchanged, config
  <2>7. SessionInv'
    <3>1. Owners' = Owners \cup {c} /\ c \notin Owners
      BY <1>2, <2>1, ServerAssumption, SMTT(30) DEF Owners, ServerType
    <3>2. \A d \in Owners : work[d].session < next_session_id /\ work[d].session \in Nat
                            /\ work'[d] = work[d]
      BY <2>1, <2>2, <3>1, SMTT(30) DEF Books, SessionInv, Owners, ServerType, WorkRecord
    <3>3. \A d \in Conns :
           /\ d \in Owners' => work'[d].pc \in Talking
           /\ work'[d].pc \in Talking =>
                (d \in Owners' <=> work'[d].complete \/ work'[d].pc = "activate")
           /\ work'[d].pc = "activate" => ~work'[d].complete
           /\ work'[d].pc \in {"none", "start"} => ~work'[d].complete
      BY <2>1, <3>1 DEF Books, SessionInv, Talking, ServerType
    <3>4. DOMAIN sessions' = DOMAIN sessions \cup {next_session_id}
          /\ sessions' = [id \in DOMAIN sessions' |-> sessions'[id]]
      BY <2>2, Zenon
    <3>5. DOMAIN sessions = {work[d].session : d \in Owners}
      BY Zenon DEF Books, SessionInv
    <3>6. DOMAIN sessions' = {work'[d].session : d \in Owners'}
      BY <2>1, <3>1, <3>2, <3>4, <3>5, SMTT(30) DEF ServerType
    <3>7. \A d, f \in Owners' : d # f => work'[d].session # work'[f].session
      BY <2>1, <3>1, <3>2 DEF Books, SessionInv, ServerType
    <3>8. \A d \in Owners' : sessions'[work'[d].session] =
                               IF work'[d].complete THEN "active" ELSE "handshaking"
      <4>1. CASE work'[c].session = next_session_id
        BY <2>1, <2>2, <3>1, <3>2, <3>5, SMTT(30) DEF Books, SessionInv, ServerType
      <4> QED  BY <2>1, <4>1, Zenon DEF ServerType
    <3>9. \A d \in Owners' : next_session_id' = 0 \/ work'[d].session < next_session_id'
      BY <2>1, <2>2, <3>1, <3>2, SMTT(30) DEF ServerType
    <3>10. draining' => control' \in {"close", "unbind", "stopped"}
      BY <1>1, <2>2, SMTT(30) DEF Books, SessionInv, workerUnchanged
    <3> QED  BY <3>3, <3>4, <3>6, <3>7, <3>8, <3>9, <3>10, SMTT(30) DEF SessionInv
  <2> QED  BY <2>3, <2>4, <2>5, <2>6, <2>7 DEF Books
<1>5. CASE Answer(c, None, FALSE, TRUE) /\ UNCHANGED sessionVars
  <2>1. PICK e : e \in WorkRecord /\ work' = [work EXCEPT ![c] = e]
                 /\ e.pc \in {"frames", "loop"} /\ e.session = None /\ e.complete = FALSE
    <3>1. PICK written \in BOOLEAN :
            work' = [work EXCEPT ![c] =
              [pc |-> IF written /\ Len(work[c].frames) > 1 THEN "frames" ELSE "loop",
               frames |-> IF written THEN Tail(work[c].frames) ELSE <<>>,
               session |-> None, complete |-> FALSE, close |-> TRUE \/ ~written]]
      BY <1>5, Zenon DEF Answer
    <3> DEFINE z == TRUE \/ ~written
               e == [pc |-> IF written /\ Len(work[c].frames) > 1 THEN "frames" ELSE "loop",
                     frames |-> IF written THEN Tail(work[c].frames) ELSE <<>>,
                     session |-> None, complete |-> FALSE, close |-> z]
    <3>2. z \in BOOLEAN
      OBVIOUS
    <3>3. work' = [work EXCEPT ![c] = e]
      BY <3>1, Zenon
    <3> HIDE DEF z
    <3>4. FALSE \in BOOLEAN /\ None \in Nat \cup {None}
      OBVIOUS
    <3>5. e \in WorkRecord /\ e.pc \in {"frames", "loop"}
      BY <3>2, <3>4, AnswerRecord, Zenon
    <3>6. e.session = None /\ e.complete = FALSE
      BY SMTT(30)
    <3> HIDE DEF e
    <3> QED  BY <3>3, <3>5, <3>6, Zenon
  <2>2. ServerType'
    BY <1>1, <1>5, <2>1, Zenon DEF ServerType, workerUnchanged, config, sessionVars
  <2>3. \A d \in Conns : /\ work'[d].session = work[d].session
                         /\ work'[d].complete = work[d].complete
                         /\ \/ work'[d].pc = work[d].pc
                            \/ work'[d].pc \in Chatting /\ work[d].pc \in Chatting
    BY <1>0, <1>1, <1>2, <2>1 DEF ServerType, Chatting, WorkRecord
  <2> QED  BY <1>1, <1>3, <1>5, <2>2, <2>3, QuietKeeps
              DEF workerUnchanged, config, sessionVars, serverVars
<1> QED  BY <1>4, <1>5, Zenon DEF Handshake

(* A session that has begun is always activated: none of the workers is     *)
(* left when stop begins to drain.                                          *)
LEMMA ActivateKeeps ==
  ASSUME ServerType, Books, Joined, NEW c \in Conns, HandshakeActivate(c)
  PROVE  ServerType' /\ Books'
<1> DEFINE id == work[c].session
<1>0. work[c] \in WorkRecord
  BY Zenon DEF ServerType
<1>1. UNCHANGED <<workerUnchanged, active_connections, connection_fds, done, sock>>
      /\ work[c].pc = "activate"
  BY Zenon DEF HandshakeActivate
<1>2. c \in Owners /\ ~work[c].complete /\ id \in Nat
  BY <1>0, <1>1, Zenon DEF Books, SessionInv, Talking, Owners, WorkRecord
<1>3. SockQuiet /\ WorkersQuiet
  BY <1>1, Zenon DEF SockQuiet, WorkersQuiet, workerUnchanged
<1>4. id \in DOMAIN sessions /\ sessions[id] = "handshaking"
  BY <1>2, Zenon DEF Books, SessionInv
<1>5. ~draining
  <2>1. c \in workers
    BY <1>1, Zenon DEF Books, ConnInv, ConnOk, Threaded, Counted, Alive
  <2> QED  BY <2>1, Zenon DEF Books, SessionInv, Joined
<1>6. MayActivate(id)
  BY <1>4, <1>5, SMTT(30) DEF MayActivate
<1>7. sessions' = [sessions EXCEPT ![id] = "active"] /\ UNCHANGED <<next_session_id, draining>>
      /\ Answer(c, id, TRUE, FALSE)
  BY <1>6, Zenon DEF HandshakeActivate, Activate
<1>8. PICK e : e \in WorkRecord /\ work' = [work EXCEPT ![c] = e]
               /\ e.pc \in {"frames", "loop"} /\ e.session = id /\ e.complete = TRUE
  <2>1. PICK written \in BOOLEAN :
          work' = [work EXCEPT ![c] =
            [pc |-> IF written /\ Len(work[c].frames) > 1 THEN "frames" ELSE "loop",
             frames |-> IF written THEN Tail(work[c].frames) ELSE <<>>,
             session |-> id, complete |-> TRUE, close |-> FALSE \/ ~written]]
    BY <1>7, Zenon DEF Answer
  <2> DEFINE z == FALSE \/ ~written
             e == [pc |-> IF written /\ Len(work[c].frames) > 1 THEN "frames" ELSE "loop",
                   frames |-> IF written THEN Tail(work[c].frames) ELSE <<>>,
                   session |-> id, complete |-> TRUE, close |-> z]
  <2>2. z \in BOOLEAN
    OBVIOUS
  <2>3. work' = [work EXCEPT ![c] = e]
    BY <2>1, Zenon
  <2> HIDE DEF z
  <2>4. TRUE \in BOOLEAN /\ id \in Nat \cup {None}
    BY <1>2, Zenon
  <2>5. e \in WorkRecord /\ e.pc \in {"frames", "loop"}
    BY <2>2, <2>4, AnswerRecord, ZenonT(60)
  <2>6. e.session = id /\ e.complete = TRUE
    OBVIOUS
  <2> HIDE DEF e
  <2> QED  BY <2>3, <2>5, <2>6, Zenon
<1>9. ServerType'
  BY <1>1, <1>7, <1>8, Zenon DEF ServerType, workerUnchanged, config
<1>10. ConnInv'
  BY <1>1, <1>3, <1>8, <1>9, ConnQuiet DEF Books, Alive, ServerType, workerUnchanged, serverVars
<1>11. FdInv'
  BY <1>1, <1>3, <1>8, FdQuiet, SMTT(30) DEF Books, Registered, ServerType
<1>12. CountInv'
  BY <1>1, <1>3, <1>8, <1>9, CountQuiet, SMTT(30)
     DEF Books, Counted, Alive, ServerType, workerUnchanged, config
<1>13. SessionInv'
  <2>0. \A d \in Conns : work'[d].session = work[d].session /\ (d # c => work'[d] = work[d])
    BY <1>8, Zenon DEF ServerType
  <2>1. Owners' = Owners
    BY <2>0, Zenon DEF Owners
  <2>2. \A d \in Conns :
         /\ d \in Owners' => work'[d].pc \in Talking
         /\ work'[d].pc \in Talking =>
              (d \in Owners' <=> work'[d].complete \/ work'[d].pc = "activate")
         /\ work'[d].pc = "activate" => ~work'[d].complete
         /\ work'[d].pc \in {"none", "start"} => ~work'[d].complete
    BY <1>2, <1>8, <2>1, SMTT(30) DEF Books, SessionInv, Talking, ServerType
  <2>3. DOMAIN sessions' = DOMAIN sessions
        /\ sessions' = [i \in DOMAIN sessions' |-> sessions'[i]]
    BY <1>7, ZenonT(60)
  <2>4. DOMAIN sessions' = {work'[d].session : d \in Owners'}
    BY <2>0, <2>1, <2>3, SMTT(30) DEF Books, SessionInv, Owners
  <2>5. \A d, f \in Owners' : d # f => work'[d].session # work'[f].session
    BY <2>0, <2>1, SMTT(30) DEF Books, SessionInv, Owners
  <2>6. \A d \in Owners' : sessions'[work'[d].session] =
                             IF work'[d].complete THEN "active" ELSE "handshaking"
    <3>1. sessions'[work'[c].session] = "active" /\ work'[c].complete
      BY <1>4, <1>7, <1>8, <2>0, SMTT(30) DEF ServerType
    <3>2. ASSUME NEW d \in Owners, d # c
          PROVE  sessions'[work'[d].session] = IF work'[d].complete THEN "active" ELSE "handshaking"
      <4>1. work[d].session # id /\ work[d].session \in DOMAIN sessions
            /\ sessions[work[d].session] = IF work[d].complete THEN "active" ELSE "handshaking"
        BY <1>2, <3>2, SMTT(30) DEF Books, SessionInv
      <4> QED  BY <1>7, <2>0, <3>2, <4>1, SMTT(30) DEF Owners
    <3> QED  BY <2>1, <3>1, <3>2, SMTT(30)
  <2>7. \A d \in Owners' : next_session_id' = 0 \/ work'[d].session < next_session_id'
    BY <1>7, <2>0, <2>1, SMTT(30) DEF Books, SessionInv, Owners
  <2>8. draining' => control' \in {"close", "unbind", "stopped"}
    BY <1>5, <1>7
  <2> QED  BY <2>2, <2>3, <2>4, <2>5, <2>6, <2>7, <2>8, SMTT(30) DEF SessionInv
<1> QED  BY <1>9, <1>10, <1>11, <1>12, <1>13 DEF Books

(* A worker that ends closes its own session.                               *)
LEMMA EndSessionKeeps ==
  ASSUME ServerType, Books, NEW c \in Conns, EndSession(c)
  PROVE  ServerType' /\ Books'
<1> DEFINE id == work[c].session
<1>0. work[c] \in WorkRecord
  BY Zenon DEF ServerType
<1>1. UNCHANGED <<workerUnchanged, active_connections, connection_fds, done, sock>>
      /\ work[c].pc = "end"
  BY Zenon DEF EndSession
<1>3. SockQuiet /\ WorkersQuiet
  BY <1>1, Zenon DEF SockQuiet, WorkersQuiet, workerUnchanged
<1>7. sessions' = IF id # None THEN [i \in DOMAIN sessions \ {id} |-> sessions[i]] ELSE sessions
  BY Zenon DEF EndSession, Close, Restrict, sessionVars
<1>70. UNCHANGED <<next_session_id, draining>>
  BY Zenon DEF EndSession, Close, sessionVars
<1>8. PICK e : e \in WorkRecord /\ work' = [work EXCEPT ![c] = e]
               /\ e.pc = "erase" /\ e.session = None
  <2> DEFINE e == [work[c] EXCEPT !.pc = "erase", !.session = None]
  <2>1. e \in WorkRecord /\ e.pc = "erase" /\ e.session = None
    BY <1>0, <1>1, Zenon DEF WorkRecord, Pcs, Threaded, Counted, Alive, ServerType
  <2>2. work' = [work EXCEPT ![c] = e]
    BY <1>0, Zenon DEF EndSession, ServerType, WorkRecord
  <2> HIDE DEF e
  <2> QED  BY <2>1, <2>2, Zenon
<1>9. ServerType'
  BY <1>1, <1>70, <1>8, SMTT(30) DEF ServerType, workerUnchanged, config
<1>10. ConnInv'
  BY <1>1, <1>3, <1>8, <1>9, ConnQuiet, SMTT(30)
     DEF Books, Alive, ServerType, workerUnchanged, serverVars
<1>11. FdInv'
  BY <1>1, <1>3, <1>8, FdQuiet, SMTT(30) DEF Books, Registered, ServerType
<1>12. CountInv'
  BY <1>1, <1>3, <1>8, <1>9, CountQuiet, SMTT(30)
     DEF Books, Counted, Alive, ServerType, workerUnchanged, config
<1>13. SessionInv'
  <2>0. work'[c].session = None /\ work'[c].pc = "erase"
        /\ \A d \in Conns : d # c => work'[d] = work[d]
    BY <1>8, Zenon DEF ServerType
  <2>1. Owners' = Owners \ {c}
    BY <2>0, Zenon DEF Owners
  <2>2. \A d \in Conns :
         /\ d \in Owners' => work'[d].pc \in Talking
         /\ work'[d].pc \in Talking =>
              (d \in Owners' <=> work'[d].complete \/ work'[d].pc = "activate")
         /\ work'[d].pc = "activate" => ~work'[d].complete
         /\ work'[d].pc \in {"none", "start"} => ~work'[d].complete
    BY <2>0, <2>1 DEF Books, SessionInv, Talking
  <2>3. DOMAIN sessions' = DOMAIN sessions \ {id}
        /\ sessions' = [i \in DOMAIN sessions' |-> sessions'[i]]
    <3>1. CASE id # None
      BY <1>7, <3>1, Zenon
    <3>2. CASE id = None
      <4>1. None \notin DOMAIN sessions
        BY Zenon DEF Books, SessionInv, Owners
      <4>2. sessions' = sessions
        BY <1>7, <3>2, Zenon
      <4>3. sessions = [i \in DOMAIN sessions |-> sessions[i]]
        BY SMTT(30) DEF Books, SessionInv
      <4> QED  BY <3>2, <4>1, <4>2, <4>3, SMTT(30)
    <3> QED  BY <3>1, <3>2, Zenon
  <2>4. DOMAIN sessions' = {work'[d].session : d \in Owners'}
    BY <2>0, <2>1, <2>3, SMTT(30) DEF Books, SessionInv, Owners
  <2>5. \A d, f \in Owners' : d # f => work'[d].session # work'[f].session
    BY <2>0, <2>1 DEF Books, SessionInv, Owners
  <2>6. ASSUME NEW d \in Owners, d # c
        PROVE  sessions'[work'[d].session] = IF work'[d].complete THEN "active" ELSE "handshaking"
    <3>1. work[d].session # id /\ work[d].session \in DOMAIN sessions
          /\ sessions[work[d].session] = IF work[d].complete THEN "active" ELSE "handshaking"
      BY <2>6, SMTT(30) DEF Books, SessionInv, Owners
    <3> QED  BY <1>7, <2>0, <2>6, <3>1, Zenon DEF Owners
  <2>7. \A d \in Owners' : next_session_id' = 0 \/ work'[d].session < next_session_id'
    BY <1>70, <2>0, <2>1, SMTT(30) DEF Books, SessionInv, Owners
  <2>8. draining' => control' \in {"close", "unbind", "stopped"}
    BY <1>1, <1>70 DEF Books, SessionInv, workerUnchanged
  <2> QED  BY <2>1, <2>2, <2>3, <2>4, <2>5, <2>6, <2>7, <2>8, SMTT(30) DEF SessionInv
<1> QED  BY <1>9, <1>10, <1>11, <1>12, <1>13, Zenon DEF Books

LEMMA RegisterKeeps ==
  ASSUME ServerType, Books, NEW c \in Conns, Register(c)
  PROVE  ServerType' /\ Books'
<1>0. work[c] \in WorkRecord
  BY Zenon DEF ServerType
<1>1. UNCHANGED <<workerUnchanged, sessionVars, active_connections, done, sock>>
      /\ work[c].pc = "start"
  BY Zenon DEF Register
<1>2. PICK p \in {"loop", "close_fd"} :
        /\ work' = [work EXCEPT ![c].pc = p]
        /\ connection_fds' = IF p = "loop" THEN connection_fds \cup {sock[c].fd} ELSE connection_fds
  BY Zenon DEF Register, Goto
<1>3. SockQuiet /\ WorkersQuiet
  BY <1>1, Zenon DEF SockQuiet, WorkersQuiet, workerUnchanged
<1>4. ServerType'
  BY <1>0, <1>1, <1>2, Zenon
     DEF ServerType, WorkRecord, Pcs, Threaded, Counted, Alive, workerUnchanged,
                    config, sessionVars
<1>5. work'[c].pc = p /\ work'[c].session = work[c].session /\ work'[c].complete = work[c].complete
      /\ \A d \in Conns : d # c => work'[d] = work[d]
  BY <1>0, <1>2 DEF ServerType, WorkRecord
<1>6. ConnInv'
  BY <1>1, <1>3, <1>4, <1>5, ConnQuiet DEF Books, Alive, workerUnchanged, serverVars
<1>7. FdInv'
  <2>1. {d \in Conns : work'[d].pc \in Registered} =
          IF p = "loop" THEN {d \in Conns : work[d].pc \in Registered} \cup {c}
          ELSE {d \in Conns : work[d].pc \in Registered}
    BY <1>1, <1>5 DEF Registered
  <2>2. connection_fds' = {sock'[d].fd : d \in {f \in Conns : work'[f].pc \in Registered}}
    BY <1>1, <1>2, <2>1, SMTT(30) DEF Books, FdInv
  <2> QED  BY <1>1, <2>2 DEF Books, FdInv, Open
<1>8. CountInv'
  BY <1>1, <1>3, <1>4, <1>5, CountQuiet, SMTT(30) DEF Books, Counted, Alive, workerUnchanged, config
<1>9. SessionInv'
  BY <1>1, <1>5, SessionQuiet, SMTT(30) DEF Books, Talking, sessionVars, workerUnchanged
<1> QED  BY <1>4, <1>6, <1>7, <1>8, <1>9, SMTT(30) DEF Books

LEMMA UnregisterKeeps ==
  ASSUME ServerType, Books, NEW c \in Conns, Unregister(c)
  PROVE  ServerType' /\ Books'
<1>0. work[c] \in WorkRecord
  BY Zenon DEF ServerType
<1>1. UNCHANGED <<workerUnchanged, sessionVars, active_connections, done, sock>>
      /\ work[c].pc = "erase" /\ connection_fds' = connection_fds \ {sock[c].fd}
  BY Zenon DEF Unregister
<1>2. work' = [work EXCEPT ![c].pc = "close_fd"]
  BY Zenon DEF Unregister, Goto
<1>3. SockQuiet /\ WorkersQuiet
  BY <1>1, Zenon DEF SockQuiet, WorkersQuiet, workerUnchanged
<1>4. ServerType'
  BY <1>0, <1>1, <1>2, ZenonT(60)
     DEF ServerType, WorkRecord, Pcs, Threaded, Counted, Alive, workerUnchanged,
                    config, sessionVars
<1>5. work'[c].pc = "close_fd" /\ work'[c].session = work[c].session
      /\ work'[c].complete = work[c].complete
      /\ \A d \in Conns : d # c => work'[d] = work[d]
  BY <1>0, <1>2, SMTT(30) DEF ServerType, WorkRecord
<1>6. ConnInv'
  BY <1>1, <1>3, <1>4, <1>5, ConnQuiet, SMTT(30) DEF Books, Alive, workerUnchanged, serverVars
<1>7. FdInv'
  <2>1. {d \in Conns : work'[d].pc \in Registered} = {d \in Conns : work[d].pc \in Registered} \ {c}
    BY <1>1, <1>5, Zenon DEF Registered
  <2>2. \A d \in Conns : work[d].pc \in Registered => Open(d)
    BY Zenon DEF Books, ConnInv, ConnOk, Registered, Alive, Open
  <2>3. \A d \in Conns : work[d].pc \in Registered /\ d # c => sock[d].fd # sock[c].fd
    BY <1>1, <2>2, SMTT(30) DEF Books, FdInv, Registered
  <2>4. connection_fds' = {sock'[d].fd : d \in {f \in Conns : work'[f].pc \in Registered}}
    BY <1>1, <2>1, <2>3, SMTT(30) DEF Books, FdInv
  <2> QED  BY <1>1, <2>4 DEF Books, FdInv, Open
<1>8. CountInv'
  BY <1>1, <1>3, <1>4, <1>5, CountQuiet, SMTT(30) DEF Books, Counted, Alive, workerUnchanged, config
<1>9. SessionInv'
  BY <1>1, <1>5, SessionQuiet, SMTT(30) DEF Books, Talking, sessionVars, workerUnchanged
<1> QED  BY <1>4, <1>6, <1>7, <1>8, <1>9, Zenon DEF Books

LEMMA CloseFdKeeps ==
  ASSUME ServerType, Books, NEW c \in Conns, CloseFd(c)
  PROVE  ServerType' /\ Books'
<1>0. work[c] \in WorkRecord /\ sock[c] \in SockRecord
  BY Zenon DEF ServerType
<1>1. UNCHANGED <<workerUnchanged, sessionVars, active_connections, connection_fds, done>>
      /\ work[c].pc = "close_fd"
  BY Zenon DEF CloseFd
<1>2. work' = [work EXCEPT ![c].pc = "count"]
      /\ sock' = [sock EXCEPT ![c].state = "closed", ![c].fd = None]
  BY Zenon DEF CloseFd, Goto
<1>3. PICK s : s \in SockRecord /\ sock' = [sock EXCEPT ![c] = s] /\ s.state = "closed"
  <2> DEFINE s == [sock[c] EXCEPT !.state = "closed", !.fd = None]
  <2>1. s \in SockRecord /\ s.state = "closed"
    BY <1>0, Zenon DEF SockRecord
  <2>2. sock' = [sock EXCEPT ![c] = s]
    BY <1>0, <1>2, Zenon DEF ServerType, SockRecord
  <2> HIDE DEF s
  <2> QED  BY <2>1, <2>2, Zenon
<1>4. ServerType'
  BY <1>0, <1>1, <1>2, <1>3, ZenonT(60) DEF ServerType, WorkRecord, Pcs, Threaded, Counted, Alive,
                    workerUnchanged, config, sessionVars
<1>5. work'[c].pc = "count" /\ work'[c].session = work[c].session
      /\ work'[c].complete = work[c].complete
      /\ \A d \in Conns : d # c => work'[d] = work[d]
  BY <1>0, <1>2, Zenon DEF ServerType, WorkRecord
<1>6. sock'[c].state = "closed" /\ \A d \in Conns : d # c => sock'[d] = sock[d]
  BY <1>3, Zenon DEF ServerType
<1>7. ConnInv'
  <2>1. sock[c].state = "open" /\ c # admitting
    BY <1>1, Zenon DEF Books, ConnInv, ConnOk, Alive
  <2>2. ASSUME NEW d \in Conns
        PROVE  ConnOk(d)'
    <3>1. CASE d = c
      BY <1>1, <1>5, <1>6, <2>1, <3>1, SMTT(30)
         DEF Books, ConnInv, ConnOk, Alive, Threaded, Counted, Queued, workerUnchanged
    <3>2. CASE d # c
      BY <1>1, <1>5, <1>6, <3>2, SMTT(30) DEF Books, ConnInv, ConnOk, Queued, workerUnchanged
    <3> QED  BY <3>1, <3>2, Zenon
  <2>3. UNCHANGED <<backlog, admitting, accept_pc, bound>>
    BY <1>1, SMTT(30) DEF workerUnchanged, serverVars
  <2> QED  BY <2>2, <2>3 DEF Books, ConnInv
<1>8. FdInv'
  BY <1>1, <1>5, <1>6, FdKept, SMTT(30) DEF Books, Open, Registered
<1>9. CountInv'
  BY <1>1, <1>4, <1>5, CountQuiet, SMTT(30)
     DEF Books, Counted, Alive, workerUnchanged, config, WorkersQuiet
<1>10. SessionInv'
  BY <1>1, <1>5, SessionQuiet DEF Books, Talking, sessionVars, workerUnchanged
<1> QED  BY <1>4, <1>7, <1>8, <1>9, <1>10, Zenon DEF Books

LEMMA FinishKeeps ==
  ASSUME ServerType, Books, NEW c \in Conns, Finish(c)
  PROVE  ServerType' /\ Books'
<1>0. work[c] \in WorkRecord
  BY Zenon DEF ServerType
<1>1. UNCHANGED <<workerUnchanged, sessionVars, connection_fds, sock>>
  BY Zenon DEF Finish
<1>2. PICK p \in {"flag", "finished"} :
        /\ work' = [work EXCEPT ![c].pc = p]
        /\ work[c].pc = IF p = "flag" THEN "count" ELSE "flag"
        /\ active_connections' = IF p = "flag" THEN active_connections - 1 ELSE active_connections
        /\ done' = IF p = "flag" THEN done ELSE done \cup {c}
  BY Zenon DEF Finish, Goto
<1>3. SockQuiet
  BY <1>1, Zenon DEF SockQuiet
<1>4. ServerType'
  BY <1>0, <1>1, <1>2, Zenon
     DEF ServerType, WorkRecord, Pcs, Threaded, Counted, Alive, workerUnchanged,
                    config, sessionVars
<1>5. work'[c].pc = p /\ work'[c].session = work[c].session /\ work'[c].complete = work[c].complete
      /\ \A d \in Conns : d # c => work'[d] = work[d]
  BY <1>0, <1>2, SMTT(30) DEF ServerType, WorkRecord
<1>6. ConnInv'
  <2>1. sock[c].state \notin {"open", "none", "backlog"} /\ c # admitting
    BY <1>2, Zenon DEF Books, ConnInv, ConnOk, Alive
  <2>2. ASSUME NEW d \in Conns
        PROVE  ConnOk(d)'
    <3>1. CASE d = c
      BY <1>1, <1>2, <1>5, <2>1, <3>1, SMTT(30)
         DEF Books, ConnInv, ConnOk, Alive, Threaded, Counted, Queued, workerUnchanged
    <3>2. CASE d # c
      BY <1>1, <1>2, <1>5, <3>2 DEF Books, ConnInv, ConnOk, Queued, workerUnchanged
    <3> QED  BY <3>1, <3>2, SMTT(30)
  <2>3. UNCHANGED <<backlog, admitting, accept_pc, bound>>
    BY <1>1, Zenon DEF workerUnchanged, serverVars
  <2> QED  BY <2>2, <2>3 DEF Books, ConnInv
<1>7. FdInv'
  BY <1>1, <1>2, <1>3, <1>5, FdQuiet, SMTT(30) DEF Books, Registered
<1>8. CountInv'
  <2> DEFINE K == {d \in Conns : work[d].pc \in Counted}
             L == {d \in Conns : work'[d].pc \in Counted}
  <2>1. IsFiniteSet(K)
    BY ServerAssumption, FS_Subset
  <2>2. Cardinality(L) = active_connections'
    <3>1. CASE p = "flag"
      <4>1. c \in K /\ L = K \ {c}
        BY <1>2, <1>5, <3>1 DEF Counted, Alive
      <4> QED  BY <1>2, <2>1, <3>1, <4>1, FS_RemoveElement, Zenon DEF Books, CountInv
    <3>2. CASE p = "finished"
      <4>1. L = K
        BY <1>2, <1>5, <3>2, Zenon DEF Counted, Alive
      <4> QED  BY <1>2, <3>2, <4>1, Zenon DEF Books, CountInv
    <3> QED  BY <3>1, <3>2
  <2> QED  BY <1>1, <2>2, SMTT(30) DEF Books, CountInv, workerUnchanged, config
<1>9. SessionInv'
  BY <1>1, <1>2, <1>5, SessionQuiet, SMTT(30) DEF Books, Talking, sessionVars, workerUnchanged
<1> QED  BY <1>4, <1>6, <1>7, <1>8, <1>9, SMTT(30) DEF Books

(* The descriptor that accept4 returns is not in use.                       *)
LEMMA NewFdFresh ==
  ASSUME ServerType, Books
  PROVE  NewFd \in Nat /\ NewFd \notin UsedFds
<1> DEFINE S == {d \in Conns : Open(d)}
           n == Cardinality(UsedFds)
           f == [c \in S |-> sock[c].fd]
<1>1. UsedFds \subseteq Nat
  BY Zenon DEF UsedFds, Open, Books, ConnInv, ConnOk
<1>2. f \in Surjection(S, UsedFds)
  BY Zenon DEF Surjection, UsedFds
<1>3. IsFiniteSet(S)
  BY ServerAssumption, FS_Subset, Zenon
<1>4. IsFiniteSet(UsedFds) /\ n \in Nat
  BY <1>2, <1>3, FS_Surjection, FS_CardinalityType
<1>5. Cardinality(0..n) = n + 1
  BY <1>4, FS_Interval
<1>6. ~(0..n \subseteq UsedFds)
  <2> SUFFICES ASSUME 0..n \subseteq UsedFds  PROVE FALSE
    OBVIOUS
  <2>1. Cardinality(0..n) <= n
    BY <1>4, FS_Subset, SMTT(30)
  <2> QED  BY <1>4, <1>5, <2>1
<1>7. (0..n) \ UsedFds \in SUBSET Nat /\ (0..n) \ UsedFds # {}
  BY <1>4, <1>6
<1>8. NewFd \in (0..n) \ UsedFds
  BY <1>7, MinNatural, Zenon DEF NewFd
<1> QED  BY <1>4, <1>8

LEMMA ConnectKeeps ==
  ASSUME ServerType, Books, NEW c \in Conns, Connect(c)
  PROVE  ServerType' /\ Books'
<1>0. sock[c] \in SockRecord /\ load[c] \in Seq(Frames)
  BY Zenon DEF ServerType, Connect
<1>1. UNCHANGED <<config, sessionVars, serverVars, accept_pc, admitting, workers,
                 active_connections, done, connection_fds, work, control>>
      /\ bound /\ sock[c].state = "none" /\ backlog' = Append(backlog, c)
  BY Zenon DEF Connect
<1>2. PICK s : s \in SockRecord /\ sock' = [sock EXCEPT ![c] = s] /\ s.state = "backlog"
  <2> DEFINE s == [sock[c] EXCEPT !.state = "backlog", !.inbox = load[c]]
  <2>1. s \in SockRecord /\ s.state = "backlog"
    BY <1>0, Zenon DEF SockRecord
  <2>2. sock' = [sock EXCEPT ![c] = s]
    BY <1>0, Zenon DEF ServerType, SockRecord, Connect
  <2> HIDE DEF s
  <2> QED  BY <2>1, <2>2, Zenon
<1>3. backlog \in Seq(Conns)
  BY Zenon DEF ServerType
<1>4. backlog' \in Seq(Conns) /\ Len(backlog') = Len(backlog) + 1
      /\ (\A i \in 1..Len(backlog) : backlog'[i] = backlog[i]) /\ backlog'[Len(backlog) + 1] = c
  BY <1>1, <1>3, SMTT(30)
<1>5. ServerType'
  BY <1>1, <1>2, <1>4, Zenon DEF ServerType, config, sessionVars
<1>6. sock'[c].state = "backlog" /\ \A d \in Conns : d # c => sock'[d] = sock[d]
  BY <1>2, Zenon DEF ServerType
<1>7. Queued' = Queued \cup {c} /\ c \notin Queued
  <2>1. c \notin Queued
    BY <1>1, Zenon DEF Books, ConnInv, ConnOk
  <2>2. Len(backlog) \in Nat
    BY <1>3, SMTT(30)
  <2> QED  BY <1>4, <2>1, <2>2, SMTT(30) DEF Queued
<1>8. ConnInv'
  <2>1. ASSUME NEW d \in Conns
        PROVE  ConnOk(d)'
    <3>1. CASE d = c
      BY <1>1, <1>6, <1>7, <3>1, SMTT(30) DEF Books, ConnInv, ConnOk
    <3>2. CASE d # c
      BY <1>1, <1>6, <1>7, <3>2 DEF Books, ConnInv, ConnOk
    <3> QED  BY <3>1, <3>2, SMTT(30)
  <2>2. \A i \in 1..Len(backlog) : backlog[i] # c
    BY <1>7, Zenon DEF Queued
  <2>3. \A i, j \in 1..Len(backlog') : i # j => backlog'[i] # backlog'[j]
    BY <1>3, <1>4, <2>2, SMTT(30) DEF Books, ConnInv
  <2> QED  BY <1>1, <2>1, <2>3, ZenonT(60) DEF Books, ConnInv, serverVars
<1>9. FdInv'
  <2>1. \A d \in Conns : work[d].pc \in Registered => d # c
    BY <1>1, SMTT(30) DEF Books, ConnInv, ConnOk, Registered
  <2> QED  BY <1>1, <1>6, <2>1, FdKept, SMTT(30) DEF Books, Open
<1>10. CountInv'
  BY <1>1, <1>5, CountQuiet DEF Books, config, WorkersQuiet
<1>11. SessionInv'
  BY <1>1, SessionQuiet, Zenon DEF Books, sessionVars
<1> QED  BY <1>5, <1>8, <1>9, <1>10, <1>11, Zenon DEF Books

LEMMA HangUpKeeps ==
  ASSUME ServerType, Books, NEW c \in Conns, HangUp(c)
  PROVE  ServerType' /\ Books'
<1>0. sock[c] \in SockRecord
  BY Zenon DEF ServerType
<1>1. UNCHANGED <<config, sessionVars, serverVars, acceptVars, done, connection_fds, work, control>>
  BY Zenon DEF HangUp
<1>2. PICK s : /\ s \in SockRecord /\ sock' = [sock EXCEPT ![c] = s]
               /\ s.state = sock[c].state /\ s.fd = sock[c].fd
  <2>1. PICK n \in 0..Len(sock[c].inbox) :
          sock' = [sock EXCEPT ![c].gone = TRUE, ![c].inbox = SubSeq(@, 1, n)]
    BY Zenon DEF HangUp
  <2> DEFINE q == SubSeq(sock[c].inbox, 1, n)
             s == [sock[c] EXCEPT !.gone = TRUE, !.inbox = q]
  <2>2. sock[c].inbox \in Seq(Frames)
    BY <1>0, Zenon DEF SockRecord
  <2>3. q \in Seq(Frames)
    BY <2>2, PartOfFrames
  <2>4. sock' = [sock EXCEPT ![c].gone = TRUE, ![c].inbox = q]
    BY <2>1, <1>0, Zenon DEF ServerType, SockRecord
  <2> HIDE DEF q
  <2>5. s \in SockRecord /\ s.state = sock[c].state /\ s.fd = sock[c].fd
    BY <1>0, <2>3, Zenon DEF SockRecord
  <2>6. sock' = [sock EXCEPT ![c] = s]
    BY <1>0, <2>4, Zenon DEF ServerType, SockRecord
  <2> HIDE DEF s
  <2> QED  BY <2>5, <2>6, Zenon
<1>3. ServerType'
  BY <1>1, <1>2, SMTT(30) DEF ServerType, config, sessionVars, acceptVars
<1>4. SockQuiet
  BY <1>2, Zenon DEF SockQuiet, ServerType
<1> QED  BY <1>1, <1>3, <1>4, QuietKeeps
            DEF config, sessionVars, serverVars, acceptVars, WorkersQuiet

LEMMA PollKeeps ==
  ASSUME ServerType, Books, AcceptCheck \/ AcceptTimeout
  PROVE  ServerType' /\ Books'
<1>1. /\ UNCHANGED <<config, sessionVars, serverVars, backlog, admitting, active_connections, done,
                 connection_fds, sock, work, control>>
      /\ accept_pc # "admit" /\ accept_pc' # "admit"
      /\ workers' \in {workers, workers \ done}
  BY Zenon DEF AcceptCheck, AcceptTimeout, Reaped
<1>2. ServerType'
  BY <1>1, Zenon DEF ServerType, config, sessionVars
<1> QED  BY <1>1, <1>2, QuietKeeps
            DEF config, sessionVars, serverVars, WorkersQuiet, SockQuiet

LEMMA AcceptKeeps ==
  ASSUME ServerType, Books, Accept
  PROVE  ServerType' /\ Books'
<1> DEFINE c == Head(backlog)
<1>1. UNCHANGED <<config, sessionVars, serverVars, workers, active_connections, done,
                 connection_fds, work, control>>
      /\ accept_pc = "poll" /\ accept_pc' = "admit" /\ backlog # <<>>
      /\ admitting' = c /\ backlog' = Tail(backlog)
  BY Zenon DEF Accept
<1>2. backlog \in Seq(Conns)
  BY Zenon DEF ServerType
<1>3. c \in Conns /\ c = backlog[1] /\ Len(backlog) \in Nat \ {0}
      /\ backlog' \in Seq(Conns) /\ Len(backlog') = Len(backlog) - 1
      /\ \A i \in 1..Len(backlog') : backlog'[i] = backlog[i + 1]
  BY <1>1, <1>2
<1>4. NewFd \in Nat /\ NewFd \notin UsedFds
  BY NewFdFresh, Zenon
<1>5. sock' = [sock EXCEPT ![c].state = "open", ![c].fd = NewFd]
  BY Zenon DEF Accept
<1>6. c \in Queued
  BY <1>3, SMTT(30) DEF Queued
<1> HIDE DEF c
<1>7. sock[c] \in SockRecord
  BY <1>3, Zenon DEF ServerType
<1>8. PICK s : /\ s \in SockRecord /\ sock' = [sock EXCEPT ![c] = s]
               /\ s.state = "open" /\ s.fd = NewFd
  <2> DEFINE s == [sock[c] EXCEPT !.state = "open", !.fd = NewFd]
  <2>1. s \in SockRecord /\ s.state = "open" /\ s.fd = NewFd
    BY <1>4, <1>7, Zenon DEF SockRecord
  <2>2. sock' = [sock EXCEPT ![c] = s]
    BY <1>3, <1>5, <1>7, ZenonT(60) DEF ServerType, SockRecord
  <2> HIDE DEF s
  <2> QED  BY <2>1, <2>2, Zenon
<1>9. ServerType'
  BY <1>1, <1>3, <1>8 DEF ServerType, config, sessionVars
<1>10. sock'[c].state = "open" /\ sock'[c].fd = NewFd
       /\ \A d \in Conns : d # c => sock'[d] = sock[d]
  BY <1>3, <1>8, Zenon DEF ServerType
<1>11. sock[c].state = "backlog" /\ work[c].pc = "none" /\ admitting = None
  BY <1>1, <1>3, <1>6, Zenon DEF Books, ConnInv, ConnOk
<1>12. \A i, j \in 1..Len(backlog) : i # j => backlog[i] # backlog[j]
  BY Zenon DEF Books, ConnInv
<1>13. Queued' = Queued \ {c}
  <2>1. \A i \in 1..Len(backlog) :
          i # 1 => i - 1 \in 1..Len(backlog') /\ backlog'[i - 1] = backlog[i]
    BY <1>3
  <2>2. \A i \in 1..Len(backlog') : i + 1 \in 1..Len(backlog) /\ backlog[i + 1] # c
    BY <1>3, <1>12
  <2>3. Queued' \subseteq Queued \ {c}
    BY <1>3, <2>2, SMTT(30) DEF Queued
  <2>4. ASSUME NEW d \in Queued, d # c  PROVE d \in Queued'
    <3>1. PICK i \in 1..Len(backlog) : d = backlog[i]
      BY <2>4, Zenon DEF Queued
    <3>2. i # 1
      BY <1>3, <2>4, <3>1, SMTT(30)
    <3>3. i - 1 \in 1..Len(backlog') /\ backlog'[i - 1] = d
      BY <2>1, <3>1, <3>2, Zenon
    <3> QED  BY <3>3, Zenon DEF Queued
  <2> QED  BY <2>3, <2>4, Zenon
<1>14. ConnInv'
  <2>1. ASSUME NEW d \in Conns
        PROVE  ConnOk(d)'
    <3>1. CASE d = c
      BY <1>1, <1>4, <1>10, <1>11, <1>13, <3>1, SMTT(30)
         DEF Books, ConnInv, ConnOk, Threaded, Counted, Alive
    <3>2. CASE d # c
      <4>1. d # admitting /\ d # admitting'
        BY <1>1, <1>11, <3>2, ServerAssumption
      <4> QED  BY <1>1, <1>10, <1>13, <3>2, <4>1, SMTT(30) DEF Books, ConnInv, ConnOk
    <3> QED  BY <3>1, <3>2, SMTT(30)
  <2>2. \A i, j \in 1..Len(backlog') : i # j => backlog'[i] # backlog'[j]
    BY <1>3, <1>12
  <2>3. admitting' # None /\ accept_pc' = "admit"
    BY <1>1, <1>3, ServerAssumption, Zenon
  <2>4. bound'
    BY <1>1, Zenon DEF Books, ConnInv, serverVars
  <2> QED  BY <2>1, <2>2, <2>3, <2>4, Zenon DEF ConnInv
<1>15. FdInv'
  <2>1. \A d \in Conns : d # c => (Open(d)' <=> Open(d)) /\ sock'[d].fd = sock[d].fd
    BY <1>10, Zenon DEF Open
  <2>2. \A d \in Conns : Open(d) => sock[d].fd # NewFd
    BY <1>4, SMTT(30) DEF UsedFds
  <2>3. connection_fds' = {sock'[d].fd : d \in {f \in Conns : work'[f].pc \in Registered}}
    <3>1. c \notin {f \in Conns : work[f].pc \in Registered}
      BY <1>11, Zenon DEF Registered
    <3> QED  BY <1>1, <2>1, <3>1, SMTT(30) DEF Books, FdInv
  <2>4. \A d, f \in Conns : Open(d)' /\ Open(f)' /\ sock'[d].fd = sock'[f].fd => d = f
    BY <1>10, <2>1, <2>2 DEF Books, FdInv
  <2> QED  BY <2>3, <2>4, Zenon DEF FdInv, Open
<1>16. CountInv'
  BY <1>1, <1>9, CountQuiet, SMTT(30) DEF Books, config, WorkersQuiet
<1>17. SessionInv'
  BY <1>1, SessionQuiet, Zenon DEF Books, sessionVars
<1> QED  BY <1>9, <1>14, <1>15, <1>16, <1>17 DEF Books

(* A connection that is admitted, and one that is refused.                  *)
LEMMA AdmitKeeps ==
  ASSUME ServerType, Books, Admit
  PROVE  ServerType' /\ Books'
<1> DEFINE c == admitting
<1>1. UNCHANGED <<config, sessionVars, serverVars, backlog, done, connection_fds, control>>
      /\ accept_pc = "admit" /\ accept_pc' = "check" /\ admitting' = None
  BY Zenon DEF Admit
<1>2. c \in Conns /\ c # None
  BY <1>1, Zenon DEF Books, ConnInv, ServerType
<1>3. sock[c].state = "open" /\ work[c].pc = "none" /\ c \notin workers
  BY <1>2, Zenon DEF Books, ConnInv, ConnOk
<1>4. work[c] \in WorkRecord /\ sock[c] \in SockRecord
  BY <1>2, Zenon DEF ServerType
<1>5. IsFiniteSet(workers \ done) /\ Cardinality(workers \ done) \in Nat
      /\ Cardinality(workers \ done) <= max_sessions
  <2>1. IsFiniteSet(workers)
    BY ServerAssumption, FS_Subset, Zenon DEF ServerType
  <2>2. IsFiniteSet(workers \ done) /\ Cardinality(workers \ done) <= Cardinality(workers)
    BY <2>1, FS_Subset, Zenon
  <2>3. Cardinality(workers) \in Nat /\ Cardinality(workers \ done) \in Nat
    BY <2>1, <2>2, FS_CardinalityType
  <2> QED  BY <2>2, <2>3, SMTT(30) DEF Books, CountInv, ServerType
<1>6. \A d \in Conns : d # c => ConnOk(d)
  BY DEF Books, ConnInv
<1>7. CASE /\ HasRoom /\ active_connections' = active_connections + 1
           /\ workers' = Reaped \cup {c}
           /\ work' = [work EXCEPT ![c].pc = "start"] /\ UNCHANGED sock
  <2>1. ServerType'
    BY <1>1, <1>2, <1>4, <1>7, ZenonT(60) DEF ServerType, WorkRecord, Pcs, Threaded, Counted, Alive,
                                  config, sessionVars, Reaped
  <2>2. work'[c].pc = "start" /\ work'[c].session = work[c].session
        /\ work'[c].complete = work[c].complete
        /\ \A d \in Conns : d # c => work'[d] = work[d]
    BY <1>2, <1>4, <1>7 DEF ServerType, WorkRecord
  <2>3. ASSUME NEW d \in Conns  PROVE ConnOk(d)'
    <3>1. CASE d = c
      BY <1>1, <1>2, <1>3, <1>7, <2>2, <3>1, SMTT(30)
         DEF Books, ConnInv, ConnOk, Alive, Threaded, Counted, Queued
    <3>2. CASE d # c
      <4>1. d # admitting'
        BY <1>1, ServerAssumption, Zenon
      <4>2. d \in workers' <=> d \in workers /\ d \notin done
        BY <1>7, <3>2, Zenon DEF Reaped
      <4> QED  BY <1>1, <1>6, <1>7, <2>2, <3>2, <4>1, <4>2, SMTT(30)
                  DEF ConnOk, Queued, Threaded, Counted, Alive
    <3> QED  BY <3>1, <3>2, Zenon
  <2>4. ConnInv'
    BY <1>1, <2>3 DEF Books, ConnInv, serverVars
  <2>5. FdInv'
    BY <1>1, <1>3, <1>7, <2>2, FdQuiet, Zenon DEF Books, Registered, SockQuiet
  <2>6. CountInv'
    <3> DEFINE K == {d \in Conns : work[d].pc \in Counted}
               L == {d \in Conns : work'[d].pc \in Counted}
    <3>1. IsFiniteSet(K)
      BY ServerAssumption, FS_Subset, Zenon
    <3>2. L = K \cup {c} /\ c \notin K
      BY <1>2, <1>3, <2>2, Zenon DEF Counted, Alive
    <3>3. Cardinality(L) = active_connections'
      BY <1>7, <3>1, <3>2, FS_AddElement, SMTT(30) DEF Books, CountInv
    <3>4. Cardinality(workers') = Cardinality(workers \ done) + 1
      BY <1>3, <1>5, <1>7, FS_AddElement, ZenonT(60) DEF Reaped
    <3>5. Cardinality(workers') <= max_sessions'
      BY <1>1, <1>5, <1>7, <3>4, SMTT(30) DEF HasRoom, config, Reaped, ServerType
    <3> QED  BY <3>3, <3>5, Zenon DEF CountInv
  <2>7. SessionInv'
    <3>1. Owners' = Owners /\ c \notin Owners
      BY <1>2, <1>3, <2>2 DEF Owners, Books, SessionInv, Talking
    <3>2. UNCHANGED <<sessions, next_session_id, draining, control>>
      BY <1>1, Zenon DEF sessionVars
    <3> QED  BY <1>3, <2>2, <3>1, <3>2, SMTT(30) DEF Books, SessionInv, Talking, Owners
  <2> QED  BY <2>1, <2>4, <2>5, <2>6, <2>7, Zenon DEF Books
<1>8. CASE /\ workers' = Reaped
           /\ sock' = [sock EXCEPT ![c].state = "closed", ![c].fd = None]
           /\ UNCHANGED <<active_connections, work>>
  <2>1. PICK s : s \in SockRecord /\ sock' = [sock EXCEPT ![c] = s] /\ s.state = "closed"
    <3> DEFINE s == [sock[c] EXCEPT !.state = "closed", !.fd = None]
    <3>1. s \in SockRecord /\ s.state = "closed"
      BY <1>4, Zenon DEF SockRecord
    <3>2. sock' = [sock EXCEPT ![c] = s]
      BY <1>2, <1>4, <1>8, Zenon DEF ServerType, SockRecord
    <3> HIDE DEF s
    <3> QED  BY <3>1, <3>2, Zenon
  <2>2. ServerType'
    BY <1>1, <1>8, <2>1, ZenonT(60) DEF ServerType, config, sessionVars, Reaped
  <2>3. sock'[c].state = "closed" /\ \A d \in Conns : d # c => sock'[d] = sock[d]
    BY <1>2, <2>1, SMTT(30) DEF ServerType
  <2>4. ASSUME NEW d \in Conns  PROVE ConnOk(d)'
    <3>1. CASE d = c
      <4>1. c \notin Queued /\ c \notin done
        BY <1>2, <1>3, Zenon DEF Books, ConnInv, ConnOk
      <4>2. c \notin Queued' /\ c \notin done' /\ c \notin workers' /\ c # admitting'
        BY <1>1, <1>2, <1>3, <1>8, <4>1, SMTT(30) DEF Queued, Reaped
      <4>3. work'[c].pc = "none"
        BY <1>3, <1>8, ZenonT(60)
      <4> HIDE DEF c
      <4> QED  BY <2>3, <3>1, <4>2, <4>3, SMTT(30) DEF ConnOk, Alive, Threaded, Counted
    <3>2. CASE d # c
      <4>1. d # admitting'
        BY <1>1, ServerAssumption, Zenon
      <4>2. d \in workers' <=> d \in workers /\ d \notin done
        BY <1>8, Zenon DEF Reaped
      <4>3. Queued' = Queued /\ done' = done /\ work'[d] = work[d] /\ sock'[d] = sock[d]
            /\ ConnOk(d) /\ d # admitting
        BY <1>1, <1>6, <1>8, <2>3, <3>2, ZenonT(60) DEF Queued
      <4> HIDE DEF c
      <4> QED  BY <4>1, <4>2, <4>3, SMTT(30) DEF ConnOk, Threaded, Counted, Alive
    <3> QED  BY <3>1, <3>2, Zenon
  <2>5. ConnInv'
    BY <1>1, <2>4 DEF Books, ConnInv, serverVars
  <2>6. FdInv'
    <3>1. \A d \in Conns : work[d].pc \in Registered => d # c
      BY <1>3, Zenon DEF Registered
    <3>2. \A d \in Conns : d # c => sock'[d] = sock[d]
      BY <2>3, Zenon
    <3>3. FdInv /\ UNCHANGED <<work, connection_fds>> /\ sock'[c].state = "closed"
      BY <1>1, <1>8, <2>3, Zenon DEF Books
    <3> HIDE DEF c
    <3> QED  BY <3>1, <3>2, <3>3, FdKept, SMTT(30) DEF Open
  <2>7. CountInv'
    BY <1>1, <1>8, <2>2, CountQuiet DEF Books, config, WorkersQuiet, Reaped
  <2>8. SessionInv'
    BY <1>1, <1>8, SessionQuiet, Zenon DEF Books, sessionVars
  <2> QED  BY <2>2, <2>5, <2>6, <2>7, <2>8, Zenon DEF Books
<1> QED  BY <1>7, <1>8, Zenon DEF Admit

(* Starting, and stop until the workers have been joined.                   *)
LEMMA ControlKeeps ==
  ASSUME ServerType, Books, control = "created" => accept_pc = "none",
         Start \/ StopBegin \/ StopSweep \/ StopJoin \/ StopReap
  PROVE  ServerType' /\ Books'
<1>1. /\ UNCHANGED <<config, sessionVars, backlog, admitting, active_connections, done,
                     connection_fds, work>>
      /\ workers' \in {workers, workers \ done}
      /\ control \notin {"close", "unbind", "stopped"}
      /\ bound => bound'
  BY DEF Start, StopBegin, StopSweep, StopJoin, StopReap, acceptVars, serverVars
<1>2. sock' \in [Conns -> SockRecord] /\ SockQuiet
  <2>1. CASE UNCHANGED sock
    BY <2>1, Zenon DEF ServerType, SockQuiet
  <2>2. CASE StopSweep
    <3>1. ASSUME NEW c \in Conns
          PROVE  /\ sock'[c] \in SockRecord
                 /\ sock'[c].state = sock[c].state /\ sock'[c].fd = sock[c].fd
      <4>1. sock[c] \in SockRecord
        BY Zenon DEF ServerType
      <4>2. sock'[c] = sock[c] \/ sock'[c] = [sock[c] EXCEPT !.shut = TRUE]
        BY <2>2, Zenon DEF StopSweep
      <4> QED  BY <4>1, <4>2, Zenon DEF SockRecord
    <3> QED  BY <2>2, <3>1, Zenon DEF StopSweep, SockQuiet
  <2> QED  BY <2>1, <2>2, Zenon DEF Start, StopBegin, StopJoin, StopReap
<1>3. accept_pc' = "admit" <=> accept_pc = "admit"
  BY Zenon DEF Start, StopBegin, StopSweep, StopJoin, StopReap, acceptVars
<1>4. ServerType'
  BY <1>1, <1>2, Zenon DEF ServerType, config, sessionVars
<1> QED  BY <1>1, <1>2, <1>3, <1>4, QuietKeeps, SMTT(30) DEF config, sessionVars, WorkersQuiet

(* No session is left to drain or to close.                                 *)
LEMMA DrainKeeps ==
  ASSUME ServerType, Books, Joined, StopDrain
  PROVE  ServerType' /\ Books'
<1>1. UNCHANGED <<config, serverVars, acceptVars, done, connection_fds, sock, work>>
      /\ UNCHANGED next_session_id
  BY Zenon DEF StopDrain, BeginDraining, CloseAll
<1>2. control \in {"drain", "close"} /\ control' \in {"close", "unbind"}
  BY Zenon DEF StopDrain
<1>3. Owners = {}
  <2>1. workers = {}
    BY <1>2, Zenon DEF Joined
  <2> QED  BY <2>1, Zenon DEF Books, SessionInv, ConnInv, ConnOk, Owners, Talking, Threaded,
                              Counted, Alive
<1>4. DOMAIN sessions = {}
  BY <1>3, Zenon DEF Books, SessionInv
<1>5. DOMAIN sessions' = {} /\ sessions' = [id \in DOMAIN sessions' |-> sessions'[id]]
  <2>1. CASE BeginDraining
    BY <1>4, <2>1, Zenon DEF BeginDraining
  <2>2. CASE CloseAll
    BY <2>2 DEF CloseAll
  <2> QED  BY <2>1, <2>2, Zenon DEF StopDrain
<1>6. ServerType'
  BY <1>1, Zenon DEF ServerType, config, acceptVars
<1>7. ConnInv'
  BY <1>1, <1>6, ConnQuiet, Zenon DEF Books, serverVars, acceptVars, SockQuiet, WorkersQuiet
<1>8. FdInv'
  BY <1>1, FdQuiet, Zenon DEF Books, SockQuiet
<1>9. CountInv'
  BY <1>1, <1>6, CountQuiet, SMTT(30) DEF Books, WorkersQuiet, config, acceptVars
<1>10. SessionInv'
  <2>1. Owners' = {}
    BY <1>1, <1>3, SMTT(30) DEF Owners
  <2> QED  BY <1>1, <1>2, <1>3, <1>5, <2>1, SMTT(30) DEF Books, SessionInv, Talking
<1> QED  BY <1>6, <1>7, <1>8, <1>9, <1>10 DEF Books

(* The kernel drops the connections that were never accepted.               *)
LEMMA UnbindKeeps ==
  ASSUME ServerType, Books, StopUnbind
  PROVE  ServerType' /\ Books'
<1>1. UNCHANGED <<config, sessionVars, started_once, running, accept_pc, admitting, workers,
                 active_connections, done, connection_fds, work>>
      /\ backlog' = <<>> /\ control' = "stopped" /\ control = "unbind"
  BY Zenon DEF StopUnbind
<1>2. ASSUME NEW c \in Conns
      PROVE  /\ sock'[c] \in SockRecord
             /\ sock'[c].fd = sock[c].fd
             /\ sock'[c].state = IF sock[c].state = "backlog" THEN "closed" ELSE sock[c].state
  <2>1. sock[c] \in SockRecord
    BY Zenon DEF ServerType
  <2>2. sock'[c] = IF sock[c].state = "backlog"
                   THEN [sock[c] EXCEPT !.state = "closed"] ELSE sock[c]
    BY Zenon DEF StopUnbind
  <2> QED  BY <2>1, <2>2 DEF SockRecord
<1>3. ServerType'
  <2>1. sock' \in [Conns -> SockRecord]
    BY <1>2, Zenon DEF StopUnbind
  <2> QED  BY <1>1, <2>1, SMTT(30) DEF ServerType, config, sessionVars
<1>4. ConnInv'
  <2>1. Queued' = {}
    BY <1>1, SMTT(30) DEF Queued
  <2>2. ASSUME NEW d \in Conns  PROVE ConnOk(d)'
    BY <1>1, <1>2, <2>1, ServerAssumption, SMTT(30) DEF Books, ConnInv, ConnOk
  <2> QED  BY <1>1, <2>2 DEF Books, ConnInv
<1>5. FdInv'
  BY <1>1, <1>2, FdKept, Zenon DEF Books, Open
<1>6. CountInv'
  BY <1>1, <1>3, CountQuiet, Zenon DEF Books, WorkersQuiet, config
<1>7. SessionInv'
  BY <1>1, SessionQuiet, Zenon DEF Books, sessionVars
<1> QED  BY <1>3, <1>4, <1>5, <1>6, <1>7, Zenon DEF Books

-----------------------------------------------------------------------------
(* The daemon *)


Stopping == {"sweep", "join", "reap", "drain", "close", "unbind"}

ServerInv ==
  /\ main \in {"core_start", "server_start"} =>
       control = "created" /\ accept_pc = "none" /\ workers = {} /\ ~bound
  /\ main = "serving" => control = "started"
  /\ main = "server_stop" => control \in Stopping
  /\ main \in {"core_stop", "exit"} => workers = {} /\ ~bound /\ accept_pc \in {"none", "exited"}
  /\ control \in {"reap", "drain", "close", "unbind", "stopped"} => accept_pc = "exited"
  /\ control \in {"drain", "close", "unbind", "stopped"} => workers = {}
  /\ control = "stopped" => ~bound

Started == {"discover", "commit", "activate", "publish"}

StartInv ==
  /\ core = [state |-> core.state, provider |-> core.provider, reason |-> core.reason,
             generation |-> core.generation]
  /\ catalog \in Nat
  /\ start \notin {"done", "failed"} => halt = "begin"
  /\ start \in {"begin", "validate", "initialize"} => manager = "uninitialized"
  /\ start \in Started => manager = "ready" /\ provider = "called"
  /\ start \in {"activate", "publish"} => catalog # 0
  /\ start = "publish" => active = catalog
  /\ halt = "begin" => manager # "shutdown"
  /\ core.state = "ready" =>
       /\ start = "done" /\ halt = "begin" /\ manager = "ready" /\ provider = "called"
       /\ core.generation = catalog /\ active = catalog /\ catalog # 0
  /\ start = "done" /\ halt = "begin" => core.state \in {"ready", "degraded"}

OrderInv ==
  /\ main = "core_start" => start \notin {"done", "failed"}
  /\ main \in {"server_start", "serving", "server_stop"} => start = "done" /\ halt = "begin"
  /\ main \in {"core_stop", "exit"} => start \in {"done", "failed"}
  /\ main \in {"core_start", "server_start", "serving", "server_stop", "core_stop", "exit"}

DaemonInv == ServerInv /\ StartInv /\ OrderInv

-----------------------------------------------------------------------------
LEMMA DaemonInitial == Init => DaemonInv
BY SMTT(30)
   DEF Init, ServerInit, CoreInit, DaemonInv, ServerInv, StartInv, OrderInv, Started, Stopping

(* start keeps what it promises to publish.                                 *)
LEMMA StartSteps ==
  ASSUME StartInv, halt = "begin", CoreStart
  PROVE  StartInv' /\ halt' = "begin"
<1> USE DEF StartInv, Started, Publish
<1>1. CASE StartBegin
  <2>1. core' = [state |-> "starting", provider |-> core.provider, reason |-> core.reason,
                 generation |-> core.generation]
    BY <1>1, Zenon DEF StartBegin
  <2> QED  BY <1>1, <2>1, Zenon DEF StartBegin
<1>2. CASE StartValidate
  BY <1>2, SMTT(30) DEF StartValidate
<1>3. CASE StartInitialize
  BY <1>3, SMTT(30) DEF StartInitialize
<1>4. CASE StartDiscover
  BY <1>4 DEF StartDiscover
<1>5. CASE StartCommit
  BY <1>5, SMTT(30) DEF StartCommit
<1>6. CASE StartActivate
  BY <1>6, SMTT(30) DEF StartActivate
<1>7. CASE StartPublish
  BY <1>7, Zenon DEF StartPublish
<1> QED  BY <1>1, <1>2, <1>3, <1>4, <1>5, <1>6, <1>7, ZenonT(60) DEF CoreStart

LEMMA StopSteps ==
  ASSUME StartInv, start \in {"done", "failed"}, CoreStop
  PROVE  StartInv' /\ start' = start
<1> USE DEF StartInv, Started, Publish
<1>1. CASE HaltBegin
  <2>1. CASE core.state = "stopped"
    BY <1>1, <2>1, Zenon DEF HaltBegin
  <2>2. CASE core.state # "stopped"
    <3>1. core' = [state |-> "stopping", provider |-> core.provider, reason |-> core.reason,
                   generation |-> core.generation]
      BY <1>1, <2>2, Zenon DEF HaltBegin
    <3> QED  BY <1>1, <2>2, <3>1, Zenon DEF HaltBegin
  <2> QED  BY <2>1, <2>2, Zenon
<1>2. CASE HaltShutdown
  BY <1>2, Zenon DEF HaltShutdown
<1>3. CASE HaltPublish
  BY <1>3, Zenon DEF HaltPublish
<1> QED  BY <1>1, <1>2, <1>3, Zenon DEF CoreStop

(* The server's threads: only the accept thread adds workers, and it does   *)
(* not start again.                                                         *)
LEMMA ThreadEffects ==
  ASSUME ServerThread
  PROVE  /\ UNCHANGED <<control, bound>>
         /\ \/ UNCHANGED <<accept_pc, workers>>
            \/ accept_pc \notin {"none", "exited"}
<1>1. CASE AcceptLoop
  BY <1>1, Zenon DEF AcceptLoop, AcceptCheck, AcceptTimeout, Accept, Admit, serverVars
<1>2. ASSUME NEW c \in Conns, HandleConnection(c)
      PROVE  UNCHANGED <<control, bound, accept_pc, workers>>
  BY <1>2, Zenon DEF HandleConnection, Register, LoopCheck, Receive, Route, Handshake,
              HandshakeActivate, EndSession, Unregister, CloseFd, Finish, workerUnchanged,
              serverVars
<1>3. ASSUME NEW c \in Conns, Connect(c) \/ HangUp(c)
      PROVE  UNCHANGED <<control, bound, accept_pc, workers>>
  BY <1>3, Zenon DEF Connect, HangUp, serverVars, acceptVars
<1> QED  BY <1>1, <1>2, <1>3, SMTT(30) DEF ServerThread

LEMMA ThreadsKeep ==
  ASSUME DaemonInv, ServerThread, UNCHANGED <<main, coreVars>>
  PROVE  DaemonInv'
<1>1. StartInv' /\ OrderInv'
  BY Zenon DEF DaemonInv, StartInv, OrderInv, coreVars, Started
<1>2. ServerInv'
  BY ThreadEffects DEF DaemonInv, ServerInv, Stopping
<1> QED  BY <1>1, <1>2, Zenon DEF DaemonInv

LEMMA MainKeeps ==
  ASSUME DaemonInv, Main \/ MainSignal
  PROVE  DaemonInv'
<1>1. CASE MainCoreStart
  <2>1. StartInv' /\ halt' = "begin"
    BY <1>1, StartSteps, Zenon DEF MainCoreStart, DaemonInv, StartInv, OrderInv
  <2>2. UNCHANGED <<control, accept_pc, workers, bound>>
    BY <1>1, Zenon DEF MainCoreStart, allServerVars, acceptVars, serverVars
  <2>3. ServerInv' /\ OrderInv'
    BY <1>1, <2>1, <2>2, Zenon DEF MainCoreStart, DaemonInv, ServerInv, OrderInv, Stopping
  <2> QED  BY <2>1, <2>3, Zenon DEF DaemonInv
<1>2. CASE MainServerStart
  <2>1. StartInv' /\ OrderInv'
    BY <1>2, Zenon DEF MainServerStart, DaemonInv, StartInv, OrderInv, coreVars, Started
  <2>2. CASE Start /\ main' = "serving"
    BY <1>2, <2>1, <2>2, Zenon DEF MainServerStart, Start, DaemonInv, ServerInv, Stopping
  <2>3. CASE main' = "core_stop" /\ UNCHANGED allServerVars
    BY <1>2, <2>1, <2>3 DEF MainServerStart, DaemonInv, ServerInv, Stopping, allServerVars,
                            acceptVars, serverVars
  <2> QED  BY <1>2, <2>2, <2>3, Zenon DEF MainServerStart
<1>3. CASE MainSignal
  <2>1. StartInv' /\ OrderInv'
    BY <1>3, Zenon DEF MainSignal, DaemonInv, StartInv, OrderInv, coreVars, Started
  <2> QED  BY <1>3, <2>1, Zenon
           DEF MainSignal, StopBegin, DaemonInv, ServerInv, Stopping, acceptVars
<1>4. CASE MainServerStop
  <2>1. StartInv' /\ OrderInv'
    BY <1>4, Zenon DEF MainServerStop, DaemonInv, StartInv, OrderInv, coreVars, Started
  <2>2. ServerInv'
    BY <1>4, Zenon DEF MainServerStop, Stop, StopSweep, StopJoin, StopReap, StopDrain, StopUnbind,
                DaemonInv, ServerInv, Stopping, acceptVars, serverVars
  <2> QED  BY <2>1, <2>2, SMTT(30) DEF DaemonInv
<1>5. CASE MainCoreStop
  <2>1. UNCHANGED <<control, accept_pc, workers, bound>>
    BY <1>5, Zenon DEF MainCoreStop, allServerVars, acceptVars, serverVars
  <2>2. start \in {"done", "failed"}
    BY <1>5, Zenon DEF MainCoreStop, DaemonInv, OrderInv
  <2> QED  BY <1>5, <2>1, <2>2, StopSteps
              DEF MainCoreStop, DaemonInv, ServerInv, OrderInv, Stopping
<1> QED  BY <1>1, <1>2, <1>3, <1>4, <1>5, SMTT(30) DEF Main

LEMMA DaemonStep == DaemonInv /\ [Next]_vars => DaemonInv'
<1> SUFFICES ASSUME DaemonInv, [Next]_vars  PROVE DaemonInv'
  BY SMTT(30)
<1>1. CASE UNCHANGED vars
  <2>1. UNCHANGED <<main, control, accept_pc, workers, bound>> /\ UNCHANGED coreVars
    BY <1>1, Zenon DEF vars, allServerVars, acceptVars, serverVars
  <2> QED  BY <2>1 DEF DaemonInv, ServerInv, StartInv, OrderInv, coreVars, Started, Stopping
<1> QED  BY <1>1, MainKeeps, ThreadsKeep, Zenon DEF Next

(* While a worker may ask it anything the core serves, its provider has not *)
(* been shut down, and when it says that it is ready it is: whatever of     *)
(* start fails, and whenever the signal comes (main, start, stop).          *)
THEOREM WorkersFindCoreCorrect == Spec => []WorkersFindCore
<1>1. DaemonInv => WorkersFindCore
  <2> SUFFICES ASSUME DaemonInv  PROVE WorkersFindCore
    OBVIOUS
  <2>1. ReadyIsTrue
    BY Zenon DEF DaemonInv, StartInv, ReadyIsTrue
  <2>2. ASSUME bound \/ workers # {}
        PROVE  start = "done" /\ halt = "begin"
    BY <2>2, Zenon DEF DaemonInv, ServerInv, OrderInv
  <2>3. start = "done" /\ halt = "begin" => Serving /\ manager # "shutdown"
    BY Zenon DEF DaemonInv, StartInv, Serving
  <2> QED  BY <2>1, <2>2, <2>3, Zenon DEF WorkersFindCore
<1> QED  BY <1>1, DaemonInitial, DaemonStep, PTL DEF Spec

-----------------------------------------------------------------------------
LEMMA BooksStep ==
  ASSUME ServerType, Books, DaemonInv, [Next]_vars
  PROVE  ServerType' /\ Books'
<1>0. ServerInv /\ Joined
  BY Zenon DEF DaemonInv, ServerInv, Joined
<1>1. CASE UNCHANGED allServerVars
  <2>1. UNCHANGED <<config, sessionVars, serverVars, acceptVars, done, connection_fds, sock, work,
                    control>>
    BY <1>1, Zenon DEF allServerVars
  <2>2. ServerType'
    BY <2>1, Zenon DEF ServerType, config, sessionVars, acceptVars
  <2> QED  BY <2>1, <2>2, QuietKeeps, Zenon
              DEF config, sessionVars, serverVars, acceptVars, SockQuiet, WorkersQuiet
<1>2. ASSUME ServerThread  PROVE ServerType' /\ Books'
  <2>1. CASE AcceptLoop
    BY <2>1, PollKeeps, AcceptKeeps, AdmitKeeps, SMTT(30) DEF AcceptLoop
  <2>2. ASSUME NEW c \in Conns, HandleConnection(c) \/ Connect(c) \/ HangUp(c)
        PROVE  ServerType' /\ Books'
    BY SMTT(30), <1>0, <2>2, RegisterKeeps, LoopKeeps, ReceiveKeeps, RouteKeeps, HandshakeKeeps,
       ActivateKeeps, EndSessionKeeps, UnregisterKeeps, CloseFdKeeps, FinishKeeps, ConnectKeeps,
       HangUpKeeps
       DEF HandleConnection
  <2> QED  BY <1>2, <2>1, <2>2, Zenon DEF ServerThread
<1>3. CASE MainServerStart
  <2>1. control = "created" => accept_pc = "none"
    BY <1>0, <1>3, Zenon DEF MainServerStart, ServerInv
  <2> QED  BY <1>1, <1>3, <2>1, ControlKeeps, Zenon DEF MainServerStart
<1>4. CASE MainSignal \/ MainServerStop
  <2>1. control # "created"
    BY <1>0, <1>4, Zenon DEF MainSignal, MainServerStop, ServerInv, Stopping
  <2> QED  BY <1>0, <1>4, <2>1, ControlKeeps, DrainKeeps, UnbindKeeps, SMTT(30)
              DEF MainSignal, MainServerStop, Stop
<1>5. CASE MainCoreStart \/ MainCoreStop \/ UNCHANGED vars
  BY <1>1, <1>5, Zenon DEF MainCoreStart, MainCoreStop, vars
<1> QED  BY <1>2, <1>3, <1>4, <1>5 DEF Next, Main

(* stop, up to the provider it has shut down and the state it publishes.    *)
HaltInv ==
  /\ halt = "begin" => core.state # "stopped"
  /\ halt \in {"publish", "done"} => provider # "called"
  /\ halt = "done" => core.state = "stopped"
  /\ manager = "shutdown" => provider # "called"
  /\ main = "exit" => halt = "done"

LEMMA HaltInitial == Init => HaltInv
BY DEF Init, CoreInit, HaltInv

LEMMA HaltStep ==
  ASSUME DaemonInv, HaltInv, [Next]_vars
  PROVE  HaltInv'
<1>1. CASE UNCHANGED coreVars /\ main' # "exit"
  BY <1>1, Zenon DEF HaltInv, coreVars
<1>2. CASE UNCHANGED vars
  BY <1>2, Zenon DEF HaltInv, coreVars, vars
<1>3. CASE MainCoreStart
  <2>1. halt = "begin" /\ halt' = "begin" /\ main' # "exit"
    BY <1>3, StartSteps, Zenon DEF MainCoreStart, DaemonInv, StartInv, OrderInv
  <2>2. StartInv /\ CoreStart
    BY <1>3, Zenon DEF MainCoreStart, DaemonInv
  <2>3. core'.state # "stopped"
    <3>1. CASE UNCHANGED core
      BY <2>1, <3>1, Zenon DEF HaltInv
    <3>2. CASE StartBegin
      BY <2>2, <3>2, Zenon DEF StartBegin, StartInv
    <3> QED  BY <2>2, <3>1, <3>2, SMTT(30)
             DEF CoreStart, StartValidate, StartInitialize, StartDiscover,
                  StartCommit, StartActivate, StartPublish, Publish
  <2>4. manager' # "shutdown"
    BY <2>1, <2>2, StartSteps, Zenon DEF StartInv
  <2> QED  BY <2>1, <2>3, <2>4, Zenon DEF HaltInv
<1>4. CASE MainCoreStop
  <2>1. StartInv /\ (main' = "exit" => halt' = "done")
    BY <1>4, Zenon DEF MainCoreStop, DaemonInv
  <2>2. CASE HaltBegin
    <3>1. core.state # "stopped" /\ halt' = "shutdown"
      BY <2>2, Zenon DEF HaltBegin, HaltInv
    <3> QED  BY <2>1, <2>2, <3>1, Zenon DEF HaltBegin, HaltInv
  <2>3. CASE HaltShutdown
    BY <2>1, <2>3, Zenon DEF HaltShutdown, HaltInv
  <2>4. CASE HaltPublish
    BY <2>1, <2>4, Zenon DEF HaltPublish, HaltInv, Publish
  <2> QED  BY <1>4, <2>2, <2>3, <2>4, Zenon DEF MainCoreStop, CoreStop
<1>5. CASE MainServerStart \/ MainSignal \/ MainServerStop
  BY <1>1, <1>5, Zenon DEF MainServerStart, MainSignal, MainServerStop
<1>6. CASE UNCHANGED <<main, coreVars>>
  BY <1>6, Zenon DEF HaltInv, coreVars
<1> QED  BY <1>2, <1>3, <1>4, <1>5, <1>6, SMTT(30) DEF Next, Main

ServedInv == DaemonInv /\ ServerType /\ Books /\ HaltInv

LEMMA ServedInvariant == Spec => []ServedInv
<1>1. Init => ServedInv
  <2> SUFFICES ASSUME Init  PROVE ServedInv
    OBVIOUS
  <2>1. /\ ServerInit /\ max_sessions \in Nat \ {0}
        /\ \A c \in DOMAIN load : load[c] \in Seq(Frames)
    BY DaemonAssumption, Zenon DEF Init
  <2>2. ServerType /\ Books
    BY <2>1, ServerInitial, Zenon
  <2> QED  BY <2>2, DaemonInitial, HaltInitial, Zenon DEF ServedInv
<1>2. ServedInv /\ [Next]_vars => ServedInv'
  BY DaemonStep, BooksStep, HaltStep, Zenon DEF ServedInv
<1> QED  BY <1>1, <1>2, PTL DEF Spec

(* Every session belongs to one worker, which serves requests only while    *)
(* the session is active, and sessions, counter and workers_ stay within    *)
(* the limit, for any number of connections (handleConnection, acceptLoop,  *)
(* reserveConnection, beginHandshake, activate, close).                     *)
THEOREM SessionsOwnedCorrect == Spec => []SessionsOwned
<1>1. ASSUME ServerType, Books  PROVE SessionsOwned
  <2> DEFINE K == {c \in Conns : work[c].pc \in Counted}
  <2>1. Owners \subseteq K /\ K \subseteq workers
    BY <1>1, Zenon
       DEF Books, SessionInv, ConnInv, ConnOk, Owners, Talking, Threaded, Counted, Alive
  <2>2. IsFiniteSet(workers)
    BY <1>1, ServerAssumption, FS_Subset, Zenon DEF ServerType
  <2>3. Cardinality(K) <= Cardinality(workers) /\ IsFiniteSet(K)
    BY <2>1, <2>2, FS_Subset, Zenon
  <2>4. Cardinality(Owners) <= Cardinality(K)
    BY <2>1, <2>3, FS_Subset, Zenon
  <2>5. active_connections = Cardinality(K) /\ Cardinality(workers) <= max_sessions
    BY <1>1, Zenon DEF Books, CountInv
  <2>6. \A c \in Conns : work[c].complete /\ work[c].pc = "frames" => c \in Owners
    BY <1>1, Zenon DEF Books, SessionInv, Talking
  <2>7. /\ DOMAIN sessions = {work[c].session : c \in Owners}
        /\ \A c, d \in Owners : c # d => work[c].session # work[d].session
        /\ \A c \in Owners : sessions[work[c].session] =
                               IF work[c].complete THEN "active" ELSE "handshaking"
    BY <1>1, Zenon DEF Books, SessionInv
  <2>8. Owners = {c \in Conns : work[c].session # None}
    BY Zenon DEF Owners
  <2> HIDE DEF K
  <2> QED  BY <2>3, <2>4, <2>5, <2>6, <2>7, <2>8, ZenonT(60) DEF SessionsOwned
<1>2. ServedInv => SessionsOwned
  BY <1>1, Zenon DEF ServedInv
<1> QED  BY <1>2, ServedInvariant, PTL

(* What stop shuts down is the connection of a worker that has yet to close *)
(* it, however descriptors are reused (handleConnection, stop).             *)
THEOREM RegisteredFdsOwnedCorrect == Spec => []RegisteredFdsOwned
<1>1. ASSUME ServerType, Books  PROVE RegisteredFdsOwned
  <2> SUFFICES ASSUME NEW fd \in connection_fds
               PROVE  \E c \in workers \ done :
                        Open(c) /\ sock[c].fd = fd /\ work[c].pc \in Registered
    BY Zenon DEF RegisteredFdsOwned, Registered
  <2>1. PICK c \in Conns : work[c].pc \in Registered /\ sock[c].fd = fd
    BY <1>1, Zenon DEF Books, FdInv
  <2>2. c \in workers /\ c \notin done /\ Open(c)
    BY <1>1, <2>1, Zenon DEF Books, ConnInv, ConnOk, Open, Registered, Threaded, Counted, Alive
  <2> QED  BY <2>1, <2>2, Zenon
<1>2. ServedInv => RegisteredFdsOwned
  BY <1>1, Zenon DEF ServedInv
<1> QED  BY <1>2, ServedInvariant, PTL

(* Once the daemon has exited no thread, session, connection or socket is   *)
(* left and the provider has been shut down, whatever was going on when the *)
(* signal came (main, stop).                                                *)
THEOREM ExitLeavesNothingCorrect == Spec => []ExitLeavesNothing
<1>1. ASSUME ServedInv, main = "exit"
      PROVE  /\ workers = {} /\ active_connections = 0 /\ connection_fds = {} /\ sessions = <<>>
             /\ accept_pc \in {"none", "exited"} /\ ~bound
             /\ \A c \in Conns : /\ sock[c].state \in {"none", "closed"}
                                 /\ work[c].pc \in {"none", "finished"}
             /\ core.state = "stopped" /\ provider # "called"
  <2>1. workers = {} /\ ~bound /\ accept_pc \in {"none", "exited"}
    BY <1>1, Zenon DEF ServedInv, DaemonInv, ServerInv
  <2>2. ASSUME NEW c \in Conns
        PROVE  work[c].pc \in {"none", "finished"}
    <3>1. work[c] \in WorkRecord
      BY <1>1, Zenon DEF ServedInv, ServerType
    <3> QED  BY <1>1, <2>1, <3>1, Zenon DEF ServedInv, Books, ConnInv, ConnOk, WorkRecord, Pcs
  <2>3. admitting = None /\ backlog = <<>>
    BY <1>1, <2>1, Zenon DEF ServedInv, Books, ConnInv
  <2>4. ASSUME NEW c \in Conns
        PROVE  sock[c].state \in {"none", "closed"}
    <3>1. sock[c].state \in {"none", "backlog", "open", "closed"}
      BY <1>1, Zenon DEF ServedInv, ServerType, SockRecord
    <3>2. c \notin Queued /\ c # admitting
      BY <2>3, ServerAssumption DEF Queued
    <3>3. ConnOk(c)
      BY <1>1, Zenon DEF ServedInv, Books, ConnInv
    <3> QED  BY <2>2, <3>1, <3>2, <3>3 DEF ConnOk, Alive
  <2>5. active_connections = 0
    <3>1. {c \in Conns : work[c].pc \in Counted} = {}
      BY <2>2, Zenon DEF Counted, Alive
    <3> QED  BY <1>1, <3>1, FS_EmptySet, Zenon DEF ServedInv, Books, CountInv
  <2>6. connection_fds = {}
    <3>1. {c \in Conns : work[c].pc \in Registered} = {}
      BY <2>2, Zenon DEF Registered
    <3> QED  BY <1>1, <3>1, Zenon DEF ServedInv, Books, FdInv
  <2>7. sessions = <<>>
    <3>1. Owners = {}
      BY <1>1, <2>2, Zenon DEF ServedInv, Books, SessionInv, Owners, Talking
    <3>2. DOMAIN sessions = {} /\ sessions = [id \in DOMAIN sessions |-> sessions[id]]
      BY <1>1, <3>1, Zenon DEF ServedInv, Books, SessionInv
    <3> QED  BY <3>2, SMTT(30)
  <2> QED  BY <1>1, <2>1, <2>2, <2>4, <2>5, <2>6, <2>7, SMTT(30) DEF ServedInv, HaltInv
<1>2. ServedInv => ExitLeavesNothing
  BY <1>1, Zenon DEF ExitLeavesNothing
<1> QED  BY <1>2, ServedInvariant, PTL

=============================================================================
