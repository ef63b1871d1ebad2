------------------------------- MODULE Client -------------------------------
(***************************************************************************)
(* The client library: handles (pdcm_api.cpp), the standalone backend that  *)
(* talks to the daemon (standalone_backend.cpp, unix_socket.cpp) and the    *)
(* embedded one (embedded_backend.cpp).  Several threads use one handle;    *)
(* one of them may close it.  A step is a critical section of the handle's  *)
(* or the backend's mutex, or one write or read of the socket.              *)
(*                                                                         *)
(* What the daemon does is external: it answers requests in order, late or  *)
(* never, and may go away.  A request or answer of which only a part was    *)
(* transferred when the deadline passed is Torn.                            *)
(***************************************************************************)
EXTENDS SessionManager, ServiceCore, Sequences, FiniteSetsExt

CONSTANTS
  Threads,        \* the threads that use the handle
  Questions,      \* what they ask
  Version,        \* the question that pdcm_version_get asks
  Opens,          \* of pdcm_open: the mode, whether auto may fall back, and what
                  \* fails in the start of an embedded core
  MaxRequestId,   \* the largest request ID
  None

ASSUME ClientAssumption ==
  /\ Opens \subseteq [mode : {"standalone", "embedded", "auto", "auto_fallback"},
                      fault : Faults]
  /\ MaxRequestId \in Nat \ {0, 1} /\ None \notin Questions \cup Threads
  /\ IsFiniteSet(Threads)

VARIABLES
  options,          \* of this handle
  handle,           \* its state, or where pdcm_open and pdcm_close are
  backend,          \* handle->backend
  active_calls,     \* handle->active_calls
  call,             \* the calls of the threads
  lock,             \* who holds mutex_ of the backend
  socket,           \* socket_
  next_request_id,  \* next_request_id_
  requests,         \* sent and not yet seen by the daemon
  responses,        \* sent by the daemon and not yet read
  daemon            \* whether the daemon is there

handleVars == <<options, handle, backend, active_calls>>
wireVars == <<requests, responses, daemon>>
vars == <<handleVars, call, lock, socket, next_request_id, wireVars, max_sessions, sessionVars,
          coreVars>>

Idle == [pc |-> "idle", id |-> 0, asked |-> None, got |-> None]
Torn == [id |-> 0, asked |-> None]

Init ==
  /\ handle = "unopened" /\ backend = "none" /\ active_calls = 0
  /\ call = [t \in Threads |-> Idle]
  /\ lock = None
  /\ socket = "none" /\ next_request_id = 2
  /\ requests = <<>> /\ responses = <<>> /\ daemon \in {"up", "gone"}
  /\ max_sessions = 1 /\ SessionsInit
  /\ CoreInit
  /\ \E o \in Opens : options = o.mode /\ fault = o.fault

-----------------------------------------------------------------------------
(* pdcm_open *)

(* StandaloneBackend::start connects and says hello; if either fails it     *)
(* closes the socket.  Then auto mode may fall back.                        *)
OpenStandalone ==
  /\ handle = "unopened" /\ options # "embedded"
  /\ \/ /\ daemon = "up"
        /\ socket' = "open" /\ backend' = "standalone" /\ handle' = "open"
     \/ \E status \in {"unavailable", "timeout", "incompatible", "internal"} :
          /\ handle' = IF options = "auto_fallback" /\ status \in {"unavailable", "timeout"}
                       THEN "embedded_start" ELSE "failed"
          /\ UNCHANGED <<socket, backend>>
  /\ UNCHANGED <<options, active_calls, call, lock, next_request_id, wireVars, max_sessions,
                 sessionVars, coreVars>>

OpenEmbedded ==
  /\ handle = "unopened" /\ options = "embedded"
  /\ handle' = "embedded_start"
  /\ UNCHANGED <<options, backend, active_calls, call, lock, socket, next_request_id, wireVars,
                 max_sessions, sessionVars, coreVars>>

(* EmbeddedBackend::start, under mutex_: the core, then a session.  If it   *)
(* fails the destructor closes the backend.                                 *)
EmbeddedStart ==
  /\ handle = "embedded_start"
  /\ \/ /\ CoreStart
        /\ handle' = IF start' = "failed" THEN "embedded_failed" ELSE handle
        /\ UNCHANGED <<backend, sessionVars>>
     \/ /\ start = "done" /\ BeginHandshake
        /\ handle' = "embedded_activate"
        /\ UNCHANGED <<backend, coreVars>>
  /\ UNCHANGED <<options, active_calls, call, lock, socket, next_request_id, wireVars,
                 max_sessions>>

EmbeddedActivate ==
  /\ handle = "embedded_activate"
  /\ \E id \in DOMAIN sessions : Activate(id)
  /\ handle' = "open" /\ backend' = "embedded"
  /\ UNCHANGED <<options, active_calls, call, lock, socket, next_request_id, wireVars,
                 max_sessions, coreVars>>

-----------------------------------------------------------------------------
(* A call: ActiveCall::acquire, the backend's operation, release.           *)

callUnchanged == <<options, handle, backend, max_sessions, sessionVars, coreVars>>

Acquire(t, question) ==
  /\ call[t].pc = "idle" /\ handle = "open"
  /\ active_calls' = active_calls + 1
  /\ call' = [call EXCEPT ![t] = [pc |-> "lock", id |-> 0, asked |-> question, got |-> None]]
  /\ UNCHANGED <<callUnchanged, lock, socket, next_request_id, wireVars>>

Lock(t) ==
  /\ call[t].pc = "lock" /\ lock = None
  /\ lock' = t
  /\ call' = [call EXCEPT ![t].pc = "in"]
  /\ UNCHANGED <<callUnchanged, active_calls, socket, next_request_id, wireVars>>

(* EmbeddedBackend::entities, capabilities, health, and version, which a    *)
(* core answers in every state.                                             *)
AskCore(t) ==
  /\ call[t].pc = "in" /\ backend = "embedded"
  /\ call' = [call EXCEPT ![t].pc = "unlock",
                         ![t].got = IF call[t].asked = Version \/ Serving
                                    THEN call[t].asked ELSE None]
  /\ UNCHANGED <<callUnchanged, active_calls, lock, socket, next_request_id, wireVars>>

(* StandaloneBackend::version keeps what the daemon said in the handshake,  *)
(* and only looks whether the connection is still there.                    *)
CheckConnected(t) ==
  /\ call[t].pc = "in" /\ backend = "standalone" /\ call[t].asked = Version
  /\ call' = [call EXCEPT ![t].pc = "unlock",
                         ![t].got = IF daemon = "up" THEN Version ELSE None]
  /\ UNCHANGED <<callUnchanged, active_calls, lock, socket, next_request_id, wireVars>>

(* next_request_id_ ends at 0.                                              *)
NextId == IF next_request_id = MaxRequestId THEN 0 ELSE next_request_id + 1

(* exchangeLocked up to writeAll.                                           *)
WriteRequest(t) ==
  /\ call[t].pc = "in" /\ backend = "standalone" /\ call[t].asked # Version
  /\ \/ /\ next_request_id = 0
        /\ call' = [call EXCEPT ![t].pc = "unlock"]
        /\ UNCHANGED <<next_request_id, requests>>
     \/ /\ next_request_id # 0 /\ daemon = "up"
        /\ requests' = Append(requests, [id |-> next_request_id, asked |-> call[t].asked])
        /\ call' = [call EXCEPT ![t].pc = "read", ![t].id = next_request_id]
        /\ next_request_id' = NextId
     \/ /\ next_request_id # 0
        /\ \/ UNCHANGED requests
           \/ daemon = "up" /\ requests' = Append(requests, Torn)
        /\ call' = [call EXCEPT ![t].pc = "unlock"]
        /\ next_request_id' = NextId
  /\ UNCHANGED <<callUnchanged, active_calls, lock, socket, responses, daemon>>

(* What is left of a response of the daemon that may be an error, or that   *)
(* entities, capabilities and health may find malformed.                    *)
Decoded(answer) == {answer, None}

(* Mutant: the request ID of the response is not compared.                  *)
ResultsAnyId(t, read) ==
  IF Len(read) = 1 /\ read[1] # Torn THEN Decoded(read[1].asked) ELSE {None}

(* exchangeLocked, of what came in: one whole response to this request.     *)
Results(t, read) ==
  IF Len(read) = 1 /\ read[1] # Torn /\ read[1].id = call[t].id
  THEN Decoded(read[1].asked) ELSE {None}

(* Mutant: the deadline is looked at only when something has come in.       *)
ExpiredReading ==
  IF responses = <<>> THEN {} ELSE {responses, <<Torn>> \o Tail(responses)}

(* What the socket may hold when the deadline passes in readOneFrame: what  *)
(* was read of an incomplete response is lost with its decoder.             *)
Expired ==
  {responses} \cup (IF responses = <<>> THEN {} ELSE {<<Torn>> \o Tail(responses)})

(* exchangeLocked from readOneFrame on.  One read may bring in n responses, *)
(* and the beginning of the one after them.                                 *)
ReadResponse(t) ==
  /\ call[t].pc = "read"
  /\ \/ /\ responses' \in Expired
        /\ call' = [call EXCEPT ![t].pc = "unlock"]
     \/ \* the daemon has closed the connection
        /\ responses = <<>> /\ daemon = "gone"
        /\ call' = [call EXCEPT ![t].pc = "unlock"]
        /\ UNCHANGED responses
     \/ \E n \in 1..Len(responses) :
          LET rest == SubSeq(responses, n + 1, Len(responses))
          IN  /\ \/ responses' = rest
                 \/ rest # <<>> /\ responses' = <<Torn>> \o Tail(rest)
              /\ \E result \in Results(t, SubSeq(responses, 1, n)) :
                   call' = [call EXCEPT ![t].pc = "unlock", ![t].got = result]
  /\ UNCHANGED <<callUnchanged, active_calls, lock, socket, next_request_id, requests, daemon>>

Unlock(t) ==
  /\ call[t].pc = "unlock"
  /\ lock' = None
  /\ call' = [call EXCEPT ![t].pc = "release"]
  /\ UNCHANGED <<callUnchanged, active_calls, socket, next_request_id, wireVars>>

Release(t) ==
  /\ call[t].pc = "release"
  /\ active_calls' = active_calls - 1
  /\ call' = [call EXCEPT ![t] = Idle]
  /\ UNCHANGED <<callUnchanged, lock, socket, next_request_id, wireVars>>

-----------------------------------------------------------------------------
(* pdcm_close *)

closeUnchanged == <<options, backend, active_calls, next_request_id, wireVars, max_sessions>>

CloseBegin(t) ==
  /\ call[t].pc = "idle" /\ handle = "open"
  /\ handle' = "closing"
  /\ call' = [call EXCEPT ![t].pc = "closing"]
  /\ UNCHANGED <<closeUnchanged, lock, socket, sessionVars, coreVars>>

(* Mutant: the backend is taken while calls are in it.                      *)
CloseAnyway(t) ==
  /\ call[t].pc = "closing" /\ handle = "closing"
  /\ handle' = "closed"
  /\ UNCHANGED <<closeUnchanged, call, lock, socket, sessionVars, coreVars>>

CloseWait(t) ==
  /\ call[t].pc = "closing" /\ handle = "closing" /\ active_calls = 0
  /\ handle' = "closed"
  /\ UNCHANGED <<closeUnchanged, call, lock, socket, sessionVars, coreVars>>

(* StandaloneBackend::close, and the handle is deleted.                     *)
CloseStandalone(t) ==
  /\ call[t].pc = "closing" /\ handle = "closed" /\ backend = "standalone" /\ lock = None
  /\ socket' = "none"
  /\ handle' = "gone"
  /\ call' = [call EXCEPT ![t] = Idle]
  /\ UNCHANGED <<closeUnchanged, lock, sessionVars, coreVars>>

(* EmbeddedBackend::close, from pdcm_close or the destructor.               *)
CloseEmbedded ==
  /\ lock = None
  /\ \/ /\ handle = "embedded_failed" \/ (handle = "closed" /\ backend = "embedded")
        /\ BeginDraining
        /\ handle' = IF handle = "closed" THEN "draining" ELSE "failed_draining"
        /\ UNCHANGED <<call, coreVars>>
     \/ /\ handle \in {"draining", "failed_draining"}
        /\ CloseAll
        /\ handle' = IF handle = "draining" THEN "stopping" ELSE "failed_stopping"
        /\ UNCHANGED <<call, coreVars>>
     \/ /\ handle \in {"stopping", "failed_stopping"}
        /\ CoreStop
        /\ handle' = IF halt' # "done" THEN handle
                     ELSE IF handle = "stopping" THEN "gone" ELSE "failed"
        /\ call' = [t \in Threads |-> IF halt' = "done" THEN Idle ELSE call[t]]
        /\ UNCHANGED sessionVars
  /\ UNCHANGED <<closeUnchanged, lock, socket>>

-----------------------------------------------------------------------------
(* The daemon, external.  A torn request runs into the next one, or makes   *)
(* the daemon close the connection.                                         *)

daemonUnchanged == <<handleVars, call, lock, socket, next_request_id, max_sessions, sessionVars,
                     coreVars>>

DaemonAnswers ==
  /\ daemon = "up" /\ socket = "open" /\ requests # <<>>
  /\ \/ /\ Head(requests) # Torn
        /\ requests' = Tail(requests)
        /\ responses' = Append(responses, Head(requests))
     \/ /\ Head(requests) = Torn /\ Len(requests) > 1
        /\ requests' = Tail(Tail(requests))
        /\ UNCHANGED responses
  /\ UNCHANGED <<daemonUnchanged, daemon>>

DaemonLeaves ==
  /\ daemon = "up" /\ socket = "open"
  /\ daemon' = "gone"
  /\ UNCHANGED <<daemonUnchanged, requests, responses>>

-----------------------------------------------------------------------------
Thread(t) ==
  \/ Lock(t) \/ AskCore(t) \/ CheckConnected(t) \/ WriteRequest(t) \/ ReadResponse(t)
  \/ Unlock(t) \/ Release(t)
  \/ CloseWait(t) \/ CloseStandalone(t)

Next ==
  \/ OpenStandalone \/ OpenEmbedded \/ EmbeddedStart \/ EmbeddedActivate \/ CloseEmbedded
  \/ \E t \in Threads : Thread(t) \/ CloseBegin(t) \/ \E q \in Questions : Acquire(t, q)
  \/ DaemonAnswers \/ DaemonLeaves

Spec == Init /\ [][Next]_vars

(* Writes and reads have a deadline, so a thread that is scheduled goes on. *)
FairSpec == Spec /\ WF_vars(CloseEmbedded) /\ \A t \in Threads : WF_vars(Thread(t))

-----------------------------------------------------------------------------
(* A call finds its backend in working order until it leaves it: the calls  *)
(* are counted exactly, one at a time is inside, and pdcm_close waits.      *)
CallsFindBackend ==
  LET calling == {t \in Threads : call[t].pc \notin {"idle", "closing"}}
  IN  /\ active_calls = Cardinality(calling)
      /\ \A t \in calling :
           /\ handle \in {"open", "closing"}
           /\ backend = "standalone" => socket = "open"
           /\ backend = "embedded" => Serving /\ {"active"} = Range(sessions)
      /\ \A t \in calling : call[t].pc \in {"in", "read", "unlock"} <=> lock = t

(* When a handle is closed, or was never made, nothing of its backend is    *)
(* left: no socket, no session, no core and no provider that still runs     *)
(* (pdcm_open, openSelectedBackend, close).                                 *)
ClosedLeavesNothing ==
  handle \in {"gone", "failed"} =>
    /\ socket = "none" /\ lock = None /\ sessions = <<>> /\ provider # "called"
    /\ core.state \in {"created", "stopped"}

-----------------------------------------------------------------------------
(* What the handle is to the threads that use it. *)

Phase ==
  CASE handle \in {"unopened", "embedded_start", "embedded_activate"} -> "unopened"
    [] handle \in {"open", "closing"} -> handle
    [] handle \in {"closed", "draining", "stopping", "gone"} -> "closed"
    [] OTHER -> "failed"

Promise == INSTANCE HandleContract
           WITH phase <- Phase,
                asked <- [t \in Threads |-> call[t].asked],
                answer <- [t \in Threads |-> call[t].got]

(* The handle keeps its contract: pdcm_open, the calls and pdcm_close take  *)
(* only the steps that HandleContract allows.                               *)
KeepsContract == Promise!Contract

(* pdcm_close returns: every call that it waits for ends by a deadline,     *)
(* hands the mutex on, and the last one wakes it.  (While the handle stays  *)
(* open a call may wait for the mutex for ever: std::mutex is not fair.)    *)
HandleCloses == Promise!Closes /\ (handle = "closing" ~> handle = "gone")

=============================================================================
