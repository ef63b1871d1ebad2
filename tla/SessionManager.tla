--------------------------- MODULE SessionManager ---------------------------
(***************************************************************************)
(* SessionManager (session_manager.cpp).  mutex_ is held for the whole of   *)
(* every operation, so each is one step.  The per-session quotas have no    *)
(* caller outside the tests and are left out.                               *)
(***************************************************************************)
EXTENDS Integers, FiniteSets, Functions

CONSTANT
  MaxSessionId    \* the largest SessionId

ASSUME SessionAssumption == MaxSessionId \in Nat \ {0}

VARIABLES
  max_sessions,     \* limits_.max_sessions, which never changes
  sessions,         \* sessions_: the state of each session
  next_session_id,  \* next_session_id_, 0 once they have run out
  draining          \* draining_

sessionVars == <<sessions, next_session_id, draining>>

SessionsInit == sessions = <<>> /\ next_session_id = 1 /\ draining = FALSE

MayBegin ==
  ~draining /\ Cardinality(DOMAIN sessions) < max_sessions /\ next_session_id # 0

BeginHandshake ==
  /\ MayBegin
  /\ sessions' = [id \in DOMAIN sessions \cup {next_session_id} |->
                    IF id = next_session_id THEN "handshaking" ELSE sessions[id]]
  /\ next_session_id' = IF next_session_id = MaxSessionId THEN 0 ELSE next_session_id + 1
  /\ UNCHANGED draining

MayActivate(id) == id \in DOMAIN sessions /\ ~draining /\ sessions[id] = "handshaking"

Activate(id) ==
  /\ MayActivate(id)
  /\ sessions' = [sessions EXCEPT ![id] = "active"]
  /\ UNCHANGED <<next_session_id, draining>>

BeginDraining ==
  /\ draining' = TRUE
  /\ sessions' = [id \in DOMAIN sessions |->
                    CASE sessions[id] = "active" -> "draining"
                      [] sessions[id] = "handshaking" -> "closing"
                      [] OTHER -> sessions[id]]
  /\ UNCHANGED next_session_id

Close(id) ==
  /\ sessions' = Restrict(sessions, DOMAIN sessions \ {id})
  /\ UNCHANGED <<next_session_id, draining>>

CloseAll ==
  /\ draining' = TRUE
  /\ sessions' = <<>>
  /\ UNCHANGED next_session_id

=============================================================================
