--------------------------- MODULE HandleContract ---------------------------
(***************************************************************************)
(* What a handle promises the threads that use it, whichever backend it     *)
(* has: a call that comes in while the handle is open gets the answer to    *)
(* what it asked, or none, and pdcm_close lets no new call in, waits for    *)
(* those that are in, and then ends the handle for good.                    *)
(***************************************************************************)
CONSTANTS Threads, Questions, None

VARIABLES
  phase,     \* unopened, failed, open, closing or closed
  asked,     \* what the call of a thread has asked
  answer     \* what it gets

contractVars == <<phase, asked, answer>>

ContractInit ==
  /\ phase = "unopened"
  /\ asked = [t \in Threads |-> None] /\ answer = [t \in Threads |-> None]

Open ==
  /\ phase = "unopened" /\ phase' \in {"open", "failed"}
  /\ UNCHANGED <<asked, answer>>

Call(t, question) ==
  /\ phase = "open" /\ asked[t] = None
  /\ asked' = [asked EXCEPT ![t] = question]
  /\ UNCHANGED <<phase, answer>>

Answer(t) ==
  /\ phase \in {"open", "closing"} /\ asked[t] # None /\ answer[t] = None
  /\ answer' = [answer EXCEPT ![t] = asked[t]]
  /\ UNCHANGED <<phase, asked>>

Return(t) ==
  /\ phase \in {"open", "closing"} /\ asked[t] # None
  /\ asked' = [asked EXCEPT ![t] = None] /\ answer' = [answer EXCEPT ![t] = None]
  /\ UNCHANGED phase

CloseHandle ==
  /\ phase = "open" /\ phase' = "closing"
  /\ UNCHANGED <<asked, answer>>

Closed ==
  /\ phase = "closing" /\ \A t \in Threads : asked[t] = None
  /\ phase' = "closed"
  /\ UNCHANGED <<asked, answer>>

ContractNext ==
  \/ Open \/ CloseHandle \/ Closed
  \/ \E t \in Threads : Answer(t) \/ Return(t) \/ \E q \in Questions : Call(t, q)

Contract == ContractInit /\ [][ContractNext]_contractVars

Closes == phase = "closing" ~> phase = "closed"

=============================================================================
