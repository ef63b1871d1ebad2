--------------------------- MODULE Client_proofs ---------------------------
(***************************************************************************)
(* A handle implements HandleContract, for any number of threads, questions *)
(* and request IDs, and whatever is late, torn or lost on the socket; a     *)
(* call finds its backend in working order; and a handle that is closed or  *)
(* was never made leaves nothing of its backend behind.                     *)
(*                                                                         *)
(* Four things have to be carried along.  An ID is never used twice, so     *)
(* whatever is on the wire under the ID of a call asks what the call asks   *)
(* (WireInv).  active_calls is the number of calls, so that pdcm_close      *)
(* goes on only when there is none (CountInv).  The mutex of the backend is *)
(* held by the one call that is in it (LockInv).  And the socket, the       *)
(* session and the core are what the handle's state says (BackendInv, with  *)
(* CoreInv for the steps of start and stop).                                *)
(***************************************************************************)
EXTENDS Client, FiniteSetTheorems, TLAPS

Steps == {"lock", "in", "read", "unlock", "release"}

HandleStates ==
  {"unopened", "open", "closing", "closed", "draining", "stopping", "gone", "failed",
   "embedded_start", "embedded_activate", "embedded_failed", "failed_draining",
   "failed_stopping"}

Message == [id : Nat, asked : Questions \cup {None}]

Record == [pc : Steps \cup {"idle", "closing"}, id : Nat,
           asked : Questions \cup {None}, got : Questions \cup {None}]

(* The variables that a call uses have their types.                         *)
ClientType ==
  /\ handle \in HandleStates
  /\ backend \in {"none", "standalone", "embedded"}
  /\ active_calls \in Nat
  /\ call \in [Threads -> Record]
  /\ next_request_id \in Nat
  /\ requests \in Seq(Message) /\ responses \in Seq(Message)

Calling == {t \in Threads : call[t].pc \in Steps}

(* A call has a question from acquire to release and an answer, to it,      *)
(* only once the backend has given one.                                     *)
CallInv ==
  \A t \in Threads :
    /\ call[t].asked # None <=> t \in Calling
    /\ call[t].got # None => call[t].pc \in {"unlock", "release"} /\ call[t].got = call[t].asked

(* The IDs that were used.                                                  *)
Used == {i \in 2..MaxRequestId : next_request_id = 0 \/ i < next_request_id}

Sound(m) ==
  \/ m = Torn
  \/ /\ m.id \in Used
     /\ \A t \in Threads : call[t].pc = "read" /\ call[t].id = m.id => m.asked = call[t].asked

Elems(q) == {q[i] : i \in 1..Len(q)}
Wire == Elems(requests) \cup Elems(responses)

WireInv ==
  /\ next_request_id \in {0} \cup 2..MaxRequestId
  /\ \A t \in Threads : call[t].pc = "read" => call[t].id \in Used
  /\ \A m \in Wire : Sound(m)

CountInv ==
  /\ active_calls = Cardinality(Calling)
  /\ handle \notin {"open", "closing"} => Calling = {}

ClientInv == ClientType /\ CallInv /\ WireInv /\ CountInv

-----------------------------------------------------------------------------
(* What the operations on the two queues of the socket leave in them.       *)

LEMMA ElemsTail ==
  ASSUME NEW S, NEW q \in Seq(S), q # <<>>
  PROVE  Tail(q) \in Seq(S) /\ Elems(Tail(q)) \subseteq Elems(q) /\ Head(q) \in Elems(q)
<1>1. Len(q) \in Nat /\ Len(q) >= 1 /\ Len(Tail(q)) = Len(q) - 1 /\ Tail(q) \in Seq(S)
  OBVIOUS
<1>2. \A i \in 1..Len(Tail(q)) : Tail(q)[i] = q[i + 1] /\ i + 1 \in 1..Len(q)
  BY <1>1
<1>3. Head(q) = q[1]
  OBVIOUS
<1> QED  BY <1>1, <1>2, <1>3, SMTT(30) DEF Elems

LEMMA TwoOrMore ==
  ASSUME NEW S, NEW q \in Seq(S), Len(q) > 1
  PROVE  Tail(q) # <<>>
<1>1. Len(q) \in Nat /\ Len(Tail(q)) = Len(q) - 1 /\ Len(<<>>) = 0
  OBVIOUS
<1>2. PICK n \in Nat : n = Len(Tail(q)) /\ n # 0
  BY <1>1
<1> QED  BY <1>1, <1>2, Zenon

LEMMA ElemsAppend ==
  ASSUME NEW S, NEW q \in Seq(S), NEW m \in S
  PROVE  Append(q, m) \in Seq(S) /\ Elems(Append(q, m)) \subseteq Elems(q) \cup {m}
<1>1. Len(Append(q, m)) = Len(q) + 1 /\ Len(q) \in Nat
  OBVIOUS
<1>2. \A i \in 1..Len(q) + 1 : Append(q, m)[i] = m \/ (i \in 1..Len(q) /\ Append(q, m)[i] = q[i])
  BY <1>1
<1> QED  BY <1>1, <1>2, SMTT(30) DEF Elems

LEMMA ElemsPut ==
  ASSUME NEW S, NEW q \in Seq(S), NEW m \in S
  PROVE  <<m>> \o q \in Seq(S) /\ Elems(<<m>> \o q) \subseteq Elems(q) \cup {m}
<1>1. <<m>> \in Seq(S) /\ Len(<<m>>) = 1 /\ <<m>>[1] = m
  OBVIOUS
<1>2. <<m>> \o q \in Seq(S) /\ Len(<<m>> \o q) = 1 + Len(q) /\ Len(q) \in Nat
  BY <1>1
<1>3. \A i \in 1..(1 + Len(q)) :
        (<<m>> \o q)[i] = IF i <= 1 THEN <<m>>[i] ELSE q[i - 1]
  BY <1>1, <1>2, SMTT(30)
<1> QED  BY <1>1, <1>2, <1>3, SMTT(30) DEF Elems

LEMMA ElemsRest ==
  ASSUME NEW S, NEW q \in Seq(S), NEW n \in 1..Len(q)
  PROVE  /\ SubSeq(q, n + 1, Len(q)) \in Seq(S)
         /\ Elems(SubSeq(q, n + 1, Len(q))) \subseteq Elems(q)
<1> DEFINE r == SubSeq(q, n + 1, Len(q))
<1>1. Len(q) \in Nat /\ n \in Nat /\ n >= 1 /\ n <= Len(q)
  OBVIOUS
<1>2. r \in Seq(S) /\ Len(r) = Len(q) - n
  BY <1>1
<1>3. \A i \in 1..Len(r) : r[i] = q[n + i] /\ n + i \in 1..Len(q)
  BY <1>1, <1>2, SMTT(30)
<1> QED  BY <1>2, <1>3, Zenon DEF Elems

-----------------------------------------------------------------------------
(* The invariants under the ways in which a step may change a call.         *)

(* No ID comes into use, and nothing comes onto the wire.                   *)
LEMMA WireKept ==
  ASSUME WireInv, next_request_id' = next_request_id, Wire' \subseteq Wire \cup {Torn},
         \A t \in Threads : call'[t].pc = "read" =>
           call[t].pc = "read" /\ call'[t].id = call[t].id /\ call'[t].asked = call[t].asked
  PROVE  WireInv'
<1>1. Used' = Used
  BY Zenon DEF Used
<1>2. Torn' = Torn
  BY Zenon DEF Torn
<1>3. \A m \in Wire' : Sound(m)'
  BY <1>1, <1>2, ZenonT(60) DEF WireInv, Sound
<1> QED  BY <1>1, <1>3, Zenon DEF WireInv

(* A call goes on: it stays a call and keeps its question.                  *)
LEMMA CallGoesOn ==
  ASSUME ClientType, CallInv, CountInv, NEW t \in Calling,
         call' \in [Threads -> Record], \A u \in Threads \ {t} : call'[u] = call[u],
         call'[t].pc \in Steps, call'[t].asked = call[t].asked,
         call'[t].got # None => call'[t].pc \in {"unlock", "release"}
                                /\ call'[t].got = call'[t].asked,
         active_calls' = active_calls, handle' = handle
  PROVE  CallInv' /\ CountInv'
<1>1. Calling' = Calling
  BY Zenon DEF Calling
<1>2. CallInv'
  BY <1>1 DEF CallInv, Calling
<1> QED  BY <1>1, <1>2, Zenon DEF CountInv

(* Threads that are not in a call change between idle and closing.          *)
LEMMA OthersMove ==
  ASSUME CallInv, CountInv, Calling' = Calling, active_calls' = active_calls,
         \A t \in Threads : call'[t] # call[t] => call'[t].asked = None /\ call'[t].got = None,
         \A t \in Calling : call'[t] = call[t],
         handle' \notin {"open", "closing"} => Calling = {}
  PROVE  CallInv' /\ CountInv'
<1>1. CallInv'
  BY DEF CallInv, Calling
<1>2. CountInv'
  BY Zenon DEF CountInv
<1> QED  BY <1>1, <1>2, Zenon

LEMMA CallingFinite == IsFiniteSet(Calling) /\ Calling \subseteq Threads
BY ClientAssumption, FS_Subset, Zenon DEF Calling

LEMMA NoneIsNot == None \notin Questions
BY ClientAssumption, Zenon

-----------------------------------------------------------------------------
(* The invariant holds at first, and every step keeps it.                   *)

LEMMA ClientInitial == Init => ClientInv
<1> SUFFICES ASSUME Init  PROVE ClientInv
  OBVIOUS
<1>1. call \in [Threads -> Record] /\ \A t \in Threads : call[t] = Idle
  BY Zenon DEF Init, Idle, Record
<1>2. ClientType
  BY <1>1 DEF Init, ClientType, HandleStates
<1>3. Calling = {}
  BY <1>1 DEF Calling, Idle, Steps
<1>4. CallInv
  BY <1>1, <1>3 DEF CallInv, Idle
<1>5. WireInv
  BY <1>1, ClientAssumption, SMTT(30) DEF Init, WireInv, Wire, Elems, Idle
<1>6. CountInv
  BY <1>3, FS_EmptySet, SMTT(30) DEF Init, CountInv
<1> QED  BY <1>2, <1>4, <1>5, <1>6, Zenon DEF ClientInv

(* pdcm_open, and the daemon that leaves: there is no call, or it is not    *)
(* affected.                                                                *)
LEMMA OpenSteps ==
  ASSUME ClientInv,
         OpenStandalone \/ OpenEmbedded \/ EmbeddedStart \/ EmbeddedActivate \/ DaemonLeaves
  PROVE  ClientInv'
<1>1. UNCHANGED <<call, requests, responses, next_request_id, active_calls>>
  BY Zenon DEF OpenStandalone, OpenEmbedded, EmbeddedStart, EmbeddedActivate, DaemonLeaves,
               wireVars, daemonUnchanged, handleVars
<1>2. /\ handle' \in HandleStates /\ backend' \in {"none", "standalone", "embedded"}
      /\ handle' = handle \/ handle \notin {"open", "closing"}
  BY Zenon DEF ClientInv, ClientType, HandleStates, OpenStandalone, OpenEmbedded, EmbeddedStart,
         EmbeddedActivate, DaemonLeaves, daemonUnchanged, handleVars
<1>3. ClientType'
  BY <1>1, <1>2, Zenon DEF ClientInv, ClientType
<1>4. Calling' = Calling /\ Wire' = Wire
  BY <1>1, Zenon DEF Calling, Wire
<1>5. handle' \notin {"open", "closing"} => Calling = {}
  BY <1>2, Zenon DEF ClientInv, CountInv
<1>6. CallInv' /\ CountInv'
  BY <1>1, <1>4, <1>5, OthersMove, Zenon DEF ClientInv
<1>7. WireInv'
  BY <1>1, <1>4, WireKept, Zenon DEF ClientInv
<1> QED  BY <1>3, <1>6, <1>7, Zenon DEF ClientInv

LEMMA AcquireStep ==
  ASSUME ClientInv, NEW t \in Threads, NEW q \in Questions, Acquire(t, q)
  PROVE  ClientInv'
<1>1. /\ call' = [call EXCEPT ![t] = [pc |-> "lock", id |-> 0, asked |-> q, got |-> None]]
      /\ call \in [Threads -> Record]
  BY Zenon DEF Acquire, ClientInv, ClientType
<1>2. /\ call' \in [Threads -> Record]
      /\ call'[t] = [pc |-> "lock", id |-> 0, asked |-> q, got |-> None]
      /\ \A u \in Threads \ {t} : call'[u] = call[u]
  BY <1>1, Zenon DEF Record, Steps
<1>3. UNCHANGED <<handle, backend, requests, responses, next_request_id>> /\ Wire' = Wire
  BY Zenon DEF Acquire, callUnchanged, wireVars, Wire
<1>4. t \notin Calling /\ Calling' = Calling \cup {t}
  BY <1>2 DEF Acquire, Calling, Steps
<1>5. active_calls' = Cardinality(Calling') /\ active_calls' \in Nat
  <2>1. Cardinality(Calling \cup {t}) = Cardinality(Calling) + 1
    BY <1>4, CallingFinite, FS_AddElement, Zenon
  <2> QED  BY <1>4, <2>1, SMTT(30) DEF Acquire, ClientInv, ClientType, CountInv
<1>6. ClientType'
  BY <1>2, <1>3, <1>5, Zenon DEF ClientInv, ClientType
<1>7. CallInv'
  BY <1>2, <1>4, NoneIsNot, SMTT(30) DEF ClientInv, CallInv
<1>8. WireInv'
  BY <1>2, <1>3, WireKept DEF ClientInv
<1>9. CountInv'
  BY <1>5, <1>3, Zenon DEF CountInv, Acquire
<1> QED  BY <1>6, <1>7, <1>8, <1>9, Zenon DEF ClientInv

(* What a call that gets an answer, or none, leaves of the calls.           *)
LEMMA AnswerSet ==
  ASSUME call \in [Threads -> Record], NEW t \in Threads, call[t].asked \in Questions,
         NEW g \in {None, call[t].asked},
         call' = [call EXCEPT ![t].pc = "unlock", ![t].got = g]
  PROVE  /\ call' \in [Threads -> Record] /\ \A u \in Threads \ {t} : call'[u] = call[u]
         /\ call'[t].pc = "unlock" /\ call'[t].asked = call[t].asked /\ call'[t].got = g
<1> DEFINE e == [call[t] EXCEPT !.pc = "unlock", !.got = g]
<1>1. e \in Record /\ e.pc = "unlock" /\ e.asked = call[t].asked /\ e.got = g
  BY Zenon DEF Record, Steps
<1>2. call' = [call EXCEPT ![t] = e]
  BY Zenon
<1> HIDE DEF e
<1> QED  BY <1>1, <1>2, Zenon

(* The steps within a call that leave the wire alone.                       *)
LEMMA QuietSteps ==
  ASSUME ClientInv, NEW t \in Threads,
         Lock(t) \/ AskCore(t) \/ CheckConnected(t) \/ Unlock(t)
  PROVE  ClientInv'
<1>1. /\ UNCHANGED <<handle, backend, active_calls, requests, responses, next_request_id>>
      /\ Wire' = Wire
  BY Zenon DEF Lock, AskCore, CheckConnected, Unlock, callUnchanged, wireVars, Wire
<1>2. t \in Calling /\ call \in [Threads -> Record]
  BY Zenon DEF Lock, AskCore, CheckConnected, Unlock, Calling, Steps, ClientInv, ClientType
<1>3. /\ call[t].asked \in Questions
      /\ call[t].got # None => call[t].pc \in {"unlock", "release"} /\ call[t].got = call[t].asked
  BY <1>2, NoneIsNot, Zenon DEF ClientInv, CallInv, Record
<1>4. /\ call' \in [Threads -> Record] /\ \A u \in Threads \ {t} : call'[u] = call[u]
      /\ call'[t].pc \in {"in", "unlock", "release"} /\ call'[t].asked = call[t].asked
      /\ call'[t].got # None =>
           call'[t].pc \in {"unlock", "release"} /\ call'[t].got = call'[t].asked
  <2>1. CASE Lock(t)
    BY <1>2, <1>3, <2>1, SMTT(30) DEF Lock, Record, Steps
  <2>2. CASE AskCore(t)
    <3>1. PICK g \in {None, call[t].asked} :
            call' = [call EXCEPT ![t].pc = "unlock", ![t].got = g]
      BY <2>2, Zenon DEF AskCore
    <3> QED  BY <1>2, <1>3, <3>1, AnswerSet, Zenon
  <2>3. CASE CheckConnected(t)
    <3>1. PICK g \in {None, call[t].asked} :
            call' = [call EXCEPT ![t].pc = "unlock", ![t].got = g]
      BY <2>3, Zenon DEF CheckConnected
    <3> QED  BY <1>2, <1>3, <3>1, AnswerSet, Zenon
  <2>4. CASE Unlock(t)
    BY <1>2, <1>3, <2>4 DEF Unlock, Record, Steps
  <2> QED  BY <2>1, <2>2, <2>3, <2>4
<1>5. ClientType'
  BY <1>1, <1>4, Zenon DEF ClientInv, ClientType
<1>6. CallInv' /\ CountInv'
  BY <1>1, <1>2, <1>4, CallGoesOn, Zenon DEF ClientInv, Steps
<1>7. WireInv'
  BY <1>1, <1>4, WireKept DEF ClientInv
<1> QED  BY <1>5, <1>6, <1>7, Zenon DEF ClientInv

LEMMA WriteStep ==
  ASSUME ClientInv, NEW t \in Threads, WriteRequest(t)
  PROVE  ClientInv'
<1>1. UNCHANGED <<handle, backend, active_calls, responses>>
  BY Zenon DEF WriteRequest, callUnchanged
<1>2. /\ t \in Calling /\ call[t].pc = "in" /\ call \in [Threads -> Record]
      /\ call[t].asked \in Questions /\ call[t].got = None
      /\ next_request_id \in {0} \cup 2..MaxRequestId /\ MaxRequestId \in Nat \ {0, 1}
      /\ requests \in Seq(Message)
  BY NoneIsNot, ClientAssumption, Zenon
     DEF WriteRequest, Calling, Steps, ClientInv, ClientType, CallInv, WireInv, Record
<1>3. /\ call' \in [Threads -> Record] /\ \A u \in Threads \ {t} : call'[u] = call[u]
      /\ call'[t].pc \in {"read", "unlock"} /\ call'[t].asked = call[t].asked
      /\ call'[t].got = None
  <2>1. CASE call' = [call EXCEPT ![t].pc = "unlock"]
    BY <1>2, <2>1, SMTT(30) DEF Record, Steps
  <2>2. CASE call' = [call EXCEPT ![t].pc = "read", ![t].id = next_request_id]
    <3>1. next_request_id \in Nat
      BY Zenon DEF ClientInv, ClientType
    <3> QED  BY <1>2, <2>2, <3>1, ZenonT(60) DEF Record, Steps
  <2> QED  BY <2>1, <2>2, Zenon DEF WriteRequest
<1>4. CallInv' /\ CountInv'
  BY <1>1, <1>2, <1>3, CallGoesOn, Zenon DEF ClientInv, Steps
<1>5. Torn \in Message
  BY Zenon DEF Torn, Message
<1>6. ClientType' /\ WireInv'
  <2>1. CASE UNCHANGED <<next_request_id, requests>> /\ call' = [call EXCEPT ![t].pc = "unlock"]
    <3>1. Wire' = Wire
      BY <1>1, <2>1, Zenon DEF Wire
    <3>2. call'[t].pc = "unlock"
      BY <1>2, <2>1
    <3> QED  BY <1>1, <1>3, <2>1, <3>1, <3>2, WireKept, Zenon DEF ClientInv, ClientType
  <2>2. CASE next_request_id # 0 /\ next_request_id' = NextId
    <3>1. /\ next_request_id \in 2..MaxRequestId /\ next_request_id' \in {0} \cup 2..MaxRequestId
          /\ Used \cup {next_request_id} = Used' /\ next_request_id \notin Used
          /\ next_request_id' \in Nat
      BY <1>2, <2>2 DEF NextId, Used
    <3>2. ASSUME NEW m \in Wire, m # Torn
          PROVE  m.id \in Used /\ \A u \in Threads : call[u].pc = "read" /\ call[u].id = m.id
                                                     => m.asked = call[u].asked
      BY <3>2, Zenon DEF ClientInv, WireInv, Sound
    <3>3. \A u \in Threads \ {t} : call'[u].pc = "read" => call'[u].id \in Used
      BY <1>3, Zenon DEF ClientInv, WireInv
    <3>4. CASE requests' = Append(requests, [id |-> next_request_id, asked |-> call[t].asked])
               /\ call' = [call EXCEPT ![t].pc = "read", ![t].id = next_request_id]
      <4>0. PICK m : m = [id |-> next_request_id, asked |-> call[t].asked]
        BY Zenon
      <4>1. m \in Message /\ m.id = next_request_id /\ m.asked = call[t].asked
        BY <1>2, <3>1, <4>0 DEF Message
      <4>2. requests' \in Seq(Message) /\ Wire' \subseteq Wire \cup {m}
        <5>1. requests' = Append(requests, m)
          BY <3>4, <4>0, Zenon
        <5>2. requests' \in Seq(Message) /\ Elems(requests') \subseteq Elems(requests) \cup {m}
          BY <1>2, <4>1, <5>1, ElemsAppend
        <5> QED  BY <1>1, <5>2, Zenon DEF Wire
      <4>3. call'[t].id = next_request_id /\ call'[t].asked = call[t].asked
        BY <1>2, <3>4
      <4>4. \A u \in Threads : call'[u].pc = "read" => call'[u].id \in Used'
        BY <3>1, <3>3, <4>3, Zenon
      <4>5. Sound(m)'
        BY <1>3, <3>1, <3>3, <4>1, <4>3, SMTT(30) DEF Sound
      <4>6. \A n \in Wire \cup {Torn} : Sound(n)'
        BY <1>3, <3>1, <3>2, <4>3 DEF Sound, Torn
      <4> QED  BY <1>1, <1>3, <3>1, <4>2, <4>4, <4>5, <4>6, Zenon DEF ClientInv, ClientType, WireInv
    <3>5. CASE (requests' = requests \/ requests' = Append(requests, Torn))
               /\ call' = [call EXCEPT ![t].pc = "unlock"]
      <4>1. requests' \in Seq(Message) /\ Wire' \subseteq Wire \cup {Torn}
        <5>1. requests' \in Seq(Message) /\ Elems(requests') \subseteq Elems(requests) \cup {Torn}
          <6>1. CASE requests' = requests
            BY <1>2, <6>1, Zenon
          <6>2. CASE requests' = Append(requests, Torn)
            BY <1>2, <1>5, <6>2, ElemsAppend
          <6> QED  BY <3>5, <6>1, <6>2, Zenon
        <5> QED  BY <1>1, <5>1, Zenon DEF Wire
      <4>2. call'[t].pc = "unlock"
        BY <1>2, <3>5
      <4>3. \A u \in Threads : call'[u].pc = "read" => call'[u].id \in Used'
        BY <3>1, <3>3, <4>2
      <4>4. \A n \in Wire \cup {Torn} : Sound(n)'
        BY <1>3, <3>1, <3>2, <4>2 DEF Sound, Torn
      <4> QED  BY <1>1, <1>3, <3>1, <4>1, <4>3, <4>4, Zenon DEF ClientInv, ClientType, WireInv
    <3> QED  BY <2>2, <3>4, <3>5, Zenon DEF WriteRequest
  <2> QED  BY <2>1, <2>2, Zenon DEF WriteRequest
<1> QED  BY <1>4, <1>6, Zenon DEF ClientInv

LEMMA ReadStep ==
  ASSUME ClientInv, NEW t \in Threads, ReadResponse(t)
  PROVE  ClientInv'
<1>1. UNCHANGED <<handle, backend, active_calls, requests, next_request_id>>
  BY Zenon DEF ReadResponse, callUnchanged
<1>2. /\ t \in Calling /\ call[t].pc = "read" /\ call \in [Threads -> Record]
      /\ call[t].asked \in Questions /\ call[t].got = None
      /\ responses \in Seq(Message)
  BY NoneIsNot, Zenon DEF ReadResponse, Calling, Steps, ClientInv, ClientType, CallInv, Record
<1>3. Torn \in Message
  BY Zenon DEF Torn, Message
<1>4. responses' \in Seq(Message) /\ Wire' \subseteq Wire \cup {Torn}
  <2> DEFINE Ok(q) == q \in Seq(Message) /\ Elems(q) \subseteq Elems(responses) \cup {Torn}
  <2>1. ASSUME NEW q \in Seq(Message), q # <<>>, Elems(q) \subseteq Elems(responses)
        PROVE  Ok(<<Torn>> \o Tail(q))
    BY <1>3, <2>1, ElemsTail, ElemsPut, Zenon
  <2>2. Ok(responses)
    BY <1>2, Zenon
  <2>3. \A n \in 1..Len(responses) :
          /\ SubSeq(responses, n + 1, Len(responses)) \in Seq(Message)
          /\ Elems(SubSeq(responses, n + 1, Len(responses))) \subseteq Elems(responses)
    BY <1>2, ElemsRest, Zenon
  <2>4. Ok(responses')
    <3>1. CASE responses' \in Expired
      BY <1>2, <2>1, <2>2, <3>1, Zenon DEF Expired
    <3>2. CASE UNCHANGED responses
      BY <2>2, <3>2, Zenon
    <3>3. ASSUME NEW n \in 1..Len(responses),
                 LET rest == SubSeq(responses, n + 1, Len(responses))
                 IN  responses' = rest \/ (rest # <<>> /\ responses' = <<Torn>> \o Tail(rest))
          PROVE  Ok(responses')
      BY <2>1, <2>3, <3>3, Zenon
    <3> QED  BY <3>1, <3>2, <3>3, Zenon DEF ReadResponse
  <2> QED  BY <1>1, <2>4, Zenon DEF Wire
<1>5. ASSUME NEW n \in 1..Len(responses), NEW r \in Results(t, SubSeq(responses, 1, n))
      PROVE  r \in {None, call[t].asked}
  <2> DEFINE q == SubSeq(responses, 1, n)
  <2>1. SUFFICES ASSUME Len(q) = 1, q[1] # Torn, q[1].id = call[t].id
                 PROVE  q[1].asked = call[t].asked
    BY <1>5, Zenon DEF Results, Decoded
  <2>2. n = 1 /\ q[1] = responses[1] /\ responses[1] \in Wire
    BY <1>2, <2>1 DEF Wire, Elems
  <2>3. Sound(responses[1])
    BY <2>2, Zenon DEF ClientInv, WireInv
  <2> QED  BY <1>2, <2>1, <2>2, <2>3, Zenon DEF Sound
<1>6. /\ call' \in [Threads -> Record] /\ \A u \in Threads \ {t} : call'[u] = call[u]
      /\ call'[t].pc = "unlock" /\ call'[t].asked = call[t].asked
      /\ call'[t].got \in {None, call[t].asked}
  <2>1. CASE call' = [call EXCEPT ![t].pc = "unlock"]
    BY <1>2, <2>1, SMTT(30) DEF Record, Steps
  <2>2. ASSUME NEW n \in 1..Len(responses),
               NEW r \in Results(t, SubSeq(responses, 1, n)),
               call' = [call EXCEPT ![t].pc = "unlock", ![t].got = r]
        PROVE  /\ call' \in [Threads -> Record] /\ \A u \in Threads \ {t} : call'[u] = call[u]
               /\ call'[t].pc = "unlock" /\ call'[t].asked = call[t].asked
               /\ call'[t].got \in {None, call[t].asked}
    <3>1. r \in {None, call[t].asked}
      BY <1>5, <2>2, Zenon
    <3> QED  BY <1>2, <2>2, <3>1, AnswerSet, Zenon
  <2> QED  BY <2>1, <2>2, Zenon DEF ReadResponse
<1>7. CallInv' /\ CountInv'
  BY <1>1, <1>2, <1>6, CallGoesOn DEF ClientInv, Steps
<1>8. WireInv'
  BY <1>1, <1>4, <1>6, WireKept, Zenon DEF ClientInv
<1>9. ClientType'
  BY <1>1, <1>4, <1>6, Zenon DEF ClientInv, ClientType
<1> QED  BY <1>7, <1>8, <1>9, Zenon DEF ClientInv

LEMMA ReleaseStep ==
  ASSUME ClientInv, NEW t \in Threads, Release(t)
  PROVE  ClientInv'
<1>1. UNCHANGED <<handle, backend, requests, responses, next_request_id>> /\ Wire' = Wire
  BY Zenon DEF Release, callUnchanged, wireVars, Wire
<1>2. /\ call' \in [Threads -> Record] /\ call'[t] = Idle
      /\ \A u \in Threads \ {t} : call'[u] = call[u]
  BY Zenon DEF Release, ClientInv, ClientType, Record, Idle
<1>3. t \in Calling /\ Calling' = Calling \ {t}
  BY <1>2, Zenon DEF Release, Calling, Steps, Idle
<1>4. active_calls' = Cardinality(Calling') /\ active_calls' \in Nat
  <2>1. Cardinality(Calling \ {t}) = Cardinality(Calling) - 1
    BY <1>3, CallingFinite, FS_RemoveElement, Zenon
  <2>2. Cardinality(Calling \ {t}) \in Nat
    BY CallingFinite, FS_Subset, FS_CardinalityType
  <2> QED  BY <1>3, <2>1, <2>2 DEF Release, ClientInv, ClientType, CountInv
<1>5. CallInv'
  BY <1>2, <1>3 DEF ClientInv, CallInv, Idle
<1>6. CountInv'
  BY <1>1, <1>3, <1>4, Zenon DEF ClientInv, CountInv
<1>7. WireInv'
  BY <1>1, <1>2, WireKept DEF ClientInv, Idle
<1>8. ClientType'
  BY <1>1, <1>2, <1>4 DEF ClientInv, ClientType
<1> QED  BY <1>5, <1>6, <1>7, <1>8 DEF ClientInv

(* pdcm_close: CloseWait goes on only when no call is left.                 *)
LEMMA CloseSteps ==
  ASSUME ClientInv, NEW t \in Threads, CloseBegin(t) \/ CloseWait(t) \/ CloseStandalone(t)
  PROVE  ClientInv'
<1>1. UNCHANGED <<backend, active_calls, requests, responses, next_request_id>> /\ Wire' = Wire
  BY Zenon DEF CloseBegin, CloseWait, CloseStandalone, closeUnchanged, wireVars, Wire
<1>2. /\ call \in [Threads -> Record] /\ t \notin Calling
      /\ call[t].asked = None /\ call[t].got = None
  BY Zenon DEF CloseBegin, CloseWait, CloseStandalone, ClientInv, ClientType, CallInv, Calling,
               Steps
<1>3. /\ call' \in [Threads -> Record] /\ \A u \in Threads \ {t} : call'[u] = call[u]
      /\ call'[t].pc \in {"idle", "closing"} /\ call'[t].asked = None /\ call'[t].got = None
  <2>1. CASE CloseBegin(t)
    BY <1>2, <2>1 DEF CloseBegin, Record
  <2>2. CASE CloseWait(t)
    BY <1>2, <2>2, Zenon DEF CloseWait
  <2>3. CASE CloseStandalone(t)
    BY <1>2, <2>3, Zenon DEF CloseStandalone, Record, Idle
  <2> QED  BY <2>1, <2>2, <2>3, Zenon
<1>4. Calling' = Calling
  BY <1>2, <1>3, Zenon DEF Calling, Steps
<1>5. /\ handle' \in HandleStates
      /\ handle' \notin {"open", "closing"} => Calling = {}
  <2>1. CASE CloseBegin(t)
    BY <2>1, Zenon DEF CloseBegin, HandleStates
  <2>2. CASE CloseWait(t)
    <3>1. Cardinality(Calling) = 0
      BY <2>2, Zenon DEF CloseWait, ClientInv, CountInv
    <3>2. Calling = {}
      BY <3>1, CallingFinite, FS_EmptySet, Zenon
    <3> QED  BY <2>2, <3>2, Zenon DEF CloseWait, HandleStates
  <2>3. CASE CloseStandalone(t)
    BY <2>3, Zenon DEF CloseStandalone, HandleStates, ClientInv, CountInv
  <2> QED  BY <2>1, <2>2, <2>3
<1>6. CallInv' /\ CountInv'
  <2>1. \A u \in Threads : call'[u] # call[u] => call'[u].asked = None /\ call'[u].got = None
    BY <1>3, Zenon
  <2>2. \A u \in Calling : call'[u] = call[u]
    BY <1>2, <1>3, Zenon DEF Calling
  <2> QED  BY <1>1, <1>4, <1>5, <2>1, <2>2, OthersMove DEF ClientInv
<1>7. WireInv'
  BY <1>1, <1>3, WireKept DEF ClientInv
<1>8. ClientType'
  BY <1>1, <1>3, <1>5, Zenon DEF ClientInv, ClientType
<1> QED  BY <1>6, <1>7, <1>8 DEF ClientInv

LEMMA CloseEmbeddedStep ==
  ASSUME ClientInv, CloseEmbedded
  PROVE  ClientInv'
<1>1. UNCHANGED <<backend, active_calls, requests, responses, next_request_id>> /\ Wire' = Wire
  BY Zenon DEF CloseEmbedded, closeUnchanged, wireVars, Wire
<1>2. handle' \in HandleStates /\ Calling = {}
  BY Zenon DEF CloseEmbedded, HandleStates, ClientInv, CountInv
<1>3. /\ call \in [Threads -> Record] /\ call' \in [Threads -> Record]
      /\ \A u \in Threads : call'[u] = call[u] \/ call'[u] = Idle
  BY DEF CloseEmbedded, ClientInv, ClientType, Record, Idle
<1>4. Calling' = Calling
  BY <1>2, <1>3 DEF Calling, Steps, Idle
<1>5. CallInv' /\ CountInv'
  <2>1. \A u \in Threads : call'[u] # call[u] => call'[u].asked = None /\ call'[u].got = None
    BY <1>3 DEF Idle
  <2> QED  BY <1>1, <1>2, <1>4, <2>1, OthersMove DEF ClientInv
<1>6. WireInv'
  BY <1>1, <1>3, WireKept DEF ClientInv, Idle
<1>7. ClientType'
  BY <1>1, <1>2, <1>3, Zenon DEF ClientInv, ClientType
<1> QED  BY <1>5, <1>6, <1>7, Zenon DEF ClientInv

LEMMA DaemonStep ==
  ASSUME ClientInv, DaemonAnswers
  PROVE  ClientInv'
<1>1. UNCHANGED <<handle, backend, active_calls, call, next_request_id>>
  BY Zenon DEF DaemonAnswers, daemonUnchanged, handleVars
<1>2. /\ requests \in Seq(Message) /\ responses \in Seq(Message) /\ requests # <<>>
      /\ Tail(requests) \in Seq(Message) /\ Elems(Tail(requests)) \subseteq Elems(requests)
      /\ Head(requests) \in Elems(requests) /\ Head(requests) \in Message
  BY ElemsTail DEF DaemonAnswers, ClientInv, ClientType
<1>3. requests' \in Seq(Message) /\ responses' \in Seq(Message) /\ Wire' \subseteq Wire
  <2>1. CASE requests' = Tail(requests) /\ responses' = Append(responses, Head(requests))
    <3>1. /\ responses' \in Seq(Message)
          /\ Elems(responses') \subseteq Elems(responses) \cup {Head(requests)}
      BY <1>2, <2>1, ElemsAppend, Zenon
    <3> QED  BY <1>2, <2>1, <3>1, Zenon DEF Wire
  <2>2. CASE Len(requests) > 1 /\ requests' = Tail(Tail(requests)) /\ UNCHANGED responses
    <3>1. Tail(requests) # <<>>
      BY <1>2, <2>2, TwoOrMore, Zenon
    <3>2. /\ Tail(Tail(requests)) \in Seq(Message)
          /\ Elems(Tail(Tail(requests))) \subseteq Elems(Tail(requests))
      BY <1>2, <3>1, ElemsTail, Zenon
    <3> QED  BY <1>2, <2>2, <3>2, Zenon DEF Wire
  <2> QED  BY <2>1, <2>2, Zenon DEF DaemonAnswers
<1>4. Calling' = Calling
  BY <1>1, Zenon DEF Calling
<1>5. CallInv' /\ CountInv'
  BY <1>1, <1>4, Zenon DEF ClientInv, CallInv, CountInv
<1>6. WireInv'
  BY <1>1, <1>3, WireKept, Zenon DEF ClientInv
<1>7. ClientType'
  BY <1>1, <1>3, Zenon DEF ClientInv, ClientType
<1> QED  BY <1>5, <1>6, <1>7, Zenon DEF ClientInv

LEMMA ClientStep == ClientInv /\ [Next]_vars => ClientInv'
<1> SUFFICES ASSUME ClientInv, [Next]_vars  PROVE ClientInv'
  OBVIOUS
<1>1. CASE OpenStandalone \/ OpenEmbedded \/ EmbeddedStart \/ EmbeddedActivate \/ DaemonLeaves
  BY <1>1, OpenSteps, Zenon
<1>2. CASE CloseEmbedded
  BY <1>2, CloseEmbeddedStep, Zenon
<1>3. CASE DaemonAnswers
  BY <1>3, DaemonStep, Zenon
<1>4. ASSUME NEW t \in Threads, Thread(t)
      PROVE  ClientInv'
  BY <1>4, QuietSteps, WriteStep, ReadStep, ReleaseStep, CloseSteps DEF Thread
<1>5. ASSUME NEW t \in Threads, CloseBegin(t)
      PROVE  ClientInv'
  BY <1>5, CloseSteps, Zenon
<1>6. ASSUME NEW t \in Threads, NEW q \in Questions, Acquire(t, q)
      PROVE  ClientInv'
  BY <1>6, AcquireStep
<1>7. CASE UNCHANGED vars
  <2>1. UNCHANGED <<handle, backend, active_calls, call, requests, responses, next_request_id>>
    BY <1>7, Zenon DEF vars, handleVars, wireVars
  <2> QED  BY <2>1 DEF ClientInv, ClientType, CallInv, CountInv, WireInv, Calling, Wire, Elems,
                       Sound, Used, Torn
<1> QED  BY <1>1, <1>2, <1>3, <1>4, <1>5, <1>6, <1>7 DEF Next

(* Nothing that arrives for a call answers another question, and the count  *)
(* that pdcm_close waits for is the number of calls, in every state.        *)
THEOREM ClientInvCorrect == Spec => []ClientInv
<1> QED  BY ClientInitial, ClientStep, PTL DEF Spec

-----------------------------------------------------------------------------
(* The refinement.                                                          *)

Asked == [u \in Threads |-> call[u].asked]
Got == [u \in Threads |-> call[u].got]

LEMMA PhaseOf ==
  /\ handle \in {"unopened", "embedded_start", "embedded_activate"} => Phase = "unopened"
  /\ handle \in {"open", "closing"} => Phase = handle
  /\ handle \in {"closed", "draining", "stopping", "gone"} => Phase = "closed"
  /\ handle \in {"failed", "embedded_failed", "failed_draining", "failed_stopping"}
       => Phase = "failed"
BY Zenon DEF Phase

(* A step that changes neither a question nor an answer nor the phase.      *)
LEMMA Stutters ==
  ASSUME Phase' = Phase, Asked' = Asked, Got' = Got
  PROVE  UNCHANGED Promise!contractVars
BY Zenon DEF Promise!contractVars, Asked, Got

(* The end of a call's work in the backend, with an answer or without one.  *)
LEMMA AnswerMaps ==
  ASSUME ClientInv, NEW t \in Calling, UNCHANGED handle,
         call' \in [Threads -> Record], \A u \in Threads \ {t} : call'[u] = call[u],
         call'[t].asked = call[t].asked,
         \/ call'[t].got = call[t].got
         \/ call[t].got = None /\ call'[t].got = call[t].asked
  PROVE  [Promise!ContractNext]_(Promise!contractVars)
<1>1. Phase' = Phase
  BY Zenon DEF Phase
<1>2. t \in Threads /\ call \in [Threads -> Record]
  BY Zenon DEF Calling, ClientInv, ClientType
<1>3. Asked' = Asked
  BY <1>2, Zenon DEF Asked
<1>4. CASE call'[t].got = call[t].got
  <2>1. Got' = Got
    BY <1>2, <1>4, Zenon DEF Got
  <2> QED  BY <1>1, <1>3, <2>1, Stutters
<1>5. CASE call[t].got = None /\ call'[t].got = call[t].asked
  <2>1. Got' = [Got EXCEPT ![t] = Asked[t]]
    BY <1>2, <1>5, Zenon DEF Got, Asked
  <2>2. Asked[t] # None /\ Got[t] = None
    BY <1>2, <1>5, Zenon DEF Asked, Got, ClientInv, CallInv
  <2>3. Phase \in {"open", "closing"}
    BY PhaseOf, Zenon DEF ClientInv, CountInv
  <2>4. Promise!Answer(t)
    BY <1>1, <1>3, <2>1, <2>2, <2>3 DEF Promise!Answer, Asked, Got
  <2> QED  BY <1>2, <2>4 DEF Promise!ContractNext
<1> QED  BY <1>4, <1>5, Zenon

LEMMA OpenMaps ==
  ASSUME ClientInv,
         OpenStandalone \/ OpenEmbedded \/ EmbeddedStart \/ EmbeddedActivate \/ DaemonLeaves
           \/ DaemonAnswers
  PROVE  [Promise!ContractNext]_(Promise!contractVars)
<1>1. Asked' = Asked /\ Got' = Got
  BY Zenon DEF OpenStandalone, OpenEmbedded, EmbeddedStart, EmbeddedActivate, DaemonLeaves,
         DaemonAnswers, daemonUnchanged, Asked, Got
<1>2. \/ handle' = handle
      \/ /\ handle \in {"unopened", "embedded_start", "embedded_activate"}
         /\ handle' \in {"embedded_start", "embedded_activate", "open", "failed",
                         "embedded_failed"}
  BY Zenon DEF OpenStandalone, OpenEmbedded, EmbeddedStart, EmbeddedActivate, DaemonLeaves,
         DaemonAnswers, daemonUnchanged, handleVars
<1>3. Phase' = Phase \/ (Phase = "unopened" /\ Phase' \in {"open", "failed"})
  BY <1>2, Zenon DEF Phase
<1>4. CASE Phase' = Phase
  BY <1>1, <1>4, Stutters, Zenon
<1>5. CASE Phase = "unopened" /\ Phase' \in {"open", "failed"}
  <2>1. Promise!Open
    BY <1>1, <1>5, Zenon DEF Promise!Open, Asked, Got
  <2> QED  BY <2>1, Zenon DEF Promise!ContractNext
<1> QED  BY <1>3, <1>4, <1>5

LEMMA AcquireMaps ==
  ASSUME ClientInv, NEW t \in Threads, NEW q \in Questions, Acquire(t, q)
  PROVE  [Promise!ContractNext]_(Promise!contractVars)
<1>1. /\ call' = [call EXCEPT ![t] = [pc |-> "lock", id |-> 0, asked |-> q, got |-> None]]
      /\ call \in [Threads -> Record] /\ handle = "open" /\ handle' = "open"
  BY Zenon DEF Acquire, ClientInv, ClientType, callUnchanged
<1>2. call[t].asked = None /\ call[t].got = None
  BY Zenon DEF Acquire, ClientInv, CallInv, Calling, Steps
<1>3. Asked[t] = None /\ Asked' = [Asked EXCEPT ![t] = q] /\ Got' = Got
  BY <1>1, <1>2, Zenon DEF Asked, Got
<1>4. Phase = "open" /\ Phase' = Phase
  BY <1>1, Zenon DEF Phase
<1>5. Promise!Call(t, q)
  BY <1>3, <1>4, Zenon DEF Promise!Call, Asked, Got
<1> QED  BY <1>5, Zenon DEF Promise!ContractNext

LEMMA CallMaps ==
  ASSUME ClientInv, NEW t \in Threads,
         \/ Lock(t) \/ AskCore(t) \/ CheckConnected(t) \/ WriteRequest(t) \/ ReadResponse(t)
         \/ Unlock(t)
  PROVE  [Promise!ContractNext]_(Promise!contractVars)
<1>1. ClientInv'
  BY QuietSteps, WriteStep, ReadStep, Zenon
<1>2. t \in Calling /\ call \in [Threads -> Record] /\ call' \in [Threads -> Record]
  BY <1>1, SMTT(30)
     DEF Lock, AskCore, CheckConnected, WriteRequest, ReadResponse, Unlock, Calling, Steps,
              ClientInv, ClientType
<1>3. UNCHANGED handle
  BY SMTT(30) DEF Lock, AskCore, CheckConnected, WriteRequest, ReadResponse, Unlock, callUnchanged
<1>4. /\ \A u \in Threads \ {t} : call'[u] = call[u]
      /\ call'[t].asked = call[t].asked
      /\ call'[t].pc = "unlock" \/ call'[t].got = call[t].got
      /\ call[t].pc \in {"in", "read"} \/ call'[t].got = call[t].got
  <2>1. CASE Lock(t)
    BY <1>2, <2>1 DEF Lock, Record
  <2>2. CASE AskCore(t)
    BY <1>2, <2>2 DEF AskCore, Record
  <2>3. CASE CheckConnected(t)
    BY <1>2, <2>3 DEF CheckConnected, Record
  <2>4. CASE WriteRequest(t)
    BY <1>2, <2>4, SMTT(30) DEF WriteRequest, Record
  <2>5. CASE ReadResponse(t)
    BY <1>2, <2>5 DEF ReadResponse, Record
  <2>6. CASE Unlock(t)
    BY <1>2, <2>6 DEF Unlock, Record
  <2> QED  BY <2>1, <2>2, <2>3, <2>4, <2>5, <2>6
<1>5. \/ call'[t].got = call[t].got
      \/ call[t].got = None /\ call'[t].got = call[t].asked
  <2>1. CASE call[t].pc \in {"in", "read"}
    <3>1. call[t].got = None
      BY <2>1, Zenon DEF ClientInv, CallInv
    <3>2. call'[t].got = None \/ call'[t].got = call'[t].asked
      BY <1>1, Zenon DEF ClientInv, CallInv
    <3> QED  BY <1>4, <3>1, <3>2, Zenon
  <2> QED  BY <1>4, <2>1, Zenon
<1> QED  BY <1>2, <1>3, <1>4, <1>5, AnswerMaps

LEMMA ReleaseMaps ==
  ASSUME ClientInv, NEW t \in Threads, Release(t)
  PROVE  [Promise!ContractNext]_(Promise!contractVars)
<1>1. t \in Calling /\ call \in [Threads -> Record] /\ call' = [call EXCEPT ![t] = Idle]
      /\ handle' = handle
  BY Zenon DEF Release, Calling, Steps, ClientInv, ClientType, callUnchanged
<1>2. /\ Asked[t] # None /\ Asked' = [Asked EXCEPT ![t] = None]
      /\ Got' = [Got EXCEPT ![t] = None]
  BY <1>1, Zenon DEF Asked, Got, Idle, ClientInv, CallInv
<1>3. Phase \in {"open", "closing"} /\ Phase' = Phase
  <2>1. handle \in {"open", "closing"}
    BY <1>1, Zenon DEF ClientInv, CountInv
  <2> QED  BY <1>1, <2>1, Zenon DEF Phase
<1>4. Promise!Return(t)
  BY <1>2, <1>3, Zenon DEF Promise!Return, Asked, Got
<1> QED  BY <1>4, Zenon DEF Promise!ContractNext

LEMMA CloseMaps ==
  ASSUME ClientInv,
         \/ CloseEmbedded
         \/ \E t \in Threads : CloseBegin(t) \/ CloseWait(t) \/ CloseStandalone(t)
  PROVE  [Promise!ContractNext]_(Promise!contractVars)
<1>1. Asked' = Asked /\ Got' = Got
  <2>1. \A u \in Threads : call'[u].asked = call[u].asked /\ call'[u].got = call[u].got
    <3>1. CASE CloseEmbedded
      <4>1. \A u \in Threads : call[u].asked = None /\ call[u].got = None
        BY <3>1, Zenon DEF CloseEmbedded, ClientInv, CountInv, CallInv, Calling, Steps
      <4> QED  BY <3>1, <4>1 DEF CloseEmbedded, Idle
    <3>2. ASSUME NEW t \in Threads, CloseBegin(t) \/ CloseWait(t) \/ CloseStandalone(t)
          PROVE  \A u \in Threads :
                   call'[u].asked = call[u].asked /\ call'[u].got = call[u].got
      <4>1. call[t].asked = None /\ call[t].got = None /\ call \in [Threads -> Record]
        BY <3>2, Zenon DEF CloseBegin, CloseWait, CloseStandalone, ClientInv, ClientType, CallInv,
                    Calling, Steps
      <4>2. CASE CloseBegin(t)
        BY <4>1, <4>2, Zenon DEF CloseBegin, Record
      <4>3. CASE CloseWait(t)
        BY <4>3, Zenon DEF CloseWait
      <4>4. CASE CloseStandalone(t)
        BY <4>1, <4>4 DEF CloseStandalone, Idle
      <4> QED  BY <3>2, <4>2, <4>3, <4>4, Zenon
    <3> QED  BY <3>1, <3>2, Zenon
  <2> QED  BY <2>1, Zenon DEF Asked, Got
<1>2. \/ Phase' = Phase
      \/ handle = "open" /\ handle' = "closing"
      \/ handle = "closing" /\ handle' = "closed" /\ active_calls = 0
  BY DEF CloseEmbedded, CloseBegin, CloseWait, CloseStandalone, Phase
<1>3. CASE Phase' = Phase
  BY <1>1, <1>3, Stutters, Zenon
<1>4. CASE handle = "open" /\ handle' = "closing"
  <2>1. Phase = "open" /\ Phase' = "closing"
    BY <1>4, Zenon DEF Phase
  <2>2. Promise!CloseHandle
    BY <1>1, <2>1, Zenon DEF Promise!CloseHandle, Asked, Got
  <2> QED  BY <2>2, Zenon DEF Promise!ContractNext
<1>5. CASE handle = "closing" /\ handle' = "closed" /\ active_calls = 0
  <2>1. Phase = "closing" /\ Phase' = "closed"
    BY <1>5, Zenon DEF Phase
  <2>2. Calling = {}
    BY <1>5, CallingFinite, FS_EmptySet, Zenon DEF ClientInv, CountInv
  <2>3. \A t \in Threads : Asked[t] = None
    BY <2>2, Zenon DEF Asked, ClientInv, CallInv
  <2>4. Promise!Closed
    BY <1>1, <2>1, <2>3 DEF Promise!Closed, Asked, Got
  <2> QED  BY <2>4, Zenon DEF Promise!ContractNext
<1> QED  BY <1>2, <1>3, <1>4, <1>5, Zenon

LEMMA InitMaps == Init => Promise!ContractInit
<1> SUFFICES ASSUME Init  PROVE Promise!ContractInit
  OBVIOUS
<1>1. Phase = "unopened"
  BY Zenon DEF Init, Phase
<1>2. Asked = [t \in Threads |-> None] /\ Got = [t \in Threads |-> None]
  BY Zenon DEF Init, Asked, Got, Idle
<1> QED  BY <1>1, <1>2, Zenon DEF Promise!ContractInit, Asked, Got

LEMMA StepMaps == ClientInv /\ [Next]_vars => [Promise!ContractNext]_(Promise!contractVars)
<1> SUFFICES ASSUME ClientInv, [Next]_vars
             PROVE  [Promise!ContractNext]_(Promise!contractVars)
  OBVIOUS
<1>1. CASE OpenStandalone \/ OpenEmbedded \/ EmbeddedStart \/ EmbeddedActivate \/ DaemonLeaves
             \/ DaemonAnswers
  BY <1>1, OpenMaps, Zenon
<1>2. CASE CloseEmbedded
  BY <1>2, CloseMaps
<1>3. ASSUME NEW t \in Threads, Thread(t) \/ CloseBegin(t)
      PROVE  [Promise!ContractNext]_(Promise!contractVars)
  BY <1>3, CallMaps, ReleaseMaps, CloseMaps DEF Thread
<1>4. ASSUME NEW t \in Threads, NEW q \in Questions, Acquire(t, q)
      PROVE  [Promise!ContractNext]_(Promise!contractVars)
  BY <1>4, AcquireMaps, Zenon
<1>5. CASE UNCHANGED vars
  <2>1. Phase' = Phase /\ Asked' = Asked /\ Got' = Got
    BY <1>5, Zenon DEF vars, handleVars, Phase, Asked, Got
  <2> QED  BY <2>1, Stutters, Zenon
<1> QED  BY <1>1, <1>2, <1>3, <1>4, <1>5 DEF Next

(* The client library implements the contract of a handle: no call gets the *)
(* answer to another question, none is let in once pdcm_close has begun,    *)
(* and the backend is taken away only when none is left.                    *)
THEOREM KeepsContractCorrect == Spec => KeepsContract
<1> QED  BY ClientInvCorrect, InitMaps, StepMaps, PTL DEF Spec, KeepsContract, Promise!Contract

-----------------------------------------------------------------------------
(* What the backend of a handle is made of, in every phase of the handle.   *)

(* Nobody has started the core.                                             *)
Fresh == start = "begin" /\ halt = "begin" /\ core.state = "created" /\ provider = "none"

(* start and stop of a core that only this handle has.                      *)
CoreInv ==
  /\ core = [state |-> core.state, provider |-> core.provider, reason |-> core.reason,
             generation |-> core.generation]
  /\ start = "begin" => Fresh
  /\ start \in {"begin", "validate", "initialize"} => manager = "uninitialized"
  /\ start \notin {"done", "failed"} => halt = "begin"
  /\ halt = "begin" => core.state # "stopped" /\ manager # "shutdown"
  /\ start = "done" /\ halt = "begin" => core.state \in {"ready", "degraded"}
  /\ manager = "shutdown" \/ halt \in {"publish", "done"} => provider # "called"
  /\ halt = "done" => core.state = "stopped"

(* mutex_ of the backend is held by the one call that is in the backend.    *)
LockInv ==
  /\ lock \in Threads \cup {None}
  /\ \A t \in Threads : call[t].pc \in {"in", "read", "unlock"} <=> lock = t

(* The backend that the handle has, and what there is of it: a socket, or   *)
(* a core and a session.                                                    *)
BackendInv ==
  /\ handle \in {"open", "closing", "closed", "gone"} => backend \in {"standalone", "embedded"}
  /\ handle \in {"draining", "stopping"} => backend = "embedded"
  /\ handle \notin {"open", "closing", "closed", "draining", "stopping", "gone"}
       => backend = "none"
  /\ socket = IF backend = "standalone" /\ handle # "gone" THEN "open" ELSE "none"
  /\ handle = "unopened" \/ backend = "standalone" => Fresh /\ sessions = <<>>
  /\ handle = "embedded_start" => halt = "begin" /\ start # "failed" /\ sessions = <<>>
  /\ handle = "embedded_activate" =>
       start = "done" /\ halt = "begin" /\ \E i \in DOMAIN sessions : DOMAIN sessions = {i}
  /\ backend = "embedded" /\ handle \in {"open", "closing", "closed"} =>
       start = "done" /\ halt = "begin" /\ Range(sessions) = {"active"}
  /\ handle \in {"embedded_failed", "draining", "failed_draining"} =>
       halt = "begin" /\ start \in {"done", "failed"}
  /\ handle \in {"stopping", "failed_stopping"} =>
       sessions = <<>> /\ start \in {"done", "failed"} /\ halt # "done"
  /\ handle \in {"gone", "failed"} => sessions = <<>> /\ (Fresh \/ halt = "done")

PartsInv == CoreInv /\ LockInv /\ BackendInv

LEMMA PartsInitial == Init => PartsInv
<1> SUFFICES ASSUME Init  PROVE PartsInv
  OBVIOUS
<1>1. CoreInv
  BY Zenon DEF Init, CoreInit, CoreInv, Fresh
<1>2. \A t \in Threads : call[t].pc = "idle"
  BY Zenon DEF Init, Idle
<1>3. LockInv
  BY <1>2, ClientAssumption, Zenon DEF Init, LockInv
<1>4. BackendInv
  BY Zenon DEF Init, CoreInit, SessionsInit, BackendInv, Fresh
<1> QED  BY <1>1, <1>3, <1>4, Zenon DEF PartsInv

(* The core is started, once, before it is stopped.                         *)
LEMMA CoreStarts ==
  ASSUME CoreInv, halt = "begin", CoreStart
  PROVE  CoreInv' /\ halt' = "begin" /\ start' # "begin"
<1>1. halt' = "begin" /\ start' # "begin"
  BY Zenon DEF CoreStart, StartBegin, StartValidate, StartInitialize, StartDiscover, StartCommit,
         StartActivate, StartPublish
<1>2. CASE StartBegin
  <2>1. core' = [state |-> "starting", provider |-> core.provider, reason |-> core.reason,
                 generation |-> core.generation]
    BY <1>2, Zenon DEF StartBegin, CoreInv
  <2> QED  BY <1>1, <1>2, <2>1, Zenon DEF StartBegin, CoreInv, Fresh
<1>3. CASE StartValidate
  BY <1>1, <1>3 DEF StartValidate, CoreInv, Publish, Fresh
<1>4. CASE StartInitialize
  BY <1>1, <1>4 DEF StartInitialize, CoreInv, Publish, Fresh
<1>5. CASE StartDiscover
  BY <1>1, <1>5 DEF StartDiscover, CoreInv, Publish, Fresh
<1>6. CASE StartCommit
  BY <1>1, <1>6 DEF StartCommit, CoreInv, Publish, Fresh
<1>7. CASE StartActivate
  BY <1>1, <1>7 DEF StartActivate, CoreInv, Publish, Fresh
<1>8. CASE StartPublish
  BY <1>1, <1>8, Zenon DEF StartPublish, CoreInv, Publish, Fresh
<1> QED  BY <1>1, <1>2, <1>3, <1>4, <1>5, <1>6, <1>7, <1>8 DEF CoreStart

LEMMA CoreStops ==
  ASSUME CoreInv, start \in {"done", "failed"}, CoreStop
  PROVE  CoreInv' /\ UNCHANGED start
<1>1. UNCHANGED start
  BY Zenon DEF CoreStop, HaltBegin, HaltShutdown, HaltPublish
<1>2. CASE HaltBegin
  <2>1. core.state # "stopped"
    BY <1>2, Zenon DEF HaltBegin, CoreInv
  <2>2. core' = [state |-> "stopping", provider |-> core.provider, reason |-> core.reason,
                 generation |-> core.generation] /\ halt' = "shutdown"
    BY <1>2, <2>1, Zenon DEF HaltBegin, CoreInv
  <2> QED  BY <1>1, <1>2, <2>2, Zenon DEF HaltBegin, CoreInv, Fresh
<1>3. CASE HaltShutdown
  BY <1>1, <1>3, Zenon DEF HaltShutdown, CoreInv, Fresh
<1>4. CASE HaltPublish
  BY <1>1, <1>4 DEF HaltPublish, CoreInv, Publish, Fresh
<1> QED  BY <1>1, <1>2, <1>3, <1>4 DEF CoreStop

LEMMA CoreKept ==
  ASSUME CoreInv, UNCHANGED coreVars
  PROVE  CoreInv' /\ Fresh' = Fresh
BY Zenon DEF CoreInv, coreVars, Fresh

(* A step that neither takes nor leaves mutex_.                             *)
LEMMA LockKept ==
  ASSUME LockInv, UNCHANGED lock,
         \A t \in Threads : call'[t].pc = call[t].pc
                            \/ (call[t].pc \notin {"in", "read", "unlock"}
                                /\ call'[t].pc \notin {"in", "read", "unlock"})
                            \/ (call[t].pc \in {"in", "read", "unlock"}
                                /\ call'[t].pc \in {"in", "read", "unlock"})
  PROVE  LockInv'
<1>1. \A t \in Threads :
        call'[t].pc \in {"in", "read", "unlock"} <=> call[t].pc \in {"in", "read", "unlock"}
  OBVIOUS
<1> QED  BY <1>1, Zenon DEF LockInv

(* pdcm_open makes the parts of the backend one by one.                     *)
LEMMA OpenParts ==
  ASSUME PartsInv, OpenStandalone \/ OpenEmbedded \/ EmbeddedStart \/ EmbeddedActivate
  PROVE  PartsInv'
<1>1. LockInv'
  BY LockKept, Zenon DEF PartsInv, OpenStandalone, OpenEmbedded, EmbeddedStart, EmbeddedActivate
<1>2. CASE OpenStandalone
  <2>1. CoreInv' /\ Fresh' = Fresh
    BY <1>2, CoreKept, Zenon DEF PartsInv, OpenStandalone
  <2>2. BackendInv'
    BY <1>2, <2>1 DEF PartsInv, BackendInv, OpenStandalone, sessionVars, coreVars, Fresh
  <2> QED  BY <1>1, <2>1, <2>2, Zenon DEF PartsInv
<1>3. CASE OpenEmbedded
  <2>1. CoreInv' /\ Fresh' = Fresh
    BY <1>3, CoreKept, Zenon DEF PartsInv, OpenEmbedded
  <2>2. BackendInv'
    BY <1>3, <2>1, Zenon DEF PartsInv, BackendInv, OpenEmbedded, sessionVars, coreVars, Fresh
  <2> QED  BY <1>1, <2>1, <2>2, Zenon DEF PartsInv
<1>4. CASE EmbeddedStart
  <2>1. /\ handle = "embedded_start" /\ halt = "begin" /\ sessions = <<>>
        /\ UNCHANGED <<socket, backend>>
        /\ backend = "none" /\ socket = "none"
    BY <1>4, Zenon DEF EmbeddedStart, PartsInv, BackendInv
  <2>2. CASE CoreStart /\ UNCHANGED sessionVars
             /\ handle' = IF start' = "failed" THEN "embedded_failed" ELSE handle
    <3>1. CoreInv' /\ halt' = "begin" /\ start' # "begin"
      BY <2>1, <2>2, CoreStarts DEF PartsInv
    <3>2. BackendInv'
      BY <2>1, <2>2, <3>1 DEF BackendInv, sessionVars
    <3> QED  BY <1>1, <3>1, <3>2, Zenon DEF PartsInv
  <2>3. CASE start = "done" /\ BeginHandshake /\ handle' = "embedded_activate" /\ UNCHANGED coreVars
    <3>1. CoreInv' /\ Fresh' = Fresh
      BY <2>3, CoreKept DEF PartsInv
    <3>2. DOMAIN sessions' = {next_session_id}
      BY <2>1, <2>3 DEF BeginHandshake
    <3>3. BackendInv'
      BY <2>1, <2>3, <3>2 DEF BackendInv, coreVars
    <3> QED  BY <1>1, <3>1, <3>3, Zenon DEF PartsInv
  <2> QED  BY <1>4, <2>2, <2>3, Zenon DEF EmbeddedStart
<1>5. CASE EmbeddedActivate
  <2>1. CoreInv' /\ Fresh' = Fresh
    BY <1>5, CoreKept, Zenon DEF PartsInv, EmbeddedActivate
  <2>2. PICK i \in DOMAIN sessions : Activate(i)
    BY <1>5, Zenon DEF EmbeddedActivate
  <2>3. /\ DOMAIN sessions = {i} /\ start = "done" /\ halt = "begin"
        /\ backend = "none" /\ socket = "none"
    BY <1>5, Zenon DEF EmbeddedActivate, PartsInv, BackendInv
  <2>4. Range(sessions') = {"active"}
    BY <2>2, <2>3, Zenon DEF Activate, Range
  <2>5. BackendInv'
    BY <1>5, <2>3, <2>4 DEF BackendInv, EmbeddedActivate, coreVars
  <2> QED  BY <1>1, <2>1, <2>5 DEF PartsInv
<1> QED  BY <1>2, <1>3, <1>4, <1>5, Zenon

(* A call changes no part of the backend, and has mutex_ while it is in it. *)
LEMMA CallParts ==
  ASSUME ClientInv, PartsInv, NEW t \in Threads,
         \/ Lock(t) \/ AskCore(t) \/ CheckConnected(t) \/ WriteRequest(t) \/ ReadResponse(t)
         \/ Unlock(t) \/ Release(t) \/ \E q \in Questions : Acquire(t, q)
  PROVE  PartsInv'
<1>1. UNCHANGED <<handle, backend, socket, sessions, coreVars>>
  BY Zenon DEF Lock, AskCore, CheckConnected, WriteRequest, ReadResponse, Unlock, Release, Acquire,
         callUnchanged, sessionVars
<1>2. CoreInv' /\ Fresh' = Fresh
  BY <1>1, CoreKept, Zenon DEF PartsInv
<1>3. BackendInv'
  BY <1>1, <1>2, Zenon DEF PartsInv, BackendInv, coreVars
<1>4. call \in [Threads -> Record]
  BY Zenon DEF ClientInv, ClientType
<1>5. LockInv'
  <2>1. CASE Lock(t)
    <3>1. call'[t].pc = "in" /\ \A u \in Threads \ {t} : call'[u] = call[u]
      BY <1>4, <2>1, Zenon DEF Lock, Record
    <3> QED  BY <2>1, <3>1, ClientAssumption, Zenon DEF Lock, PartsInv, LockInv
  <2>2. CASE Unlock(t)
    <3>1. call'[t].pc = "release" /\ \A u \in Threads \ {t} : call'[u] = call[u]
      BY <1>4, <2>2, Zenon DEF Unlock, Record
    <3> QED  BY <2>2, <3>1, ClientAssumption DEF Unlock, PartsInv, LockInv
  <2>3. CASE AskCore(t) \/ CheckConnected(t) \/ WriteRequest(t) \/ ReadResponse(t)
    <3>1. /\ call[t].pc \in {"in", "read"} /\ call'[t].pc \in {"read", "unlock"}
          /\ UNCHANGED lock /\ \A u \in Threads \ {t} : call'[u] = call[u]
      <4>1. CASE AskCore(t)
        BY <1>4, <4>1, Zenon DEF AskCore, Record
      <4>2. CASE CheckConnected(t)
        BY <1>4, <4>2, Zenon DEF CheckConnected, Record
      <4>3. CASE WriteRequest(t)
        BY <1>4, <4>3, SMTT(30) DEF WriteRequest, Record
      <4>4. CASE ReadResponse(t)
        BY <1>4, <4>4, SMTT(20) DEF ReadResponse, Record
      <4> QED  BY <2>3, <4>1, <4>2, <4>3, <4>4
    <3> QED  BY <3>1, LockKept, Zenon DEF PartsInv
  <2>4. CASE Release(t) \/ \E q \in Questions : Acquire(t, q)
    <3>1. /\ call[t].pc \in {"release", "idle"} /\ call'[t].pc \in {"lock", "idle"}
          /\ UNCHANGED lock /\ \A u \in Threads \ {t} : call'[u] = call[u]
      <4>1. CASE Release(t)
        BY <1>4, <4>1 DEF Release, Idle
      <4>2. ASSUME NEW q \in Questions, Acquire(t, q)
            PROVE  /\ call[t].pc = "idle" /\ call'[t].pc \in {"lock", "idle"}
                   /\ UNCHANGED lock /\ \A u \in Threads \ {t} : call'[u] = call[u]
        BY <1>4, <4>2, Zenon DEF Acquire, Idle
      <4> QED  BY <2>4, <4>1, <4>2, Zenon
    <3> QED  BY <3>1, LockKept DEF PartsInv
  <2> QED  BY <2>1, <2>2, <2>3, <2>4
<1> QED  BY <1>2, <1>3, <1>5 DEF PartsInv

(* pdcm_close takes the parts away again.                                   *)
LEMMA CloseParts ==
  ASSUME ClientInv, PartsInv, NEW t \in Threads, CloseBegin(t) \/ CloseWait(t) \/ CloseStandalone(t)
  PROVE  PartsInv'
<1>1. UNCHANGED <<backend, sessions, coreVars, lock>>
  BY Zenon DEF CloseBegin, CloseWait, CloseStandalone, closeUnchanged, sessionVars
<1>2. CoreInv' /\ Fresh' = Fresh
  BY <1>1, CoreKept, Zenon DEF PartsInv
<1>3. BackendInv'
  <2>1. CASE CloseBegin(t)
    BY <1>1, <1>2, <2>1 DEF PartsInv, BackendInv, coreVars, CloseBegin
  <2>2. CASE CloseWait(t)
    BY <1>1, <1>2, <2>2, Zenon DEF PartsInv, BackendInv, coreVars, CloseWait
  <2>3. CASE CloseStandalone(t)
    BY <1>1, <1>2, <2>3, Zenon DEF PartsInv, BackendInv, coreVars, CloseStandalone
  <2> QED  BY <2>1, <2>2, <2>3, Zenon
<1>4. LockInv'
  <2>1. /\ call[t].pc \in {"idle", "closing"} /\ call'[t].pc \in {"idle", "closing"}
        /\ \A u \in Threads \ {t} : call'[u] = call[u]
    BY DEF CloseBegin, CloseWait, CloseStandalone, Idle, ClientInv, ClientType, Record
  <2> QED  BY <1>1, <2>1, LockKept, Zenon DEF PartsInv
<1> QED  BY <1>2, <1>3, <1>4, Zenon DEF PartsInv

LEMMA CloseEmbeddedParts ==
  ASSUME PartsInv, CloseEmbedded
  PROVE  PartsInv'
<1>1. UNCHANGED <<backend, lock, socket>> /\ lock = None
  BY Zenon DEF CloseEmbedded, closeUnchanged
<1>2. LockInv'
  <2>1. \A t \in Threads : call'[t] = call[t] \/ call'[t].pc = "idle"
    BY DEF CloseEmbedded, Idle
  <2> QED  BY <1>1, <2>1, ClientAssumption, Zenon DEF PartsInv, LockInv
<1>3. CASE /\ handle = "embedded_failed" \/ (handle = "closed" /\ backend = "embedded")
           /\ handle' = IF handle = "closed" THEN "draining" ELSE "failed_draining"
           /\ UNCHANGED coreVars
  <2>1. CoreInv' /\ Fresh' = Fresh
    BY <1>3, CoreKept, Zenon DEF PartsInv
  <2>2. BackendInv'
    BY <1>1, <1>3 DEF PartsInv, BackendInv, coreVars
  <2> QED  BY <1>2, <2>1, <2>2, Zenon DEF PartsInv
<1>4. CASE /\ handle \in {"draining", "failed_draining"} /\ sessions' = <<>>
           /\ handle' = IF handle = "draining" THEN "stopping" ELSE "failed_stopping"
           /\ UNCHANGED coreVars
  <2>1. CoreInv' /\ Fresh' = Fresh
    BY <1>4, CoreKept, Zenon DEF PartsInv
  <2>2. BackendInv'
    BY <1>1, <1>4, Zenon DEF PartsInv, BackendInv, coreVars
  <2> QED  BY <1>2, <2>1, <2>2, Zenon DEF PartsInv
<1>5. CASE /\ handle \in {"stopping", "failed_stopping"} /\ CoreStop
           /\ handle' = IF halt' # "done" THEN handle
                        ELSE IF handle = "stopping" THEN "gone" ELSE "failed"
           /\ UNCHANGED sessionVars
  <2>1. CoreInv' /\ UNCHANGED start
    BY <1>5, CoreStops, Zenon DEF PartsInv, BackendInv
  <2>2. \/ handle' = handle /\ halt' # "done"
        \/ handle' = "gone" /\ handle = "stopping" /\ halt' = "done"
        \/ handle' = "failed" /\ handle = "failed_stopping" /\ halt' = "done"
    BY <1>5, Zenon
  <2>3. BackendInv'
    BY <1>1, <1>5, <2>1, <2>2, Zenon DEF PartsInv, BackendInv, sessionVars
  <2> QED  BY <1>2, <2>1, <2>3, Zenon DEF PartsInv
<1> QED  BY <1>3, <1>4, <1>5, Zenon DEF CloseEmbedded, CloseAll

LEMMA PartsStep == ClientInv /\ PartsInv /\ [Next]_vars => PartsInv'
<1> SUFFICES ASSUME ClientInv, PartsInv, [Next]_vars  PROVE PartsInv'
  OBVIOUS
<1>1. CASE OpenStandalone \/ OpenEmbedded \/ EmbeddedStart \/ EmbeddedActivate
  BY <1>1, OpenParts
<1>2. CASE CloseEmbedded
  BY <1>2, CloseEmbeddedParts, Zenon
<1>3. ASSUME NEW t \in Threads, Thread(t) \/ CloseBegin(t) \/ \E q \in Questions : Acquire(t, q)
      PROVE  PartsInv'
  BY <1>3, CallParts, CloseParts, Zenon DEF Thread
<1>4. CASE DaemonAnswers \/ DaemonLeaves \/ UNCHANGED vars
  <2>1. UNCHANGED <<handle, backend, socket, sessions, coreVars, lock, call>>
    BY <1>4, Zenon DEF DaemonAnswers, DaemonLeaves, vars, daemonUnchanged, handleVars, sessionVars
  <2>2. CoreInv' /\ Fresh' = Fresh
    BY <2>1, CoreKept, Zenon DEF PartsInv
  <2>3. LockInv'
    BY <2>1, LockKept, Zenon DEF PartsInv
  <2>4. BackendInv'
    BY <2>1, <2>2, Zenon DEF PartsInv, BackendInv, coreVars
  <2> QED  BY <2>2, <2>3, <2>4, Zenon DEF PartsInv
<1> QED  BY <1>1, <1>2, <1>3, <1>4 DEF Next

LEMMA PartsInvariant == Spec => [](ClientInv /\ PartsInv)
<1> QED  BY ClientInitial, ClientStep, PartsInitial, PartsStep, PTL DEF Spec

(* For any number of threads, whatever the daemon does: a call finds its    *)
(* backend in working order until it leaves it, one call at a time is in    *)
(* the backend, and active_calls, which pdcm_close waits for, counts them.  *)
THEOREM CallsFindBackendCorrect == Spec => []CallsFindBackend
<1>1. ASSUME ClientInv, PartsInv
      PROVE  CallsFindBackend
  <2>1. {t \in Threads : call[t].pc \notin {"idle", "closing"}} = Calling
    BY <1>1, Zenon DEF Calling, Steps, ClientInv, ClientType, Record
  <2>2. active_calls = Cardinality(Calling)
    BY <1>1, Zenon DEF ClientInv, CountInv
  <2>3. ASSUME NEW t \in Calling
        PROVE  /\ handle \in {"open", "closing"}
               /\ backend = "standalone" => socket = "open"
               /\ backend = "embedded" => Serving /\ {"active"} = Range(sessions)
               /\ call[t].pc \in {"in", "read", "unlock"} <=> lock = t
    <3>1. handle \in {"open", "closing"}
      BY <1>1, Zenon DEF ClientInv, CountInv
    <3>2. t \in Threads
      BY Zenon DEF Calling
    <3>3. call[t].pc \in {"in", "read", "unlock"} <=> lock = t
      BY <1>1, <3>2, Zenon DEF PartsInv, LockInv
    <3>4. backend = "standalone" => socket = "open"
      BY <1>1, <3>1, Zenon DEF PartsInv, BackendInv
    <3>5. backend = "embedded" => Serving /\ {"active"} = Range(sessions)
      BY <1>1, <3>1 DEF PartsInv, BackendInv, CoreInv, Serving
    <3> QED  BY <3>1, <3>3, <3>4, <3>5
  <2> QED  BY <2>1, <2>2, <2>3, Zenon DEF CallsFindBackend
<1> QED  BY <1>1, PartsInvariant, PTL

(* A handle that is closed, or that pdcm_open could not make, has left      *)
(* nothing behind, at whichever step it failed: no socket, no session and   *)
(* no provider that still runs.                                             *)
THEOREM ClosedLeavesNothingCorrect == Spec => []ClosedLeavesNothing
<1>1. ASSUME ClientInv, PartsInv
      PROVE  ClosedLeavesNothing
  <2> SUFFICES ASSUME handle \in {"gone", "failed"}
               PROVE  /\ socket = "none" /\ lock = None /\ sessions = <<>> /\ provider # "called"
                      /\ core.state \in {"created", "stopped"}
    BY Zenon DEF ClosedLeavesNothing
  <2>1. Calling = {}
    BY <1>1, Zenon DEF ClientInv, CountInv
  <2>2. lock = None
    BY <1>1, <2>1, Zenon DEF PartsInv, LockInv, Calling, Steps
  <2>3. socket = "none" /\ sessions = <<>>
    BY <1>1, Zenon DEF PartsInv, BackendInv
  <2>4. provider # "called" /\ core.state \in {"created", "stopped"}
    BY <1>1, Zenon DEF PartsInv, BackendInv, CoreInv, Fresh
  <2> QED  BY <2>2, <2>3, <2>4
<1> QED  BY <1>1, PartsInvariant, PTL

=============================================================================
