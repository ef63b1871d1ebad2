------------------------------ MODULE MCDaemon ------------------------------
(***************************************************************************)
(* Daemon for TLC.                                                          *)
(***************************************************************************)
EXTENDS Daemon, TLC

CONSTANTS c1, c2

Load(limit, sends, fails) == [max_sessions |-> limit, sent |-> sends, fault |-> fails]

(* Two workers on every kind of first message; one that gets every answer   *)
(* of the router, or is cut off in between; peers that compete for one      *)
(* worker; and every way for the core to start.                             *)
MCLoads ==
  {Load(2, c1 :> <<"hello">> @@ c2 :> <<"incompatible", "hello">>, "none"),
   Load(2, c1 :> <<"hello", "request", "unknown", "hello", "incompatible", "malformed">>, "none"),
   Load(2, c1 :> <<"malformed", "hello", "request", "bad_length", "request">>, "none"),
   Load(1, c1 :> <<"hello">> @@ c2 :> <<"hello">>, "none")}
  \cup {Load(1, c1 :> <<"hello", "request">>, f) : f \in Faults}

=============================================================================
