------------------------------ MODULE MCClient ------------------------------
(***************************************************************************)
(* Client for TLC: two threads and three requests.                          *)
(***************************************************************************)
EXTENDS Client, TLC

MCOpens ==
  {[mode |-> "embedded", fault |-> f] : f \in Faults}
  \cup {[mode |-> m, fault |-> "none"] : m \in {"standalone", "auto", "auto_fallback"}}

=============================================================================
