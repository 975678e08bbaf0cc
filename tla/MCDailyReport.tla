--------------------------- MODULE MCDailyReport ----------------------------
(* Instances of DailyReport for TLC. *)
EXTENDS DailyReport

\* Two looks at the clock in the send hour, from midnight on.
MCSendHour == [k \in Kinds |-> {0, 1}]
=============================================================================
