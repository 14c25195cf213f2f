---------------------------- MODULE MCChatStream ----------------------------
(* Instances of ChatStream for TLC. *)
EXTENDS ChatStream, TLC

\* Constraint: the search ends where one turn reached into another one, from
\* where on DiscardedIsGone and FinishedIsKept claim nothing.
TurnsApart == ordered
=============================================================================
