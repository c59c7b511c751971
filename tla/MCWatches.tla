----------------------------- MODULE MCWatches ------------------------------
(* Two articles that one watch matches, and messages sent at any hour.         *)
EXTENDS Watches

EitherMatches == [a \in WatchArticles |-> Criteria]

\* Neither quiet hours nor the daily summary hold a message back.
AtAnyHour == ~settings'.quiet /\ ~settings'.summary

Spec == WatchInit /\ [][WatchNext /\ AtAnyHour]_watchVars
=============================================================================
