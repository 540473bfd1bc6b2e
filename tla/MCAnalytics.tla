---------------------------- MODULE MCAnalytics ----------------------------
(* A small instance of Analytics. *)
EXTENDS Analytics, TLC

CONSTANTS c1, c2

\* Each chatbot has one conversation.
MCBotOf == (c1 :> 1) @@ (c2 :> 2)

MCBudgets == {[messages |-> 1, runs |-> 2, flips |-> 0, views |-> 0],
              [messages |-> 1, runs |-> 1, flips |-> 0, views |-> 1],
              [messages |-> 2, runs |-> 1, flips |-> 1, views |-> 0],
              [messages |-> 1, runs |-> 0, flips |-> 1, views |-> 1]}

\* Runs, and messages, differ only in name.
Alike == Permutations(Runs) \cup Permutations(Messages)
=============================================================================
