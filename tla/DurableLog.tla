----------------------------- MODULE DurableLog -----------------------------
(***************************************************************************)
(* What a write-ahead log promises: records get consecutive numbers, a     *)
(* growing prefix of them survives a crash, and a flush up to a record     *)
(* returns no earlier than the records before it are in that prefix.       *)
(***************************************************************************)
EXTENDS Integers, Sequences

CONSTANTS Thread

VARIABLES
  log,       \* every record appended: who appended it
  durable,   \* how many of them survive a crash
  wanted,    \* wanted[t]: t waits for the records before this one, or -1
  broken     \* an error was returned: no further one until a crash

vars == <<log, durable, wanted, broken>>

Init ==
  /\ log = <<>> /\ durable = 0
  /\ wanted = [t \in Thread |-> -1] /\ broken = FALSE

Append1(t) ==
  /\ log' = Append(log, t)
  /\ UNCHANGED <<durable, wanted, broken>>

Harden ==
  /\ durable' \in durable..Len(log)
  /\ UNCHANGED <<log, wanted, broken>>

Ask(t, lsn) ==
  /\ lsn < Len(log)
  /\ wanted' = [wanted EXCEPT ![t] = lsn]
  /\ UNCHANGED <<log, durable, broken>>

Answer(t) ==
  /\ wanted[t] <= durable
  /\ wanted' = [wanted EXCEPT ![t] = -1]
  /\ UNCHANGED <<log, durable, broken>>

(* The caller gets an error, and no promise: once. *)
GiveUp(t) ==
  /\ ~broken /\ wanted[t] # -1
  /\ broken' = TRUE
  /\ wanted' = [wanted EXCEPT ![t] = -1]
  /\ UNCHANGED <<log, durable>>

Crash ==
  /\ \E n \in durable..Len(log) : log' = SubSeq(log, 1, n)
  /\ wanted' = [t \in Thread |-> -1] /\ broken' = FALSE
  /\ UNCHANGED durable

Next ==
  \/ \E t \in Thread :
       \/ Append1(t) \/ Answer(t) \/ GiveUp(t)
       \/ \E lsn \in 0..Len(log) : Ask(t, lsn)
  \/ Harden
  \/ Crash

Spec == Init /\ [][Next]_vars
=============================================================================
