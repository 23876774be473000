------------------------------ MODULE EntryLog ------------------------------
(***************************************************************************)
(* What a session file promises to the agent that writes it, without       *)
(* lines, tails, handles or repairs: a log that only grows, in the order   *)
(* of the calls, until it is deleted as a whole.  SessionStore implements  *)
(* it for one writing process.                                             *)
(***************************************************************************)
EXTENDS Integers, Sequences, SequencesExt

CONSTANT Entries  \* the entries that may be appended, as numbers in call order

VARIABLES
  log,      \* the entries a reader finds
  acked,    \* entries whose append was reported done
  refused,  \* entries whose append was reported failed, found or not
  deleted   \* the session was deleted

logVars == <<log, acked, refused, deleted>>

Init == log = <<>> /\ acked = {} /\ refused = {} /\ deleted = FALSE

\* A reader can find the entry.  Its writer may not know yet, or may be told that
\* it failed; what failed before cannot come to be found.
Store(e) ==
  /\ ~deleted
  /\ e \notin refused
  /\ \A i \in DOMAIN log : log[i] < e
  /\ log' = Append(log, e)
  /\ \/ acked' \in {acked, acked \cup {e}} /\ UNCHANGED refused
     \/ refused' = refused \cup {e} /\ UNCHANGED acked
  /\ UNCHANGED deleted

Ack(e) ==
  /\ e \in ToSet(log) \/ deleted
  /\ e \notin refused
  /\ acked' = acked \cup {e}
  /\ UNCHANGED <<log, refused, deleted>>

Refuse(e) ==
  /\ e \notin acked
  /\ refused' = refused \cup {e}
  /\ UNCHANGED <<log, acked, deleted>>

Delete ==
  /\ log' = <<>>
  /\ acked' = {}
  /\ deleted' = TRUE
  /\ UNCHANGED refused

Next == Delete \/ \E e \in Entries : Store(e) \/ Ack(e) \/ Refuse(e)

Spec == Init /\ [][Next]_logVars
=============================================================================
