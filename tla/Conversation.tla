---------------------------- MODULE Conversation ----------------------------
(***************************************************************************)
(* What a run promises to the provider and to the operator, without turns, *)
(* phases, hooks or counters: a transcript in which the calls of a reply   *)
(* are answered, in order, before anything else is said or asked, and in   *)
(* which a steered message is heard once, in its turn.  AgentRun           *)
(* implements it.                                                          *)
(***************************************************************************)
EXTENDS Integers, Sequences

VARIABLES
  transcript,  \* who spoke, message by message
  asked,       \* a request is out and its reply is not on record
  owed,        \* results the last reply still has to get, by number
  given,       \* steered messages so far
  queue,       \* steered messages not heard yet, by number
  heard        \* steered messages the model has been given

talkVars == <<transcript, asked, owed, given, queue, heard>>

Init ==
  /\ transcript = <<>> /\ asked = FALSE /\ owed = {}
  /\ given = 0 /\ queue = {} /\ heard = {}

Quiet == ~asked /\ owed = {}
Speaks(role) == transcript' = Append(transcript, role)
IsFirst(n, S) == n \in S /\ \A m \in S : n <= m

Steer ==
  /\ given' = given + 1
  /\ queue' = queue \cup {given + 1}
  /\ UNCHANGED <<transcript, asked, owed, heard>>

\* The user, or the loop itself, says something of its own.
Say ==
  /\ Quiet
  /\ Speaks("user") \/ Speaks("operator")
  /\ UNCHANGED <<asked, owed, given, queue, heard>>

\* The oldest steered message is given to the model.
Hear ==
  /\ Quiet
  /\ Speaks("steer")
  /\ \E n \in queue : IsFirst(n, queue) /\ heard' = heard \cup {n} /\ queue' = queue \ {n}
  /\ UNCHANGED <<asked, owed, given>>

Ask ==
  /\ Quiet
  /\ asked' = TRUE
  /\ UNCHANGED <<transcript, owed, given, queue, heard>>

\* A reply with the results it asks for, whatever they are, or an empty one,
\* which is not put on record.
Reply ==
  /\ asked
  /\ asked' = FALSE
  /\ \/ Speaks("assistant")
     \/ transcript' = transcript /\ owed' = owed
  /\ UNCHANGED <<given, queue, heard>>

Answer ==
  /\ ~asked
  /\ Speaks("result")
  /\ \E k \in owed : IsFirst(k, owed) /\ owed' = owed \ {k}
  /\ UNCHANGED <<asked, given, queue, heard>>

\* Of the steered messages not heard, the oldest are dropped.
Drops(waiting) ==
  \E rest \in SUBSET waiting :
    queue' = rest /\ \A m \in waiting \ rest : \A n \in rest : m < n

\* The run throws, perhaps on storing a message that was already said: it owes
\* nothing any more, and steered messages it had taken are dropped.
Throw ==
  /\ asked' = FALSE
  /\ owed' = {}
  /\ \/ /\ \/ transcript' = transcript
           \/ ~asked /\ owed # {} /\ Speaks("result")
           \/ Quiet /\ (Speaks("user") \/ Speaks("operator"))
           \/ asked /\ Speaks("assistant")
        /\ heard' = heard /\ Drops(queue)
     \/ /\ Quiet /\ Speaks("steer")
        /\ \E n \in queue : IsFirst(n, queue) /\ heard' = heard \cup {n} /\ Drops(queue \ {n})
  /\ UNCHANGED given

Next == Steer \/ Say \/ Hear \/ Ask \/ Reply \/ Answer \/ Throw

Spec == Init /\ [][Next]_talkVars
=============================================================================
