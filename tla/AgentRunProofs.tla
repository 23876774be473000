--------------------------- MODULE AgentRunProofs ---------------------------
(***************************************************************************)
(* What AgentRun keeps for every turn ceiling, batch size and number of    *)
(* callers: the proofs follow the actions of the module one by one.        *)
(***************************************************************************)
EXTENDS AgentRun, SequenceTheorems, FiniteSetTheorems, TLAPS

-----------------------------------------------------------------------------
(* Operators. *)

\* turnWarningThreshold is 0 for a ceiling of at most two turns, and otherwise
\* at least two and below the ceiling (loop.ts:93-96).
LEMMA WarnAtRange ==
  /\ WarnAt \in 0..(MaxTurns - 1)
  /\ MaxTurns > 2 => WarnAt >= 2
  /\ MaxTurns <= 2 => WarnAt = 0
<1> DEFINE share == (15 * MaxTurns) \div 100
<1>1. share \in Nat /\ (MaxTurns > 2 => share < MaxTurns)
  BY MaxTurnsAssumption
<1>2. QED
  BY <1>1, MaxTurnsAssumption DEF WarnAt

\* The calls of one assistant message: those of one turn, counted from 1.
CallsOfTurn(r, t, n) == {<<r, t, k>> : k \in 1..n}

\* runToolBatch and settleDanglingCalls answer every call once, in its order.
LEMMA ResultsInOrder ==
  ASSUME NEW r, NEW t, NEW n \in Nat
  PROVE  /\ DOMAIN Results(CallsOfTurn(r, t, n)) = 1..n
         /\ \A k \in 1..n : Results(CallsOfTurn(r, t, n))[k] = ResultFor(<<r, t, k>>)
<1> DEFINE calls == CallsOfTurn(r, t, n)
<1>1. {c[3] : c \in calls} = 1..n
  <2>1. \A k \in 1..n : <<r, t, k>> \in calls /\ <<r, t, k>>[3] = k
    BY DEF CallsOfTurn
  <2>2. \A c \in calls : c[3] \in 1..n
    BY DEF CallsOfTurn
  <2> HIDE DEF calls
  <2>3. QED
    BY <2>1, <2>2
<1>2. ASSUME NEW k \in 1..n
      PROVE  (CHOOSE c \in calls : c[3] = k) = <<r, t, k>>
  <2>1. <<r, t, k>> \in calls /\ <<r, t, k>>[3] = k
    BY DEF CallsOfTurn
  <2>2. \A c \in calls : c[3] = k => c = <<r, t, k>>
    BY DEF CallsOfTurn
  <2>3. QED
    BY <2>1, <2>2
<1>3. QED
  BY <1>1, <1>2 DEF Results

\* ... and each answer is a message of the conversation.
LEMMA ResultsTyped ==
  ASSUME NEW r \in 1..MaxPrompts, NEW t \in 0..MaxTurns, NEW n \in 0..BatchSize
  PROVE  Results(CallsOfTurn(r, t, n)) \in Seq(Messages)
<1> DEFINE answers == Results(CallsOfTurn(r, t, n))
<1>1. n \in Nat
  BY BatchSizeAssumption
<1>2. ASSUME NEW k \in 1..n
      PROVE  ResultFor(<<r, t, k>>) \in Messages
  <2>1. <<r, t, k>> \in Calls
    BY <1>1, BatchSizeAssumption DEF Calls
  <2>2. {<<r, t, k>>} \in {{c} : c \in Calls}
    BY <2>1
  <2>3. ResultFor(<<r, t, k>>) \in [role : {"result"}, tag : {0}, calls : {{c} : c \in Calls}]
    BY <2>2 DEF ResultFor, Msg
  <2>4. QED
    BY <2>3 DEF Messages
<1>3. /\ DOMAIN answers = 1..n
      /\ \A k \in 1..n : answers[k] = ResultFor(<<r, t, k>>)
  BY ONLY <1>1, ResultsInOrder
<1>4. \A k \in 1..n : answers[k] \in Messages
  BY <1>2, <1>3
<1>5. answers \in [1..n -> Messages]
  BY <1>3, <1>4 DEF Results
<1>6. QED
  BY <1>1, <1>5, SeqDef

\* Messages the other appends are made of.
LEMMA MessagesTyped ==
  /\ \A n \in 1..MaxPrompts : UserMessage(n) \in Messages
  /\ \A n \in 1..MaxSteers : SteerMessage(n) \in Messages
  /\ \A tag \in {"todo", "ceiling", "progress", "nudge"} : Operator(tag) \in Messages
BY DEF UserMessage, SteerMessage, Operator, Msg, Messages

LEMMA SteersTyped ==
  ASSUME NEW s \in Seq(Messages)
  PROVE  Steers(s) \subseteq 1..MaxSteers
<1>1. \A m \in Messages : m.role = "steer" => m.tag \in 1..MaxSteers
  BY DEF Messages
<1>2. ToSet(s) \subseteq Messages
  BY DEF ToSet
<1>3. QED
  BY <1>1, <1>2 DEF Steers

-----------------------------------------------------------------------------
(* The inductive invariant. *)

\* The reply's calls are those of one turn of one run.
CallsInv ==
  /\ CallsOK
  /\ \/ reply.calls = {}
     \/ \E r \in 1..MaxPrompts, t \in 0..MaxTurns, n \in 0..BatchSize :
          reply.calls = CallsOfTurn(r, t, n)

\* Phases before the first turn; the locals of runLoop are fresh in them.
Outside == {"idle", "open", "seed"}

TurnInv ==
  /\ phase # "idle" => run \in 1..MaxPrompts
  /\ phase \in Outside => turn = 0 /\ warnedAt = 0
  /\ phase \notin Outside \cup {"loop"} => turn < MaxTurns

\* The warning comes at exactly WarnAt remaining turns: none is skipped, since
\* every turn passes the top of the loop and counts for one.
WarnInv ==
  /\ warnedAt # 0 => MaxTurns - warnedAt = WarnAt
  /\ warnedAt = 0 => MaxTurns - turn >= WarnAt
  /\ warnedAt = 0 /\ phase \notin Outside \cup {"loop"} => MaxTurns - turn > WarnAt

\* Where the run is and what it counts.
ControlInv ==
  /\ phase \in Phases
  /\ ended \in {"none", "completed", "aborted", "error", "ceiling"}
  /\ CountersOK /\ TurnInv /\ WarnInv /\ AbortedNeverCompletes

\* What is on record and what the run still has to append.
Flow == history \o todo

\* What a message may ask for: nothing, or the calls of one turn.
CallSets ==
  {{}} \cup {CallsOfTurn(r, t, n) : r \in 1..MaxPrompts, t \in 0..MaxTurns, n \in 0..BatchSize}

\* The results of the calls at position i of s stand right behind it.
Behind(s, i) ==
  /\ i + Len(Results(s[i].calls)) <= Len(s)
  /\ \A k \in 1..Len(Results(s[i].calls)) : s[i + k] = Results(s[i].calls)[k]

\* The reply the run is about to answer.
Pending(i) == phase \in {"reply", "batch"} /\ i = Len(Flow) /\ Flow[i].calls = reply.calls

\* An assistant message is answered in the flow, was cut off by an exception,
\* or is the one whose calls the run is about to answer.
FlowOf(i) ==
  Flow[i].role = "assistant" =>
    Flow[i].calls \in CallSets /\ (CutByCrash(i) \/ Behind(Flow, i) \/ Pending(i))

FlowInv == \A i \in 1..Len(Flow) : FlowOf(i)

\* Phases with nothing to append, and what makes up the rest.
TodoInv ==
  /\ phase \in {"idle", "batch", "stream"} => todo = <<>>
  /\ phase = "open" => todo # <<>> /\ todo[1].role = "user"
  /\ \A k \in DOMAIN steering : steering[k].role = "steer"
  /\ crashes \subseteq 0..Len(history)

\* The steered messages of s are in the order of their calls.
Ordered(s) ==
  \A i, j \in DOMAIN s : i < j /\ s[i].role = "steer" /\ s[j].role = "steer" => s[i].tag < s[j].tag

Below(A, B) == \A a \in A, b \in B : a < b

\* What the model has heard was steered before what the run has taken, and that
\* before what waits; between them they are all there is.
SteerInv ==
  /\ Ordered(history) /\ Ordered(todo) /\ Ordered(steering)
  /\ Below(Steers(history), Steers(todo))
  /\ Below(Steers(history), Steers(steering))
  /\ Below(Steers(todo), Steers(steering))
  /\ Steers(history) \cup Steers(todo) \cup Steers(steering) = (1..steered) \ lost
  /\ lost \subseteq 1..steered

\* What waits to be appended is the reply, the results still missing behind it,
\* or messages that are neither.
ReplyInv ==
  /\ phase = "reply" /\ todo # <<>> => Len(todo) = 1 /\ todo[1].role = "assistant"
  /\ phase # "reply" => \A k \in DOMAIN todo : todo[k].role # "assistant"
  /\ phase \in {"reply", "batch"} /\ reply.calls # {} =>
       /\ Len(Flow) > 0 /\ Flow[Len(Flow)].role = "assistant" /\ Flow[Len(Flow)].calls = reply.calls
       /\ \A n \in crashes : n < Len(Flow)

LastIn(h, i)    == i \in DOMAIN h /\ h[i].role = "assistant" /\ \A j \in (i + 1)..Len(h) : h[j].role # "assistant"
CutIn(h, cr, i) == \E n \in cr : i <= n /\ \A j \in (i + 1)..n : h[j].role # "assistant"

\* Results that wait are those the last reply has not got.
AnswersInv ==
  (\E k \in DOMAIN todo : todo[k].role = "result") =>
    \E i \in DOMAIN history :
      /\ LastIn(history, i) /\ \A n \in crashes : n < i
      /\ i + Len(Results(history[i].calls)) = Len(Flow)

IInv ==
  /\ ControlInv /\ CallsInv /\ FlagsOK /\ ConversationOK /\ TodoInv
  /\ FlowInv /\ SteerInv /\ ReplyInv /\ AnswersInv

\* A reply that streamTurn may return has the type of the variable.
LEMMA RepliesTyped ==
  ASSUME run \in 1..MaxPrompts, turn \in 0..MaxTurns, NEW r \in Replies
  PROVE  /\ r \in [stop : Stops, body : {"none", "thinking", "text"}, calls : SUBSET Calls]
         /\ \E n \in 0..BatchSize : r.calls = CallsOfTurn(run, turn, n)
<1>1. \A n \in 0..BatchSize : CallsOfTurn(run, turn, n) \in SUBSET Calls
  BY BatchSizeAssumption DEF CallsOfTurn, Calls
<1>2. CallsOfTurn(run, turn, 0) = {}
  BY DEF CallsOfTurn
<1>3. CASE r.calls = {}
  <2>1. r \in [stop : Stops, body : {"none", "thinking", "text"}, calls : SUBSET Calls]
    BY <1>3 DEF Replies, AnyReply, FinalAnswer, Stops
  <2>2. QED
    BY <2>1, <1>2, <1>3, BatchSizeAssumption
<1>4. CASE r.calls # {}
  <2>1. PICK n \in 1..BatchSize : r.calls = CallsOfTurn(run, turn, n)
    BY <1>4 DEF Replies, AnyReply, FinalAnswer, CallsOfTurn
  <2>2. r \in [stop : Stops, body : {"none", "thinking", "text"}, calls : {r.calls}]
    BY <1>4 DEF Replies, AnyReply, FinalAnswer, Stops
  <2>3. QED
    BY <1>1, <2>1, <2>2, BatchSizeAssumption
<1>5. QED
  BY <1>3, <1>4

\* However a run ends, its locals start over and what holds of them holds again.
LEMMA EndStep ==
  ASSUME ControlInv, phase # "idle", NEW reason \in {"completed", "aborted", "error", "ceiling"},
         End(reason), ListenersMayAbort, run' = run, reason = "completed" => ~Aborted
  PROVE  ControlInv'
<1>1. CountersOK' /\ TurnInv'
  <2>1. aborted' \subseteq 1..MaxPrompts /\ late' \subseteq aborted'
    BY DEF ControlInv, CountersOK, TurnInv, ListenersMayAbort, signals
  <2>2. QED
    BY <2>1, MaxTurnsAssumption, MaxPausesAssumption DEF ControlInv, CountersOK, TurnInv, End,
       ResetLocals, Outside
<1>2. WarnInv'
  BY WarnAtRange, MaxTurnsAssumption DEF WarnInv, End, ResetLocals, Outside, WarnAt
<1>3. phase' \in Phases /\ ended' = reason /\ AbortedNeverCompletes'
  BY DEF ControlInv, CountersOK, End, Phases, AbortedNeverCompletes, Aborted, ListenersMayAbort,
     signals
<1>4. QED
  BY <1>1, <1>2, <1>3 DEF ControlInv

\* Every step keeps the phase, the counters and the warning in line.
LEMMA ControlStep == ControlInv /\ [Next]_vars => ControlInv'
<1> SUFFICES ASSUME ControlInv, [Next]_vars PROVE ControlInv'
  OBVIOUS
<1> USE MaxTurnsAssumption, MaxPausesAssumption, BoundsAssumption, WarnAtRange
<1> USE DEF ControlInv, CountersOK, TurnInv, WarnInv, AbortedNeverCompletes,
            Outside, Phases, conversation, counters, At, Aborted,
            signals, ListenersMayAbort
<1>1. CASE Prompt
  BY <1>1 DEF Prompt
<1>2. CASE Abort
  BY <1>2 DEF Abort
<1>3. CASE Open
  BY <1>3 DEF Open
<1>4. CASE OpenFails
  BY <1>4, EndStep DEF OpenFails, Crash
<1>5. CASE AppendFails
  BY <1>5, EndStep DEF AppendFails, Crash
<1>6. CASE Seed
  BY <1>6 DEF Seed
<1>7. CASE StopAborted
  BY <1>7, EndStep DEF StopAborted
<1>8. CASE StopAtCeiling
  BY <1>8, EndStep DEF StopAtCeiling
<1>9. CASE TopOfTurn
  BY <1>9 DEF TopOfTurn, AtCeiling, CeilingNear
<1>10. CASE SendRequest
  BY <1>10 DEF SendRequest
<1>11. CASE AbortedBeforeRequest
  BY <1>11, EndStep DEF AbortedBeforeRequest
<1>12. CASE Receive
  BY <1>12 DEF Receive
<1>13. CASE EndSettled
  BY <1>13, EndStep DEF EndSettled
<1>14. CASE CutOff
  BY <1>14 DEF CutOff
<1>15. CASE Pause
  BY <1>15 DEF Pause
<1>16. CASE TooManyPauses
  BY <1>16, EndStep DEF TooManyPauses, Complete, Finished, ReplyLives, ReplyAborted
<1>17. CASE TakeSteering
  BY <1>17 DEF TakeSteering, Finished
<1>18. CASE Nudge
  BY <1>18 DEF Nudge, Finished
<1>19. CASE Finish
  BY <1>19, EndStep DEF Finish, Complete, Finished, ReplyLives, ReplyAborted
<1>20. CASE CallThrows
  BY <1>20, EndStep DEF CallThrows, Crash, Batch
<1>21. CASE HearSteering
  BY <1>21 DEF HearSteering
<1>22. CASE AfterBatch
  BY <1>22 DEF AfterBatch
<1>23. CASE AbortedAfterBatch
  BY <1>23, EndStep DEF AbortedAfterBatch
<1>24. CASE \/ StartNext \/ HookSettles \/ CheckSettles \/ ToolSettles \/ PostHookSettles
            \/ StrayEnds \/ AppendOne \/ Steer
  BY <1>24 DEF StartNext, HookSettles, CheckSettles, ToolSettles, PostHookSettles, StrayEnds,
     AppendOne, Steer
<1>25. CASE \/ SettleFailed \/ SettleAborted \/ Dispatch \/ BatchSettles
  BY <1>25 DEF SettleFailed, SettleAborted, Dispatch, BatchSettles
<1>26. CASE UNCHANGED vars
  BY <1>26 DEF vars
<1>27. QED
  BY <1>1, <1>2, <1>3, <1>4, <1>5, <1>6, <1>7, <1>8, <1>9, <1>10, <1>11, <1>12, <1>13, <1>14,
     <1>15, <1>16, <1>17, <1>18, <1>19, <1>20, <1>21, <1>22, <1>23, <1>24, <1>25, <1>26 DEF Next,
     Caller, Progress

\* Every step keeps the three flags Boolean.
LEMMA FlagsStep == FlagsOK /\ [Next]_vars => FlagsOK'
<1> SUFFICES ASSUME FlagsOK, [Next]_vars PROVE FlagsOK'
  OBVIOUS
<1> USE DEF FlagsOK, conversation, counters, End, ResetLocals, Crash, Complete
<1>1. CASE \/ Prompt \/ Steer \/ Abort \/ Open \/ OpenFails \/ AppendOne \/ AppendFails \/ Seed
           \/ StopAborted \/ StopAtCeiling \/ TopOfTurn \/ SendRequest \/ AbortedBeforeRequest
           \/ Receive \/ SettleFailed \/ SettleAborted \/ EndSettled \/ CutOff \/ Dispatch
           \/ Pause \/ TooManyPauses \/ TakeSteering \/ Nudge \/ Finish \/ StartNext
           \/ HookSettles \/ CheckSettles \/ ToolSettles \/ PostHookSettles \/ CallThrows
           \/ StrayEnds \/ BatchSettles \/ HearSteering \/ AfterBatch \/ AbortedAfterBatch
  BY <1>1 DEF Prompt, Steer, Abort, Open, OpenFails, AppendOne, AppendFails, Seed,
     StopAborted, StopAtCeiling, TopOfTurn, SendRequest, AbortedBeforeRequest, Receive,
     SettleFailed, SettleAborted, EndSettled, CutOff, Dispatch, Pause, TooManyPauses,
     TakeSteering, Nudge, Finish, StartNext, HookSettles, CheckSettles, ToolSettles,
     PostHookSettles, CallThrows, StrayEnds, BatchSettles, HearSteering, AfterBatch,
     AbortedAfterBatch
<1>2. CASE UNCHANGED vars
  BY <1>2 DEF vars
<1>3. QED
  BY <1>1, <1>2 DEF Next, Caller, Progress

\* The reply a run starts and ends with.
LEMMA NoReplyTyped ==
  /\ NoReply \in [stop : Stops \cup {"none"}, body : {"none", "thinking", "text"},
                  calls : SUBSET Calls]
  /\ NoReply.calls = {}
BY DEF NoReply

\* Every step keeps the reply and the dispatched calls well formed: a batch is
\* only ever the calls of one turn, also after an exception left strays behind.
LEMMA CallsStep == CallsInv /\ ControlInv /\ [Next]_vars => CallsInv'
<1> SUFFICES ASSUME CallsInv /\ ControlInv, [Next]_vars PROVE CallsInv'
  OBVIOUS
<1> USE DEF CallsInv, conversation, counters, Active, CallsOK
<1>1. CASE Receive
  <2>1. run \in 1..MaxPrompts /\ turn \in 0..MaxTurns
    BY <1>1 DEF Receive, At, ControlInv, TurnInv, CountersOK
  <2>2. PICK r \in Replies : reply' = r
    BY <1>1 DEF Receive
  <2>3. CallsInv'
    BY <1>1, <2>1, <2>2, RepliesTyped DEF Receive
  <2>4. QED
    BY <2>3
<1>2. CASE Dispatch
  BY <1>2 DEF Dispatch
<1>3. CASE StartNext
  BY <1>3 DEF StartNext
<1>4. CASE HookSettles
  BY <1>4 DEF HookSettles
<1>5. CASE CheckSettles
  BY <1>5 DEF CheckSettles
<1>6. CASE ToolSettles
  BY <1>6 DEF ToolSettles
<1>7. CASE PostHookSettles
  BY <1>7 DEF PostHookSettles
<1>8. CASE CallThrows
  <2>1. reply' = NoReply
    BY <1>8 DEF CallThrows, Crash, End
  <2>2. DOMAIN call' \subseteq DOMAIN call /\ \A c \in DOMAIN call' : call'[c] = call[c]
    BY <1>8 DEF CallThrows
  <2>3. QED
    BY <2>1, <2>2, NoReplyTyped
<1>9. CASE StrayEnds
  BY <1>9 DEF StrayEnds
<1>10. CASE BatchSettles
  <2>1. reply' = NoReply
    BY <1>10 DEF BatchSettles
  <2>2. DOMAIN call' \subseteq DOMAIN call /\ \A c \in DOMAIN call' : call'[c] = call[c]
    BY <1>10 DEF BatchSettles
  <2>3. QED
    BY <2>1, <2>2, NoReplyTyped
<1>11. CASE \/ Prompt \/ Steer \/ Abort \/ Open \/ AppendOne \/ Seed \/ TopOfTurn \/ SendRequest
            \/ HearSteering \/ AfterBatch
  BY <1>11 DEF Prompt, Steer, Abort, Open, AppendOne, Seed, TopOfTurn, SendRequest,
     HearSteering, AfterBatch
<1>12. CASE \/ OpenFails \/ AppendFails \/ StopAborted \/ StopAtCeiling \/ AbortedBeforeRequest
            \/ SettleFailed \/ SettleAborted \/ EndSettled \/ CutOff \/ Pause \/ TooManyPauses
            \/ TakeSteering \/ Nudge \/ Finish \/ AbortedAfterBatch
  <2>1. reply' = NoReply /\ UNCHANGED call
    BY <1>12 DEF OpenFails, AppendFails, StopAborted, StopAtCeiling, AbortedBeforeRequest,
                 SettleFailed, SettleAborted, EndSettled, CutOff, Pause, TooManyPauses,
                 TakeSteering, Nudge, Finish, AbortedAfterBatch, Crash, Complete, End
  <2>2. QED
    BY <2>1, NoReplyTyped
<1>13. CASE UNCHANGED vars
  BY <1>13 DEF vars
<1>14. QED
  BY <1>1, <1>2, <1>3, <1>4, <1>5, <1>6, <1>7, <1>8, <1>9, <1>10, <1>11, <1>12, <1>13 DEF
     Next, Caller, Progress

\* Whatever answers a reply's calls is a sequence of messages.
LEMMA AnswersTyped ==
  ASSUME CallsInv
  PROVE  Results(reply.calls) \in Seq(Messages)
<1>1. CASE reply.calls = {}
  <2>1. {c[3] : c \in {}} = 1..0
    OBVIOUS
  <2>2. Results({}) \in [1..0 -> Messages]
    BY <2>1 DEF Results
  <2>3. QED
    BY <1>1, <2>2, SeqDef
<1>2. CASE reply.calls # {}
  BY <1>2, ResultsTyped DEF CallsInv
<1>3. QED
  BY <1>1, <1>2

\* What runLoop records of a reply is a sequence of messages.
LEMMA RecordedTyped ==
  ASSUME NEW r, r.calls \in SUBSET Calls
  PROVE  Recorded(r) \in Seq(Messages)
<1>1. Assistant(r) \in [role : {"assistant"}, tag : {"turn", "paused"}, calls : SUBSET Calls]
  BY DEF Assistant, Msg
<1>2. Assistant(r) \in Messages
  BY <1>1 DEF Messages
<1>3. QED
  BY <1>2 DEF Recorded

\* A step that takes what is still to append from typed sequences only.
ConversationSteps ==
  \/ Prompt \/ Steer \/ OpenFails \/ AppendOne \/ AppendFails \/ Seed \/ TopOfTurn \/ Receive
  \/ SettleFailed \/ SettleAborted \/ CutOff \/ TakeSteering \/ Nudge \/ CallThrows
  \/ BatchSettles \/ HearSteering

\* Every step appends messages only, and loses steered messages only.
LEMMA ConversationStep ==
  ControlInv /\ CallsInv /\ ConversationOK /\ [Next]_vars => ConversationOK'
<1> SUFFICES ASSUME ControlInv, CallsInv, ConversationOK, [Next]_vars PROVE ConversationOK'
  OBVIOUS
<1> USE BoundsAssumption DEF ConversationOK
<1>1. CASE Prompt
  <2>1. run + 1 \in 1..MaxPrompts
    BY <1>1 DEF Prompt, ControlInv, CountersOK
  <2>2. <<UserMessage(run + 1)>> \in Seq(Messages)
    BY <2>1, MessagesTyped
  <2>3. QED
    BY <1>1, <2>2 DEF Prompt, QueuedWhileIdle
<1>2. CASE Steer
  <2>1. SteerMessage(steered + 1) \in Messages /\ steered + 1 \in 0..MaxSteers
    BY <1>2, MessagesTyped DEF Steer
  <2>2. QED
    BY <1>2, <2>1 DEF Steer
<1>3. CASE OpenFails
  <2>1. Steers(todo) \subseteq 1..MaxSteers
    BY SteersTyped
  <2>2. lost' = lost \cup Steers(todo) /\ todo' = <<>>
        /\ UNCHANGED <<history, steering, steered, crashes>>
    BY <1>3 DEF OpenFails, Crash
  <2>3. lost' \subseteq 1..MaxSteers
    BY <2>1, <2>2
  <2>4. todo' \in Seq(Messages)
    BY <2>2, EmptySeq
  <2>5. QED
    BY <2>2, <2>3, <2>4
<1>4. CASE AppendOne
  BY <1>4 DEF AppendOne
<1>5. CASE AppendFails
  <2>1. history' \in Seq(Messages) /\ Tail(todo) \in Seq(Messages)
    BY <1>5 DEF AppendFails
  <2>2. Steers(Tail(todo)) \subseteq 1..MaxSteers
    BY <2>1, SteersTyped
  <2>3. Len(history') \in Nat
    BY <2>1
  <2>4. /\ lost' = lost \cup Steers(Tail(todo)) /\ todo' = <<>>
        /\ crashes' = crashes \cup {Len(history')} /\ UNCHANGED <<steering, steered>>
    BY <1>5 DEF AppendFails, Crash
  <2>5. lost' \subseteq 1..MaxSteers /\ crashes' \subseteq Nat
    BY <2>2, <2>3, <2>4
  <2>6. todo' \in Seq(Messages)
    BY <2>4, EmptySeq
  <2>7. QED
    BY <2>1, <2>4, <2>5, <2>6
<1>6. CASE Seed
  BY <1>6, MessagesTyped DEF Seed
<1>7. CASE TopOfTurn
  <2>1. <<Operator("ceiling")>> \in Seq(Messages) /\ <<Operator("progress")>> \in Seq(Messages)
    BY MessagesTyped
  <2>2. todo' \in Seq(Messages)
    BY <1>7, <2>1 DEF TopOfTurn
  <2>3. QED
    BY <1>7, <2>2 DEF TopOfTurn
<1>8. CASE Receive
  <2>1. run \in 1..MaxPrompts /\ turn \in 0..MaxTurns
    BY <1>8 DEF Receive, At, ControlInv, TurnInv, CountersOK
  <2>2. PICK r \in Replies : todo' = Recorded(r)
    BY <1>8 DEF Receive
  <2>3. todo' \in Seq(Messages)
    BY <2>1, <2>2, RepliesTyped, RecordedTyped
  <2>4. QED
    BY <1>8, <2>3 DEF Receive
<1>9. CASE SettleFailed \/ SettleAborted \/ CutOff
  BY <1>9, AnswersTyped DEF SettleFailed, SettleAborted, CutOff, SyntheticResults
<1>10. CASE TakeSteering
  BY <1>10 DEF TakeSteering
<1>11. CASE Nudge
  BY <1>11, MessagesTyped DEF Nudge
<1>12. CASE CallThrows
  <2>1. Steers(<<>>) \subseteq 1..MaxSteers
    BY EmptySeq, SteersTyped
  <2>2. Len(history) \in Nat
    OBVIOUS
  <2>3. /\ lost' = lost \cup Steers(<<>>) /\ todo' = <<>>
        /\ crashes' = crashes \cup {Len(history)} /\ UNCHANGED <<history, steering, steered>>
    BY <1>12 DEF CallThrows, Crash
  <2>4. lost' \subseteq 1..MaxSteers /\ crashes' \subseteq Nat
    BY <2>1, <2>2, <2>3
  <2>5. todo' \in Seq(Messages)
    BY <2>3, EmptySeq
  <2>6. QED
    BY <2>3, <2>4, <2>5
<1>13. CASE BatchSettles
  <2>1. Batch = reply.calls
    BY <1>13 DEF BatchSettles, Batch, At
  <2>2. QED
    BY <1>13, <2>1, AnswersTyped DEF BatchSettles
<1>14. CASE HearSteering
  BY <1>14 DEF HearSteering
<1>15. CASE UNCHANGED conversation
  BY <1>15 DEF conversation
<1>16. CASE (Next /\ ~ConversationSteps) \/ UNCHANGED vars
  <2>1. UNCHANGED conversation
    BY <1>16 DEF Next, Caller, Progress, ConversationSteps, vars, conversation, Abort, Open,
       StopAborted, StopAtCeiling, SendRequest, AbortedBeforeRequest, EndSettled, Dispatch,
       Pause, TooManyPauses, Finish, Complete, StartNext, HookSettles, CheckSettles, ToolSettles,
       PostHookSettles, StrayEnds, AfterBatch, AbortedAfterBatch
  <2>2. QED
    BY <1>15, <2>1
<1>17. QED
  BY <1>1, <1>2, <1>3, <1>4, <1>5, <1>6, <1>7, <1>8, <1>9, <1>10, <1>11, <1>12, <1>13, <1>14,
     <1>16 DEF ConversationSteps

-----------------------------------------------------------------------------
(* Calls and their results. *)

\* What waits to be appended has the shape its phase says.
LEMMA TodoStep ==
  ControlInv /\ CallsInv /\ ConversationOK /\ TodoInv /\ [Next]_vars => TodoInv'
<1> SUFFICES ASSUME ControlInv, CallsInv, ConversationOK, TodoInv, [Next]_vars PROVE TodoInv'
  OBVIOUS
<1> USE DEF TodoInv
<1>1. history \in Seq(Messages) /\ todo \in Seq(Messages) /\ steering \in Seq(Messages)
  BY DEF ConversationOK
<1>2. CASE Prompt
  <2>1. todo' = <<UserMessage(run + 1)>> \o steering /\ phase' = "open" /\ steering' = <<>>
        /\ UNCHANGED <<history, crashes>>
    BY <1>2 DEF Prompt, QueuedWhileIdle
  <2>2. todo' # <<>> /\ todo'[1] = UserMessage(run + 1)
    BY <1>1, <2>1
  <2>3. QED
    BY <2>1, <2>2 DEF UserMessage, Msg
<1>3. CASE Steer
  <2>1. /\ steering' = Append(steering, SteerMessage(steered + 1))
        /\ SteerMessage(steered + 1) \in Messages
        /\ UNCHANGED <<phase, todo, history, crashes>>
    BY <1>3, BoundsAssumption, MessagesTyped DEF Steer, ConversationOK
  <2>2. PICK message \in Messages : message = SteerMessage(steered + 1)
    BY <2>1
  <2>3. steering' = Append(steering, message) /\ message.role = "steer"
    BY <2>1, <2>2 DEF SteerMessage, Msg
  <2>4. QED
    BY <1>1, <2>1, <2>3
<1>4. CASE AppendOne
  BY <1>1, <1>4 DEF AppendOne
<1>5. CASE AppendFails \/ OpenFails \/ CallThrows
  BY <1>1, <1>5 DEF AppendFails, OpenFails, CallThrows, Crash, End
<1>6. CASE TakeSteering \/ HearSteering
  BY <1>1, <1>6 DEF TakeSteering, HearSteering
<1>7. CASE \/ Receive \/ SettleFailed \/ SettleAborted \/ CutOff \/ Nudge \/ Seed \/ TopOfTurn
           \/ BatchSettles
  BY <1>7 DEF Receive, SettleFailed, SettleAborted, CutOff, Nudge, Seed, TopOfTurn, BatchSettles
<1>8. CASE \/ StopAborted \/ StopAtCeiling \/ AbortedBeforeRequest \/ EndSettled \/ TooManyPauses
           \/ Finish \/ AbortedAfterBatch \/ SendRequest \/ Dispatch \/ Pause \/ AfterBatch
  BY <1>8 DEF StopAborted, StopAtCeiling, AbortedBeforeRequest, EndSettled, TooManyPauses, Finish,
     AbortedAfterBatch, SendRequest, Dispatch, Pause, AfterBatch, End, Complete, At, Finished, conversation
<1>9. CASE \/ Abort \/ Open \/ StartNext \/ HookSettles \/ CheckSettles \/ ToolSettles \/ PostHookSettles
           \/ StrayEnds \/ UNCHANGED vars
  BY <1>9 DEF Abort, Open, StartNext, HookSettles, CheckSettles, ToolSettles, PostHookSettles,
     StrayEnds, vars, conversation
<1>10. QED
  BY <1>2, <1>3, <1>4, <1>5, <1>6, <1>7, <1>8, <1>9 DEF Next, Caller, Progress

\* Every call of one message has one result, and a result is no question.
LEMMA AnswersFit ==
  ASSUME NEW calls \in CallSets
  PROVE  /\ Results(calls) \in Seq(Messages)
         /\ Len(Results(calls)) = Cardinality(calls)
         /\ Len(Results(calls)) \in Nat
         /\ \A k \in 1..Len(Results(calls)) : Results(calls)[k].role = "result"
<1>1. CASE calls = {}
  <2>1. {c[3] : c \in {}} = 1..0
    OBVIOUS
  <2>2. Results({}) \in [1..0 -> Messages] /\ DOMAIN Results({}) = 1..0
    BY <2>1 DEF Results
  <2>3. Results({}) \in Seq(Messages) /\ Len(Results({})) = 0
    BY <2>2, SeqDef
  <2>4. Cardinality({}) = 0
    BY FS_EmptySet
  <2>5. QED
    BY <1>1, <2>3, <2>4
<1>2. CASE calls # {}
  <2>1. PICK r \in 1..MaxPrompts, t \in 0..MaxTurns, n \in 0..BatchSize : calls = CallsOfTurn(r, t, n)
    BY <1>2 DEF CallSets
  <2>2. n \in Nat
    BY BatchSizeAssumption
  <2>3. /\ DOMAIN Results(calls) = 1..n
        /\ \A k \in 1..n : Results(calls)[k] = ResultFor(<<r, t, k>>)
    BY <2>1, <2>2, ResultsInOrder
  <2>4. Results(calls) \in Seq(Messages)
    BY <2>1, ResultsTyped
  <2>5. Len(Results(calls)) = n
    BY <2>2, <2>3, <2>4
  <2>6. \A k \in 1..n : Results(calls)[k].role = "result"
    BY <2>3 DEF ResultFor, Msg
  <2>7. Cardinality(calls) = n
    <3> DEFINE at == [k \in 1..n |-> <<r, t, k>>]
    <3>1. IsFiniteSet(1..n) /\ Cardinality(1..n) = n
      BY <2>2, FS_Interval
    <3>2. at \in [1..n -> calls]
      BY <2>1 DEF CallsOfTurn
    <3>3. \A j, k \in 1..n : at[j] = at[k] => j = k
      OBVIOUS
    <3>4. \A c \in calls : \E k \in 1..n : at[k] = c
      BY <2>1 DEF CallsOfTurn
    <3>5. at \in Bijection(1..n, calls)
      BY <3>2, <3>3, <3>4 DEF Bijection, Injection, Surjection, IsInjective
    <3>6. QED
      BY <3>1, <3>5, FS_Bijection DEF ExistsBijection
  <2>8. QED
    BY <2>2, <2>4, <2>5, <2>6, <2>7
<1>3. QED
  BY <1>1, <1>2

\* What was cut off by an exception stays cut off: the history only grows.
LEMMA CutStays ==
  ASSUME crashes \subseteq 0..Len(history), Len(history) \in Nat, crashes \subseteq crashes',
         \A j \in 1..Len(history) : history'[j] = history[j], NEW i \in Nat \ {0}, CutByCrash(i)
  PROVE  CutByCrash(i)'
BY DEF CutByCrash

\* What the invariant asks of the next state, position by position.
LEMMA FlowAgain ==
  ASSUME \A i \in 1..Len(Flow') : Flow'[i].role = "assistant" =>
           Flow'[i].calls \in CallSets /\ (CutByCrash(i)' \/ Behind(Flow', i) \/ Pending(i)')
  PROVE  FlowInv'
<1>1. SUFFICES ASSUME NEW i \in 1..Len(Flow') PROVE FlowOf(i)'
  BY DEF FlowInv
<1>2. CASE Flow'[i].role # "assistant"
  BY <1>2 DEF FlowOf
<1>3. CASE Flow'[i].role = "assistant"
  <2>1. Flow'[i].calls \in CallSets /\ (CutByCrash(i)' \/ Behind(Flow', i) \/ Pending(i)')
    BY <1>3
  <2>2. Behind(Flow', i) => Behind(Flow, i)'
    BY ONLY DEF Behind
  <2>3. CallSets' = CallSets
    BY ONLY DEF CallSets, CallsOfTurn
  <2>4. QED
    BY ONLY <2>1, <2>2, <2>3 DEF FlowOf
<1>4. QED
  BY <1>2, <1>3

\* A run that has no unanswered reply may append whatever is no reply; one
\* that has may append its results, or wait.
LEMMA FlowGrows ==
  ASSUME ConversationOK, TodoInv, FlowInv, CallsInv,
         crashes \subseteq crashes',
         \A j \in 1..Len(history) : history'[j] = history[j],
         NEW added \in Seq(Messages), Flow' = Flow \o added,
         \A k \in 1..Len(added) : added[k].role # "assistant",
         \/ phase \notin {"reply", "batch"}
         \/ reply.calls = {}
         \/ added = Results(reply.calls)
         \/ phase' \in {"reply", "batch"} /\ reply' = reply /\ added = <<>>
  PROVE  FlowInv'
<1>1. Flow \in Seq(Messages) /\ Len(history) \in Nat
  BY DEF ConversationOK, Flow
<1>2. /\ Len(Flow') = Len(Flow) + Len(added) /\ Len(Flow) \in Nat /\ Len(added) \in Nat
      /\ \A j \in 1..Len(Flow) : Flow'[j] = Flow[j]
      /\ \A k \in 1..Len(added) : Flow'[Len(Flow) + k] = added[k]
  BY <1>1
<1>3. SUFFICES ASSUME NEW i \in 1..Len(Flow'), Flow'[i].role = "assistant"
               PROVE  Flow'[i].calls \in CallSets /\ (CutByCrash(i)' \/ Behind(Flow', i) \/ Pending(i)')
  BY FlowAgain
<1>4. i \in 1..Len(Flow) /\ Flow'[i] = Flow[i]
  <2>1. CASE i > Len(Flow)
    <3>1. i - Len(Flow) \in 1..Len(added) /\ i = Len(Flow) + (i - Len(Flow))
      BY <1>2, <2>1
    <3>2. QED
      BY <1>2, <1>3, <3>1
  <2>2. QED
    BY <1>2, <2>1
<1>5. FlowOf(i) /\ Flow[i].role = "assistant"
  BY <1>3, <1>4 DEF FlowInv
<1>6. Flow[i].calls \in CallSets /\ (CutByCrash(i) \/ Behind(Flow, i) \/ Pending(i))
  BY <1>5 DEF FlowOf
<1>7. CASE CutByCrash(i)
  BY <1>1, <1>4, <1>6, <1>7, CutStays DEF TodoInv
<1>8. CASE Behind(Flow, i)
  <2>1. Len(Results(Flow[i].calls)) \in Nat
    BY <1>6, AnswersFit
  <2>2. Behind(Flow', i)
    BY <1>2, <1>4, <1>8, <2>1 DEF Behind
  <2>3. QED
    BY <1>4, <1>6, <2>2
<1>9. CASE Pending(i)
  <2>1. CASE added = Results(reply.calls)
    <3>1. Behind(Flow', i)
      BY <1>2, <1>4, <1>9, <2>1 DEF Behind, Pending
    <3>2. QED
      BY <1>4, <1>6, <3>1
  <2>2. CASE phase' \in {"reply", "batch"} /\ reply' = reply /\ added = <<>>
    <3>1. Len(Flow') = Len(Flow)
      BY <1>2, <2>2
    <3>2. Pending(i)'
      BY <1>4, <1>9, <2>2, <3>1 DEF Pending
    <3>3. QED
      BY <1>4, <1>6, <3>2
  <2>3. CASE reply.calls = {}
    <3>1. Flow[i].calls = {}
      BY <1>9, <2>3 DEF Pending
    <3>2. Len(Results({})) = 0
      BY <1>6, <3>1, AnswersFit, FS_EmptySet
    <3>3. Behind(Flow', i)
      BY <1>2, <1>4, <3>1, <3>2 DEF Behind
    <3>4. QED
      BY <1>4, <1>6, <3>3
  <2>4. QED
    BY <1>9, <2>1, <2>2, <2>3 DEF Pending
<1>10. QED
  BY <1>6, <1>7, <1>8, <1>9

\* An exception leaves a beginning of the flow on record.  Its last reply is
\* cut off; the others had their results before it.
LEMMA FlowCut ==
  ASSUME ConversationOK, TodoInv, FlowInv,
         NEW n \in 0..Len(Flow), n >= Len(history),
         history' \in Seq(Messages), Len(history') = n, Flow' = history',
         \A j \in 1..n : Flow'[j] = Flow[j],
         crashes' = crashes \cup {n}
  PROVE  FlowInv'
<1>1. /\ Flow \in Seq(Messages) /\ Len(history) \in Nat /\ Len(Flow) \in Nat
      /\ \A j \in 1..Len(history) : Flow[j] = history[j]
  BY DEF ConversationOK, Flow
<1>2. SUFFICES ASSUME NEW i \in 1..Len(Flow'), Flow'[i].role = "assistant"
               PROVE  Flow'[i].calls \in CallSets /\ (CutByCrash(i)' \/ Behind(Flow', i) \/ Pending(i)')
  BY FlowAgain
<1>3. i \in 1..n /\ i \in 1..Len(Flow) /\ Flow'[i] = Flow[i] /\ n \in Nat
  BY <1>1, <1>2
<1>4. Flow[i].calls \in CallSets /\ (CutByCrash(i) \/ Behind(Flow, i) \/ Pending(i))
  BY <1>2, <1>3 DEF FlowInv, FlowOf
<1>5. CASE \A j \in (i + 1)..n : history'[j].role # "assistant"
  BY <1>3, <1>4, <1>5 DEF CutByCrash
<1>6. CASE \E j \in (i + 1)..n : history'[j].role = "assistant"
  <2>1. PICK j \in (i + 1)..n : Flow'[j].role = "assistant"
    BY <1>6
  <2>2. j \in 1..Len(Flow) /\ i < j /\ Flow[j].role = "assistant"
    BY <1>1, <1>3, <2>1
  <2>3. CASE CutByCrash(i)
    <3>1. \A k \in 1..Len(history) : history'[k] = history[k]
      BY <1>1, <1>3
    <3>2. QED
      BY <1>1, <1>3, <1>4, <2>3, <3>1, CutStays DEF TodoInv
  <2>4. CASE Behind(Flow, i)
    <3> DEFINE answers == Results(Flow[i].calls)
    <3>1. Len(answers) \in Nat /\ \A k \in 1..Len(answers) : answers[k].role = "result"
      BY <1>4, AnswersFit
    <3>2. \A k \in 1..Len(answers) : Flow[i + k] = answers[k]
      BY <2>4 DEF Behind
    <3> HIDE DEF answers
    <3>3. j > i + Len(answers)
      <4>1. CASE j <= i + Len(answers)
        <5>1. j - i \in 1..Len(answers) /\ i + (j - i) = j
          BY <2>1, <2>2, <3>1, <1>3, <4>1
        <5>2. Flow[j].role = "result"
          BY <3>1, <3>2, <5>1
        <5>3. QED
          BY <2>2, <5>2
      <4>2. QED
        BY <1>3, <2>1, <3>1, <4>1
    <3>4. \A k \in 1..Len(answers) : Flow'[i + k] = answers[k]
      <4>1. ASSUME NEW k \in 1..Len(answers)
            PROVE  i + k \in 1..n
        BY <1>3, <2>1, <3>1, <3>3
      <4>2. QED
        BY <4>1, <3>2
    <3>5. i + Len(answers) <= Len(Flow')
      BY <1>3, <2>1, <3>1, <3>3
    <3>6. Behind(Flow', i)
      BY <1>3, <3>4, <3>5 DEF Behind, answers
    <3>7. QED
      BY <1>3, <1>4, <3>6
  <2>5. CASE Pending(i)
    BY <1>1, <2>2, <2>5 DEF Pending
  <2>6. QED
    BY <1>4, <2>3, <2>4, <2>5
<1>7. QED
  BY <1>5, <1>6

\* Messages of these roles ask for nothing.
LEMMA NoQuestions ==
  /\ \A n : UserMessage(n).role = "user" /\ SteerMessage(n).role = "steer"
  /\ \A tag : Operator(tag).role = "operator"
BY DEF UserMessage, SteerMessage, Operator, Msg

\* The step of a run whose exception drops what it had to append.
LEMMA FlowCutSteps ==
  ASSUME ControlInv, CallsInv, ConversationOK, TodoInv, FlowInv, ConversationOK',
         AppendFails \/ CallThrows \/ OpenFails
  PROVE  FlowInv'
<1>1. /\ history \in Seq(Messages) /\ todo \in Seq(Messages) /\ history' \in Seq(Messages)
      /\ Flow \in Seq(Messages) /\ Len(Flow) = Len(history) + Len(todo)
      /\ Len(history) \in Nat /\ Len(todo) \in Nat
      /\ \A j \in 1..Len(history) : Flow[j] = history[j]
      /\ \A j \in 1..Len(todo) : Flow[Len(history) + j] = todo[j]
  BY DEF ConversationOK, Flow
<1>2. CASE AppendFails
  <2>1. /\ history' = Append(history, Head(todo)) /\ todo # <<>> /\ todo' = <<>>
        /\ crashes' = crashes \cup {Len(history')}
    BY <1>2 DEF AppendFails, Crash
  <2>2. /\ Len(history') = Len(history) + 1 /\ Len(history') \in 0..Len(Flow)
        /\ Head(todo) = todo[1] /\ 1 \in 1..Len(todo)
    BY <1>1, <2>1
  <2>3. \A j \in 1..Len(history') : history'[j] = Flow[j]
    BY <1>1, <2>1, <2>2
  <2>4. Flow' = history'
    BY <1>1, <2>1 DEF Flow
  <2>5. PICK n \in 0..Len(Flow) : n = Len(history') /\ n >= Len(history)
    BY <1>1, <2>2
  <2>6. QED
    BY <1>1, <2>1, <2>3, <2>4, <2>5, FlowCut
<1>3. CASE CallThrows
  <2>1. phase = "batch"
    BY <1>3 DEF CallThrows, Batch
  <2>2. todo = <<>> /\ todo' = <<>> /\ history' = history /\ crashes' = crashes \cup {Len(history)}
    BY <1>3, <2>1 DEF CallThrows, Crash, TodoInv
  <2>3. Flow = history /\ Flow' = history'
    BY <1>1, <2>2 DEF Flow
  <2>4. PICK n \in 0..Len(Flow) : n = Len(history)
    BY <1>1, <2>3
  <2>5. /\ n >= Len(history) /\ history' \in Seq(Messages) /\ Len(history') = n
        /\ \A j \in 1..n : Flow'[j] = Flow[j]
        /\ crashes' = crashes \cup {n}
    BY <1>1, <2>2, <2>3, <2>4
  <2>6. QED
    BY <2>3, <2>5, FlowCut
<1>4. CASE OpenFails
  <2>1. /\ phase = "open" /\ todo # <<>> /\ todo[1].role = "user" /\ todo' = <<>>
        /\ history' = history /\ crashes' = crashes
    BY <1>4 DEF OpenFails, Crash, TodoInv
  <2>2. Flow' = history /\ 1 \in 1..Len(todo)
    BY <1>1, <2>1 DEF Flow
  <2>3. Flow[Len(history) + 1].role = "user" /\ Len(history) + 1 <= Len(Flow)
    BY <1>1, <2>1, <2>2
  <2>4. SUFFICES ASSUME NEW i \in 1..Len(Flow'), Flow'[i].role = "assistant"
                 PROVE  Flow'[i].calls \in CallSets /\ (CutByCrash(i)' \/ Behind(Flow', i) \/ Pending(i)')
    BY FlowAgain
  <2>5. i \in 1..Len(history) /\ i \in 1..Len(Flow) /\ Flow'[i] = Flow[i]
    BY <1>1, <2>2
  <2>6. Flow[i].calls \in CallSets /\ (CutByCrash(i) \/ Behind(Flow, i))
    BY <1>1, <2>1, <2>4, <2>5 DEF FlowInv, FlowOf, Pending
  <2>7. CASE CutByCrash(i)
    BY <2>1, <2>5, <2>6, <2>7 DEF CutByCrash
  <2>8. CASE Behind(Flow, i)
    <3> DEFINE answers == Results(Flow[i].calls)
    <3>1. Len(answers) \in Nat /\ \A k \in 1..Len(answers) : answers[k].role = "result"
      BY <2>6, AnswersFit
    <3>2. \A k \in 1..Len(answers) : Flow[i + k] = answers[k]
      BY <2>8 DEF Behind
    <3> HIDE DEF answers
    <3>3. i + Len(answers) <= Len(history)
      <4>1. CASE i + Len(answers) > Len(history)
        <5>1. Len(history) + 1 - i \in 1..Len(answers) /\ i + (Len(history) + 1 - i) = Len(history) + 1
          BY <1>1, <2>5, <3>1, <4>1
        <5>2. Flow[Len(history) + 1].role = "result"
          BY <3>1, <3>2, <5>1
        <5>3. QED
          BY <2>3, <5>2
      <4>2. QED
        BY <1>1, <2>5, <3>1, <4>1
    <3>4. \A k \in 1..Len(answers) : Flow'[i + k] = answers[k]
      <4>1. ASSUME NEW k \in 1..Len(answers)
            PROVE  i + k \in 1..Len(history)
        BY <1>1, <2>5, <3>1, <3>3
      <4>2. QED
        BY <1>1, <2>2, <3>2, <4>1
    <3>5. Behind(Flow', i)
      BY <2>2, <2>5, <3>3, <3>4 DEF Behind, answers
    <3>6. QED
      BY <2>5, <2>6, <3>5
  <2>9. QED
    BY <2>6, <2>7, <2>8
<1>5. QED
  BY <1>2, <1>3, <1>4

\* A step that starts with nothing to append and only fills "todo".
LEMMA FlowFilled ==
  ASSUME ConversationOK, TodoInv, FlowInv, CallsInv, ConversationOK', todo = <<>>,
         UNCHANGED <<history, crashes>>,
         \A k \in 1..Len(todo') : todo'[k].role # "assistant",
         \/ phase \notin {"reply", "batch"}
         \/ reply.calls = {}
         \/ todo' = Results(reply.calls)
  PROVE  FlowInv'
<1>1. history \in Seq(Messages) /\ todo' \in Seq(Messages)
  BY DEF ConversationOK
<1>2. PICK added \in Seq(Messages) : added = todo'
  BY <1>1
<1>3. Flow' = Flow \o added
  BY <1>1, <1>2 DEF Flow
<1>4. \A k \in 1..Len(added) : added[k].role # "assistant"
  BY <1>2
<1>5. QED
  BY <1>2, <1>3, <1>4, FlowGrows

\* A step that leaves the flow as it is: it is not about a reply, the reply
\* asks for nothing, or the reply goes on waiting.
LEMMA FlowUntouched ==
  ASSUME ConversationOK, TodoInv, FlowInv, CallsInv,
         Flow' = Flow, crashes' = crashes,
         \A j \in 1..Len(history) : history'[j] = history[j],
         \/ phase \notin {"reply", "batch"}
         \/ reply.calls = {}
         \/ phase' \in {"reply", "batch"} /\ reply' = reply
  PROVE  FlowInv'
<1>1. Flow \in Seq(Messages) /\ <<>> \in Seq(Messages) /\ Len(<<>>) = 0
  BY EmptySeq DEF ConversationOK, Flow
<1>2. Flow' = Flow \o <<>>
  BY <1>1
<1>3. PICK added \in Seq(Messages) : added = <<>>
  BY <1>1
<1>4. Flow' = Flow \o added /\ \A k \in 1..Len(added) : added[k].role # "assistant"
  BY <1>1, <1>2, <1>3
<1>5. QED
  BY <1>3, <1>4, FlowGrows

\* The reply that arrives is the last of the flow.
LEMMA FlowReply ==
  ASSUME ControlInv, CallsInv, ConversationOK, TodoInv, FlowInv, ConversationOK', Receive
  PROVE  FlowInv'
<1>1. /\ history \in Seq(Messages) /\ todo' \in Seq(Messages) /\ Len(history) \in Nat
      /\ phase = "stream" /\ todo = <<>> /\ phase' = "reply"
      /\ UNCHANGED <<history, crashes>>
  BY DEF ConversationOK, Receive, At
<1>2. run \in 1..MaxPrompts /\ turn \in 0..MaxTurns
  BY DEF Receive, At, ControlInv, TurnInv, CountersOK
<1>3. PICK r \in Replies : reply' = r /\ todo' = Recorded(r)
  BY DEF Receive
<1>4. CASE todo' = <<>>
  <2>1. Flow' = Flow
    BY <1>1, <1>4 DEF Flow
  <2>2. QED
    BY <1>1, <2>1, FlowUntouched
<1>5. CASE todo' = <<Assistant(r)>>
  <2>1. r.calls \in CallSets
    BY <1>2, <1>3, RepliesTyped DEF CallSets
  <2>2. Flow = history /\ Flow' = Append(history, Assistant(r))
    BY <1>1, <1>5 DEF Flow
  <2>3. Assistant(r).calls = r.calls /\ Assistant(r) \in Messages
    BY <1>1, <1>5 DEF Assistant, Msg
  <2>4. /\ Len(Flow') = Len(history) + 1 /\ Flow'[Len(history) + 1] = Assistant(r)
        /\ \A j \in 1..Len(history) : Flow'[j] = Flow[j]
    BY <1>1, <2>2, <2>3
  <2>5. SUFFICES ASSUME NEW i \in 1..Len(Flow'), Flow'[i].role = "assistant"
                 PROVE  Flow'[i].calls \in CallSets /\ (CutByCrash(i)' \/ Behind(Flow', i) \/ Pending(i)')
    BY FlowAgain
  <2>6. CASE i = Len(history) + 1
    <3>1. Pending(i)'
      BY <1>1, <1>3, <2>3, <2>4, <2>6 DEF Pending
    <3>2. QED
      BY <2>1, <2>3, <2>4, <2>6, <3>1
  <2>7. CASE i # Len(history) + 1
    <3>1. i \in 1..Len(Flow) /\ Flow'[i] = Flow[i]
      BY <1>1, <2>2, <2>4, <2>7
    <3>2. Flow[i].calls \in CallSets /\ (CutByCrash(i) \/ Behind(Flow, i))
      BY <1>1, <2>5, <3>1 DEF FlowInv, FlowOf, Pending
    <3>3. CutByCrash(i) => CutByCrash(i)'
      BY <1>1 DEF CutByCrash
    <3>4. Len(Results(Flow[i].calls)) \in Nat
      BY <3>2, AnswersFit
    <3>5. Behind(Flow, i) => Behind(Flow', i)
      BY <1>1, <2>2, <2>4, <3>1, <3>4 DEF Behind
    <3>6. QED
      BY <3>1, <3>2, <3>3, <3>5
  <2>8. QED
    BY <2>6, <2>7
<1>6. QED
  BY <1>3, <1>4, <1>5 DEF Recorded

\* Every step keeps results behind their calls.
LEMMA FlowStep ==
  /\ ControlInv /\ CallsInv /\ ConversationOK /\ TodoInv /\ FlowInv
  /\ ConversationOK' /\ [Next]_vars
  => FlowInv'
<1> SUFFICES ASSUME ControlInv, CallsInv, ConversationOK, TodoInv, FlowInv, ConversationOK', [Next]_vars
             PROVE  FlowInv'
  OBVIOUS
<1>1. /\ history \in Seq(Messages) /\ todo \in Seq(Messages) /\ steering \in Seq(Messages)
      /\ todo' \in Seq(Messages) /\ reply.calls \in CallSets
  BY DEF ConversationOK, CallsInv, CallSets
<1>2. \A k \in 1..Len(steering) : steering[k].role # "assistant"
  BY <1>1 DEF TodoInv
<1>3. CASE Prompt
  <2>1. /\ phase = "idle" /\ todo = <<>> /\ todo' = <<UserMessage(run + 1)>> \o steering
        /\ UNCHANGED <<history, crashes>>
    BY <1>3 DEF Prompt, QueuedWhileIdle, TodoInv
  <2>2. /\ Len(todo') = 1 + Len(steering) /\ todo'[1] = UserMessage(run + 1)
        /\ \A k \in 2..Len(todo') : todo'[k] = steering[k - 1]
    BY <1>1, <2>1
  <2>3. \A k \in 1..Len(todo') : todo'[k].role # "assistant"
    <3>1. \A k \in 2..Len(todo') : k - 1 \in 1..Len(steering)
      BY <1>1, <2>2
    <3>2. \A k \in 2..Len(todo') : todo'[k].role # "assistant"
      BY <1>2, <2>2, <3>1
    <3>3. todo'[1].role # "assistant"
      BY <2>2, NoQuestions
    <3>4. QED
      BY <1>1, <3>2, <3>3
  <2>4. QED
    BY <2>1, <2>3, FlowFilled
<1>4. CASE Seed \/ TopOfTurn
  <2>1. /\ phase \in {"seed", "loop"} /\ todo = <<>> /\ UNCHANGED <<history, crashes>>
        /\ \A k \in 1..Len(todo') : todo'[k].role # "assistant"
    BY <1>4, NoQuestions DEF Seed, TopOfTurn, At
  <2>2. QED
    BY <2>1, FlowFilled
<1>5. CASE Nudge
  <2>1. /\ todo = <<>> /\ todo' = <<Operator("nudge")>> /\ UNCHANGED <<history, crashes>>
        /\ reply.calls = {}
    BY <1>5 DEF Nudge, Finished, At, HasCalls
  <2>2. \A k \in 1..Len(todo') : todo'[k].role # "assistant"
    BY <2>1, NoQuestions
  <2>3. QED
    BY <2>1, <2>2, FlowFilled
<1>6. CASE TakeSteering \/ HearSteering
  <2>1. /\ todo = <<>> /\ todo' = steering /\ UNCHANGED <<history, crashes>>
        /\ phase \notin {"reply", "batch"} \/ reply.calls = {}
    BY <1>6 DEF TakeSteering, HearSteering, Finished, At, HasCalls
  <2>2. QED
    BY <1>2, <2>1, FlowFilled
<1>7. CASE SettleFailed \/ SettleAborted \/ CutOff \/ BatchSettles
  <2>1. todo = <<>> /\ todo' = Results(reply.calls) /\ UNCHANGED <<history, crashes>>
    BY <1>7 DEF SettleFailed, SettleAborted, CutOff, BatchSettles, SyntheticResults, Batch, At
  <2>2. \A k \in 1..Len(todo') : todo'[k].role # "assistant"
    BY <1>1, <2>1, AnswersFit
  <2>3. QED
    BY <2>1, <2>2, FlowFilled
<1>8. CASE Receive
  BY <1>8, FlowReply
<1>9. CASE OpenFails \/ AppendFails \/ CallThrows
  BY <1>9, FlowCutSteps
<1>10. CASE AppendOne
  <2>1. /\ todo # <<>> /\ history' = Append(history, Head(todo)) /\ todo' = Tail(todo)
        /\ phase' = phase /\ reply' = reply /\ crashes' = crashes
    BY <1>10 DEF AppendOne
  <2>2. Flow' = Flow
    <3>1. todo = <<Head(todo)>> \o Tail(todo) /\ Head(todo) \in Messages /\ Tail(todo) \in Seq(Messages)
      BY <1>1, <2>1
    <3>2. Append(history, Head(todo)) = history \o <<Head(todo)>>
      BY <1>1, <3>1
    <3>3. QED
      BY <1>1, <2>1, <3>1, <3>2 DEF Flow
  <2>3. \A j \in 1..Len(history) : history'[j] = history[j]
    BY <1>1, <2>1
  <2>4. QED
    BY <2>1, <2>2, <2>3, FlowUntouched
<1>11. CASE UNCHANGED <<history, todo, crashes>>
            /\ (\/ phase \notin {"reply", "batch"} \/ reply.calls = {}
                \/ phase' \in {"reply", "batch"} /\ reply' = reply)
  BY <1>11, FlowUntouched DEF Flow
<1>12. CASE \/ StopAborted \/ StopAtCeiling \/ AbortedBeforeRequest \/ EndSettled \/ AbortedAfterBatch
            \/ SendRequest \/ AfterBatch \/ Open
  BY <1>11, <1>12 DEF StopAborted, StopAtCeiling, AbortedBeforeRequest, EndSettled,
     AbortedAfterBatch, SendRequest, AfterBatch, Open, At, conversation
<1>13. CASE Pause \/ TooManyPauses \/ Finish
  BY <1>11, <1>13 DEF Pause, TooManyPauses, Finish, Finished, Complete, HasCalls, conversation
<1>14. CASE \/ Steer \/ Abort \/ Dispatch \/ StartNext \/ HookSettles \/ CheckSettles \/ ToolSettles
            \/ PostHookSettles \/ StrayEnds \/ UNCHANGED vars
  BY <1>11, <1>14 DEF Steer, Abort, Dispatch, StartNext, HookSettles, CheckSettles, ToolSettles,
     PostHookSettles, StrayEnds, vars, conversation
<1>15. QED
  BY <1>3, <1>4, <1>5, <1>6, <1>7, <1>8, <1>9, <1>10, <1>12, <1>13, <1>14 DEF Next, Caller, Progress

-----------------------------------------------------------------------------
(* Steered messages. *)

LEMMA SteersIs ==
  ASSUME NEW s
  PROVE  Steers(s) = {s[i].tag : i \in {j \in DOMAIN s : s[j].role = "steer"}}
BY DEF Steers, ToSet

\* Sequences without a steered message.
LEMMA NoneSteered ==
  ASSUME NEW s, \A i \in DOMAIN s : s[i].role # "steer"
  PROVE  Ordered(s) /\ Steers(s) = {}
BY SteersIs DEF Ordered

\* A message that is appended, and one that is taken off the front.
LEMMA SteersAppend ==
  ASSUME NEW s \in Seq(Messages), NEW m \in Messages
  PROVE  /\ Steers(Append(s, m)) = Steers(s) \cup (IF m.role = "steer" THEN {m.tag} ELSE {})
         /\ Ordered(s) /\ (m.role = "steer" => \A t \in Steers(s) : t < m.tag) => Ordered(Append(s, m))
<1> DEFINE u == Append(s, m)
<1>1. /\ DOMAIN u = 1..(Len(s) + 1) /\ DOMAIN s = 1..Len(s) /\ Len(s) \in Nat
      /\ u[Len(s) + 1] = m /\ \A i \in DOMAIN s : u[i] = s[i]
  OBVIOUS
<1> HIDE DEF u
<1>2. Len(s) + 1 \in DOMAIN u /\ \A i \in DOMAIN u : i \in DOMAIN s \/ i = Len(s) + 1
  BY <1>1
<1>3. DOMAIN s \subseteq DOMAIN u
  BY <1>1
<1>4. Steers(u) = Steers(s) \cup (IF m.role = "steer" THEN {m.tag} ELSE {})
  BY <1>1, <1>2, <1>3, SteersIs
<1>5. ASSUME Ordered(s), m.role = "steer" => \A t \in Steers(s) : t < m.tag
      PROVE  Ordered(u)
  <2>1. SUFFICES ASSUME NEW i \in DOMAIN u, NEW j \in DOMAIN u, i < j,
                        u[i].role = "steer", u[j].role = "steer"
                 PROVE  u[i].tag < u[j].tag
    BY DEF Ordered
  <2>2. i \in DOMAIN s
    BY <1>1, <2>1
  <2>3. CASE j \in DOMAIN s
    BY <1>1, <1>5, <2>1, <2>2, <2>3 DEF Ordered
  <2>4. CASE j = Len(s) + 1
    <3>1. s[i].tag \in Steers(s) /\ m.role = "steer"
      BY <1>1, <2>1, <2>2, <2>4, SteersIs
    <3>2. QED
      BY <1>1, <1>5, <2>2, <2>4, <3>1
  <2>5. QED
    BY <1>2, <2>3, <2>4
<1>6. QED
  BY <1>4, <1>5 DEF u

LEMMA SteersTail ==
  ASSUME NEW s \in Seq(Messages), s # <<>>, Ordered(s)
  PROVE  /\ Ordered(Tail(s)) /\ Head(s) \in Messages
         /\ Head(s).role = "steer" =>
              /\ Head(s).tag \in Steers(s) /\ Steers(Tail(s)) = Steers(s) \ {Head(s).tag}
              /\ \A t \in Steers(Tail(s)) : Head(s).tag < t
         /\ Head(s).role # "steer" => Steers(Tail(s)) = Steers(s)
<1> DEFINE u == Tail(s)
<1>1. /\ DOMAIN u = 1..(Len(s) - 1) /\ DOMAIN s = 1..Len(s) /\ Len(s) \in Nat /\ 1 \in DOMAIN s
      /\ Head(s) = s[1] /\ \A i \in 1..(Len(s) - 1) : u[i] = s[i + 1]
  OBVIOUS
<1>2. Head(s) \in Messages
  OBVIOUS
<1> HIDE DEF u
<1>3. /\ \A i \in DOMAIN u : i + 1 \in DOMAIN s /\ u[i] = s[i + 1]
      /\ \A j \in DOMAIN s : j = 1 \/ (j - 1 \in DOMAIN u /\ u[j - 1] = s[j])
  BY <1>1
<1>4. Ordered(u)
  <2>1. SUFFICES ASSUME NEW i \in DOMAIN u, NEW j \in DOMAIN u, i < j,
                        u[i].role = "steer", u[j].role = "steer"
                 PROVE  u[i].tag < u[j].tag
    BY DEF Ordered
  <2>2. i + 1 < j + 1
    BY <1>1, <2>1
  <2>3. QED
    BY <1>3, <2>1, <2>2 DEF Ordered
<1>5. ASSUME Head(s).role = "steer", NEW t \in Steers(u)
      PROVE  Head(s).tag < t
  <2>1. PICK i \in DOMAIN u : u[i].role = "steer" /\ t = u[i].tag
    BY <1>5, SteersIs
  <2>2. 1 < i + 1 /\ s[i + 1].role = "steer" /\ t = s[i + 1].tag /\ i + 1 \in DOMAIN s
    BY <1>1, <1>3, <2>1
  <2>3. QED
    BY <1>1, <1>5, <2>2 DEF Ordered
<1>6. Steers(u) \subseteq Steers(s)
  BY <1>3, SteersIs
<1>7. ASSUME NEW t \in Steers(s)
      PROVE  t \in Steers(u) \/ (Head(s).role = "steer" /\ t = Head(s).tag)
  <2>1. PICK j \in DOMAIN s : s[j].role = "steer" /\ t = s[j].tag
    BY <1>7, SteersIs
  <2>2. CASE j = 1
    BY <1>1, <2>1, <2>2
  <2>3. CASE j - 1 \in DOMAIN u /\ u[j - 1] = s[j]
    BY <2>1, <2>3, SteersIs
  <2>4. QED
    BY <1>3, <2>2, <2>3
<1>8. Head(s).role = "steer" => Head(s).tag \in Steers(s)
  BY <1>1, SteersIs
<1>9. \A t \in Steers(u) : t \in Nat
  <2>1. u \in Seq(Messages)
    BY DEF u
  <2>2. QED
    BY <2>1, SteersTyped, BoundsAssumption
<1>10. Head(s).role = "steer" => Steers(u) = Steers(s) \ {Head(s).tag}
  BY <1>5, <1>6, <1>7, <1>9
<1>11. QED
  BY <1>2, <1>4, <1>5, <1>6, <1>7, <1>8, <1>10 DEF u

\* The prompt goes before what was steered while idle.
LEMMA SteersBehind ==
  ASSUME NEW s \in Seq(Messages), NEW m \in Messages, m.role # "steer"
  PROVE  /\ Steers(<<m>> \o s) = Steers(s)
         /\ Ordered(s) => Ordered(<<m>> \o s)
<1> DEFINE u == <<m>> \o s
<1>1. /\ DOMAIN u = 1..(Len(s) + 1) /\ DOMAIN s = 1..Len(s) /\ Len(s) \in Nat
      /\ u[1] = m /\ \A i \in 2..(Len(s) + 1) : u[i] = s[i - 1]
  OBVIOUS
<1> HIDE DEF u
<1>2. /\ \A i \in DOMAIN u : i = 1 \/ (i - 1 \in DOMAIN s /\ u[i] = s[i - 1])
      /\ \A j \in DOMAIN s : j + 1 \in DOMAIN u /\ u[j + 1] = s[j]
  BY <1>1
<1>3. Steers(u) = Steers(s)
  <2>1. ASSUME NEW i \in DOMAIN u, u[i].role = "steer"
        PROVE  u[i].tag \in Steers(s)
    <3>1. i - 1 \in DOMAIN s /\ u[i] = s[i - 1]
      BY <1>1, <1>2, <2>1
    <3>2. QED
      BY <2>1, <3>1, SteersIs
  <2>2. ASSUME NEW j \in DOMAIN s, s[j].role = "steer"
        PROVE  s[j].tag \in Steers(u)
    <3>1. j + 1 \in DOMAIN u /\ u[j + 1] = s[j]
      BY <1>2
    <3>2. QED
      BY <2>2, <3>1, SteersIs
  <2>3. QED
    BY <2>1, <2>2, SteersIs
<1>4. ASSUME Ordered(s) PROVE Ordered(u)
  <2>1. SUFFICES ASSUME NEW i \in DOMAIN u, NEW j \in DOMAIN u, i < j,
                        u[i].role = "steer", u[j].role = "steer"
                 PROVE  u[i].tag < u[j].tag
    BY DEF Ordered
  <2>2. i # 1 /\ j # 1 /\ i - 1 < j - 1
    BY <1>1, <2>1
  <2>3. QED
    BY <1>2, <1>4, <2>1, <2>2 DEF Ordered
<1>5. QED
  BY <1>3, <1>4 DEF u

\* Steered messages are numbered, and those in different places are different.
LEMMA SteersApart ==
  ASSUME ConversationOK, SteerInv
  PROVE  /\ Steers(history) \subseteq Nat /\ Steers(todo) \subseteq Nat /\ Steers(steering) \subseteq Nat
         /\ Steers(history) \cap Steers(todo) = {} /\ Steers(history) \cap Steers(steering) = {}
         /\ Steers(todo) \cap Steers(steering) = {}
<1>1. Steers(history) \subseteq Nat /\ Steers(todo) \subseteq Nat /\ Steers(steering) \subseteq Nat
  BY SteersTyped, BoundsAssumption DEF ConversationOK
<1>2. QED
  BY <1>1 DEF SteerInv, Below

\* A step that has nothing to append and takes nothing from the queue.
LEMMA SteersStay ==
  ASSUME SteerInv, todo = <<>>, UNCHANGED <<history, steering, steered, lost>>,
         \A k \in DOMAIN todo' : todo'[k].role # "steer"
  PROVE  SteerInv'
<1>1. Steers(todo) = {} /\ Steers(todo') = {} /\ Ordered(todo')
  BY NoneSteered
<1>2. QED
  BY <1>1 DEF SteerInv, Below

\* The whole queue becomes what the run appends next.
LEMMA SteersTaken ==
  ASSUME SteerInv, ConversationOK, todo = <<>>, steering' = <<>>, UNCHANGED <<history, steered, lost>>,
         Steers(todo') = Steers(steering), Ordered(todo')
  PROVE  SteerInv'
<1>1. Steers(todo) = {} /\ Steers(<<>>) = {} /\ Ordered(<<>>)
  BY NoneSteered
<1>2. QED
  BY <1>1 DEF SteerInv, Below

\* Messages go from the run to the history in their order.
LEMMA SteersMove ==
  ASSUME SteerInv, ConversationOK, todo # <<>>, history' = Append(history, Head(todo)),
         UNCHANGED <<steering, steered>>,
         \/ todo' = Tail(todo) /\ lost' = lost
         \/ todo' = <<>> /\ lost' = lost \cup Steers(Tail(todo))
  PROVE  SteerInv'
<1>1. history \in Seq(Messages) /\ todo \in Seq(Messages) /\ Ordered(todo)
  BY DEF ConversationOK, SteerInv
<1>2. PICK m \in Messages : m = Head(todo)
  BY <1>1
<1>3. /\ Ordered(Tail(todo))
      /\ m.role = "steer" => /\ m.tag \in Steers(todo) /\ Steers(Tail(todo)) = Steers(todo) \ {m.tag}
                             /\ \A t \in Steers(Tail(todo)) : m.tag < t
      /\ m.role # "steer" => Steers(Tail(todo)) = Steers(todo)
  BY <1>1, <1>2, SteersTail
<1>4. /\ Steers(history') = Steers(history) \cup (IF m.role = "steer" THEN {m.tag} ELSE {})
      /\ (m.role = "steer" => \A t \in Steers(history) : t < m.tag) => Ordered(history')
  BY <1>1, <1>2, SteersAppend DEF SteerInv
<1>5. Steers(<<>>) = {} /\ Ordered(<<>>)
  BY NoneSteered
<1>6. Ordered(history')
  BY <1>3, <1>4 DEF SteerInv, Below
<1>7. Below(Steers(history'), Steers(Tail(todo))) /\ Below(Steers(history'), Steers(steering))
  BY <1>3, <1>4 DEF SteerInv, Below
<1>8. CASE todo' = Tail(todo) /\ lost' = lost
  <2>1. Below(Steers(Tail(todo)), Steers(steering))
    BY <1>3 DEF SteerInv, Below
  <2>2. Steers(history') \cup Steers(Tail(todo)) \cup Steers(steering) = (1..steered) \ lost
    BY <1>3, <1>4 DEF SteerInv
  <2>3. QED
    BY <1>3, <1>6, <1>7, <1>8, <2>1, <2>2 DEF SteerInv
<1>9. CASE todo' = <<>> /\ lost' = lost \cup Steers(Tail(todo))
  <2>1. /\ Steers(history') \cap Steers(Tail(todo)) = {}
        /\ Steers(Tail(todo)) \cap Steers(steering) = {}
    BY <1>3, <1>4, SteersApart
  <2>2. Steers(history') \cup Steers(Tail(todo)) \cup Steers(steering) = (1..steered) \ lost
    BY <1>3, <1>4 DEF SteerInv
  <2>3. Steers(history') \cup Steers(<<>>) \cup Steers(steering) = (1..steered) \ lost'
    BY <1>5, <1>9, <2>1, <2>2
  <2>4. lost' \subseteq 1..steered
    BY <1>9, <2>2 DEF SteerInv
  <2>5. QED
    BY <1>5, <1>6, <1>7, <1>9, <2>3, <2>4 DEF SteerInv, Below
<1>10. QED
  BY <1>8, <1>9

\* Every step keeps the steered messages together and in order.
LEMMA SteersStep ==
  ControlInv /\ CallsInv /\ ConversationOK /\ TodoInv /\ SteerInv /\ [Next]_vars => SteerInv'
<1> SUFFICES ASSUME ControlInv, CallsInv, ConversationOK, TodoInv, SteerInv, [Next]_vars
             PROVE  SteerInv'
  OBVIOUS
<1>1. history \in Seq(Messages) /\ todo \in Seq(Messages) /\ steering \in Seq(Messages)
  BY DEF ConversationOK
<1>2. Steers(<<>>) = {} /\ Ordered(<<>>)
  BY NoneSteered
<1>3. CASE Prompt
  <2>1. PICK m \in Messages : m = UserMessage(run + 1) /\ m.role # "steer"
    <3>1. run + 1 \in 1..MaxPrompts
      BY <1>3, BoundsAssumption DEF Prompt, ControlInv, CountersOK
    <3>2. QED
      BY <3>1, MessagesTyped DEF UserMessage, Msg
  <2>2. todo = <<>> /\ todo' = <<m>> \o steering /\ steering' = <<>> /\ UNCHANGED <<history, steered, lost>>
    BY <1>3, <2>1 DEF Prompt, QueuedWhileIdle, TodoInv
  <2>3. Ordered(steering)
    BY DEF SteerInv
  <2>4. QED
    BY <1>1, <2>1, <2>2, <2>3, SteersBehind, SteersTaken
<1>4. CASE Steer
  <2>1. PICK m \in Messages : m = SteerMessage(steered + 1) /\ m.role = "steer" /\ m.tag = steered + 1
    <3>1. SteerMessage(steered + 1) \in Messages
      BY <1>4, BoundsAssumption, MessagesTyped DEF Steer, ConversationOK
    <3>2. QED
      BY <3>1 DEF SteerMessage, Msg
  <2>2. steering' = Append(steering, m) /\ steered' = steered + 1 /\ UNCHANGED <<history, todo, lost>>
    BY <1>4, <2>1 DEF Steer
  <2>3. steered \in Nat
    BY BoundsAssumption DEF ConversationOK
  <2>4. /\ Steers(history) \subseteq 1..steered /\ Steers(todo) \subseteq 1..steered
        /\ Steers(steering) \subseteq 1..steered
    BY DEF SteerInv
  <2>5. Steers(steering') = Steers(steering) \cup {steered + 1} /\ Ordered(steering')
    BY <1>1, <2>1, <2>2, <2>3, <2>4, SteersAppend DEF SteerInv
  <2>6. (1..steered') \ lost = ((1..steered) \ lost) \cup {steered + 1} /\ lost \subseteq 1..steered'
    BY <2>2, <2>3 DEF SteerInv
  <2>7. \A t \in 1..steered : t < steered + 1
    BY <2>3
  <2>8. Below(Steers(history), Steers(steering')) /\ Below(Steers(todo), Steers(steering'))
    BY <2>4, <2>5, <2>7 DEF SteerInv, Below
  <2>9. Steers(history) \cup Steers(todo) \cup Steers(steering') = (1..steered') \ lost
    BY <2>5, <2>6 DEF SteerInv
  <2>10. QED
    BY <2>2, <2>5, <2>6, <2>8, <2>9 DEF SteerInv
<1>5. CASE OpenFails
  <2>1. lost' = lost \cup Steers(todo) /\ todo' = <<>> /\ UNCHANGED <<history, steering, steered>>
    BY <1>5 DEF OpenFails, Crash
  <2>2. Steers(history) \cup Steers(todo') \cup Steers(steering) = (1..steered) \ lost'
    BY <1>2, <2>1, SteersApart DEF SteerInv
  <2>3. lost' \subseteq 1..steered
    BY <2>1 DEF SteerInv
  <2>4. QED
    BY <1>2, <2>1, <2>2, <2>3 DEF SteerInv, Below
<1>6. CASE AppendOne \/ AppendFails
  BY <1>6, SteersMove DEF AppendOne, AppendFails, Crash
<1>7. CASE TakeSteering \/ HearSteering
  BY <1>7, SteersTaken DEF TakeSteering, HearSteering, Finished, At, SteerInv
<1>8. CASE Seed \/ TopOfTurn \/ Nudge
  <2>1. /\ todo = <<>> /\ UNCHANGED <<history, steering, steered, lost>>
        /\ \A k \in DOMAIN todo' : todo'[k].role # "steer"
    BY <1>8, NoQuestions DEF Seed, TopOfTurn, Nudge, Finished, At
  <2>2. QED
    BY <2>1, SteersStay
<1>9. CASE Receive
  <2>1. /\ todo = <<>> /\ UNCHANGED <<history, steering, steered, lost>>
        /\ \A k \in DOMAIN todo' : todo'[k].role # "steer"
    BY <1>9 DEF Receive, At, Recorded, Assistant, Msg
  <2>2. QED
    BY <2>1, SteersStay
<1>10. CASE SettleFailed \/ SettleAborted \/ CutOff \/ BatchSettles
  <2>1. todo = <<>> /\ todo' = Results(reply.calls) /\ UNCHANGED <<history, steering, steered, lost>>
    BY <1>10 DEF SettleFailed, SettleAborted, CutOff, BatchSettles, SyntheticResults, Batch, At
  <2>2. reply.calls \in CallSets
    BY DEF CallsInv, CallSets
  <2>3. \A k \in DOMAIN todo' : todo'[k].role # "steer"
    BY <2>1, <2>2, AnswersFit
  <2>4. QED
    BY <2>1, <2>3, SteersStay
<1>11. CASE CallThrows
  <2>1. todo = <<>>
    BY <1>11 DEF CallThrows, Batch, TodoInv
  <2>2. todo' = <<>> /\ lost' = lost /\ UNCHANGED <<history, steering, steered>>
    BY <1>2, <1>11 DEF CallThrows, Crash
  <2>3. QED
    BY <2>1, <2>2, SteersStay
<1>12. CASE UNCHANGED conversation
  BY <1>12 DEF conversation, SteerInv
<1>13. CASE (Next /\ ~ConversationSteps) \/ UNCHANGED vars
  <2>1. UNCHANGED conversation
    BY <1>13 DEF Next, Caller, Progress, ConversationSteps, vars, conversation, Abort, Open,
       StopAborted, StopAtCeiling, SendRequest, AbortedBeforeRequest, EndSettled, Dispatch,
       Pause, TooManyPauses, Finish, Complete, StartNext, HookSettles, CheckSettles, ToolSettles,
       PostHookSettles, StrayEnds, AfterBatch, AbortedAfterBatch
  <2>2. QED
    BY <1>12, <2>1
<1>14. QED
  BY <1>3, <1>4, <1>5, <1>6, <1>7, <1>8, <1>9, <1>10, <1>11, <1>13 DEF ConversationSteps

\* Two sequences one behind the other.
LEMMA SteersBoth ==
  ASSUME NEW s \in Seq(Messages), NEW t \in Seq(Messages)
  PROVE  /\ Steers(s \o t) = Steers(s) \cup Steers(t)
         /\ Ordered(s) /\ Ordered(t) /\ Below(Steers(s), Steers(t)) => Ordered(s \o t)
<1> DEFINE u == s \o t
<1>1. /\ DOMAIN u = 1..(Len(s) + Len(t)) /\ DOMAIN s = 1..Len(s) /\ DOMAIN t = 1..Len(t)
      /\ Len(s) \in Nat /\ Len(t) \in Nat
      /\ \A i \in 1..Len(s) : u[i] = s[i]
      /\ \A i \in 1..Len(t) : u[Len(s) + i] = t[i]
  OBVIOUS
<1> HIDE DEF u
<1>2. \A i \in DOMAIN u : i \in DOMAIN s \/ (i > Len(s) /\ i - Len(s) \in DOMAIN t /\ u[i] = t[i - Len(s)])
  <2>1. ASSUME NEW i \in DOMAIN u, ~(i \in DOMAIN s)
        PROVE  i > Len(s) /\ i - Len(s) \in 1..Len(t) /\ i = Len(s) + (i - Len(s))
    BY <1>1, <2>1
  <2>2. QED
    BY <1>1, <2>1
<1>3. /\ \A i \in DOMAIN s : i \in DOMAIN u /\ u[i] = s[i]
      /\ \A i \in DOMAIN t : Len(s) + i \in DOMAIN u /\ u[Len(s) + i] = t[i]
  BY <1>1
<1>4. Steers(u) = Steers(s) \cup Steers(t)
  BY <1>2, <1>3, SteersIs
<1>5. ASSUME Ordered(s), Ordered(t), Below(Steers(s), Steers(t)) PROVE Ordered(u)
  <2>1. SUFFICES ASSUME NEW i \in DOMAIN u, NEW j \in DOMAIN u, i < j,
                        u[i].role = "steer", u[j].role = "steer"
                 PROVE  u[i].tag < u[j].tag
    BY DEF Ordered
  <2>2. CASE i \in DOMAIN s /\ j \in DOMAIN s
    BY <1>3, <1>5, <2>1, <2>2 DEF Ordered
  <2>3. CASE i \in DOMAIN s /\ j \notin DOMAIN s
    <3>1. u[i].tag \in Steers(s) /\ u[j].tag \in Steers(t)
      BY <1>2, <1>3, <2>1, <2>3, SteersIs
    <3>2. QED
      BY <1>5, <3>1 DEF Below
  <2>4. CASE i \notin DOMAIN s
    <3>1. j \notin DOMAIN s /\ i - Len(s) < j - Len(s)
      BY <1>1, <1>2, <2>1, <2>4
    <3>2. QED
      BY <1>2, <1>5, <2>1, <2>4, <3>1 DEF Ordered
  <2>5. QED
    BY <2>2, <2>3, <2>4
<1>6. QED
  BY <1>4, <1>5 DEF u

-----------------------------------------------------------------------------
(* What the run implements. *)

OwedIn(h, cr) ==
  {k \in 1..BatchSize : \E i \in DOMAIN h :
     /\ LastIn(h, i) /\ ~CutIn(h, cr, i)
     /\ k \in DOMAIN Results(h[i].calls)
     /\ i + k \in DOMAIN h => h[i + k] # Results(h[i].calls)[k]}

LEMMA OwedIs == Owed = OwedIn(history, crashes) /\ Owed' = OwedIn(history', crashes')
BY DEF Owed, OwedIn, LastReply, LastIn, CutByCrash, CutIn, AssistantAt

\* A batch is no larger than BatchSize.
LEMMA AnswersBounded ==
  ASSUME NEW calls \in CallSets
  PROVE  Len(Results(calls)) <= BatchSize
<1>1. Cardinality(calls) <= BatchSize
  <2>1. CASE calls = {}
    BY <2>1, FS_EmptySet, BatchSizeAssumption
  <2>2. CASE calls # {}
    <3>1. PICK r \in 1..MaxPrompts, t \in 0..MaxTurns, n \in 0..BatchSize : calls = CallsOfTurn(r, t, n)
      BY <2>2 DEF CallSets
    <3>2. n \in Nat /\ n <= BatchSize
      BY BatchSizeAssumption
    <3>3. DOMAIN Results(calls) = 1..n
      BY <3>1, <3>2, ResultsInOrder
    <3>4. Len(Results(calls)) = n
      BY <3>2, <3>3, AnswersFit
    <3>5. QED
      BY <3>2, <3>4, AnswersFit
  <2>3. QED
    BY <2>1, <2>2
<1>2. QED
  BY <1>1, AnswersFit

\* The last reply is one.
LEMMA LastIsOne ==
  ASSUME NEW h \in Seq(Messages), NEW i, NEW j, LastIn(h, i), LastIn(h, j)
  PROVE  i = j
<1>1. i \in 1..Len(h) /\ j \in 1..Len(h) /\ Len(h) \in Nat
  BY DEF LastIn
<1>2. ~(i < j) /\ ~(j < i)
  BY <1>1 DEF LastIn
<1>3. QED
  BY <1>1, <1>2

\* What a reply is owed whose results so far stand behind it.
LEMMA OwedRest ==
  ASSUME NEW h \in Seq(Messages), NEW cr, NEW i, LastIn(h, i), ~CutIn(h, cr, i), h[i].calls \in CallSets,
         \A k \in 1..Len(Results(h[i].calls)) : i + k <= Len(h) => h[i + k] = Results(h[i].calls)[k]
  PROVE  OwedIn(h, cr) = {k \in 1..Len(Results(h[i].calls)) : i + k > Len(h)}
<1> DEFINE answers == Results(h[i].calls)
<1>1. i \in 1..Len(h) /\ Len(h) \in Nat /\ DOMAIN h = 1..Len(h)
  BY DEF LastIn
<1>2. /\ Len(answers) \in Nat /\ Len(answers) <= BatchSize /\ DOMAIN answers = 1..Len(answers)
      /\ BatchSize \in Nat
  BY AnswersFit, AnswersBounded, BatchSizeAssumption
<1>3. OwedIn(h, cr) = {k \in 1..BatchSize : k \in DOMAIN answers /\ (i + k \in DOMAIN h => h[i + k] # answers[k])}
  BY LastIsOne, <1>1 DEF OwedIn
<1> HIDE DEF answers
<1>4. \A k \in 1..Len(answers) : i + k <= Len(h) => h[i + k] = answers[k]
  BY DEF answers
<1>5. \A k \in 1..Len(answers) : (i + k \in DOMAIN h) <=> ~(i + k > Len(h))
  BY <1>1, <1>2
<1>6. OwedIn(h, cr) = {k \in 1..Len(answers) : i + k > Len(h)}
  BY <1>1, <1>2, <1>3, <1>4, <1>5
<1>7. QED
  BY <1>6 DEF answers

\* A run that threw owes nothing.
LEMMA OwedCut ==
  ASSUME NEW h \in Seq(Messages), NEW cr, Len(h) \in cr
  PROVE  OwedIn(h, cr) = {}
<1>1. \A i : LastIn(h, i) => CutIn(h, cr, i)
  BY DEF LastIn, CutIn
<1>2. QED
  BY <1>1 DEF OwedIn

\* What is said behind a reply adds to nothing it is owed.
LEMMA OwedShrinks ==
  ASSUME NEW h \in Seq(Messages), NEW cr, cr \subseteq 0..Len(h), NEW m \in Messages, m.role # "assistant"
  PROVE  OwedIn(Append(h, m), cr) \subseteq OwedIn(h, cr)
<1> DEFINE g == Append(h, m)
<1>1. /\ DOMAIN h = 1..Len(h) /\ DOMAIN g = 1..(Len(h) + 1) /\ Len(g) = Len(h) + 1 /\ Len(h) \in Nat
      /\ g[Len(h) + 1] = m /\ \A j \in 1..Len(h) : g[j] = h[j]
  OBVIOUS
<1> HIDE DEF g
<1>2. ASSUME NEW i \in DOMAIN g, LastIn(g, i), ~CutIn(g, cr, i)
      PROVE  /\ i \in DOMAIN h /\ LastIn(h, i) /\ ~CutIn(h, cr, i) /\ g[i] = h[i]
  <2>1. i # Len(h) + 1
    BY <1>1, <1>2 DEF LastIn
  <2>2. i \in DOMAIN h /\ g[i] = h[i]
    BY <1>1, <2>1
  <2>3. LastIn(h, i)
    BY <1>1, <1>2, <2>2 DEF LastIn
  <2>4. ASSUME CutIn(h, cr, i) PROVE FALSE
    <3>1. PICK n \in cr : i <= n /\ \A j \in (i + 1)..n : h[j].role # "assistant"
      BY <2>4 DEF CutIn
    <3>2. \A j \in (i + 1)..n : g[j] = h[j]
      BY <1>1, <2>2
    <3>3. QED
      BY <1>2, <3>1, <3>2 DEF CutIn
  <2>5. QED
    BY <2>2, <2>3, <2>4
<1>3. ASSUME NEW k \in OwedIn(g, cr)
      PROVE  k \in OwedIn(h, cr)
  <2>1. PICK i \in DOMAIN g : /\ LastIn(g, i) /\ ~CutIn(g, cr, i)
                              /\ k \in DOMAIN Results(g[i].calls)
                              /\ i + k \in DOMAIN g => g[i + k] # Results(g[i].calls)[k]
    BY <1>3 DEF OwedIn
  <2>2. /\ i \in DOMAIN h /\ LastIn(h, i) /\ ~CutIn(h, cr, i) /\ g[i] = h[i]
    BY <1>2, <2>1
  <2>3. i + k \in DOMAIN h => i + k \in DOMAIN g /\ g[i + k] = h[i + k]
    BY <1>1
  <2>4. k \in 1..BatchSize
    BY <1>3 DEF OwedIn
  <2>5. QED
    BY <2>1, <2>2, <2>3, <2>4 DEF OwedIn
<1>4. QED
  BY <1>3 DEF g

\* The last reply on record has its results behind it, as far as they are there.
LEMMA LastAnswered ==
  ASSUME ConversationOK, FlowInv, NEW i, LastIn(history, i), ~CutIn(history, crashes, i)
  PROVE  /\ i \in 1..Len(history) /\ Flow[i] = history[i] /\ history[i].calls \in CallSets
         /\ Pending(i) \/ Behind(Flow, i)
         /\ \A k \in 1..Len(Results(history[i].calls)) :
              i + k <= Len(history) => history[i + k] = Results(history[i].calls)[k]
<1>1. /\ history \in Seq(Messages) /\ todo \in Seq(Messages) /\ Len(history) \in Nat /\ Len(todo) \in Nat
      /\ Len(Flow) = Len(history) + Len(todo) /\ \A j \in 1..Len(history) : Flow[j] = history[j]
  BY DEF ConversationOK, Flow
<1>2. i \in 1..Len(history) /\ i \in 1..Len(Flow) /\ Flow[i] = history[i] /\ history[i].role = "assistant"
  BY <1>1 DEF LastIn
<1>3. ~CutByCrash(i)
  BY DEF CutIn, CutByCrash
<1>4. history[i].calls \in CallSets /\ (Pending(i) \/ Behind(Flow, i))
  BY <1>2, <1>3 DEF FlowInv, FlowOf
<1>5. Len(Results(history[i].calls)) \in Nat
  BY <1>4, AnswersFit
<1>6. ASSUME NEW k \in 1..Len(Results(history[i].calls)), i + k <= Len(history)
      PROVE  history[i + k] = Results(history[i].calls)[k]
  <2>1. i + k \in 1..Len(history) /\ i # Len(Flow)
    BY <1>1, <1>2, <1>5, <1>6
  <2>2. Behind(Flow, i)
    BY <1>4, <2>1 DEF Pending
  <2>3. QED
    BY <1>1, <1>2, <2>1, <2>2 DEF Behind
<1>7. QED
  BY <1>2, <1>4, <1>6

\* Nothing is owed when the next message to append is no result.
LEMMA OwesNothing ==
  ASSUME ConversationOK, FlowInv, todo = <<>> \/ todo[1].role # "result",
         phase \notin {"reply", "batch"}
  PROVE  Owed = {}
<1>1. /\ history \in Seq(Messages) /\ todo \in Seq(Messages) /\ Len(history) \in Nat /\ Len(todo) \in Nat
      /\ Len(Flow) = Len(history) + Len(todo) /\ DOMAIN history = 1..Len(history)
      /\ \A j \in 1..Len(todo) : Flow[Len(history) + j] = todo[j]
  BY DEF ConversationOK, Flow
<1>2. SUFFICES ASSUME NEW k \in OwedIn(history, crashes) PROVE FALSE
  BY OwedIs
<1>3. PICK i \in DOMAIN history :
        /\ LastIn(history, i) /\ ~CutIn(history, crashes, i)
        /\ k \in DOMAIN Results(history[i].calls)
        /\ i + k \in DOMAIN history => history[i + k] # Results(history[i].calls)[k]
  BY <1>2 DEF OwedIn
<1> DEFINE answers == Results(history[i].calls)
<1>4. /\ history[i].calls \in CallSets /\ Behind(Flow, i) /\ Flow[i] = history[i]
      /\ \A j \in 1..Len(answers) : i + j <= Len(history) => history[i + j] = answers[j]
  BY <1>3, LastAnswered DEF Pending
<1>5. /\ Len(answers) \in Nat /\ DOMAIN answers = 1..Len(answers)
      /\ \A j \in 1..Len(answers) : answers[j].role = "result"
  BY <1>4, AnswersFit
<1>6. i + Len(answers) <= Len(Flow) /\ \A j \in 1..Len(answers) : Flow[i + j] = answers[j]
  BY <1>4 DEF Behind
<1> HIDE DEF answers
<1>7. k \in 1..Len(answers) /\ i + k > Len(history)
  <2>1. k \in 1..Len(answers)
    BY <1>3, <1>5 DEF answers
  <2>2. i + k \in DOMAIN history => FALSE
    BY <1>1, <1>3, <1>4, <2>1 DEF answers
  <2>3. QED
    BY <1>1, <1>3, <1>5, <2>1, <2>2
<1>8. PICK j \in 1..Len(answers) : i + j = Len(history) + 1
  <2>1. /\ i \in Nat /\ i <= Len(history) /\ k \in Nat /\ k <= Len(answers) /\ i + k > Len(history)
        /\ Len(history) \in Nat /\ Len(answers) \in Nat
    BY <1>1, <1>3, <1>5, <1>7
  <2>2. /\ Len(history) + 1 - i \in 1..Len(answers)
        /\ i + (Len(history) + 1 - i) = Len(history) + 1
    BY ONLY <2>1
  <2>3. QED
    BY <2>2
<1>9. Flow[Len(history) + 1].role = "result" /\ Len(history) + 1 <= Len(Flow)
  <2>1. Flow[i + j] = answers[j] /\ answers[j].role = "result"
    BY <1>5, <1>6
  <2>2. i + j <= Len(Flow)
    BY <1>1, <1>3, <1>5, <1>6
  <2>3. QED
    BY <1>8, <2>1, <2>2
<1>10. 1 \in 1..Len(todo) /\ Flow[Len(history) + 1] = todo[1]
  BY <1>1, <1>9
<1>11. QED
  BY <1>1, <1>9, <1>10

\* Every step keeps in "todo" what the phase is about.
LEMMA ReplyStep ==
  /\ ControlInv /\ CallsInv /\ ConversationOK /\ TodoInv /\ ReplyInv
  /\ ConversationOK' /\ [Next]_vars
  => ReplyInv'
<1> SUFFICES ASSUME ControlInv, CallsInv, ConversationOK, TodoInv, ReplyInv, ConversationOK', [Next]_vars
             PROVE  ReplyInv'
  OBVIOUS
<1>1. history \in Seq(Messages) /\ todo \in Seq(Messages) /\ steering \in Seq(Messages) /\ Len(history) \in Nat
  BY DEF ConversationOK
<1>2. ASSUME phase' # "reply", phase' # "batch", \A k \in DOMAIN todo' : todo'[k].role # "assistant"
      PROVE  ReplyInv'
  BY <1>2 DEF ReplyInv
<1>3. CASE Prompt
  <2>1. todo' = <<UserMessage(run + 1)>> \o steering /\ phase' = "open"
    BY <1>3 DEF Prompt, QueuedWhileIdle
  <2>2. /\ Len(todo') = 1 + Len(steering) /\ todo'[1] = UserMessage(run + 1) /\ DOMAIN todo' = 1..(1 + Len(steering))
        /\ \A k \in 2..Len(todo') : todo'[k] = steering[k - 1] /\ k - 1 \in DOMAIN steering
    BY <1>1, <2>1
  <2>3. \A k \in DOMAIN todo' : k = 1 \/ k \in 2..Len(todo')
    BY <1>1, <2>2
  <2>4. \A k \in DOMAIN todo' : todo'[k].role # "assistant"
    BY <2>2, <2>3, NoQuestions DEF TodoInv
  <2>5. QED
    BY <1>2, <2>1, <2>4
<1>4. CASE OpenFails \/ AppendFails \/ CallThrows
  BY <1>2, <1>4 DEF OpenFails, AppendFails, CallThrows, Crash, End
<1>5. CASE AppendOne
  <2>1. /\ todo # <<>> /\ todo' = Tail(todo) /\ history' = Append(history, Head(todo))
        /\ UNCHANGED <<phase, reply, crashes>>
    BY <1>5 DEF AppendOne
  <2>2. Flow' = Flow
    <3>1. todo = <<Head(todo)>> \o Tail(todo) /\ Head(todo) \in Messages /\ Tail(todo) \in Seq(Messages)
      BY <1>1, <2>1
    <3>2. Append(history, Head(todo)) = history \o <<Head(todo)>>
      BY <1>1, <3>1
    <3>3. QED
      BY <1>1, <2>1, <3>1, <3>2 DEF Flow
  <2>3. CASE phase = "reply"
    <3>1. todo' = <<>>
      BY <1>1, <2>1, <2>3 DEF ReplyInv
    <3>2. QED
      BY <2>1, <2>2, <2>3, <3>1 DEF ReplyInv
  <2>4. CASE phase # "reply"
    <3>1. \A k \in DOMAIN todo' : k + 1 \in DOMAIN todo /\ todo'[k] = todo[k + 1]
      BY <1>1, <2>1
    <3>2. QED
      BY <2>1, <2>2, <2>4, <3>1 DEF ReplyInv
  <2>5. QED
    BY <2>3, <2>4
<1>6. CASE Receive
  <2>1. run \in 1..MaxPrompts /\ turn \in 0..MaxTurns /\ phase' = "reply" /\ UNCHANGED <<history, crashes>>
    BY <1>6 DEF Receive, At, ControlInv, TurnInv, CountersOK
  <2>2. PICK r \in Replies : reply' = r /\ todo' = Recorded(r)
    BY <1>6 DEF Receive
  <2>3. r.calls # {} => r.body # "none"
    BY DEF Replies, AnyReply, FinalAnswer
  <2>4. CASE todo' = <<>>
    BY <2>1, <2>2, <2>3, <2>4 DEF ReplyInv, Recorded
  <2>5. CASE todo' = <<Assistant(r)>>
    <3>1. Assistant(r).role = "assistant" /\ Assistant(r).calls = r.calls /\ Assistant(r) \in Messages
      BY <2>5 DEF Assistant, Msg, ConversationOK
    <3>2. PICK m \in Messages : m = Assistant(r)
      BY <3>1
    <3>3. /\ todo' = <<m>> /\ todo' # <<>> /\ Len(todo') = 1 /\ todo'[1] = m
          /\ Flow' = history \o <<m>>
      BY <2>1, <2>5, <3>2 DEF Flow
    <3>4. Len(Flow') = Len(history) + 1 /\ Flow'[Len(history) + 1] = m
      BY <1>1, <3>3
    <3>5. \A n \in crashes' : n < Len(history) + 1
      BY <1>1, <2>1 DEF TodoInv
    <3>6. QED
      BY <1>1, <2>1, <2>2, <3>1, <3>2, <3>3, <3>4, <3>5 DEF ReplyInv
  <2>6. QED
    BY <2>2, <2>4, <2>5 DEF Recorded
<1>7. CASE SettleFailed \/ SettleAborted \/ CutOff \/ BatchSettles
  <2>1. todo' = Results(reply.calls) /\ phase' \notin {"reply", "batch"}
    BY <1>7 DEF SettleFailed, SettleAborted, CutOff, BatchSettles, SyntheticResults, Batch, At
  <2>2. reply.calls \in CallSets
    BY DEF CallsInv, CallSets
  <2>3. \A k \in DOMAIN todo' : todo'[k].role # "assistant"
    BY <2>1, <2>2, AnswersFit
  <2>4. QED
    BY <1>2, <2>1, <2>3
<1>8. CASE TakeSteering \/ HearSteering
  <2>1. todo' = steering /\ phase' \notin {"reply", "batch"}
    BY <1>8 DEF TakeSteering, HearSteering
  <2>2. QED
    BY <1>2, <2>1 DEF TodoInv
<1>9. CASE Seed \/ TopOfTurn \/ Nudge
  <2>1. /\ phase' \notin {"reply", "batch"}
        /\ \A k \in DOMAIN todo' : todo'[k].role # "assistant"
    BY <1>9, NoQuestions DEF Seed, TopOfTurn, Nudge
  <2>2. QED
    BY <1>2, <2>1
<1>10. CASE \/ StopAborted \/ StopAtCeiling \/ AbortedBeforeRequest \/ EndSettled \/ TooManyPauses
            \/ Finish \/ AbortedAfterBatch \/ SendRequest \/ Pause \/ AfterBatch
  <2>1. todo = <<>> /\ todo' = todo /\ phase' \notin {"reply", "batch"}
    BY <1>10 DEF StopAborted, StopAtCeiling, AbortedBeforeRequest, EndSettled, TooManyPauses, Finish,
       AbortedAfterBatch, SendRequest, Pause, AfterBatch, End, Complete, At, Finished, conversation
  <2>2. QED
    BY <1>2, <2>1
<1>11. CASE Dispatch
  <2>1. phase = "reply" /\ phase' = "batch" /\ todo = <<>> /\ UNCHANGED <<history, todo, crashes, reply>>
    BY <1>11 DEF Dispatch, At, conversation
  <2>2. Flow' = Flow
    BY <2>1 DEF Flow
  <2>3. QED
    BY <2>1, <2>2 DEF ReplyInv
<1>12. CASE Open
  BY <1>2, <1>12 DEF Open, conversation, ReplyInv
<1>13. CASE \/ Steer \/ Abort \/ StartNext \/ HookSettles \/ CheckSettles \/ ToolSettles \/ PostHookSettles
            \/ StrayEnds \/ UNCHANGED vars
  <2>1. UNCHANGED <<phase, history, todo, crashes, reply>>
    BY <1>13 DEF Steer, Abort, StartNext, HookSettles, CheckSettles, ToolSettles, PostHookSettles,
       StrayEnds, vars, conversation
  <2>2. Flow' = Flow
    BY <2>1 DEF Flow
  <2>3. QED
    BY <2>1, <2>2 DEF ReplyInv
<1>14. QED
  BY <1>3, <1>4, <1>5, <1>6, <1>7, <1>8, <1>9, <1>10, <1>11, <1>12, <1>13 DEF Next, Caller, Progress

\* Results wait only to be appended, behind the reply that asked for them.
LEMMA AnswersStep ==
  /\ ControlInv /\ CallsInv /\ ConversationOK /\ TodoInv /\ ReplyInv /\ AnswersInv
  /\ ConversationOK' /\ [Next]_vars
  => AnswersInv'
<1> SUFFICES ASSUME ControlInv, CallsInv, ConversationOK, TodoInv, ReplyInv, AnswersInv, ConversationOK',
                    [Next]_vars
             PROVE  AnswersInv'
  OBVIOUS
<1>1. history \in Seq(Messages) /\ todo \in Seq(Messages) /\ steering \in Seq(Messages) /\ Len(history) \in Nat
  BY DEF ConversationOK
<1>2. ASSUME \A k \in DOMAIN todo' : todo'[k].role # "result"
      PROVE  AnswersInv'
  BY <1>2 DEF AnswersInv
<1>3. CASE Prompt
  <2>1. todo' = <<UserMessage(run + 1)>> \o steering
    BY <1>3 DEF Prompt, QueuedWhileIdle
  <2>2. /\ Len(todo') = 1 + Len(steering) /\ todo'[1] = UserMessage(run + 1) /\ DOMAIN todo' = 1..(1 + Len(steering))
        /\ \A k \in 2..Len(todo') : todo'[k] = steering[k - 1] /\ k - 1 \in DOMAIN steering
    BY <1>1, <2>1
  <2>3. \A k \in DOMAIN todo' : k = 1 \/ k \in 2..Len(todo')
    BY <1>1, <2>2
  <2>4. \A k \in DOMAIN todo' : todo'[k].role # "result"
    BY <2>2, <2>3, NoQuestions DEF TodoInv
  <2>5. QED
    BY <1>2, <2>4
<1>4. CASE OpenFails \/ AppendFails \/ CallThrows
  BY <1>2, <1>4 DEF OpenFails, AppendFails, CallThrows, Crash
<1>5. CASE AppendOne
  <2>1. /\ todo # <<>> /\ todo' = Tail(todo) /\ history' = Append(history, Head(todo))
        /\ UNCHANGED <<phase, reply, crashes>>
    BY <1>5 DEF AppendOne
  <2>2. PICK m \in Messages : m = Head(todo) /\ m = todo[1] /\ 1 \in DOMAIN todo
    BY <1>1, <2>1
  <2>3. CASE \A k \in DOMAIN todo : todo[k].role # "result"
    <3>1. \A k \in DOMAIN todo' : k + 1 \in DOMAIN todo /\ todo'[k] = todo[k + 1]
      BY <1>1, <2>1
    <3>2. QED
      BY <1>2, <2>3, <3>1
  <2>4. CASE \E k \in DOMAIN todo : todo[k].role = "result"
    <3>1. PICK i \in DOMAIN history :
            /\ LastIn(history, i) /\ \A n \in crashes : n < i
            /\ i + Len(Results(history[i].calls)) = Len(Flow)
      BY <2>4 DEF AnswersInv
    <3>2. m.role # "assistant"
      <4>1. phase = "reply" => Len(todo) = 1 /\ todo[1].role = "assistant"
        BY <2>1 DEF ReplyInv
      <4>2. phase # "reply"
        BY <1>1, <2>4, <4>1
      <4>3. QED
        BY <2>2, <4>2 DEF ReplyInv
    <3>3. /\ DOMAIN history = 1..Len(history) /\ DOMAIN history' = 1..(Len(history) + 1)
          /\ Len(history') = Len(history) + 1
          /\ history'[Len(history) + 1] = m /\ \A j \in 1..Len(history) : history'[j] = history[j]
      BY <1>1, <2>1, <2>2
    <3>4. i \in DOMAIN history' /\ history'[i] = history[i]
      BY <1>1, <3>3
    <3>5. LastIn(history', i)
      BY <1>1, <3>1, <3>2, <3>3, <3>4 DEF LastIn
    <3>6. Len(Flow') = Len(Flow)
      BY <1>1, <2>1 DEF Flow
    <3>7. QED
      BY <2>1, <3>1, <3>4, <3>5, <3>6 DEF AnswersInv
  <2>5. QED
    BY <2>3, <2>4
<1>6. CASE Receive \/ Seed \/ TopOfTurn \/ Nudge
  <2>1. \A k \in DOMAIN todo' : todo'[k].role # "result"
    BY <1>6, NoQuestions DEF Receive, Recorded, Assistant, Msg, Seed, TopOfTurn, Nudge
  <2>2. QED
    BY <1>2, <2>1
<1>7. CASE SettleFailed \/ SettleAborted \/ CutOff \/ BatchSettles
  <2>1. /\ todo = <<>> /\ todo' = Results(reply.calls) /\ phase \in {"reply", "batch"}
        /\ UNCHANGED <<history, crashes>>
    BY <1>7 DEF SettleFailed, SettleAborted, CutOff, BatchSettles, SyntheticResults, Batch, At
  <2>2. CASE reply.calls = {}
    <3>1. {} \in CallSets
      BY DEF CallSets
    <3>2. Len(todo') = 0 /\ todo' \in Seq(Messages)
      BY <2>1, <2>2, <3>1, AnswersFit, FS_EmptySet
    <3>3. QED
      BY <1>2, <3>2
  <2>3. CASE reply.calls # {}
    <3>1. Flow = history /\ Flow' = history \o todo'
      BY <1>1, <2>1 DEF Flow
    <3>2. /\ Len(history) > 0 /\ history[Len(history)].role = "assistant"
          /\ history[Len(history)].calls = reply.calls
          /\ \A n \in crashes : n < Len(history)
      BY <2>1, <2>3, <3>1 DEF ReplyInv
    <3>3. LastIn(history, Len(history)) /\ Len(history) \in DOMAIN history
      BY <1>1, <3>2 DEF LastIn
    <3>4. todo' \in Seq(Messages)
      BY DEF ConversationOK
    <3>5. Len(Flow') = Len(history) + Len(todo')
      BY <1>1, <3>1, <3>4
    <3>6. QED
      BY <2>1, <3>2, <3>3, <3>5 DEF AnswersInv
  <2>4. QED
    BY <2>2, <2>3
<1>8. CASE TakeSteering \/ HearSteering
  BY <1>2, <1>8 DEF TakeSteering, HearSteering, TodoInv
<1>9. CASE UNCHANGED <<history, todo, crashes>>
  <2>1. Flow' = Flow
    BY <1>9 DEF Flow
  <2>2. QED
    BY <1>9, <2>1 DEF AnswersInv
<1>10. CASE \/ StopAborted \/ StopAtCeiling \/ AbortedBeforeRequest \/ EndSettled \/ TooManyPauses
            \/ Finish \/ AbortedAfterBatch \/ SendRequest \/ Pause \/ AfterBatch \/ Dispatch \/ Open
            \/ Steer \/ Abort \/ StartNext \/ HookSettles \/ CheckSettles \/ ToolSettles \/ PostHookSettles
            \/ StrayEnds \/ UNCHANGED vars
  BY <1>9, <1>10 DEF StopAborted, StopAtCeiling, AbortedBeforeRequest, EndSettled, TooManyPauses, Finish,
     AbortedAfterBatch, SendRequest, Pause, AfterBatch, Complete, Dispatch, Open, Steer, Abort, StartNext,
     HookSettles, CheckSettles, ToolSettles, PostHookSettles, StrayEnds, vars, conversation
<1>11. QED
  BY <1>3, <1>4, <1>5, <1>6, <1>7, <1>8, <1>10 DEF Next, Caller, Progress

-----------------------------------------------------------------------------
(* The steps of Conversation, over what they are mapped to. *)

Roles(h) == [i \in DOMAIN h |-> h[i].role]
Asked    == phase = "stream" \/ (phase = "reply" /\ todo # <<>>)
Waiting  == Steers(todo) \cup Steers(steering)
IsOldest(n, S) == n \in S /\ \A m \in S : n <= m
Forgets(S, rest) == rest \subseteq S /\ \A m \in S \ rest : \A n \in rest : m < n

\* The roles of a longer conversation.
LEMMA RolesAppend ==
  ASSUME NEW h \in Seq(Messages), NEW m \in Messages
  PROVE  Roles(Append(h, m)) = Append(Roles(h), m.role)
<1> DEFINE g == Append(h, m)
<1>1. /\ DOMAIN g = 1..(Len(h) + 1) /\ Len(h) \in Nat /\ DOMAIN h = 1..Len(h)
      /\ g[Len(h) + 1] = m /\ \A i \in 1..Len(h) : g[i] = h[i]
  OBVIOUS
<1> HIDE DEF g
<1> DEFINE r == Roles(h)
<1>2. r = [i \in 1..Len(h) |-> h[i].role]
  BY <1>1 DEF Roles
<1>3. DOMAIN r = 1..Len(h) /\ Len(r) = Len(h)
  BY <1>1, <1>2
<1>4. Append(r, m.role) = [i \in 1..(Len(r) + 1) |-> IF i = Len(r) + 1 THEN m.role ELSE r[i]]
  BY <1>1, <1>2, <1>3
<1>5. \A i \in 1..(Len(h) + 1) : i = Len(h) + 1 \/ i \in 1..Len(h)
  BY <1>1
<1>6. Roles(g) = [i \in 1..(Len(h) + 1) |-> IF i = Len(h) + 1 THEN m.role ELSE h[i].role]
  BY <1>1, <1>5 DEF Roles
<1>7. Append(r, m.role) = [i \in 1..(Len(h) + 1) |-> IF i = Len(h) + 1 THEN m.role ELSE h[i].role]
  BY <1>2, <1>3, <1>4, <1>5
<1>8. QED
  BY <1>6, <1>7 DEF g

\* No step of Conversation.
LEMMA MapsNothing ==
  ASSUME history' = history, crashes' = crashes, steered' = steered,
         Asked' = Asked, Waiting' = Waiting
  PROVE  UNCHANGED Talk!talkVars
<1>1. Owed' = Owed
  BY OwedIs
<1>2. QED
  BY <1>1 DEF Talk!talkVars, Asked, Waiting

LEMMA MapsSteer ==
  ASSUME history' = history, crashes' = crashes, steered' = steered + 1,
         Asked' = Asked, Waiting' = Waiting \cup {steered + 1}
  PROVE  Talk!Next
<1>1. Owed' = Owed
  BY OwedIs
<1>2. Talk!Steer
  BY <1>1 DEF Talk!Steer, Asked, Waiting
<1>3. QED
  BY <1>2 DEF Talk!Next

LEMMA MapsAsk ==
  ASSUME history' = history, crashes' = crashes, steered' = steered, Waiting' = Waiting,
         ~Asked, Asked', Owed = {}
  PROVE  Talk!Next
<1>1. Owed' = Owed
  BY OwedIs
<1>2. Talk!Ask
  BY <1>1 DEF Talk!Ask, Talk!Quiet, Asked, Waiting
<1>3. QED
  BY <1>2 DEF Talk!Next

LEMMA MapsEmptyReply ==
  ASSUME history' = history, crashes' = crashes, steered' = steered, Waiting' = Waiting,
         Asked, ~Asked'
  PROVE  Talk!Next
<1>1. Owed' = Owed
  BY OwedIs
<1>2. Talk!Reply
  BY <1>1 DEF Talk!Reply, Asked, Waiting
<1>3. QED
  BY <1>2 DEF Talk!Next

\* A message is appended.
LEMMA MapsAppend ==
  ASSUME NEW role, Roles(history') = Append(Roles(history), role), steered' = steered, ~Asked',
         \/ /\ role \in {"user", "operator"} /\ ~Asked /\ Owed = {} /\ Owed' = {}
            /\ Waiting' = Waiting /\ Steers(history') = Steers(history)
         \/ /\ role = "steer" /\ ~Asked /\ Owed = {} /\ Owed' = {}
            /\ \E n : /\ IsOldest(n, Waiting) /\ Waiting' = Waiting \ {n}
                      /\ Steers(history') = Steers(history) \cup {n}
         \/ /\ role = "assistant" /\ Asked
            /\ Waiting' = Waiting /\ Steers(history') = Steers(history)
         \/ /\ role = "result" /\ ~Asked /\ \E k : IsOldest(k, Owed) /\ Owed' = Owed \ {k}
            /\ Waiting' = Waiting /\ Steers(history') = Steers(history)
  PROVE  Talk!Next
<1>1. Talk!Speaks(role)
  BY DEF Talk!Speaks, Roles
<1>2. CASE role \in {"user", "operator"}
  <2>1. Talk!Say
    BY <1>1, <1>2 DEF Talk!Say, Talk!Quiet, Asked, Waiting
  <2>2. QED
    BY <2>1 DEF Talk!Next
<1>3. CASE role = "steer"
  <2>1. Talk!Hear
    BY <1>1, <1>3 DEF Talk!Hear, Talk!Quiet, Talk!IsFirst, Asked, Waiting, IsOldest
  <2>2. QED
    BY <2>1 DEF Talk!Next
<1>4. CASE role = "assistant"
  <2>1. Talk!Reply
    BY <1>1, <1>4 DEF Talk!Reply, Asked, Waiting
  <2>2. QED
    BY <2>1 DEF Talk!Next
<1>5. CASE role = "result"
  <2>1. Talk!Answer
    BY <1>1, <1>5 DEF Talk!Answer, Talk!IsFirst, Asked, Waiting, IsOldest
  <2>2. QED
    BY <2>1 DEF Talk!Next
<1>6. QED
  BY <1>2, <1>3, <1>4, <1>5

\* The run throws, with the conversation as it is or with one message more.
LEMMA MapsThrow ==
  ASSUME steered' = steered, ~Asked', Owed' = {},
         \/ /\ history' = history /\ Forgets(Waiting, Waiting')
         \/ \E role :
              /\ Roles(history') = Append(Roles(history), role)
              /\ \/ role = "result" /\ ~Asked /\ Owed # {}
                 \/ role \in {"user", "operator"} /\ ~Asked /\ Owed = {}
                 \/ role = "assistant" /\ Asked
              /\ Steers(history') = Steers(history) /\ Forgets(Waiting, Waiting')
         \/ /\ Roles(history') = Append(Roles(history), "steer") /\ ~Asked /\ Owed = {}
            /\ \E n : /\ IsOldest(n, Waiting) /\ Forgets(Waiting \ {n}, Waiting')
                      /\ Steers(history') = Steers(history) \cup {n}
  PROVE  Talk!Next
<1>1. Forgets(Waiting, Waiting') => Talk!Drops(Waiting)
  BY DEF Forgets, Talk!Drops, Waiting
<1>2. \A n : Forgets(Waiting \ {n}, Waiting') => Talk!Drops(Waiting \ {n})
  BY DEF Forgets, Talk!Drops, Waiting
<1>3. Talk!Throw
  <2>1. CASE history' = history /\ Forgets(Waiting, Waiting')
    BY <1>1, <2>1 DEF Talk!Throw, Asked, Waiting
  <2>2. CASE \E role :
              /\ Roles(history') = Append(Roles(history), role)
              /\ \/ role = "result" /\ ~Asked /\ Owed # {}
                 \/ role \in {"user", "operator"} /\ ~Asked /\ Owed = {}
                 \/ role = "assistant" /\ Asked
              /\ Steers(history') = Steers(history) /\ Forgets(Waiting, Waiting')
    BY <1>1, <2>2 DEF Talk!Throw, Talk!Quiet, Talk!Speaks, Asked, Waiting, Roles
  <2>3. CASE /\ Roles(history') = Append(Roles(history), "steer") /\ ~Asked /\ Owed = {}
             /\ \E n : /\ IsOldest(n, Waiting) /\ Forgets(Waiting \ {n}, Waiting')
                       /\ Steers(history') = Steers(history) \cup {n}
    BY <1>2, <2>3 DEF Talk!Throw, Talk!Quiet, Talk!Speaks, Talk!IsFirst, IsOldest, Asked, Waiting, Roles
  <2>4. QED
    BY <2>1, <2>2, <2>3
<1>4. QED
  BY <1>3 DEF Talk!Next

\* The message that is appended next, and the steered ones that are left.
LEMMA HeadSaid ==
  ASSUME ConversationOK, SteerInv, todo # <<>>,
         NEW m, m = Head(todo), NEW left, left = Steers(Tail(todo)) \cup Steers(steering)
  PROVE  /\ m \in Messages /\ m = todo[1]
         /\ Roles(Append(history, m)) = Append(Roles(history), m.role)
         /\ m.role # "steer" => left = Waiting /\ Steers(Append(history, m)) = Steers(history)
         /\ m.role = "steer" => /\ IsOldest(m.tag, Waiting) /\ left = Waiting \ {m.tag}
                                /\ Steers(Append(history, m)) = Steers(history) \cup {m.tag}
         /\ Forgets(left, Steers(steering))
<1>1. history \in Seq(Messages) /\ todo \in Seq(Messages) /\ Ordered(todo)
  BY DEF ConversationOK, SteerInv
<1>2. m \in Messages /\ m = todo[1]
  BY <1>1
<1>3. Roles(Append(history, m)) = Append(Roles(history), m.role)
  BY <1>1, <1>2, RolesAppend
<1>4. Steers(Append(history, m)) = Steers(history) \cup (IF m.role = "steer" THEN {m.tag} ELSE {})
  BY <1>1, <1>2, SteersAppend
<1>5. /\ m.role = "steer" => /\ m.tag \in Steers(todo) /\ Steers(Tail(todo)) = Steers(todo) \ {m.tag}
                             /\ \A t \in Steers(Tail(todo)) : m.tag < t
      /\ m.role # "steer" => Steers(Tail(todo)) = Steers(todo)
  BY <1>1, SteersTail
<1>6. Below(Steers(todo), Steers(steering)) /\ Steers(todo) \subseteq Nat /\ Steers(steering) \subseteq Nat
  BY SteersApart DEF SteerInv
<1>7. Forgets(left, Steers(steering))
  BY <1>5, <1>6 DEF Forgets, Below
<1>8. ASSUME m.role = "steer" PROVE IsOldest(m.tag, Waiting) /\ left = Waiting \ {m.tag}
  <2>1. \A t \in Steers(steering) : m.tag < t
    BY <1>5, <1>6, <1>8 DEF Below
  <2>2. IsOldest(m.tag, Waiting)
    BY <1>5, <1>6, <1>8, <2>1 DEF IsOldest, Waiting
  <2>3. m.tag \notin Steers(steering)
    BY <1>6, <2>1
  <2>4. QED
    BY <1>5, <1>8, <2>2, <2>3 DEF Waiting
<1>9. QED
  BY <1>2, <1>3, <1>4, <1>5, <1>7, <1>8 DEF Waiting

\* The result that is appended next is the first that is owed.
LEMMA FirstOwed ==
  ASSUME ConversationOK, FlowInv, AnswersInv, todo # <<>>, todo[1].role = "result",
         phase \notin {"reply", "batch"}
  PROVE  \E k : IsOldest(k, Owed) /\ OwedIn(Append(history, todo[1]), crashes) = Owed \ {k}
<1>1. /\ history \in Seq(Messages) /\ todo \in Seq(Messages) /\ Len(history) \in Nat /\ Len(todo) \in Nat
      /\ Len(Flow) = Len(history) + Len(todo) /\ DOMAIN history = 1..Len(history)
      /\ \A j \in 1..Len(todo) : Flow[Len(history) + j] = todo[j]
  BY DEF ConversationOK, Flow
<1>2. 1 \in 1..Len(todo) /\ 1 \in DOMAIN todo
  BY <1>1
<1>3. PICK m \in Messages : m = todo[1]
  BY <1>1, <1>2, ElementOfSeq
<1>4. PICK i \in DOMAIN history :
        /\ LastIn(history, i) /\ \A n \in crashes : n < i
        /\ i + Len(Results(history[i].calls)) = Len(Flow)
  BY <1>2 DEF AnswersInv
<1>5. i \in Nat /\ \A n \in crashes : n \in Nat
  BY <1>1 DEF ConversationOK
<1>6. ~CutIn(history, crashes, i)
  BY <1>4, <1>5 DEF CutIn
<1> DEFINE answers == Results(history[i].calls)
           h == Append(history, m)
           k == Len(history) + 1 - i
<1>7. /\ history[i].calls \in CallSets /\ Behind(Flow, i) /\ Flow[i] = history[i]
      /\ \A j \in 1..Len(answers) : i + j <= Len(history) => history[i + j] = answers[j]
  BY <1>4, <1>6, LastAnswered DEF Pending
<1>8. Len(answers) \in Nat /\ \A j \in 1..Len(answers) : Flow[i + j] = answers[j]
  BY <1>7, AnswersFit DEF Behind
<1>9. Owed = {j \in 1..Len(answers) : i + j > Len(history)}
  BY <1>1, <1>4, <1>6, <1>7, OwedIs, OwedRest
<1>10. /\ h \in Seq(Messages) /\ DOMAIN h = 1..(Len(history) + 1) /\ Len(h) = Len(history) + 1
       /\ h[Len(history) + 1] = m /\ \A j \in 1..Len(history) : h[j] = history[j]
  BY <1>1, <1>3
<1> HIDE DEF h
<1>11. /\ k \in 1..Len(answers) /\ i + k = Len(history) + 1 /\ k \in Int
  <2>1. i <= Len(history) /\ i + Len(answers) = Len(history) + Len(todo) /\ Len(todo) >= 1
    BY <1>1, <1>2, <1>4
  <2>2. QED
    BY ONLY <1>1, <1>5, <1>8, <2>1
<1>12. answers[k] = m
  <2>1. Flow[i + k] = answers[k]
    BY <1>8, <1>11
  <2>2. Flow[Len(history) + 1] = m
    BY <1>1, <1>2, <1>3
  <2>3. QED
    BY <1>11, <2>1, <2>2
<1>13. h[i] = history[i] /\ i \in DOMAIN h
  BY <1>1, <1>10
<1>14. LastIn(h, i)
  <2>1. h[i].role = "assistant" /\ m.role # "assistant"
    BY <1>3, <1>4, <1>13 DEF LastIn
  <2>2. \A j \in (i + 1)..Len(h) : j = Len(history) + 1 \/ (j \in (i + 1)..Len(history) /\ j \in 1..Len(history))
    BY <1>1, <1>5, <1>10
  <2>3. QED
    BY <1>4, <1>10, <1>13, <2>1, <2>2 DEF LastIn
<1>15. ~CutIn(h, crashes, i)
  BY <1>4, <1>5 DEF CutIn
<1> HIDE DEF answers, k
<1>16. \A j \in 1..Len(answers) : i + j <= Len(h) => h[i + j] = answers[j]
  <2>1. SUFFICES ASSUME NEW j \in 1..Len(answers), i + j <= Len(h) PROVE h[i + j] = answers[j]
    OBVIOUS
  <2>2. CASE i + j = Len(history) + 1
    <3>1. j = k
      BY <1>1, <1>5, <1>8, <1>11, <2>2
    <3>2. QED
      BY <1>10, <1>11, <1>12, <3>1
  <2>3. CASE i + j <= Len(history)
    <3>1. i + j \in 1..Len(history)
      BY <1>1, <1>5, <1>8, <2>3
    <3>2. QED
      BY <1>7, <1>10, <2>3, <3>1
  <2>4. QED
    BY <1>1, <1>5, <1>8, <1>10, <2>1, <2>2, <2>3
<1>17. OwedIn(h, crashes) = {j \in 1..Len(answers) : i + j > Len(h)}
  <2>1. h[i].calls \in CallSets /\ answers = Results(h[i].calls)
    BY <1>7, <1>13 DEF answers
  <2>2. QED
    BY <1>10, <1>14, <1>15, <1>16, <2>1, OwedRest
<1>18. k \in Owed /\ \A j \in Owed : k <= j
  BY <1>1, <1>5, <1>8, <1>9, <1>11
<1>19. OwedIn(h, crashes) = Owed \ {k}
  <2>1. \A j \in 1..Len(answers) : (i + j > Len(history) + 1) <=> (i + j > Len(history) /\ j # k)
    BY <1>1, <1>5, <1>8, <1>11
  <2>2. QED
    BY <1>9, <1>10, <1>17, <2>1
<1>20. QED
  BY <1>3, <1>18, <1>19 DEF IsOldest, h

\* #appendMessage, whether the store takes the message or throws.
LEMMA AppendMaps ==
  ASSUME IInv, AppendOne \/ AppendFails
  PROVE  Talk!Next
<1>1. /\ todo # <<>> /\ phase \notin {"idle", "open"} /\ history' = Append(history, Head(todo))
      /\ steered' = steered /\ steering' = steering
  BY DEF AppendOne, AppendFails, Crash
<1>2. PICK m : m = Head(todo)
  OBVIOUS
<1>3. PICK left : left = Steers(Tail(todo)) \cup Steers(steering)
  OBVIOUS
<1>4. ConversationOK /\ SteerInv
  BY DEF IInv
<1>5. /\ m \in Messages /\ m = todo[1]
      /\ Roles(history') = Append(Roles(history), m.role)
      /\ m.role # "steer" => left = Waiting /\ Steers(history') = Steers(history)
      /\ m.role = "steer" => /\ IsOldest(m.tag, Waiting) /\ left = Waiting \ {m.tag}
                             /\ Steers(history') = Steers(history) \cup {m.tag}
      /\ Forgets(left, Steers(steering))
  <2>1. history' = Append(history, m)
    BY <1>1, <1>2
  <2>2. /\ m \in Messages /\ m = todo[1]
        /\ Roles(Append(history, m)) = Append(Roles(history), m.role)
        /\ m.role # "steer" => left = Waiting /\ Steers(Append(history, m)) = Steers(history)
        /\ m.role = "steer" => /\ IsOldest(m.tag, Waiting) /\ left = Waiting \ {m.tag}
                               /\ Steers(Append(history, m)) = Steers(history) \cup {m.tag}
        /\ Forgets(left, Steers(steering))
    BY ONLY SMTT(30), <1>1, <1>2, <1>3, <1>4, HeadSaid
  <2>3. QED
    BY <2>1, <2>2
<1>6. phase \notin {"stream", "batch"} /\ crashes \subseteq 0..Len(history)
  BY <1>1 DEF IInv, TodoInv
<1>7. history \in Seq(Messages) /\ todo \in Seq(Messages)
  BY DEF IInv, ConversationOK
<1>8. 1 \in DOMAIN todo
  BY <1>1, <1>7
<1>9. Asked <=> m.role = "assistant"
  <2>1. phase = "reply" => m.role = "assistant"
    BY <1>1, <1>5 DEF IInv, ReplyInv
  <2>2. phase # "reply" => m.role # "assistant"
    BY <1>5, <1>8 DEF IInv, ReplyInv
  <2>3. QED
    BY <1>1, <1>6, <2>1, <2>2 DEF Asked
<1>10. m.role \in {"user", "operator", "steer"} => Owed = {}
  <2>1. ASSUME m.role \in {"user", "operator", "steer"} PROVE phase # "reply" /\ todo[1].role # "result"
    BY <1>1, <1>5, <1>9, <2>1 DEF Asked
  <2>2. QED
    BY <1>6, <2>1, OwesNothing DEF IInv
<1>11. m.role = "result" => \E k : IsOldest(k, Owed) /\ OwedIn(history', crashes) = Owed \ {k}
  <2>1. m.role = "result" => phase # "reply"
    BY <1>1, <1>9 DEF Asked
  <2>2. QED
    BY <1>1, <1>2, <1>5, <1>6, <2>1, FirstOwed DEF IInv
<1>12. m.role \in {"user", "operator", "steer", "assistant", "result"}
  BY <1>5 DEF Messages
<1>13. CASE AppendOne
  <2>1. todo' = Tail(todo) /\ phase' = phase /\ crashes' = crashes
    BY <1>13 DEF AppendOne
  <2>2. Waiting' = left
    BY <1>1, <1>3, <2>1 DEF Waiting
  <2>3. ~Asked'
    <3>1. phase = "reply" => todo' = <<>>
      BY <1>1, <1>7, <2>1 DEF IInv, ReplyInv
    <3>2. QED
      BY <1>6, <2>1, <3>1 DEF Asked
  <2>4. Owed' = OwedIn(history', crashes)
    BY <2>1, OwedIs
  <2>5. m.role \in {"user", "operator", "steer"} => Owed' = {}
    <3>1. m.role # "assistant" => OwedIn(Append(history, m), crashes) \subseteq OwedIn(history, crashes)
      BY <1>5, <1>6, <1>7, OwedShrinks
    <3>2. QED
      BY <1>1, <1>2, <1>10, <2>4, <3>1, OwedIs
  <2>6. QED
    BY <1>1, <1>5, <1>9, <1>10, <1>11, <1>12, <2>2, <2>3, <2>4, <2>5, MapsAppend
<1>14. CASE AppendFails
  <2>1. todo' = <<>> /\ phase' = "idle" /\ crashes' = crashes \cup {Len(history')}
    BY <1>14 DEF AppendFails, Crash, End
  <2>2. Waiting' = Steers(steering)
    BY <1>1, <2>1, NoneSteered DEF Waiting
  <2>3. ~Asked'
    BY <2>1 DEF Asked
  <2>4. Owed' = {}
    <3>1. Append(history, m) \in Seq(Messages)
      BY <1>5, <1>7
    <3>2. history' \in Seq(Messages)
      BY <1>1, <1>2, <3>1
    <3>3. PICK h \in Seq(Messages) : h = history'
      BY <3>2
    <3>4. PICK cr : cr = crashes' /\ Len(h) \in cr
      BY <2>1, <3>3
    <3>5. OwedIn(h, cr) = {}
      BY <3>4, OwedCut
    <3>6. QED
      BY <3>3, <3>4, <3>5, OwedIs
  <2>5. m.role = "result" => Owed # {}
    BY <1>11 DEF IsOldest
  <2>6. CASE m.role = "steer"
    BY <1>1, <1>5, <1>9, <1>10, <2>2, <2>3, <2>4, <2>6, MapsThrow
  <2>7. CASE m.role # "steer"
    <3>1. Forgets(Waiting, Waiting') /\ Steers(history') = Steers(history)
      BY <1>5, <2>2, <2>7
    <3>2. \/ m.role = "result" /\ ~Asked /\ Owed # {}
          \/ m.role \in {"user", "operator"} /\ ~Asked /\ Owed = {}
          \/ m.role = "assistant" /\ Asked
      BY <1>9, <1>10, <1>12, <2>5, <2>7
    <3>3. QED
      BY <1>1, <1>5, <2>3, <2>4, <3>1, <3>2, MapsThrow
  <2>8. QED
    BY <2>6, <2>7
<1>15. QED
  BY <1>13, <1>14

\* The other exceptions: the session does not open, or a hook throws.
LEMMA ThrowMaps ==
  ASSUME IInv, OpenFails \/ CallThrows
  PROVE  Talk!Next
<1>1. todo' = <<>> /\ phase' = "idle" /\ UNCHANGED <<history, steering, steered>>
  BY DEF OpenFails, CallThrows, Crash, End
<1>2. ~Asked' /\ Waiting' = Steers(steering)
  BY <1>1, NoneSteered DEF Asked, Waiting
<1>3. Forgets(Waiting, Waiting')
  BY <1>2 DEF Forgets, Waiting, IInv, SteerInv, Below
<1>4. history \in Seq(Messages)
  BY DEF IInv, ConversationOK
<1>5. Owed' = {}
  <2>1. CASE OpenFails
    <3>1. phase = "open" /\ crashes' = crashes
      BY <2>1 DEF OpenFails
    <3>2. todo[1].role = "user"
      BY <3>1 DEF IInv, TodoInv
    <3>3. Owed = {}
      BY <3>1, <3>2, OwesNothing DEF IInv
    <3>4. QED
      BY <1>1, <3>1, <3>3, OwedIs
  <2>2. CASE CallThrows
    <3>1. crashes' = crashes \cup {Len(history)}
      BY <2>2 DEF CallThrows
    <3>2. PICK cr : cr = crashes' /\ Len(history) \in cr
      BY <3>1
    <3>3. OwedIn(history, cr) = {}
      BY <1>4, <3>2, OwedCut
    <3>4. QED
      BY <1>1, <3>2, <3>3, OwedIs
  <2>3. QED
    BY <2>1, <2>2
<1>6. QED
  BY <1>1, <1>2, <1>3, <1>5, MapsThrow

\* Every step of the run is a step of Conversation, or none.
LEMMA TalkStep ==
  ASSUME IInv, ConversationOK', [Next]_vars
  PROVE  [Talk!Next]_(Talk!talkVars)
<1>1. history \in Seq(Messages) /\ todo \in Seq(Messages) /\ steering \in Seq(Messages)
  BY DEF IInv, ConversationOK
<1>2. Steers(<<>>) = {}
  BY NoneSteered
<1>3. CASE AppendOne \/ AppendFails
  BY <1>3, AppendMaps
<1>4. CASE OpenFails \/ CallThrows
  BY <1>4, ThrowMaps
<1>5. CASE Steer
  <2>1. /\ UNCHANGED <<history, todo, crashes, phase>> /\ steered' = steered + 1
        /\ steering' = Append(steering, SteerMessage(steered + 1)) /\ steered + 1 \in 1..MaxSteers
    BY <1>5, BoundsAssumption DEF Steer, IInv, ConversationOK
  <2>2. PICK m \in Messages : m = SteerMessage(steered + 1) /\ m.role = "steer" /\ m.tag = steered + 1
    <3>1. SteerMessage(steered + 1) \in Messages
      BY <2>1, MessagesTyped
    <3>2. QED
      BY <3>1 DEF SteerMessage, Msg
  <2>3. Steers(Append(steering, m)) = Steers(steering) \cup {steered + 1}
    BY <1>1, <2>2, SteersAppend
  <2>4. Waiting' = Waiting \cup {steered + 1} /\ Asked' = Asked
    BY <2>1, <2>2, <2>3 DEF Waiting, Asked
  <2>5. QED
    BY <2>1, <2>4, MapsSteer
<1>6. CASE SendRequest
  <2>1. phase = "compact" /\ todo = <<>> /\ phase' = "stream" /\ UNCHANGED conversation
    BY <1>6 DEF SendRequest, At
  <2>2. ~Asked /\ Asked' /\ Waiting' = Waiting
    BY <2>1 DEF Asked, Waiting, conversation
  <2>3. Owed = {}
    BY <2>1, OwesNothing DEF IInv
  <2>4. QED
    BY <2>1, <2>2, <2>3, MapsAsk DEF conversation
<1>7. CASE Receive
  <2>1. phase = "stream" /\ todo = <<>> /\ phase' = "reply" /\ UNCHANGED <<history, steering, steered, crashes>>
    BY <1>7 DEF Receive, At
  <2>2. \A j \in DOMAIN todo' : todo'[j].role # "steer"
    BY <1>7 DEF Receive, Recorded, Assistant, Msg
  <2>3. Waiting' = Waiting /\ Asked
    BY <1>2, <2>1, <2>2, NoneSteered DEF Waiting, Asked
  <2>4. CASE todo' = <<>>
    BY <2>1, <2>3, <2>4, MapsEmptyReply DEF Asked
  <2>5. CASE todo' # <<>>
    BY <2>1, <2>3, <2>5, MapsNothing DEF Asked
  <2>6. QED
    BY <2>4, <2>5
<1>8. CASE Prompt \/ TakeSteering \/ HearSteering
  <2>1. /\ todo = <<>> /\ steering' = <<>> /\ phase \notin {"stream"} /\ phase' \notin {"stream", "reply"}
        /\ UNCHANGED <<history, steered, crashes>>
    BY <1>8 DEF Prompt, TakeSteering, HearSteering, Finished, At, IInv, TodoInv
  <2>2. Steers(todo') = Steers(steering)
    <3>1. CASE Prompt
      <4>1. PICK m \in Messages : m = UserMessage(run + 1) /\ m.role # "steer"
        <5>1. run + 1 \in 1..MaxPrompts
          BY <3>1, BoundsAssumption DEF Prompt, IInv, ControlInv, CountersOK
        <5>2. QED
          BY <5>1, MessagesTyped DEF UserMessage, Msg
      <4>2. todo' = <<m>> \o steering
        BY <3>1, <4>1 DEF Prompt, QueuedWhileIdle
      <4>3. QED
        BY <1>1, <4>1, <4>2, SteersBehind
    <3>2. CASE TakeSteering \/ HearSteering
      BY <3>2 DEF TakeSteering, HearSteering
    <3>3. QED
      BY <1>8, <3>1, <3>2
  <2>3. Waiting' = Waiting /\ Asked' = Asked
    BY <1>2, <2>1, <2>2 DEF Waiting, Asked
  <2>4. QED
    BY <2>1, <2>3, MapsNothing
<1>9. CASE Seed \/ TopOfTurn \/ Nudge \/ SettleFailed \/ SettleAborted \/ CutOff \/ BatchSettles
  <2>1. /\ todo = <<>> /\ phase # "stream" /\ phase' \notin {"stream", "reply"}
        /\ UNCHANGED <<history, steering, steered, crashes>>
    BY <1>9 DEF Seed, TopOfTurn, Nudge, SettleFailed, SettleAborted, CutOff, BatchSettles, Finished, At
  <2>2. \A k \in DOMAIN todo' : todo'[k].role # "steer"
    <3>1. CASE Seed \/ TopOfTurn \/ Nudge
      BY <3>1, NoQuestions DEF Seed, TopOfTurn, Nudge
    <3>2. CASE SettleFailed \/ SettleAborted \/ CutOff \/ BatchSettles
      <4>1. todo' = Results(reply.calls)
        BY <3>2 DEF SettleFailed, SettleAborted, CutOff, BatchSettles, SyntheticResults, Batch, At
      <4>2. reply.calls \in CallSets
        BY DEF IInv, CallsInv, CallSets
      <4>3. QED
        BY <4>1, <4>2, AnswersFit
    <3>3. QED
      BY <1>9, <3>1, <3>2
  <2>3. Waiting' = Waiting /\ Asked' = Asked
    BY <1>2, <2>1, <2>2, NoneSteered DEF Waiting, Asked
  <2>4. QED
    BY <2>1, <2>3, MapsNothing
<1>10. CASE UNCHANGED conversation /\ Asked' = Asked
  BY <1>10, MapsNothing DEF conversation, Waiting
<1>11. CASE \/ StopAborted \/ StopAtCeiling \/ AbortedBeforeRequest \/ EndSettled \/ TooManyPauses
            \/ Finish \/ AbortedAfterBatch \/ Pause \/ AfterBatch \/ Dispatch
  <2>1. todo = <<>> /\ UNCHANGED conversation /\ phase # "stream" /\ phase' # "stream"
    BY <1>11 DEF StopAborted, StopAtCeiling, AbortedBeforeRequest, EndSettled, TooManyPauses, Finish,
       AbortedAfterBatch, Pause, AfterBatch, Dispatch, End, Complete, At, Finished
  <2>2. Asked' = Asked
    BY <2>1 DEF Asked, conversation
  <2>3. QED
    BY <1>10, <2>1, <2>2
<1>12. CASE \/ Open \/ Abort \/ StartNext \/ HookSettles \/ CheckSettles \/ ToolSettles \/ PostHookSettles
            \/ StrayEnds \/ UNCHANGED vars
  <2>1. UNCHANGED conversation /\ (phase' = phase \/ {phase, phase'} \subseteq {"open", "seed"})
    BY <1>12 DEF Open, Abort, StartNext, HookSettles, CheckSettles, ToolSettles, PostHookSettles,
       StrayEnds, vars, conversation
  <2>2. Asked' = Asked
    BY <2>1 DEF Asked, conversation
  <2>3. QED
    BY <1>10, <2>1, <2>2
<1>13. QED
  BY <1>3, <1>4, <1>5, <1>6, <1>7, <1>8, <1>9, <1>11, <1>12 DEF Next, Caller, Progress

-----------------------------------------------------------------------------
(* Theorems. *)

\* The invariant holds of an agent that has not been prompted.
LEMMA Initially == Init => IInv
<1> SUFFICES ASSUME Init PROVE IInv
  OBVIOUS
<1>1. ControlInv
  BY WarnAtRange, MaxTurnsAssumption, MaxPausesAssumption, BoundsAssumption
     DEF Init, ControlInv, CountersOK, TurnInv, WarnInv, AbortedNeverCompletes, Phases, Outside
<1>2. CallsInv
  BY NoReplyTyped DEF Init, CallsInv, CallsOK
<1>3. FlagsOK
  BY DEF Init, FlagsOK
<1>4. ConversationOK
  BY EmptySeq, BoundsAssumption DEF Init, ConversationOK
<1>5. TodoInv /\ FlowInv
  <2>1. history = <<>> /\ todo = <<>> /\ steering = <<>> /\ crashes = {} /\ phase = "idle"
    BY DEF Init
  <2>2. Len(Flow) = 0
    BY <2>1, EmptySeq DEF Flow
  <2>3. QED
    BY <2>1, <2>2, EmptySeq DEF TodoInv, FlowInv
<1>6. SteerInv /\ ReplyInv /\ AnswersInv
  <2>1. history = <<>> /\ todo = <<>> /\ steering = <<>> /\ lost = {} /\ steered = 0 /\ phase = "idle"
    BY DEF Init
  <2>2. Steers(<<>>) = {} /\ Ordered(<<>>)
    BY NoneSteered
  <2>3. SteerInv
    BY <2>1, <2>2 DEF SteerInv, Below
  <2>4. QED
    BY <2>1, <2>3 DEF ReplyInv, AnswersInv
<1>7. QED
  BY <1>1, <1>2, <1>3, <1>4, <1>5, <1>6 DEF IInv

\* The invariant the other theorems rest on.
THEOREM Invariance == Spec => []IInv
<1>1. IInv /\ [Next]_vars => ConversationOK'
  BY ConversationStep DEF IInv
<1>2. IInv /\ [Next]_vars => IInv'
  BY <1>1, ControlStep, CallsStep, FlagsStep, TodoStep, FlowStep, SteersStep, ReplyStep, AnswersStep DEF IInv
<1>3. QED
  BY Initially, <1>2, PTL DEF Spec

\* Every variable keeps its type: a run takes at most maxTurns turns and at
\* most MAX_CONSECUTIVE_PAUSES pauses in a row (runLoop).
THEOREM TypeCorrect == Spec => []TypeOK
<1>1. IInv => TypeOK
  BY DEF IInv, ControlInv, CallsInv, TypeOK
<1>2. QED
  BY Invariance, <1>1, PTL

\* A run aborted at any await, or by a listener of any event but its last, never
\* reports that it completed (Agent.abort against the awaits of runLoop).
THEOREM AbortHonoured == Spec => []AbortedNeverCompletes
<1>1. IInv => AbortedNeverCompletes
  BY DEF IInv, ControlInv
<1>2. QED
  BY Invariance, <1>1, PTL

\* The ceiling is announced with turns to spare for every value of maxTurns
\* (turnWarningThreshold and the top of runLoop).
THEOREM CeilingIsAnnounced == Spec => CeilingAnnounced
<1>1. ASSUME IInv, StopAtCeiling, MaxTurns > 2
      PROVE  warnedAt > 0 /\ MaxTurns - warnedAt >= 2
  <2>1. /\ turn >= MaxTurns /\ turn \in 0..MaxTurns /\ warnedAt \in 0..MaxTurns
        /\ warnedAt # 0 => MaxTurns - warnedAt = WarnAt
        /\ warnedAt = 0 => MaxTurns - turn >= WarnAt
    BY <1>1 DEF StopAtCeiling, AtCeiling, IInv, ControlInv, CountersOK, WarnInv
  <2>2. WarnAt \in Nat /\ WarnAt >= 2
    BY <1>1, WarnAtRange
  <2>3. QED
    BY <2>1, <2>2, MaxTurnsAssumption
<1>2. IInv => [StopAtCeiling /\ MaxTurns > 2 => warnedAt > 0 /\ MaxTurns - warnedAt >= 2]_vars
  BY <1>1
<1>3. QED
  BY Invariance, <1>2, PTL DEF CeilingAnnounced

\* Every tool call has its one result directly behind its message whenever a
\* request goes out or no run is in flight, for every batch size and every
\* interleaving (settleDanglingCalls, runToolBatch and the appends of runLoop).
THEOREM CallsAreAnswered == Spec => []CallsAnswered
<1>1. ASSUME IInv, phase \in {"stream", "idle"},
             NEW i \in 1..Len(history), AssistantAt(i), ~CutByCrash(i)
      PROVE  Settled(i)
  <2>1. todo = <<>> /\ history \in Seq(Messages)
    BY <1>1 DEF IInv, TodoInv, ConversationOK
  <2>2. Flow = history
    BY <2>1 DEF Flow
  <2>3. history[i].calls \in CallSets /\ Behind(history, i)
    BY <1>1, <2>2 DEF IInv, FlowInv, FlowOf, AssistantAt, Pending
  <2> DEFINE answers == Results(history[i].calls)
             n == Cardinality(history[i].calls)
  <2>4. answers \in Seq(Messages) /\ Len(answers) = n /\ n \in Nat
    BY <2>3, AnswersFit
  <2>5. i + n <= Len(history) /\ \A k \in 1..n : history[i + k] = answers[k]
    BY <2>3, <2>4 DEF Behind
  <2> HIDE DEF answers, n
  <2>6. SubSeq(history, i + 1, i + n) = answers
    <3> DEFINE part == SubSeq(history, i + 1, i + n)
    <3>1. part \in Seq(Messages) /\ Len(part) = n /\ \A k \in 1..n : part[k] = history[i + k]
      BY <2>1, <2>4, <2>5, SubSeqProperties
    <3> HIDE DEF part
    <3>2. part = answers
      BY <2>4, <2>5, <3>1, SeqEqual
    <3>3. QED
      BY <3>2 DEF part
  <2>7. QED
    BY <2>5, <2>6 DEF Settled, answers, n
<1>2. IInv => CallsAnswered
  BY <1>1 DEF CallsAnswered
<1>3. QED
  BY Invariance, <1>2, PTL

-----------------------------------------------------------------------------

\* A steered message is heard exactly once and in the order of the calls of
\* steer(), wherever it arrives, and only a run that throws may drop some
\* (Agent.steer, the queue taken by prompt and by runLoop).
THEOREM SteeringIsKept == Spec => []SteeringKept
<1>1. ASSUME IInv PROVE SteeringKept
  <2> DEFINE taken == history \o todo
             said == history \o todo \o steering
  <2>1. history \in Seq(Messages) /\ todo \in Seq(Messages) /\ steering \in Seq(Messages)
    BY <1>1 DEF IInv, ConversationOK
  <2>2. taken \in Seq(Messages) /\ said = taken \o steering
    BY <2>1
  <2>3. Steers(taken) = Steers(history) \cup Steers(todo) /\ Ordered(taken)
    BY <1>1, <2>1, SteersBoth DEF IInv, SteerInv
  <2>4. Below(Steers(taken), Steers(steering))
    BY <1>1, <2>3 DEF IInv, SteerInv, Below
  <2> HIDE DEF taken
  <2>5. Steers(said) = Steers(taken) \cup Steers(steering) /\ Ordered(said)
    BY <1>1, <2>1, <2>2, <2>3, <2>4, SteersBoth DEF IInv, SteerInv
  <2>6. Steers(said) = (1..steered) \ lost
    BY <1>1, <2>3, <2>5 DEF IInv, SteerInv
  <2>7. QED
    BY <2>5, <2>6 DEF SteeringKept, Ordered
<1>2. QED
  BY Invariance, <1>1, PTL

\* Every behaviour of the run is one of Conversation: nothing is said and no
\* request goes out while a result is owed, replies get their results in order,
\* and steered messages are heard in turn, over every interleaving of steers,
\* aborts, faults and tool calls (runLoop, #appendMessage, settleDanglingCalls).
THEOREM RunImplementsConversation == Spec => ImplementsConversation
<1>1. Init => Talk!Init
  <2> SUFFICES ASSUME Init PROVE Talk!Init
    OBVIOUS
  <2>1. history = <<>> /\ todo = <<>> /\ steering = <<>> /\ phase = "idle" /\ steered = 0
    BY DEF Init
  <2>2. Owed = {}
    BY <2>1 DEF Owed
  <2>3. Steers(<<>>) = {}
    BY NoneSteered
  <2>4. [i \in DOMAIN history |-> history[i].role] = <<>>
    <3>1. DOMAIN history = {}
      BY <2>1
    <3>2. QED
      BY <3>1
  <2>5. QED
    BY <2>1, <2>2, <2>3, <2>4 DEF Talk!Init
<1>2. IInv /\ [Next]_vars => [Talk!Next]_(Talk!talkVars)
  <2>1. IInv /\ [Next]_vars => ConversationOK'
    BY ConversationStep DEF IInv
  <2>2. QED
    BY <2>1, TalkStep
<1>3. QED
  BY Invariance, <1>1, <1>2, PTL DEF Spec, ImplementsConversation, Talk!Spec

-----------------------------------------------------------------------------
(* Nudges. *)

\* The last message of the flow is there, and it is no nudge.
Heeded(flow) == flow # <<>> /\ flow[Len(flow)] # Operator("nudge")

\* A batch has calls, so behind it stand results; and a run that has used up its
\* turns without a pause has heard something since its nudge.
NudgeInv ==
  /\ phase = "batch" => reply.calls # {}
  /\ phase \in {"answered", "heard"} \/ (phase = "loop" /\ pauses = 0 /\ turn >= MaxTurns) => Heeded(Flow)

\* Results and steered messages are no nudges.
LEMMA HeededBehind ==
  ASSUME ConversationOK, todo = <<>>, history' = history, NEW added \in Seq(Messages), todo' = added,
         added # <<>>, \A k \in DOMAIN added : added[k].role \in {"result", "steer"}
  PROVE  Heeded(Flow')
<1>1. history \in Seq(Messages)
  BY DEF ConversationOK
<1>2. Flow' = history \o added
  BY DEF Flow
<1>3. Len(added) \in 1..Len(added) /\ Len(added) \in Nat /\ Len(added) > 0
  OBVIOUS
<1>4. Len(Flow') = Len(history) + Len(added) /\ Flow' # <<>>
  BY <1>1, <1>2, <1>3
<1>5. Flow'[Len(Flow')] = added[Len(added)]
  BY <1>1, <1>2, <1>3, <1>4
<1>6. added[Len(added)].role # "operator"
  BY <1>3
<1>7. Operator("nudge").role = "operator"
  BY DEF Operator, Msg
<1>8. QED
  BY <1>4, <1>5, <1>6, <1>7 DEF Heeded

\* The results of a reply that asked for something.
LEMMA ResultsHeeded ==
  ASSUME CallsInv, reply.calls # {}
  PROVE  /\ Results(reply.calls) \in Seq(Messages) /\ Results(reply.calls) # <<>>
         /\ \A k \in DOMAIN Results(reply.calls) : Results(reply.calls)[k].role = "result"
<1>1. PICK r \in 1..MaxPrompts, t \in 0..MaxTurns, n \in 0..BatchSize :
        reply.calls = CallsOfTurn(r, t, n)
  BY DEF CallsInv
<1>2. n \in Nat /\ n # 0
  BY <1>1, BatchSizeAssumption DEF CallsOfTurn
<1>3. reply.calls \in CallSets
  BY <1>1 DEF CallSets
<1>4. DOMAIN Results(reply.calls) = 1..n
  BY <1>1, <1>2, ResultsInOrder
<1>5. Results(reply.calls) # <<>>
  BY <1>2, <1>4
<1>6. QED
  BY <1>3, <1>5, AnswersFit

\* Every step keeps what the nudges rest on.
LEMMA NudgeStep ==
  ASSUME IInv, NudgeInv, [Next]_vars
  PROVE  NudgeInv'
<1>0. /\ ConversationOK /\ TodoInv /\ CallsInv /\ turn \in Nat /\ pauses \in Nat
      /\ history \in Seq(Messages) /\ todo \in Seq(Messages) /\ steering \in Seq(Messages)
  BY DEF IInv, ControlInv, CountersOK, ConversationOK
<1>1. CASE CutOff \/ BatchSettles
  <2>1. reply.calls # {} /\ todo' = Results(reply.calls) /\ todo = <<>> /\ history' = history
        /\ phase' \in {"loop", "answered"}
    BY <1>1 DEF NudgeInv, CutOff, BatchSettles, HasCalls, Batch, At, SyntheticResults
  <2>2. PICK added \in Seq(Messages) : added = todo'
    BY <1>0, <2>1, ResultsHeeded
  <2>3. added # <<>> /\ \A k \in DOMAIN added : added[k].role = "result"
    BY <1>0, <2>1, <2>2, ResultsHeeded
  <2>4. Heeded(Flow')
    BY <1>0, <2>1, <2>2, <2>3, HeededBehind
  <2>5. QED
    BY <2>1, <2>4 DEF NudgeInv, Heeded
<1>2. CASE (TakeSteering \/ HearSteering) /\ steering # <<>>
  <2>1. todo' = steering /\ todo = <<>> /\ history' = history /\ phase' \in {"loop", "heard"}
    BY <1>2 DEF TakeSteering, HearSteering, Finished, At
  <2>2. \A k \in DOMAIN steering : steering[k].role = "steer"
    BY <1>0 DEF TodoInv
  <2>3. Heeded(Flow')
    BY <1>0, <1>2, <2>1, <2>2, HeededBehind
  <2>4. QED
    BY <2>1, <2>3 DEF NudgeInv, Heeded
<1>3. CASE HearSteering /\ steering = <<>>
  <2>1. todo' = todo /\ history' = history /\ phase = "answered" /\ phase' = "heard"
    BY <1>3 DEF HearSteering, At
  <2>2. Flow' = Flow /\ Heeded(Flow)
    BY <2>1 DEF Flow, NudgeInv
  <2>3. QED
    BY <2>1, <2>2 DEF NudgeInv, Heeded
<1>4. CASE AfterBatch
  <2>1. UNCHANGED <<history, todo>> /\ phase = "heard" /\ phase' = "loop"
    BY <1>4 DEF AfterBatch, At, conversation
  <2>2. Flow' = Flow /\ Heeded(Flow)
    BY <2>1 DEF Flow, NudgeInv
  <2>3. QED
    BY <2>1, <2>2 DEF NudgeInv, Heeded
<1>5. CASE AppendOne
  <2>1. UNCHANGED <<phase, pauses, turn, reply>> /\ todo # <<>>
        /\ history' = Append(history, Head(todo)) /\ todo' = Tail(todo)
    BY <1>5 DEF AppendOne, counters
  <2>2. Flow' = Flow
    BY <1>0, <2>1 DEF Flow
  <2>3. QED
    BY <2>1, <2>2 DEF NudgeInv, Heeded
<1>6. CASE Nudge \/ Pause \/ Seed
  <2>1. /\ phase' = "loop"
        /\ ~(pauses' = 0 /\ turn' >= MaxTurns)
    <3>1. CASE Nudge
      BY <1>0, <3>1, MaxTurnsAssumption DEF Nudge, MayNudge
    <3>2. CASE Pause
      BY <1>0, <3>2 DEF Pause
    <3>3. CASE Seed
      <4>1. turn = 0 /\ turn' = turn /\ phase' = "loop"
        BY <3>3 DEF Seed, At, counters, IInv, ControlInv, TurnInv, Outside
      <4>2. QED
        BY <4>1, MaxTurnsAssumption
    <3>4. QED
      BY <1>6, <3>1, <3>2, <3>3
  <2>2. QED
    BY <2>1 DEF NudgeInv
<1>7. CASE Dispatch
  BY <1>7 DEF Dispatch, HasCalls, NudgeInv
<1>8. CASE \/ Prompt \/ Open \/ OpenFails \/ AppendFails \/ StopAborted \/ StopAtCeiling \/ TopOfTurn
           \/ SendRequest \/ AbortedBeforeRequest \/ Receive \/ SettleFailed \/ SettleAborted
           \/ EndSettled \/ TooManyPauses \/ Finish \/ CallThrows \/ AbortedAfterBatch
  <2>1. phase' \in {"idle", "open", "seed", "compact", "stream", "reply", "failed", "settled"}
    BY <1>8 DEF Prompt, Open, OpenFails, AppendFails, StopAborted, StopAtCeiling, TopOfTurn,
       SendRequest, AbortedBeforeRequest, Receive, SettleFailed, SettleAborted, EndSettled,
       TooManyPauses, Finish, CallThrows, AbortedAfterBatch, End, Crash, Complete
  <2>2. QED
    BY <2>1 DEF NudgeInv
<1>9. CASE \/ Steer \/ Abort \/ StartNext \/ HookSettles \/ CheckSettles \/ ToolSettles
           \/ PostHookSettles \/ StrayEnds \/ UNCHANGED vars
  <2>1. UNCHANGED <<history, todo, phase, pauses, turn, reply>>
    BY <1>9 DEF Steer, Abort, StartNext, HookSettles, CheckSettles, ToolSettles, PostHookSettles,
       StrayEnds, vars, conversation, counters
  <2>2. Flow' = Flow
    BY <2>1 DEF Flow
  <2>3. QED
    BY <2>1, <2>2 DEF NudgeInv, Heeded
<1>10. QED
  BY <1>1, <1>2, <1>3, <1>4, <1>5, <1>6, <1>7, <1>8, <1>9, <1>0 DEF Next, Caller, Progress, TakeSteering, HasSteering

\* A run's outcome says what happened: nothing steered is passed over by a run
\* that reports completion, and the ceiling is not reported in place of a model
\* that stays silent (the ends of runLoop, loop.ts:735-970).
THEOREM OutcomesAreHonest == Spec => OutcomeIsHonest
<1> DEFINE J == IInv /\ NudgeInv
           Honest == /\ phase # "idle" /\ phase' = "idle" /\ ended' = "completed" /\ pauses < MaxPauses
                          => steering = <<>>
                     /\ StopAtCeiling /\ pauses = 0 /\ history # <<>>
                          => Last(history) # Operator("nudge")
<1>1. Init => NudgeInv
  BY DEF Init, NudgeInv
<1>2. IInv /\ NudgeInv /\ [Next]_vars => NudgeInv'
  BY NudgeStep
<1>3. Spec => []NudgeInv
  BY Invariance, <1>1, <1>2, PTL DEF Spec
<1>4. ASSUME J, [Next]_vars
      PROVE  [Honest]_vars
  <2>1. ASSUME phase # "idle", phase' = "idle", ended' = "completed", pauses < MaxPauses, Next
        PROVE  steering = <<>>
    <3>1. CASE Finish
      BY <3>1 DEF Finish, HasSteering
    <3>2. CASE TooManyPauses
      <4>1. pauses >= MaxPauses /\ pauses \in Nat /\ MaxPauses \in Nat
        BY <1>4, <3>2, MaxPausesAssumption DEF TooManyPauses, IInv, ControlInv, CountersOK
      <4>2. QED
        BY <2>1, <4>1
    <3>3. CASE Next /\ ~Finish /\ ~TooManyPauses
      BY <2>1, <3>3 DEF Next, Caller, Progress, Prompt, Steer, Abort, Open, OpenFails, AppendOne,
         AppendFails, Seed, StopAborted, StopAtCeiling, TopOfTurn, SendRequest, AbortedBeforeRequest,
         Receive, SettleFailed, SettleAborted, EndSettled, CutOff, Dispatch, Pause, TakeSteering,
         Nudge, StartNext, HookSettles, CheckSettles, ToolSettles, PostHookSettles, CallThrows,
         StrayEnds, BatchSettles, HearSteering, AfterBatch, AbortedAfterBatch, End, Crash
    <3>4. QED
      BY <2>1, <3>1, <3>2, <3>3
  <2>2. ASSUME StopAtCeiling, pauses = 0, history # <<>>
        PROVE  Last(history) # Operator("nudge")
    <3>1. todo = <<>> /\ phase = "loop" /\ turn >= MaxTurns /\ history \in Seq(Messages)
      BY <1>4, <2>2 DEF StopAtCeiling, At, AtCeiling, IInv, ConversationOK
    <3>2. Flow = history
      BY <3>1 DEF Flow
    <3>3. Heeded(history)
      BY <1>4, <2>2, <3>1, <3>2 DEF NudgeInv
    <3>4. QED
      BY <3>3 DEF Heeded, Last
  <2>3. QED
    BY <1>4, <2>1, <2>2
<1>5. J /\ [Next]_vars => [Honest]_vars
  BY <1>4
<1>6. QED
  BY Invariance, <1>3, <1>5, PTL DEF Spec, OutcomeIsHonest

=============================================================================
