------------------------------ MODULE AgentRun ------------------------------
(***************************************************************************)
(* One agent of packages/core: Agent.prompt, steer and abort (agent.ts)    *)
(* around runLoop and its tool batch (loop.ts).                            *)
(*                                                                         *)
(* A step is the code between two awaits.  Another caller (a user who      *)
(* steers or aborts, a sibling tool call) acts between steps, and so do    *)
(* the listeners of the events a step emits, except where a step still has *)
(* code behind the event: there the step says what a listener may do.  No  *)
(* listener of src/ steers.                                                *)
(*                                                                         *)
(* The messages a run still has to append, in order, wait in "todo"; every *)
(* append pushes to the live history and then awaits the session store.    *)
(* "phase" names what the run does once "todo" is empty.                   *)
(*                                                                         *)
(* Left out: the events emitted for rendering, the text of messages, the   *)
(* shaping of the outgoing request (context edits) and what compaction     *)
(* does to the history (AgentSession): here it is an await that may take   *)
(* long enough for an abort to land.                                       *)
(***************************************************************************)
EXTENDS Integers, Sequences, FiniteSets, SequencesExt

CONSTANTS
  MaxTurns,    \* LoopRuntime.maxTurns, the ceiling of one run
  MaxPauses,   \* MAX_CONSECUTIVE_PAUSES
  BatchSize,   \* bound: tool calls in one assistant message
  MaxReplies,  \* bound: assistant messages on record before the model just answers
  MaxPrompts,  \* bound: calls of prompt()
  MaxSteers,   \* bound: calls of steer()
  Notices,     \* distinct texts progressCheck may return
  Faults       \* what may throw: "open" and "store" (session store), "hook"

ASSUME MaxTurnsAssumption   == MaxTurns \in Nat \ {0}
ASSUME MaxPausesAssumption  == MaxPauses \in Nat
ASSUME BatchSizeAssumption  == BatchSize \in Nat \ {0}
ASSUME BoundsAssumption     == MaxPrompts \in Nat /\ MaxSteers \in Nat /\ MaxReplies \in Nat
ASSUME FaultsAssumption     == Faults \subseteq {"open", "store", "hook"}

VARIABLES
  phase,     \* where the current run is; "idle" when #running is false
  todo,      \* messages still to append before the phase goes on
  history,   \* #messages, the live conversation
  steering,  \* #steering, steered messages no run has taken yet
  run,       \* prompts started so far; names the current AbortController
  aborted,   \* runs whose signal is aborted
  late,      \* ghost: those a listener of the run's last event aborted
  turn,      \* turnIndex
  pauses,    \* pauses
  nudged,    \* justNudged
  warnedAt,  \* turnIndex of the ceiling warning, 0 before it
  noticed,   \* sentProgressWarnings
  reply,     \* the assistant message the current turn received
  call,      \* dispatched tool calls not yet collected, and how far they are
  parallel,  \* parallelTools
  ended,     \* reason of the last runEnd
  reminder,  \* #staleTodoReminder is set
  steered,   \* ghost: calls of steer() so far
  lost,      \* ghost: steered messages dropped with a run that threw
  crashes    \* ghost: history lengths at which a run ended by an exception

conversation == <<history, todo, steering, steered, lost, crashes>>
counters     == <<turn, pauses, nudged, warnedAt, noticed>>
signals      == <<aborted, late>>
vars == <<phase, todo, history, steering, run, aborted, late, turn, pauses, nudged, warnedAt,
          noticed, reply, call, parallel, ended, reminder, steered, lost, crashes>>

-----------------------------------------------------------------------------
(* Messages and calls. *)

Msg(role, tag, calls) == [role |-> role, tag |-> tag, calls |-> calls]

\* A tool call: the run and the turn that asked for it, and its position.
Calls == (1..MaxPrompts) \X (0..MaxTurns) \X (1..BatchSize)

UserMessage(n)    == Msg("user", n, {})
SteerMessage(n)   == Msg("steer", n, {})
Operator(tag)     == Msg("operator", tag, {})
Assistant(r)      == Msg("assistant", IF r.stop = "pauseTurn" THEN "paused" ELSE "turn", r.calls)
ResultFor(c)      == Msg("result", 0, {c})

\* Results in the order of the calls, which is the order runToolBatch keeps.
Results(calls) ==
  [k \in {c[3] : c \in calls} |-> ResultFor(CHOOSE c \in calls : c[3] = k)]

Stops == {"endTurn", "maxTokens", "pauseTurn", "refusal", "aborted", "error"}

\* What streamTurn can return.  "none" is a message without content, which is
\* not recorded; "thinking" is content nobody sees.  A refusal has lost its
\* tool calls by the time the loop looks at it.
AnyReply ==
  [stop : Stops, body : {"none", "thinking", "text"}, calls : {{}}]
    \cup {[stop |-> s, body |-> "text", calls |-> {<<run, turn, k>> : k \in 1..n}] :
            s \in Stops \ {"refusal"}, n \in 1..BatchSize}

FinalAnswer == [stop |-> "endTurn", body |-> "text", calls |-> {}]

AllReplies == {i \in DOMAIN history : history[i].role = "assistant"}
OwnReplies == {i \in AllReplies : \A j \in DOMAIN history : history[j].role = "user" => j < i}

\* Two bounds.  Behind MaxReplies recorded replies the model just answers; one
\* run never has more than MaxTurns of them, for its ceiling ends it first.
Replies ==
  IF Cardinality(OwnReplies) >= MaxTurns THEN {}
  ELSE IF Cardinality(AllReplies) < MaxReplies THEN AnyReply
  ELSE {FinalAnswer}

Visible(r)   == r.body = "text"
Recorded(r)  == IF r.body = "none" THEN <<>> ELSE <<Assistant(r)>>
NoReply      == [stop |-> "none", body |-> "none", calls |-> {}]

\* Mutant: the share of the budget without its floor of two turns.
WarnAtWithoutFloor ==
  LET threshold == (15 * MaxTurns) \div 100
  IN  IF threshold < MaxTurns THEN threshold ELSE 0

\* turnWarningThreshold: max(2, floor(0.15 * maxTurns)), or never.
WarnAt ==
  LET threshold == IF (15 * MaxTurns) \div 100 > 2 THEN (15 * MaxTurns) \div 100 ELSE 2
  IN  IF threshold < MaxTurns THEN threshold ELSE 0

Aborted  == run \in aborted
Active   == {"hook", "check", "execute", "finish"}
Steers(messages) == {m.tag : m \in {x \in ToSet(messages) : x.role = "steer"}}

-----------------------------------------------------------------------------
(* How a run ends. *)

\* The locals of runLoop go with it.
ResetLocals == turn' = 0 /\ pauses' = 0 /\ nudged' = FALSE /\ warnedAt' = 0 /\ noticed' = {}

End(reason) ==
  /\ phase' = "idle"
  /\ ended' = reason
  /\ reply' = NoReply
  /\ ResetLocals

\* The last event of a run is emitted behind the last look at its signal, and a
\* listener may abort there (the cost guard, a team's ceiling).
ListenersMayAbort ==
  \/ UNCHANGED signals
  \/ aborted' = aborted \cup {run} /\ late' = late \cup ({run} \ aborted)

\* A rejected promise inside prompt(): caught, reported as an error; what the
\* run still had to append is gone with it.
Crash(dropped) ==
  /\ End("error")
  /\ todo' = <<>>
  /\ lost' = lost \cup Steers(dropped)
  /\ UNCHANGED <<steering, steered, run, signals, parallel, reminder>>

-----------------------------------------------------------------------------
(* The callers: prompt, steer, abort. *)

\* Mutant: a new run starts with an empty queue.
QueueCleared == <<>>

\* The messages steered while idle, kept for this run.
QueuedWhileIdle == steering

\* prompt() up to the await of ensureSession: claims the run, drains the
\* messages steered while idle and takes a fresh AbortController.
Prompt ==
  /\ phase = "idle"
  /\ run < MaxPrompts
  /\ run' = run + 1
  /\ phase' = "open"
  /\ todo' = <<UserMessage(run + 1)>> \o QueuedWhileIdle
  /\ steering' = <<>>
  /\ UNCHANGED <<history, signals, counters, reply, call, parallel, ended, reminder, steered, lost,
                 crashes>>

Steer ==
  /\ steered < MaxSteers
  /\ steered' = steered + 1
  /\ steering' = Append(steering, SteerMessage(steered + 1))
  /\ UNCHANGED <<phase, todo, history, run, signals, counters, reply, call, parallel,
                 ended, reminder, lost, crashes>>

\* abort() reaches only the controller of the run in flight.
Abort ==
  /\ phase # "idle"
  /\ ~Aborted
  /\ aborted' = aborted \cup {run}
  /\ UNCHANGED <<late, phase, run, conversation, counters, reply, call, parallel, ended, reminder>>

-----------------------------------------------------------------------------
(* Opening the session and appending messages. *)

Open ==
  /\ phase = "open"
  /\ phase' = "seed"
  /\ UNCHANGED <<conversation, run, signals, counters, reply, call, parallel, ended, reminder>>

OpenFails ==
  /\ phase = "open"
  /\ "open" \in Faults
  /\ Crash(todo)
  /\ UNCHANGED <<history, call, crashes>>

\* #appendMessage: the message is live before the store has it.
AppendOne ==
  /\ phase \notin {"idle", "open"}
  /\ todo # <<>>
  /\ history' = Append(history, Head(todo))
  /\ todo' = Tail(todo)
  /\ UNCHANGED <<phase, steering, run, signals, counters, reply, call, parallel, ended,
                 reminder, steered, lost, crashes>>

AppendFails ==
  /\ phase \notin {"idle", "open"}
  /\ todo # <<>>
  /\ "store" \in Faults
  /\ history' = Append(history, Head(todo))
  /\ crashes' = crashes \cup {Len(history')}
  /\ Crash(Tail(todo))
  /\ UNCHANGED call

At(p) == phase = p /\ todo = <<>>

\* The stale-todo reminder rides after the prompt and the queued steering.
Seed ==
  /\ At("seed")
  /\ phase' = "loop"
  /\ todo' = IF reminder THEN <<Operator("todo")>> ELSE <<>>
  /\ reminder' = FALSE
  /\ UNCHANGED <<history, steering, steered, lost, crashes, run, signals, counters, reply,
                 call, parallel, ended>>

-----------------------------------------------------------------------------
(* The top of the loop. *)

\* Mutant: one turn too many.
PastCeiling == turn > MaxTurns

AtCeiling == turn >= MaxTurns

StopAborted ==
  /\ At("loop")
  /\ Aborted
  /\ End("aborted")
  /\ UNCHANGED <<conversation, run, signals, call, parallel, reminder>>

StopAtCeiling ==
  /\ At("loop")
  /\ ~Aborted
  /\ AtCeiling
  /\ End("ceiling")
  /\ ListenersMayAbort
  /\ UNCHANGED <<conversation, run, call, parallel, reminder>>

CeilingNear == warnedAt = 0 /\ MaxTurns - turn <= WarnAt

\* The turn-budget warning, once, and progressCheck's notice, each wording once.
TopOfTurn ==
  /\ At("loop")
  /\ ~Aborted
  /\ ~AtCeiling
  /\ phase' = "compact"
  /\ warnedAt' = IF CeilingNear THEN turn ELSE warnedAt
  /\ \E fresh \in {{}} \cup {{n} : n \in Notices \ noticed} :
       /\ turn = 0 => fresh = {}
       /\ noticed' = noticed \cup fresh
       /\ todo' = (IF CeilingNear THEN <<Operator("ceiling")>> ELSE <<>>)
                    \o (IF fresh = {} THEN <<>> ELSE <<Operator("progress")>>)
  /\ UNCHANGED <<history, steering, steered, lost, crashes, run, signals, turn, pauses,
                 nudged, reply, call, parallel, ended, reminder>>

\* beforeTurn() has been awaited: send the request unless the run was aborted
\* meanwhile.
SendRequest ==
  /\ At("compact")
  /\ ~Aborted
  /\ phase' = "stream"
  /\ UNCHANGED <<conversation, run, signals, counters, reply, call, parallel, ended, reminder>>

AbortedBeforeRequest ==
  /\ At("compact")
  /\ Aborted
  /\ End("aborted")
  /\ UNCHANGED <<conversation, run, signals, call, parallel, reminder>>

\* streamTurn settles; the message is appended if it has content.
Receive ==
  /\ At("stream")
  /\ \E r \in Replies :
       /\ reply' = r
       /\ todo' = Recorded(r)
  /\ phase' = "reply"
  /\ UNCHANGED <<history, steering, steered, lost, crashes, run, signals, counters, call,
                 parallel, ended, reminder>>

-----------------------------------------------------------------------------
(* What the loop does with the reply, in the order of its early returns. *)

\* Mutant: only the stream's own word for an abort counts.
ReplySaysAborted == reply.stop = "aborted"

ReplyFailed  == reply.stop = "error"
ReplyAborted == ~ReplyFailed /\ (Aborted \/ reply.stop = "aborted")
ReplyLives   == ~ReplyFailed /\ ~ReplyAborted
HasCalls     == reply.calls # {}

\* Mutant: calls of a turn that ended early are left as they are.
LeaveDangling == <<>>

\* settleDanglingCalls: an error result for every call of the reply.
SyntheticResults == Results(reply.calls)

\* Failed and aborted turns settle their calls, then the run ends.
SettleFailed ==
  /\ At("reply") /\ ReplyFailed
  /\ todo' = SyntheticResults
  /\ phase' = "failed"
  /\ reply' = NoReply
  /\ UNCHANGED <<history, steering, steered, lost, crashes, run, signals, counters, call, parallel,
                 ended, reminder>>

SettleAborted ==
  /\ At("reply") /\ ReplyAborted
  /\ todo' = SyntheticResults
  /\ phase' = "settled"
  /\ reply' = NoReply
  /\ UNCHANGED <<history, steering, steered, lost, crashes, run, signals, counters, call, parallel,
                 ended, reminder>>

EndSettled ==
  /\ At("failed") \/ At("settled")
  /\ End(IF phase = "failed" THEN "error" ELSE "aborted")
  /\ UNCHANGED <<conversation, run, signals, call, parallel, reminder>>

\* Calls cut off by the output limit are answered with errors, not run.
CutOff ==
  /\ At("reply") /\ ReplyLives /\ HasCalls
  /\ reply.stop = "maxTokens"
  /\ todo' = SyntheticResults
  /\ turn' = turn + 1
  /\ phase' = "loop"
  /\ reply' = NoReply
  /\ UNCHANGED <<history, steering, steered, lost, crashes, run, signals, pauses, nudged,
                 warnedAt, noticed, call, parallel, ended, reminder>>

\* The batch starts: every call at once, or the first one of a queue.
Dispatch ==
  /\ At("reply") /\ ReplyLives /\ HasCalls
  /\ reply.stop # "maxTokens"
  /\ phase' = "batch"
  /\ call' = [c \in DOMAIN call \cup reply.calls |->
                IF c \notin reply.calls THEN call[c]
                ELSE IF parallel THEN "hook" ELSE "queued"]
  /\ UNCHANGED <<conversation, run, signals, counters, reply, parallel, ended, reminder>>

\* A paused turn is sent back as it is; a provider that never finishes is cut.
Pause ==
  /\ At("reply") /\ ReplyLives /\ ~HasCalls
  /\ reply.stop = "pauseTurn"
  /\ pauses < MaxPauses
  /\ pauses' = pauses + 1
  /\ turn' = turn + 1
  /\ phase' = "loop"
  /\ reply' = NoReply
  /\ UNCHANGED <<conversation, run, signals, nudged, warnedAt, noticed, call,
                 parallel, ended, reminder>>

\* Behind turnEnd the run completes whatever its signal says by then; prompt()
\* looks for todos left in progress (#flagStaleTodos).
Complete ==
  /\ End("completed")
  /\ ListenersMayAbort
  /\ reminder' \in {reminder, TRUE}
  /\ UNCHANGED <<conversation, run, call, parallel>>

TooManyPauses ==
  /\ At("reply") /\ ReplyLives /\ ~HasCalls
  /\ reply.stop = "pauseTurn"
  /\ pauses >= MaxPauses
  /\ Complete

Finished == At("reply") /\ ReplyLives /\ ~HasCalls /\ reply.stop # "pauseTurn"

HasSteering == steering # <<>>

\* Steering that arrived while the model was answering keeps the run alive.
TakeSteering ==
  /\ Finished
  /\ HasSteering
  /\ todo' = steering
  /\ steering' = <<>>
  /\ pauses' = 0
  /\ nudged' = FALSE
  /\ turn' = turn + 1
  /\ phase' = "loop"
  /\ reply' = NoReply
  /\ UNCHANGED <<history, steered, lost, crashes, run, signals, warnedAt, noticed,
                 call, parallel, ended, reminder>>

Silent == reply.stop # "refusal" /\ ~Visible(reply)

\* Mutant: the last turn of the budget is spent on a nudge too.
MayNudgeAlways == ~nudged /\ Silent

MayNudge == ~nudged /\ turn + 1 < MaxTurns /\ Silent

Nudge ==
  /\ Finished
  /\ ~HasSteering
  /\ MayNudge
  /\ nudged' = TRUE
  /\ todo' = <<Operator("nudge")>>
  /\ pauses' = 0
  /\ turn' = turn + 1
  /\ phase' = "loop"
  /\ reply' = NoReply
  /\ UNCHANGED <<history, steering, steered, lost, crashes, run, signals, warnedAt,
                 noticed, call, parallel, ended, reminder>>

Finish ==
  /\ Finished
  /\ ~HasSteering
  /\ ~MayNudge
  /\ Complete

-----------------------------------------------------------------------------
(* The tool batch: executeToolCall, one await at a time. *)

Batch == IF phase = "batch" THEN reply.calls ELSE {}

NextInQueue(c) == call[c] = "queued" /\ \A d \in Batch : d[3] < c[3] => call[d] = "done"

\* Only the sequential batch has a queue; after an abort the calls behind the
\* first are answered without being run.
StartNext ==
  /\ \E c \in Batch :
       /\ NextInQueue(c)
       /\ call' = [call EXCEPT ![c] = IF Aborted /\ c[3] > 1 THEN "done" ELSE "hook"]
  /\ UNCHANGED <<phase, conversation, run, signals, counters, reply, parallel, ended, reminder>>

\* The pre-hook settled (or the arguments were malformed, which skips every
\* hook).  Blocked, unknown, invalid and already aborted calls go to the
\* post-hook with an error; the others to the permission check.
HookSettles ==
  /\ \E c \in DOMAIN call :
       /\ call[c] = "hook"
       /\ \/ call' = [call EXCEPT ![c] = "done"]
          \/ call' = [call EXCEPT ![c] = "finish"]
          \/ c[1] \notin aborted /\ call' = [call EXCEPT ![c] = "check"]
  /\ UNCHANGED <<phase, conversation, run, signals, counters, reply, parallel, ended, reminder>>

\* The permission decision arrives.  An allow starts the tool even when the
\* run was aborted while the question was open.
CheckSettles ==
  /\ \E c \in DOMAIN call :
       /\ call[c] = "check"
       /\ \/ call' = [call EXCEPT ![c] = "execute"]
          \/ call' = [call EXCEPT ![c] = "finish"]
  /\ UNCHANGED <<phase, conversation, run, signals, counters, reply, parallel, ended, reminder>>

\* A tool that throws is caught, so both ways lead to the post-hook.
ToolSettles ==
  /\ \E c \in DOMAIN call :
       /\ call[c] = "execute"
       /\ call' = [call EXCEPT ![c] = "finish"]
  /\ UNCHANGED <<phase, conversation, run, signals, counters, reply, parallel, ended, reminder>>

PostHookSettles ==
  /\ \E c \in DOMAIN call :
       /\ call[c] = "finish"
       /\ call' = [call EXCEPT ![c] = "done"]
  /\ UNCHANGED <<phase, conversation, run, signals, counters, reply, parallel, ended, reminder>>

Throwing == {c \in DOMAIN call : call[c] \in {"hook", "check", "finish"}}

\* A hook, the requester or the rule store throws: nothing in the loop catches
\* it.  The run ends; calls of a parallel batch that already started go on
\* alone, without a run, and nothing will collect them.
CallThrows ==
  /\ "hook" \in Faults
  /\ \E c \in Throwing \cap Batch :
       call' = [d \in {x \in DOMAIN call \ {c} : call[x] \in Active} |-> call[d]]
  /\ crashes' = crashes \cup {Len(history)}
  /\ Crash(<<>>)
  /\ UNCHANGED history

\* A stray call's own end, which Promise.all ignores.
StrayEnds ==
  /\ \E c \in DOMAIN call \ Batch :
       /\ call[c] = "done" \/ (c \in Throwing /\ "hook" \in Faults)
       /\ call' = [d \in DOMAIN call \ {c} |-> call[d]]
  /\ UNCHANGED <<phase, conversation, run, signals, counters, reply, parallel, ended, reminder>>

\* Every call has its result; only now are the results appended.
BatchSettles ==
  /\ At("batch")
  /\ \A c \in Batch : call[c] = "done"
  /\ todo' = Results(Batch)
  /\ call' = [c \in DOMAIN call \ Batch |-> call[c]]
  /\ phase' = "answered"
  /\ reply' = NoReply
  /\ UNCHANGED <<history, steering, steered, lost, crashes, run, signals, counters, parallel, ended,
                 reminder>>

\* takeSteering after the batch.
HearSteering ==
  /\ At("answered")
  /\ pauses' = 0
  /\ todo' = steering
  /\ steering' = <<>>
  /\ phase' = "heard"
  /\ UNCHANGED <<history, steered, lost, crashes, run, signals, turn, nudged, warnedAt,
                 noticed, reply, call, parallel, ended, reminder>>

AfterBatch ==
  /\ At("heard")
  /\ ~Aborted
  /\ nudged' = FALSE
  /\ turn' = turn + 1
  /\ phase' = "loop"
  /\ UNCHANGED <<conversation, run, signals, pauses, warnedAt, noticed, reply, call,
                 parallel, ended, reminder>>

AbortedAfterBatch ==
  /\ At("heard")
  /\ Aborted
  /\ End("aborted")
  /\ UNCHANGED <<conversation, run, signals, call, parallel, reminder>>

-----------------------------------------------------------------------------
Init ==
  /\ phase = "idle" /\ todo = <<>> /\ history = <<>> /\ steering = <<>>
  /\ run = 0 /\ aborted = {} /\ late = {} /\ turn = 0 /\ pauses = 0 /\ nudged = FALSE
  /\ warnedAt = 0 /\ noticed = {} /\ reply = NoReply /\ call = [c \in {} |-> "done"]
  /\ parallel \in BOOLEAN
  /\ ended = "none" /\ reminder = FALSE
  /\ steered = 0 /\ lost = {} /\ crashes = {}

Caller == Prompt \/ Steer \/ Abort

Progress ==
  \/ Open \/ OpenFails \/ AppendOne \/ AppendFails \/ Seed
  \/ StopAborted \/ StopAtCeiling \/ TopOfTurn \/ SendRequest \/ AbortedBeforeRequest
  \/ Receive \/ SettleFailed \/ SettleAborted \/ EndSettled \/ CutOff \/ Dispatch
  \/ Pause \/ TooManyPauses \/ TakeSteering \/ Nudge \/ Finish
  \/ StartNext \/ HookSettles \/ CheckSettles \/ ToolSettles \/ PostHookSettles
  \/ CallThrows \/ StrayEnds \/ BatchSettles \/ HearSteering \/ AfterBatch
  \/ AbortedAfterBatch

Next == Caller \/ Progress

Spec == Init /\ [][Next]_vars

\* The event loop runs on, the model and the store answer, hooks and tools
\* settle, and a permission question is answered (by the user or a timeout).
FairSpec == Spec /\ WF_vars(Progress)

-----------------------------------------------------------------------------
(* Properties. *)

Phases == {"idle", "open", "seed", "loop", "compact", "stream", "reply", "failed",
           "settled", "batch", "answered", "heard"}

Messages ==
  [role : {"user"}, tag : 1..MaxPrompts, calls : {{}}]
    \cup [role : {"steer"}, tag : 1..MaxSteers, calls : {{}}]
    \cup [role : {"operator"}, tag : {"todo", "ceiling", "progress", "nudge"}, calls : {{}}]
    \cup [role : {"assistant"}, tag : {"turn", "paused"}, calls : SUBSET Calls]
    \cup [role : {"result"}, tag : {0}, calls : {{c} : c \in Calls}]

ConversationOK ==
  /\ todo \in Seq(Messages) /\ history \in Seq(Messages) /\ steering \in Seq(Messages)
  /\ steered \in 0..MaxSteers /\ lost \subseteq 1..MaxSteers /\ crashes \subseteq Nat

CountersOK ==
  /\ run \in 0..MaxPrompts /\ aborted \subseteq 1..MaxPrompts /\ late \subseteq aborted
  /\ turn \in 0..MaxTurns /\ pauses \in 0..MaxPauses
  /\ warnedAt \in 0..MaxTurns /\ noticed \subseteq Notices

FlagsOK == nudged \in BOOLEAN /\ reminder \in BOOLEAN /\ parallel \in BOOLEAN

CallsOK ==
  /\ reply \in [stop : Stops \cup {"none"}, body : {"none", "thinking", "text"},
               calls : SUBSET Calls]
  /\ DOMAIN call \subseteq Calls
  /\ \A c \in DOMAIN call : call[c] \in Active \cup {"queued", "done"}

\* The type of every variable; in particular no run takes more turns than its
\* ceiling, nor more pauses in a row than their limit.
TypeOK ==
  /\ phase \in Phases
  /\ ended \in {"none", "completed", "aborted", "error", "ceiling"}
  /\ ConversationOK /\ CountersOK /\ FlagsOK /\ CallsOK

\* The calls of the assistant message at position i are answered, each once,
\* by the messages right behind it.
Settled(i) ==
  LET n == Cardinality(history[i].calls)
  IN  i + n <= Len(history) /\ SubSeq(history, i + 1, i + n) = Results(history[i].calls)

\* i is the last assistant message a run recorded before an exception ended it.
CutByCrash(i) ==
  \E n \in crashes : i <= n /\ \A j \in (i + 1)..n : history[j].role # "assistant"

AssistantAt(i) == history[i].role = "assistant"

\* Whenever a request goes out, and whenever no run is in flight, every tool
\* call on record has its one result directly behind its message: aborts,
\* failed streams, cut-off calls, steering and warnings never come between.
\* The exception is a run that an exception ended in mid-batch (loop.ts,
\* settleDanglingCalls and the order of appends in runLoop).
CallsAnswered ==
  phase \in {"stream", "idle"} =>
    \A i \in 1..Len(history) : AssistantAt(i) => Settled(i) \/ CutByCrash(i)

\* The same without the exception, which loop.ts:814-816 argues for: "a
\* tool_use with no tool_result would make every later request invalid".
EveryRequestValid ==
  phase = "stream" => \A i \in 1..Len(history) : AssistantAt(i) => Settled(i)

\* A steered message is heard exactly once and in the order of the calls of
\* steer(), whether it arrives while idle, between turns, during a batch or
\* while another is being appended; only a run that throws may drop some.
SteeringKept ==
  LET said == history \o todo \o steering
  IN  /\ \A i, j \in DOMAIN said :
           i < j /\ said[i].role = "steer" /\ said[j].role = "steer" => said[i].tag < said[j].tag
      /\ Steers(said) = (1..steered) \ lost

\* A run aborted at any of its awaits, or by a listener of any event but its
\* last, never reports that it completed (the checks of signal.aborted in
\* runLoop).  The abort of a listener of the last turnEnd comes behind the last
\* check: loop.ts:846 against 898, 937 and 967-968.
AbortedNeverCompletes == phase = "idle" /\ ended = "completed" => run \notin aborted \ late

\* The same without the exception, which the cost guard, a listener of turnEnd,
\* tells the user (cost-guard.ts:116): "run aborted".
AbortStands == phase = "idle" /\ ended = "completed" => run \notin aborted

\* A run that dies at the ceiling was told so, with at least two turns left to
\* act on it and at least one behind it, unless the leash is too tight to warn.
CeilingAnnounced ==
  [][StopAtCeiling /\ MaxTurns > 2 => warnedAt > 0 /\ MaxTurns - warnedAt >= 2]_vars

\* A run's outcome says what happened.  "completed" is not reported over the
\* head of a waiting steering message, unless the provider paused the run to
\* death.  The ceiling is not reported behind an unanswered nudge: a nudge was
\* given a turn, so a model that stays silent is reported as silent and the
\* operator is not told to raise maxTurns.  (A pause may use that turn.)
OutcomeIsHonest ==
  [][/\ phase # "idle" /\ phase' = "idle" /\ ended' = "completed" /\ pauses < MaxPauses
          => steering = <<>>
     /\ StopAtCeiling /\ pauses = 0 /\ history # <<>>
          => Last(history) # Operator("nudge")]_vars

\* Every run ends: at an answer, an abort, an error or the turn ceiling.
RunEnds == phase # "idle" ~> phase = "idle"

LastReply(i) == AssistantAt(i) /\ \A j \in (i + 1)..Len(history) : ~AssistantAt(j)

\* The k-th result of the last reply is owed until it stands k messages behind
\* it; a run that threw owes nothing.
Owed ==
  {k \in 1..BatchSize : \E i \in DOMAIN history :
     /\ LastReply(i) /\ ~CutByCrash(i)
     /\ k \in DOMAIN Results(history[i].calls)
     /\ i + k \in DOMAIN history => history[i + k] # Results(history[i].calls)[k]}

Talk == INSTANCE Conversation WITH
  transcript <- [i \in DOMAIN history |-> history[i].role],
  asked <- phase = "stream" \/ (phase = "reply" /\ todo # <<>>),
  owed  <- Owed,
  given <- steered,
  queue <- Steers(todo) \cup Steers(steering),
  heard <- Steers(history)

\* The run implements the conversation: every step, over every interleaving of
\* steers, aborts, faults and tool calls, is a step of Conversation or none.
\* Nothing is said or asked while a result is owed, and no request goes out
\* before the last one is answered.
ImplementsConversation == Talk!Spec
=============================================================================
