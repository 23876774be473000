---------------------------- MODULE SessionHost ----------------------------
(***************************************************************************)
(* The sessions one server process holds live and the requests of its      *)
(* clients on them: createSession, openSession, deleteSession, prompt,     *)
(* steer, abort, rewindTo, runWorkflow and permission decisions of         *)
(* packages/server/src/session-host.ts.                                    *)
(*                                                                         *)
(* Requests of all connections run concurrently; a step is the code        *)
(* between two awaits.  A live session is an object that a request keeps   *)
(* hold of across its awaits, also when the session has meanwhile been     *)
(* deleted from the host's map.  An agent is reduced to its run (AgentRun) *)
(* and to whether it has made sure of its file (#ensureSession, which      *)
(* creates what it does not find).  The store is the set of its sessions   *)
(* (SessionStore).                                                         *)
(*                                                                         *)
(* Left out: what requests merely read, attachment and mention checks, the *)
(* text of notices, dispose (the end of the process).                      *)
(***************************************************************************)
EXTENDS Integers, Sequences, FiniteSets, SequencesExt

CONSTANTS
  Ids,          \* session ids
  Old,          \* those in the store before this process started
  MaxSessions,  \* SessionHostOptions.maxSessions
  MaxCalls,     \* bound: requests with an await of their own
  MaxSteers     \* bound: steer requests

ASSUME OldAssumption         == Old \subseteq Ids
ASSUME MaxSessionsAssumption == MaxSessions \in Nat \ {0}
ASSUME BoundsAssumption      == MaxCalls \in Nat /\ MaxSteers \in Nat

VARIABLES
  stored,    \* sessions that have a file
  sessions,  \* #sessions: the live object of an id, 0 for none
  objs,      \* every LiveSession ever registered
  agents,    \* every agent ever built
  flow,      \* #workflowRuns: none, running or aborted
  calls,     \* requests in the order they came
  steers,    \* steer requests so far
  taken,     \* steers resolving their content: the session object, the agent taken
  deleted,   \* ghost: sessions a deleteSession has resolved for
  crossed    \* ghost: sessions prompted or opened while being deleted

vars == <<stored, sessions, objs, agents, flow, calls, steers, taken, deleted, crossed>>

-----------------------------------------------------------------------------
(* Requests, sessions and agents. *)

\* An agent of live session o, whose map its permission asks wait in.
Agent(o)  == [obj |-> o, state |-> "idle", aborted |-> FALSE, ensured |-> FALSE, heard |-> <<>>]
IdOf(a)   == objs[agents[a].obj].id
Active(a) == agents[a].state # "idle"

Is(c, verb, at)   == calls[c].verb = verb /\ calls[c].at = at
Moves(c, at)      == [calls EXCEPT ![c].at = at]
Request(verb, id, at) ==
  /\ Len(calls) < MaxCalls
  /\ calls' = Append(calls, [verb |-> verb, id |-> id, obj |-> sessions[id], at |-> at,
                             agent |-> 0])

Live(id)       == sessions[id] # 0
AgentOf(o)     == objs[o].agent
InFlight(verb) == {calls[c].id : c \in {k \in DOMAIN calls :
                     calls[k].verb = verb /\ calls[k].at \notin {"done", "failed", "collided"}}}

\* A client knows the ids in the store, which it can list.
Known(id) == \/ id \in Old
             \/ \E c \in DOMAIN calls :
                  calls[c].id = id /\ calls[c].verb = "create" /\ calls[c].at # "create"

\* The ghost: a request on id while one of these is in flight on it.
Crosses(id, verbs) ==
  crossed' = IF \E verb \in verbs : id \in InFlight(verb) THEN crossed \cup {id} ELSE crossed

\* Mutant: only a run counts, not a prompt that is still resolving its context.
IsBusyRunning(o) == Active(AgentOf(o))

IsBusy(o) == Active(AgentOf(o)) \/ objs[o].starting

\* #checkSessionCapacity
HasRoom == Cardinality({id \in Ids : Live(id)}) < MaxSessions

\* Agent.abort: only a run in flight has a controller.
AbortAgent(a) == [agents EXCEPT ![a].aborted = @ \/ Active(a)]

\* Pending asks of a session's map are denied, then its agent is aborted.
DenyAndAbort(o) ==
  [a \in DOMAIN agents |->
     IF agents[a].obj # o THEN agents[a]
     ELSE [agents[a] EXCEPT !.state   = IF @ = "asking" THEN "running" ELSE @,
                            !.aborted = @ \/ (a = AgentOf(o) /\ Active(a))]]

-----------------------------------------------------------------------------
(* createSession and openSession. *)

Register(id) ==
  /\ agents' = Append(agents, Agent(Len(objs) + 1))
  /\ objs' = Append(objs, [id |-> id, agent |-> Len(agents) + 1,
                            starting |-> FALSE, chain |-> <<>>])
  /\ sessions' = [sessions EXCEPT ![id] = Len(objs) + 1]

\* A random id: one nobody has used.
CreateSession(id) ==
  /\ HasRoom
  /\ ~Known(id) /\ id \notin InFlight("create")
  /\ Request("create", id, "create")
  /\ UNCHANGED <<stored, sessions, objs, agents, flow, steers, taken, deleted, crossed>>

\* The factory has built the agent; store.create writes the file.
FileCreated(c) ==
  /\ Is(c, "create", "create")
  /\ stored' = stored \cup {calls[c].id}
  /\ calls' = Moves(c, "build")
  /\ UNCHANGED <<sessions, objs, agents, flow, steers, taken, deleted, crossed>>

\* A live session is returned as it is and an open in flight (#opening) is
\* joined; this is the first request for any other.
OpenSession(id) ==
  /\ Known(id) /\ ~Live(id) /\ id \notin InFlight("open")
  /\ HasRoom
  /\ Request("open", id, "header")
  /\ Crosses(id, {"create", "delete"})
  /\ UNCHANGED <<stored, sessions, objs, agents, flow, steers, taken, deleted>>

\* store.open, then the factory reads the entries.
OpenReads(c) ==
  /\ Is(c, "open", "header") \/ Is(c, "open", "entries")
  /\ calls' = Moves(c, IF calls[c].id \notin stored THEN "failed"
                       ELSE IF calls[c].at = "header" THEN "entries" ELSE "build")
  /\ UNCHANGED <<stored, sessions, objs, agents, flow, steers, taken, deleted, crossed>>

Registered(c) ==
  /\ Is(c, "create", "build") \/ Is(c, "open", "build")
  /\ Register(calls[c].id)
  /\ calls' = Moves(c, "done")
  /\ UNCHANGED <<stored, flow, steers, taken, deleted, crossed>>

-----------------------------------------------------------------------------
(* deleteSession. *)

DeleteSession(id) ==
  /\ Live(id) => ~IsBusy(sessions[id])
  /\ flow[id] = "none"
  /\ Known(id)
  /\ Request("delete", id, "rm")
  /\ Crosses(id, {"create", "open"})
  /\ UNCHANGED <<stored, sessions, objs, agents, flow, steers, taken, deleted>>

\* Mutant: the pipelines of a deleted session go on.
FlowKept(id) == flow

\* Controllers are aborted and forgotten.
FlowStopped(id) == [flow EXCEPT ![id] = "none"]

\* store.delete settled; #evict tears down the session the request saw.
Deleted(c) ==
  LET id == calls[c].id
      o  == calls[c].obj
  IN  /\ Is(c, "delete", "rm")
      /\ stored' = stored \ {id}
      /\ IF id \notin stored /\ o = 0
         THEN calls' = Moves(c, "failed") /\ UNCHANGED deleted
         ELSE calls' = Moves(c, "done") /\ deleted' = deleted \cup {id}
      /\ IF o = 0 THEN UNCHANGED <<agents, sessions, flow>>
         ELSE /\ agents' = DenyAndAbort(o)
              /\ flow' = FlowStopped(id)
              /\ sessions' = [sessions EXCEPT ![id] = 0]
      /\ UNCHANGED <<objs, steers, taken, crossed>>

-----------------------------------------------------------------------------
(* prompt: claims the session, resolves its context, runs the agent. *)

Prompt(id) ==
  /\ Live(id) /\ ~IsBusy(sessions[id])
  /\ Request("prompt", id, "content")
  /\ objs' = [objs EXCEPT ![sessions[id]].starting = TRUE]
  /\ Crosses(id, {"delete"})
  /\ UNCHANGED <<stored, sessions, agents, flow, steers, taken, deleted>>

Release(o) == [objs EXCEPT ![o].starting = FALSE]

ContentRefused(c) ==
  /\ Is(c, "prompt", "content")
  /\ calls' = Moves(c, "failed")
  /\ objs' = Release(calls[c].obj)
  /\ UNCHANGED <<stored, sessions, agents, flow, steers, taken, deleted, crossed>>

\* Agent.prompt of the agent the session has by now; it throws when running.
ContentReady(c) ==
  LET o == calls[c].obj
      a == AgentOf(o)
  IN  /\ Is(c, "prompt", "content")
      /\ IF Active(a)
         THEN /\ calls' = Moves(c, "collided")
              /\ objs' = Release(o)
              /\ UNCHANGED agents
         ELSE /\ calls' = [calls EXCEPT ![c].at = "run", ![c].agent = a]
              /\ agents' = [agents EXCEPT ![a].state = "starting", ![a].aborted = FALSE]
              /\ UNCHANGED objs
      /\ UNCHANGED <<stored, sessions, flow, steers, taken, deleted, crossed>>

\* #ensureSession, once per agent, creates a session it does not find.
RunOpens(a) ==
  /\ agents[a].state = "starting"
  /\ agents[a].ensured => IdOf(a) \in stored
  /\ stored' = stored \cup {IdOf(a)}
  /\ agents' = [agents EXCEPT ![a].ensured = TRUE, ![a].state = "running"]
  /\ UNCHANGED <<sessions, objs, flow, calls, steers, taken, deleted, crossed>>

\* An answer, an abort, the turn ceiling, or an append that fails.
RunEnds(c) ==
  LET a == calls[c].agent
  IN  /\ Is(c, "prompt", "run")
      /\ \/ agents[a].state = "running"
         \/ agents[a].state = "starting" /\ agents[a].ensured /\ IdOf(a) \notin stored
      /\ agents' = [agents EXCEPT ![a].state = "idle", ![a].aborted = FALSE]
      /\ calls' = Moves(c, "done")
      /\ objs' = Release(calls[c].obj)
      /\ UNCHANGED <<stored, sessions, flow, steers, taken, deleted, crossed>>

-----------------------------------------------------------------------------
(* Permission asks, abort and steer. *)

\* A tool call asks: its message was appended, its run not aborted.
Ask(a) ==
  /\ agents[a].state = "running" /\ ~agents[a].aborted /\ IdOf(a) \in stored
  /\ agents' = [agents EXCEPT ![a].state = "asking"]
  /\ UNCHANGED <<stored, sessions, objs, flow, calls, steers, taken, deleted, crossed>>

Settle(a) ==
  /\ agents[a].state = "asking"
  /\ agents' = [agents EXCEPT ![a].state = "running"]
  /\ UNCHANGED <<stored, sessions, objs, flow, calls, steers, taken, deleted, crossed>>

\* handlePermissionDecision finds the ask by its id in the live session's map.
Decide(a) == sessions[IdOf(a)] = agents[a].obj /\ Settle(a)

\* The timer of #permissionRequester denies.
TimesOut(a) == Settle(a)

Abort(id) ==
  /\ Live(id)
  /\ agents' = AbortAgent(AgentOf(sessions[id]))
  /\ flow' = IF flow[id] = "running" THEN [flow EXCEPT ![id] = "aborted"] ELSE flow
  /\ <<agents', flow'>> # <<agents, flow>>
  /\ UNCHANGED <<stored, sessions, objs, calls, steers, taken, deleted, crossed>>

\* A steer expands mentions, so it is I/O; it joins its session's chain.
Steer(id) ==
  /\ Live(id)
  /\ steers < MaxSteers
  /\ steers' = steers + 1
  /\ objs' = [objs EXCEPT ![sessions[id]].chain = Append(@, steers + 1)]
  /\ UNCHANGED <<stored, sessions, agents, flow, calls, taken, deleted, crossed>>

\* Mutant: steers settle as their reads finish.
AnyOfChain(o) == DOMAIN objs[o].chain

NextOfChain(o) == DOMAIN objs[o].chain \cap {1}

\* session.agent is evaluated before the content is awaited.
SteerStarts(o) ==
  /\ objs[o].chain # <<>>
  /\ \A a \in DOMAIN agents : <<o, a>> \notin taken
  /\ taken' = taken \cup {<<o, AgentOf(o)>>}
  /\ UNCHANGED <<stored, sessions, objs, agents, flow, calls, steers, deleted, crossed>>

\* The steer reaches the agent it took, also when a rewind has retired that one
\* meanwhile, or is refused without holding up the rest.
SteerSettles(o) ==
  \E i \in NextOfChain(o), a \in DOMAIN agents :
    /\ <<o, a>> \in taken
    /\ taken' = taken \ {<<o, a>>}
    /\ objs' = [objs EXCEPT ![o].chain = RemoveAt(@, i)]
    /\ agents' \in {agents, [agents EXCEPT ![a].heard = Append(@, objs[o].chain[i])]}
    /\ UNCHANGED <<stored, sessions, flow, calls, steers, deleted, crossed>>

-----------------------------------------------------------------------------
(* rewindTo: list the checkpoints, restore the files, swap the agent. *)

RewindTo(id) ==
  /\ Live(id) /\ ~IsBusy(sessions[id])
  /\ Request("rewind", id, "list")
  /\ UNCHANGED <<stored, sessions, objs, agents, flow, steers, taken, deleted, crossed>>

RewindListed(c) ==
  /\ Is(c, "rewind", "list")
  /\ calls' = Moves(c, "failed") \/ (~IsBusy(calls[c].obj) /\ calls' = Moves(c, "restore"))
  /\ UNCHANGED <<stored, sessions, objs, agents, flow, steers, taken, deleted, crossed>>

\* Mutant: the agent that is swapped out is left to itself.
LeaveRunning(o) == agents

\* What becomes of the agents when the one of a session is replaced.
Retire(o) == DenyAndAbort(o)

\* #swapAgent, when the transcript could be forked too.
Swapped(c) ==
  LET o == calls[c].obj
  IN  /\ Is(c, "rewind", "restore")
      /\ agents' = Append(Retire(o), Agent(o))
      /\ objs' = [objs EXCEPT ![o].agent = Len(agents) + 1]
      /\ calls' = Moves(c, "done")
      /\ UNCHANGED <<stored, sessions, flow, steers, taken, deleted, crossed>>

FilesOnly(c) ==
  /\ Is(c, "rewind", "restore")
  /\ calls' = Moves(c, "done")
  /\ UNCHANGED <<stored, sessions, objs, agents, flow, steers, taken, deleted, crossed>>

-----------------------------------------------------------------------------
(* runWorkflow: accepted at once, then a run of its own. *)

RunWorkflow(id) ==
  /\ Live(id) /\ ~IsBusy(sessions[id])
  /\ flow[id] = "none"
  /\ flow' = [flow EXCEPT ![id] = "running"]
  /\ UNCHANGED <<stored, sessions, objs, agents, calls, steers, taken, deleted, crossed>>

WorkflowEnds(id) ==
  /\ flow[id] # "none"
  /\ flow' = [flow EXCEPT ![id] = "none"]
  /\ UNCHANGED <<stored, sessions, objs, agents, calls, steers, taken, deleted, crossed>>

-----------------------------------------------------------------------------
Init ==
  /\ stored = Old
  /\ sessions = [id \in Ids |-> 0]
  /\ objs = <<>> /\ agents = <<>> /\ calls = <<>>
  /\ flow = [id \in Ids |-> "none"]
  /\ steers = 0 /\ taken = {} /\ deleted = {} /\ crossed = {}

Client(id) ==
  \/ CreateSession(id) \/ OpenSession(id) \/ DeleteSession(id) \/ Prompt(id)
  \/ Abort(id) \/ Steer(id) \/ RewindTo(id) \/ RunWorkflow(id)

CallProceeds(c) ==
  \/ FileCreated(c) \/ OpenReads(c) \/ Registered(c) \/ Deleted(c)
  \/ ContentRefused(c) \/ ContentReady(c) \/ RunEnds(c)
  \/ RewindListed(c) \/ Swapped(c) \/ FilesOnly(c)

Next ==
  \/ \E id \in Ids : Client(id) \/ WorkflowEnds(id)
  \/ \E c \in DOMAIN calls : CallProceeds(c)
  \/ \E a \in DOMAIN agents : RunOpens(a) \/ Ask(a) \/ Decide(a) \/ TimesOut(a)
  \/ \E o \in DOMAIN objs : SteerStarts(o) \/ SteerSettles(o)

Spec == Init /\ [][Next]_vars

-----------------------------------------------------------------------------
(* Properties. *)

Verbs == {"create", "open", "delete", "prompt", "rewind"}
Stages == {"create", "header", "entries", "build", "rm", "content", "run", "list", "restore",
           "done", "failed", "collided"}

\* The type of every variable; a session is claimed exactly while a prompt on
\* it is resolving its context or running.
TypeOK ==
  /\ stored \subseteq Ids /\ deleted \subseteq Ids /\ crossed \subseteq Ids
  /\ sessions \in [Ids -> 0..Len(objs)] /\ steers \in 0..MaxSteers
  /\ taken \subseteq (DOMAIN objs) \X (DOMAIN agents)
  /\ flow \in [Ids -> {"none", "running", "aborted"}]
  /\ objs \in Seq([id : Ids, agent : 1..Len(agents), starting : BOOLEAN,
                   chain : Seq(1..MaxSteers)])
  /\ agents \in Seq([obj : 1..Len(objs), state : {"idle", "starting", "running", "asking"},
                     aborted : BOOLEAN, ensured : BOOLEAN, heard : Seq(1..MaxSteers)])
  /\ calls \in Seq([verb : Verbs, id : Ids, obj : 0..Len(objs), at : Stages,
                    agent : 0..Len(agents)])

\* A prompt the host accepted is never thrown out by an agent that is already
\* running: two prompts in the window before the run, a rewind in it, or an
\* abort do not get past the claim; and a session is claimed exactly as long as one
\* of its prompts is on its way, so that no refusal leaves it busy for ever.
AcceptedPromptsRun ==
  /\ \A c \in DOMAIN calls : calls[c].at # "collided"
  /\ \A o \in DOMAIN objs : objs[o].starting <=>
       \E c \in DOMAIN calls :
         calls[c].obj = o /\ (Is(c, "prompt", "content") \/ Is(c, "prompt", "run"))

\* What deleteSession resolved for stays deleted, except a session prompted or
\* opened while it was being deleted: no late open, prompt or rewind brings the
\* file or the live session back.
DeletedUncrossed == \A id \in deleted \ crossed : id \notin stored /\ ~Live(id)

\* A run that was not aborted is the run of the agent its live session holds:
\* clients see it, can answer it and can abort it (what the aborts of #swapAgent
\* and #evict are for).  Not so
\* for a session prompted or opened while it was being deleted.
RunsServed ==
  \A a \in DOMAIN agents : LET id == IdOf(a) IN
    Active(a) /\ ~agents[a].aborted /\ id \notin crossed => Live(id) /\ AgentOf(sessions[id]) = a

\* #evict aborts a run that "another connection could have started ... in the
\* gap" between deleteSession's busy check and the delete (session-host.ts:
\* 2962-2965): the agent of a deleted session never runs on.
EvictedNeverRuns ==
  \A a \in DOMAIN agents :
    agents[a].state = "running" /\ ~agents[a].aborted => sessions[IdOf(a)] = agents[a].obj

\* Steers of a session are heard in the order they were sent, across refusals and
\* across rewinds that replace the agent: neither does one agent hear them out of
\* order, nor does a later steer go to an older agent than an earlier one.
SteersInOrder ==
  \A a, b \in DOMAIN agents : agents[a].obj = agents[b].obj =>
    \A i \in DOMAIN agents[a].heard, j \in DOMAIN agents[b].heard :
      a < b \/ (a = b /\ i < j) => agents[a].heard[i] < agents[b].heard[j]

\* A steer is queued for the run in flight or "(or, if idle, the next prompt)"
\* (session-host.ts:1354) of its session: no agent hears one that its session has
\* already replaced.
SteersReachTheSession ==
  [][\A a \in DOMAIN agents :
       agents'[a].heard # agents[a].heard => AgentOf(agents[a].obj) = a]_vars

\* No pipeline outlives its session unaborted.
FlowsServed == \A id \in Ids : flow[id] = "running" => Live(id)
=============================================================================
