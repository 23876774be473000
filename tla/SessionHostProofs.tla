------------------------- MODULE SessionHostProofs -------------------------
(***************************************************************************)
(* What SessionHost keeps for every number of sessions, requests, steers   *)
(* and live sessions: an accepted prompt is not thrown out, a run is the   *)
(* one clients see, a deleted session stays deleted, and steers keep their *)
(* order.                                                                  *)
(***************************************************************************)
EXTENDS SessionHost, SequenceTheorems, TLAPS

-----------------------------------------------------------------------------
(* The inductive invariant. *)

Staged(c) ==
  /\ calls[c].verb = "create" => calls[c].at \in {"create", "build", "done"}
  /\ calls[c].verb = "open" => calls[c].at \in {"header", "entries", "build", "done", "failed"}
  /\ calls[c].verb = "delete" => calls[c].at \in {"rm", "done", "failed"}
  /\ calls[c].verb = "prompt" => calls[c].at \in {"content", "run", "done", "failed", "collided"}
  /\ calls[c].verb = "rewind" => calls[c].at \in {"list", "restore", "done", "failed"}

ObjShapes   == [id : Ids, agent : Nat, starting : BOOLEAN, chain : Seq(Nat)]
AgentShapes == [obj : Nat, state : {"idle", "starting", "running", "asking"},
                aborted : BOOLEAN, ensured : BOOLEAN, heard : Seq(Nat)]
CallShapes  == [verb : Verbs, id : Ids, obj : Nat, at : Stages, agent : Nat]

\* TypeOK without the ranges that follow the lengths of the sequences.
Shapes ==
  /\ stored \subseteq Ids /\ deleted \subseteq Ids /\ crossed \subseteq Ids
  /\ sessions \in [Ids -> Nat] /\ steers \in Nat
  /\ flow \in [Ids -> {"none", "running", "aborted"}]
  /\ objs \in Seq(ObjShapes) /\ agents \in Seq(AgentShapes) /\ calls \in Seq(CallShapes)

\* The references between requests, sessions and agents lead where they should.
Wiring ==
  /\ \A id \in Ids : Live(id) => sessions[id] \in DOMAIN objs /\ objs[sessions[id]].id = id
  /\ \A o \in DOMAIN objs : AgentOf(o) \in DOMAIN agents /\ agents[AgentOf(o)].obj = o
  /\ \A a \in DOMAIN agents : agents[a].obj \in DOMAIN objs

Named(c) ==
  /\ Staged(c)
  /\ calls[c].obj # 0 => calls[c].obj \in DOMAIN objs /\ objs[calls[c].obj].id = calls[c].id
  /\ calls[c].verb \in {"prompt", "rewind"} => calls[c].obj # 0

CallsNamed == \A c \in DOMAIN calls : Named(c)

Claims(c) == calls[c].verb = "prompt" /\ calls[c].at \in {"content", "run"}

\* Request c is the run of agent a.
RunsOn(c, a) == Is(c, "prompt", "run") /\ calls[c].agent = a

\* A session is claimed by one prompt, and whoever runs was started by it.
OneClaim ==
  /\ \A c, d \in DOMAIN calls : Claims(c) /\ Claims(d) /\ calls[c].obj = calls[d].obj => c = d
  /\ \A a \in DOMAIN agents : Active(a) => \E c \in DOMAIN calls : RunsOn(c, a)
  /\ \A c \in DOMAIN calls : Is(c, "prompt", "run") =>
       /\ calls[c].agent \in DOMAIN agents
       /\ Active(calls[c].agent)
       /\ agents[calls[c].agent].obj = calls[c].obj

ClaimsInv == OneClaim /\ AcceptedPromptsRun

Brings(c)  == calls[c].verb \in {"create", "open"} /\ calls[c].at \notin {"done", "failed"}
Removes(c) == Is(c, "delete", "rm")

\* Every id in use is one that clients know; a created one was nobody's.
InUse(id) ==
  Live(id) \/ id \in deleted \/ \E c \in DOMAIN calls : calls[c].id = id /\ calls[c].verb # "create"

IdsInv ==
  /\ \A id \in Ids : InUse(id) => Known(id)
  /\ \A c \in DOMAIN calls : calls[c].verb = "create" =>
       /\ calls[c].id \notin Old
       /\ \A d \in DOMAIN calls : calls[d].verb = "create" /\ calls[c].id = calls[d].id => c = d

\* Request c on an id that no prompt or open crossed a delete on: a prompt holds
\* the live session, nobody brings in a session that is live or being brought
\* in or deleted, and one that was deleted has no file to be opened.
ApartOf(c) ==
  /\ Claims(c) => sessions[calls[c].id] = calls[c].obj /\ calls[c].id \notin deleted
  /\ Brings(c) => ~Live(calls[c].id)
  /\ Removes(c) /\ calls[c].obj = 0 => ~Live(calls[c].id)
  /\ Brings(c) /\ calls[c].id \in deleted => Is(c, "open", "header")
  /\ \A d \in DOMAIN calls : calls[d].id = calls[c].id =>
       /\ Brings(c) /\ Brings(d) => c = d
       /\ ~(Removes(c) /\ (Brings(d) \/ Claims(d)))

Apart == \A c \in DOMAIN calls : calls[c].id \notin crossed => ApartOf(c)

\* A run goes on unaborted only at the agent its session object holds.
Current == \A a \in DOMAIN agents : Active(a) /\ ~agents[a].aborted => AgentOf(agents[a].obj) = a

\* What an agent heard was sent before what still waits for it.
Ordered(o) ==
  /\ \A i \in DOMAIN objs[o].chain : objs[o].chain[i] <= steers
  /\ \A i, j \in DOMAIN objs[o].chain : i < j => objs[o].chain[i] < objs[o].chain[j]

Before(a) ==
  \A i \in DOMAIN agents[a].heard :
    /\ agents[a].heard[i] <= steers
    /\ \A j \in DOMAIN objs[agents[a].obj].chain :
         agents[a].heard[i] < objs[agents[a].obj].chain[j]

\* No agent of a's session that came after a has heard anything yet.
Unheard(a) ==
  \A b \in DOMAIN agents : b > a /\ agents[b].obj = agents[a].obj => agents[b].heard = <<>>

\* One steer of a session is under way at a time; it took an agent of that
\* session, and none that came after has heard anything.
TakenInv ==
  /\ taken \subseteq (DOMAIN objs) \X (DOMAIN agents)
  /\ \A o \in DOMAIN objs : \A a, b \in DOMAIN agents :
       <<o, a>> \in taken /\ <<o, b>> \in taken => a = b
  /\ \A o \in DOMAIN objs : \A a \in DOMAIN agents :
       <<o, a>> \in taken => agents[a].obj = o /\ Unheard(a)

SteersInv ==
  /\ \A o \in DOMAIN objs : Ordered(o)
  /\ \A a \in DOMAIN agents : Before(a)
  /\ SteersInOrder
  /\ TakenInv

\* The agent a session holds is the last one it got.
Newest == \A a \in DOMAIN agents : a <= AgentOf(agents[a].obj)

-----------------------------------------------------------------------------
(* What a step writes, field by field. *)

\* Request c is moved on with agent n, the others stand.
CallGoes(c, at, n) ==
  /\ calls' \in Seq(CallShapes) /\ DOMAIN calls' = DOMAIN calls /\ c \in DOMAIN calls
  /\ \A d \in DOMAIN calls :
       /\ calls'[d].verb = calls[d].verb /\ calls'[d].id = calls[d].id
       /\ calls'[d].obj = calls[d].obj
       /\ calls'[d].at = IF d = c THEN at ELSE calls[d].at
       /\ calls'[d].agent = IF d = c THEN n ELSE calls[d].agent

CallMoves(c, at) == CallGoes(c, at, calls[c].agent)

\* A request arrives, numbered n.
CallComes(n, verb, id, at) ==
  /\ calls' \in Seq(CallShapes) /\ DOMAIN calls' = DOMAIN calls \cup {n} /\ n \notin DOMAIN calls
  /\ \A d \in DOMAIN calls : calls'[d] = calls[d]
  /\ calls'[n].verb = verb /\ calls'[n].id = id /\ calls'[n].at = at
  /\ calls'[n].obj = sessions[id] /\ calls'[n].agent = 0

\* The session objects stay those of their ids.
ObjsStay ==
  /\ objs' \in Seq(ObjShapes) /\ DOMAIN objs' = DOMAIN objs
  /\ \A o \in DOMAIN objs : objs'[o].id = objs[o].id

\* Only the mark of session o changes, to b.
Claimed(o, b) ==
  /\ ObjsStay
  /\ \A p \in DOMAIN objs :
       /\ objs'[p].agent = objs[p].agent /\ objs'[p].chain = objs[p].chain
       /\ objs'[p].starting = IF p = o THEN b ELSE objs[p].starting

\* The agents stay those of their sessions.
AgentsStay ==
  /\ agents' \in Seq(AgentShapes) /\ DOMAIN agents' = DOMAIN agents
  /\ \A a \in DOMAIN agents : agents'[a].obj = agents[a].obj

\* Only the run of agent a changes.
RunMoves(a, state, aborted) ==
  /\ AgentsStay /\ a \in DOMAIN agents
  /\ \A b \in DOMAIN agents :
       /\ agents'[b].heard = agents[b].heard
       /\ agents'[b].state = IF b = a THEN state ELSE agents[b].state
       /\ agents'[b].aborted = IF b = a THEN aborted ELSE agents[b].aborted

\* Nobody starts, ends or is unaborted; the agent of session o is aborted if it
\* runs.
AbortsOf(o) ==
  /\ AgentsStay
  /\ \A b \in DOMAIN agents :
       /\ agents'[b].heard = agents[b].heard
       /\ agents'[b].state # "idle" <=> agents[b].state # "idle"
       /\ agents[b].aborted => agents'[b].aborted
       /\ b = AgentOf(o) /\ Active(b) => agents'[b].aborted

LEMMA DomIs ==
  ASSUME NEW S, NEW s \in Seq(S)
  PROVE  /\ Len(s) \in Nat /\ DOMAIN s = 1..Len(s)
         /\ \A i \in DOMAIN s : s[i] \in S
OBVIOUS

LEMMA WrittenIs ==
  ASSUME NEW S, NEW s \in Seq(S), NEW i \in DOMAIN s, NEW e \in S, NEW t, t = [s EXCEPT ![i] = e]
  PROVE  t \in Seq(S) /\ DOMAIN t = DOMAIN s
<1>1. i \in 1..Len(s)
  BY DomIs
<1>2. [s EXCEPT ![i] = e] \in Seq(S)
  BY <1>1, ExceptSeq
<1> QED BY <1>2

LEMMA FunIsSeq ==
  ASSUME NEW S, NEW n \in Nat, NEW f, f = [i \in 1..n |-> f[i]], \A i \in 1..n : f[i] \in S
  PROVE  f \in Seq(S)
<1>1. f \in [1..n -> S]
  OBVIOUS
<1> QED BY <1>1, SeqDef

LEMMA AppendIs ==
  ASSUME NEW S, NEW s \in Seq(S), NEW e \in S
  PROVE  /\ Append(s, e) \in Seq(S)
         /\ DOMAIN Append(s, e) = DOMAIN s \cup {Len(s) + 1}
         /\ Len(s) + 1 \notin DOMAIN s
         /\ \A i \in DOMAIN s : Append(s, e)[i] = s[i]
         /\ Append(s, e)[Len(s) + 1] = e
BY AppendProperties, DomIs

LEMMA GoesIs ==
  ASSUME Shapes, NEW c \in DOMAIN calls, NEW at \in Stages, NEW n \in Nat,
         calls' = [calls EXCEPT ![c] = [calls[c] EXCEPT !.at = at, !.agent = n]]
  PROVE  CallGoes(c, at, n)
<1> DEFINE moved == [calls[c] EXCEPT !.at = at, !.agent = n]
<1>1. \A d \in DOMAIN calls : calls[d] \in CallShapes
  BY DomIs DEF Shapes
<1>2. moved \in CallShapes
  BY <1>1 DEF CallShapes
<1>3. moved.verb = calls[c].verb /\ moved.id = calls[c].id /\ moved.obj = calls[c].obj
      /\ moved.at = at /\ moved.agent = n
  BY <1>1 DEF CallShapes
<1>4. calls' = [calls EXCEPT ![c] = moved]
  OBVIOUS
<1> HIDE DEF moved
<1>5. calls' \in Seq(CallShapes) /\ DOMAIN calls' = DOMAIN calls
  BY <1>2, <1>4, WrittenIs DEF Shapes
<1>6. \A d \in DOMAIN calls : calls'[d] = IF d = c THEN moved ELSE calls[d]
  BY <1>4
<1> QED BY <1>3, <1>5, <1>6 DEF CallGoes

LEMMA MovesIs ==
  ASSUME Shapes, NEW c \in DOMAIN calls, NEW at \in Stages, calls' = Moves(c, at)
  PROVE  CallMoves(c, at)
<1>1. calls[c] \in CallShapes
  BY DomIs DEF Shapes
<1>2. calls' = [calls EXCEPT ![c] = [calls[c] EXCEPT !.at = at]]
  BY DEF Moves
<1>3. [calls[c] EXCEPT !.at = at] = [calls[c] EXCEPT !.at = at, !.agent = calls[c].agent]
  BY <1>1 DEF CallShapes
<1>4. calls[c].agent \in Nat
  BY <1>1 DEF CallShapes
<1> QED BY <1>2, <1>3, <1>4, GoesIs DEF CallMoves

LEMMA RequestIs ==
  ASSUME Shapes, NEW id \in Ids, NEW verb \in Verbs, NEW at \in Stages, Request(verb, id, at)
  PROVE  CallComes(Len(calls) + 1, verb, id, at)
<1> DEFINE r == [verb |-> verb, id |-> id, obj |-> sessions[id], at |-> at, agent |-> 0]
<1>1. r \in CallShapes
  BY DEF CallShapes, Shapes
<1>2. calls' = Append(calls, r)
  BY DEF Request
<1> QED BY <1>1, <1>2, AppendIs DEF CallComes, Shapes

LEMMA ClaimIs ==
  ASSUME Shapes, NEW o \in DOMAIN objs, NEW b \in BOOLEAN,
         objs' = [objs EXCEPT ![o].starting = b]
  PROVE  Claimed(o, b)
<1>1. \A p \in DOMAIN objs : objs[p] \in ObjShapes
  BY DomIs DEF Shapes
<1>2. [objs[o] EXCEPT !.starting = b] \in ObjShapes
  BY <1>1 DEF ObjShapes
<1>3. objs' = [objs EXCEPT ![o] = [objs[o] EXCEPT !.starting = b]]
  OBVIOUS
<1>4. objs' \in Seq(ObjShapes) /\ DOMAIN objs' = DOMAIN objs
  BY <1>2, <1>3, WrittenIs DEF Shapes
<1>5. \A p \in DOMAIN objs : objs'[p] = IF p = o THEN [objs[o] EXCEPT !.starting = b] ELSE objs[p]
  OBVIOUS
<1> QED BY <1>1, <1>4, <1>5 DEF Claimed, ObjsStay, ObjShapes

LEMMA RunIs ==
  ASSUME Shapes, NEW a \in DOMAIN agents, NEW x \in AgentShapes,
         x.obj = agents[a].obj, x.heard = agents[a].heard,
         agents' = [agents EXCEPT ![a] = x]
  PROVE  RunMoves(a, x.state, x.aborted)
<1>1. agents' \in Seq(AgentShapes) /\ DOMAIN agents' = DOMAIN agents
  BY WrittenIs DEF Shapes
<1>2. \A b \in DOMAIN agents : agents'[b] = IF b = a THEN x ELSE agents[b]
  OBVIOUS
<1> QED BY <1>1, <1>2 DEF RunMoves, AgentsStay

LEMMA DenyIs ==
  ASSUME Shapes, NEW o \in DOMAIN objs
  PROVE  /\ DenyAndAbort(o) \in Seq(AgentShapes) /\ DOMAIN DenyAndAbort(o) = DOMAIN agents
         /\ \A b \in DOMAIN agents :
              /\ DenyAndAbort(o)[b].obj = agents[b].obj
              /\ DenyAndAbort(o)[b].heard = agents[b].heard
              /\ DenyAndAbort(o)[b].state # "idle" <=> agents[b].state # "idle"
              /\ agents[b].aborted => DenyAndAbort(o)[b].aborted
              /\ b = AgentOf(o) /\ Active(b) /\ agents[b].obj = o => DenyAndAbort(o)[b].aborted
<1>1. \A b \in DOMAIN agents : agents[b] \in AgentShapes
  BY DomIs DEF Shapes
<1>2. DOMAIN DenyAndAbort(o) = 1..Len(agents) /\ Len(agents) \in Nat
  BY DomIs DEF Shapes, DenyAndAbort
<1>3. \A b \in DOMAIN agents :
        DenyAndAbort(o)[b] =
          IF agents[b].obj # o THEN agents[b]
          ELSE [agents[b] EXCEPT !.state   = IF @ = "asking" THEN "running" ELSE @,
                                 !.aborted = @ \/ (b = AgentOf(o) /\ Active(b))]
  BY DEF DenyAndAbort
<1>4. ASSUME NEW b \in DOMAIN agents
      PROVE  DenyAndAbort(o)[b] \in AgentShapes
  <2>1. CASE agents[b].obj # o
    BY <1>1, <1>3, <2>1
  <2>2. CASE agents[b].obj = o
    <3> DEFINE s == IF agents[b].state = "asking" THEN "running" ELSE agents[b].state
               t == agents[b].aborted \/ (b = AgentOf(o) /\ Active(b))
    <3>1. agents[b] \in AgentShapes
      BY <1>1
    <3>2. s \in {"idle", "starting", "running", "asking"}
      BY <3>1 DEF AgentShapes
    <3>3. t \in BOOLEAN
      BY <3>1 DEF AgentShapes, Active
    <3>4. DenyAndAbort(o)[b] = [agents[b] EXCEPT !.state = s, !.aborted = t]
      BY <1>3, <2>2
    <3> HIDE DEF s, t
    <3> QED BY <3>1, <3>2, <3>3, <3>4 DEF AgentShapes
  <2> QED BY <2>1, <2>2
<1>5. DenyAndAbort(o) \in Seq(AgentShapes)
  BY <1>2, <1>4, FunIsSeq DEF DenyAndAbort
<1>6. ASSUME NEW b \in DOMAIN agents
      PROVE  /\ DenyAndAbort(o)[b].obj = agents[b].obj
             /\ DenyAndAbort(o)[b].heard = agents[b].heard
             /\ DenyAndAbort(o)[b].state # "idle" <=> agents[b].state # "idle"
             /\ agents[b].aborted => DenyAndAbort(o)[b].aborted
             /\ b = AgentOf(o) /\ Active(b) /\ agents[b].obj = o => DenyAndAbort(o)[b].aborted
  <2>1. CASE agents[b].obj # o
    BY <1>3, <2>1
  <2>2. CASE agents[b].obj = o
    <3>1. /\ DenyAndAbort(o)[b].obj = agents[b].obj
          /\ DenyAndAbort(o)[b].heard = agents[b].heard
          /\ DenyAndAbort(o)[b].state = IF agents[b].state = "asking" THEN "running"
                                        ELSE agents[b].state
      BY <1>1, <1>3, <2>2 DEF AgentShapes
    <3>2. DenyAndAbort(o)[b].aborted = (agents[b].aborted \/ (b = AgentOf(o) /\ Active(b)))
      BY <1>1, <1>3, <2>2 DEF AgentShapes
    <3> QED BY <3>1, <3>2
  <2> QED BY <2>1, <2>2
<1> QED BY <1>2, <1>5, <1>6, DomIs DEF Shapes

-----------------------------------------------------------------------------
(* What each action does, in those terms. *)

\* Session object o of id, with agent n, is new.
ObjComes(o, id, n) ==
  /\ objs' \in Seq(ObjShapes) /\ DOMAIN objs' = DOMAIN objs \cup {o} /\ o \notin DOMAIN objs /\ o # 0
  /\ \A p \in DOMAIN objs : objs'[p] = objs[p]
  /\ objs'[o].id = id /\ objs'[o].agent = n /\ ~objs'[o].starting /\ objs'[o].chain = <<>>

\* Agent n of session object o is new; the others at most get aborted.
AgentComes(n, o) ==
  /\ agents' \in Seq(AgentShapes) /\ DOMAIN agents' = DOMAIN agents \cup {n}
  /\ n \notin DOMAIN agents
  /\ \A b \in DOMAIN agents :
       /\ agents'[b].obj = agents[b].obj /\ agents'[b].heard = agents[b].heard
       /\ agents'[b].state # "idle" <=> agents[b].state # "idle"
       /\ agents[b].aborted => agents'[b].aborted
  /\ agents'[n].obj = o /\ agents'[n].state = "idle" /\ agents'[n].heard = <<>>

Basic == Shapes /\ Wiring /\ CallsNamed

LEMMA LiveIsObj ==
  ASSUME Basic, NEW id \in Ids, Live(id)
  PROVE  sessions[id] \in DOMAIN objs /\ AgentOf(sessions[id]) \in DOMAIN agents
BY DEF Basic, Wiring

LEMMA CallIs ==
  ASSUME Basic, NEW c \in DOMAIN calls
  PROVE  calls[c] \in CallShapes /\ calls[c].id \in Ids /\ calls[c].agent \in Nat
<1>1. calls[c] \in CallShapes
  BY DomIs DEF Basic, Shapes
<1> QED BY <1>1 DEF CallShapes

LEMMA StagesAre ==
  /\ {"create", "header", "entries", "build", "rm", "content", "run", "list", "restore", "done",
      "failed", "collided"} \subseteq Stages
  /\ {"create", "open", "delete", "prompt", "rewind"} \subseteq Verbs
BY DEF Stages, Verbs

LEMMA CreateEffect ==
  ASSUME Basic, NEW id \in Ids, CreateSession(id)
  PROVE  CallComes(Len(calls) + 1, "create", id, "create")
BY RequestIs, StagesAre DEF CreateSession, Basic

LEMMA OpenEffect ==
  ASSUME Basic, NEW id \in Ids, OpenSession(id)
  PROVE  CallComes(Len(calls) + 1, "open", id, "header")
BY RequestIs, StagesAre DEF OpenSession, Basic

LEMMA DeleteEffect ==
  ASSUME Basic, NEW id \in Ids, DeleteSession(id)
  PROVE  CallComes(Len(calls) + 1, "delete", id, "rm")
BY RequestIs, StagesAre DEF DeleteSession, Basic

LEMMA RewindEffect ==
  ASSUME Basic, NEW id \in Ids, RewindTo(id)
  PROVE  CallComes(Len(calls) + 1, "rewind", id, "list")
BY RequestIs, StagesAre DEF RewindTo, Basic

LEMMA PromptEffect ==
  ASSUME Basic, NEW id \in Ids, Prompt(id)
  PROVE  /\ CallComes(Len(calls) + 1, "prompt", id, "content")
         /\ Claimed(sessions[id], TRUE)
BY RequestIs, ClaimIs, LiveIsObj, StagesAre DEF Prompt, Basic

LEMMA FileCreatedEffect ==
  ASSUME Basic, NEW c \in DOMAIN calls, FileCreated(c)
  PROVE  CallMoves(c, "build")
BY MovesIs, StagesAre DEF FileCreated, Basic

LEMMA OpenReadsEffect ==
  ASSUME Basic, NEW c \in DOMAIN calls, OpenReads(c)
  PROVE  \/ CallMoves(c, "failed")
         \/ calls[c].id \in stored /\ (CallMoves(c, "entries") \/ CallMoves(c, "build"))
BY MovesIs, StagesAre DEF OpenReads, Basic

LEMMA NewObjShapes ==
  ASSUME NEW id \in Ids, NEW n \in Nat
  PROVE  [id |-> id, agent |-> n, starting |-> FALSE, chain |-> <<>>] \in ObjShapes
BY DEF ObjShapes

LEMMA NewAgentShapes ==
  ASSUME NEW o \in Nat
  PROVE  Agent(o) \in AgentShapes
BY DEF AgentShapes, Agent

LEMMA RegisteredEffect ==
  ASSUME Basic, NEW c \in DOMAIN calls, Registered(c)
  PROVE  LET o == Len(objs) + 1
             n == Len(agents) + 1
             id == calls[c].id
         IN  /\ CallMoves(c, "done")
             /\ ObjComes(o, id, n) /\ AgentComes(n, o)
             /\ sessions' = [sessions EXCEPT ![id] = o]
<1> DEFINE o == Len(objs) + 1
           n == Len(agents) + 1
           id == calls[c].id
           r == [id |-> id, agent |-> n, starting |-> FALSE, chain |-> <<>>]
<1>1. o \in Nat /\ o # 0 /\ n \in Nat /\ id \in Ids
  <2>1. Len(objs) \in Nat /\ Len(agents) \in Nat
    BY DomIs DEF Basic, Shapes
  <2>2. calls[c] \in CallShapes
    BY DomIs DEF Basic, Shapes
  <2> QED BY <2>1, <2>2 DEF CallShapes
<1>2. CallMoves(c, "done")
  BY MovesIs, StagesAre DEF Registered, Basic
<1>3. r \in ObjShapes /\ objs' = Append(objs, r)
  BY <1>1, NewObjShapes DEF Registered, Register
<1>4. r.id = id /\ r.agent = n /\ ~r.starting /\ r.chain = <<>>
  OBVIOUS
<1>5. ObjComes(o, id, n)
  <2> HIDE DEF r
  <2> QED BY <1>1, <1>3, <1>4, AppendIs DEF ObjComes, Basic, Shapes
<1>6. Agent(o) \in AgentShapes /\ agents' = Append(agents, Agent(o))
  BY <1>1, NewAgentShapes DEF Registered, Register
<1>7. Agent(o).obj = o /\ Agent(o).state = "idle" /\ Agent(o).heard = <<>>
  BY DEF Agent
<1>8. AgentComes(n, o)
  BY <1>1, <1>6, <1>7, AppendIs DEF AgentComes, Basic, Shapes
<1>9. sessions' = [sessions EXCEPT ![id] = o]
  BY DEF Registered, Register
<1> QED BY <1>2, <1>5, <1>8, <1>9

LEMMA DenyEffect ==
  ASSUME Basic, NEW o \in DOMAIN objs, agents' = DenyAndAbort(o)
  PROVE  AbortsOf(o)
<1>1. agents[AgentOf(o)].obj = o
  BY DEF Basic, Wiring
<1> QED BY <1>1, DenyIs DEF AbortsOf, AgentsStay, Basic

LEMMA DeletedEffect ==
  ASSUME Basic, NEW c \in DOMAIN calls, Deleted(c)
  PROVE  LET id == calls[c].id
             o  == calls[c].obj
         IN  /\ \/ CallMoves(c, "failed") /\ deleted' = deleted /\ o = 0
                \/ CallMoves(c, "done") /\ deleted' = deleted \cup {id}
             /\ \/ o = 0 /\ UNCHANGED <<agents, sessions, flow>>
                \/ /\ o # 0 /\ AbortsOf(o)
                   /\ sessions' = [sessions EXCEPT ![id] = 0] /\ flow' = [flow EXCEPT ![id] = "none"]
<1> DEFINE o == calls[c].obj
<1>1. \/ CallMoves(c, "failed") /\ deleted' = deleted /\ o = 0
      \/ CallMoves(c, "done") /\ deleted' = deleted \cup {calls[c].id}
  BY MovesIs, StagesAre DEF Deleted, Basic
<1>2. o # 0 => o \in DOMAIN objs
  BY DEF Basic, CallsNamed, Named
<1>3. o # 0 => AbortsOf(o)
  BY <1>2, DenyEffect DEF Deleted
<1> QED BY <1>1, <1>3 DEF Deleted, FlowStopped

LEMMA PromptObj ==
  ASSUME Basic, NEW c \in DOMAIN calls, calls[c].verb \in {"prompt", "rewind"}
  PROVE  calls[c].obj \in DOMAIN objs /\ AgentOf(calls[c].obj) \in DOMAIN agents
BY DEF Basic, CallsNamed, Named, Wiring

LEMMA ContentRefusedEffect ==
  ASSUME Basic, NEW c \in DOMAIN calls, ContentRefused(c)
  PROVE  CallMoves(c, "failed") /\ Claimed(calls[c].obj, FALSE)
BY MovesIs, ClaimIs, PromptObj, StagesAre DEF ContentRefused, Release, Is, Basic

LEMMA AgentIs ==
  ASSUME Basic, NEW a \in DOMAIN agents
  PROVE  agents[a] \in AgentShapes
BY DomIs DEF Basic, Shapes

LEMMA ContentReadyEffect ==
  ASSUME Basic, NEW c \in DOMAIN calls, ContentReady(c)
  PROVE  LET a == AgentOf(calls[c].obj)
         IN  \/ Active(a) /\ CallMoves(c, "collided") /\ Claimed(calls[c].obj, FALSE)
                /\ UNCHANGED agents
             \/ ~Active(a) /\ CallGoes(c, "run", a) /\ RunMoves(a, "starting", FALSE)
                /\ UNCHANGED objs
<1> DEFINE o == calls[c].obj
           a == AgentOf(o)
<1>1. o \in DOMAIN objs /\ a \in DOMAIN agents
  BY PromptObj DEF ContentReady, Is
<1>2. CASE Active(a)
  BY <1>1, <1>2, MovesIs, ClaimIs, StagesAre DEF ContentReady, Release, Basic
<1>3. CASE ~Active(a)
  <2>1. calls[c] \in CallShapes /\ a \in Nat
    BY <1>1, DomIs DEF Basic, Shapes
  <2>2. calls' = [calls EXCEPT ![c] = [calls[c] EXCEPT !.at = "run", !.agent = a]]
    BY <1>3, <2>1 DEF ContentReady, CallShapes
  <2>3. CallGoes(c, "run", a)
    BY <2>1, <2>2, GoesIs, StagesAre DEF Basic
  <2> DEFINE x == [agents[a] EXCEPT !.state = "starting", !.aborted = FALSE]
  <2>4. agents' = [agents EXCEPT ![a] = x]
    BY <1>1, <1>3, AgentIs DEF ContentReady, AgentShapes
  <2>5. /\ x \in AgentShapes /\ x.obj = agents[a].obj /\ x.heard = agents[a].heard
        /\ x.state = "starting" /\ x.aborted = FALSE
    BY <1>1, AgentIs DEF AgentShapes
  <2>6. RunMoves(a, "starting", FALSE)
    <3> HIDE DEF x, a
    <3> QED BY <1>1, <2>4, <2>5, RunIs DEF Basic
  <2> QED BY <1>3, <2>3, <2>6 DEF ContentReady
<1> QED BY <1>2, <1>3

LEMMA RunOpensEffect ==
  ASSUME Basic, NEW a \in DOMAIN agents, RunOpens(a)
  PROVE  RunMoves(a, "running", agents[a].aborted)
<1> DEFINE x == [agents[a] EXCEPT !.ensured = TRUE, !.state = "running"]
<1>1. agents' = [agents EXCEPT ![a] = x]
  BY AgentIs DEF RunOpens, AgentShapes
<1>2. /\ x \in AgentShapes /\ x.obj = agents[a].obj /\ x.heard = agents[a].heard
      /\ x.state = "running" /\ x.aborted = agents[a].aborted
  BY AgentIs DEF AgentShapes
<1> HIDE DEF x
<1> QED BY <1>1, <1>2, RunIs DEF Basic

LEMMA AskEffect ==
  ASSUME Basic, NEW a \in DOMAIN agents, Ask(a) \/ Settle(a)
  PROVE  \E s \in {"asking", "running"} : RunMoves(a, s, agents[a].aborted)
<1>1. PICK s \in {"asking", "running"} : agents' = [agents EXCEPT ![a].state = s]
  BY DEF Ask, Settle
<1> DEFINE x == [agents[a] EXCEPT !.state = s]
<1>2. agents' = [agents EXCEPT ![a] = x]
  BY <1>1
<1>3. /\ x \in AgentShapes /\ x.obj = agents[a].obj /\ x.heard = agents[a].heard
      /\ x.state = s /\ x.aborted = agents[a].aborted
  BY AgentIs DEF AgentShapes
<1> HIDE DEF x
<1> QED BY <1>2, <1>3, RunIs DEF Basic

LEMMA RunEndsEffect ==
  ASSUME Basic, NEW c \in DOMAIN calls, RunEnds(c), calls[c].agent \in DOMAIN agents
  PROVE  /\ RunMoves(calls[c].agent, "idle", FALSE) /\ CallMoves(c, "done")
         /\ Claimed(calls[c].obj, FALSE)
<1> DEFINE a == calls[c].agent
           x == [agents[a] EXCEPT !.state = "idle", !.aborted = FALSE]
<1>1. agents' = [agents EXCEPT ![a] = x]
  BY AgentIs DEF RunEnds, AgentShapes
<1>2. /\ x \in AgentShapes /\ x.obj = agents[a].obj /\ x.heard = agents[a].heard
      /\ x.state = "idle" /\ x.aborted = FALSE
  BY AgentIs DEF AgentShapes
<1>3. RunMoves(a, "idle", FALSE)
  <2> HIDE DEF x, a
  <2>1. a \in DOMAIN agents
    BY DEF a
  <2> QED BY <1>1, <1>2, <2>1, RunIs DEF Basic
<1>4. calls[c].obj \in DOMAIN objs
  BY PromptObj DEF RunEnds, Is
<1> QED BY <1>3, <1>4, MovesIs, ClaimIs, StagesAre DEF RunEnds, Release, Basic

LEMMA AbortEffect ==
  ASSUME Basic, NEW id \in Ids, Abort(id)
  PROVE  AbortsOf(sessions[id])
<1> DEFINE a == AgentOf(sessions[id])
           x == [agents[a] EXCEPT !.aborted = @ \/ Active(a)]
<1>1. a \in DOMAIN agents
  BY LiveIsObj DEF Abort
<1>2. agents' = [agents EXCEPT ![a] = x]
  BY <1>1 DEF Abort, AbortAgent
<1>3. /\ x \in AgentShapes /\ x.obj = agents[a].obj /\ x.heard = agents[a].heard
      /\ x.state = agents[a].state /\ x.aborted = (agents[a].aborted \/ Active(a))
  BY <1>1, AgentIs DEF AgentShapes, Active
<1> HIDE DEF x
<1>4. RunMoves(a, x.state, x.aborted)
  <2> HIDE DEF a
  <2> QED BY <1>1, <1>2, <1>3, RunIs DEF Basic
<1> QED BY <1>3, <1>4 DEF RunMoves, AbortsOf

LEMMA RewindListedEffect ==
  ASSUME Basic, NEW c \in DOMAIN calls, RewindListed(c)
  PROVE  CallMoves(c, "failed") \/ CallMoves(c, "restore")
BY MovesIs, StagesAre DEF RewindListed, Basic

LEMMA FilesOnlyEffect ==
  ASSUME Basic, NEW c \in DOMAIN calls, FilesOnly(c)
  PROVE  CallMoves(c, "done")
BY MovesIs, StagesAre DEF FilesOnly, Basic

\* Session object o gets agent n.
Rewired(o, n) ==
  /\ ObjsStay
  /\ \A p \in DOMAIN objs :
       /\ objs'[p].starting = objs[p].starting /\ objs'[p].chain = objs[p].chain
       /\ objs'[p].agent = IF p = o THEN n ELSE objs[p].agent

LEMMA SwappedEffect ==
  ASSUME Basic, NEW c \in DOMAIN calls, Swapped(c)
  PROVE  LET o == calls[c].obj
             n == Len(agents) + 1
         IN  /\ CallMoves(c, "done") /\ AgentComes(n, o) /\ Rewired(o, n)
             /\ Active(AgentOf(o)) => agents'[AgentOf(o)].aborted
<1> DEFINE o == calls[c].obj
           n == Len(agents) + 1
           x == [objs[o] EXCEPT !.agent = n]
<1>1. o \in DOMAIN objs /\ AgentOf(o) \in DOMAIN agents /\ agents[AgentOf(o)].obj = o
  BY PromptObj DEF Swapped, Is, Basic, Wiring
<1>2. o \in Nat /\ n \in Nat
  BY <1>1, DomIs DEF Basic, Shapes
<1>3. CallMoves(c, "done")
  BY MovesIs, StagesAre DEF Swapped, Basic
<1>4. Rewired(o, n)
  <2>1. \A p \in DOMAIN objs : objs[p] \in ObjShapes
    BY DomIs DEF Basic, Shapes
  <2>2. /\ x \in ObjShapes /\ x.id = objs[o].id /\ x.starting = objs[o].starting
        /\ x.chain = objs[o].chain /\ x.agent = n
    BY <1>1, <1>2, <2>1 DEF ObjShapes
  <2>3. objs' = [objs EXCEPT ![o] = x]
    BY DEF Swapped
  <2> HIDE DEF x, o, n
  <2>4. objs' \in Seq(ObjShapes) /\ DOMAIN objs' = DOMAIN objs
    BY <1>1, <2>2, <2>3, WrittenIs DEF Basic, Shapes
  <2>5. \A p \in DOMAIN objs : objs'[p] = IF p = o THEN x ELSE objs[p]
    BY <2>3
  <2> QED BY <2>2, <2>4, <2>5 DEF Rewired, ObjsStay
<1> DEFINE denied == DenyAndAbort(o)
<1>5. /\ denied \in Seq(AgentShapes) /\ DOMAIN denied = DOMAIN agents
      /\ \A b \in DOMAIN agents :
           /\ denied[b].obj = agents[b].obj /\ denied[b].heard = agents[b].heard
           /\ denied[b].state # "idle" <=> agents[b].state # "idle"
           /\ agents[b].aborted => denied[b].aborted
           /\ b = AgentOf(o) /\ Active(b) /\ agents[b].obj = o => denied[b].aborted
  BY <1>1, DenyIs DEF Basic
<1>6. agents' = Append(denied, Agent(o))
  BY DEF Swapped, Retire
<1>7. Agent(o) \in AgentShapes /\ Agent(o).obj = o /\ Agent(o).state = "idle"
      /\ Agent(o).heard = <<>>
  BY <1>2, NewAgentShapes DEF Agent
<1>8. Len(denied) + 1 = n
  <2> HIDE DEF denied
  <2> QED BY <1>5, DomIs DEF Basic, Shapes
<1>9. AgentComes(n, o) /\ (Active(AgentOf(o)) => agents'[AgentOf(o)].aborted)
  <2>1. /\ agents' \in Seq(AgentShapes) /\ DOMAIN agents' = DOMAIN agents \cup {n}
        /\ n \notin DOMAIN agents
        /\ \A b \in DOMAIN agents : agents'[b] = denied[b]
        /\ agents'[n] = Agent(o)
    <3> HIDE DEF denied, n, o
    <3> QED BY <1>5, <1>6, <1>7, <1>8, AppendIs
  <2> HIDE DEF denied, n, o
  <2> QED BY <1>1, <1>5, <1>7, <2>1 DEF AgentComes
<1> QED BY <1>3, <1>4, <1>9

\* The chain of session object o becomes s.
Chained(o, s) ==
  /\ ObjsStay /\ o \in DOMAIN objs
  /\ \A p \in DOMAIN objs :
       /\ objs'[p].starting = objs[p].starting /\ objs'[p].agent = objs[p].agent
       /\ objs'[p].chain = IF p = o THEN s ELSE objs[p].chain

LEMMA ChainIs ==
  ASSUME Basic, NEW o \in DOMAIN objs, NEW s \in Seq(Nat), objs' = [objs EXCEPT ![o].chain = s]
  PROVE  Chained(o, s)
<1> DEFINE x == [objs[o] EXCEPT !.chain = s]
<1>1. objs[o] \in ObjShapes
  BY DomIs DEF Basic, Shapes
<1>2. /\ x \in ObjShapes /\ x.id = objs[o].id /\ x.starting = objs[o].starting
      /\ x.agent = objs[o].agent /\ x.chain = s
  BY <1>1 DEF ObjShapes
<1>3. objs' = [objs EXCEPT ![o] = x]
  OBVIOUS
<1> HIDE DEF x
<1>4. objs' \in Seq(ObjShapes) /\ DOMAIN objs' = DOMAIN objs
  BY <1>2, <1>3, WrittenIs DEF Basic, Shapes
<1>5. \A p \in DOMAIN objs : objs'[p] = IF p = o THEN x ELSE objs[p]
  BY <1>3
<1> QED BY <1>2, <1>4, <1>5 DEF Chained, ObjsStay

LEMMA SteerEffect ==
  ASSUME Basic, NEW id \in Ids, Steer(id)
  PROVE  LET o == sessions[id]
         IN  Chained(o, Append(objs[o].chain, steers + 1)) /\ steers' = steers + 1
<1> DEFINE o == sessions[id]
<1>1. o \in DOMAIN objs /\ objs[o] \in ObjShapes
  BY LiveIsObj, DomIs DEF Steer, Basic, Shapes
<1>2. Append(objs[o].chain, steers + 1) \in Seq(Nat)
  BY <1>1, AppendIs DEF ObjShapes, Basic, Shapes
<1>3. objs' = [objs EXCEPT ![o].chain = Append(objs[o].chain, steers + 1)]
  BY DEF Steer
<1> QED BY <1>1, <1>2, <1>3, ChainIs DEF Steer

\* Agent a hears of steer n, or nobody does.
Hears(a, n) ==
  /\ AgentsStay /\ a \in DOMAIN agents
  /\ \A b \in DOMAIN agents :
       /\ agents'[b].state = agents[b].state /\ agents'[b].aborted = agents[b].aborted
       /\ b # a => agents'[b].heard = agents[b].heard
  /\ agents'[a].heard \in {agents[a].heard, Append(agents[a].heard, n)}

LEMMA RestIs ==
  ASSUME NEW S, NEW s \in Seq(S), 1 \in DOMAIN s
  PROVE  /\ RemoveAt(s, 1) \in Seq(S)
         /\ DOMAIN RemoveAt(s, 1) = 1..(Len(s) - 1)
         /\ \A i \in DOMAIN RemoveAt(s, 1) : i + 1 \in DOMAIN s /\ RemoveAt(s, 1)[i] = s[i + 1]
<1>1. s # <<>> /\ Len(s) \in Nat /\ Len(s) >= 1 /\ DOMAIN s = 1..Len(s)
  BY DomIs
<1> DEFINE r == SubSeq(s, 2, Len(s))
<1>2. r \in Seq(S) /\ Len(r) = Len(s) - 1 /\ \A i \in 1..Len(r) : r[i] = s[i + 1]
  BY <1>1
<1>3. SubSeq(s, 1, 0) = <<>>
  BY <1>1
<1>4. RemoveAt(s, 1) = <<>> \o r
  BY <1>3 DEF RemoveAt
<1>5. RemoveAt(s, 1) = r
  <2> HIDE DEF r
  <2> QED BY <1>2, <1>4, ConcatEmptySeq
<1> HIDE DEF r
<1> QED BY <1>1, <1>2, <1>5, DomIs

LEMMA SettlesEffect ==
  ASSUME Basic, NEW o \in DOMAIN objs, SteerSettles(o)
  PROVE  /\ 1 \in DOMAIN objs[o].chain
         /\ Chained(o, RemoveAt(objs[o].chain, 1))
         /\ \E a \in DOMAIN agents : /\ <<o, a>> \in taken /\ taken' = taken \ {<<o, a>>}
                                    /\ Hears(a, objs[o].chain[1])
<1> DEFINE s == objs[o].chain
<1>0. PICK a \in DOMAIN agents :
         /\ <<o, a>> \in taken /\ taken' = taken \ {<<o, a>>}
         /\ 1 \in DOMAIN s
         /\ objs' = [objs EXCEPT ![o].chain = RemoveAt(s, 1)]
         /\ agents' \in {agents, [agents EXCEPT ![a].heard = Append(@, s[1])]}
  BY DEF SteerSettles, NextOfChain
<1>1. 1 \in DOMAIN s /\ s \in Seq(Nat)
  <2>1. objs[o] \in ObjShapes
    BY DomIs DEF Basic, Shapes
  <2> QED BY <1>0, <2>1 DEF ObjShapes
<1>2. /\ objs' = [objs EXCEPT ![o].chain = RemoveAt(s, 1)]
      /\ agents' \in {agents, [agents EXCEPT ![a].heard = Append(@, s[1])]}
  BY <1>0
<1>3. Chained(o, RemoveAt(s, 1))
  <2>1. RemoveAt(s, 1) \in Seq(Nat)
    BY <1>1, RestIs
  <2> HIDE DEF s
  <2> QED BY <1>2, <2>1, ChainIs DEF s
<1>4. Hears(a, s[1])
  <2> DEFINE x == [agents[a] EXCEPT !.heard = Append(@, s[1])]
  <2>1. s[1] \in Nat
    BY <1>1, DomIs
  <2>2. agents[a] \in AgentShapes
    BY <1>1, AgentIs
  <2>3. Append(agents[a].heard, s[1]) \in Seq(Nat)
    BY <2>1, <2>2, AppendIs DEF AgentShapes
  <2>4. /\ x \in AgentShapes /\ x.obj = agents[a].obj /\ x.state = agents[a].state
        /\ x.aborted = agents[a].aborted /\ x.heard = Append(agents[a].heard, s[1])
    <3> HIDE DEF s
    <3> QED BY <2>2, <2>3 DEF AgentShapes
  <2>5. CASE agents' = agents
    BY <1>1, <2>5 DEF Hears, AgentsStay, Basic, Shapes
  <2>6. CASE agents' = [agents EXCEPT ![a] = x]
    <3> HIDE DEF x, s
    <3>1. agents' \in Seq(AgentShapes) /\ DOMAIN agents' = DOMAIN agents
      BY <1>1, <2>4, <2>6, WrittenIs DEF Basic, Shapes
    <3>2. \A b \in DOMAIN agents : agents'[b] = IF b = a THEN x ELSE agents[b]
      BY <2>6
    <3> QED BY <1>1, <2>4, <3>1, <3>2 DEF Hears, AgentsStay
  <2> QED BY <1>2, <2>5, <2>6
<1> QED BY <1>0, <1>1, <1>3, <1>4

-----------------------------------------------------------------------------
(* The types and the wiring. *)

\* Requests keep their names when the calls move and sessions at most join.
LEMMA NamedStays ==
  ASSUME Basic, NEW c, NEW at, NEW n, CallGoes(c, at, n),
         \A o \in DOMAIN objs : o \in DOMAIN objs' /\ objs'[o].id = objs[o].id,
         Staged(c)'
  PROVE  CallsNamed'
<1> SUFFICES ASSUME NEW d \in DOMAIN calls
             PROVE  Named(d)'
  BY DEF CallGoes, CallsNamed
<1>1. Named(d) /\ Staged(d)
  BY DEF Basic, CallsNamed, Named
<1>2. Staged(d)'
  BY <1>1 DEF CallGoes, Staged
<1> QED BY <1>1, <1>2 DEF CallGoes, Named

LEMMA NamedComes ==
  ASSUME Basic, NEW n, NEW verb, NEW id \in Ids, NEW at, CallComes(n, verb, id, at),
         \A o \in DOMAIN objs : o \in DOMAIN objs' /\ objs'[o].id = objs[o].id,
         Staged(n)', verb \in {"prompt", "rewind"} => Live(id)
  PROVE  CallsNamed'
<1> SUFFICES ASSUME NEW d \in DOMAIN calls'
             PROVE  Named(d)'
  BY DEF CallsNamed
<1>1. CASE d \in DOMAIN calls
  <2>1. Named(d)
    BY <1>1 DEF Basic, CallsNamed
  <2>2. calls'[d] = calls[d]
    BY <1>1 DEF CallComes
  <2> QED BY <2>1, <2>2 DEF Named, Staged
<1>2. CASE d = n
  BY <1>2 DEF CallComes, Named, Basic, Wiring, Live
<1> QED BY <1>1, <1>2 DEF CallComes

LEMMA BasicStep ==
  ASSUME Basic, OneClaim, [Next]_vars
  PROVE  Basic'
<1> USE DEF Basic
<1>1. ASSUME NEW id \in Ids, CreateSession(id)
      PROVE  Basic'
  <2>1. PICK n : CallComes(n, "create", id, "create")
    BY <1>1, CreateEffect
  <2>2. UNCHANGED <<stored, sessions, objs, agents, flow, steers, deleted, crossed>>
    BY <1>1 DEF CreateSession
  <2>3. Staged(n)'
    BY <2>1 DEF CallComes, Staged
  <2>4. CallsNamed'
    BY <2>1, <2>2, <2>3, NamedComes
  <2> QED BY <2>1, <2>2, <2>4 DEF Shapes, Wiring, Live, AgentOf, CallComes
<1>2. ASSUME NEW id \in Ids, OpenSession(id)
      PROVE  Basic'
  <2>1. PICK n : CallComes(n, "open", id, "header")
    BY <1>2, OpenEffect
  <2>2. UNCHANGED <<stored, sessions, objs, agents, flow, steers, deleted>> /\ crossed' \subseteq Ids
    BY <1>2 DEF OpenSession, Crosses, Shapes
  <2>3. Staged(n)'
    BY <2>1 DEF CallComes, Staged
  <2>4. CallsNamed'
    BY <2>1, <2>2, <2>3, NamedComes
  <2> QED BY <2>1, <2>2, <2>4 DEF Shapes, Wiring, Live, AgentOf, CallComes
<1>3. ASSUME NEW id \in Ids, DeleteSession(id)
      PROVE  Basic'
  <2>1. PICK n : CallComes(n, "delete", id, "rm")
    BY <1>3, DeleteEffect
  <2>2. UNCHANGED <<stored, sessions, objs, agents, flow, steers, deleted>> /\ crossed' \subseteq Ids
    BY <1>3 DEF DeleteSession, Crosses, Shapes
  <2>3. Staged(n)'
    BY <2>1 DEF CallComes, Staged
  <2>4. CallsNamed'
    BY <2>1, <2>2, <2>3, NamedComes
  <2> QED BY <2>1, <2>2, <2>4 DEF Shapes, Wiring, Live, AgentOf, CallComes
<1>4. ASSUME NEW id \in Ids, Prompt(id)
      PROVE  Basic'
  <2>1. PICK n : CallComes(n, "prompt", id, "content") /\ Claimed(sessions[id], TRUE)
    BY <1>4, PromptEffect
  <2>2. /\ UNCHANGED <<stored, sessions, agents, flow, steers, deleted>> /\ crossed' \subseteq Ids
        /\ Live(id)
    BY <1>4 DEF Prompt, Crosses, Shapes
  <2>3. Staged(n)'
    BY <2>1 DEF CallComes, Staged
  <2>4. CallsNamed'
    BY <2>1, <2>2, <2>3, NamedComes DEF Claimed, ObjsStay
  <2>5. Shapes'
    BY <2>1, <2>2 DEF Shapes, CallComes, Claimed, ObjsStay
  <2>6. Wiring'
    BY <2>1, <2>2 DEF Wiring, Live, AgentOf, Claimed, ObjsStay
  <2> QED BY <2>4, <2>5, <2>6
<1>5. ASSUME NEW id \in Ids, Abort(id)
      PROVE  Basic'
  <2>1. AbortsOf(sessions[id])
    BY <1>5, AbortEffect
  <2>2. /\ UNCHANGED <<stored, sessions, objs, calls, steers, deleted, crossed>>
        /\ flow' \in [Ids -> {"none", "running", "aborted"}]
    BY <1>5 DEF Abort, Shapes
  <2>3. CallsNamed'
    BY <2>2 DEF CallsNamed, Named, Staged
  <2> QED BY <2>1, <2>2, <2>3 DEF Shapes, Wiring, Live, AgentOf, AbortsOf, AgentsStay
<1>6. ASSUME NEW id \in Ids, Steer(id)
      PROVE  Basic'
  <2>1. ObjsStay /\ \A p \in DOMAIN objs : objs'[p].agent = objs[p].agent
    BY <1>6, SteerEffect DEF Chained
  <2>2. UNCHANGED <<stored, sessions, agents, flow, calls, deleted, crossed>> /\ steers' \in Nat
    BY <1>6 DEF Steer, Shapes
  <2>3. CallsNamed'
    BY <2>1, <2>2 DEF CallsNamed, Named, Staged, ObjsStay
  <2> QED BY <2>1, <2>2, <2>3 DEF Shapes, Wiring, Live, AgentOf, ObjsStay
<1>7. ASSUME NEW id \in Ids, RewindTo(id)
      PROVE  Basic'
  <2>1. PICK n : CallComes(n, "rewind", id, "list")
    BY <1>7, RewindEffect
  <2>2. UNCHANGED <<stored, sessions, objs, agents, flow, steers, deleted, crossed>> /\ Live(id)
    BY <1>7 DEF RewindTo
  <2>3. Staged(n)'
    BY <2>1 DEF CallComes, Staged
  <2>4. CallsNamed'
    BY <2>1, <2>2, <2>3, NamedComes
  <2> QED BY <2>1, <2>2, <2>4 DEF Shapes, Wiring, Live, AgentOf, CallComes
<1>8. ASSUME NEW id \in Ids, RunWorkflow(id) \/ WorkflowEnds(id)
      PROVE  Basic'
  <2>1. /\ UNCHANGED <<stored, sessions, objs, agents, calls, steers, deleted, crossed>>
        /\ flow' \in [Ids -> {"none", "running", "aborted"}]
    BY <1>8 DEF RunWorkflow, WorkflowEnds, Shapes
  <2> QED BY <2>1 DEF Shapes, Wiring, Live, AgentOf, CallsNamed, Named, Staged
<1>9. ASSUME NEW c \in DOMAIN calls, FileCreated(c)
      PROVE  Basic'
  <2>1. CallMoves(c, "build")
    BY <1>9, FileCreatedEffect
  <2>2. /\ UNCHANGED <<sessions, objs, agents, flow, steers, deleted, crossed>>
        /\ stored' \subseteq Ids
    <3>1. calls[c].id \in Ids
      BY CallIs
    <3> QED BY <1>9, <3>1 DEF FileCreated, Shapes
  <2>3. Staged(c)'
    BY <1>9, <2>1 DEF CallMoves, CallGoes, Staged, FileCreated, Is
  <2>4. CallsNamed'
    BY <2>1, <2>2, <2>3, NamedStays DEF CallMoves
  <2> QED BY <2>1, <2>2, <2>4 DEF Shapes, Wiring, Live, AgentOf, CallMoves, CallGoes
<1>10. ASSUME NEW c \in DOMAIN calls, OpenReads(c) \/ RewindListed(c) \/ FilesOnly(c)
       PROVE  Basic'
  <2>1. PICK at \in {"failed", "entries", "build", "restore", "done"} :
          CallMoves(c, at)
    BY <1>10, OpenReadsEffect, RewindListedEffect, FilesOnlyEffect
  <2>2. UNCHANGED <<stored, sessions, objs, agents, flow, steers, deleted, crossed>>
    BY <1>10 DEF OpenReads, RewindListed, FilesOnly
  <2>3. Staged(c)'
    <3>1. CASE OpenReads(c)
      <4>1. at \in {"failed", "entries", "build"}
        BY <2>1, <3>1, OpenReadsEffect DEF CallMoves, CallGoes
      <4> QED BY <3>1, <2>1, <4>1 DEF CallMoves, CallGoes, Staged, OpenReads, Is
    <3>2. CASE RewindListed(c)
      <4>1. at \in {"failed", "restore"}
        BY <2>1, <3>2, RewindListedEffect DEF CallMoves, CallGoes
      <4> QED BY <3>2, <2>1, <4>1 DEF CallMoves, CallGoes, Staged, RewindListed, Is
    <3>3. CASE FilesOnly(c)
      <4>1. at = "done"
        BY <2>1, <3>3, FilesOnlyEffect DEF CallMoves, CallGoes
      <4> QED BY <3>3, <2>1, <4>1 DEF CallMoves, CallGoes, Staged, FilesOnly, Is
    <3> QED BY <1>10, <3>1, <3>2, <3>3
  <2>4. CallsNamed'
    BY <2>1, <2>2, <2>3, NamedStays DEF CallMoves
  <2> QED BY <2>1, <2>2, <2>4 DEF Shapes, Wiring, Live, AgentOf, CallMoves, CallGoes
<1>11. ASSUME NEW c \in DOMAIN calls, Registered(c)
       PROVE  Basic'
  <2> DEFINE o == Len(objs) + 1
             n == Len(agents) + 1
             id == calls[c].id
  <2>1. /\ CallMoves(c, "done") /\ ObjComes(o, id, n) /\ AgentComes(n, o)
        /\ sessions' = [sessions EXCEPT ![id] = o]
    BY <1>11, RegisteredEffect
  <2>2. UNCHANGED <<stored, flow, steers, deleted, crossed>>
    BY <1>11 DEF Registered
  <2>3. Staged(c)'
    BY <1>11, <2>1 DEF CallMoves, CallGoes, Staged, Registered, Is
  <2>4. CallsNamed'
    BY <2>1, <2>3, NamedStays DEF CallMoves, ObjComes
  <2>5. o \in Nat /\ id \in Ids
    <3>1. Len(objs) \in Nat /\ calls[c] \in CallShapes
      BY DomIs DEF Shapes
    <3> QED BY <3>1 DEF CallShapes
  <2> HIDE DEF o, n, id
  <2>6. Shapes'
    BY <2>1, <2>2, <2>5 DEF Shapes, CallMoves, CallGoes, ObjComes, AgentComes
  <2>7. ASSUME NEW p \in DOMAIN objs'
        PROVE  AgentOf(p)' \in DOMAIN agents' /\ agents'[AgentOf(p)'].obj = p
    <3>1. CASE p \in DOMAIN objs
      BY <2>1, <3>1 DEF Wiring, ObjComes, AgentComes, AgentOf
    <3>2. CASE p = o
      BY <2>1, <3>2 DEF ObjComes, AgentComes, AgentOf
    <3> QED BY <2>1, <2>7, <3>1, <3>2 DEF ObjComes
  <2>8. ASSUME NEW i \in Ids, Live(i)'
        PROVE  sessions'[i] \in DOMAIN objs' /\ objs'[sessions'[i]].id = i
    BY <2>1, <2>8 DEF Wiring, ObjComes, Live, Shapes
  <2>9. ASSUME NEW a \in DOMAIN agents'
        PROVE  agents'[a].obj \in DOMAIN objs'
    BY <2>1, <2>9 DEF Wiring, ObjComes, AgentComes
  <2> QED BY <2>4, <2>6, <2>7, <2>8, <2>9 DEF Wiring
<1>12. ASSUME NEW c \in DOMAIN calls, Deleted(c)
       PROVE  Basic'
  <2> DEFINE id == calls[c].id
             o == calls[c].obj
  <2>1. /\ \/ CallMoves(c, "failed") /\ deleted' = deleted /\ o = 0
           \/ CallMoves(c, "done") /\ deleted' = deleted \cup {id}
        /\ \/ o = 0 /\ UNCHANGED <<agents, sessions, flow>>
           \/ /\ o # 0 /\ AbortsOf(o)
              /\ sessions' = [sessions EXCEPT ![id] = 0] /\ flow' = [flow EXCEPT ![id] = "none"]
    BY <1>12, DeletedEffect
  <2>2. id \in Ids
    BY CallIs
  <2>3. stored' = stored \ {id} /\ UNCHANGED <<objs, steers, crossed>>
    BY <1>12 DEF Deleted
  <2>4. Staged(c)'
    BY <1>12, <2>1 DEF CallMoves, CallGoes, Staged, Deleted, Is
  <2>5. CallsNamed'
    BY <2>1, <2>3, <2>4, NamedStays DEF CallMoves
  <2> HIDE DEF o, id
  <2>6. DOMAIN agents' = DOMAIN agents /\ agents' \in Seq(AgentShapes)
        /\ \A a \in DOMAIN agents : agents'[a].obj = agents[a].obj
    BY <2>1 DEF AbortsOf, AgentsStay, Shapes
  <2>7. Shapes'
    <3>1. sessions' \in [Ids -> Nat] /\ flow' \in [Ids -> {"none", "running", "aborted"}]
      BY <2>1, <2>2 DEF Shapes
    <3>2. calls' \in Seq(CallShapes) /\ deleted' \subseteq Ids
      BY <2>1, <2>2 DEF Shapes, CallMoves, CallGoes
    <3> QED BY <2>3, <2>6, <3>1, <3>2 DEF Shapes
  <2>8. \A i \in Ids : sessions'[i] # 0 => sessions'[i] = sessions[i]
    BY <2>1, <2>2 DEF Shapes
  <2>9. Wiring'
    BY <2>3, <2>6, <2>8 DEF Wiring, Live, AgentOf
  <2> QED BY <2>5, <2>7, <2>9
<1>13. ASSUME NEW c \in DOMAIN calls, ContentRefused(c)
       PROVE  Basic'
  <2>1. CallMoves(c, "failed") /\ Claimed(calls[c].obj, FALSE)
    BY <1>13, ContentRefusedEffect
  <2>2. UNCHANGED <<stored, sessions, agents, flow, steers, deleted, crossed>>
    BY <1>13 DEF ContentRefused
  <2>3. Staged(c)'
    BY <1>13, <2>1 DEF CallMoves, CallGoes, Staged, ContentRefused, Is
  <2>4. CallsNamed'
    BY <2>1, <2>3, NamedStays DEF CallMoves, Claimed, ObjsStay
  <2> QED BY <2>1, <2>2, <2>4 DEF Shapes, Wiring, Live, AgentOf, CallMoves, CallGoes, Claimed, ObjsStay
<1>14. ASSUME NEW c \in DOMAIN calls, ContentReady(c)
       PROVE  Basic'
  <2> DEFINE a == AgentOf(calls[c].obj)
  <2>1. \/ CallMoves(c, "collided") /\ Claimed(calls[c].obj, FALSE) /\ UNCHANGED agents
        \/ CallGoes(c, "run", a) /\ RunMoves(a, "starting", FALSE) /\ UNCHANGED objs
    BY <1>14, ContentReadyEffect
  <2>2. UNCHANGED <<stored, sessions, flow, steers, deleted, crossed>>
    BY <1>14 DEF ContentReady
  <2>3. Staged(c)'
    BY <1>14, <2>1 DEF CallMoves, CallGoes, Staged, ContentReady, Is
  <2>4. PICK at, n : CallGoes(c, at, n)
    BY <2>1 DEF CallMoves
  <2>5. /\ objs' \in Seq(ObjShapes) /\ DOMAIN objs' = DOMAIN objs
        /\ \A o \in DOMAIN objs : objs'[o].id = objs[o].id /\ objs'[o].agent = objs[o].agent
    BY <2>1 DEF Claimed, ObjsStay, Shapes
  <2>6. CallsNamed'
    BY <2>3, <2>4, <2>5, NamedStays
  <2>7. /\ agents' \in Seq(AgentShapes) /\ DOMAIN agents' = DOMAIN agents
        /\ \A b \in DOMAIN agents : agents'[b].obj = agents[b].obj
    BY <2>1 DEF RunMoves, AgentsStay, Shapes
  <2>8. Shapes'
    BY <2>2, <2>4, <2>5, <2>7 DEF Shapes, CallGoes
  <2>9. Wiring'
    BY <2>2, <2>5, <2>7 DEF Wiring, Live, AgentOf
  <2> QED BY <2>6, <2>8, <2>9
<1>15. ASSUME NEW c \in DOMAIN calls, RunEnds(c)
       PROVE  Basic'
  <2>1. calls[c].agent \in DOMAIN agents
    BY <1>15 DEF OneClaim, RunEnds
  <2>2. /\ RunMoves(calls[c].agent, "idle", FALSE) /\ CallMoves(c, "done")
        /\ Claimed(calls[c].obj, FALSE)
    BY <1>15, <2>1, RunEndsEffect
  <2>3. UNCHANGED <<stored, sessions, flow, steers, deleted, crossed>>
    BY <1>15 DEF RunEnds
  <2>4. Staged(c)'
    BY <1>15, <2>2 DEF CallMoves, CallGoes, Staged, RunEnds, Is
  <2>5. CallsNamed'
    BY <2>2, <2>4, NamedStays DEF CallMoves, Claimed, ObjsStay
  <2>6. Shapes'
    BY <2>2, <2>3 DEF Shapes, CallMoves, CallGoes, Claimed, ObjsStay, RunMoves, AgentsStay
  <2>7. /\ DOMAIN objs' = DOMAIN objs
        /\ \A o \in DOMAIN objs : objs'[o].id = objs[o].id /\ objs'[o].agent = objs[o].agent
    BY <2>2 DEF Claimed, ObjsStay
  <2>8. /\ DOMAIN agents' = DOMAIN agents
        /\ \A b \in DOMAIN agents : agents'[b].obj = agents[b].obj
    BY <2>2 DEF RunMoves, AgentsStay
  <2>9. Wiring'
    BY <2>3, <2>7, <2>8 DEF Wiring, Live, AgentOf
  <2> QED BY <2>5, <2>6, <2>9
<1>16. ASSUME NEW c \in DOMAIN calls, Swapped(c)
       PROVE  Basic'
  <2> DEFINE o == calls[c].obj
             n == Len(agents) + 1
  <2>1. CallMoves(c, "done") /\ AgentComes(n, o) /\ Rewired(o, n)
    BY <1>16, SwappedEffect
  <2>2. UNCHANGED <<stored, sessions, flow, steers, deleted, crossed>>
    BY <1>16 DEF Swapped
  <2>3. Staged(c)'
    BY <1>16, <2>1 DEF CallMoves, CallGoes, Staged, Swapped, Is
  <2>4. CallsNamed'
    BY <2>1, <2>3, NamedStays DEF CallMoves, Rewired, ObjsStay
  <2>5. o \in DOMAIN objs
    BY <1>16, PromptObj DEF Swapped, Is
  <2> HIDE DEF o, n
  <2>6. Shapes'
    BY <2>1, <2>2 DEF Shapes, CallMoves, CallGoes, AgentComes, Rewired, ObjsStay
  <2>7. ASSUME NEW p \in DOMAIN objs'
        PROVE  objs'[p].agent \in DOMAIN agents' /\ agents'[objs'[p].agent].obj = p
    <3>1. CASE p = o
      BY <2>1, <2>5, <3>1 DEF AgentComes, Rewired, ObjsStay
    <3>2. CASE p # o
      BY SMTT(30), <2>1, <2>7, <3>2 DEF Wiring, AgentOf, AgentComes, Rewired, ObjsStay
    <3> QED BY <3>1, <3>2
  <2>8. ASSUME NEW a \in DOMAIN agents'
        PROVE  agents'[a].obj \in DOMAIN objs'
    BY <2>1, <2>5, <2>8 DEF Wiring, AgentComes, Rewired, ObjsStay
  <2>9. ASSUME NEW i \in Ids, Live(i)'
        PROVE  sessions'[i] \in DOMAIN objs' /\ objs'[sessions'[i]].id = i
    BY <2>1, <2>2, <2>9 DEF Wiring, Live, Rewired, ObjsStay
  <2> QED BY <2>4, <2>6, <2>7, <2>8, <2>9 DEF Wiring, AgentOf
<1>17. ASSUME NEW a \in DOMAIN agents, RunOpens(a) \/ Ask(a) \/ Decide(a) \/ TimesOut(a)
       PROVE  Basic'
  <2>1. PICK s, b : RunMoves(a, s, b)
    BY <1>17, RunOpensEffect, AskEffect DEF Decide, TimesOut
  <2>2. /\ UNCHANGED <<sessions, objs, flow, calls, steers, deleted, crossed>>
        /\ stored' \in {stored, stored \cup {IdOf(a)}}
    BY <1>17 DEF RunOpens, Ask, Decide, TimesOut, Settle
  <2>3. IdOf(a) \in Ids
    <3>1. agents[a].obj \in DOMAIN objs
      BY DEF Wiring
    <3>2. objs[agents[a].obj] \in ObjShapes
      BY <3>1, DomIs DEF Shapes
    <3> QED BY <3>2 DEF IdOf, ObjShapes
  <2>4. CallsNamed'
    BY <2>2 DEF CallsNamed, Named, Staged
  <2> QED BY <2>1, <2>2, <2>3, <2>4 DEF Shapes, Wiring, Live, AgentOf, RunMoves, AgentsStay
<1>18. ASSUME NEW o \in DOMAIN objs, SteerSettles(o)
       PROVE  Basic'
  <2>1. /\ ObjsStay /\ \A p \in DOMAIN objs : objs'[p].agent = objs[p].agent
        /\ AgentsStay
    BY <1>18, SettlesEffect DEF Chained, Hears
  <2>2. UNCHANGED <<stored, sessions, flow, calls, steers, deleted, crossed>>
    BY <1>18 DEF SteerSettles
  <2>3. CallsNamed'
    BY <2>1, <2>2 DEF CallsNamed, Named, Staged, ObjsStay
  <2> QED BY <2>1, <2>2, <2>3 DEF Shapes, Wiring, Live, AgentOf, ObjsStay, AgentsStay
<1>19. CASE UNCHANGED vars \/ \E o \in DOMAIN objs : SteerStarts(o)
  BY <1>19 DEF vars, SteerStarts, Shapes, Wiring, Live, AgentOf, CallsNamed, Named, Staged
<1> QED BY <1>1, <1>2, <1>3, <1>4, <1>5, <1>6, <1>7, <1>8, <1>9, <1>10, <1>11, <1>12, <1>13,
           <1>14, <1>15, <1>16, <1>17, <1>18, <1>19 DEF Next, Client, CallProceeds

-----------------------------------------------------------------------------
(* Claims: one prompt per session, and no collision. *)

\* What leaves every claim, every run and every session's mark as it is.
ClaimsStay ==
  /\ DOMAIN calls \subseteq DOMAIN calls'
  /\ \A d \in DOMAIN calls' : d \notin DOMAIN calls => calls'[d].verb # "prompt"
                              /\ calls'[d].at # "collided"
  /\ \A d \in DOMAIN calls :
       /\ calls'[d].obj = calls[d].obj /\ calls'[d].agent = calls[d].agent
       /\ calls'[d].verb = calls[d].verb
       /\ calls[d].verb = "prompt" => calls'[d].at = calls[d].at
       /\ calls'[d].at # "collided"

MarksStay ==
  /\ DOMAIN objs \subseteq DOMAIN objs'
  /\ \A o \in DOMAIN objs : objs'[o].starting = objs[o].starting
  /\ \A o \in DOMAIN objs' : o \notin DOMAIN objs => ~objs'[o].starting /\ o # 0

RunsStay ==
  /\ DOMAIN agents \subseteq DOMAIN agents'
  /\ \A a \in DOMAIN agents : /\ agents'[a].obj = agents[a].obj
                              /\ agents'[a].state # "idle" <=> agents[a].state # "idle"
  /\ \A a \in DOMAIN agents' : a \notin DOMAIN agents => agents'[a].state = "idle"

LEMMA ClaimsFrame ==
  ASSUME Basic, ClaimsInv, Basic', ClaimsStay, MarksStay, RunsStay
  PROVE  ClaimsInv'
<1> USE DEF ClaimsInv
<1>1. \A d \in DOMAIN calls' :
        /\ Claims(d)' <=> d \in DOMAIN calls /\ Claims(d)
        /\ Is(d, "prompt", "run")' <=> d \in DOMAIN calls /\ Is(d, "prompt", "run")
        /\ Is(d, "prompt", "content")' <=> d \in DOMAIN calls /\ Is(d, "prompt", "content")
  BY DEF ClaimsStay, Claims, Is
<1>2. ASSUME NEW c \in DOMAIN calls', NEW d \in DOMAIN calls', Claims(c)', Claims(d)',
             calls'[c].obj = calls'[d].obj
      PROVE  c = d
  BY <1>1, <1>2 DEF OneClaim, ClaimsStay
<1>3. ASSUME NEW a \in DOMAIN agents', Active(a)'
      PROVE  \E c \in DOMAIN calls' : RunsOn(c, a)'
  <2>1. a \in DOMAIN agents /\ Active(a)
    BY <1>3 DEF RunsStay, Active
  <2>2. PICK c \in DOMAIN calls : RunsOn(c, a)
    BY <2>1 DEF OneClaim
  <2> QED BY <1>1, <2>2 DEF RunsOn, ClaimsStay
<1>4. ASSUME NEW c \in DOMAIN calls', Is(c, "prompt", "run")'
      PROVE  /\ calls'[c].agent \in DOMAIN agents'
             /\ agents'[calls'[c].agent].state # "idle"
             /\ agents'[calls'[c].agent].obj = calls'[c].obj
  <2>1. c \in DOMAIN calls /\ Is(c, "prompt", "run")
    BY <1>1, <1>4
  <2> QED BY <2>1 DEF OneClaim, Active, ClaimsStay, RunsStay
<1>5. \A c \in DOMAIN calls' : calls'[c].at # "collided"
  BY DEF ClaimsStay
<1>6. ASSUME NEW o \in DOMAIN objs'
      PROVE  objs'[o].starting <=>
               \E c \in DOMAIN calls' :
                 calls'[c].obj = o /\ (Is(c, "prompt", "content")' \/ Is(c, "prompt", "run")')
  <2>1. CASE o \in DOMAIN objs
    BY <1>1, <2>1 DEF AcceptedPromptsRun, ClaimsStay, MarksStay
  <2>2. CASE o \notin DOMAIN objs
    <3>1. ~objs'[o].starting /\ o # 0
      BY <2>2 DEF MarksStay
    <3>2. \A c \in DOMAIN calls : calls[c].obj = 0 \/ calls[c].obj \in DOMAIN objs
      BY DEF Basic, CallsNamed, Named
    <3> QED BY <1>1, <2>2, <3>1, <3>2 DEF ClaimsStay
  <2> QED BY <2>1, <2>2
<1>7. OneClaim'
  BY <1>2, <1>3, <1>4 DEF OneClaim, Active
<1>8. AcceptedPromptsRun'
  BY <1>5, <1>6 DEF AcceptedPromptsRun
<1> QED BY <1>7, <1>8

LEMMA FreeUnclaimed ==
  ASSUME Basic, ClaimsInv, NEW o \in DOMAIN objs, ~objs[o].starting
  PROVE  \A c \in DOMAIN calls : Claims(c) => calls[c].obj # o
BY DEF ClaimsInv, AcceptedPromptsRun, Claims, Is

LEMMA NoneCollided ==
  ASSUME ClaimsInv
  PROVE  \A c \in DOMAIN calls : calls[c].at # "collided"
BY DEF ClaimsInv, AcceptedPromptsRun

LEMMA ClaimsStep ==
  ASSUME Basic, ClaimsInv, [Next]_vars, Basic'
  PROVE  ClaimsInv'
<1>1. ASSUME NEW id \in Ids, CreateSession(id) \/ OpenSession(id) \/ DeleteSession(id) \/ RewindTo(id)
      PROVE  ClaimsInv'
  <2>1. PICK n : \E verb \in {"create", "open", "delete", "rewind"} :
                   \E at \in {"create", "header", "rm", "list"} : CallComes(n, verb, id, at)
    <3>1. CASE CreateSession(id)
      <4>1. PICK n : CallComes(n, "create", id, "create")
        BY <3>1, CreateEffect
      <4> QED BY <4>1
    <3>2. CASE OpenSession(id)
      <4>1. PICK n : CallComes(n, "open", id, "header")
        BY <3>2, OpenEffect
      <4> QED BY <4>1
    <3>3. CASE DeleteSession(id)
      <4>1. PICK n : CallComes(n, "delete", id, "rm")
        BY <3>3, DeleteEffect
      <4> QED BY <4>1
    <3>4. CASE RewindTo(id)
      <4>1. PICK n : CallComes(n, "rewind", id, "list")
        BY <3>4, RewindEffect
      <4> QED BY <4>1
    <3> QED BY <1>1, <3>1, <3>2, <3>3, <3>4
  <2>2. UNCHANGED <<objs, agents>>
    BY <1>1 DEF CreateSession, OpenSession, DeleteSession, RewindTo
  <2>3. ClaimsStay
    BY <2>1, NoneCollided DEF CallComes, ClaimsStay
  <2>4. MarksStay /\ RunsStay
    BY <2>2 DEF MarksStay, RunsStay
  <2> QED BY <2>3, <2>4, ClaimsFrame
<1>2. ASSUME NEW id \in Ids, Prompt(id)
      PROVE  ClaimsInv'
  <2> DEFINE o == sessions[id]
  <2>1. PICK n : CallComes(n, "prompt", id, "content") /\ Claimed(o, TRUE)
    BY <1>2, PromptEffect
  <2>2. UNCHANGED agents /\ o \in DOMAIN objs /\ ~objs[o].starting
    BY <1>2, LiveIsObj DEF Prompt, IsBusy
  <2>3. \A c \in DOMAIN calls : Claims(c) => calls[c].obj # o
    BY <2>2, FreeUnclaimed
  <2>4. /\ DOMAIN calls' = DOMAIN calls \cup {n} /\ n \notin DOMAIN calls
        /\ \A d \in DOMAIN calls : calls'[d] = calls[d]
        /\ Is(n, "prompt", "content")' /\ ~Is(n, "prompt", "run")' /\ calls'[n].obj = o
        /\ calls'[n].at # "collided"
    BY <2>1 DEF CallComes, Is
  <2>5. OneClaim'
    BY <2>2, <2>3, <2>4 DEF ClaimsInv, OneClaim, Claims, Is, RunsOn, Active
  <2>6. ASSUME NEW p \in DOMAIN objs'
        PROVE  objs'[p].starting <=>
                 \E c \in DOMAIN calls' :
                   calls'[c].obj = p /\ (Is(c, "prompt", "content")' \/ Is(c, "prompt", "run")')
    <3>1. p \in DOMAIN objs /\ (objs'[p].starting <=> p = o \/ objs[p].starting)
      BY <2>1, <2>6 DEF Claimed, ObjsStay
    <3>2. objs[p].starting <=>
            \E c \in DOMAIN calls :
              calls[c].obj = p /\ (Is(c, "prompt", "content") \/ Is(c, "prompt", "run"))
      BY <3>1 DEF ClaimsInv, AcceptedPromptsRun
    <3> QED BY <2>4, <3>1, <3>2 DEF Is
  <2>7. AcceptedPromptsRun'
    BY <2>4, <2>6, NoneCollided DEF AcceptedPromptsRun
  <2> QED BY <2>5, <2>7 DEF ClaimsInv
<1>3. ASSUME NEW id \in Ids, Abort(id)
      PROVE  ClaimsInv'
  <2>1. AbortsOf(sessions[id]) /\ UNCHANGED <<objs, calls>>
    BY <1>3, AbortEffect DEF Abort
  <2> QED BY <2>1, ClaimsFrame, NoneCollided DEF ClaimsStay, MarksStay, RunsStay, AbortsOf, AgentsStay
<1>4. ASSUME NEW id \in Ids, Steer(id)
      PROVE  ClaimsInv'
  <2>1. MarksStay /\ UNCHANGED <<agents, calls>>
    BY <1>4, SteerEffect DEF Chained, ObjsStay, MarksStay, Steer
  <2> QED BY <2>1, ClaimsFrame, NoneCollided DEF ClaimsStay, RunsStay
<1>5. ASSUME NEW id \in Ids, RunWorkflow(id) \/ WorkflowEnds(id)
      PROVE  ClaimsInv'
  <2>1. UNCHANGED <<agents, calls, objs>>
    BY <1>5 DEF RunWorkflow, WorkflowEnds
  <2> QED BY <2>1, ClaimsFrame, NoneCollided DEF ClaimsStay, MarksStay, RunsStay
<1>6. ASSUME NEW c \in DOMAIN calls,
             \/ FileCreated(c) \/ OpenReads(c) \/ RewindListed(c) \/ FilesOnly(c)
      PROVE  ClaimsInv'
  <2>1. PICK at \in {"failed", "entries", "build", "restore", "done"} : CallMoves(c, at)
    BY <1>6, FileCreatedEffect, OpenReadsEffect, RewindListedEffect, FilesOnlyEffect
  <2>2. UNCHANGED <<objs, agents>> /\ calls[c].verb # "prompt"
    BY <1>6 DEF FileCreated, OpenReads, RewindListed, FilesOnly, Is
  <2>3. ClaimsStay
    BY <2>1, <2>2, NoneCollided DEF CallMoves, CallGoes, ClaimsStay
  <2> QED BY <2>2, <2>3, ClaimsFrame DEF MarksStay, RunsStay
<1>7. ASSUME NEW c \in DOMAIN calls, Registered(c)
      PROVE  ClaimsInv'
  <2>1. PICK o, n, id : CallMoves(c, "done") /\ ObjComes(o, id, n) /\ AgentComes(n, o)
    BY <1>7, RegisteredEffect
  <2>2. ClaimsStay
    BY <1>7, <2>1, NoneCollided DEF CallMoves, CallGoes, ClaimsStay, Registered, Is
  <2>3. MarksStay /\ RunsStay
    BY <2>1 DEF ObjComes, AgentComes, MarksStay, RunsStay
  <2> QED BY <2>2, <2>3, ClaimsFrame
<1>8. ASSUME NEW c \in DOMAIN calls, Deleted(c)
      PROVE  ClaimsInv'
  <2>1. /\ CallMoves(c, "failed") \/ CallMoves(c, "done")
        /\ UNCHANGED agents \/ AbortsOf(calls[c].obj)
    BY <1>8, DeletedEffect
  <2>2. UNCHANGED objs /\ calls[c].verb # "prompt"
    BY <1>8 DEF Deleted, Is
  <2>3. ClaimsStay
    BY <2>1, <2>2, NoneCollided DEF CallMoves, CallGoes, ClaimsStay
  <2>4. MarksStay /\ RunsStay
    BY <2>1, <2>2 DEF MarksStay, RunsStay, AbortsOf, AgentsStay
  <2> QED BY <2>3, <2>4, ClaimsFrame
<1>9. ASSUME NEW c \in DOMAIN calls, Swapped(c)
      PROVE  ClaimsInv'
  <2>1. PICK o, n : CallMoves(c, "done") /\ AgentComes(n, o) /\ Rewired(o, n)
    BY <1>9, SwappedEffect
  <2>2. ClaimsStay
    BY <1>9, <2>1, NoneCollided DEF CallMoves, CallGoes, ClaimsStay, Swapped, Is
  <2>3. MarksStay /\ RunsStay
    BY <2>1 DEF AgentComes, Rewired, ObjsStay, MarksStay, RunsStay
  <2> QED BY <2>2, <2>3, ClaimsFrame
<1>10. ASSUME NEW a \in DOMAIN agents, RunOpens(a) \/ Ask(a) \/ Decide(a) \/ TimesOut(a)
       PROVE  ClaimsInv'
  <2>1. PICK s \in {"running", "asking"} : \E b : RunMoves(a, s, b)
    BY <1>10, RunOpensEffect, AskEffect DEF Decide, TimesOut
  <2>2. UNCHANGED <<objs, calls>> /\ Active(a)
    BY <1>10 DEF RunOpens, Ask, Decide, TimesOut, Settle, Active
  <2>3. RunsStay
    BY <2>1, <2>2 DEF RunMoves, AgentsStay, RunsStay, Active
  <2> QED BY <2>2, <2>3, ClaimsFrame, NoneCollided DEF ClaimsStay, MarksStay
<1>11. ASSUME NEW o \in DOMAIN objs, SteerSettles(o)
       PROVE  ClaimsInv'
  <2>1. MarksStay /\ RunsStay /\ UNCHANGED calls
    BY <1>11, SettlesEffect DEF Chained, ObjsStay, Hears, AgentsStay, MarksStay, RunsStay, SteerSettles
  <2> QED BY <2>1, ClaimsFrame, NoneCollided DEF ClaimsStay
<1>12. ASSUME NEW c \in DOMAIN calls, ContentRefused(c) \/ RunEnds(c)
       PROVE  ClaimsInv'
  <2> DEFINE o == calls[c].obj
             a == calls[c].agent
  <2>1. Claims(c) /\ o \in DOMAIN objs
    BY <1>12, PromptObj DEF ContentRefused, RunEnds, Claims, Is
  <2>2. PICK at \in {"failed", "done"} : CallMoves(c, at) /\ Claimed(o, FALSE)
    BY <1>12, ContentRefusedEffect, RunEndsEffect DEF RunEnds, ClaimsInv, OneClaim
  <2>3. \/ Is(c, "prompt", "content") /\ UNCHANGED agents
        \/ Is(c, "prompt", "run") /\ RunMoves(a, "idle", FALSE)
    BY <1>12, RunEndsEffect DEF ContentRefused, RunEnds, ClaimsInv, OneClaim
  <2>4. DOMAIN calls' = DOMAIN calls /\ \A d \in DOMAIN calls :
          /\ Is(d, "prompt", "content")' <=> d # c /\ Is(d, "prompt", "content")
          /\ Is(d, "prompt", "run")' <=> d # c /\ Is(d, "prompt", "run")
          /\ calls'[d].obj = calls[d].obj /\ calls'[d].agent = calls[d].agent
          /\ calls'[d].at # "collided"
    BY <2>2, NoneCollided DEF CallMoves, CallGoes, Is
  <2>5. \A d \in DOMAIN calls : Claims(d) <=> Is(d, "prompt", "content") \/ Is(d, "prompt", "run")
    BY DEF Claims, Is
  <2>6. \A d \in DOMAIN calls : Claims(d)' <=> d # c /\ Claims(d)
    <3>1. \A d \in DOMAIN calls : Claims(d)' <=> Is(d, "prompt", "content")' \/ Is(d, "prompt", "run")'
      BY DEF Claims, Is
    <3> QED BY <2>4, <2>5, <3>1
  <2>7. \A d \in DOMAIN calls : Claims(d) /\ calls[d].obj = o => d = c
    BY <2>1 DEF ClaimsInv, OneClaim
  <2>8. /\ DOMAIN agents' = DOMAIN agents
        /\ \A b \in DOMAIN agents :
             /\ agents'[b].obj = agents[b].obj
             /\ Active(b)' <=> Active(b) /\ ~(Is(c, "prompt", "run") /\ b = a)
    <3>1. CASE Is(c, "prompt", "content") /\ UNCHANGED agents
      BY <3>1 DEF Active, Is
    <3>2. CASE Is(c, "prompt", "run") /\ RunMoves(a, "idle", FALSE)
      BY <3>2 DEF Active, RunMoves, AgentsStay
    <3> QED BY <2>3, <3>1, <3>2
  <2>9. ASSUME NEW b \in DOMAIN agents', Active(b)'
        PROVE  \E d \in DOMAIN calls' : RunsOn(d, b)'
    <3>1. PICK d \in DOMAIN calls : RunsOn(d, b)
      BY <2>8, <2>9 DEF ClaimsInv, OneClaim
    <3>2. d # c
      BY <2>8, <2>9, <3>1 DEF RunsOn
    <3> QED BY <2>4, <3>1, <3>2 DEF RunsOn
  <2>10. ASSUME NEW d \in DOMAIN calls', Is(d, "prompt", "run")'
         PROVE  /\ calls'[d].agent \in DOMAIN agents'
                /\ Active(calls[d].agent)'
                /\ agents'[calls'[d].agent].obj = calls'[d].obj
    <3>1. d \in DOMAIN calls /\ d # c /\ Is(d, "prompt", "run")
      BY <2>4, <2>10
    <3>2. calls[d].agent \in DOMAIN agents /\ Active(calls[d].agent)
          /\ agents[calls[d].agent].obj = calls[d].obj
      BY <3>1 DEF ClaimsInv, OneClaim
    <3>3. Is(c, "prompt", "run") => calls[d].agent # a
      <4> SUFFICES ASSUME Is(c, "prompt", "run"), calls[d].agent = a
                   PROVE  FALSE
        OBVIOUS
      <4>1. agents[a].obj = o
        BY DEF ClaimsInv, OneClaim
      <4> QED BY <2>5, <2>7, <3>1, <3>2, <4>1
    <3> QED BY <2>4, <2>8, <3>1, <3>2, <3>3
  <2>11. OneClaim'
    <3>1. \A d, e \in DOMAIN calls' :
            Claims(d)' /\ Claims(e)' /\ calls'[d].obj = calls'[e].obj => d = e
      BY <2>4, <2>6 DEF ClaimsInv, OneClaim
    <3>2. \A d \in DOMAIN calls' : Is(d, "prompt", "run")' => Active(calls[d].agent)'
      BY <2>10
    <3> QED BY <2>9, <2>10, <3>1, <3>2 DEF OneClaim
  <2>12. ASSUME NEW p \in DOMAIN objs'
         PROVE  objs'[p].starting <=>
                  \E d \in DOMAIN calls' :
                    calls'[d].obj = p /\ (Is(d, "prompt", "content")' \/ Is(d, "prompt", "run")')
    <3>1. p \in DOMAIN objs /\ (objs'[p].starting <=> p # o /\ objs[p].starting)
      BY <2>2, <2>12 DEF Claimed, ObjsStay
    <3>2. objs[p].starting <=> \E d \in DOMAIN calls : calls[d].obj = p /\ Claims(d)
      BY <2>5, <3>1 DEF ClaimsInv, AcceptedPromptsRun
    <3>3. objs'[p].starting <=> \E d \in DOMAIN calls : d # c /\ calls[d].obj = p /\ Claims(d)
      BY <2>1, <2>7, <3>1, <3>2
    <3> QED BY <2>4, <2>5, <3>3
  <2>13. AcceptedPromptsRun'
    BY <2>4, <2>12 DEF AcceptedPromptsRun
  <2> QED BY <2>11, <2>13 DEF ClaimsInv
<1>13. ASSUME NEW c \in DOMAIN calls, ContentReady(c)
       PROVE  ClaimsInv'
  <2> DEFINE o == calls[c].obj
             a == AgentOf(o)
  <2>1. Claims(c) /\ Is(c, "prompt", "content") /\ o \in DOMAIN objs /\ a \in DOMAIN agents
    BY <1>13, PromptObj DEF ContentReady, Claims, Is
  <2>2. agents[a].obj = o
    BY <2>1 DEF Basic, Wiring
  <2>3. ~Active(a)
    <3> SUFFICES ASSUME Active(a)
                 PROVE  FALSE
      OBVIOUS
    <3>1. PICK d \in DOMAIN calls : RunsOn(d, a)
      BY <2>1 DEF ClaimsInv, OneClaim
    <3>2. calls[d].obj = o /\ Claims(d) /\ d # c
      BY <2>1, <2>2, <3>1 DEF ClaimsInv, OneClaim, RunsOn, Claims, Is
    <3> QED BY <2>1, <3>2 DEF ClaimsInv, OneClaim
  <2>4. CallGoes(c, "run", a) /\ RunMoves(a, "starting", FALSE) /\ UNCHANGED objs
    BY <1>13, <2>3, ContentReadyEffect
  <2> HIDE DEF a
  <2>5. DOMAIN calls' = DOMAIN calls /\ \A d \in DOMAIN calls :
          /\ Is(d, "prompt", "content")' <=> d # c /\ Is(d, "prompt", "content")
          /\ Is(d, "prompt", "run")' <=> d = c \/ Is(d, "prompt", "run")
          /\ calls'[d].obj = calls[d].obj
          /\ calls'[d].agent = IF d = c THEN a ELSE calls[d].agent
          /\ calls'[d].at # "collided"
    BY <2>1, <2>4, NoneCollided DEF CallGoes, Is
  <2>6. \A d \in DOMAIN calls : Claims(d)' <=> Claims(d)
    <3>1. \A d \in DOMAIN calls :
            /\ Claims(d) <=> Is(d, "prompt", "content") \/ Is(d, "prompt", "run")
            /\ Claims(d)' <=> Is(d, "prompt", "content")' \/ Is(d, "prompt", "run")'
      BY DEF Claims, Is
    <3> QED BY <2>1, <2>5, <3>1
  <2>7. /\ DOMAIN agents' = DOMAIN agents
        /\ \A b \in DOMAIN agents :
             /\ agents'[b].obj = agents[b].obj
             /\ Active(b)' <=> b = a \/ Active(b)
    BY <2>4 DEF Active, RunMoves, AgentsStay
  <2>8. ASSUME NEW b \in DOMAIN agents', Active(b)'
        PROVE  \E d \in DOMAIN calls' : RunsOn(d, b)'
    <3>1. CASE b = a
      BY <2>5, <3>1 DEF RunsOn
    <3>2. CASE b # a
      <4>1. PICK d \in DOMAIN calls : RunsOn(d, b)
        BY <2>7, <2>8, <3>2 DEF ClaimsInv, OneClaim
      <4>2. d # c
        BY <2>1, <4>1 DEF RunsOn, Is
      <4> QED BY <2>5, <4>1, <4>2 DEF RunsOn
    <3> QED BY <3>1, <3>2
  <2>9. ASSUME NEW d \in DOMAIN calls', Is(d, "prompt", "run")'
        PROVE  /\ calls'[d].agent \in DOMAIN agents'
               /\ agents'[calls'[d].agent].state # "idle"
               /\ agents'[calls'[d].agent].obj = calls'[d].obj
    <3>1. CASE d = c
      BY <2>1, <2>2, <2>4, <2>5, <2>7, <3>1 DEF RunMoves
    <3>2. CASE d # c
      <4>1. calls[d].agent \in DOMAIN agents /\ Active(calls[d].agent)
            /\ agents[calls[d].agent].obj = calls[d].obj /\ d \in DOMAIN calls
        BY <2>5, <2>9, <3>2 DEF ClaimsInv, OneClaim
      <4>2. agents'[calls[d].agent].state # "idle"
        BY <2>4, <4>1 DEF RunMoves, Active
      <4> QED BY <2>5, <2>7, <3>2, <4>1, <4>2
    <3> QED BY <3>1, <3>2
  <2>10. OneClaim'
    <3>1. \A d, e \in DOMAIN calls' :
            Claims(d)' /\ Claims(e)' /\ calls'[d].obj = calls'[e].obj => d = e
      BY <2>5, <2>6 DEF ClaimsInv, OneClaim
    <3> QED BY <2>8, <2>9, <3>1 DEF OneClaim, Active
  <2>11. AcceptedPromptsRun'
    <3>1. \A d \in DOMAIN calls :
            /\ Claims(d) <=> Is(d, "prompt", "content") \/ Is(d, "prompt", "run")
            /\ Claims(d)' <=> Is(d, "prompt", "content")' \/ Is(d, "prompt", "run")'
      BY DEF Claims, Is
    <3>2. \A p \in DOMAIN objs : objs[p].starting <=>
            \E d \in DOMAIN calls : calls[d].obj = p /\ Claims(d)
      BY <3>1 DEF ClaimsInv, AcceptedPromptsRun
    <3>3. \A p \in DOMAIN objs' : objs'[p].starting <=>
            \E d \in DOMAIN calls' : calls'[d].obj = p /\ Claims(d)'
      BY <2>4, <2>5, <2>6, <3>2
    <3> QED BY <2>5, <3>1, <3>3 DEF AcceptedPromptsRun
  <2> QED BY <2>10, <2>11 DEF ClaimsInv
<1>14. CASE UNCHANGED vars \/ \E o \in DOMAIN objs : SteerStarts(o)
  BY <1>14, ClaimsFrame, NoneCollided DEF vars, SteerStarts, ClaimsStay, MarksStay, RunsStay
<1> QED BY <1>1, <1>2, <1>3, <1>4, <1>5, <1>6, <1>7, <1>8, <1>9, <1>10, <1>11, <1>12, <1>13,
           <1>14 DEF Next, Client, CallProceeds

-----------------------------------------------------------------------------
(* Who is known, live, deleted and current. *)

LEMMA KnownStays ==
  ASSUME NEW id, Known(id), DOMAIN calls \subseteq DOMAIN calls',
         \A d \in DOMAIN calls :
           /\ calls'[d].verb = calls[d].verb /\ calls'[d].id = calls[d].id
           /\ calls'[d].at = "create" => calls[d].at = "create"
  PROVE  Known(id)'
BY DEF Known

\* Requests keep their names, and none goes back to the start.
NamesStay ==
  /\ DOMAIN calls' = DOMAIN calls
  /\ \A d \in DOMAIN calls :
       /\ calls'[d].verb = calls[d].verb /\ calls'[d].id = calls[d].id
       /\ calls'[d].at = "create" => calls[d].at = "create"

LEMMA IdsFrame ==
  ASSUME Basic, IdsInv, NamesStay,
         \A id \in Ids : Live(id)' \/ id \in deleted' => Known(id)
  PROVE  IdsInv'
<1>1. ASSUME NEW id \in Ids, InUse(id)'
      PROVE  Known(id)'
  <2>1. Known(id)
    <3>1. CASE Live(id)' \/ id \in deleted'
      BY <3>1
    <3>2. CASE \E c \in DOMAIN calls' : calls'[c].id = id /\ calls'[c].verb # "create"
      <4>1. InUse(id)
        BY <3>2 DEF InUse, NamesStay
      <4> QED BY <4>1 DEF IdsInv
    <3> QED BY <1>1, <3>1, <3>2 DEF InUse
  <2> QED BY <2>1, KnownStays DEF NamesStay
<1> QED BY <1>1 DEF IdsInv, NamesStay

\* A session in use is known also to the request that comes now.
LEMMA IdsCome ==
  ASSUME Basic, IdsInv, NEW n, NEW verb, NEW id \in Ids, NEW at, CallComes(n, verb, id, at),
         UNCHANGED <<sessions, deleted>>,
         IF verb = "create"
         THEN at = "create" /\ ~Known(id) /\ id \notin InFlight("create")
         ELSE Known(id)
  PROVE  IdsInv'
<1>1. \A i : Known(i) => Known(i)'
  BY DEF Known, CallComes
<1>2. ASSUME NEW i \in Ids, InUse(i)'
      PROVE  Known(i)'
  <2>1. InUse(i) \/ (i = id /\ verb # "create")
    BY <1>2 DEF InUse, CallComes, Live
  <2> QED BY <1>1, <2>1 DEF IdsInv
<1>3. ASSUME verb = "create"
      PROVE  id \notin Old /\ \A d \in DOMAIN calls : ~(calls[d].verb = "create" /\ calls[d].id = id)
  <2>1. ASSUME NEW d \in DOMAIN calls, calls[d].verb = "create", calls[d].id = id
        PROVE  FALSE
    <3>1. calls[d].at # "create"
      BY <1>3, <2>1 DEF InFlight
    <3> QED BY <1>3, <2>1, <3>1 DEF Known
  <2> QED BY <1>3, <2>1 DEF Known
<1>4. ASSUME NEW c \in DOMAIN calls', calls'[c].verb = "create"
      PROVE  calls'[c].id \notin Old /\ \A d \in DOMAIN calls' :
               calls'[d].verb = "create" /\ calls'[c].id = calls'[d].id => c = d
  BY <1>3, <1>4 DEF IdsInv, CallComes
<1> QED BY <1>2, <1>4 DEF IdsInv

LEMMA IdsStep ==
  ASSUME Basic, IdsInv, [Next]_vars
  PROVE  IdsInv'
<1>1. ASSUME NEW id \in Ids, CreateSession(id)
      PROVE  IdsInv'
  <2>1. PICK n : CallComes(n, "create", id, "create")
    BY <1>1, CreateEffect
  <2> QED BY <1>1, <2>1, IdsCome DEF CreateSession
<1>2. ASSUME NEW id \in Ids, OpenSession(id)
      PROVE  IdsInv'
  <2>1. PICK n : CallComes(n, "open", id, "header")
    BY <1>2, OpenEffect
  <2> QED BY <1>2, <2>1, IdsCome DEF OpenSession
<1>3. ASSUME NEW id \in Ids, DeleteSession(id)
      PROVE  IdsInv'
  <2>1. PICK n : CallComes(n, "delete", id, "rm")
    BY <1>3, DeleteEffect
  <2> QED BY <1>3, <2>1, IdsCome DEF DeleteSession
<1>4. ASSUME NEW id \in Ids, Prompt(id)
      PROVE  IdsInv'
  <2>1. PICK n : CallComes(n, "prompt", id, "content")
    BY <1>4, PromptEffect
  <2>2. Known(id)
    BY <1>4 DEF Prompt, IdsInv, InUse
  <2> QED BY <1>4, <2>1, <2>2, IdsCome DEF Prompt
<1>5. ASSUME NEW id \in Ids, RewindTo(id)
      PROVE  IdsInv'
  <2>1. PICK n : CallComes(n, "rewind", id, "list")
    BY <1>5, RewindEffect
  <2>2. Known(id)
    BY <1>5 DEF RewindTo, IdsInv, InUse
  <2> QED BY <1>5, <2>1, <2>2, IdsCome DEF RewindTo
<1>6. ASSUME UNCHANGED <<calls, sessions, deleted>>
      PROVE  IdsInv'
  BY <1>6 DEF IdsInv, InUse, Known, Live
<1>7. ASSUME NEW c \in DOMAIN calls, NEW at \in Stages \ {"create"}, NEW n, CallGoes(c, at, n),
             \A i \in Ids : Live(i)' \/ i \in deleted' => Known(i)
      PROVE  IdsInv'
  <2>1. NamesStay
    BY <1>7 DEF CallGoes, NamesStay
  <2> QED BY <1>7, <2>1, IdsFrame
<1>8. UNCHANGED <<sessions, deleted>> => \A i \in Ids : Live(i)' \/ i \in deleted' => Known(i)
  BY DEF IdsInv, InUse, Live
<1> DEFINE Ats == {"failed", "entries", "build", "restore", "done", "run", "collided"}
<1>9. ASSUME NEW c \in DOMAIN calls,
             \/ FileCreated(c) \/ OpenReads(c) \/ RewindListed(c) \/ FilesOnly(c)
             \/ ContentRefused(c) \/ Swapped(c)
      PROVE  IdsInv'
  <2>1. PICK at \in Ats : CallMoves(c, at)
    BY <1>9, FileCreatedEffect, OpenReadsEffect, RewindListedEffect, FilesOnlyEffect,
       ContentRefusedEffect, SwappedEffect
  <2>2. UNCHANGED <<sessions, deleted>>
    BY <1>9 DEF FileCreated, OpenReads, RewindListed, FilesOnly, ContentRefused, Swapped
  <2> QED BY <1>7, <1>8, <2>1, <2>2 DEF CallMoves, Stages
<1>10. ASSUME NEW c \in DOMAIN calls, ContentReady(c) \/ RunEnds(c)
       PROVE  IdsInv'
  <2>1. UNCHANGED <<sessions, deleted>>
    BY <1>10 DEF ContentReady, RunEnds
  <2>2. PICK at \in Ats : \E n : CallGoes(c, at, n)
    <3>1. CASE ContentReady(c)
      BY <3>1, ContentReadyEffect DEF CallMoves
    <3>2. CASE RunEnds(c)
      <4>1. CallMoves(c, "done")
        BY <3>2, MovesIs, StagesAre DEF RunEnds, Basic
      <4> QED BY <4>1 DEF CallMoves
    <3> QED BY <1>10, <3>1, <3>2
  <2> QED BY <1>7, <1>8, <2>1, <2>2 DEF Stages
<1>11. ASSUME NEW c \in DOMAIN calls, Registered(c)
       PROVE  IdsInv'
  <2>1. /\ CallMoves(c, "done")
        /\ \A i \in Ids : Live(i)' => i = calls[c].id \/ Live(i)
        /\ UNCHANGED deleted
    BY <1>11, RegisteredEffect DEF Registered, Live, Basic, Shapes
  <2>2. Known(calls[c].id)
    <3>1. CASE calls[c].verb = "create"
      BY <1>11, <3>1 DEF Registered, Is, Known
    <3>2. CASE calls[c].verb # "create"
      BY <3>2, CallIs DEF IdsInv, InUse
    <3> QED BY <3>1, <3>2
  <2>3. \A i \in Ids : Live(i)' \/ i \in deleted' => Known(i)
    BY <2>1, <2>2 DEF IdsInv, InUse
  <2> QED BY <1>7, <2>1, <2>3 DEF CallMoves, Stages
<1>12. ASSUME NEW c \in DOMAIN calls, Deleted(c)
       PROVE  IdsInv'
  <2>1. /\ CallMoves(c, "failed") \/ CallMoves(c, "done")
        /\ \A i \in Ids : Live(i)' => Live(i)
        /\ deleted' \subseteq deleted \cup {calls[c].id}
    BY <1>12, DeletedEffect DEF Live, Basic, Shapes
  <2>2. Known(calls[c].id)
    BY <1>12, CallIs DEF Deleted, Is, IdsInv, InUse
  <2>3. \A i \in Ids : Live(i)' \/ i \in deleted' => Known(i)
    BY <2>1, <2>2 DEF IdsInv, InUse
  <2> QED BY <1>7, <2>1, <2>3 DEF CallMoves, Stages
<1>13. \A id \in Ids : Abort(id) \/ Steer(id) \/ RunWorkflow(id) \/ WorkflowEnds(id)
                       => UNCHANGED <<calls, sessions, deleted>>
  BY DEF Abort, Steer, RunWorkflow, WorkflowEnds
<1>14. \A a \in DOMAIN agents : RunOpens(a) \/ Ask(a) \/ Decide(a) \/ TimesOut(a)
                               => UNCHANGED <<calls, sessions, deleted>>
  BY DEF RunOpens, Ask, Decide, TimesOut, Settle
<1>15. \A o \in DOMAIN objs : SteerSettles(o) => UNCHANGED <<calls, sessions, deleted>>
  BY DEF SteerSettles
<1>16. CASE UNCHANGED vars \/ \E o \in DOMAIN objs : SteerStarts(o)
  BY <1>6, <1>16 DEF vars, SteerStarts
<1> QED BY <1>1, <1>2, <1>3, <1>4, <1>5, <1>6, <1>9, <1>10, <1>11, <1>12, <1>13, <1>14, <1>15,
           <1>16 DEF Next, Client, CallProceeds

-----------------------------------------------------------------------------
(* Deletes, opens and prompts on one id stay apart unless they cross. *)

LEMMA CrossesGrow ==
  ASSUME NEW id \in Ids, NEW verbs, Crosses(id, verbs)
  PROVE  /\ crossed \subseteq crossed'
         /\ id \notin crossed' => \A verb \in verbs : id \notin InFlight(verb)
BY DEF Crosses

\* Requests move on without bringing in, removing or prompting more.
Lessen ==
  /\ DOMAIN calls' = DOMAIN calls
  /\ \A d \in DOMAIN calls :
       /\ calls'[d].id = calls[d].id /\ calls'[d].obj = calls[d].obj
       /\ Claims(d)' => Claims(d)
       /\ Brings(d)' => Brings(d)
       /\ Removes(d)' => Removes(d)
       /\ Brings(d)' /\ Is(d, "open", "header") => Is(d, "open", "header")'

LEMMA ApartFrame ==
  ASSUME Basic, Apart, Lessen, UNCHANGED <<sessions, deleted, crossed>>
  PROVE  Apart'
<1> SUFFICES ASSUME NEW c \in DOMAIN calls', calls'[c].id \notin crossed'
             PROVE  ApartOf(c)'
  BY DEF Apart
<1>1. ApartOf(c) /\ c \in DOMAIN calls
  BY DEF Apart, Lessen
<1> QED BY <1>1 DEF ApartOf, Lessen, Live

\* What a new request has to be for the old ones to stay apart.
LEMMA ApartCome ==
  ASSUME Basic, Apart, NEW n, NEW verb, NEW id \in Ids, NEW at, CallComes(n, verb, id, at),
         UNCHANGED <<sessions, deleted>>, crossed \subseteq crossed',
         id \notin crossed' =>
           /\ Claims(n)' => id \notin deleted
           /\ Brings(n)' => /\ ~Live(id) /\ (id \in deleted => Is(n, "open", "header")')
                            /\ \A d \in DOMAIN calls : calls[d].id = id => ~Brings(d) /\ ~Removes(d)
           /\ Removes(n)' => \A d \in DOMAIN calls : calls[d].id = id => ~Brings(d) /\ ~Claims(d)
           /\ Claims(n)' => \A d \in DOMAIN calls : calls[d].id = id => ~Removes(d)
  PROVE  Apart'
<1> SUFFICES ASSUME NEW c \in DOMAIN calls', calls'[c].id \notin crossed'
             PROVE  ApartOf(c)'
  BY DEF Apart
<1>1. \A d \in DOMAIN calls :
        /\ calls'[d] = calls[d]
        /\ Claims(d)' <=> Claims(d)
        /\ Brings(d)' <=> Brings(d)
        /\ Removes(d)' <=> Removes(d)
        /\ Is(d, "open", "header")' <=> Is(d, "open", "header")
  BY DEF CallComes, Claims, Brings, Removes, Is
<1>2. DOMAIN calls' = DOMAIN calls \cup {n} /\ n \notin DOMAIN calls /\ calls'[n].id = id
      /\ calls'[n].obj = sessions[id]
  BY DEF CallComes
<1>3. ~(Claims(n)' /\ Brings(n)') /\ ~(Claims(n)' /\ Removes(n)') /\ ~(Brings(n)' /\ Removes(n)')
  BY DEF Claims, Brings, Removes, Is
<1>4. CASE c \in DOMAIN calls
  <2>1. ApartOf(c) /\ calls[c].id \notin crossed /\ calls'[c].id = calls[c].id
    BY <1>1, <1>4 DEF Apart
  <2>2. ASSUME NEW d \in DOMAIN calls', calls'[d].id = calls'[c].id
        PROVE  /\ Brings(c)' /\ Brings(d)' => c = d
               /\ ~(Removes(c)' /\ (Brings(d)' \/ Claims(d)'))
    <3>1. CASE d \in DOMAIN calls
      BY <1>1, <1>4, <2>1, <2>2, <3>1 DEF ApartOf
    <3>2. CASE d = n
      BY <1>1, <1>2, <1>4, <2>1, <2>2, <3>2
    <3> QED BY <1>2, <2>2, <3>1, <3>2
  <2> QED BY <1>1, <1>4, <2>1, <2>2 DEF ApartOf, Live
<1>5. CASE c = n
  <2>1. ASSUME NEW d \in DOMAIN calls', calls'[d].id = id
        PROVE  /\ Brings(c)' /\ Brings(d)' => c = d
               /\ ~(Removes(c)' /\ (Brings(d)' \/ Claims(d)'))
    <3>1. CASE d \in DOMAIN calls
      BY <1>1, <1>2, <1>5, <2>1, <3>1
    <3>2. CASE d = n
      BY <1>2, <1>3, <1>5, <2>1, <3>2
    <3> QED BY <1>2, <2>1, <3>1, <3>2
  <2>2. /\ Claims(c)' => sessions'[calls'[c].id] = calls'[c].obj /\ calls'[c].id \notin deleted'
        /\ Brings(c)' => ~Live(id)
        /\ Removes(c)' /\ calls'[c].obj = 0 => ~Live(id)
        /\ Brings(c)' /\ calls'[c].id \in deleted' => Is(c, "open", "header")'
    BY <1>2, <1>5 DEF Live
  <2> QED BY <1>2, <1>5, <2>1, <2>2 DEF ApartOf, Live
<1> QED BY <1>2, <1>4, <1>5

EverApart == Apart /\ DeletedUncrossed

LEMMA ApartStep ==
  ASSUME Basic, ClaimsInv, IdsInv, EverApart, [Next]_vars
  PROVE  EverApart'
<1> USE DEF EverApart
<1>1. ASSUME UNCHANGED <<stored, sessions, deleted, crossed>>
      PROVE  DeletedUncrossed'
  BY <1>1 DEF DeletedUncrossed, Live
<1>2. ASSUME UNCHANGED <<stored, sessions, deleted>>, crossed \subseteq crossed'
      PROVE  DeletedUncrossed'
  BY <1>2 DEF DeletedUncrossed, Live
<1>3. ASSUME UNCHANGED <<calls, sessions, deleted, crossed>>
      PROVE  Apart'
  BY <1>3, ApartFrame DEF Lessen, Claims, Brings, Removes, Is
<1>4. ASSUME NEW id \in Ids, CreateSession(id)
      PROVE  EverApart'
  <2>1. PICK n : CallComes(n, "create", id, "create")
    BY <1>4, CreateEffect
  <2>2. UNCHANGED <<stored, sessions, deleted, crossed>> /\ ~Known(id) /\ id \notin InFlight("create")
    BY <1>4 DEF CreateSession
  <2>3. ~Live(id) /\ id \notin deleted /\ \A d \in DOMAIN calls : calls[d].id # id
    <3>1. \A d \in DOMAIN calls : calls[d].id = id => calls[d].verb = "create"
      BY <2>2 DEF IdsInv, InUse
    <3>2. \A d \in DOMAIN calls : calls[d].id = id => calls[d].at = "create"
      BY <2>2, <3>1 DEF Known
    <3> QED BY <2>2, <3>1, <3>2 DEF IdsInv, InUse, InFlight
  <2>4. ~Claims(n)' /\ ~Removes(n)'
    BY <2>1 DEF CallComes, Claims, Removes, Is
  <2> QED BY <1>1, <2>1, <2>2, <2>3, <2>4, ApartCome
<1>5. ASSUME NEW id \in Ids, OpenSession(id)
      PROVE  EverApart'
  <2>1. PICK n : CallComes(n, "open", id, "header")
    BY <1>5, OpenEffect
  <2>2. UNCHANGED <<stored, sessions, deleted>> /\ ~Live(id) /\ id \notin InFlight("open")
        /\ Crosses(id, {"create", "delete"})
    BY <1>5 DEF OpenSession
  <2>3. crossed \subseteq crossed'
        /\ (id \notin crossed' => id \notin InFlight("create") /\ id \notin InFlight("delete"))
    BY <2>2, CrossesGrow
  <2>4. ~Claims(n)' /\ ~Removes(n)' /\ Is(n, "open", "header")'
    BY <2>1 DEF CallComes, Claims, Removes, Is
  <2>5. ASSUME id \notin crossed', NEW d \in DOMAIN calls, calls[d].id = id
        PROVE  ~Brings(d) /\ ~Removes(d)
    <3>1. Named(d)
      BY DEF Basic, CallsNamed
    <3> QED BY <2>2, <2>3, <2>5, <3>1, NoneCollided DEF Brings, Removes, Is, InFlight
  <2> QED BY <1>2, <2>1, <2>2, <2>3, <2>4, <2>5, ApartCome
<1>6. ASSUME NEW id \in Ids, DeleteSession(id)
      PROVE  EverApart'
  <2>1. PICK n : CallComes(n, "delete", id, "rm")
    BY <1>6, DeleteEffect
  <2>2. UNCHANGED <<stored, sessions, deleted>> /\ (Live(id) => ~IsBusy(sessions[id]))
        /\ Crosses(id, {"create", "open"})
    BY <1>6 DEF DeleteSession
  <2>3. crossed \subseteq crossed'
        /\ (id \notin crossed' => id \notin InFlight("create") /\ id \notin InFlight("open"))
    BY <2>2, CrossesGrow
  <2>4. ~Claims(n)' /\ ~Brings(n)'
    BY <2>1 DEF CallComes, Claims, Brings
  <2>5. ASSUME id \notin crossed', NEW d \in DOMAIN calls, calls[d].id = id
        PROVE  ~Brings(d) /\ ~Claims(d)
    <3>1. ~Brings(d)
      BY <2>3, <2>5, NoneCollided DEF Brings, InFlight
    <3>2. ~Claims(d)
      <4> SUFFICES ASSUME Claims(d)
                   PROVE  FALSE
        OBVIOUS
      <4>1. sessions[id] = calls[d].obj
        BY <2>3, <2>5 DEF Apart, ApartOf
      <4>2. calls[d].obj # 0 /\ calls[d].obj \in DOMAIN objs
        BY PromptObj DEF Claims, Basic, CallsNamed, Named
      <4>3. ~objs[calls[d].obj].starting
        BY <2>2, <4>1, <4>2 DEF Live, IsBusy
      <4> QED BY <4>2, <4>3, FreeUnclaimed
    <3> QED BY <3>1, <3>2
  <2> QED BY <1>2, <2>1, <2>2, <2>3, <2>4, <2>5, ApartCome
<1>7. ASSUME NEW id \in Ids, Prompt(id)
      PROVE  EverApart'
  <2>1. PICK n : CallComes(n, "prompt", id, "content")
    BY <1>7, PromptEffect
  <2>2. UNCHANGED <<stored, sessions, deleted>> /\ Live(id) /\ Crosses(id, {"delete"})
    BY <1>7 DEF Prompt
  <2>3. crossed \subseteq crossed' /\ (id \notin crossed' => id \notin InFlight("delete"))
    BY <2>2, CrossesGrow
  <2>4. ~Removes(n)' /\ ~Brings(n)'
    BY <2>1 DEF CallComes, Removes, Brings, Is
  <2>5. id \notin crossed' => id \notin deleted
    BY <2>2, <2>3 DEF DeletedUncrossed
  <2>6. id \notin crossed' => \A d \in DOMAIN calls : calls[d].id = id => ~Removes(d)
    BY <2>3 DEF Removes, Is, InFlight
  <2> QED BY <1>2, <2>1, <2>2, <2>3, <2>4, <2>5, <2>6, ApartCome
<1>8. ASSUME NEW id \in Ids, RewindTo(id)
      PROVE  EverApart'
  <2>1. PICK n : CallComes(n, "rewind", id, "list")
    BY <1>8, RewindEffect
  <2>2. UNCHANGED <<stored, sessions, deleted, crossed>>
    BY <1>8 DEF RewindTo
  <2>3. ~Removes(n)' /\ ~Brings(n)' /\ ~Claims(n)'
    BY <2>1 DEF CallComes, Removes, Brings, Claims, Is
  <2> QED BY <1>1, <2>1, <2>2, <2>3, ApartCome
<1>9. ASSUME NEW id \in Ids, Abort(id) \/ Steer(id) \/ RunWorkflow(id) \/ WorkflowEnds(id)
      PROVE  EverApart'
  <2>1. UNCHANGED <<calls, stored, sessions, deleted, crossed>>
    BY <1>9 DEF Abort, Steer, RunWorkflow, WorkflowEnds
  <2> QED BY <1>1, <1>3, <2>1
<1>10. ASSUME NEW c \in DOMAIN calls, FileCreated(c)
       PROVE  EverApart'
  <2>1. CallMoves(c, "build")
    BY <1>10, FileCreatedEffect
  <2>2. UNCHANGED <<sessions, deleted, crossed>> /\ stored' = stored \cup {calls[c].id}
        /\ Is(c, "create", "create")
    BY <1>10 DEF FileCreated
  <2>3. Lessen
    BY <2>1, <2>2 DEF CallMoves, CallGoes, Lessen, Claims, Brings, Removes, Is
  <2>4. calls[c].id \notin deleted \ crossed
    BY <2>2 DEF Apart, ApartOf, Brings, Is
  <2>5. DeletedUncrossed'
    BY <2>2, <2>4 DEF DeletedUncrossed, Live
  <2> QED BY <2>2, <2>3, <2>5, ApartFrame
<1>11. ASSUME NEW c \in DOMAIN calls,
              ContentRefused(c) \/ RewindListed(c) \/ FilesOnly(c) \/ Swapped(c)
       PROVE  EverApart'
  <2>1. PICK at \in {"failed", "restore", "done"} : CallMoves(c, at)
    BY <1>11, ContentRefusedEffect, RewindListedEffect, FilesOnlyEffect, SwappedEffect
  <2>2. UNCHANGED <<stored, sessions, deleted, crossed>> /\ calls[c].verb \in {"prompt", "rewind"}
        /\ (Is(c, "prompt", "content") \/ calls[c].verb = "rewind")
    BY <1>11 DEF ContentRefused, RewindListed, FilesOnly, Swapped, Is
  <2>3. Lessen
    BY <2>1, <2>2 DEF CallMoves, CallGoes, Lessen, Claims, Brings, Removes, Is
  <2> QED BY <1>1, <2>2, <2>3, ApartFrame
<1>12. ASSUME NEW c \in DOMAIN calls, ContentReady(c) \/ RunEnds(c)
       PROVE  EverApart'
  <2>1. UNCHANGED <<stored, sessions, deleted, crossed>> /\ Claims(c)
    BY <1>12 DEF ContentReady, RunEnds, Claims, Is
  <2>2. PICK at : \E n : CallGoes(c, at, n)
    <3>1. CASE ContentReady(c)
      BY <3>1, ContentReadyEffect DEF CallMoves
    <3>2. CASE RunEnds(c)
      <4>1. CallMoves(c, "done")
        BY <3>2, MovesIs, StagesAre DEF RunEnds, Basic
      <4> QED BY <4>1 DEF CallMoves
    <3> QED BY <1>12, <3>1, <3>2
  <2>3. Lessen
    BY <2>1, <2>2 DEF CallGoes, Lessen, Claims, Brings, Removes, Is
  <2> QED BY <1>1, <2>1, <2>3, ApartFrame
<1>13. ASSUME NEW c \in DOMAIN calls, OpenReads(c)
       PROVE  EverApart'
  <2>1. UNCHANGED <<stored, sessions, deleted, crossed>>
        /\ calls[c].verb = "open" /\ calls[c].at \in {"header", "entries"}
    BY <1>13 DEF OpenReads, Is
  <2>2. CASE CallMoves(c, "failed")
    <3>1. Lessen
      BY <2>1, <2>2 DEF CallMoves, CallGoes, Lessen, Claims, Brings, Removes, Is
    <3> QED BY <1>1, <2>1, <3>1, ApartFrame
  <2>3. CASE calls[c].id \in stored /\ (CallMoves(c, "entries") \/ CallMoves(c, "build"))
    <3>1. calls[c].id \notin deleted \ crossed
      BY <2>3 DEF DeletedUncrossed
    <3>2. DOMAIN calls' = DOMAIN calls /\ \A d \in DOMAIN calls :
            /\ calls'[d].id = calls[d].id /\ calls'[d].obj = calls[d].obj
            /\ Claims(d)' <=> Claims(d)
            /\ Brings(d)' <=> Brings(d)
            /\ Removes(d)' <=> Removes(d)
            /\ d # c /\ Is(d, "open", "header") => Is(d, "open", "header")'
      BY <2>1, <2>3 DEF CallMoves, CallGoes, Claims, Brings, Removes, Is
    <3>3. ASSUME NEW d \in DOMAIN calls', calls'[d].id \notin crossed'
          PROVE  ApartOf(d)'
      <4>1. ApartOf(d) /\ d \in DOMAIN calls
        BY <2>1, <3>2, <3>3 DEF Apart
      <4>2. d = c => calls[d].id \notin deleted
        BY <2>1, <3>1, <3>2, <3>3
      <4> QED BY <2>1, <3>2, <4>1, <4>2 DEF ApartOf, Live
    <3>4. Apart'
      BY <3>3 DEF Apart
    <3> QED BY <1>1, <2>1, <3>4
  <2> QED BY <1>13, <2>2, <2>3, OpenReadsEffect
<1>14. ASSUME NEW c \in DOMAIN calls, Registered(c)
       PROVE  EverApart'
  <2> DEFINE id == calls[c].id
             o == Len(objs) + 1
  <2>1. CallMoves(c, "done") /\ sessions' = [sessions EXCEPT ![id] = o]
    BY <1>14, RegisteredEffect
  <2>2. UNCHANGED <<stored, deleted, crossed>> /\ Brings(c) /\ ~Is(c, "open", "header")
    BY <1>14 DEF Registered, Brings, Is
  <2>3. Lessen
    BY <2>1, <2>2 DEF CallMoves, CallGoes, Lessen, Claims, Brings, Removes, Is
  <2>4. ~Brings(c)'
    BY <2>1 DEF CallMoves, CallGoes, Brings
  <2>5. id \notin crossed =>
          /\ id \notin deleted
          /\ \A d \in DOMAIN calls : calls[d].id = id =>
               ~Brings(d)' /\ ~Claims(d) /\ ~Removes(d)
    <3>1. ASSUME id \notin crossed, NEW d \in DOMAIN calls, calls[d].id = id
          PROVE  ~Brings(d)' /\ ~Claims(d) /\ ~Removes(d)
      <4>1. ApartOf(c) /\ ApartOf(d)
        BY <3>1 DEF Apart
      <4>2. Brings(d) => d = c
        BY <2>2, <3>1, <4>1 DEF ApartOf
      <4>3. ~Removes(d)
        BY <2>2, <3>1, <4>1 DEF ApartOf
      <4>4. sessions[id] = 0
        BY <2>2, <4>1 DEF ApartOf, Live
      <4>5. ~Claims(d)
        BY <3>1, <4>1, <4>4 DEF ApartOf, Claims, Basic, CallsNamed, Named
      <4> QED BY <2>3, <2>4, <4>2, <4>3, <4>5 DEF Lessen
    <3>2. id \notin crossed => id \notin deleted
      BY <2>2 DEF Apart, ApartOf
    <3> QED BY <3>1, <3>2
  <2> HIDE DEF id, o
  <2>6. \A i \in Ids : i # id => (Live(i)' <=> Live(i)) /\ sessions'[i] = sessions[i]
    BY <2>1 DEF Live, Basic, Shapes
  <2>7. ASSUME NEW d \in DOMAIN calls', calls'[d].id \notin crossed'
        PROVE  ApartOf(d)'
    <3>1. ApartOf(d) /\ d \in DOMAIN calls /\ calls'[d].id = calls[d].id
      BY <2>2, <2>3, <2>7 DEF Apart, Lessen
    <3>2. CASE calls[d].id = id
      <4>1. ~Brings(d)' /\ ~Claims(d)' /\ ~Removes(d)'
        BY <2>2, <2>3, <2>5, <2>7, <3>1, <3>2 DEF Lessen
      <4> QED BY <4>1 DEF ApartOf
    <3>3. CASE calls[d].id # id
      <4>1. (Live(calls[d].id)' <=> Live(calls[d].id))
        BY <2>3, <2>6, <3>1, <3>3, CallIs DEF Live
      <4>2. sessions'[calls'[d].id] = sessions[calls[d].id]
        BY <2>6, <3>1, <3>3, CallIs
      <4> QED BY <2>2, <2>3, <3>1, <4>1, <4>2 DEF ApartOf, Lessen, Live
    <3> QED BY <3>2, <3>3
  <2>8. DeletedUncrossed'
    <3>1. \A i \in deleted' \ crossed' : i # id
      BY <2>2, <2>5
    <3>2. deleted \subseteq Ids
      BY DEF Basic, Shapes
    <3> QED BY <2>2, <2>6, <3>1, <3>2 DEF DeletedUncrossed
  <2> QED BY <2>7, <2>8 DEF Apart
<1>15. ASSUME NEW c \in DOMAIN calls, Deleted(c)
       PROVE  EverApart'
  <2> DEFINE id == calls[c].id
             o == calls[c].obj
  <2>1. /\ \/ CallMoves(c, "failed") /\ deleted' = deleted /\ o = 0
           \/ CallMoves(c, "done") /\ deleted' = deleted \cup {id}
        /\ \/ o = 0 /\ UNCHANGED sessions
           \/ o # 0 /\ sessions' = [sessions EXCEPT ![id] = 0]
    BY <1>15, DeletedEffect
  <2>2. UNCHANGED crossed /\ stored' = stored \ {id} /\ Removes(c)
    BY <1>15 DEF Deleted, Removes
  <2>3. Lessen
    BY <2>1, <2>2 DEF CallMoves, CallGoes, Lessen, Claims, Brings, Removes, Is
  <2>4. ASSUME id \notin crossed
        PROVE  /\ sessions'[id] = 0
               /\ \A d \in DOMAIN calls : calls[d].id = id => ~Brings(d) /\ ~Claims(d)
    <3>1. ApartOf(c)
      BY <2>4 DEF Apart
    <3>2. o = 0 => ~Live(id)
      BY <2>2, <3>1 DEF ApartOf
    <3>3. id \in Ids
      BY CallIs
    <3>4. sessions'[id] = 0
      BY <2>1, <3>2, <3>3 DEF Live, Basic, Shapes
    <3> QED BY <2>2, <3>1, <3>4 DEF ApartOf
  <2> HIDE DEF id, o
  <2>5. \A i \in Ids : i # id => sessions'[i] = sessions[i] /\ (i \in deleted' <=> i \in deleted)
    <3>1. \A i \in Ids : i # id => sessions'[i] = sessions[i]
      BY <2>1 DEF Basic, Shapes
    <3>2. \A i \in Ids : i # id => (i \in deleted' <=> i \in deleted)
      BY <2>1
    <3> QED BY <3>1, <3>2
  <2>6. ASSUME NEW d \in DOMAIN calls', calls'[d].id \notin crossed'
        PROVE  ApartOf(d)'
    <3>1. ApartOf(d) /\ d \in DOMAIN calls /\ calls'[d].id = calls[d].id
      BY <2>2, <2>3, <2>6 DEF Apart, Lessen
    <3>2. CASE calls[d].id = id
      <4>1. \A e \in DOMAIN calls : calls[e].id = id => ~Brings(e)' /\ ~Claims(e)'
        BY <2>2, <2>3, <2>4, <2>6, <3>1, <3>2 DEF Lessen
      <4>2. sessions'[calls'[d].id] = 0
        BY <2>2, <2>4, <2>6, <3>1, <3>2
      <4> QED BY <2>3, <3>1, <3>2, <4>1, <4>2 DEF ApartOf, Lessen, Live
    <3>3. CASE calls[d].id # id
      <4>1. sessions'[calls'[d].id] = sessions[calls[d].id]
            /\ (calls[d].id \in deleted' <=> calls[d].id \in deleted)
        BY <2>5, <3>1, <3>3, CallIs
      <4> QED BY <2>3, <3>1, <4>1 DEF ApartOf, Lessen, Live
    <3> QED BY <3>2, <3>3
  <2>7. ASSUME NEW i \in deleted' \ crossed'
        PROVE  i \notin stored' /\ sessions'[i] = 0
    <3>1. CASE i = id
      BY <2>2, <2>4, <2>7, <3>1
    <3>2. CASE i # id
      <4>1. deleted \subseteq Ids /\ id \in Ids
        BY CallIs DEF Basic, Shapes, id
      <4>2. i \in deleted \ crossed /\ sessions'[i] = sessions[i]
        BY <2>1, <2>2, <2>5, <2>7, <3>2, <4>1
      <4> QED BY <2>2, <4>2 DEF DeletedUncrossed, Live
    <3> QED BY <3>1, <3>2
  <2> QED BY <2>6, <2>7 DEF Apart, DeletedUncrossed, Live
<1>16. ASSUME NEW a \in DOMAIN agents, RunOpens(a)
       PROVE  EverApart'
  <2>1. UNCHANGED <<calls, sessions, deleted, crossed>> /\ stored' = stored \cup {IdOf(a)} /\ Active(a)
    BY <1>16 DEF RunOpens, Active
  <2>2. PICK c \in DOMAIN calls : RunsOn(c, a)
    BY <2>1 DEF ClaimsInv, OneClaim
  <2>3. Claims(c) /\ calls[c].obj = agents[a].obj /\ calls[c].obj # 0
    BY <2>2 DEF ClaimsInv, OneClaim, RunsOn, Claims, Is, Basic, CallsNamed, Named
  <2>4. IdOf(a) = calls[c].id
    BY <2>3 DEF IdOf, Basic, CallsNamed, Named
  <2>5. IdOf(a) \notin deleted \ crossed
    BY <2>3, <2>4 DEF Apart, ApartOf
  <2>6. DeletedUncrossed'
    BY <2>1, <2>5 DEF DeletedUncrossed, Live
  <2> QED BY <1>3, <2>1, <2>6
<1>17. ASSUME NEW a \in DOMAIN agents, Ask(a) \/ Decide(a) \/ TimesOut(a)
       PROVE  EverApart'
  <2>1. UNCHANGED <<calls, stored, sessions, deleted, crossed>>
    BY <1>17 DEF Ask, Decide, TimesOut, Settle
  <2> QED BY <1>1, <1>3, <2>1
<1>18. ASSUME NEW o \in DOMAIN objs, SteerSettles(o)
       PROVE  EverApart'
  <2>1. UNCHANGED <<calls, stored, sessions, deleted, crossed>>
    BY <1>18 DEF SteerSettles
  <2> QED BY <1>1, <1>3, <2>1
<1>19. CASE UNCHANGED vars \/ \E o \in DOMAIN objs : SteerStarts(o)
  <2>1. UNCHANGED <<calls, stored, sessions, deleted, crossed>>
    BY <1>19 DEF vars, SteerStarts
  <2> QED BY <1>1, <1>3, <2>1
<1> QED BY <1>4, <1>5, <1>6, <1>7, <1>8, <1>9, <1>10, <1>11, <1>12, <1>13, <1>14, <1>15, <1>16,
           <1>17, <1>18, <1>19 DEF Next, Client, CallProceeds

-----------------------------------------------------------------------------
(* Only the agent its session holds runs on unaborted. *)

LEMMA CurrentFrame ==
  ASSUME Basic, Current,
         \A a \in DOMAIN agents' : agents'[a].state # "idle" =>
           /\ a \in DOMAIN agents /\ agents'[a].obj = agents[a].obj
           /\ agents[a].state # "idle"
           /\ agents[a].aborted => agents'[a].aborted,
         \A o \in DOMAIN objs : objs'[o].agent = objs[o].agent
  PROVE  Current'
<1> SUFFICES ASSUME NEW a \in DOMAIN agents', Active(a)', ~agents'[a].aborted
             PROVE  objs'[agents'[a].obj].agent = a
  BY DEF Current, AgentOf
<1>1. /\ a \in DOMAIN agents /\ agents'[a].obj = agents[a].obj /\ Active(a) /\ ~agents[a].aborted
      /\ agents[a].obj \in DOMAIN objs
  BY DEF Active, Basic, Wiring
<1> QED BY <1>1 DEF Current, AgentOf

LEMMA CurrentStep ==
  ASSUME Basic, ClaimsInv, Current, [Next]_vars
  PROVE  Current'
<1>1. ASSUME UNCHANGED <<agents, objs>>
      PROVE  Current'
  BY <1>1 DEF Current, Active, AgentOf
<1>2. ASSUME NEW id \in Ids, Client(id) \/ WorkflowEnds(id)
      PROVE  Current'
  <2>1. \/ UNCHANGED <<agents, objs>>
        \/ UNCHANGED agents /\ \A o \in DOMAIN objs : objs'[o].agent = objs[o].agent
        \/ UNCHANGED objs /\ AbortsOf(sessions[id])
    <3>1. CASE Prompt(id)
      BY <3>1, PromptEffect DEF Prompt, Claimed
    <3>2. CASE Steer(id)
      BY <3>2, SteerEffect DEF Steer, Chained
    <3>3. CASE Abort(id)
      BY <3>3, AbortEffect DEF Abort
    <3>4. CASE \/ CreateSession(id) \/ OpenSession(id) \/ DeleteSession(id) \/ RewindTo(id)
               \/ RunWorkflow(id) \/ WorkflowEnds(id)
      BY <3>4 DEF CreateSession, OpenSession, DeleteSession, RewindTo, RunWorkflow, WorkflowEnds
    <3> QED BY <1>2, <3>1, <3>2, <3>3, <3>4 DEF Client
  <2> QED BY <1>1, <2>1, CurrentFrame DEF AbortsOf, AgentsStay
<1>3. ASSUME NEW c \in DOMAIN calls,
             FileCreated(c) \/ OpenReads(c) \/ RewindListed(c) \/ FilesOnly(c)
      PROVE  Current'
  BY <1>1, <1>3 DEF FileCreated, OpenReads, RewindListed, FilesOnly
<1>4. ASSUME NEW c \in DOMAIN calls, Registered(c)
      PROVE  Current'
  <2>1. PICK o, n, id : ObjComes(o, id, n) /\ AgentComes(n, o)
    BY <1>4, RegisteredEffect
  <2> QED BY <2>1, CurrentFrame DEF ObjComes, AgentComes
<1>5. ASSUME NEW c \in DOMAIN calls, Deleted(c)
      PROVE  Current'
  <2>1. UNCHANGED objs /\ (UNCHANGED agents \/ AbortsOf(calls[c].obj))
    BY <1>5, DeletedEffect DEF Deleted
  <2> QED BY <1>1, <2>1, CurrentFrame DEF AbortsOf, AgentsStay
<1>6. ASSUME NEW c \in DOMAIN calls, ContentRefused(c)
      PROVE  Current'
  BY <1>6, ContentRefusedEffect, CurrentFrame DEF Claimed, ContentRefused
<1>7. ASSUME NEW c \in DOMAIN calls, RunEnds(c)
      PROVE  Current'
  <2>1. RunMoves(calls[c].agent, "idle", FALSE) /\ Claimed(calls[c].obj, FALSE)
    BY <1>7, RunEndsEffect DEF RunEnds, ClaimsInv, OneClaim
  <2> QED BY <2>1, CurrentFrame DEF RunMoves, AgentsStay, Claimed
<1>8. ASSUME NEW c \in DOMAIN calls, ContentReady(c)
      PROVE  Current'
  <2> DEFINE n == AgentOf(calls[c].obj)
  <2>1. calls[c].obj \in DOMAIN objs /\ agents[n].obj = calls[c].obj
    BY <1>8, PromptObj DEF ContentReady, Is, Basic, Wiring
  <2>2. CASE UNCHANGED agents /\ Claimed(calls[c].obj, FALSE)
    BY <2>2, CurrentFrame DEF Claimed
  <2>3. CASE RunMoves(n, "starting", FALSE) /\ UNCHANGED objs
    <3>1. ASSUME NEW a \in DOMAIN agents', Active(a)', ~agents'[a].aborted
          PROVE  objs'[agents'[a].obj].agent = a
      <4>1. CASE a = n
        BY <2>1, <2>3, <4>1 DEF RunMoves, AgentsStay, AgentOf
      <4>2. CASE a # n
        BY <2>3, <3>1, <4>2 DEF RunMoves, AgentsStay, Current, Active, AgentOf
      <4> QED BY <4>1, <4>2
    <3> QED BY <3>1 DEF Current, AgentOf
  <2> QED BY <1>8, <2>2, <2>3, ContentReadyEffect
<1>9. ASSUME NEW c \in DOMAIN calls, Swapped(c)
      PROVE  Current'
  <2> DEFINE o == calls[c].obj
             n == Len(agents) + 1
  <2>1. /\ AgentComes(n, o) /\ Rewired(o, n)
        /\ Active(AgentOf(o)) => agents'[AgentOf(o)].aborted
    BY <1>9, SwappedEffect
  <2> HIDE DEF o, n
  <2>2. ASSUME NEW a \in DOMAIN agents', Active(a)', ~agents'[a].aborted
        PROVE  objs'[agents'[a].obj].agent = a
    <3>1. /\ a \in DOMAIN agents /\ agents'[a].obj = agents[a].obj /\ Active(a) /\ ~agents[a].aborted
          /\ agents[a].obj \in DOMAIN objs /\ AgentOf(agents[a].obj) = a
      BY <2>1, <2>2 DEF AgentComes, Active, Basic, Wiring, Current
    <3>2. agents[a].obj # o
      BY <2>1, <2>2, <3>1
    <3> QED BY <2>1, <3>1, <3>2 DEF Rewired, AgentOf
  <2> QED BY <2>2 DEF Current, AgentOf
<1>10. ASSUME NEW a \in DOMAIN agents, RunOpens(a) \/ Ask(a) \/ Decide(a) \/ TimesOut(a)
       PROVE  Current'
  <2>1. \E s : RunMoves(a, s, agents[a].aborted)
    BY <1>10, RunOpensEffect, AskEffect DEF Decide, TimesOut
  <2>2. UNCHANGED objs /\ Active(a)
    BY <1>10 DEF RunOpens, Ask, Decide, TimesOut, Settle, Active
  <2> QED BY <2>1, <2>2, CurrentFrame DEF RunMoves, AgentsStay, Active
<1>11. ASSUME NEW o \in DOMAIN objs, SteerSettles(o)
       PROVE  Current'
  BY <1>11, SettlesEffect, CurrentFrame DEF Chained, Hears, AgentsStay
<1>12. CASE UNCHANGED vars \/ \E o \in DOMAIN objs : SteerStarts(o)
  BY <1>1, <1>12 DEF vars, SteerStarts
<1> QED BY <1>2, <1>3, <1>4, <1>5, <1>6, <1>7, <1>8, <1>9, <1>10, <1>11, <1>12 DEF Next, CallProceeds

-----------------------------------------------------------------------------
(* Steers keep their order. *)

\* The chains and what was heard stand; sessions and agents at most join.
ChainsStay ==
  /\ DOMAIN objs \subseteq DOMAIN objs'
  /\ \A o \in DOMAIN objs : objs'[o].chain = objs[o].chain
  /\ \A o \in DOMAIN objs' \ DOMAIN objs : objs'[o].chain = <<>>

HeardStays ==
  /\ DOMAIN agents \subseteq DOMAIN agents'
  /\ \A a \in DOMAIN agents :
       agents'[a].heard = agents[a].heard /\ agents'[a].obj = agents[a].obj
  /\ \A a \in DOMAIN agents' \ DOMAIN agents : agents'[a].heard = <<>>

LEMMA SteersFrame ==
  ASSUME Basic, SteersInv, Wiring', UNCHANGED <<steers, taken>>, ChainsStay, HeardStays
  PROVE  SteersInv'
<1>0. DOMAIN <<>> = {}
  OBVIOUS
<1>1. ASSUME NEW o \in DOMAIN objs'
      PROVE  Ordered(o)'
  BY <1>0 DEF SteersInv, Ordered, ChainsStay
<1>2. ASSUME NEW a \in DOMAIN agents'
      PROVE  Before(a)'
  <2>1. CASE a \notin DOMAIN agents
    BY <1>0, <2>1 DEF Before, HeardStays
  <2>2. CASE a \in DOMAIN agents
    <3>1. Before(a) /\ agents[a].obj \in DOMAIN objs
      BY <2>2 DEF SteersInv, Wiring, Basic
    <3> QED BY <2>2, <3>1 DEF Before, HeardStays, ChainsStay
  <2> QED BY <2>1, <2>2
<1>3. SteersInOrder'
  BY <1>0 DEF SteersInv, SteersInOrder, HeardStays
<1>4. TakenInv'
  <2>1. taken \subseteq (DOMAIN objs) \X (DOMAIN agents)
    BY DEF SteersInv, TakenInv
  <2>2. taken' \subseteq (DOMAIN objs') \X (DOMAIN agents')
    BY <2>1 DEF HeardStays, ChainsStay
  <2>3. \A o, a : <<o, a>> \in taken' => o \in DOMAIN objs /\ a \in DOMAIN agents /\ <<o, a>> \in taken
    BY <2>1
  <2>4. ASSUME NEW a \in DOMAIN agents, Unheard(a)
        PROVE  Unheard(a)'
    BY <2>4 DEF Unheard, HeardStays
  <2> QED BY <2>2, <2>3, <2>4 DEF SteersInv, TakenInv, HeardStays
<1> QED BY <1>1, <1>2, <1>3, <1>4 DEF SteersInv

LEMMA QueuesAre ==
  ASSUME Basic
  PROVE  /\ \A o \in DOMAIN objs : objs[o].chain \in Seq(Nat)
         /\ \A a \in DOMAIN agents : agents[a].heard \in Seq(Nat)
         /\ steers \in Nat
<1>1. \A o \in DOMAIN objs : objs[o] \in ObjShapes
  BY DomIs DEF Basic, Shapes
<1>2. \A a \in DOMAIN agents : agents[a] \in AgentShapes
  BY DomIs DEF Basic, Shapes
<1> QED BY <1>1, <1>2 DEF ObjShapes, AgentShapes, Basic, Shapes

LEMMA SteersStep ==
  ASSUME Basic, SteersInv, [Next]_vars, Basic', ClaimsInv, Newest
  PROVE  SteersInv'
<1> USE DEF Basic
<1>1. ASSUME NEW id \in Ids, Steer(id)
      PROVE  SteersInv'
  <2> DEFINE o == sessions[id]
             s == objs[o].chain
             t == Append(s, steers + 1)
  <2>1. Chained(o, t) /\ steers' = steers + 1 /\ UNCHANGED agents
    BY <1>1, SteerEffect DEF Steer
  <2>2. o \in DOMAIN objs /\ s \in Seq(Nat) /\ steers \in Nat
    BY <2>1, QueuesAre DEF Chained
  <2>3. /\ DOMAIN t = DOMAIN s \cup {Len(s) + 1} /\ Len(s) + 1 \notin DOMAIN s
        /\ \A i \in DOMAIN s : t[i] = s[i] /\ s[i] \in Nat /\ s[i] <= steers /\ i \in Nat /\ i <= Len(s)
        /\ t[Len(s) + 1] = steers + 1
        /\ Len(s) \in Nat
    <3>1. \A i \in DOMAIN s : s[i] <= steers
      BY <2>2 DEF SteersInv, Ordered
    <3> HIDE DEF s, o
    <3> QED BY <2>2, <3>1, AppendIs, DomIs
  <2>4. \A i, j \in DOMAIN s : i < j => s[i] < s[j]
    BY <2>2 DEF SteersInv, Ordered
  <2>5. DOMAIN objs' = DOMAIN objs /\ \A p \in DOMAIN objs :
          objs'[p].chain = IF p = o THEN t ELSE objs[p].chain
    BY <2>1 DEF Chained, ObjsStay
  <2> HIDE DEF s, t, o
  <2>6. /\ \A i \in DOMAIN t : t[i] <= steers + 1
        /\ \A i, j \in DOMAIN t : i < j => t[i] < t[j]
    BY <2>2, <2>3, <2>4
  <2>7. ASSUME NEW p \in DOMAIN objs'
        PROVE  Ordered(p)'
    <3>1. CASE p = o
      BY <2>1, <2>2, <2>5, <2>6, <3>1 DEF Ordered
    <3>2. CASE p # o
      <4>1. Ordered(p) /\ objs[p].chain \in Seq(Nat) /\ objs'[p].chain = objs[p].chain
        BY <2>5, <2>7, <3>2, QueuesAre DEF SteersInv
      <4>2. \A i \in DOMAIN objs[p].chain : objs[p].chain[i] \in Nat
        BY <4>1, DomIs
      <4> QED BY <2>1, <2>2, <4>1, <4>2 DEF Ordered
    <3> QED BY <3>1, <3>2
  <2>8. ASSUME NEW a \in DOMAIN agents'
        PROVE  Before(a)'
    <3> DEFINE h == agents[a].heard
               q == agents[a].obj
    <3>1. a \in DOMAIN agents /\ Before(a) /\ q \in DOMAIN objs /\ agents' = agents
      BY <2>1, <2>8 DEF SteersInv, Wiring
    <3>2. h \in Seq(Nat) /\ \A i \in DOMAIN h : h[i] \in Nat
      BY <3>1, QueuesAre, DomIs
    <3>3. \A i \in DOMAIN h : h[i] <= steers + 1
      BY <2>2, <3>1, <3>2 DEF Before
    <3>4. \A i \in DOMAIN h : \A j \in DOMAIN objs'[q].chain : h[i] < objs'[q].chain[j]
      <4>1. CASE q = o
        <5>1. \A i \in DOMAIN h : h[i] <= steers /\ \A j \in DOMAIN s : h[i] < s[j]
          BY <3>1, <4>1 DEF Before, s
        <5>2. ASSUME NEW i \in DOMAIN h, NEW j \in DOMAIN t
              PROVE  h[i] < t[j]
          <6> HIDE DEF h
          <6>1. h[i] \in Nat /\ h[i] <= steers
            BY <3>2, <5>1
          <6>2. CASE j \in DOMAIN s
            BY <2>3, <5>1, <6>2
          <6>3. CASE j = Len(s) + 1
            BY <2>2, <2>3, <6>1, <6>3
          <6> QED BY <2>3, <6>2, <6>3
        <5>3. objs'[q].chain = t
          BY <2>5, <3>1, <4>1
        <5> QED BY <5>2, <5>3
      <4>2. CASE q # o
        BY <2>5, <3>1, <4>2 DEF Before
      <4> QED BY <4>1, <4>2
    <3> QED BY <2>1, <3>1, <3>3, <3>4 DEF Before
  <2>9. SteersInOrder'
    BY <2>1 DEF SteersInv, SteersInOrder
  <2>10. TakenInv'
    BY <1>1, <2>1, <2>5 DEF SteersInv, TakenInv, Unheard, Steer
  <2> QED BY <2>7, <2>8, <2>9, <2>10 DEF SteersInv
<1>2. ASSUME NEW o \in DOMAIN objs, SteerSettles(o)
      PROVE  SteersInv'
  <2> DEFINE s == objs[o].chain
             t == RemoveAt(s, 1)
  <2>0. PICK a \in DOMAIN agents : /\ <<o, a>> \in taken /\ taken' = taken \ {<<o, a>>}
                                  /\ Hears(a, s[1])
    BY <1>2, SettlesEffect
  <2> DEFINE h == agents[a].heard
  <2>1. 1 \in DOMAIN s /\ Chained(o, t) /\ Hears(a, s[1]) /\ UNCHANGED steers
    BY <1>2, <2>0, SettlesEffect DEF SteerSettles
  <2>2. a \in DOMAIN agents /\ agents[a].obj = o /\ s \in Seq(Nat) /\ h \in Seq(Nat) /\ steers \in Nat
    BY <2>0, QueuesAre DEF SteersInv, TakenInv
  <2>3. \A i \in DOMAIN s : s[i] \in Nat /\ i \in Nat /\ s[i] <= steers /\ i >= 1
    <3>1. \A i \in DOMAIN s : s[i] <= steers
      BY DEF SteersInv, Ordered
    <3> HIDE DEF s
    <3> QED BY <2>2, <3>1, DomIs
  <2>4. \A i, j \in DOMAIN s : i < j => s[i] < s[j]
    BY DEF SteersInv, Ordered
  <2>5. \A i \in DOMAIN t : i + 1 \in DOMAIN s /\ t[i] = s[i + 1] /\ i \in Nat /\ i >= 1
    <3> HIDE DEF s
    <3> QED BY <2>1, <2>2, RestIs
  <2>6. /\ \A i \in DOMAIN h : h[i] \in Nat /\ i \in Nat /\ i <= Len(h) /\ h[i] <= steers
        /\ \A i \in DOMAIN h : \A j \in DOMAIN s : h[i] < s[j]
        /\ \A i, j \in DOMAIN h : i < j => h[i] < h[j]
    <3>1. Before(a)
      BY <2>2 DEF SteersInv
    <3>2. \A i \in DOMAIN h : h[i] <= steers /\ \A j \in DOMAIN s : h[i] < s[j]
      BY <2>2, <3>1 DEF Before
    <3>3. \A i, j \in DOMAIN h : i < j => h[i] < h[j]
      BY <2>2 DEF SteersInv, SteersInOrder
    <3> HIDE DEF h
    <3> QED BY <2>2, <3>2, <3>3, DomIs
  <2>7. DOMAIN objs' = DOMAIN objs /\ \A p \in DOMAIN objs :
          objs'[p].chain = IF p = o THEN t ELSE objs[p].chain
    BY <2>1 DEF Chained, ObjsStay
  <2>8. /\ DOMAIN agents' = DOMAIN agents
        /\ \A b \in DOMAIN agents : agents'[b].obj = agents[b].obj
        /\ \A b \in DOMAIN agents : b # a => agents'[b].heard = agents[b].heard
        /\ agents'[a].heard = h \/ agents'[a].heard = Append(h, s[1])
    BY <2>1 DEF Hears, AgentsStay
  <2> HIDE DEF s, t, h
  <2>9. /\ \A i \in DOMAIN t : t[i] <= steers /\ s[1] < t[i]
        /\ \A i, j \in DOMAIN t : i < j => t[i] < t[j]
    BY SMTT(30), <2>1, <2>2, <2>3, <2>4, <2>5
  <2>10. ASSUME NEW p \in DOMAIN objs'
         PROVE  Ordered(p)'
    <3>1. CASE p = o
      BY <2>1, <2>7, <2>9, <3>1 DEF Ordered
    <3>2. CASE p # o
      BY <2>1, <2>7, <2>10, <3>2 DEF Ordered, SteersInv
    <3> QED BY <3>1, <3>2
  <2>11. /\ \A i \in DOMAIN agents'[a].heard :
              /\ agents'[a].heard[i] <= steers
              /\ \A j \in DOMAIN t : agents'[a].heard[i] < t[j]
         /\ \A i, j \in DOMAIN agents'[a].heard : i < j => agents'[a].heard[i] < agents'[a].heard[j]
    <3>1. CASE agents'[a].heard = h
      BY <2>3, <2>5, <2>6, <3>1
    <3>2. CASE agents'[a].heard = Append(h, s[1])
      <4>1. s[1] \in Nat /\ s[1] <= steers
        BY <2>1, <2>3
      <4>2. /\ DOMAIN agents'[a].heard = DOMAIN h \cup {Len(h) + 1} /\ Len(h) \in Nat
            /\ \A i \in DOMAIN h : agents'[a].heard[i] = h[i]
            /\ agents'[a].heard[Len(h) + 1] = s[1]
        BY <2>2, <3>2, <4>1, AppendIs, DomIs
      <4> QED BY <2>1, <2>3, <2>5, <2>6, <2>9, <4>1, <4>2
    <3> QED BY <2>8, <3>1, <3>2
  <2>12. ASSUME NEW b \in DOMAIN agents'
         PROVE  Before(b)'
    <3>1. b \in DOMAIN agents /\ agents'[b].obj = agents[b].obj /\ agents[b].obj \in DOMAIN objs
      BY <2>8, <2>12 DEF Wiring
    <3>2. CASE b = a
      BY <2>1, <2>2, <2>7, <2>8, <2>11, <3>1, <3>2 DEF Before
    <3>3. CASE b # a
      <4>1. Before(b) /\ agents'[b].heard = agents[b].heard
        BY <2>8, <3>1, <3>3 DEF SteersInv
      <4>2. CASE agents[b].obj = o
        <5>1. \A i \in DOMAIN agents[b].heard : \A j \in DOMAIN s : agents[b].heard[i] < s[j]
          BY <4>1, <4>2 DEF Before, s
        <5>2. \A i \in DOMAIN agents[b].heard : \A j \in DOMAIN t : agents[b].heard[i] < t[j]
          BY <2>5, <5>1
        <5> QED BY <2>1, <2>7, <3>1, <4>1, <4>2, <5>2 DEF Before
      <4>3. CASE agents[b].obj # o
        BY <2>1, <2>7, <3>1, <4>1, <4>3 DEF Before
      <4> QED BY <4>2, <4>3
    <3> QED BY <3>2, <3>3
  <2>13. ASSUME NEW b \in DOMAIN agents, NEW c \in DOMAIN agents, agents[b].obj = agents[c].obj,
                NEW i \in DOMAIN agents'[b].heard, NEW j \in DOMAIN agents'[c].heard,
                b < c \/ (b = c /\ i < j)
         PROVE  agents'[b].heard[i] < agents'[c].heard[j]
    <3>0. b \in Nat /\ c \in Nat /\ a \in Nat
      BY <2>2, <2>13, DomIs DEF Shapes
    <3>1. CASE b = a /\ c = a
      BY <2>11, <2>13, <3>0, <3>1
    <3>2. CASE b # a /\ c # a
      BY <2>8, <2>13, <3>2 DEF SteersInv, SteersInOrder
    <3>3. CASE b = a /\ c # a
      <4>1. agents[c].heard = <<>>
        BY <2>0, <2>2, <2>13, <3>0, <3>3 DEF SteersInv, TakenInv, Unheard
      <4> QED BY <2>8, <2>13, <3>3, <4>1
    <3>4. CASE b # a /\ c = a
      <4>1. i \in DOMAIN agents[b].heard /\ agents'[b].heard = agents[b].heard /\ agents[b].obj = o
        BY <2>2, <2>8, <2>13, <3>4
      <4>2. agents[b].heard[i] < s[1]
        BY <2>1, <2>2, <4>1 DEF SteersInv, Before, s
      <4>3. \A k \in DOMAIN h : agents[b].heard[i] < h[k]
        BY <2>2, <2>13, <3>0, <3>4, <4>1 DEF SteersInv, SteersInOrder, h
      <4>4. CASE agents'[a].heard = h
        BY <2>13, <3>4, <4>1, <4>3, <4>4
      <4>5. CASE agents'[a].heard = Append(h, s[1])
        <5>1. \/ j \in DOMAIN h /\ Append(h, s[1])[j] = h[j]
              \/ Append(h, s[1])[j] = s[1]
          <6>1. s[1] \in Nat
            BY <2>1, <2>3
          <6> QED BY <2>2, <2>13, <3>4, <4>5, <6>1, AppendIs
        <5> QED BY <3>4, <4>1, <4>2, <4>3, <4>5, <5>1
      <4> QED BY <2>8, <4>4, <4>5
    <3> QED BY <3>1, <3>2, <3>3, <3>4
  <2>14. SteersInOrder'
    BY <2>8, <2>13 DEF SteersInOrder
  <2>15. TakenInv'
    <3>1. /\ taken' \subseteq (DOMAIN objs') \X (DOMAIN agents')
          /\ \A p \in DOMAIN objs : \A b, c \in DOMAIN agents :
               <<p, b>> \in taken' /\ <<p, c>> \in taken' => b = c
          /\ \A b : <<o, b>> \notin taken'
      <4>1. \A b : <<o, b>> \in taken => b = a
        BY <2>0 DEF SteersInv, TakenInv
      <4> QED BY <2>0, <2>7, <2>8, <4>1 DEF SteersInv, TakenInv
    <3>2. ASSUME NEW p \in DOMAIN objs, NEW b \in DOMAIN agents, <<p, b>> \in taken'
          PROVE  agents[b].obj = p /\ Unheard(b)'
      <4>1. p # o /\ <<p, b>> \in taken
        BY <2>0, <3>1, <3>2
      <4>2. agents[b].obj = p /\ Unheard(b)
        BY <4>1 DEF SteersInv, TakenInv
      <4> QED BY <2>2, <2>8, <4>1, <4>2 DEF Unheard
    <3> QED BY <2>7, <2>8, <3>1, <3>2 DEF TakenInv
  <2> QED BY <2>10, <2>12, <2>14, <2>15 DEF SteersInv
<1>3. ASSUME UNCHANGED <<steers, taken>>, ChainsStay, HeardStays
      PROVE  SteersInv'
  BY <1>3, SteersFrame
<1>4. UNCHANGED objs => ChainsStay
  BY DEF ChainsStay
<1>5. UNCHANGED agents => HeardStays
  BY DEF HeardStays
<1>6. ASSUME NEW p, NEW b, Claimed(p, b)
      PROVE  ChainsStay
  BY <1>6 DEF Claimed, ObjsStay, ChainsStay
<1>7. ASSUME NEW p, AbortsOf(p)
      PROVE  HeardStays
  BY <1>7 DEF AbortsOf, AgentsStay, HeardStays
<1>8. ASSUME NEW a, NEW s, NEW b, RunMoves(a, s, b)
      PROVE  HeardStays
  BY <1>8 DEF RunMoves, AgentsStay, HeardStays
<1>9. ASSUME NEW n, NEW p, AgentComes(n, p)
      PROVE  HeardStays
  BY <1>9 DEF AgentComes, HeardStays
<1>10. ASSUME NEW id \in Ids, Client(id) \/ WorkflowEnds(id), ~Steer(id)
       PROVE  SteersInv'
  <2>1. CASE Prompt(id)
    BY <1>3, <1>5, <1>6, <2>1, PromptEffect DEF Prompt
  <2>2. CASE Abort(id)
    BY <1>3, <1>4, <1>7, <2>2, AbortEffect DEF Abort
  <2>3. CASE \/ CreateSession(id) \/ OpenSession(id) \/ DeleteSession(id) \/ RewindTo(id)
             \/ RunWorkflow(id) \/ WorkflowEnds(id)
    BY <1>3, <1>4, <1>5, <2>3
       DEF CreateSession, OpenSession, DeleteSession, RewindTo, RunWorkflow, WorkflowEnds
  <2> QED BY <1>10, <2>1, <2>2, <2>3 DEF Client
<1>11. ASSUME NEW c \in DOMAIN calls, CallProceeds(c)
       PROVE  SteersInv'
  <2>1. CASE FileCreated(c) \/ OpenReads(c) \/ RewindListed(c) \/ FilesOnly(c)
    BY <1>3, <1>4, <1>5, <2>1 DEF FileCreated, OpenReads, RewindListed, FilesOnly
  <2>2. CASE Registered(c)
    <3>1. PICK o, n, id : ObjComes(o, id, n) /\ AgentComes(n, o)
      BY <2>2, RegisteredEffect
    <3>2. ChainsStay
      BY <3>1 DEF ObjComes, ChainsStay
    <3> QED BY <1>3, <1>9, <2>2, <3>1, <3>2 DEF Registered
  <2>3. CASE Deleted(c)
    BY <1>3, <1>4, <1>5, <1>7, <2>3, DeletedEffect DEF Deleted
  <2>4. CASE ContentRefused(c)
    BY <1>3, <1>5, <1>6, <2>4, ContentRefusedEffect DEF ContentRefused
  <2>5. CASE ContentReady(c)
    BY <1>3, <1>4, <1>5, <1>6, <1>8, <2>5, ContentReadyEffect DEF ContentReady
  <2>6. CASE RunEnds(c)
    <3>1. RunMoves(calls[c].agent, "idle", FALSE) /\ Claimed(calls[c].obj, FALSE)
      BY <2>6, RunEndsEffect DEF RunEnds, ClaimsInv, OneClaim
    <3> QED BY <1>3, <1>6, <1>8, <2>6, <3>1 DEF RunEnds
  <2>7. CASE Swapped(c)
    <3>1. PICK o, n : AgentComes(n, o) /\ Rewired(o, n)
      BY <2>7, SwappedEffect
    <3>2. ChainsStay
      BY <3>1 DEF Rewired, ObjsStay, ChainsStay
    <3> QED BY <1>3, <1>9, <2>7, <3>1, <3>2 DEF Swapped
  <2> QED BY <1>11, <2>1, <2>2, <2>3, <2>4, <2>5, <2>6, <2>7 DEF CallProceeds
<1>12. ASSUME NEW a \in DOMAIN agents, RunOpens(a) \/ Ask(a) \/ Decide(a) \/ TimesOut(a)
       PROVE  SteersInv'
  <2>1. \E s, b : RunMoves(a, s, b)
    BY <1>12, RunOpensEffect, AskEffect DEF Decide, TimesOut
  <2>2. UNCHANGED <<objs, steers, taken>>
    BY <1>12 DEF RunOpens, Ask, Decide, TimesOut, Settle
  <2> QED BY <1>3, <1>4, <1>8, <2>1, <2>2
<1>13. CASE UNCHANGED vars
  BY <1>3, <1>4, <1>5, <1>13 DEF vars
<1>14. ASSUME NEW o \in DOMAIN objs, SteerStarts(o)
       PROVE  SteersInv'
  <2>1. UNCHANGED <<objs, agents, steers>> /\ taken' = taken \cup {<<o, AgentOf(o)>>}
    BY <1>14 DEF SteerStarts
  <2>2. AgentOf(o) \in DOMAIN agents /\ agents[AgentOf(o)].obj = o
    BY DEF Wiring
  <2>3. Unheard(AgentOf(o))
    BY <2>2, DomIs DEF Unheard, Newest, Shapes
  <2>4. \A a \in DOMAIN agents : <<o, a>> \notin taken
    BY <1>14 DEF SteerStarts
  <2>5. /\ taken' \subseteq (DOMAIN objs) \X (DOMAIN agents)
        /\ \A p \in DOMAIN objs : \A a, b \in DOMAIN agents :
             <<p, a>> \in taken' /\ <<p, b>> \in taken' => a = b
        /\ \A p \in DOMAIN objs : \A a \in DOMAIN agents :
             <<p, a>> \in taken' => agents[a].obj = p /\ Unheard(a)
    BY <2>1, <2>2, <2>3, <2>4 DEF SteersInv, TakenInv
  <2>6. TakenInv'
    BY <2>1, <2>5 DEF TakenInv, Unheard
  <2> QED BY <2>1, <2>6 DEF SteersInv, Ordered, Before, SteersInOrder
<1> QED BY <1>1, <1>2, <1>10, <1>11, <1>12, <1>13, <1>14 DEF Next, Client

\* A session only ever changes to an agent that has just been built.
LEMMA NewestStep ==
  ASSUME Basic, ClaimsInv, Newest, [Next]_vars
  PROVE  Newest'
<1>1. ASSUME DOMAIN agents' = DOMAIN agents, \A a \in DOMAIN agents : agents'[a].obj = agents[a].obj,
             \A o \in DOMAIN objs : objs'[o].agent = objs[o].agent
      PROVE  Newest'
  BY <1>1 DEF Newest, AgentOf, Basic, Wiring
<1>2. ASSUME UNCHANGED <<agents, objs>>
      PROVE  Newest'
  BY <1>2 DEF Newest, AgentOf
<1>3. ASSUME NEW id \in Ids, Client(id) \/ WorkflowEnds(id)
      PROVE  Newest'
  <2>1. CASE Prompt(id)
    BY <1>1, <2>1, PromptEffect DEF Prompt, Claimed
  <2>2. CASE Steer(id)
    BY <1>1, <2>2, SteerEffect DEF Steer, Chained
  <2>3. CASE Abort(id)
    BY <1>1, <2>3, AbortEffect DEF Abort, AbortsOf, AgentsStay
  <2>4. CASE \/ CreateSession(id) \/ OpenSession(id) \/ DeleteSession(id) \/ RewindTo(id)
             \/ RunWorkflow(id) \/ WorkflowEnds(id)
    BY <1>2, <2>4
       DEF CreateSession, OpenSession, DeleteSession, RewindTo, RunWorkflow, WorkflowEnds
  <2> QED BY <1>3, <2>1, <2>2, <2>3, <2>4 DEF Client
<1>4. ASSUME NEW c \in DOMAIN calls, CallProceeds(c)
      PROVE  Newest'
  <2>1. CASE FileCreated(c) \/ OpenReads(c) \/ RewindListed(c) \/ FilesOnly(c)
    BY <1>2, <2>1 DEF FileCreated, OpenReads, RewindListed, FilesOnly
  <2>2. CASE Registered(c)
    <3> DEFINE o == Len(objs) + 1
               n == Len(agents) + 1
    <3>1. ObjComes(o, calls[c].id, n) /\ AgentComes(n, o)
      BY <2>2, RegisteredEffect
    <3>2. \A a \in DOMAIN agents : a <= AgentOf(agents[a].obj) /\ agents[a].obj \in DOMAIN objs
      BY DEF Newest, Basic, Wiring
    <3>3. n <= n
      BY DomIs DEF Basic, Shapes
    <3> HIDE DEF o, n
    <3> QED BY <3>1, <3>2, <3>3 DEF ObjComes, AgentComes, Newest, AgentOf
  <2>3. CASE Deleted(c)
    BY <1>1, <1>2, <2>3, DeletedEffect DEF Deleted, AbortsOf, AgentsStay
  <2>4. CASE ContentRefused(c)
    BY <1>1, <2>4, ContentRefusedEffect DEF ContentRefused, Claimed
  <2>5. CASE ContentReady(c)
    BY <1>1, <2>5, ContentReadyEffect DEF ContentReady, Claimed, RunMoves, AgentsStay
  <2>6. CASE RunEnds(c)
    BY <1>1, <2>6, RunEndsEffect DEF RunEnds, ClaimsInv, OneClaim, Claimed, RunMoves, AgentsStay
  <2>7. CASE Swapped(c)
    <3> DEFINE o == calls[c].obj
               n == Len(agents) + 1
    <3>1. AgentComes(n, o) /\ Rewired(o, n)
      BY <2>7, SwappedEffect
    <3>2. \A a \in DOMAIN agents : a <= AgentOf(agents[a].obj) /\ agents[a].obj \in DOMAIN objs
      BY DEF Newest, Basic, Wiring
    <3>3. n <= n /\ \A a \in DOMAIN agents : a <= n
      BY DomIs DEF Basic, Shapes
    <3>4. o \in DOMAIN objs
      BY <2>7, PromptObj DEF Swapped, Is
    <3> HIDE DEF o, n
    <3> QED BY <3>1, <3>2, <3>3, <3>4 DEF Rewired, ObjsStay, AgentComes, Newest, AgentOf
  <2> QED BY <1>4, <2>1, <2>2, <2>3, <2>4, <2>5, <2>6, <2>7 DEF CallProceeds
<1>5. ASSUME NEW a \in DOMAIN agents, RunOpens(a) \/ Ask(a) \/ Decide(a) \/ TimesOut(a)
      PROVE  Newest'
  <2>1. \E s, b : RunMoves(a, s, b)
    BY <1>5, RunOpensEffect, AskEffect DEF Decide, TimesOut
  <2>2. UNCHANGED objs
    BY <1>5 DEF RunOpens, Ask, Decide, TimesOut, Settle
  <2> QED BY <1>1, <2>1, <2>2 DEF RunMoves, AgentsStay
<1>6. ASSUME NEW o \in DOMAIN objs, SteerSettles(o)
      PROVE  Newest'
  BY <1>1, <1>6, SettlesEffect DEF Chained, Hears, AgentsStay
<1>7. CASE UNCHANGED vars \/ \E o \in DOMAIN objs : SteerStarts(o)
  BY <1>2, <1>7 DEF vars, SteerStarts
<1> QED BY <1>3, <1>4, <1>5, <1>6, <1>7 DEF Next

-----------------------------------------------------------------------------
(* Pipelines have a session. *)

LEMMA FlowsStep ==
  ASSUME Basic, FlowsServed, [Next]_vars
  PROVE  FlowsServed'
<1> USE DEF FlowsServed, Live
<1>1. ASSUME UNCHANGED <<flow, sessions>>
      PROVE  FlowsServed'
  BY <1>1
<1>2. ASSUME NEW id \in Ids, Client(id) \/ WorkflowEnds(id)
      PROVE  FlowsServed'
  <2>1. CASE Abort(id) \/ RunWorkflow(id) \/ WorkflowEnds(id)
    BY <2>1 DEF Abort, RunWorkflow, WorkflowEnds, Basic, Shapes
  <2>2. CASE \/ CreateSession(id) \/ OpenSession(id) \/ DeleteSession(id) \/ RewindTo(id)
             \/ Prompt(id) \/ Steer(id)
    BY <1>1, <2>2 DEF CreateSession, OpenSession, DeleteSession, RewindTo, Prompt, Steer
  <2> QED BY <1>2, <2>1, <2>2 DEF Client
<1>3. ASSUME NEW c \in DOMAIN calls, CallProceeds(c)
      PROVE  FlowsServed'
  <2>1. CASE Registered(c)
    <3>1. sessions' = [sessions EXCEPT ![calls[c].id] = Len(objs) + 1] /\ UNCHANGED flow
      BY <2>1 DEF Registered, Register
    <3>2. Len(objs) + 1 # 0
      BY DomIs DEF Basic, Shapes
    <3> QED BY <3>1, <3>2 DEF Basic, Shapes
  <2>2. CASE Deleted(c)
    <3>1. \/ UNCHANGED <<sessions, flow>>
          \/ /\ sessions' = [sessions EXCEPT ![calls[c].id] = 0]
             /\ flow' = [flow EXCEPT ![calls[c].id] = "none"]
      BY <2>2, DeletedEffect
    <3> QED BY <3>1 DEF Basic, Shapes
  <2>3. CASE \/ FileCreated(c) \/ OpenReads(c) \/ ContentRefused(c) \/ ContentReady(c) \/ RunEnds(c)
             \/ RewindListed(c) \/ Swapped(c) \/ FilesOnly(c)
    BY <1>1, <2>3 DEF FileCreated, OpenReads, ContentRefused, ContentReady, RunEnds, RewindListed,
                      Swapped, FilesOnly
  <2> QED BY <1>3, <2>1, <2>2, <2>3 DEF CallProceeds
<1>4. \A a \in DOMAIN agents : RunOpens(a) \/ Ask(a) \/ Decide(a) \/ TimesOut(a)
                              => UNCHANGED <<flow, sessions>>
  BY DEF RunOpens, Ask, Decide, TimesOut, Settle
<1>5. \A o \in DOMAIN objs : SteerSettles(o) => UNCHANGED <<flow, sessions>>
  BY DEF SteerSettles
<1>6. CASE UNCHANGED vars \/ \E o \in DOMAIN objs : SteerStarts(o)
  BY <1>1, <1>6 DEF vars, SteerStarts
<1> QED BY <1>1, <1>2, <1>3, <1>4, <1>5, <1>6 DEF Next

-----------------------------------------------------------------------------
(* The theorems. *)

IInv ==
  /\ Basic /\ ClaimsInv /\ IdsInv /\ EverApart /\ Current /\ Newest /\ SteersInv
  /\ FlowsServed

LEMMA InitIInv == Init => IInv
<1> SUFFICES ASSUME Init
             PROVE  IInv
  OBVIOUS
<1>1. DOMAIN objs = {} /\ DOMAIN agents = {} /\ DOMAIN calls = {}
  BY DEF Init
<1>2. Basic
  BY <1>1, OldAssumption DEF Init, Basic, Shapes, Wiring, CallsNamed, Live
<1>3. ClaimsInv /\ Current /\ Newest /\ SteersInOrder
  BY <1>1 DEF ClaimsInv, OneClaim, AcceptedPromptsRun, Current, Newest, SteersInOrder
<1>5. SteersInv
  BY <1>1, <1>3 DEF Init, SteersInv, TakenInv
<1>4. IdsInv /\ EverApart /\ FlowsServed
  BY <1>1 DEF Init, IdsInv, InUse, Live, EverApart, Apart, DeletedUncrossed, FlowsServed
<1> QED BY <1>2, <1>3, <1>4, <1>5 DEF IInv

LEMMA NextIInv == IInv /\ [Next]_vars => IInv'
<1> SUFFICES ASSUME IInv, [Next]_vars
             PROVE  IInv'
  OBVIOUS
<1>1. Basic'
  BY BasicStep DEF IInv, ClaimsInv
<1>2. ClaimsInv'
  BY <1>1, ClaimsStep DEF IInv
<1>3. IdsInv' /\ EverApart'
  BY IdsStep, ApartStep DEF IInv
<1>4. Current' /\ Newest' /\ SteersInv' /\ FlowsServed'
  BY <1>1, CurrentStep, NewestStep, SteersStep, FlowsStep DEF IInv
<1> QED BY <1>1, <1>2, <1>3, <1>4 DEF IInv

LEMMA HostInvariant == Spec => []IInv
BY InitIInv, NextIInv, PTL DEF Spec

\* A run that is not aborted has a request, and that request holds the live
\* session unless it crossed a delete.
LEMMA IInvServed == IInv => RunsServed
<1> SUFFICES ASSUME IInv, NEW a \in DOMAIN agents, Active(a), ~agents[a].aborted,
                    IdOf(a) \notin crossed
             PROVE  Live(IdOf(a)) /\ AgentOf(sessions[IdOf(a)]) = a
  BY DEF RunsServed
<1>1. PICK c \in DOMAIN calls : RunsOn(c, a)
  BY DEF IInv, ClaimsInv, OneClaim
<1>2. Claims(c) /\ calls[c].obj = agents[a].obj /\ Named(c)
  BY <1>1 DEF IInv, ClaimsInv, OneClaim, RunsOn, Claims, Is, Basic, CallsNamed
<1>3. calls[c].obj # 0 /\ calls[c].id = IdOf(a)
  BY <1>2 DEF Named, Claims, IdOf
<1>4. sessions[calls[c].id] = calls[c].obj
  BY <1>2, <1>3 DEF IInv, EverApart, Apart, ApartOf
<1>5. AgentOf(agents[a].obj) = a
  BY DEF IInv, Current
<1> QED BY <1>2, <1>3, <1>4, <1>5 DEF Live

\* session-host.ts prompt: the claim made before the first await keeps every
\* other prompt and rewind out until the run is over, so Agent.prompt is never
\* called on an agent that runs, and no refusal leaves a session claimed.
THEOREM PromptsAreRun == Spec => []AcceptedPromptsRun
<1>1. IInv => AcceptedPromptsRun
  BY DEF IInv, ClaimsInv
<1> QED BY <1>1, HostInvariant, PTL

\* session-host.ts #swapAgent and #evict: an unaborted run is the one its live
\* session shows to clients, unless the session was prompted or opened while a
\* delete of it was in flight.
THEOREM RunsAreServed == Spec => []RunsServed
BY HostInvariant, IInvServed, PTL

\* session-host.ts deleteSession: no open, create, prompt or rewind that did
\* not cross the delete brings back the file or the live session.
THEOREM DeletedStaysDeleted == Spec => []DeletedUncrossed
<1>1. IInv => DeletedUncrossed
  BY DEF IInv, EverApart
<1> QED BY <1>1, HostInvariant, PTL

\* session-host.ts steer: the chain of a session hands its steers over in the
\* order they were sent, across refusals and rewinds that swap the agent, also
\* when one lands between a steer's taking its agent and its content.
THEOREM SteersKeepOrder == Spec => []SteersInOrder
<1>1. IInv => SteersInOrder
  BY DEF IInv, SteersInv
<1> QED BY <1>1, HostInvariant, PTL

\* session-host.ts runWorkflow and #evict: a pipeline that was not aborted has
\* a live session.
THEOREM PipelinesAreServed == Spec => []FlowsServed
<1>1. IInv => FlowsServed
  BY DEF IInv
<1> QED BY <1>1, HostInvariant, PTL

=============================================================================
